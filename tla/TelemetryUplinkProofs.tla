----------------------- MODULE TelemetryUplinkProofs -----------------------
(***************************************************************************)
(* Theorems about TelemetryUplink for every capacity, batch size, number   *)
(* of events and fault budget.                                             *)
(***************************************************************************)
EXTENDS TelemetryUplink, FiniteSetTheorems, TLAPS

-----------------------------------------------------------------------------
(* Lemmas about the helpers *)

\* Oldest and Newest select.
LEMMA Select ==
  ASSUME NEW S, NEW n
  PROVE  Oldest(S, n) \subseteq S /\ Newest(S, n) \subseteq S
BY DEF Oldest, Newest

\* Rows appended so far stay rows appended so far.
LEMMA Widen ==
  ASSUME NEW n \in Nat, NEW m \in Nat, m >= n, NEW S, S \subseteq 1..n
  PROVE  S \subseteq 1..m /\ S \cup {n + 1} \subseteq 1..(n + 1)
OBVIOUS

\* The number of rows pushed out of a ring is a natural number.
LEMMA RingCount ==
  ASSUME NEW n \in Nat, NEW S \in SUBSET (1..n)
  PROVE  Cardinality(S) \in Nat
<1>1. IsFiniteSet(1..n)
  BY FS_Interval
<1>2. IsFiniteSet(S)
  BY <1>1, FS_Subset
<1> QED
  BY <1>2, FS_CardinalityType

\* Marking the frames of a queue stale changes their live flag and no other.
LEMMA StaleFrames ==
  ASSUME NEW q \in Seq(Frames)
  PROVE  /\ Stale(q) \in Seq(Frames)
         /\ DOMAIN Stale(q) = DOMAIN q
         /\ q # <<>> => Stale(q) # <<>>
         /\ \A i \in DOMAIN q : /\ q[i] \in Frames
                                /\ Stale(q)[i].live = FALSE
                                /\ Stale(q)[i].kind = q[i].kind
                                /\ Stale(q)[i].rows = q[i].rows
<1>1. \A i \in DOMAIN q : q[i] \in Frames
  OBVIOUS
<1>2. \A i \in DOMAIN q : [q[i] EXCEPT !.live = FALSE] \in Frames
  BY <1>1 DEF Frames
<1>3. PICK n \in Nat : q \in [1..n -> Frames]
  OBVIOUS
<1>4. Stale(q) \in [1..n -> Frames]
  BY <1>2, <1>3 DEF Stale
<1>5. Stale(q) \in Seq(Frames)
  BY <1>4
<1>6. q # <<>> => Stale(q) # <<>>
  BY <1>3, <1>4
<1> QED
  BY <1>1, <1>3, <1>5, <1>6 DEF Stale, Frames

\* What is left of a queue after its head was taken.
LEMMA TailFrames ==
  ASSUME NEW q \in Seq(Frames), q # <<>>
  PROVE  /\ Tail(q) \in Seq(Frames) /\ Head(q) \in Frames
         /\ 1 \in DOMAIN q /\ Head(q) = q[1]
         /\ \A i \in DOMAIN Tail(q) : i + 1 \in DOMAIN q /\ Tail(q)[i] = q[i + 1]
OBVIOUS

\* A queue with one more frame.
LEMMA AppendFrame ==
  ASSUME NEW q \in Seq(Frames), NEW f \in Frames
  PROVE  /\ Append(q, f) \in Seq(Frames) /\ Append(q, f) # <<>>
         /\ \A i \in DOMAIN Append(q, f) :
              Append(q, f)[i] = f \/ (i \in DOMAIN q /\ Append(q, f)[i] = q[i])
OBVIOUS

-----------------------------------------------------------------------------
(* Type correctness *)

\* A part of the type invariant whose variables do not change still holds.
LEMMA Untouched ==
  /\ UsageTypes /\ UNCHANGED usageVars => UsageTypes'
  /\ DiagTypes /\ UNCHANGED diagVars => DiagTypes'
  /\ FlushTypes /\ UNCHANGED flushVars => FlushTypes'
  /\ LinkTypes /\ UNCHANGED linkVars => LinkTypes'
  /\ ServerTypes /\ UNCHANGED serverVars => ServerTypes'
<1>1. UsageTypes /\ UNCHANGED usageVars => UsageTypes'
  BY DEF UsageTypes, usageVars
<1>2. DiagTypes /\ UNCHANGED diagVars => DiagTypes'
  BY DEF DiagTypes, diagVars
<1>3. FlushTypes /\ UNCHANGED flushVars => FlushTypes'
  BY DEF FlushTypes, flushVars
<1>4. LinkTypes /\ UNCHANGED linkVars => LinkTypes'
  BY DEF LinkTypes, linkVars, threadVars
<1>5. ServerTypes /\ UNCHANGED serverVars => ServerTypes'
  BY DEF ServerTypes, serverVars, Events
<1> QED
  BY <1>1, <1>2, <1>3, <1>4, <1>5

\* Whatever fault is spent, the budget stays a budget.
LEMMA BudgetStep ==
  ASSUME left \in [Faults -> Nat],
         UNCHANGED left \/ (\E fault \in Faults : Spend(fault))
  PROVE  left' \in [Faults -> Nat]
BY DEF Spend

\* The bounds survive a step that appends no frame, loses no row and stores
\* nothing.
LEMMA BoundsKept ==
  ASSUME Bounds, produced \in Nat, rows \in Nat, produced' \in Nat, rows' \in Nat,
         produced' >= produced, rows' >= rows,
         UNCHANGED <<queue, orphans, ledger, stored>>
  PROVE  Bounds'
BY DEF Bounds, Existing

\* The same when the queue only ages, shrinks or empties and an orphan may go.
LEMMA BoundsAged ==
  ASSUME Bounds, LinkTypes, UNCHANGED <<produced, rows, ledger, stored>>,
         orphans' \subseteq orphans,
         \/ queue' = Stale(queue)
         \/ queue' = <<>>
         \/ queue # <<>> /\ queue' = Tail(queue)
  PROVE  Bounds' /\ queue' \in Seq(Frames) /\ orphans' \subseteq Frames
<1>1. CASE queue' = Stale(queue)
  BY <1>1, StaleFrames DEF Bounds, Existing, LinkTypes
<1>2. CASE queue' = <<>>
  BY <1>2 DEF Bounds, Existing, LinkTypes
<1>3. CASE queue # <<>> /\ queue' = Tail(queue)
  BY <1>3, TailFrames DEF Bounds, Existing, LinkTypes
<1> QED
  BY <1>1, <1>2, <1>3

LEMMA AppendUsageTypes ==
  ASSUME UplinkAssumption, TypeInv, NEW ok \in BOOLEAN, AppendUsage(ok)
  PROVE  TypeInv'
<1> DEFINE all    == usage \cup {produced + 1}
           kept   == Newest(all, UsageCap)
           marked == Newest(diag \cup {rows + 1}, DiagCap)
<1>1. /\ produced < MaxUsage /\ produced' = produced + 1 /\ usage' = kept
      /\ usageDisk' = IF ok THEN kept ELSE usageDisk
      /\ evicted' = evicted \cup (all \ kept) /\ lost' = lost
      /\ droppedUsage' = droppedUsage + Cardinality(all \ kept)
  BY DEF AppendUsage
<1>2. /\ \/ rows' = rows /\ diag' = diag /\ trimmed' = trimmed
         \/ /\ rows' = rows + 1 /\ diag' = marked
            /\ trimmed' = trimmed \cup ((diag \cup {rows + 1}) \ marked)
      /\ UNCHANGED <<events, diagDisk, droppedDiag, lostDiag>>
  BY DEF AppendUsage
<1>3. UNCHANGED linkVars /\ UNCHANGED serverVars /\ flushEvent' = TRUE
      /\ UNCHANGED <<flush, batch, acked>>
  BY DEF AppendUsage
<1>4. UsageTypes'
  <2>1. UsageTypes /\ MaxUsage \in Nat
    BY DEF TypeInv, TypeOK, UplinkAssumption
  <2>2. all \in SUBSET (1..(produced + 1)) /\ kept \subseteq all /\ produced + 1 \in Nat
    BY <2>1, Select DEF UsageTypes
  <2>3. Cardinality(all \ kept) \in Nat
    BY <2>2, RingCount
  <2>4. kept \subseteq 1..produced' /\ all \ kept \subseteq 1..produced'
    BY <1>1, <2>2
  <2>5. /\ usageDisk \subseteq 1..produced' /\ evicted \subseteq 1..produced'
        /\ lost \subseteq 1..produced' /\ produced' \in Nat /\ produced' <= MaxUsage
    BY <1>1, <2>1, Widen DEF UsageTypes
  <2>6. droppedUsage' \in Nat
    BY <1>1, <2>1, <2>3 DEF UsageTypes
  <2> HIDE DEF kept, all
  <2> QED
    BY <1>1, <2>4, <2>5, <2>6 DEF UsageTypes
<1>5. DiagTypes' /\ rows' >= rows
  <2>1. DiagTypes /\ marked \subseteq diag \cup {rows + 1}
    BY Select DEF TypeInv, TypeOK
  <2>2. diag \cup {rows + 1} \subseteq 1..(rows + 1)
    BY <2>1, Widen DEF DiagTypes
  <2> HIDE DEF marked
  <2>3. CASE rows' = rows /\ diag' = diag /\ trimmed' = trimmed
    BY <1>2, <2>1, <2>3 DEF DiagTypes
  <2>4. CASE rows' = rows + 1 /\ diag' = marked
             /\ trimmed' = trimmed \cup ((diag \cup {rows + 1}) \ marked)
    <3>1. /\ trimmed \subseteq 1..rows' /\ diagDisk \subseteq 1..rows'
          /\ lostDiag \subseteq 1..rows' /\ rows' \in Nat
      BY <2>1, <2>4, Widen DEF DiagTypes
    <3> QED
      BY <1>2, <2>1, <2>2, <2>4, <3>1 DEF DiagTypes
  <2> QED
    BY <1>2, <2>3, <2>4
<1>6. FlushTypes' /\ LinkTypes' /\ ServerTypes'
  BY <1>3, Untouched DEF TypeInv, TypeOK, FlushTypes
<1>7. left' \in [Faults -> Nat]
  BY BudgetStep DEF AppendUsage, Rewrite, TypeInv, TypeOK, Faults
<1>8. Bounds'
  BY <1>1, <1>3, <1>4, <1>5, BoundsKept
     DEF TypeInv, TypeOK, UsageTypes, DiagTypes, linkVars, serverVars
<1> QED
  BY <1>4, <1>5, <1>6, <1>7, <1>8 DEF TypeInv, TypeOK

LEMMA AppendDiagnosticTypes ==
  ASSUME UplinkAssumption, TypeInv, NEW ok \in BOOLEAN, AppendDiagnostic(ok)
  PROVE  TypeInv'
<1> DEFINE all    == diag \cup {rows + 1}
           kept   == Newest(all, DiagCap)
           marked == Newest(kept \cup {rows + 2}, DiagCap)
           full   == all \ kept # {}
           final  == IF full THEN marked ELSE kept
<1>1. /\ events < MaxDiag /\ events' = events + 1
      /\ rows' = rows + (IF full THEN 2 ELSE 1) /\ diag' = final
      /\ diagDisk' = IF ok THEN final ELSE diagDisk
      /\ trimmed' = trimmed \cup (((rows + 1)..rows' \cup diag) \ final)
      /\ droppedDiag' = droppedDiag + Cardinality(all \ kept)
      /\ lostDiag' = lostDiag
  BY DEF AppendDiagnostic
<1>2. /\ UNCHANGED usageVars /\ UNCHANGED linkVars /\ UNCHANGED serverVars
      /\ flushEvent' = TRUE /\ UNCHANGED <<flush, batch, acked>>
  BY DEF AppendDiagnostic
<1>3. DiagTypes' /\ rows' >= rows
  <2>1. DiagTypes /\ MaxDiag \in Nat
    BY DEF TypeInv, TypeOK, UplinkAssumption
  <2>2. all \in SUBSET (1..(rows + 1)) /\ kept \subseteq all /\ rows + 1 \in Nat
    BY <2>1, Select DEF DiagTypes
  <2>3. Cardinality(all \ kept) \in Nat
    BY <2>2, RingCount
  <2>4. rows' \in Nat /\ rows' >= rows
    BY <1>1, <2>1 DEF DiagTypes
  <2>5. final \subseteq 1..rows'
    <3>1. CASE full
      <4>1. marked \subseteq kept \cup {rows + 2} /\ rows' = rows + 2 /\ final = marked
        BY <1>1, <3>1, Select
      <4> HIDE DEF kept, marked, final, full, all
      <4>2. kept \subseteq 1..(rows + 2) /\ rows + 2 \in Nat
        <5>1. rows \in Nat /\ kept \subseteq 1..(rows + 1)
          BY <2>1, <2>2 DEF DiagTypes
        <5> QED
          BY <5>1, Widen
      <4> QED
        BY <2>1, <4>1, <4>2 DEF DiagTypes
    <3>2. CASE ~full
      <4>1. rows' = rows + 1 /\ final = kept
        BY <1>1, <3>2
      <4> HIDE DEF kept, marked, final, full
      <4> QED
        BY <2>2, <4>1
    <3> QED
      BY <3>1, <3>2
  <2> HIDE DEF final
  <2>6. /\ diag \subseteq 1..rows' /\ diagDisk \subseteq 1..rows'
        /\ trimmed \subseteq 1..rows' /\ lostDiag \subseteq 1..rows'
        /\ (rows + 1)..rows' \subseteq 1..rows'
    BY <2>1, <2>4, Widen DEF DiagTypes
  <2>7. /\ diag' \subseteq 1..rows' /\ diagDisk' \subseteq 1..rows'
        /\ trimmed' \subseteq 1..rows' /\ lostDiag' \subseteq 1..rows'
    BY <1>1, <2>5, <2>6
  <2>8. droppedDiag' \in Nat /\ events' \in Nat /\ events' <= MaxDiag
    BY <1>1, <2>1, <2>3 DEF DiagTypes
  <2> QED
    BY <2>4, <2>7, <2>8 DEF DiagTypes
<1>4. UsageTypes' /\ FlushTypes' /\ LinkTypes' /\ ServerTypes'
  BY <1>2, Untouched DEF TypeInv, TypeOK, FlushTypes
<1>5. left' \in [Faults -> Nat]
  BY BudgetStep DEF AppendDiagnostic, Rewrite, TypeInv, TypeOK, Faults
<1>6. Bounds'
  BY <1>2, <1>3, BoundsKept
     DEF TypeInv, TypeOK, UsageTypes, DiagTypes, usageVars, linkVars, serverVars
<1> QED
  BY <1>3, <1>4, <1>5, <1>6 DEF TypeInv, TypeOK

LEMMA ReportTypes ==
  ASSUME TypeInv, NEW kind \in {"usage", "diag"}, NEW buffer, NEW size,
         NEW waiting \in {"usageAck", "diagAck"}, NEW next \in {"diag", "idle"},
         buffer \subseteq 1..(IF kind = "usage" THEN produced ELSE rows),
         Report(kind, buffer, size, waiting, next)
  PROVE  TypeInv'
<1> DEFINE f == [kind |-> kind, rows |-> batch', live |-> TRUE]
<1>1. /\ UNCHANGED usageVars /\ UNCHANGED diagVars /\ UNCHANGED serverVars /\ UNCHANGED left
      /\ UNCHANGED <<flushEvent, acked, conn, orphans, done, unsaid, unsaidLate>>
      /\ flush' \in {"usageAck", "diagAck", "diag", "idle"}
  BY DEF Report, threadVars
<1>2. produced \in Nat /\ rows \in Nat
  BY DEF TypeInv, TypeOK, UsageTypes, DiagTypes
<1>3. \/ batch' = batch /\ queue' = queue
      \/ batch' \subseteq buffer /\ queue' = Append(queue, f)
  BY Select DEF Report
<1>4. batch' \subseteq Nat
  <2>1. buffer \subseteq Nat /\ batch \subseteq Nat
    BY <1>2 DEF TypeInv, TypeOK, FlushTypes
  <2> QED
    BY <1>3, <2>1
<1>5. FlushTypes'
  BY <1>1, <1>4 DEF TypeInv, TypeOK, FlushTypes
<1>6. queue' = queue
      \/ (f \in Frames /\ f.rows \subseteq Existing(f) /\ queue' = Append(queue, f))
  BY <1>3, <1>4 DEF Frames, Existing
<1>7. LinkTypes'
  BY <1>1, <1>6, AppendFrame DEF TypeInv, TypeOK, LinkTypes
<1>8. Bounds'
  <2> HIDE DEF f
  <2>1. /\ UNCHANGED <<produced, rows, ledger, stored, orphans>>
        /\ \A g : Existing(g)' = Existing(g)
    BY <1>1 DEF usageVars, diagVars, serverVars, Existing
  <2>2. \A i \in DOMAIN queue' : queue'[i].rows \subseteq Existing(queue'[i])
    BY <1>6, AppendFrame DEF TypeInv, TypeOK, LinkTypes, Bounds
  <2> QED
    BY <2>1, <2>2 DEF TypeInv, Bounds, Existing
<1> QED
  BY <1>1, <1>5, <1>7, <1>8, Untouched DEF TypeInv, TypeOK

LEMMA AckTypes ==
  ASSUME TypeInv, NEW ok \in BOOLEAN, AckUsage(ok) \/ AckDiagnostics(ok)
  PROVE  TypeInv'
<1>1. left' \in [Faults -> Nat]
  BY BudgetStep DEF AckUsage, AckDiagnostics, Rewrite, TypeInv, TypeOK, Faults
<1>2. UsageTypes'
  BY Untouched DEF AckUsage, AckDiagnostics, TypeInv, TypeOK, UsageTypes
<1>3. DiagTypes'
  BY Untouched DEF AckUsage, AckDiagnostics, TypeInv, TypeOK, DiagTypes
<1>4. FlushTypes'
  BY DEF AckUsage, AckDiagnostics, TypeInv, TypeOK, FlushTypes
<1>5. UNCHANGED linkVars /\ UNCHANGED serverVars /\ UNCHANGED <<produced, rows>>
  BY DEF AckUsage, AckDiagnostics, usageVars, diagVars
<1>6. Bounds'
  BY <1>5, BoundsKept DEF TypeInv, TypeOK, UsageTypes, DiagTypes, linkVars, serverVars
<1> QED
  BY <1>1, <1>2, <1>3, <1>4, <1>5, <1>6, Untouched DEF TypeInv, TypeOK

\* The queue ages or empties: timeouts, disconnections, crashes, restarts.
LEMMA FaultTypes ==
  ASSUME TypeInv, AckTimeout \/ Disconnect \/ DaemonCrash \/ ServerRestart
  PROVE  TypeInv'
<1>1. left' \in [Faults -> Nat]
  BY BudgetStep DEF AckTimeout, Disconnect, DaemonCrash, ServerRestart, TypeInv, TypeOK, Faults
<1>2. UsageTypes' /\ UNCHANGED produced
  <2>1. CASE DaemonCrash
    BY <2>1 DEF DaemonCrash, TypeInv, TypeOK, UsageTypes
  <2>2. CASE UNCHANGED usageVars
    BY <2>2, Untouched DEF TypeInv, TypeOK, usageVars
  <2> QED
    BY <2>1, <2>2 DEF AckTimeout, Disconnect, ServerRestart
<1>3. DiagTypes' /\ UNCHANGED rows
  <2>1. CASE DaemonCrash
    BY <2>1 DEF DaemonCrash, TypeInv, TypeOK, DiagTypes
  <2>2. CASE UNCHANGED diagVars
    BY <2>2, Untouched DEF TypeInv, TypeOK, diagVars
  <2> QED
    BY <2>1, <2>2 DEF AckTimeout, Disconnect, ServerRestart
<1>4. FlushTypes'
  BY DEF AckTimeout, Disconnect, DaemonCrash, ServerRestart, LinkLost, TypeInv, TypeOK, FlushTypes
<1>5. /\ UNCHANGED <<ledger, reported, stored>>
      /\ orphans' \subseteq orphans /\ conn' \in {conn, "down"}
      /\ queue' = Stale(queue) \/ queue' = <<>>
  BY DEF AckTimeout, Disconnect, DaemonCrash, ServerRestart, LinkLost, serverVars
<1>6. /\ done' \in BOOLEAN
      /\ done' => done /\ queue' = Stale(queue)
      /\ unsaid' \subseteq unsaid /\ unsaidLate' \subseteq unsaidLate
      /\ muted' \subseteq muted \cup unsaid \cup unsaidLate
  <2>1. CASE ServerRestart
    BY <2>1 DEF ServerRestart
  <2>2. CASE AckTimeout \/ Disconnect \/ DaemonCrash
    <3>1. UNCHANGED <<done, unsaid, unsaidLate, muted>> /\ queue' = Stale(queue)
      BY <2>2 DEF AckTimeout, Disconnect, DaemonCrash, threadVars, serverVars
    <3> QED
      BY <3>1 DEF TypeInv, TypeOK, LinkTypes
  <2> QED
    BY <2>1, <2>2
<1>7. Bounds' /\ queue' \in Seq(Frames) /\ orphans' \subseteq Frames
  BY <1>2, <1>3, <1>5, BoundsAged DEF TypeInv, TypeOK, LinkTypes
<1>8. done' => queue' # <<>>
  BY <1>6, StaleFrames DEF TypeInv, TypeOK, LinkTypes
<1>9. LinkTypes' /\ ServerTypes'
  <2>1. /\ conn \in {"down", "up"} /\ unsaid \subseteq Nat /\ unsaidLate \subseteq Nat
        /\ muted \subseteq Nat /\ ledger \subseteq Nat /\ stored \subseteq Nat
        /\ reported \in [Events -> Nat]
    BY DEF TypeInv, TypeOK, LinkTypes, ServerTypes
  <2>2. LinkTypes'
    <3>1. unsaid' \subseteq Nat /\ unsaidLate' \subseteq Nat /\ conn' \in {"down", "up"}
      BY <2>1, <1>5, <1>6
    <3>2. queue' \in Seq(Frames) /\ orphans' \subseteq Frames /\ done' \in BOOLEAN
      BY <1>6, <1>7
    <3> QED
      BY <1>8, <3>1, <3>2 DEF LinkTypes
  <2>3. ServerTypes'
    BY <2>1, <1>5, <1>6 DEF ServerTypes, Events
  <2> QED
    BY <2>2, <2>3
<1> QED
  BY <1>1, <1>2, <1>3, <1>4, <1>7, <1>9 DEF TypeInv, TypeOK

LEMMA ConnectTypes == ASSUME TypeInv, Connect PROVE TypeInv'
<1>1. /\ UNCHANGED usageVars /\ UNCHANGED diagVars /\ UNCHANGED serverVars /\ UNCHANGED left
      /\ UNCHANGED <<batch, acked>> /\ flush' = "idle" /\ flushEvent' = TRUE
      /\ conn' = "up" /\ queue' = <<>>
      /\ \A f \in orphans' : f \in orphans \/ \E i \in DOMAIN queue : f = queue[1]
      /\ done' = FALSE /\ unsaid' = {} /\ unsaidLate' = unsaidLate \cup unsaid
  BY DEF Connect, Supersede
<1>2. \A f \in orphans' : f \in Frames /\ f.rows \subseteq Existing(f)
  <2>1. \A i \in DOMAIN queue : 1 \in DOMAIN queue /\ queue[1] \in Frames
    BY DEF TypeInv, TypeOK, LinkTypes
  <2> QED
    BY <1>1, <2>1 DEF TypeInv, TypeOK, LinkTypes, Bounds
<1>3. LinkTypes' /\ Bounds'
  <2>1. unsaid \subseteq Nat /\ unsaidLate \subseteq Nat /\ queue' \in Seq(Frames)
    BY <1>1 DEF TypeInv, TypeOK, LinkTypes
  <2>2. LinkTypes'
    BY <1>1, <1>2, <2>1 DEF LinkTypes
  <2>3. Bounds'
    BY <1>1, <1>2 DEF TypeInv, Bounds, Existing, usageVars, diagVars, serverVars
  <2> QED
    BY <2>2, <2>3
<1>4. FlushTypes'
  BY <1>1 DEF TypeInv, TypeOK, FlushTypes
<1> QED
  BY <1>1, <1>3, <1>4, Untouched DEF TypeInv, TypeOK

LEMMA StoreTypes ==
  ASSUME TypeInv, NEW f \in Frames, f.rows \subseteq Existing(f), Store(f)
  PROVE  /\ ServerTypes' /\ ledger' \subseteq 1..produced /\ stored' \subseteq 1..rows
<1>1. ledger' \subseteq 1..produced /\ stored' \subseteq 1..rows
  BY DEF Store, New, TypeInv, Bounds, Existing
<1>2. UNCHANGED <<reported, muted>>
  BY DEF Store
<1> QED
  BY <1>1, <1>2 DEF ServerTypes, TypeInv, TypeOK, UsageTypes, DiagTypes, Events

LEMMA WriterTypes ==
  ASSUME TypeInv, WriteReport \/ WriteFails \/ (\E f \in orphans : WriteOrphan(f))
  PROVE  TypeInv'
<1>f. ASSUME NEW f \in Frames, f.rows \subseteq Existing(f) PROVE New(f) \subseteq Nat
  BY <1>f DEF New, Existing, TypeInv, TypeOK, UsageTypes
<1>1. CASE WriteReport
  <2>1. /\ queue # <<>> /\ UNCHANGED <<conn, queue, orphans, unsaidLate>>
        /\ Store(Head(queue)) /\ done' = TRUE /\ unsaid' = New(Head(queue))
        /\ UNCHANGED usageVars /\ UNCHANGED diagVars /\ UNCHANGED flushVars /\ UNCHANGED left
    BY <1>1 DEF WriteReport
  <2>2. Head(queue) \in Frames /\ Head(queue).rows \subseteq Existing(Head(queue))
    BY <2>1, TailFrames DEF TypeInv, TypeOK, LinkTypes, Bounds
  <2>3. ServerTypes' /\ ledger' \subseteq 1..produced /\ stored' \subseteq 1..rows
    BY <2>1, <2>2, StoreTypes
  <2>4. LinkTypes'
    BY <2>1, <2>2, <1>f DEF TypeInv, TypeOK, LinkTypes
  <2>5. Bounds'
    BY <2>1, <2>3 DEF TypeInv, Bounds, Existing, usageVars, diagVars
  <2> QED
    BY <2>1, <2>3, <2>4, <2>5, Untouched DEF TypeInv, TypeOK
<1>2. CASE WriteFails
  <2>1. left' \in [Faults -> Nat]
    BY <1>2, BudgetStep DEF WriteFails, TypeInv, TypeOK, Faults
  <2>2. /\ queue # <<>> /\ queue' = Tail(queue) /\ UNCHANGED orphans /\ UNCHANGED conn
        /\ ~done /\ UNCHANGED <<done, unsaid, unsaidLate>>
        /\ UNCHANGED usageVars /\ UNCHANGED diagVars /\ UNCHANGED flushVars
        /\ UNCHANGED serverVars
    BY <1>2 DEF WriteFails, threadVars
  <2>3. Bounds' /\ LinkTypes'
    BY <2>2, BoundsAged DEF TypeInv, TypeOK, LinkTypes, usageVars, diagVars, serverVars
  <2> QED
    BY <2>1, <2>2, <2>3, Untouched DEF TypeInv, TypeOK
<1>3. CASE \E f \in orphans : WriteOrphan(f)
  <2>1. PICK f \in orphans : WriteOrphan(f)
    BY <1>3
  <2>2. f \in Frames /\ f.rows \subseteq Existing(f)
    BY DEF TypeInv, TypeOK, LinkTypes, Bounds
  <2>3. ServerTypes' /\ ledger' \subseteq 1..produced /\ stored' \subseteq 1..rows
    BY <2>1, <2>2, StoreTypes DEF WriteOrphan
  <2>4. /\ orphans' = orphans \ {f} /\ unsaidLate' = unsaidLate \cup New(f)
        /\ UNCHANGED <<conn, queue, done, unsaid>>
        /\ UNCHANGED usageVars /\ UNCHANGED diagVars /\ UNCHANGED flushVars /\ UNCHANGED left
    BY <2>1 DEF WriteOrphan
  <2>5. LinkTypes'
    BY <2>2, <2>4, <1>f DEF TypeInv, TypeOK, LinkTypes
  <2>6. Bounds'
    BY <2>3, <2>4 DEF TypeInv, Bounds, Existing, usageVars, diagVars
  <2> QED
    BY <2>3, <2>4, <2>5, <2>6, Untouched DEF TypeInv, TypeOK
<1> QED
  BY <1>1, <1>2, <1>3

\* Emitting an event changes its count and no other.
LEMMA EmitTypes ==
  ASSUME TypeInv, NEW u, Emit(u), UNCHANGED <<ledger, stored, muted>>
  PROVE  ServerTypes'
<1>1. reported \in [Events -> Nat]
  BY DEF TypeInv, TypeOK, ServerTypes
<1>2. reported' \in [Events -> Nat]
  <2>1. reported' = [reported EXCEPT ![u] = reported[u] + 1]
    BY DEF Emit
  <2>2. CASE u \in Events
    <3>1. reported[u] + 1 \in Nat
      BY <1>1, <2>2
    <3> QED
      BY <1>1, <2>1, <3>1
  <2>3. CASE u \notin Events
    BY <1>1, <2>1, <2>3
  <2> QED
    BY <2>2, <2>3
<1> QED
  BY <1>2 DEF TypeInv, TypeOK, ServerTypes, Events

LEMMA TellTypes ==
  ASSUME TypeInv, EmitNext \/ AckReport \/ (\E u \in unsaidLate : EmitLate(u))
  PROVE  TypeInv'
<1>1. CASE EmitNext
  <2>1. PICK u \in Oldest(unsaid, 1) : Emit(u) /\ unsaid' = unsaid \ {u}
    BY <1>1 DEF EmitNext
  <2>2. /\ UNCHANGED <<conn, queue, orphans, done, unsaidLate, ledger, stored, muted>>
        /\ UNCHANGED usageVars /\ UNCHANGED diagVars /\ UNCHANGED flushVars /\ UNCHANGED left
    BY <1>1 DEF EmitNext
  <2>3. ServerTypes'
    BY <2>1, <2>2, EmitTypes
  <2>4. LinkTypes' /\ Bounds'
    BY <2>1, <2>2 DEF TypeInv, TypeOK, LinkTypes, Bounds, Existing, usageVars, diagVars
  <2> QED
    BY <2>2, <2>3, <2>4, Untouched DEF TypeInv, TypeOK
<1>2. CASE AckReport
  <2>1. /\ queue # <<>> /\ queue' = Tail(queue) /\ acked' = (acked \/ Head(queue).live)
        /\ done' = FALSE /\ UNCHANGED <<conn, orphans, unsaid, unsaidLate>>
        /\ UNCHANGED usageVars /\ UNCHANGED diagVars /\ UNCHANGED serverVars /\ UNCHANGED left
        /\ UNCHANGED <<flush, flushEvent, batch>>
    BY <1>2 DEF AckReport, TypeInv, TypeOK, LinkTypes
  <2>2. Head(queue) \in Frames
    BY <2>1, TailFrames DEF TypeInv, TypeOK, LinkTypes
  <2>3. Bounds' /\ LinkTypes'
    BY <2>1, BoundsAged DEF TypeInv, TypeOK, LinkTypes, usageVars, diagVars, serverVars
  <2>4. FlushTypes'
    BY <2>1, <2>2 DEF TypeInv, TypeOK, FlushTypes, Frames
  <2> QED
    BY <2>1, <2>3, <2>4, Untouched DEF TypeInv, TypeOK
<1>3. CASE \E u \in unsaidLate : EmitLate(u)
  <2>1. PICK u \in unsaidLate : EmitLate(u)
    BY <1>3
  <2>2. /\ UNCHANGED <<conn, queue, orphans, done, unsaid, ledger, stored, muted>>
        /\ unsaidLate' = unsaidLate \ {u} /\ Emit(u)
        /\ UNCHANGED usageVars /\ UNCHANGED diagVars /\ UNCHANGED flushVars /\ UNCHANGED left
    BY <2>1 DEF EmitLate
  <2>3. ServerTypes'
    BY <2>2, EmitTypes
  <2>4. LinkTypes' /\ Bounds'
    BY <2>2 DEF TypeInv, TypeOK, LinkTypes, Bounds, Existing, usageVars, diagVars
  <2> QED
    BY <2>2, <2>3, <2>4, Untouched DEF TypeInv, TypeOK
<1> QED
  BY <1>1, <1>2, <1>3

LEMMA TypeInit == ASSUME UplinkAssumption, Init PROVE TypeInv
<1>1. TypeOK
  <2>1. UsageTypes /\ DiagTypes
    BY DEF UplinkAssumption, Init, UsageTypes, DiagTypes
  <2>2. FlushTypes /\ LinkTypes
    <3>1. <<>> \in Seq(Frames)
      OBVIOUS
    <3>2. Init => FlushTypes
      BY DEF Init, FlushTypes
    <3> QED
      BY <3>1, <3>2 DEF Init, LinkTypes
  <2>3. ServerTypes
    BY DEF Init, ServerTypes
  <2> QED
    BY <2>1, <2>2, <2>3 DEF UplinkAssumption, Init, TypeOK
<1>2. Bounds
  BY DEF Init, Bounds
<1> QED
  BY <1>1, <1>2 DEF TypeInv

LEMMA TypeStep == ASSUME UplinkAssumption, TypeInv, [Next]_vars PROVE TypeInv'
<1>1. ASSUME NEW ok \in BOOLEAN, AppendUsage(ok) PROVE TypeInv'
  BY <1>1, AppendUsageTypes
<1>2. ASSUME NEW ok \in BOOLEAN, AppendDiagnostic(ok) PROVE TypeInv'
  BY <1>2, AppendDiagnosticTypes
<1>3. CASE FlushWake
  <2>1. /\ UNCHANGED usageVars /\ UNCHANGED diagVars /\ UNCHANGED linkVars
        /\ UNCHANGED serverVars /\ UNCHANGED left /\ UNCHANGED <<batch, acked>>
        /\ flushEvent' = FALSE /\ flush' = "usage"
    BY <1>3 DEF FlushWake
  <2>2. FlushTypes'
    BY <2>1 DEF TypeInv, TypeOK, FlushTypes
  <2>3. Bounds'
    BY <2>1, BoundsKept
       DEF TypeInv, TypeOK, UsageTypes, DiagTypes, usageVars, diagVars, linkVars, serverVars
  <2> QED
    BY <2>1, <2>2, <2>3, Untouched DEF TypeInv, TypeOK
<1>4. CASE FlushUsage
  BY <1>4, ReportTypes DEF FlushUsage, TypeInv, TypeOK, UsageTypes
<1>5. CASE FlushDiagnostics
  BY <1>5, ReportTypes DEF FlushDiagnostics, TypeInv, TypeOK, DiagTypes
<1>6. ASSUME NEW ok \in BOOLEAN, AckUsage(ok) \/ AckDiagnostics(ok) PROVE TypeInv'
  BY <1>6, AckTypes
<1>7. CASE AckTimeout \/ Disconnect \/ DaemonCrash \/ ServerRestart
  BY <1>7, FaultTypes
<1>8. CASE Connect
  BY <1>8, ConnectTypes
<1>9. CASE WriteReport \/ WriteFails \/ (\E f \in orphans : WriteOrphan(f))
  BY <1>9, WriterTypes
<1>11. CASE EmitNext \/ AckReport \/ (\E u \in unsaidLate : EmitLate(u))
  BY <1>11, TellTypes
<1>10. CASE UNCHANGED vars
  <2>1. /\ UNCHANGED usageVars /\ UNCHANGED diagVars /\ UNCHANGED flushVars
        /\ UNCHANGED linkVars /\ UNCHANGED serverVars /\ UNCHANGED left
    BY <1>10 DEF vars
  <2>2. Bounds'
    BY <2>1, BoundsKept
       DEF TypeInv, TypeOK, UsageTypes, DiagTypes, usageVars, diagVars, linkVars, serverVars
  <2> QED
    BY <2>1, <2>2, Untouched DEF TypeInv, TypeOK
<1> QED
  BY <1>1, <1>2, <1>3, <1>4, <1>5, <1>6, <1>7, <1>8, <1>9, <1>10, <1>11 DEF Next

\* Type correctness: the daemon's buffers, the link and the server's tables keep
\* their shape, and no report ever names a row that was not appended.
THEOREM TypeCorrect == ASSUME UplinkAssumption PROVE Spec => []TypeInv
<1>1. Init => TypeInv
  BY TypeInit
<1>2. TypeInv /\ [Next]_vars => TypeInv'
  BY TypeStep
<1> QED
  BY <1>1, <1>2, PTL DEF Spec

-----------------------------------------------------------------------------
(* Nothing produced is ever lost *)

\* At most one frame is awaited, it carries the batch the loop peeked, and an
\* ack on the wire means that very batch is recorded.
Awaited ==
  /\ \A i \in DOMAIN queue : queue[i].live =>
       /\ flush = (IF queue[i].kind = "usage" THEN "usageAck" ELSE "diagAck")
       /\ queue[i].rows = batch
       /\ ~acked
       /\ \A j \in DOMAIN queue : queue[j].live => j = i
  /\ acked => /\ flush \in {"usageAck", "diagAck"}
              /\ flush = "usageAck" => batch \subseteq ledger
  /\ conn = "down" => flush = "off"

\* The rows of a report that was committed are in the tables.
Committed ==
  done => /\ Head(queue).kind = "usage" => Head(queue).rows \subseteq ledger
          /\ Head(queue).kind = "diag" => Head(queue).rows \subseteq stored

SafeInv == TypeInv /\ Committed /\ Awaited /\ UsageNeverLost

\* The head of a queue is still the head when a frame is appended, and keeps its
\* rows when the queue ages.
LEMMA HeadKept ==
  ASSUME NEW q \in Seq(Frames), q # <<>>
  PROVE  /\ \A f \in Frames : Head(Append(q, f)) = Head(q)
         /\ Head(Stale(q)).kind = Head(q).kind /\ Head(Stale(q)).rows = Head(q).rows
<1>1. Stale(q) \in Seq(Frames) /\ Stale(q) # <<>> /\ 1 \in DOMAIN q
  <2>1. 1 \in DOMAIN q
    OBVIOUS
  <2> QED
    BY <2>1, StaleFrames
<1>2. Head(Stale(q)) = Stale(q)[1] /\ Head(q) = q[1]
  BY <1>1
<1>3. Head(Stale(q)).kind = Head(q).kind /\ Head(Stale(q)).rows = Head(q).rows
  BY <1>1, <1>2, StaleFrames
<1>4. \A f \in Frames : Head(Append(q, f)) = Head(q)
  OBVIOUS
<1> QED
  BY <1>3, <1>4

\* What a step does to the head of the queue.
LEMMA HeadStep ==
  ASSUME TypeInv, [Next]_vars, done', ~WriteReport
  PROVE  /\ done /\ ledger \subseteq ledger' /\ stored \subseteq stored'
         /\ queue' = queue \/ queue' = Stale(queue)
            \/ \E f \in Frames : queue' = Append(queue, f)
<1>1. ASSUME NEW kind \in {"usage", "diag"}, NEW buffer, NEW size, NEW waiting, NEW next,
             buffer \subseteq Nat, Report(kind, buffer, size, waiting, next)
      PROVE  /\ queue' = queue \/ \E f \in Frames : queue' = Append(queue, f)
             /\ UNCHANGED <<done, ledger, stored>>
  <2> DEFINE f == [kind |-> kind, rows |-> batch', live |-> TRUE]
  <2>1. /\ UNCHANGED <<done, ledger, stored>>
        /\ queue' = queue \/ (batch' \subseteq buffer /\ queue' = Append(queue, f))
    <3>1. CASE buffer = {}
      BY <1>1, <3>1 DEF Report, threadVars, serverVars
    <3>2. CASE buffer # {}
      <4>1. batch' = Oldest(buffer, size) /\ queue' = Append(queue, f)
        BY <1>1, <3>2 DEF Report
      <4>2. UNCHANGED <<done, ledger, stored>>
        BY <1>1 DEF Report, threadVars, serverVars
      <4> QED
        BY <4>1, <4>2, Select
    <3> QED
      BY <3>1, <3>2
  <2>2. batch' \subseteq buffer => f \in Frames
    BY <1>1 DEF Frames
  <2> QED
    BY <2>1, <2>2
<1>2. usage \subseteq Nat /\ diag \subseteq Nat
  BY DEF TypeInv, TypeOK, UsageTypes, DiagTypes
<1>3. CASE FlushUsage \/ FlushDiagnostics
  BY <1>1, <1>2, <1>3 DEF FlushUsage, FlushDiagnostics
<1>4. CASE AckTimeout \/ Disconnect \/ DaemonCrash
  BY <1>4 DEF AckTimeout, Disconnect, DaemonCrash, threadVars, serverVars
<1>5. CASE ServerRestart \/ Connect \/ AckReport
  BY <1>5 DEF ServerRestart, Connect, Supersede, AckReport
<1>6. CASE WriteFails
  BY <1>6 DEF WriteFails, threadVars
<1>7. CASE EmitNext \/ (\E u \in unsaidLate : EmitLate(u)) \/ \E f \in orphans : WriteOrphan(f)
  BY <1>7 DEF EmitNext, EmitLate, WriteOrphan, Store
<1>8. CASE UNCHANGED <<linkVars, serverVars>>
  BY <1>8 DEF linkVars, threadVars, serverVars
<1> QED
  BY <1>3, <1>4, <1>5, <1>6, <1>7, <1>8
     DEF Next, vars, AppendUsage, AppendDiagnostic, FlushWake, AckUsage, AckDiagnostics

LEMMA CommittedStep ==
  ASSUME TypeInv, Committed, [Next]_vars
  PROVE  Committed'
<1>0. queue \in Seq(Frames) /\ (done => queue # <<>>)
  BY DEF TypeInv, TypeOK, LinkTypes
<1>1. CASE WriteReport
  <2>1. queue # <<>> /\ Store(Head(queue)) /\ queue' = queue
    BY <1>1 DEF WriteReport
  <2> QED
    BY <2>1 DEF Committed, Store, New
<1>2. CASE ~WriteReport
  <2> SUFFICES ASSUME done' PROVE Committed'
    BY DEF Committed
  <2>1. /\ done /\ ledger \subseteq ledger' /\ stored \subseteq stored'
        /\ queue' = queue \/ queue' = Stale(queue)
           \/ \E f \in Frames : queue' = Append(queue, f)
    BY <1>2, HeadStep
  <2>2. Head(queue').kind = Head(queue).kind /\ Head(queue').rows = Head(queue).rows
    BY <1>0, <2>1, HeadKept
  <2> QED
    BY <2>1, <2>2 DEF Committed
<1> QED
  BY <1>1, <1>2

LEMMA AwaitedStep ==
  ASSUME UplinkAssumption, TypeInv, Committed, Awaited, [Next]_vars
  PROVE  Awaited'
<1> USE DEF TypeInv, TypeOK, LinkTypes, FlushTypes
<1>1. CASE UNCHANGED <<flush, batch, acked, conn, queue, ledger>>
  BY <1>1 DEF Awaited
<1>2. CASE FlushWake
  BY <1>2 DEF FlushWake, Awaited, linkVars
<1>3. ASSUME NEW kind \in {"usage", "diag"}, NEW buffer, NEW size, NEW next,
             Report(kind, buffer, size,
                    IF kind = "usage" THEN "usageAck" ELSE "diagAck", next),
             next \in {"diag", "idle"}
      PROVE  Awaited'
  <2> DEFINE f == [kind |-> kind, rows |-> batch', live |-> TRUE]
  <2>1. flush = kind /\ acked' = acked /\ conn' = conn
    BY <1>3 DEF Report
  <2>2. ~acked /\ \A i \in DOMAIN queue : ~queue[i].live
    BY <2>1 DEF Awaited
  <2>3. CASE queue' = queue
    BY <2>1, <2>2, <2>3 DEF Awaited
  <2>4. CASE buffer # {}
    <3>1. /\ flush' = IF kind = "usage" THEN "usageAck" ELSE "diagAck"
          /\ queue' = Append(queue, f)
      BY <1>3, <2>4 DEF Report
    <3>2. /\ \A i \in DOMAIN queue' : i = Len(queue) + 1 \/ (i \in DOMAIN queue /\ queue'[i] = queue[i])
          /\ Len(queue) + 1 \in DOMAIN queue' /\ queue'[Len(queue) + 1] = f
      BY <3>1
    <3>3. \A i \in DOMAIN queue' : queue'[i].live => i = Len(queue) + 1
      BY <2>2, <3>2
    <3> QED
      BY <2>1, <2>2, <3>1, <3>2, <3>3 DEF Awaited
  <2> QED
    BY <1>3, <2>3, <2>4 DEF Report
<1>4. CASE FlushUsage
  BY <1>4, <1>3 DEF FlushUsage
<1>5. CASE FlushDiagnostics
  BY <1>5, <1>3 DEF FlushDiagnostics
<1>6. ASSUME NEW ok \in BOOLEAN, AckUsage(ok) \/ AckDiagnostics(ok) PROVE Awaited'
  BY <1>6 DEF AckUsage, AckDiagnostics, Awaited, linkVars
<1>7. CASE AckTimeout \/ Disconnect \/ DaemonCrash \/ ServerRestart
  <2>1. acked' = FALSE /\ (queue' = Stale(queue) \/ queue' = <<>>)
    BY <1>7 DEF AckTimeout, Disconnect, DaemonCrash, ServerRestart, LinkLost
  <2>2. flush' = "off" \/ (conn' = conn /\ flush \in {"usageAck", "diagAck"})
    BY <1>7 DEF AckTimeout, Disconnect, DaemonCrash, ServerRestart, LinkLost
  <2>3. \A i \in DOMAIN queue' : ~queue'[i].live
    <3>1. CASE queue' = Stale(queue)
      BY <3>1, StaleFrames
    <3>2. CASE queue' = <<>>
      BY <3>2
    <3> QED
      BY <2>1, <3>1, <3>2
  <2> QED
    BY <2>1, <2>2, <2>3 DEF Awaited
<1>8. CASE Connect
  BY <1>8 DEF Connect, Supersede, Awaited
<1>9. CASE AckReport
  <2>1. /\ queue # <<>> /\ queue' = Tail(queue) /\ acked' = (acked \/ Head(queue).live)
        /\ done /\ UNCHANGED <<flush, batch, conn, ledger>>
    BY <1>9 DEF AckReport, serverVars
  <2>2. /\ 1 \in DOMAIN queue /\ Head(queue) = queue[1] /\ Head(queue) \in Frames
        /\ \A i \in DOMAIN queue' : i + 1 \in DOMAIN queue /\ queue'[i] = queue[i + 1] /\ i \in Nat \ {0}
    BY <2>1, TailFrames
  <2>3. ledger \subseteq ledger'
    BY <2>1
  <2>4. CASE Head(queue).live
    <3>1. \A i \in DOMAIN queue' : ~queue'[i].live
      BY <2>2, <2>4 DEF Awaited
    <3>2. /\ flush = (IF queue[1].kind = "usage" THEN "usageAck" ELSE "diagAck")
          /\ queue[1].rows = batch /\ queue[1].kind \in {"usage", "diag"}
      BY <2>2, <2>4 DEF Awaited, Frames
    <3>3. flush = "usageAck" => batch \subseteq ledger'
      BY <2>1, <2>2, <3>2 DEF Committed
    <3> QED
      BY <2>1, <3>1, <3>2, <3>3 DEF Awaited
  <2>5. CASE ~Head(queue).live
    <3>1. acked' = acked
      BY <2>1, <2>5
    <3>2. \A i, j \in DOMAIN queue' : i + 1 = j + 1 => i = j
      BY <2>2
    <3> QED
      BY <2>1, <2>2, <2>3, <3>1, <3>2 DEF Awaited
  <2> QED
    BY <2>4, <2>5
<1>10. CASE WriteFails
  <2>1. queue # <<>> /\ queue' = Tail(queue) /\ UNCHANGED <<flush, batch, acked, ledger, conn>>
    BY <1>10 DEF WriteFails, flushVars, serverVars
  <2>2. \A i \in DOMAIN queue' : i + 1 \in DOMAIN queue /\ queue'[i] = queue[i + 1] /\ i \in Nat \ {0}
    BY <2>1, TailFrames
  <2>3. \A i, j \in DOMAIN queue' : i + 1 = j + 1 => i = j
    BY <2>2
  <2> QED
    BY <2>1, <2>2, <2>3 DEF Awaited
<1>11. CASE \E f \in orphans : WriteOrphan(f)
  <2>1. ledger \subseteq ledger' /\ UNCHANGED <<flush, batch, acked, queue, conn>>
    BY <1>11 DEF WriteOrphan, Store, flushVars
  <2> QED
    BY <2>1 DEF Awaited
<1>12. CASE \E ok \in BOOLEAN : AppendUsage(ok) \/ AppendDiagnostic(ok)
  BY <1>1, <1>12 DEF AppendUsage, AppendDiagnostic, linkVars, serverVars
<1>13. CASE UNCHANGED vars
  BY <1>1, <1>13 DEF vars, flushVars, linkVars, serverVars
<1>14. CASE WriteReport
  <2>1. ledger \subseteq ledger' /\ UNCHANGED <<flush, batch, acked, queue, conn>>
    BY <1>14 DEF WriteReport, Store, flushVars
  <2> QED
    BY <2>1 DEF Awaited
<1>15. CASE EmitNext \/ \E u \in unsaidLate : EmitLate(u)
  BY <1>1, <1>15 DEF EmitNext, EmitLate, flushVars
<1> QED
  BY <1>2, <1>4, <1>5, <1>6, <1>7, <1>8, <1>9, <1>10, <1>11, <1>12, <1>13, <1>14, <1>15 DEF Next

LEMMA NeverLostStep ==
  ASSUME UplinkAssumption, TypeInv, Awaited, UsageNeverLost, [Next]_vars
  PROVE  UsageNeverLost'
<1>1. CASE UNCHANGED usageVars /\ ledger \subseteq ledger'
  BY <1>1 DEF UsageNeverLost, usageVars
<1>2. ASSUME NEW ok \in BOOLEAN, AppendUsage(ok) PROVE UsageNeverLost'
  <2>1. /\ produced' = produced + 1 /\ UNCHANGED <<ledger, lost>>
        /\ usage' \cup evicted' = usage \cup {produced + 1} \cup evicted
    BY <1>2, Select DEF AppendUsage, serverVars
  <2>2. 1..produced' = 1..produced \cup {produced + 1}
    BY <2>1 DEF TypeInv, TypeOK, UsageTypes
  <2> QED
    BY <2>1, <2>2 DEF UsageNeverLost
<1>3. ASSUME NEW ok \in BOOLEAN, AckUsage(ok) PROVE UsageNeverLost'
  <2>1. batch \subseteq ledger
    BY <1>3 DEF AckUsage, Awaited
  <2> QED
    BY <1>3, <2>1 DEF AckUsage, UsageNeverLost, serverVars
<1>4. CASE DaemonCrash
  BY <1>4 DEF DaemonCrash, UsageNeverLost, serverVars
<1>5. CASE WriteReport \/ \E f \in orphans : WriteOrphan(f)
  BY <1>1, <1>5 DEF WriteReport, WriteOrphan, Store
<1>6. CASE EmitNext \/ AckReport \/ \E u \in unsaidLate : EmitLate(u)
  BY <1>1, <1>6 DEF EmitNext, AckReport, EmitLate, serverVars
<1> QED
  BY <1>1, <1>2, <1>3, <1>4, <1>5, <1>6
     DEF Next, vars, AppendDiagnostic, FlushWake, FlushUsage, FlushDiagnostics, Report,
         AckDiagnostics, AckTimeout, Connect, Disconnect, ServerRestart, WriteFails, serverVars

\* No token-usage event vanishes: whatever the link, the two processes and the
\* disk do, an event that was produced is recorded, buffered, pushed out by the
\* ring, or was in the memory of a daemon that crashed.
THEOREM NeverLost == ASSUME UplinkAssumption PROVE Spec => []UsageNeverLost
<1>1. Init => SafeInv
  <2>1. Init => TypeInv
    BY TypeInit
  <2>2. Init => Committed /\ Awaited /\ UsageNeverLost
    BY DEF Init, Committed, Awaited, UsageNeverLost
  <2> QED
    BY <2>1, <2>2 DEF SafeInv
<1>2. SafeInv /\ [Next]_vars => SafeInv'
  BY TypeStep, CommittedStep, AwaitedStep, NeverLostStep DEF SafeInv
<1>3. SafeInv => UsageNeverLost
  BY DEF SafeInv
<1> QED
  BY <1>1, <1>2, <1>3, PTL DEF Spec

-----------------------------------------------------------------------------
(* Diagnostics leave the ring only when stored *)

\* Any part of a set of rows appended so far is finite.
LEMMA FiniteRows ==
  ASSUME NEW n \in Nat, NEW S \in SUBSET (1..n)
  PROVE  IsFiniteSet(S) /\ Cardinality(S) \in Nat
<1>1. IsFiniteSet(1..n)
  BY FS_Interval
<1>2. IsFiniteSet(S)
  BY <1>1, FS_Subset
<1> QED
  BY <1>2, RingCount

\* B holds the first rows of S.
Leads(B, S) == B \subseteq S /\ \A x \in B, y \in S : y <= x => y \in B

\* The oldest k rows are the first rows, however many there are.
LEMMA OldestLeads ==
  ASSUME NEW n \in Nat, NEW S \in SUBSET (1..n), NEW k \in Nat
  PROVE  Leads(Oldest(S, k), S)
<1>1. ASSUME NEW x \in Oldest(S, k), NEW y \in S, y <= x PROVE y \in Oldest(S, k)
  <2> DEFINE upto(z) == {w \in S : w <= z}
  <2>0. x \in S /\ \A w \in S : w \in Int
    BY <1>1, Select
  <2>1. upto(y) \subseteq upto(x)
    <3> SUFFICES ASSUME NEW w \in S, w <= y PROVE w <= x
      OBVIOUS
    <3>1. w \in Int /\ x \in Int /\ y \in Int
      BY <2>0
    <3> QED
      BY <1>1, <3>1
  <2>2. IsFiniteSet(upto(x)) /\ Cardinality(upto(x)) \in Nat /\ Cardinality(upto(y)) \in Nat
    BY FiniteRows
  <2>3. Cardinality(upto(y)) <= Cardinality(upto(x))
    BY <2>1, <2>2, FS_Subset
  <2>4. Cardinality(upto(x)) <= k
    BY <1>1 DEF Oldest
  <2>5. Cardinality(upto(y)) <= k
    BY <2>2, <2>3, <2>4
  <2> QED
    BY <1>1, <2>5 DEF Oldest
<1> QED
  BY <1>1, Select DEF Leads

\* As many of the oldest rows as B has are rows of B, when B holds first rows.
LEMMA OldestOfLeading ==
  ASSUME NEW n \in Nat, NEW S \in SUBSET (1..n), NEW B, Leads(B, S)
  PROVE  Oldest(S, Cardinality(B)) \subseteq B
<1> SUFFICES ASSUME NEW x \in Oldest(S, Cardinality(B)), x \notin B PROVE FALSE
  OBVIOUS
<1> DEFINE upto == {w \in S : w <= x}
<1>0. x \in S /\ B \subseteq S
  BY DEF Leads, Oldest
<1>1. x \in S /\ B \subseteq S /\ x \in Int /\ \A b \in B : b \in Int
  BY <1>0
<1>2. \A b \in B : b <= x
  BY <1>1 DEF Leads
<1>3. B \cup {x} \subseteq upto
  BY <1>1, <1>2
<1>4. IsFiniteSet(B) /\ Cardinality(B) \in Nat /\ IsFiniteSet(upto) /\ Cardinality(upto) \in Nat
  BY <1>1, FiniteRows
<1>5. Cardinality(B \cup {x}) = Cardinality(B) + 1
  BY <1>4, FS_AddElement
<1>6. Cardinality(B \cup {x}) <= Cardinality(upto)
  BY <1>3, <1>4, FS_Subset
<1>7. Cardinality(upto) <= Cardinality(B)
  BY DEF Oldest
<1> QED
  BY <1>4, <1>5, <1>6, <1>7

\* Rows that come later leave the first rows the first.
LEMMA StillLeads ==
  ASSUME NEW n \in Nat, NEW S \in SUBSET (1..n), NEW T, NEW B, Leads(B, S), S \subseteq T,
         \A y \in T \ S : y \in Nat /\ y > n
  PROVE  Leads(B, T)
<1>1. \A x \in B : x \in 1..n
  BY DEF Leads
<1>2. ASSUME NEW x \in B, NEW y \in T, y <= x PROVE y \in B
  BY <1>1, <1>2 DEF Leads
<1> QED
  BY <1>2 DEF Leads

\* What the loop waits for: the ack on the wire speaks of stored rows, and the
\* rows sent are still the first of the ring unless it has overflowed.
Awaiting ==
  flush = "diagAck" =>
    /\ acked => batch \subseteq stored
    /\ trimmed = {} => Leads(batch, diag)

\* What an append does to the ring as long as nothing is pushed out of it.
LEMMA AppendKeeps ==
  ASSUME TypeInv, NEW ok \in BOOLEAN, AppendUsage(ok) \/ AppendDiagnostic(ok), trimmed' = {}
  PROVE  /\ trimmed = {} /\ diag \subseteq diag' /\ rows \in Nat /\ rows' \in Nat /\ rows' >= rows
         /\ 1..rows' \subseteq 1..rows \cup diag'
         /\ \A y \in diag' \ diag : y \in Nat /\ y > rows
<1>0. rows \in Nat /\ diag \subseteq 1..rows
  BY DEF TypeInv, TypeOK, DiagTypes
<1>1. CASE AppendUsage(ok)
  <2> DEFINE marked == Newest(diag \cup {rows + 1}, DiagCap)
  <2>1. \/ UNCHANGED <<rows, diag, trimmed>>
        \/ /\ rows' = rows + 1 /\ diag' = marked
           /\ trimmed' = trimmed \cup ((diag \cup {rows + 1}) \ marked)
    BY <1>1 DEF AppendUsage
  <2>2. marked \subseteq diag \cup {rows + 1}
    BY Select
  <2> HIDE DEF marked
  <2>3. CASE UNCHANGED <<rows, diag, trimmed>>
    BY <1>0, <2>3
  <2>4. CASE /\ rows' = rows + 1 /\ diag' = marked
             /\ trimmed' = trimmed \cup ((diag \cup {rows + 1}) \ marked)
    <3>1. trimmed = {} /\ diag \cup {rows + 1} \subseteq diag' /\ diag' \subseteq diag \cup {rows + 1}
      BY <2>2, <2>4
    <3> QED
      BY <1>0, <2>4, <3>1
  <2> QED
    BY <2>1, <2>3, <2>4
<1>2. CASE AppendDiagnostic(ok)
  <2> DEFINE all    == diag \cup {rows + 1}
             kept   == Newest(all, DiagCap)
             marked == Newest(kept \cup {rows + 2}, DiagCap)
             full   == all \ kept # {}
             final  == IF full THEN marked ELSE kept
  <2>1. /\ rows' = rows + (IF full THEN 2 ELSE 1) /\ diag' = final
        /\ trimmed' = trimmed \cup (((rows + 1)..rows' \cup diag) \ final)
    BY <1>2 DEF AppendDiagnostic
  <2>2. kept \subseteq diag \cup {rows + 1} /\ marked \subseteq kept \cup {rows + 2}
    BY Select
  <2>3. final \subseteq diag \cup {rows + 1, rows + 2}
    BY <2>2
  <2>4. rows' = rows + 1 \/ rows' = rows + 2
    BY <2>1
  <2> HIDE DEF final, full
  <2>5. trimmed = {} /\ (rows + 1)..rows' \cup diag \subseteq diag'
    BY <2>1
  <2>6. diag' \subseteq diag \cup {rows + 1, rows + 2}
    BY <2>1, <2>3
  <2>7. rows' \in Nat /\ rows' >= rows /\ 1..rows' \subseteq 1..rows \cup ((rows + 1)..rows')
    BY <1>0, <2>4
  <2> QED
    BY <1>0, <2>5, <2>6, <2>7
<1> QED
  BY <1>1, <1>2

LEMMA AwaitingStep ==
  ASSUME UplinkAssumption, TypeInv, Committed, Awaited, Awaiting, [Next]_vars
  PROVE  Awaiting'
<1> USE DEF Awaiting
<1>0. rows \in Nat /\ diag \in SUBSET (1..rows)
  BY DEF TypeInv, TypeOK, DiagTypes
<1>1. CASE UNCHANGED <<flush, batch, acked, stored, diag, trimmed>>
  BY <1>1
<1>2. ASSUME NEW ok \in BOOLEAN, AppendUsage(ok) \/ AppendDiagnostic(ok) PROVE Awaiting'
  <2>1. UNCHANGED <<flush, batch, acked, stored>>
    BY <1>2 DEF AppendUsage, AppendDiagnostic, serverVars
  <2>2. ASSUME flush = "diagAck", trimmed' = {} PROVE Leads(batch, diag')
    <3>1. trimmed = {} /\ diag \subseteq diag' /\ \A y \in diag' \ diag : y \in Nat /\ y > rows
      BY <1>2, <2>2, AppendKeeps
    <3>2. Leads(batch, diag)
      BY <2>2, <3>1
    <3> QED
      BY <1>0, <3>1, <3>2, StillLeads
  <2> QED
    BY <2>1, <2>2
<1>3. CASE FlushDiagnostics
  <2>1. /\ flush = "diag" /\ acked' = acked /\ UNCHANGED <<diag, trimmed>>
        /\ flush' = "idle" \/ batch' = Oldest(diag, DiagBatch)
    BY <1>3 DEF FlushDiagnostics, Report, diagVars
  <2>2. ~acked
    BY <2>1 DEF Awaited
  <2>3. Leads(Oldest(diag, DiagBatch), diag)
    BY <1>0, OldestLeads DEF UplinkAssumption
  <2> QED
    BY <2>1, <2>2, <2>3
<1>4. CASE AckReport
  <2>1. /\ queue # <<>> /\ done /\ acked' = (acked \/ Head(queue).live)
        /\ UNCHANGED <<flush, batch, diag, trimmed, stored>>
    BY <1>4 DEF AckReport, diagVars, serverVars, TypeInv, TypeOK, LinkTypes
  <2>2. 1 \in DOMAIN queue /\ Head(queue) = queue[1] /\ Head(queue).kind \in {"usage", "diag"}
    BY <2>1, TailFrames DEF TypeInv, TypeOK, LinkTypes, Frames
  <2>3. ASSUME Head(queue).live, flush = "diagAck" PROVE batch \subseteq stored'
    <3>1. queue[1].rows = batch /\ queue[1].kind = "diag"
      BY <2>2, <2>3 DEF Awaited
    <3> QED
      BY <2>1, <2>2, <3>1 DEF Committed
  <2> QED
    BY <2>1, <2>3
<1>5. CASE WriteReport \/ \E f \in orphans : WriteOrphan(f)
  <2>1. stored \subseteq stored' /\ UNCHANGED <<flush, batch, acked, diag, trimmed>>
    BY <1>5 DEF WriteReport, WriteOrphan, Store, diagVars, flushVars
  <2> QED
    BY <2>1
<1>6. CASE flush' # "diagAck"
  BY <1>6
<1>7. flush' # "diagAck" \/ UNCHANGED <<flush, batch, acked, stored, diag, trimmed>>
      \/ (\E ok \in BOOLEAN : AppendUsage(ok) \/ AppendDiagnostic(ok))
      \/ FlushDiagnostics \/ AckReport \/ WriteReport \/ \E f \in orphans : WriteOrphan(f)
  BY DEF Next, vars, FlushWake, FlushUsage, Report, AckUsage, AckDiagnostics, AckTimeout, Connect,
         Disconnect, DaemonCrash, ServerRestart, LinkLost, WriteFails, EmitNext, EmitLate,
         diagVars, flushVars, serverVars
<1> QED
  BY <1>1, <1>2, <1>3, <1>4, <1>5, <1>6, <1>7

LEMMA DiagStep ==
  ASSUME UplinkAssumption, TypeInv, Awaiting, DiagNeverLost, [Next]_vars
  PROVE  DiagNeverLost'
<1> USE DEF DiagNeverLost
<1>0. rows \in Nat /\ diag \in SUBSET (1..rows)
  BY DEF TypeInv, TypeOK, DiagTypes
<1>1. CASE UNCHANGED diagVars /\ stored \subseteq stored'
  BY <1>1 DEF diagVars
<1>2. ASSUME NEW ok \in BOOLEAN, AppendUsage(ok) \/ AppendDiagnostic(ok) PROVE DiagNeverLost'
  <2>1. UNCHANGED <<stored, lostDiag>>
    BY <1>2 DEF AppendUsage, AppendDiagnostic, serverVars
  <2> QED
    BY <1>2, <2>1, AppendKeeps
<1>3. ASSUME NEW ok \in BOOLEAN, AckDiagnostics(ok) PROVE DiagNeverLost'
  <2>1. /\ flush = "diagAck" /\ acked /\ UNCHANGED <<rows, trimmed, lostDiag, stored>>
        /\ diag' = diag \ Oldest(diag, Cardinality(batch))
    BY <1>3 DEF AckDiagnostics, serverVars
  <2>2. ASSUME trimmed = {} PROVE Oldest(diag, Cardinality(batch)) \subseteq stored
    <3>1. Leads(batch, diag) /\ batch \subseteq stored
      BY <2>1, <2>2 DEF Awaiting
    <3> QED
      BY <1>0, <3>1, OldestOfLeading
  <2> QED
    BY <2>1, <2>2
<1>4. CASE DaemonCrash
  BY <1>4 DEF DaemonCrash, serverVars
<1>5. CASE WriteReport \/ \E f \in orphans : WriteOrphan(f)
  BY <1>1, <1>5 DEF WriteReport, WriteOrphan, Store
<1>6. CASE UNCHANGED <<diagVars, ledger, stored>>
  BY <1>1, <1>6
<1> QED
  BY <1>2, <1>3, <1>4, <1>5, <1>6
     DEF Next, vars, FlushWake, FlushUsage, FlushDiagnostics, Report,
         AckUsage, AckTimeout, Connect, Disconnect, ServerRestart, WriteFails,
         EmitNext, AckReport, EmitLate, serverVars

\* As long as the ring has not overflowed, a diagnostic leaves it only when the
\* server has stored it or a crash of the daemon takes it: acknowledging by count
\* removes exactly the rows that were sent.
THEOREM DiagnosticsAreKept == ASSUME UplinkAssumption PROVE Spec => []DiagNeverLost
<1> DEFINE Inv == TypeInv /\ Committed /\ Awaited /\ Awaiting /\ DiagNeverLost
<1>1. Init => Inv
  <2>1. Init => TypeInv
    BY TypeInit
  <2>2. Init => Committed /\ Awaited /\ Awaiting /\ DiagNeverLost
    BY DEF Init, Committed, Awaited, Awaiting, DiagNeverLost
  <2> QED
    BY <2>1, <2>2
<1>2. Inv /\ [Next]_vars => Inv'
  BY TypeStep, CommittedStep, AwaitedStep, AwaitingStep, DiagStep
<1>3. Inv => DiagNeverLost
  OBVIOUS
<1> HIDE DEF Inv
<1> QED
  BY <1>1, <1>2, <1>3, PTL DEF Spec

-----------------------------------------------------------------------------
(* Exactly once, and the ledger as the daemon's promise *)

\* What a step does to the rows of the server: it inserts those of one frame,
\* which whoever inserted them is then to broadcast; it broadcasts one; or it
\* hands on what is still to be broadcast.
Inserts(f) ==
  /\ Store(f) /\ f.rows \subseteq Existing(f) /\ produced' = produced
  /\ \/ ~done /\ done' /\ unsaid' = New(f) /\ unsaidLate' = unsaidLate
     \/ done' = done /\ unsaid' = unsaid /\ unsaidLate' = unsaidLate \cup New(f)

Tells(u) ==
  /\ Emit(u) /\ UNCHANGED <<done, ledger, muted, produced>>
  /\ \/ u \in unsaid /\ unsaid' = unsaid \ {u} /\ unsaidLate' = unsaidLate
     \/ u \in unsaidLate /\ unsaidLate' = unsaidLate \ {u} /\ unsaid' = unsaid

HandsOn ==
  /\ UNCHANGED <<ledger, reported>>
  /\ \/ UNCHANGED <<done, unsaid, unsaidLate, muted>>
     \/ unsaid = {} /\ UNCHANGED <<unsaid, unsaidLate, muted>>
     \/ unsaid' = {} /\ unsaidLate' = unsaidLate \cup unsaid /\ muted' = muted
     \/ unsaid' = {} /\ unsaidLate' = {} /\ muted' = muted \cup unsaid \cup unsaidLate

LEMMA ServerStep ==
  ASSUME TypeInv, [Next]_vars
  PROVE  (\E f \in Frames : Inserts(f)) \/ (\E u : Tells(u)) \/ HandsOn
<1>1. CASE WriteReport
  <2>1. Head(queue) \in Frames /\ Head(queue).rows \subseteq Existing(Head(queue))
    BY <1>1, TailFrames DEF WriteReport, TypeInv, TypeOK, LinkTypes, Bounds
  <2> QED
    BY <1>1, <2>1 DEF WriteReport, Inserts, usageVars
<1>2. CASE \E f \in orphans : WriteOrphan(f)
  <2>1. PICK f \in orphans : WriteOrphan(f)
    BY <1>2
  <2>2. f \in Frames /\ f.rows \subseteq Existing(f)
    BY DEF TypeInv, TypeOK, LinkTypes, Bounds
  <2> QED
    BY <2>1, <2>2 DEF WriteOrphan, Inserts, usageVars
<1>3. CASE EmitNext
  <2>1. PICK u \in Oldest(unsaid, 1) : Emit(u) /\ unsaid' = unsaid \ {u}
    BY <1>3 DEF EmitNext
  <2>2. u \in unsaid
    BY <2>1, Select
  <2> QED
    BY <1>3, <2>1, <2>2 DEF EmitNext, Tells, usageVars
<1>4. CASE \E u \in unsaidLate : EmitLate(u)
  BY <1>4 DEF EmitLate, Tells, usageVars
<1>5. CASE AckReport
  BY <1>5 DEF AckReport, HandsOn, serverVars
<1>6. CASE Connect
  BY <1>6 DEF Connect, Supersede, HandsOn, serverVars
<1>7. CASE ServerRestart
  BY <1>7 DEF ServerRestart, HandsOn
<1>8. CASE UNCHANGED <<done, unsaid, unsaidLate, ledger, reported, muted>>
  BY <1>8 DEF HandsOn
<1> QED
  BY <1>1, <1>2, <1>3, <1>4, <1>5, <1>6, <1>7, <1>8
     DEF Next, vars, AppendUsage, AppendDiagnostic, FlushWake, FlushUsage, FlushDiagnostics,
         Report, AckUsage, AckDiagnostics, AckTimeout, Disconnect, DaemonCrash,
         WriteFails, linkVars, threadVars, serverVars

\* What is still to be broadcast, or never will be, was recorded, and each event
\* has one thread that may broadcast it.
Apart ==
  /\ Unsaid \subseteq ledger
  /\ unsaid \cap unsaidLate = {} /\ unsaid \cap muted = {} /\ unsaidLate \cap muted = {}
  /\ unsaid # {} => done

OnceInv == TypeInv /\ Apart /\ ReportedOnce

LEMMA OnceStep ==
  ASSUME UplinkAssumption, OnceInv, [Next]_vars
  PROVE  OnceInv'
<1>0. TypeInv' /\ TypeInv
  BY TypeStep DEF OnceInv
<1>s. (\E f \in Frames : Inserts(f)) \/ (\E u : Tells(u)) \/ HandsOn
  BY <1>0, ServerStep
<1>1. ASSUME NEW f \in Frames, Inserts(f) PROVE Apart' /\ ReportedOnce'
  <2>1. /\ ledger' = ledger \cup New(f) /\ New(f) \cap ledger = {}
        /\ UNCHANGED <<reported, muted>>
    BY <1>1 DEF Inserts, Store, New
  <2>2. \/ unsaid = {} /\ done' /\ unsaid' = New(f) /\ unsaidLate' = unsaidLate
        \/ done' = done /\ unsaid' = unsaid /\ unsaidLate' = unsaidLate \cup New(f)
    BY <1>1 DEF Inserts, OnceInv, Apart
  <2>3. Apart'
    BY <2>1, <2>2 DEF OnceInv, Apart, Unsaid
  <2>4. ledger' \ Unsaid' = ledger \ Unsaid
    BY <2>1, <2>2 DEF OnceInv, Apart, Unsaid
  <2> QED
    BY <2>1, <2>3, <2>4 DEF OnceInv, ReportedOnce, Events
<1>2. ASSUME NEW u, Tells(u) PROVE Apart' /\ ReportedOnce'
  <2>1. /\ u \in Unsaid /\ u \in ledger /\ Unsaid' = Unsaid \ {u}
        /\ UNCHANGED <<ledger, muted, done>> /\ Apart'
    BY <1>2 DEF Tells, OnceInv, Apart, Unsaid
  <2>2. reported \in [Events -> Nat] /\ reported' = [reported EXCEPT ![u] = @ + 1]
    BY <1>0, <1>2 DEF Tells, Emit, TypeInv, TypeOK, ServerTypes
  <2>3. \A v \in Events : v # u => reported'[v] = reported[v]
    BY <2>2
  <2>4. u \in Events => reported'[u] = reported[u] + 1
    BY <2>2
  <2>5. u \in Events => reported[u] = 0
    BY <2>1 DEF OnceInv, ReportedOnce
  <2>6. \A v \in Events : v # u => (v \in ledger' \ Unsaid' <=> v \in ledger \ Unsaid)
    BY <2>1
  <2>7. u \in ledger' \ Unsaid'
    BY <2>1
  <2>8. ASSUME NEW v \in Events PROVE reported'[v] = IF v \in ledger' \ Unsaid' THEN 1 ELSE 0
    <3>1. CASE v = u
      BY <2>4, <2>5, <2>7, <3>1
    <3>2. CASE v # u
      BY <2>3, <2>6, <3>2 DEF OnceInv, ReportedOnce
    <3> QED
      BY <3>1, <3>2
  <2> QED
    BY <2>1, <2>8 DEF ReportedOnce, Events
<1>3. ASSUME HandsOn PROVE Apart' /\ ReportedOnce'
  <2>1. Unsaid' = Unsaid /\ UNCHANGED <<ledger, reported>>
    BY <1>3 DEF HandsOn, Unsaid
  <2>2. Apart'
    BY <1>3 DEF HandsOn, OnceInv, Apart, Unsaid
  <2> QED
    BY <2>1, <2>2 DEF OnceInv, ReportedOnce, Events
<1>4. Apart' /\ ReportedOnce'
  BY <1>1, <1>2, <1>3, <1>s
<1> QED
  BY <1>0, <1>4 DEF OnceInv

LEMMA OnceHolds == ASSUME UplinkAssumption PROVE Spec => []OnceInv
<1>1. Init => OnceInv
  <2>1. Init => TypeInv
    BY TypeInit
  <2>2. Init => Apart /\ ReportedOnce
    BY DEF Init, Apart, ReportedOnce, Unsaid
  <2> QED
    BY <2>1, <2>2 DEF OnceInv
<1>2. OnceInv /\ [Next]_vars => OnceInv'
  BY OnceStep
<1> QED
  BY <1>1, <1>2, PTL DEF Spec

\* Each event is broadcast once, by the transaction that inserted its row and
\* after it committed, however often its batch is resent or committed late by
\* the thread of a dead connection; never, if the server died in between.
THEOREM ExactlyOnce == ASSUME UplinkAssumption PROVE Spec => []ReportedOnce
<1>1. OnceInv => ReportedOnce
  BY DEF OnceInv
<1> QED
  BY <1>1, OnceHolds, PTL

\* The daemon, its crashes and its retransmissions implement the ledger: every
\* step is a Produce, a Record, a Broadcast or a stutter of UsageLedger.
THEOREM UplinkImplementsLedger == ASSUME UplinkAssumption PROVE Spec => LedgerSpec
<1>1. Init => Ledger!Init
  BY DEF Init, Ledger!Init, Events, Ledger!Events
<1>2. OnceInv /\ [Next]_vars => [Ledger!Next]_(Ledger!vars)
  <2> SUFFICES ASSUME OnceInv, [Next]_vars PROVE [Ledger!Next]_(Ledger!vars)
    OBVIOUS
  <2>0. TypeInv /\ Apart /\ ReportedOnce
    BY DEF OnceInv
  <2>1. ASSUME NEW ok \in BOOLEAN, AppendUsage(ok) PROVE Ledger!Next
    BY <2>1 DEF AppendUsage, serverVars, Ledger!Next, Ledger!Produce
  <2>e. 1..produced \subseteq Ledger!Events /\ Ledger!Events = Events /\ ledger \subseteq 1..produced
    BY <2>0 DEF TypeInv, TypeOK, UsageTypes, Bounds, UplinkAssumption, Ledger!Events, Events
  <2>2. ASSUME NEW f \in Frames, Inserts(f) PROVE [Ledger!Next]_(Ledger!vars)
    <3>1. New(f) \subseteq (1..produced) \ ledger
      BY <2>2 DEF Inserts, New, Existing
    <3>2. ledger' = ledger \cup New(f) /\ UNCHANGED <<produced, reported>>
      BY <2>2 DEF Inserts, Store
    <3>3. Ledger!Record(New(f))
      BY <3>1, <3>2 DEF Ledger!Record
    <3>4. New(f) \in SUBSET Ledger!Events
      BY <2>e, <3>1
    <3> QED
      BY <3>3, <3>4 DEF Ledger!Next
  <2>3. ASSUME NEW u, Tells(u) PROVE [Ledger!Next]_(Ledger!vars)
    <3>1. u \in ledger /\ u \in Unsaid /\ u \in Events
      BY <2>0, <2>3, <2>e DEF Tells, Apart, Unsaid
    <3>2. reported[u] = 0
      BY <2>0, <3>1 DEF ReportedOnce
    <3>3. reported' = [reported EXCEPT ![u] = 1] /\ UNCHANGED <<produced, ledger>>
      BY <2>3, <3>2 DEF Tells, Emit
    <3>4. Ledger!Broadcast(u)
      BY <3>1, <3>2, <3>3 DEF Ledger!Broadcast
    <3> QED
      BY <2>e, <3>1, <3>4 DEF Ledger!Next
  <2>4. CASE HandsOn /\ UNCHANGED produced
    BY <2>4 DEF HandsOn, Ledger!vars
  <2>5. UNCHANGED produced \/ \E ok \in BOOLEAN : AppendUsage(ok)
    BY DEF Next, vars, AppendDiagnostic, FlushWake, FlushUsage, FlushDiagnostics,
           Report, AckUsage, AckDiagnostics, AckTimeout, Connect, Disconnect, DaemonCrash,
           ServerRestart, WriteReport, EmitNext, AckReport, WriteFails, WriteOrphan, EmitLate,
           usageVars
  <2> QED
    BY <2>0, <2>1, <2>2, <2>3, <2>4, <2>5, ServerStep
<1> QED
  BY <1>1, <1>2, OnceHolds, PTL DEF Spec, LedgerSpec, Ledger!Spec
=============================================================================
