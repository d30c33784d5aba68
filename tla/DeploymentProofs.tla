-------------------------- MODULE DeploymentProofs --------------------------
(***************************************************************************)
(* Theorems about DeployBoard and Deployment for any set of deployments,   *)
(* number of log chunks and fault budget.                                  *)
(***************************************************************************)
EXTENDS Deployment, TLAPS

-----------------------------------------------------------------------------
(* Lemmas about queues and buffers *)

\* Marking a queue stale changes the live flag of its frames and nothing else.
LEMMA StaleFrames ==
  ASSUME NEW q \in Seq(Frames)
  PROVE  /\ Stale(q) \in Seq(Frames)
         /\ DOMAIN Stale(q) = DOMAIN q
         /\ q # <<>> => Stale(q) # <<>> /\ Head(Stale(q)).kind = Head(q).kind
         /\ \A i \in DOMAIN q : /\ q[i] \in Frames
                                /\ Stale(q)[i].live = FALSE
                                /\ Stale(q)[i].kind = q[i].kind
                                /\ Stale(q)[i].row = q[i].row
<1>1. \A i \in DOMAIN q : q[i] \in Frames
  OBVIOUS
<1>2. \A i \in DOMAIN q : [q[i] EXCEPT !.live = FALSE] \in Frames
  BY <1>1 DEF Frames
<1>3. PICK n \in Nat : q \in [1..n -> Frames]
  OBVIOUS
<1>4. Stale(q) \in [1..n -> Frames]
  BY <1>2, <1>3 DEF Stale
<1>5. Stale(q) \in Seq(Frames)
  BY <1>4
<1>6. \A i \in DOMAIN q : /\ q[i] \in Frames
                          /\ Stale(q)[i].live = FALSE
                          /\ Stale(q)[i].kind = q[i].kind
                          /\ Stale(q)[i].row = q[i].row
  BY <1>1 DEF Stale, Frames
<1>7. DOMAIN Stale(q) = DOMAIN q
  BY DEF Stale
<1>8. ASSUME q # <<>>
      PROVE  Stale(q) # <<>> /\ Head(Stale(q)).kind = Head(q).kind
  <2>1. 1 \in DOMAIN q /\ Head(q) = q[1]
    BY <1>8
  <2>2. Stale(q) # <<>> /\ Head(Stale(q)) = Stale(q)[1]
    BY <1>5, <1>7, <2>1
  <2> QED
    BY <1>6, <2>1, <2>2
<1> QED
  BY <1>5, <1>6, <1>7, <1>8

\* What is left of a sequence after its head was taken.
LEMMA TailOf ==
  ASSUME NEW S, NEW q \in Seq(S), q # <<>>
  PROVE  /\ Tail(q) \in Seq(S) /\ Head(q) \in S
         /\ 1 \in DOMAIN q /\ Head(q) = q[1]
         /\ \A i \in DOMAIN Tail(q) : i + 1 \in DOMAIN q /\ Tail(q)[i] = q[i + 1]
         /\ \A i \in DOMAIN q : i # 1 => i - 1 \in DOMAIN Tail(q) /\ Tail(q)[i - 1] = q[i]
OBVIOUS

\* A sequence with one more element at its end.
LEMMA AppendTo ==
  ASSUME NEW S, NEW q \in Seq(S), NEW x \in S
  PROVE  /\ Append(q, x) \in Seq(S) /\ Append(q, x) # <<>>
         /\ DOMAIN Append(q, x) = 1..(Len(q) + 1)
         /\ Append(q, x)[Len(q) + 1] = x
         /\ \A i \in DOMAIN q : i # Len(q) + 1 /\ Append(q, x)[i] = q[i]
         /\ \A i \in DOMAIN Append(q, x) : i \in DOMAIN q \/ i = Len(q) + 1
         /\ q # <<>> => Head(Append(q, x)) = Head(q)
<1>1. Append(q, x) \in Seq(S) /\ Len(Append(q, x)) = Len(q) + 1 /\ Len(q) \in Nat
  OBVIOUS
<1>2. DOMAIN Append(q, x) = 1..(Len(q) + 1) /\ DOMAIN q = 1..Len(q)
  BY <1>1
<1>3. Append(q, x)[Len(q) + 1] = x
  OBVIOUS
<1>4. \A i \in DOMAIN q : i # Len(q) + 1 /\ Append(q, x)[i] = q[i]
  BY <1>1, <1>2
<1>5. \A i \in DOMAIN Append(q, x) : i \in DOMAIN q \/ i = Len(q) + 1
  BY <1>1, <1>2
<1>6. Append(q, x) # <<>>
  BY <1>1
<1>7. q # <<>> => Head(Append(q, x)) = Head(q)
  <2>1. SUFFICES ASSUME q # <<>> PROVE Head(Append(q, x)) = Head(q)
    OBVIOUS
  <2>2. 1 \in DOMAIN q /\ Head(q) = q[1] /\ Head(Append(q, x)) = Append(q, x)[1]
    BY <1>1, <1>6, <2>1
  <2> QED
    BY <1>4, <2>2
<1> QED
  BY <1>1, <1>2, <1>3, <1>4, <1>5, <1>6, <1>7

\* Upserting a chunk keeps the type and the uniqueness of keys, and an awaited
\* head keeps its key.
LEMMA UpsertLogKeeps ==
  ASSUME TypeInv, NEW row \in LogRows
  PROVE  /\ UpsertLog(row) \in Seq(LogRows) /\ UpsertLog(row) # <<>>
         /\ \A i, j \in DOMAIN UpsertLog(row) :
              /\ UpsertLog(row)[i].dep = UpsertLog(row)[j].dep
              /\ UpsertLog(row)[i].seq = UpsertLog(row)[j].seq
              => i = j
<1>1. logs \in Seq(LogRows) /\ \A i, j \in DOMAIN logs :
        logs[i].dep = logs[j].dep /\ logs[i].seq = logs[j].seq => i = j
  BY DEF TypeInv, TypeOK, BufferTypes, BufferKeys
<1>2. CASE \E i \in DOMAIN logs : logs[i].dep = row.dep /\ logs[i].seq = row.seq
  <2>1. PICK n \in Nat : logs \in [1..n -> LogRows]
    BY <1>1
  <2>2. UpsertLog(row) = [i \in DOMAIN logs |->
          IF logs[i].dep = row.dep /\ logs[i].seq = row.seq THEN row ELSE logs[i]]
    BY <1>2 DEF UpsertLog
  <2>3. UpsertLog(row) \in [1..n -> LogRows]
    BY <2>1, <2>2
  <2>4. \A i \in DOMAIN UpsertLog(row) :
          i \in DOMAIN logs /\ UpsertLog(row)[i].dep = logs[i].dep
                            /\ UpsertLog(row)[i].seq = logs[i].seq
    BY <2>2
  <2>5. UpsertLog(row) \in Seq(LogRows)
    BY <2>3
  <2>6. n # 0
    BY <1>2, <2>1
  <2>7. UpsertLog(row) # <<>>
    BY <2>3, <2>6
  <2> QED
    BY <1>1, <2>4, <2>5, <2>7
<1>3. CASE ~ \E i \in DOMAIN logs : logs[i].dep = row.dep /\ logs[i].seq = row.seq
  <2>1. UpsertLog(row) = Append(logs, row)
    BY <1>3 DEF UpsertLog
  <2> QED
    BY <1>1, <1>3, <2>1, AppendTo
<1> QED
  BY <1>2, <1>3

\* The same for verdicts; the deployments with a buffered verdict are the old
\* ones and that of the row, and the head keeps its deployment.
LEMMA UpsertFinishedKeeps ==
  ASSUME TypeInv, NEW row \in FinRows
  PROVE  LET new == UpsertFinished(row) IN
         /\ new \in Seq(FinRows) /\ new # <<>>
         /\ \A i, j \in DOMAIN new : new[i].dep = new[j].dep => i = j
         /\ \A i \in DOMAIN fins : \E j \in DOMAIN new : new[j].dep = fins[i].dep
         /\ \E j \in DOMAIN new : new[j].dep = row.dep
         /\ \A j \in DOMAIN new : new[j].dep = row.dep
                                  \/ \E i \in DOMAIN fins : new[j].dep = fins[i].dep
         /\ fins # <<>> => Head(new).dep = Head(fins).dep
<1> DEFINE new == UpsertFinished(row)
<1>1. fins \in Seq(FinRows) /\ \A i, j \in DOMAIN fins : fins[i].dep = fins[j].dep => i = j
  BY DEF TypeInv, TypeOK, BufferTypes, BufferKeys
<1>2. CASE \E i \in DOMAIN fins : fins[i].dep = row.dep
  <2>1. PICK n \in Nat : fins \in [1..n -> FinRows]
    BY <1>1
  <2>2. new = [i \in DOMAIN fins |-> IF fins[i].dep = row.dep THEN row ELSE fins[i]]
    BY <1>2 DEF UpsertFinished
  <2>3. new \in [1..n -> FinRows]
    BY <2>1, <2>2
  <2>4. DOMAIN new = DOMAIN fins /\ \A i \in DOMAIN new : new[i].dep = fins[i].dep
    BY <2>2
  <2>5. new \in Seq(FinRows)
    BY <2>3
  <2>6. n # 0 /\ new # <<>> /\ Head(new) = new[1] /\ Head(fins) = fins[1] /\ 1 \in DOMAIN new
    BY <1>2, <2>1, <2>3
  <2> HIDE DEF new
  <2>7. \E j \in DOMAIN new : new[j].dep = row.dep
    BY <1>2, <2>4
  <2> QED
    BY <1>1, <2>4, <2>5, <2>6, <2>7 DEF new
<1>3. CASE ~ \E i \in DOMAIN fins : fins[i].dep = row.dep
  <2>1. new = Append(fins, row)
    BY <1>3 DEF UpsertFinished
  <2>2. /\ new \in Seq(FinRows) /\ new # <<>>
        /\ DOMAIN new = 1..(Len(fins) + 1)
        /\ new[Len(fins) + 1] = row
        /\ \A i \in DOMAIN fins : i # Len(fins) + 1 /\ new[i] = fins[i]
        /\ \A i \in DOMAIN new : i \in DOMAIN fins \/ i = Len(fins) + 1
        /\ fins # <<>> => Head(new) = Head(fins)
    BY <1>1, <2>1, AppendTo
  <2>3. DOMAIN fins = 1..Len(fins) /\ Len(fins) \in Nat
    BY <1>1
  <2> HIDE DEF new
  <2> QED
    BY <1>1, <1>3, <2>2, <2>3 DEF new
<1> QED
  BY <1>2, <1>3

-----------------------------------------------------------------------------
(* Type correctness *)

\* A part of the type invariant whose variables do not change still holds.
LEMMA Untouched ==
  /\ RowTypes /\ UNCHANGED <<rowVars, askVars>> => RowTypes'
  /\ LogTypes /\ UNCHANGED logVars => LogTypes'
  /\ LinkTypes /\ UNCHANGED <<linkVars, reconVars>> => LinkTypes'
  /\ RunnerTypes /\ UNCHANGED runnerVars => RunnerTypes'
  /\ BufferTypes /\ UNCHANGED <<bufferVars, flush, acked>> => BufferTypes'
  /\ BufferKeys /\ UNCHANGED <<bufferVars, flush>> => BufferKeys'
  /\ ThreadShape /\ UNCHANGED <<orphans, step, queue>> => ThreadShape'
<1>1. RowTypes /\ UNCHANGED <<rowVars, askVars>> => RowTypes'
  BY DEF RowTypes, rowVars, askVars
<1>2. LogTypes /\ UNCHANGED logVars => LogTypes'
  BY DEF LogTypes, logVars
<1>3. LinkTypes /\ UNCHANGED <<linkVars, reconVars>> => LinkTypes'
  BY DEF LinkTypes, linkVars, reconVars
<1>4. RunnerTypes /\ UNCHANGED runnerVars => RunnerTypes'
  BY DEF RunnerTypes, runnerVars
<1>5. BufferTypes /\ UNCHANGED <<bufferVars, flush, acked>> => BufferTypes'
  BY DEF BufferTypes, bufferVars
<1>6. BufferKeys /\ UNCHANGED <<bufferVars, flush>> => BufferKeys'
  BY DEF BufferKeys, bufferVars
<1>7. ThreadShape /\ UNCHANGED <<orphans, step, queue>> => ThreadShape'
  BY DEF ThreadShape
<1> QED
  BY <1>1, <1>2, <1>3, <1>4, <1>5, <1>6, <1>7

\* Whatever fault is spent, the budget stays a budget.
LEMMA BudgetStep ==
  ASSUME left \in [Faults -> Nat],
         UNCHANGED left \/ (\E fault \in Faults : Spend(fault))
  PROVE  left' \in [Faults -> Nat]
BY DEF Spend

LEMMA RequestTypes ==
  ASSUME TypeInv, NEW d \in Deps, Create(d) \/ Dispatch(d) PROVE TypeInv'
<1>1. CASE Create(d)
  <2>1. RowTypes'
    BY <1>1 DEF Create, TypeInv, TypeOK, RowTypes
  <2>2. /\ UNCHANGED logVars /\ UNCHANGED <<linkVars, reconVars>> /\ UNCHANGED runnerVars
        /\ UNCHANGED <<bufferVars, flush, acked>> /\ UNCHANGED left
    BY <1>1 DEF Create
  <2> QED
    BY <2>1, <2>2, Untouched DEF TypeInv, TypeOK, linkVars
<1>2. CASE Dispatch(d)
  <2>1. RowTypes' /\ LinkTypes'
    BY <1>2 DEF Dispatch, TypeInv, TypeOK, RowTypes, LinkTypes, rowVars, reconVars
  <2>2. /\ UNCHANGED logVars /\ UNCHANGED runnerVars /\ UNCHANGED <<orphans, step, queue>>
        /\ UNCHANGED <<bufferVars, flush, acked>> /\ UNCHANGED left
    BY <1>2 DEF Dispatch
  <2> QED
    BY <2>1, <2>2, Untouched DEF TypeInv, TypeOK
<1> QED
  BY <1>1, <1>2

\* The buffered verdicts after one more was upserted.
LEMMA FinishedBuffer ==
  ASSUME TypeInv, NEW row \in FinRows, fins' = UpsertFinished(row), UNCHANGED <<logs, flush, acked>>,
         flushEvent' \in BOOLEAN
  PROVE  BufferTypes' /\ BufferKeys'
<1>1. /\ fins' \in Seq(FinRows) /\ fins' # <<>>
      /\ \A i, j \in DOMAIN fins' : fins'[i].dep = fins'[j].dep => i = j
  BY UpsertFinishedKeeps
<1>2. BufferTypes'
  BY <1>1 DEF TypeInv, TypeOK, BufferTypes
<1>3. BufferKeys'
  BY <1>1 DEF TypeInv, BufferKeys
<1> QED
  BY <1>2, <1>3

LEMMA DeployRunTypes ==
  ASSUME TypeInv, NEW d \in Deps, DeployRun(d) PROVE TypeInv'
<1>1. /\ down' = down \ {d}
      /\ UNCHANGED <<rowVars, askVars>> /\ UNCHANGED logVars /\ UNCHANGED left
      /\ UNCHANGED <<orphans, step, queue>> /\ UNCHANGED <<reconVars, conn>>
      /\ UNCHANGED <<boot, known, chunk, ended, logs, flush, acked>>
      /\ \/ flushEvent' = TRUE /\ UNCHANGED <<running, runs, fins>>
         \/ UNCHANGED <<flushEvent, running, runs, fins>>
         \/ /\ \E r \in known : r.dep = d
            /\ flushEvent' = TRUE
            /\ fins' = UpsertFinished(CHOOSE r \in known : r.dep = d)
            /\ UNCHANGED <<running, runs>>
         \/ /\ runs' = [runs EXCEPT ![d] = @ + 1]
            /\ running' = running \cup {d}
            /\ UNCHANGED <<flushEvent, fins>>
  BY DEF DeployRun
<1>2. RunnerTypes' /\ LinkTypes'
  <2>1. LinkTypes'
    BY <1>1 DEF TypeInv, TypeOK, LinkTypes, reconVars
  <2>2. UNCHANGED <<running, runs>>
        \/ (runs' = [runs EXCEPT ![d] = @ + 1] /\ running' = running \cup {d})
    BY <1>1
  <2>3. running' \subseteq Deps /\ runs' \in [Deps -> Nat]
    BY <2>2 DEF TypeInv, TypeOK, RunnerTypes
  <2>4. RunnerTypes'
    BY <1>1, <2>3 DEF TypeInv, TypeOK, RunnerTypes
  <2> QED
    BY <2>1, <2>4
<1>3. BufferTypes' /\ BufferKeys'
  <2>1. CASE UNCHANGED fins
    <3>1. flushEvent' \in BOOLEAN
      BY <1>1 DEF TypeInv, TypeOK, BufferTypes
    <3> QED
      BY <1>1, <2>1, <3>1 DEF TypeInv, TypeOK, BufferTypes, BufferKeys
  <2>2. CASE /\ \E r \in known : r.dep = d
             /\ flushEvent' = TRUE
             /\ fins' = UpsertFinished(CHOOSE r \in known : r.dep = d)
    <3>1. (CHOOSE r \in known : r.dep = d) \in FinRows
      BY <2>2 DEF TypeInv, TypeOK, RunnerTypes
    <3> QED
      BY <1>1, <2>2, <3>1, FinishedBuffer
  <2> QED
    BY <1>1, <2>1, <2>2
<1> QED
  BY <1>1, <1>2, <1>3, Untouched DEF TypeInv, TypeOK

LEMMA EmitLogTypes ==
  ASSUME DeployAssumption, TypeInv, NEW d \in Deps, EmitLog(d) PROVE TypeInv'
<1> DEFINE row == [dep |-> d, run |-> runs[d], seq |-> chunk[d]]
<1>1. /\ chunk[d] < MaxChunks /\ chunk' = [chunk EXCEPT ![d] = @ + 1]
      /\ logs' = UpsertLog(row) /\ flushEvent' = TRUE
      /\ UNCHANGED <<rowVars, askVars>> /\ UNCHANGED logVars /\ UNCHANGED left
      /\ UNCHANGED <<linkVars, reconVars>> /\ UNCHANGED <<boot, running, known, runs, ended>>
      /\ UNCHANGED <<fins, flush, acked>>
  BY DEF EmitLog
<1>2. RunnerTypes'
  BY <1>1 DEF TypeInv, TypeOK, RunnerTypes, DeployAssumption
<1>3. row \in LogRows
  BY <1>1 DEF TypeInv, TypeOK, RunnerTypes, LogRows, Chunks, DeployAssumption
<1>4. /\ logs' \in Seq(LogRows) /\ logs' # <<>>
      /\ \A i, j \in DOMAIN logs' :
           logs'[i].dep = logs'[j].dep /\ logs'[i].seq = logs'[j].seq => i = j
  <2> HIDE DEF row
  <2> QED
    BY <1>1, <1>3, UpsertLogKeeps
<1>5. BufferTypes'
  BY <1>1, <1>4 DEF TypeInv, TypeOK, BufferTypes
<1>6. BufferKeys'
  BY <1>1, <1>4 DEF TypeInv, BufferKeys
<1> QED
  BY <1>1, <1>2, <1>5, <1>6, Untouched DEF TypeInv, TypeOK, linkVars

LEMMA EndRunTypes ==
  ASSUME TypeInv, NEW d \in Deps, NEW ok \in BOOLEAN, EndRun(d, ok) PROVE TypeInv'
<1>1. /\ running' = running \ {d} /\ known' = known \cup {[dep |-> d, ok |-> ok]}
      /\ ended' = [ended EXCEPT ![d] = @ \cup {ok}]
      /\ fins' = UpsertFinished([dep |-> d, ok |-> ok]) /\ flushEvent' = TRUE
      /\ UNCHANGED <<rowVars, askVars>> /\ UNCHANGED logVars /\ UNCHANGED left
      /\ UNCHANGED <<linkVars, reconVars>> /\ UNCHANGED <<boot, chunk, runs>>
      /\ UNCHANGED <<logs, flush, acked>>
  BY DEF EndRun
<1>2. [dep |-> d, ok |-> ok] \in FinRows
  BY DEF FinRows
<1>3. RunnerTypes'
  BY <1>1, <1>2 DEF TypeInv, TypeOK, RunnerTypes
<1>4. BufferTypes' /\ BufferKeys'
  BY <1>1, <1>2, FinishedBuffer
<1> QED
  BY <1>1, <1>3, <1>4, Untouched DEF TypeInv, TypeOK, linkVars

LEMMA FlushTypes ==
  ASSUME TypeInv, OtherReport \/ FlushWake \/ FlushLogs \/ FlushFinished \/ FlushRest
  PROVE  TypeInv'
<1>1. CASE OtherReport \/ FlushWake \/ FlushRest
  <2>1. /\ UNCHANGED <<rowVars, askVars>> /\ UNCHANGED logVars /\ UNCHANGED left
        /\ UNCHANGED <<linkVars, reconVars>> /\ UNCHANGED runnerVars
        /\ UNCHANGED <<logs, fins, acked>>
        /\ flush' \in {flush, "log", "idle"} /\ flushEvent' \in {flushEvent, TRUE, FALSE}
    BY <1>1 DEF OtherReport, FlushWake, FlushRest, bufferVars
  <2>2. BufferTypes'
    BY <2>1 DEF TypeInv, TypeOK, BufferTypes
  <2>3. BufferKeys'
    BY <2>1 DEF TypeInv, BufferKeys
  <2> QED
    BY <2>1, <2>2, <2>3, Untouched DEF TypeInv, TypeOK, linkVars
<1>2. ASSUME NEW f \in Frames, queue' = Append(queue, f),
             UNCHANGED <<conn, down, step, orphans, reconVars>>
      PROVE  LinkTypes' /\ ThreadShape'
  <2>1. queue \in Seq(Frames)
    BY DEF TypeInv, TypeOK, LinkTypes
  <2>2. /\ queue' \in Seq(Frames) /\ queue' # <<>>
        /\ queue # <<>> => Head(queue') = Head(queue)
    BY <1>2, <2>1, AppendTo
  <2>3. LinkTypes'
    BY <1>2, <2>2 DEF TypeInv, TypeOK, LinkTypes, reconVars
  <2>4. ThreadShape'
    BY <1>2, <2>2 DEF TypeInv, ThreadShape
  <2> QED
    BY <2>3, <2>4
<1>3. CASE FlushLogs
  <2>1. /\ logs # <<>> /\ flush' = "logAck"
        /\ queue' = Append(queue, [kind |-> "log", row |-> Head(logs), live |-> TRUE])
        /\ UNCHANGED <<rowVars, askVars>> /\ UNCHANGED logVars /\ UNCHANGED left
        /\ UNCHANGED <<conn, down, step, orphans, reconVars>> /\ UNCHANGED runnerVars
        /\ UNCHANGED <<logs, fins, flushEvent, acked>>
    BY <1>3 DEF FlushLogs, Report, bufferVars
  <2>2. Head(logs) \in LogRows
    BY <2>1, TailOf DEF TypeInv, TypeOK, BufferTypes
  <2>3. [kind |-> "log", row |-> Head(logs), live |-> TRUE] \in Frames
    BY <2>2 DEF Frames
  <2>4. LinkTypes' /\ ThreadShape'
    BY <2>1, <2>3, <1>2
  <2>5. BufferTypes'
    BY <2>1 DEF TypeInv, TypeOK, BufferTypes
  <2>6. BufferKeys'
    BY <2>1 DEF TypeInv, BufferKeys
  <2> QED
    BY <2>1, <2>4, <2>5, <2>6, Untouched DEF TypeInv, TypeOK
<1>4. CASE FlushFinished
  <2>1. /\ fins # <<>> /\ flush' = "finAck"
        /\ queue' = Append(queue, [kind |-> "finished", row |-> Head(fins), live |-> TRUE])
        /\ UNCHANGED <<rowVars, askVars>> /\ UNCHANGED logVars /\ UNCHANGED left
        /\ UNCHANGED <<conn, down, step, orphans, reconVars>> /\ UNCHANGED runnerVars
        /\ UNCHANGED <<logs, fins, flushEvent, acked>>
    BY <1>4 DEF FlushFinished, Report, bufferVars
  <2>2. Head(fins) \in FinRows
    BY <2>1, TailOf DEF TypeInv, TypeOK, BufferTypes
  <2>3. [kind |-> "finished", row |-> Head(fins), live |-> TRUE] \in Frames
    BY <2>2 DEF Frames
  <2>4. LinkTypes' /\ ThreadShape'
    BY <2>1, <2>3, <1>2
  <2>5. BufferTypes'
    BY <2>1 DEF TypeInv, TypeOK, BufferTypes
  <2>6. BufferKeys'
    BY <2>1 DEF TypeInv, BufferKeys
  <2> QED
    BY <2>1, <2>4, <2>5, <2>6, Untouched DEF TypeInv, TypeOK
<1> QED
  BY <1>1, <1>3, <1>4

LEMMA AckTypes ==
  ASSUME TypeInv, AckLog \/ AckFinished PROVE TypeInv'
<1>1. /\ UNCHANGED <<rowVars, askVars>> /\ UNCHANGED logVars /\ UNCHANGED left
      /\ UNCHANGED <<linkVars, reconVars>> /\ UNCHANGED runnerVars
      /\ UNCHANGED flushEvent /\ acked' = FALSE
      /\ \/ flush = "logAck" /\ logs' = Tail(logs) /\ UNCHANGED fins /\ flush' = "log"
         \/ flush = "finAck" /\ fins' = Tail(fins) /\ UNCHANGED logs /\ flush' = "fin"
  BY DEF AckLog, AckFinished
<1>2. BufferTypes' /\ BufferKeys'
  <2>1. CASE flush = "logAck" /\ logs' = Tail(logs) /\ UNCHANGED fins /\ flush' = "log"
    <3>1. logs \in Seq(LogRows) /\ logs # <<>>
      BY <2>1 DEF TypeInv, TypeOK, BufferTypes, BufferKeys
    <3>2. /\ logs' \in Seq(LogRows)
          /\ \A i \in DOMAIN logs' : i + 1 \in DOMAIN logs /\ logs'[i] = logs[i + 1] /\ i \in Int
      BY <2>1, <3>1, TailOf
    <3>3. BufferTypes'
      BY <1>1, <2>1, <3>2 DEF TypeInv, TypeOK, BufferTypes
    <3>4. \A i, j \in DOMAIN logs' :
            logs'[i].dep = logs'[j].dep /\ logs'[i].seq = logs'[j].seq => i = j
      <4>1. SUFFICES ASSUME NEW i \in DOMAIN logs', NEW j \in DOMAIN logs',
                            logs'[i].dep = logs'[j].dep, logs'[i].seq = logs'[j].seq
                     PROVE  i = j
        OBVIOUS
      <4>2. i + 1 = j + 1
        BY <3>2, <4>1 DEF TypeInv, BufferKeys
      <4> QED
        BY <3>2, <4>2
    <3>5. BufferKeys'
      BY <2>1, <3>4 DEF TypeInv, BufferKeys
    <3> QED
      BY <3>3, <3>5
  <2>2. CASE flush = "finAck" /\ fins' = Tail(fins) /\ UNCHANGED logs /\ flush' = "fin"
    <3>1. fins \in Seq(FinRows) /\ fins # <<>>
      BY <2>2 DEF TypeInv, TypeOK, BufferTypes, BufferKeys
    <3>2. /\ fins' \in Seq(FinRows)
          /\ \A i \in DOMAIN fins' : i + 1 \in DOMAIN fins /\ fins'[i] = fins[i + 1] /\ i \in Int
      BY <2>2, <3>1, TailOf
    <3>3. BufferTypes'
      BY <1>1, <2>2, <3>2 DEF TypeInv, TypeOK, BufferTypes
    <3>4. \A i, j \in DOMAIN fins' : fins'[i].dep = fins'[j].dep => i = j
      <4>1. SUFFICES ASSUME NEW i \in DOMAIN fins', NEW j \in DOMAIN fins',
                            fins'[i].dep = fins'[j].dep
                     PROVE  i = j
        OBVIOUS
      <4>2. i + 1 = j + 1
        BY <3>2, <4>1 DEF TypeInv, BufferKeys
      <4> QED
        BY <3>2, <4>2
    <3>5. BufferKeys'
      BY <2>2, <3>4 DEF TypeInv, BufferKeys
    <3> QED
      BY <3>3, <3>5
  <2> QED
    BY <1>1, <2>1, <2>2
<1> QED
  BY <1>1, <1>2, Untouched DEF TypeInv, TypeOK, linkVars

\* A report that timed out, and the faults that end a connection.
LEMMA FaultTypes ==
  ASSUME DeployAssumption, TypeInv, AckTimeout \/ Disconnect \/ DaemonCrash \/ ServerRestart PROVE TypeInv'
<1>1. left' \in [Faults -> Nat]
  BY BudgetStep DEF AckTimeout, Disconnect, DaemonCrash, ServerRestart, TypeInv, TypeOK, Faults
<1>2. /\ UNCHANGED rowVars /\ UNCHANGED <<logs, fins, flushEvent>> /\ acked' = FALSE
      /\ flush' \in {"off", "fin", "idle"}
      /\ todo' \in {todo, {}} /\ UNCHANGED early
      /\ UNCHANGED <<sidecar, file>> /\ cursor' \in {cursor, [d \in Deps |-> -1]}
  BY DEF AckTimeout, Disconnect, DaemonCrash, ServerRestart, LinkLost, logVars, askVars, bufferVars
<1>3. RowTypes' /\ LogTypes'
  BY <1>2 DEF TypeInv, TypeOK, RowTypes, LogTypes, rowVars
<1>4. BufferTypes'
  BY <1>2 DEF TypeInv, TypeOK, BufferTypes
<1>5. BufferKeys'
  BY <1>2 DEF TypeInv, BufferKeys
<1>6. RunnerTypes'
  <2>1. CASE UNCHANGED runnerVars
    BY <2>1, Untouched DEF TypeInv, TypeOK
  <2>2. CASE DaemonCrash
    BY <2>2 DEF DaemonCrash, TypeInv, TypeOK, RunnerTypes, DeployAssumption
  <2> QED
    BY <2>1, <2>2 DEF AckTimeout, Disconnect, ServerRestart
<1>7. /\ conn' \in {conn, "down"} /\ down' \in {down, {}}
      /\ nonce' \in {nonce, 0} /\ rebooted' \in {rebooted, FALSE} /\ recon' \in {recon, FALSE}
      /\ \/ queue' = Stale(queue) /\ UNCHANGED <<step, orphans>>
         \/ queue' = <<>> /\ step' = "tx" /\ orphans' = {}
  BY DEF AckTimeout, Disconnect, DaemonCrash, ServerRestart, LinkLost, reconVars
<1>8. LinkTypes' /\ ThreadShape'
  <2>1. queue \in Seq(Frames)
    BY DEF TypeInv, TypeOK, LinkTypes
  <2>2. /\ Stale(queue) \in Seq(Frames)
        /\ queue # <<>> => Stale(queue) # <<>> /\ Head(Stale(queue)).kind = Head(queue).kind
    BY <2>1, StaleFrames
  <2>3. <<>> \in Seq(Frames)
    OBVIOUS
  <2>4. LinkTypes'
    <3>1. queue' \in Seq(Frames) /\ step' \in {"tx", "append", "settle"} /\ orphans' \subseteq Threads
      BY <1>7, <2>2, <2>3 DEF TypeInv, TypeOK, LinkTypes
    <3>2. conn' \in {"down", "up"} /\ down' \subseteq Deps /\ nonce' \in Nat
          /\ rebooted' \in BOOLEAN /\ recon' \in BOOLEAN
      <4>1. LinkTypes
        BY DEF TypeInv, TypeOK
      <4>2. conn' \in {"down", "up"} /\ down' \subseteq Deps
        BY <1>7, <4>1 DEF LinkTypes
      <4>3. nonce \in Nat /\ rebooted \in BOOLEAN /\ recon \in BOOLEAN
        BY <4>1 DEF LinkTypes
      <4>4. (nonce' = nonce \/ nonce' = 0) /\ (rebooted' = rebooted \/ rebooted' = FALSE)
            /\ (recon' = recon \/ recon' = FALSE)
        BY <1>7
      <4>5. nonce' \in Nat
        BY <4>3, <4>4
      <4>6. rebooted' \in BOOLEAN
        BY <4>3, <4>4
      <4>7. recon' \in BOOLEAN
        BY <4>3, <4>4
      <4> QED
        BY <4>2, <4>5, <4>6, <4>7
    <3> QED
      BY <3>1, <3>2 DEF LinkTypes
  <2>5. ThreadShape'
    BY <1>7, <2>2 DEF TypeInv, ThreadShape
  <2> QED
    BY <2>4, <2>5
<1> QED
  BY <1>1, <1>3, <1>4, <1>5, <1>6, <1>8 DEF TypeInv, TypeOK

\* The thread at the head of the queue.
LEMMA HeadThread ==
  ASSUME TypeInv, queue # <<>>
  PROVE  /\ Thread \in Threads /\ Head(queue) \in Frames /\ Tail(queue) \in Seq(Frames)
         /\ Thread.frame = Head(queue) /\ Thread.step = step
         /\ step # "tx" => Thread.frame.kind = "log"
<1>1. Head(queue) \in Frames /\ Tail(queue) \in Seq(Frames)
  BY TailOf DEF TypeInv, TypeOK, LinkTypes
<1> QED
  BY <1>1 DEF Thread, Threads, TypeInv, TypeOK, LinkTypes, ThreadShape

LEMMA ConnectTypes ==
  ASSUME TypeInv, Connect \/ Reconcile PROVE TypeInv'
<1>1. CASE Connect
  <2>1. /\ UNCHANGED <<rowVars, askVars>> /\ UNCHANGED logVars /\ UNCHANGED left
        /\ UNCHANGED runnerVars /\ UNCHANGED <<down, logs, fins, acked>>
        /\ conn' = "up" /\ rebooted' = (nonce # boot) /\ nonce' = boot /\ recon' = TRUE
        /\ queue' = <<>> /\ step' = "tx" /\ flush' = "idle" /\ flushEvent' = TRUE
        /\ orphans' = orphans \cup {Thread : i \in DOMAIN queue}
    BY <1>1 DEF Connect
  <2>2. \A t \in orphans' : t \in Threads /\ (t.step # "tx" => t.frame.kind = "log")
    <3>1. ASSUME NEW t \in orphans', t \notin orphans
          PROVE  t = Thread /\ queue # <<>>
      BY <2>1, <3>1
    <3> QED
      BY <3>1, HeadThread DEF TypeInv, TypeOK, LinkTypes, ThreadShape
  <2>3. <<>> \in Seq(Frames)
    OBVIOUS
  <2>4. LinkTypes'
    BY <2>1, <2>2, <2>3 DEF TypeInv, TypeOK, LinkTypes, RunnerTypes
  <2>5. ThreadShape'
    BY <2>1, <2>2 DEF ThreadShape
  <2>6. BufferTypes'
    BY <2>1 DEF TypeInv, TypeOK, BufferTypes
  <2>7. BufferKeys'
    BY <2>1 DEF TypeInv, BufferKeys
  <2> QED
    BY <2>1, <2>4, <2>5, <2>6, <2>7, Untouched DEF TypeInv, TypeOK
<1>2. CASE Reconcile
  <2>1. /\ UNCHANGED <<file, nonce, rebooted, conn, queue, step, orphans, left>>
        /\ UNCHANGED askVars /\ UNCHANGED runnerVars /\ UNCHANGED <<bufferVars, flush, acked>>
        /\ recon' = FALSE
    BY <1>2 DEF Reconcile
  <2>2. PICK dead \in SUBSET Deps :
          /\ status' = [d \in Deps |-> IF d \in dead THEN "failed" ELSE status[d]]
          /\ cards' = [d \in Deps |-> cards[d] + (IF d \in dead THEN 1 ELSE 0)]
          /\ cursor' = [d \in Deps |-> IF d \in dead THEN -1 ELSE cursor[d]]
          /\ sidecar' = [d \in Deps |-> IF d \in dead THEN -1 ELSE sidecar[d]]
    BY <1>2 DEF Reconcile
  <2>3. down' \subseteq Deps
    BY <1>2 DEF Reconcile, TypeInv, TypeOK, LinkTypes
  <2>4. RowTypes'
    BY <2>1, <2>2 DEF TypeInv, TypeOK, RowTypes, askVars
  <2>5. LogTypes'
    BY <2>1, <2>2 DEF TypeInv, TypeOK, LogTypes
  <2>6. LinkTypes'
    BY <2>1, <2>3 DEF TypeInv, TypeOK, LinkTypes
  <2> QED
    BY <2>1, <2>4, <2>5, <2>6, Untouched DEF TypeInv, TypeOK, bufferVars
<1> QED
  BY <1>1, <1>2

\* What a report thread does to the rows and the log files keeps their types.
LEMMA ThreadTypes ==
  ASSUME TypeInv, NEW t \in Threads, t.step # "tx" => t.frame.kind = "log",
         Continues(t) \/ Ends(t)
  PROVE  /\ UNCHANGED askVars => RowTypes'
         /\ LogTypes' /\ left' \in [Faults -> Nat]
         /\ Continues(t) => t.frame.kind = "log"
<1> DEFINE d == t.frame.row.dep
<1>1. /\ d \in Deps
      /\ t.frame.kind = "log" => t.frame.row \in LogRows
      /\ t.frame.kind = "log" => t.frame.row.seq \in Chunks
  BY DEF Threads, Frames, LogRows, FinRows
<1>2. CASE LogTx(t)
  <2>1. UNCHANGED cards /\ UNCHANGED logVars /\ UNCHANGED left /\ t.frame.kind = "log"
        /\ status' = IF status[d] = "queued" THEN [status EXCEPT ![d] = "running"] ELSE status
    BY <1>2 DEF LogTx
  <2>2. status' \in [Deps -> {"none", "queued", "running", "success", "failed"}]
    BY <1>1, <2>1 DEF TypeInv, TypeOK, RowTypes
  <2> QED
    BY <2>1, <2>2, Untouched DEF TypeInv, TypeOK, RowTypes, askVars
<1>3. CASE LogAppend(t)
  <2>1. /\ UNCHANGED <<rowVars, cursor, sidecar>> /\ t.frame.kind = "log"
        /\ \/ file' = [file EXCEPT ![d] = Append(@, t.frame.row)] /\ UNCHANGED left
           \/ Spend("disk") /\ UNCHANGED file
    BY <1>3 DEF LogAppend
  <2>2. left' \in [Faults -> Nat]
    BY <2>1, BudgetStep DEF TypeInv, TypeOK, Faults
  <2>3. Append(file[d], t.frame.row) \in Seq(LogRows)
    <3>1. file[d] \in Seq(LogRows) /\ t.frame.row \in LogRows
      BY <1>1, <2>1 DEF TypeInv, TypeOK, LogTypes
    <3> QED
      BY <3>1, AppendTo
  <2>4. file' \in [Deps -> Seq(LogRows)]
    BY <1>1, <2>1, <2>3 DEF TypeInv, TypeOK, LogTypes
  <2> QED
    BY <2>1, <2>2, <2>4, Untouched DEF TypeInv, TypeOK, LogTypes
<1>4. CASE LogSettle(t)
  <2>1. /\ UNCHANGED rowVars /\ UNCHANGED <<file, left>> /\ t.frame.kind = "log"
        /\ cursor' = [cursor EXCEPT ![d] = t.frame.row.seq]
        /\ sidecar' = [sidecar EXCEPT ![d] = t.frame.row.seq]
    BY <1>4 DEF LogSettle
  <2>2. LogTypes'
    BY <1>1, <2>1 DEF TypeInv, TypeOK, LogTypes
  <2>3. ~Continues(t)
    BY <1>4 DEF Continues, LogTx, LogAppend, LogSettle
  <2> QED
    BY <2>1, <2>2, <2>3, Untouched DEF TypeInv, TypeOK
<1>5. CASE LogSeen(t)
  <2>1. UNCHANGED rowVars /\ UNCHANGED logVars /\ UNCHANGED left /\ t.frame.kind = "log"
    BY <1>5 DEF LogSeen
  <2> QED
    BY <2>1, Untouched DEF TypeInv, TypeOK
<1>6. CASE FinishedTx(t)
  <2>1. /\ UNCHANGED <<file, left>> /\ t.frame.kind = "finished"
        /\ \/ /\ status' = [status EXCEPT ![d] = Verdict(t.frame.row.ok)]
              /\ cards' = [cards EXCEPT ![d] = @ + 1]
              /\ Forget(d)
           \/ UNCHANGED <<rowVars, cursor, sidecar>>
    BY <1>6 DEF FinishedTx
  <2>2. LogTypes'
    BY <1>1, <2>1 DEF TypeInv, TypeOK, LogTypes, Forget
  <2>3. UNCHANGED askVars => RowTypes'
    BY <1>1, <2>1 DEF TypeInv, TypeOK, RowTypes, rowVars, askVars, Verdict
  <2>4. ~Continues(t)
    BY <2>1 DEF Continues, LogTx, LogAppend, Threads
  <2> QED
    BY <2>1, <2>2, <2>3, <2>4 DEF TypeInv, TypeOK
<1> QED
  BY <1>2, <1>3, <1>4, <1>5, <1>6 DEF Continues, Ends

LEMMA FailTypes ==
  ASSUME TypeInv, NEW frame \in Frames, TxFails(frame)
  PROVE  LogTypes' /\ left' \in [Faults -> Nat] /\ UNCHANGED rowVars
<1>1. left' \in [Faults -> Nat]
  BY BudgetStep DEF TxFails, TypeInv, TypeOK, Faults
<1>2. UNCHANGED rowVars /\ file' = file
  BY DEF TxFails
<1>3. cursor' \in [Deps -> Chunks \cup {-1}] /\ sidecar' \in [Deps -> Chunks \cup {-1}]
  <2>1. /\ cursor \in [Deps -> Chunks \cup {-1}] /\ sidecar \in [Deps -> Chunks \cup {-1}]
    BY DEF TypeInv, TypeOK, LogTypes
  <2>2. \/ UNCHANGED <<cursor, sidecar>>
        \/ /\ cursor' = [cursor EXCEPT ![frame.row.dep] = -1]
           /\ sidecar' = [sidecar EXCEPT ![frame.row.dep] = -1]
    BY DEF TxFails, Forget
  <2> QED
    BY <2>1, <2>2
<1> QED
  BY <1>1, <1>2, <1>3 DEF TypeInv, TypeOK, LogTypes

LEMMA WriterTypes ==
  ASSUME TypeInv,
         WriterStep \/ WriteFails \/ (\E t \in orphans : OrphanStep(t) \/ OrphanFails(t))
  PROVE  TypeInv'
<1>1. CASE WriterStep
  <2>1. /\ queue # <<>>
        /\ \/ Continues(Thread) /\ step' = After(step) /\ UNCHANGED <<queue, acked>>
           \/ /\ Ends(Thread) /\ step' = "tx" /\ queue' = Tail(queue)
              /\ acked' = (acked \/ Head(queue).live)
        /\ UNCHANGED askVars /\ UNCHANGED <<reconVars, conn, down, orphans>>
        /\ UNCHANGED runnerVars /\ UNCHANGED <<bufferVars, flush>>
    BY <1>1 DEF WriterStep
  <2>2. /\ Thread \in Threads /\ Head(queue) \in Frames /\ Tail(queue) \in Seq(Frames)
        /\ Thread.frame = Head(queue) /\ (step # "tx" => Thread.frame.kind = "log")
        /\ Thread.step = step
    BY <2>1, HeadThread
  <2>3. /\ RowTypes' /\ LogTypes' /\ left' \in [Faults -> Nat]
        /\ Continues(Thread) => Head(queue).kind = "log"
    BY <2>1, <2>2, ThreadTypes
  <2>4. LinkTypes'
    BY <2>1, <2>2 DEF TypeInv, TypeOK, LinkTypes, reconVars, After
  <2>5. ThreadShape'
    BY <2>1, <2>3 DEF TypeInv, ThreadShape
  <2>6. acked' \in BOOLEAN
    BY <2>1, <2>2 DEF TypeInv, TypeOK, BufferTypes, Frames
  <2>7. BufferTypes'
    BY <2>1, <2>6 DEF TypeInv, TypeOK, BufferTypes, bufferVars
  <2> QED
    BY <2>1, <2>3, <2>4, <2>5, <2>7, Untouched DEF TypeInv, TypeOK
<1>2. CASE WriteFails
  <2>1. /\ queue # <<>> /\ step = "tx" /\ TxFails(Head(queue)) /\ queue' = Tail(queue)
        /\ UNCHANGED askVars /\ UNCHANGED runnerVars
        /\ UNCHANGED <<conn, down, step, orphans, reconVars>>
        /\ UNCHANGED <<bufferVars, flush, acked>>
    BY <1>2 DEF WriteFails
  <2>2. LogTypes' /\ left' \in [Faults -> Nat] /\ UNCHANGED rowVars
    BY <2>1, HeadThread, FailTypes
  <2>3. LinkTypes'
    BY <2>1, HeadThread DEF TypeInv, TypeOK, LinkTypes, reconVars
  <2>4. ThreadShape'
    BY <2>1 DEF TypeInv, ThreadShape
  <2>5. RowTypes' /\ RunnerTypes' /\ BufferTypes' /\ BufferKeys'
    BY <2>1, <2>2, Untouched DEF TypeInv, TypeOK
  <2> QED
    BY <2>2, <2>3, <2>4, <2>5 DEF TypeInv, TypeOK
<1>3. CASE \E t \in orphans : OrphanStep(t)
  <2>1. PICK t \in orphans : OrphanStep(t)
    BY <1>3
  <2>2. /\ \/ Continues(t) /\ orphans' = (orphans \ {t}) \cup {[t EXCEPT !.step = After(@)]}
           \/ Ends(t) /\ orphans' = orphans \ {t}
        /\ UNCHANGED askVars /\ UNCHANGED <<reconVars, conn, down, queue, step>>
        /\ UNCHANGED runnerVars /\ UNCHANGED <<bufferVars, flush, acked>>
    BY <2>1 DEF OrphanStep
  <2>3. t \in Threads /\ (t.step # "tx" => t.frame.kind = "log")
    BY <2>1 DEF TypeInv, TypeOK, LinkTypes, ThreadShape
  <2>4. /\ RowTypes' /\ LogTypes' /\ left' \in [Faults -> Nat]
        /\ Continues(t) => t.frame.kind = "log"
    BY <2>2, <2>3, ThreadTypes
  <2>5. /\ [t EXCEPT !.step = After(@)] \in Threads
        /\ [t EXCEPT !.step = After(@)].frame = t.frame
    BY <2>3 DEF Threads, After
  <2>6. LinkTypes'
    BY <2>2, <2>5 DEF TypeInv, TypeOK, LinkTypes, reconVars
  <2>7. ThreadShape'
    BY <2>2, <2>4, <2>5 DEF TypeInv, ThreadShape
  <2> QED
    BY <2>2, <2>4, <2>6, <2>7, Untouched DEF TypeInv, TypeOK
<1>4. CASE \E t \in orphans : OrphanFails(t)
  <2>1. PICK t \in orphans : OrphanFails(t)
    BY <1>4
  <2>2. /\ TxFails(t.frame) /\ orphans' = orphans \ {t}
        /\ UNCHANGED askVars /\ UNCHANGED <<reconVars, conn, down, queue, step>>
        /\ UNCHANGED runnerVars /\ UNCHANGED <<bufferVars, flush, acked>>
    BY <2>1 DEF OrphanFails
  <2>3. t.frame \in Frames
    BY <2>1 DEF TypeInv, TypeOK, LinkTypes, Threads
  <2>4. LogTypes' /\ left' \in [Faults -> Nat] /\ UNCHANGED rowVars
    BY <2>2, <2>3, FailTypes
  <2>5. LinkTypes'
    BY <2>2 DEF TypeInv, TypeOK, LinkTypes, reconVars
  <2>6. ThreadShape'
    BY <2>2 DEF TypeInv, ThreadShape
  <2>7. RowTypes' /\ RunnerTypes' /\ BufferTypes' /\ BufferKeys'
    BY <2>2, <2>4, Untouched DEF TypeInv, TypeOK
  <2> QED
    BY <2>4, <2>5, <2>6, <2>7 DEF TypeInv, TypeOK
<1> QED
  BY <1>1, <1>2, <1>3, <1>4

LEMMA TypeInit == ASSUME DeployAssumption, Init PROVE TypeInv
<1>1. <<>> \in Seq(Frames) /\ <<>> \in Seq(LogRows) /\ <<>> \in Seq(FinRows)
  OBVIOUS
<1>2. RowTypes /\ LogTypes
  BY <1>1 DEF Init, RowTypes, LogTypes
<1>3. LinkTypes
  BY <1>1 DEF Init, LinkTypes
<1>4. RunnerTypes
  BY DEF Init, RunnerTypes, DeployAssumption
<1>5. BufferTypes /\ BufferKeys /\ ThreadShape
  <2>1. DOMAIN logs = {} /\ DOMAIN fins = {}
    BY DEF Init
  <2>2. BufferTypes
    BY <1>1 DEF Init, BufferTypes
  <2> QED
    BY <2>1, <2>2 DEF Init, BufferKeys, ThreadShape
<1> QED
  BY <1>2, <1>3, <1>4, <1>5 DEF Init, DeployAssumption, TypeInv, TypeOK

LEMMA TypeStep == ASSUME DeployAssumption, TypeInv, [Next]_vars PROVE TypeInv'
<1>1. ASSUME NEW d \in Deps, Create(d) \/ Dispatch(d) PROVE TypeInv'
  BY <1>1, RequestTypes
<1>2. ASSUME NEW d \in Deps, DeployRun(d) PROVE TypeInv'
  BY <1>2, DeployRunTypes
<1>3. ASSUME NEW d \in Deps, EmitLog(d) PROVE TypeInv'
  BY <1>3, EmitLogTypes
<1>4. ASSUME NEW d \in Deps, NEW ok \in BOOLEAN, EndRun(d, ok) PROVE TypeInv'
  BY <1>4, EndRunTypes
<1>5. CASE OtherReport \/ FlushWake \/ FlushLogs \/ FlushFinished \/ FlushRest
  BY <1>5, FlushTypes
<1>6. CASE AckLog \/ AckFinished
  BY <1>6, AckTypes
<1>7. CASE AckTimeout \/ Disconnect \/ DaemonCrash \/ ServerRestart
  BY <1>7, FaultTypes
<1>8. CASE Connect \/ Reconcile
  BY <1>8, ConnectTypes
<1>9. CASE WriterStep \/ WriteFails \/ (\E t \in orphans : OrphanStep(t) \/ OrphanFails(t))
  BY <1>9, WriterTypes
<1>10. CASE UNCHANGED vars
  <2>1. /\ UNCHANGED <<rowVars, askVars>> /\ UNCHANGED logVars /\ UNCHANGED <<linkVars, reconVars>>
        /\ UNCHANGED runnerVars /\ UNCHANGED <<bufferVars, flush, acked>> /\ UNCHANGED left
    BY <1>10 DEF vars
  <2> QED
    BY <2>1, Untouched DEF TypeInv, TypeOK, linkVars
<1> QED
  BY <1>1, <1>2, <1>3, <1>4, <1>5, <1>6, <1>7, <1>8, <1>9, <1>10 DEF Next

\* Type correctness: rows, cursors, buffers and frames keep their shape, the
\* buffers hold one row per key, and no thread appends a verdict to a log.
THEOREM TypeCorrect == ASSUME DeployAssumption PROVE Spec => []TypeInv
<1>1. Init => TypeInv
  BY TypeInit
<1>2. TypeInv /\ [Next]_vars => TypeInv'
  BY TypeStep
<1> QED
  BY <1>1, <1>2, PTL DEF Spec

-----------------------------------------------------------------------------
(* The rows and their cards follow the board *)

BoardInv == TypeInv /\ Board!OneActive

\* An active row that closes with a verdict and a card closes on the board.
LEMMA Closing ==
  ASSUME NEW d \in Deps, NEW v \in {"success", "failed"}, status[d] \in Active,
         status' = [status EXCEPT ![d] = v], cards' = [cards EXCEPT ![d] = @ + 1]
  PROVE  Board!Next
<1>1. Board!Close(d, v)
  BY DEF Board!Close, Board!Active, Active
<1> QED
  BY <1>1 DEF Board!Next, Board!Verdicts

\* Whatever a report thread does to the rows is a step of the board or none.
LEMMA ThreadBoard ==
  ASSUME TypeInv, NEW t \in Threads, Continues(t) \/ Ends(t)
  PROVE  [Board!Next]_(Board!vars)
<1> DEFINE d == t.frame.row.dep
<1>1. d \in Deps
  BY DEF Threads, Frames, LogRows, FinRows
<1>2. CASE LogTx(t)
  <2>1. UNCHANGED cards
        /\ status' = IF status[d] = "queued" THEN [status EXCEPT ![d] = "running"] ELSE status
    BY <1>2 DEF LogTx
  <2>2. CASE status[d] = "queued"
    <3>1. Board!Begin(d)
      BY <2>1, <2>2 DEF Board!Begin
    <3> QED
      BY <1>1, <3>1 DEF Board!Next
  <2>3. CASE status[d] # "queued"
    BY <2>1, <2>3 DEF Board!vars
  <2> QED
    BY <2>2, <2>3
<1>3. CASE FinishedTx(t)
  <2>1. CASE status[d] \in Active
    <3>1. /\ status' = [status EXCEPT ![d] = Verdict(t.frame.row.ok)]
          /\ cards' = [cards EXCEPT ![d] = @ + 1]
      BY <1>3, <2>1 DEF FinishedTx
    <3>2. Verdict(t.frame.row.ok) \in {"success", "failed"}
      BY DEF Verdict
    <3> HIDE DEF d
    <3> QED
      BY <1>1, <2>1, <3>1, <3>2, Closing
  <2>2. CASE status[d] \notin Active
    BY <1>3, <2>2 DEF FinishedTx, rowVars, Board!vars
  <2> QED
    BY <2>1, <2>2
<1>4. CASE LogAppend(t) \/ LogSettle(t) \/ LogSeen(t)
  BY <1>4 DEF LogAppend, LogSettle, LogSeen, rowVars, Board!vars
<1> QED
  BY <1>2, <1>3, <1>4 DEF Continues, Ends

\* Reconciliation fails closed the running row, and there is at most one.
LEMMA ReconcileBoard == ASSUME BoardInv, Reconcile PROVE [Board!Next]_(Board!vars)
<1>1. PICK dead \in SUBSET Deps :
        /\ dead = {d \in Deps : rebooted /\ status[d] = "running"}
        /\ status' = [d \in Deps |-> IF d \in dead THEN "failed" ELSE status[d]]
        /\ cards' = [d \in Deps |-> cards[d] + (IF d \in dead THEN 1 ELSE 0)]
  BY DEF Reconcile
<1>2. /\ status \in [Deps -> {"none", "queued", "running", "success", "failed"}]
      /\ cards \in [Deps -> Nat]
  BY DEF BoardInv, TypeInv, TypeOK, RowTypes
<1>3. CASE dead = {}
  BY <1>1, <1>2, <1>3 DEF Board!vars
<1>4. CASE dead # {}
  <2>1. PICK d \in Deps : d \in dead
    BY <1>4
  <2>2. \A e \in dead : e = d
    BY <1>1, <2>1 DEF BoardInv, Board!OneActive, Board!Active
  <2>3. status[d] \in Active
    BY <1>1, <2>1 DEF Active
  <2>4. status' = [status EXCEPT ![d] = "failed"]
    BY <1>1, <1>2, <2>1, <2>2
  <2>5. cards' = [cards EXCEPT ![d] = @ + 1]
    <3>1. \A e \in Deps : e \in dead <=> e = d
      BY <2>1, <2>2
    <3>2. \A e \in Deps : cards[e] \in Nat /\ cards[e] + 0 = cards[e]
      BY <1>2
    <3>3. cards' = [e \in Deps |-> IF e = d THEN cards[e] + 1 ELSE cards[e]]
      BY <1>1, <3>1, <3>2
    <3> QED
      BY <1>2, <3>3
  <2> QED
    BY <2>3, <2>4, <2>5, Closing
<1> QED
  BY <1>3, <1>4

LEMMA BoardStep == ASSUME BoardInv, [Next]_vars PROVE [Board!Next]_(Board!vars)
<1>1. ASSUME NEW d \in Deps, Create(d) PROVE Board!Next
  <2>1. Board!Open(d)
    BY <1>1 DEF Create, Board!Open, Board!Active, Active
  <2> QED
    BY <2>1 DEF Board!Next
<1>2. ASSUME NEW d \in Deps, Dispatch(d) \/ DeployRun(d) \/ EmitLog(d)
      PROVE  UNCHANGED Board!vars
  BY <1>2 DEF Dispatch, DeployRun, EmitLog, rowVars, Board!vars
<1>3. ASSUME NEW d \in Deps, NEW ok \in BOOLEAN, EndRun(d, ok) PROVE UNCHANGED Board!vars
  BY <1>3 DEF EndRun, rowVars, Board!vars
<1>4. CASE OtherReport \/ FlushWake \/ FlushLogs \/ FlushFinished \/ FlushRest
  BY <1>4 DEF OtherReport, FlushWake, FlushLogs, FlushFinished, FlushRest, Report, rowVars,
              Board!vars
<1>5. CASE \/ AckLog \/ AckFinished \/ AckTimeout \/ WriteFails \/ Connect
           \/ \E t \in orphans : OrphanFails(t)
  BY <1>5 DEF AckLog, AckFinished, AckTimeout, WriteFails, OrphanFails, TxFails, Connect,
              rowVars, Board!vars
<1>6. CASE Disconnect \/ DaemonCrash \/ ServerRestart
  BY <1>6 DEF Disconnect, DaemonCrash, ServerRestart, rowVars, Board!vars
<1>7. CASE Reconcile
  BY <1>7, ReconcileBoard
<1>8. CASE WriterStep
  <2>1. Thread \in Threads /\ (Continues(Thread) \/ Ends(Thread))
    BY <1>8, HeadThread DEF WriterStep, BoardInv
  <2> QED
    BY <2>1, ThreadBoard DEF BoardInv
<1>9. ASSUME NEW t \in orphans, OrphanStep(t) PROVE [Board!Next]_(Board!vars)
  <2>1. t \in Threads /\ (Continues(t) \/ Ends(t))
    BY <1>9 DEF OrphanStep, BoardInv, TypeInv, TypeOK, LinkTypes
  <2> QED
    BY <2>1, ThreadBoard DEF BoardInv
<1>10. CASE UNCHANGED vars
  BY <1>10 DEF vars, rowVars, Board!vars
<1> QED
  BY <1>1, <1>2, <1>3, <1>4, <1>5, <1>6, <1>7, <1>8, <1>9, <1>10 DEF Next

\* On the board, a row opens only when no other is open.
LEMMA OneActiveStep ==
  ASSUME status \in [Deps -> {"none", "queued", "running", "success", "failed"}],
         Board!OneActive, [Board!Next]_(Board!vars)
  PROVE  Board!OneActive'
<1>1. ASSUME NEW d \in Deps, Board!Open(d) PROVE Board!OneActive'
  BY <1>1 DEF Board!Open, Board!OneActive, Board!Active
<1>2. ASSUME NEW d \in Deps, Board!Begin(d) PROVE Board!OneActive'
  BY <1>2 DEF Board!Begin, Board!OneActive, Board!Active
<1>3. ASSUME NEW d \in Deps, NEW v \in Board!Verdicts, Board!Close(d, v)
      PROVE  Board!OneActive'
  BY <1>3 DEF Board!Close, Board!OneActive, Board!Active, Board!Verdicts
<1>4. CASE UNCHANGED Board!vars
  BY <1>4 DEF Board!vars, Board!OneActive
<1> QED
  BY <1>1, <1>2, <1>3, <1>4 DEF Board!Next

LEMMA OneCardStep ==
  ASSUME TypeInv, Board!OneCardPerVerdict, [Board!Next]_(Board!vars)
  PROVE  Board!OneCardPerVerdict'
<1>0. /\ status \in [Deps -> {"none", "queued", "running", "success", "failed"}]
      /\ cards \in [Deps -> Nat]
  BY DEF TypeInv, TypeOK, RowTypes
<1>1. ASSUME NEW d \in Deps, Board!Open(d) PROVE Board!OneCardPerVerdict'
  BY <1>0, <1>1 DEF Board!Open, Board!OneCardPerVerdict, Board!Verdicts
<1>2. ASSUME NEW d \in Deps, Board!Begin(d) PROVE Board!OneCardPerVerdict'
  BY <1>0, <1>2 DEF Board!Begin, Board!OneCardPerVerdict, Board!Verdicts
<1>3. ASSUME NEW d \in Deps, NEW v \in Board!Verdicts, Board!Close(d, v)
      PROVE  Board!OneCardPerVerdict'
  BY <1>0, <1>3 DEF Board!Close, Board!OneCardPerVerdict, Board!Active, Board!Verdicts
<1>4. CASE UNCHANGED Board!vars
  BY <1>4 DEF Board!vars, Board!OneCardPerVerdict
<1> QED
  BY <1>1, <1>2, <1>3, <1>4 DEF Board!Next

LEMMA BoardInvariant == ASSUME DeployAssumption PROVE Spec => []BoardInv
<1>1. Init => BoardInv
  BY TypeInit DEF BoardInv, Init, Board!OneActive, Board!Active
<1>2. BoardInv /\ [Next]_vars => BoardInv'
  <2> SUFFICES ASSUME BoardInv, [Next]_vars PROVE BoardInv'
    OBVIOUS
  <2>1. TypeInv'
    BY TypeStep DEF BoardInv
  <2>2. Board!OneActive'
    BY BoardStep, OneActiveStep DEF BoardInv, TypeInv, TypeOK, RowTypes
  <2> QED
    BY <2>1, <2>2 DEF BoardInv
<1> QED
  BY <1>1, <1>2, PTL DEF Spec

\* However requests, reports, threads of lost connections and reconciliation
\* interleave, and whatever dies, the rows and cards behave as the board says.
THEOREM DeploymentImplementsBoard == ASSUME DeployAssumption PROVE Spec => BoardSpec
<1>1. Init => Board!Init
  BY DEF Init, Board!Init
<1>2. BoardInv /\ [Next]_vars => [Board!Next]_(Board!vars)
  BY BoardStep
<1>3. Spec => []BoardInv
  BY BoardInvariant
<1> QED
  BY <1>1, <1>2, <1>3, PTL DEF Spec, BoardSpec, Board!Spec

\* A project never has two deployments in progress, and a closed row has exactly
\* one result card: retransmitted verdicts and reconciliation never add another.
THEOREM OneAtATimeOneCard ==
  ASSUME DeployAssumption PROVE Spec => [](Board!OneActive /\ Board!OneCardPerVerdict)
<1>1. Init => Board!OneCardPerVerdict
  BY DEF Init, Board!OneCardPerVerdict, Board!Verdicts
<1>2. BoardInv /\ Board!OneCardPerVerdict /\ [Next]_vars => Board!OneCardPerVerdict'
  BY BoardStep, OneCardStep DEF BoardInv
<1>3. BoardInv => Board!OneActive
  BY DEF BoardInv
<1>4. Spec => []BoardInv
  BY BoardInvariant
<1> QED
  BY <1>1, <1>2, <1>3, <1>4, PTL DEF Spec

-----------------------------------------------------------------------------
(* Verdicts: kept, real, and of one run *)

\* A deployment is requested, sent, run and ended only after its row was opened.
Begun ==
  \A d \in Deps : status[d] = "none" => d \notin todo \cup down \cup running /\ ended[d] = {}

\* Every verdict that is remembered, buffered or reported is one a run ended with.
Told(row) == row.ok \in ended[row.dep]

Real ==
  /\ \A i \in DOMAIN fins : Told(fins[i])
  /\ \A r \in known : Told(r)
  /\ \A i \in DOMAIN queue : queue[i].kind = "finished" => Told(queue[i].row)
  /\ \A t \in orphans : t.frame.kind = "finished" => Told(t.frame.row)

\* The one live frame is the report the flush loop waits for, and an ack that
\* the loop has not read yet is for the verdict at the head of its buffer.
Awaited ==
  /\ \A i \in DOMAIN queue : queue[i].live =>
       /\ queue[i].kind = "finished" => flush = "finAck" /\ queue[i].row.dep = Head(fins).dep
       /\ queue[i].kind = "log" => flush = "logAck"
       /\ ~acked /\ \A j \in DOMAIN queue : queue[j].live => j = i
  /\ acked => flush \in {"logAck", "finAck"}
  /\ conn = "down" => flush = "off"
  /\ acked /\ flush = "finAck" => status[Head(fins).dep] \notin Active

VerdictInv == BoardInv /\ Begun /\ Real /\ Awaited /\ VerdictKept

\* A row that was opened stays opened, and a closed one keeps its verdict.
LEMMA StatusMoves ==
  ASSUME BoardInv, [Next]_vars, NEW d \in Deps
  PROVE  /\ status[d] # "none" => status'[d] # "none"
         /\ status[d] \notin Active \cup {"none"} => status'[d] = status[d]
<1>1. status \in [Deps -> {"none", "queued", "running", "success", "failed"}]
  BY DEF BoardInv, TypeInv, TypeOK, RowTypes
<1>2. [Board!Next]_(Board!vars)
  BY BoardStep
<1>3. ASSUME NEW e \in Deps, Board!Open(e) \/ Board!Begin(e)
      PROVE  /\ status[d] # "none" => status'[d] # "none"
             /\ status[d] \notin Active \cup {"none"} => status'[d] = status[d]
  BY <1>1, <1>3 DEF Board!Open, Board!Begin, Active
<1>4. ASSUME NEW e \in Deps, NEW v \in Board!Verdicts, Board!Close(e, v)
      PROVE  /\ status[d] # "none" => status'[d] # "none"
             /\ status[d] \notin Active \cup {"none"} => status'[d] = status[d]
  BY <1>1, <1>4 DEF Board!Close, Board!Active, Board!Verdicts, Active
<1>5. CASE UNCHANGED Board!vars
  BY <1>5 DEF Board!vars
<1> QED
  BY <1>2, <1>3, <1>4, <1>5 DEF Board!Next

LEMMA BegunStep ==
  ASSUME BoardInv, Begun, [Next]_vars
  PROVE  Begun'
<1>1. /\ \A d \in Deps : status[d] # "none" => status'[d] # "none"
      /\ down \subseteq Deps /\ todo \subseteq Deps
  BY StatusMoves DEF BoardInv, TypeInv, TypeOK, RowTypes, LinkTypes
<1>2. CASE UNCHANGED <<todo, down, running, ended>>
  BY <1>1, <1>2 DEF Begun
<1>3. ASSUME NEW e \in Deps, Create(e)
      PROVE  Begun'
  <2>1. todo' = todo \cup {e} /\ status'[e] = "queued" /\ UNCHANGED <<down, running, ended>>
    BY <1>3 DEF Create, BoardInv, TypeInv, TypeOK, RowTypes, linkVars, runnerVars
  <2> QED
    BY <1>1, <2>1 DEF Begun
<1>4. ASSUME NEW e \in Deps, Dispatch(e) \/ DeployRun(e)
      PROVE  Begun'
  <2>1. /\ todo' \cup down' \cup running' \subseteq todo \cup down \cup running
        /\ ended' = ended
    BY <1>4 DEF Dispatch, DeployRun, runnerVars, askVars
  <2> QED
    BY <1>1, <2>1 DEF Begun
<1>5. ASSUME NEW e \in Deps, NEW ok \in BOOLEAN, EndRun(e, ok)
      PROVE  Begun'
  <2>1. /\ e \in running /\ running' = running \ {e} /\ UNCHANGED <<todo, down>>
        /\ ended' = [ended EXCEPT ![e] = @ \cup {ok}]
    BY <1>5 DEF EndRun, askVars, linkVars
  <2>2. \A d \in Deps : d # e => ended'[d] = ended[d]
    BY <2>1 DEF BoardInv, TypeInv, TypeOK, RunnerTypes
  <2>3. status'[e] # "none"
    BY <1>1, <2>1 DEF Begun
  <2> QED
    BY <1>1, <2>1, <2>2, <2>3 DEF Begun
<1>6. CASE Reconcile
  <2>1. /\ down' = down \cup {d \in Deps : rebooted /\ status[d] = "queued"}
        /\ UNCHANGED <<todo, running, ended>>
    BY <1>6 DEF Reconcile, askVars, runnerVars
  <2>2. ASSUME NEW d \in Deps, status'[d] = "none"
        PROVE  d \notin todo' \cup down' \cup running' /\ ended'[d] = {}
    <3>1. status[d] = "none"
      BY <1>1, <2>2
    <3>2. d \notin todo \cup down \cup running /\ ended[d] = {}
      BY <3>1 DEF Begun
    <3> QED
      BY <2>1, <3>1, <3>2
  <2> QED
    BY <2>2 DEF Begun
<1>7. CASE Disconnect \/ DaemonCrash \/ ServerRestart
  <2>1. /\ todo' \cup down' \cup running' \subseteq todo \cup down \cup running
        /\ ended' = ended
    BY <1>7 DEF Disconnect, DaemonCrash, ServerRestart, LinkLost, askVars, runnerVars
  <2> QED
    BY <1>1, <2>1 DEF Begun
<1>8. CASE \/ \E d \in Deps : EmitLog(d)
           \/ OtherReport \/ FlushWake \/ FlushLogs \/ FlushFinished \/ FlushRest
           \/ AckLog \/ AckFinished \/ AckTimeout \/ WriterStep
           \/ (\E t \in orphans : OrphanStep(t) \/ OrphanFails(t)) \/ WriteFails \/ Connect
           \/ UNCHANGED vars
  <2>1. UNCHANGED <<todo, down, running, ended>>
    BY <1>8
       DEF EmitLog, OtherReport, FlushWake, FlushLogs, FlushFinished, FlushRest, Report,
           AckLog, AckFinished, AckTimeout, WriterStep, OrphanStep, WriteFails, OrphanFails,
           TxFails, Connect, askVars, linkVars, runnerVars, vars
  <2> QED
    BY <1>2, <2>1
<1> QED
  BY <1>3, <1>4, <1>5, <1>6, <1>7, <1>8 DEF Next

\* Where buffered verdicts come from.
LEMMA UpsertedRows ==
  ASSUME TypeInv, NEW row \in FinRows, fins' = UpsertFinished(row)
  PROVE  \A i \in DOMAIN fins' : fins'[i] = row \/ \E j \in DOMAIN fins : fins'[i] = fins[j]
<1>1. fins \in Seq(FinRows)
  BY DEF TypeInv, TypeOK, BufferTypes
<1>2. CASE \E i \in DOMAIN fins : fins[i].dep = row.dep
  BY <1>2 DEF UpsertFinished
<1>3. CASE ~ \E i \in DOMAIN fins : fins[i].dep = row.dep
  <2>1. fins' = Append(fins, row)
    BY <1>3 DEF UpsertFinished
  <2> QED
    BY <1>1, <2>1, AppendTo
<1> QED
  BY <1>2, <1>3

\* What is on its way after the step: old frames, and the head of a buffer.
LEMMA Senders ==
  ASSUME TypeInv, [Next]_vars
  PROVE  \/ queue' = queue \/ queue' = <<>> \/ queue' = Stale(queue)
         \/ queue # <<>> /\ queue' = Tail(queue)
         \/ /\ FlushFinished /\ fins # <<>> /\ flush' = "finAck" /\ flush \in {"fin", "log"}
            /\ queue' = Append(queue, [kind |-> "finished", row |-> Head(fins), live |-> TRUE])
            /\ UNCHANGED <<fins, acked>>
         \/ /\ FlushLogs /\ logs # <<>> /\ flush' = "logAck" /\ flush = "log"
            /\ queue' = Append(queue, [kind |-> "log", row |-> Head(logs), live |-> TRUE])
            /\ UNCHANGED <<fins, acked>>
<1>1. CASE FlushFinished
  BY <1>1 DEF FlushFinished, ToFinished, Report, bufferVars
<1>2. CASE FlushLogs
  BY <1>2 DEF FlushLogs, Report, bufferVars
<1>3. CASE WriterStep \/ WriteFails
  BY <1>3 DEF WriterStep, WriteFails
<1>4. CASE \/ AckTimeout \/ Disconnect \/ DaemonCrash \/ ServerRestart \/ Connect
  BY <1>4 DEF AckTimeout, Disconnect, DaemonCrash, ServerRestart, Connect
<1>5. CASE \/ \E d \in Deps : Create(d) \/ Dispatch(d) \/ DeployRun(d) \/ EmitLog(d)
           \/ \E d \in Deps, ok \in BOOLEAN : EndRun(d, ok)
           \/ OtherReport \/ FlushWake \/ FlushRest \/ AckLog \/ AckFinished
           \/ (\E t \in orphans : OrphanStep(t) \/ OrphanFails(t)) \/ Reconcile
           \/ UNCHANGED vars
  BY <1>5
     DEF Create, Dispatch, DeployRun, EmitLog, EndRun, OtherReport, FlushWake, FlushRest, AckLog,
         AckFinished, OrphanStep, OrphanFails, Reconcile, linkVars, vars
<1> QED
  BY <1>1, <1>2, <1>3, <1>4, <1>5 DEF Next

LEMMA RealStep ==
  ASSUME TypeInv, Real, [Next]_vars
  PROVE  Real'
<1>1. /\ fins \in Seq(FinRows) /\ known \subseteq FinRows /\ queue \in Seq(Frames)
      /\ orphans \subseteq Threads /\ ended \in [Deps -> SUBSET BOOLEAN]
  BY DEF TypeInv, TypeOK, BufferTypes, RunnerTypes, LinkTypes
<1>2. \A d \in Deps : ended[d] \subseteq ended'[d]
  <2>1. ASSUME NEW e \in Deps, NEW ok \in BOOLEAN, EndRun(e, ok)
        PROVE  \A d \in Deps : ended[d] \subseteq ended'[d]
    BY <1>1, <2>1 DEF EndRun
  <2>2. CASE ended' = ended
    BY <2>2
  <2>3. ended' = ended \/ \E e \in Deps, ok \in BOOLEAN : EndRun(e, ok)
    BY DEF Next, Create, Dispatch, DeployRun, EmitLog, OtherReport, FlushWake, FlushLogs,
           FlushFinished, FlushRest, Report, AckLog, AckFinished, AckTimeout, WriterStep,
           OrphanStep, WriteFails, OrphanFails, TxFails, Connect, Reconcile, Disconnect,
           DaemonCrash, ServerRestart, runnerVars, vars
  <2> QED
    BY <2>1, <2>2, <2>3
<1>3. ASSUME NEW row \in FinRows, Told(row)
      PROVE  row.ok \in ended'[row.dep]
  <2>1. row.dep \in Deps
    BY DEF FinRows
  <2> QED
    BY <1>2, <1>3, <2>1 DEF Told
<1>4. ASSUME NEW e \in Deps, NEW ok \in BOOLEAN, EndRun(e, ok)
      PROVE  [dep |-> e, ok |-> ok] \in FinRows /\ ok \in ended'[e]
  BY <1>1, <1>4 DEF EndRun, FinRows
<1>5. \A r \in known' : r.ok \in ended'[r.dep]
  <2>1. ASSUME NEW e \in Deps, NEW ok \in BOOLEAN, EndRun(e, ok)
        PROVE  \A r \in known' : r.ok \in ended'[r.dep]
    <3>1. known' = known \cup {[dep |-> e, ok |-> ok]}
      BY <2>1 DEF EndRun
    <3> QED
      BY <1>1, <1>3, <1>4, <2>1, <3>1 DEF Real
  <2>2. known' = known \/ known' = {} \/ \E e \in Deps, ok \in BOOLEAN : EndRun(e, ok)
    BY DEF Next, Create, Dispatch, DeployRun, EmitLog, OtherReport, FlushWake, FlushLogs,
           FlushFinished, FlushRest, Report, AckLog, AckFinished, AckTimeout, WriterStep,
           OrphanStep, WriteFails, OrphanFails, TxFails, Connect, Reconcile, Disconnect,
           DaemonCrash, ServerRestart, runnerVars, vars
  <2> QED
    BY <1>1, <1>3, <2>1, <2>2 DEF Real
<1>6. \A i \in DOMAIN fins' : fins'[i].ok \in ended'[fins'[i].dep]
  <2>0. \A i \in DOMAIN fins : fins[i] \in FinRows
    BY <1>1
  <2>1. ASSUME NEW row \in FinRows, fins' = UpsertFinished(row), row.ok \in ended'[row.dep]
        PROVE  \A i \in DOMAIN fins' : fins'[i].ok \in ended'[fins'[i].dep]
    BY <1>3, <2>0, <2>1, UpsertedRows DEF Real
  <2>2. ASSUME NEW e \in Deps, NEW ok \in BOOLEAN, EndRun(e, ok)
        PROVE  \A i \in DOMAIN fins' : fins'[i].ok \in ended'[fins'[i].dep]
    <3>1. fins' = UpsertFinished([dep |-> e, ok |-> ok])
      BY <2>2 DEF EndRun
    <3> QED
      BY <1>4, <2>1, <2>2, <3>1
  <2>3. ASSUME NEW e \in Deps, DeployRun(e), fins' # fins
        PROVE  \A i \in DOMAIN fins' : fins'[i].ok \in ended'[fins'[i].dep]
    <3> DEFINE row == CHOOSE r \in known : r.dep = e
    <3>1. (\E r \in known : r.dep = e) /\ fins' = UpsertFinished(row)
      BY <2>3 DEF DeployRun
    <3>2. row \in known
      BY <3>1
    <3> HIDE DEF row
    <3>3. row \in FinRows /\ Told(row)
      BY <1>1, <3>2 DEF Real
    <3> QED
      BY <1>3, <2>1, <3>1, <3>3
  <2>4. CASE AckFinished
    <3>1. fins' = Tail(fins) /\ fins # <<>>
      BY <2>4 DEF AckFinished, TypeInv, BufferKeys
    <3>2. \A i \in DOMAIN fins' : i + 1 \in DOMAIN fins /\ fins'[i] = fins[i + 1]
      BY <1>1, <3>1, TailOf
    <3> QED
      BY <1>3, <2>0, <3>2 DEF Real
  <2>5. CASE fins' = fins
    BY <1>3, <2>0, <2>5 DEF Real
  <2>6. \/ fins' = fins \/ AckFinished
        \/ \E e \in Deps : DeployRun(e) \/ \E ok \in BOOLEAN : EndRun(e, ok)
    BY DEF Next, Create, Dispatch, EmitLog, OtherReport, FlushWake, FlushLogs, FlushFinished,
           FlushRest, Report, AckLog, AckTimeout, WriterStep, OrphanStep, WriteFails,
           OrphanFails, TxFails, Connect, Reconcile, Disconnect, DaemonCrash, ServerRestart,
           bufferVars, vars
  <2> QED
    BY <2>2, <2>3, <2>4, <2>5, <2>6
<1>7. ASSUME NEW f \in Frames, f.kind = "finished", Told(f.row)
      PROVE  f.row.ok \in ended'[f.row.dep]
  BY <1>3, <1>7 DEF Frames
<1>8. \A i \in DOMAIN queue' :
        queue'[i].kind = "finished" => queue'[i].row.ok \in ended'[queue'[i].row.dep]
  <2>0. ASSUME NEW j \in DOMAIN queue, queue[j].kind = "finished"
        PROVE  queue[j].row.ok \in ended'[queue[j].row.dep]
    <3>1. queue[j] \in Frames /\ Told(queue[j].row)
      BY <1>1, <2>0 DEF Real
    <3> QED
      BY <1>7, <2>0, <3>1
  <2>1. CASE queue' = queue
    BY <2>0, <2>1
  <2>2. CASE queue' = <<>>
    <3>1. DOMAIN <<>> = {}
      OBVIOUS
    <3> QED
      BY <2>2, <3>1
  <2>3. CASE queue' = Stale(queue)
    <3>1. \A i \in DOMAIN queue' : /\ i \in DOMAIN queue
                                   /\ queue'[i].kind = queue[i].kind
                                   /\ queue'[i].row = queue[i].row
      BY <1>1, <2>3, StaleFrames
    <3> QED
      BY <2>0, <3>1
  <2>4. CASE queue # <<>> /\ queue' = Tail(queue)
    <3>1. \A i \in DOMAIN queue' : i + 1 \in DOMAIN queue /\ queue'[i] = queue[i + 1]
      BY <1>1, <2>4, TailOf
    <3> QED
      BY <2>0, <3>1
  <2>5. ASSUME NEW f \in Frames, queue' = Append(queue, f),
               f.kind = "finished" => f.row.ok \in ended'[f.row.dep]
        PROVE  \A i \in DOMAIN queue' :
                 queue'[i].kind = "finished" => queue'[i].row.ok \in ended'[queue'[i].row.dep]
    <3>1. \A i \in DOMAIN queue' : i \in DOMAIN queue \/ i = Len(queue) + 1
      BY <1>1, <2>5, AppendTo
    <3>2. queue'[Len(queue) + 1] = f
      BY <1>1, <2>5, AppendTo
    <3>3. \A i \in DOMAIN queue : queue'[i] = queue[i] /\ queue[i] \in Frames
      BY <1>1, <2>5, AppendTo
    <3>4. ASSUME NEW i \in DOMAIN queue', queue'[i].kind = "finished"
          PROVE  queue'[i].row.ok \in ended'[queue'[i].row.dep]
      <4>1. CASE i \in DOMAIN queue
        BY <1>7, <3>3, <3>4, <4>1 DEF Real
      <4>2. CASE i = Len(queue) + 1
        BY <2>5, <3>2, <3>4, <4>2
      <4> QED
        BY <3>1, <4>1, <4>2
    <3> QED
      BY <3>4
  <2>6. CASE fins # <<>> /\ queue' = Append(queue, [kind |-> "finished", row |-> Head(fins),
                                                    live |-> TRUE])
    <3>1. Head(fins) \in FinRows /\ Told(Head(fins))
      BY <1>1, <2>6, TailOf DEF Real
    <3>2. [kind |-> "finished", row |-> Head(fins), live |-> TRUE] \in Frames
      BY <3>1 DEF Frames
    <3> QED
      BY <1>3, <2>5, <2>6, <3>1, <3>2
  <2>7. CASE logs # <<>> /\ queue' = Append(queue, [kind |-> "log", row |-> Head(logs),
                                                    live |-> TRUE])
    <3>1. Head(logs) \in LogRows
      BY <2>7, TailOf DEF TypeInv, TypeOK, BufferTypes
    <3>2. [kind |-> "log", row |-> Head(logs), live |-> TRUE] \in Frames
      BY <3>1 DEF Frames
    <3> QED
      BY <2>5, <2>7, <3>2
  <2> QED
    BY <2>1, <2>2, <2>3, <2>4, <2>6, <2>7, Senders
<1>9. ASSUME NEW t \in orphans', t.frame.kind = "finished"
      PROVE  t.frame.row.ok \in ended'[t.frame.row.dep]
  <2>1. CASE \E u \in orphans : t.frame = u.frame
    BY <1>1, <1>7, <1>9, <2>1 DEF Real, Threads
  <2>2. CASE queue # <<>> /\ t = Thread
    <3>1. t.frame \in Frames /\ t.frame = queue[1] /\ 1 \in DOMAIN queue
      BY <1>1, <2>2, TailOf DEF Thread
    <3> QED
      BY <1>7, <1>9, <3>1 DEF Real
  <2>3. (\E u \in orphans : t.frame = u.frame) \/ (queue # <<>> /\ t = Thread)
    <3>1. CASE orphans' \subseteq orphans
      BY <3>1
    <3>2. CASE Connect
      BY <3>2 DEF Connect
    <3>3. ASSUME NEW u \in orphans, OrphanStep(u)
          PROVE  \E v \in orphans : t.frame = v.frame
      <4>1. [u EXCEPT !.step = After(@)].frame = u.frame
        BY <1>1 DEF Threads
      <4> QED
        BY <3>3, <4>1 DEF OrphanStep
    <3>4. orphans' \subseteq orphans \/ Connect \/ \E u \in orphans : OrphanStep(u)
      BY DEF Next, Create, Dispatch, DeployRun, EmitLog, EndRun, OtherReport, FlushWake,
             FlushLogs, FlushFinished, FlushRest, Report, AckLog, AckFinished, AckTimeout,
             WriterStep, WriteFails, OrphanFails, TxFails, Reconcile, Disconnect, DaemonCrash,
             ServerRestart, linkVars, vars
    <3> QED
      BY <3>1, <3>2, <3>3, <3>4
  <2> QED
    BY <2>1, <2>2, <2>3
<1> QED
  BY <1>5, <1>6, <1>8, <1>9 DEF Real, Told

\* A live frame i of q is the report the loop, being at fl, waits for.
Waiting(q, i, fl, fs) ==
  /\ q[i].kind = "finished" => fl = "finAck" /\ q[i].row.dep = Head(fs).dep
  /\ q[i].kind = "log" => fl = "logAck"

\* The head of the verdicts stays the head of the deployment that is awaited.
LEMMA HeadStays ==
  ASSUME TypeInv, fins # <<>>, NEW row \in FinRows, fins' = UpsertFinished(row)
  PROVE  Head(fins').dep = Head(fins).dep
BY UpsertFinishedKeeps

\* A verdict that was buffered is of a deployment whose row was opened, and if
\* its row is closed it stays closed.
LEMMA SettledStays ==
  ASSUME BoardInv, Begun, Real, [Next]_vars, fins # <<>>, status[Head(fins).dep] \notin Active
  PROVE  status'[Head(fins).dep] \notin Active
<1>1. Head(fins) \in FinRows /\ 1 \in DOMAIN fins /\ Head(fins) = fins[1]
  BY TailOf DEF BoardInv, TypeInv, TypeOK, BufferTypes
<1>2. Head(fins).dep \in Deps /\ Head(fins).ok \in ended[Head(fins).dep]
  BY <1>1 DEF FinRows, Real, Told
<1>3. status[Head(fins).dep] # "none"
  BY <1>2 DEF Begun
<1>4. status[Head(fins).dep] \notin Active \cup {"none"}
  BY <1>3
<1>5. status'[Head(fins).dep] = status[Head(fins).dep]
  BY <1>2, <1>4, StatusMoves
<1> QED
  BY <1>5

\* Steps that leave the frames, the loop and the awaited head alone.
LEMMA AwaitedQuiet ==
  ASSUME BoardInv, Begun, Real, Awaited, [Next]_vars,
         UNCHANGED <<queue, flush, acked>>, conn' = "down" => flush' = "off",
         flush = "finAck" => Head(fins').dep = Head(fins).dep
  PROVE  Awaited'
<1>1. flush = "finAck" => fins # <<>>
  BY DEF BoardInv, TypeInv, BufferKeys
<1>2. acked /\ flush = "finAck" => status'[Head(fins).dep] \notin Active
  BY <1>1, SettledStays DEF Awaited
<1>3. acked' /\ flush' = "finAck" => status'[Head(fins').dep] \notin Active
  BY <1>2
<1> QED
  BY <1>3 DEF Awaited

LEMMA AwaitedWriter ==
  ASSUME BoardInv, Begun, Real, Awaited, WriterStep
  PROVE  Awaited'
<1>1. /\ queue # <<>> /\ UNCHANGED <<fins, flush, conn>> /\ queue \in Seq(Frames)
      /\ TypeInv /\ [Next]_vars
  BY DEF WriterStep, bufferVars, BoardInv, TypeInv, TypeOK, LinkTypes, Next
<1>2. /\ Thread \in Threads /\ Head(queue) \in Frames /\ Thread.frame = Head(queue)
      /\ 1 \in DOMAIN queue /\ Head(queue) = queue[1]
  BY <1>1, HeadThread, TailOf
<1>3. CASE UNCHANGED <<queue, acked>>
  <2>1. UNCHANGED <<queue, flush, acked>> /\ (conn' = "down" => flush' = "off")
    BY <1>1, <1>3 DEF Awaited
  <2> QED
    BY <1>1, <2>1, AwaitedQuiet
<1>4. CASE Ends(Thread) /\ queue' = Tail(queue) /\ acked' = (acked \/ Head(queue).live)
  <2>1. \A i \in DOMAIN queue' : i + 1 \in DOMAIN queue /\ queue'[i] = queue[i + 1] /\ i + 1 # 1
                                 /\ i \in Int
    BY <1>1, <1>4, TailOf
  <2>2. CASE Head(queue).live
    <3>1. /\ Waiting(queue, 1, flush, fins) /\ ~acked
          /\ \A j \in DOMAIN queue : queue[j].live => j = 1
      BY <1>2, <2>2 DEF Awaited, Waiting
    <3>2. \A i \in DOMAIN queue' : ~queue'[i].live
      BY <2>1, <3>1
    <3>3. Head(queue).kind \in {"log", "finished"}
      BY <1>2 DEF Frames
    <3>4. flush' \in {"logAck", "finAck"}
      BY <1>1, <1>2, <3>1, <3>3 DEF Waiting
    <3>5. flush' = "finAck" => status'[Head(fins').dep] \notin Active
      <4>1. SUFFICES ASSUME flush = "finAck"
                     PROVE  status'[Head(fins).dep] \notin Active
        BY <1>1
      <4>2. Head(queue).kind = "finished" /\ Head(queue).row.dep = Head(fins).dep
        BY <1>2, <3>1, <3>3, <4>1 DEF Waiting
      <4>3. FinishedTx(Thread)
        <5>1. step = "tx"
          BY <4>2 DEF BoardInv, TypeInv, ThreadShape
        <5>2. Thread.step = "tx"
          BY <5>1 DEF Thread
        <5> QED
          BY <1>2, <1>4, <4>2, <5>2 DEF Ends, LogSettle, LogSeen
      <4>4. CASE status[Head(fins).dep] \in Active
        <5>1. status' = [status EXCEPT ![Head(fins).dep] = Verdict(Head(queue).row.ok)]
          BY <1>2, <4>2, <4>3, <4>4 DEF FinishedTx
        <5>2. Head(fins).dep \in Deps
          BY <1>2, <4>2 DEF Frames, FinRows
        <5>3. status \in [Deps -> {"none", "queued", "running", "success", "failed"}]
          BY <1>1 DEF TypeInv, TypeOK, RowTypes
        <5> QED
          BY <5>1, <5>2, <5>3 DEF Verdict, Active
      <4>5. CASE status[Head(fins).dep] \notin Active
        BY <1>2, <4>2, <4>3, <4>5 DEF FinishedTx, rowVars
      <4> QED
        BY <4>4, <4>5
    <3> QED
      BY <1>1, <3>2, <3>4, <3>5 DEF Awaited
  <2>3. CASE ~Head(queue).live
    <3>1. acked' = acked
      BY <1>2, <1>4, <2>3 DEF Frames, BoardInv, TypeInv, TypeOK, BufferTypes
    <3>2. acked /\ flush = "finAck" => status'[Head(fins).dep] \notin Active
      <4>1. flush = "finAck" => fins # <<>>
        BY <1>1 DEF TypeInv, BufferKeys
      <4> QED
        BY <1>1, <4>1, SettledStays DEF Awaited
    <3>3. ASSUME NEW i \in DOMAIN queue', queue'[i].live
          PROVE  /\ Waiting(queue', i, flush', fins') /\ ~acked'
                 /\ \A j \in DOMAIN queue' : queue'[j].live => j = i
      <4>1. i + 1 \in DOMAIN queue /\ queue[i + 1].live /\ queue'[i] = queue[i + 1]
        BY <2>1, <3>3
      <4>2. /\ Waiting(queue, i + 1, flush, fins) /\ ~acked
            /\ \A j \in DOMAIN queue : queue[j].live => j = i + 1
        BY <4>1 DEF Awaited, Waiting
      <4>3. Waiting(queue', i, flush', fins')
        BY <1>1, <4>1, <4>2 DEF Waiting
      <4> QED
        BY <2>1, <3>1, <4>2, <4>3
    <3> QED
      BY <1>1, <3>1, <3>2, <3>3 DEF Awaited, Waiting
  <2> QED
    BY <2>2, <2>3
<1> QED
  BY <1>3, <1>4 DEF WriterStep

LEMMA AwaitedReport ==
  ASSUME BoardInv, Awaited, FlushLogs \/ FlushFinished
  PROVE  Awaited'
<1>1. /\ flush \in {"log", "fin"} /\ UNCHANGED <<fins, acked, conn>> /\ queue \in Seq(Frames)
  BY DEF FlushLogs, FlushFinished, ToFinished, Report, bufferVars, BoardInv, TypeInv, TypeOK,
         LinkTypes
<1>2. ~acked /\ conn # "down"
  BY <1>1 DEF Awaited
<1>3. \A i \in DOMAIN queue : ~queue[i].live
  <2>1. \A i \in DOMAIN queue : queue[i].kind \in {"log", "finished"}
    BY <1>1 DEF Frames
  <2> QED
    BY <1>1, <2>1 DEF Awaited
<1>4. \E f \in Frames : queue' = Append(queue, f) /\ f.live
        /\ (f.kind = "finished" => flush' = "finAck" /\ f.row.dep = Head(fins).dep)
        /\ (f.kind = "log" => flush' = "logAck")
  <2>1. CASE FlushLogs
    <3>1. Head(logs) \in LogRows
      BY <2>1, TailOf DEF FlushLogs, BoardInv, TypeInv, TypeOK, BufferTypes
    <3>2. [kind |-> "log", row |-> Head(logs), live |-> TRUE] \in Frames
      BY <3>1 DEF Frames
    <3> QED
      BY <2>1, <3>2 DEF FlushLogs, Report
  <2>2. CASE FlushFinished
    <3>1. Head(fins) \in FinRows
      BY <2>2, TailOf DEF FlushFinished, BoardInv, TypeInv, TypeOK, BufferTypes
    <3>2. [kind |-> "finished", row |-> Head(fins), live |-> TRUE] \in Frames
      BY <3>1 DEF Frames
    <3> QED
      BY <2>2, <3>2 DEF FlushFinished, Report
  <2> QED
    BY <2>1, <2>2
<1>5. PICK f \in Frames : /\ queue' = Append(queue, f) /\ f.live
                          /\ f.kind = "finished" => flush' = "finAck" /\ f.row.dep = Head(fins).dep
                          /\ f.kind = "log" => flush' = "logAck"
  BY <1>4
<1>6. /\ \A i \in DOMAIN queue' : i \in DOMAIN queue \/ i = Len(queue) + 1
      /\ queue'[Len(queue) + 1] = f
      /\ \A i \in DOMAIN queue : queue'[i] = queue[i]
  BY <1>1, <1>5, AppendTo
<1>7. flush' \in {"logAck", "finAck"}
  BY <1>5 DEF Frames
<1>8. ASSUME NEW i \in DOMAIN queue', queue'[i].live
      PROVE  i = Len(queue) + 1 /\ Waiting(queue', i, flush', fins')
  <2>1. i = Len(queue) + 1
    BY <1>3, <1>6, <1>8
  <2> QED
    BY <1>1, <1>5, <1>6, <2>1 DEF Waiting
<1> QED
  BY <1>1, <1>2, <1>7, <1>8 DEF Awaited, Waiting

LEMMA AwaitedStep ==
  ASSUME BoardInv, Begun, Real, Awaited, [Next]_vars
  PROVE  Awaited'
<1>1. TypeInv /\ queue \in Seq(Frames)
  BY DEF BoardInv, TypeInv, TypeOK, LinkTypes
<1>2. CASE WriterStep
  BY <1>2, AwaitedWriter
<1>3. CASE FlushLogs \/ FlushFinished
  BY <1>3, AwaitedReport
<1>4. ASSUME NEW e \in Deps, NEW ok \in BOOLEAN, EndRun(e, ok) \/ DeployRun(e)
      PROVE  Awaited'
  <2>1. UNCHANGED <<queue, flush, acked, conn>>
    BY <1>4 DEF EndRun, DeployRun, linkVars
  <2>2. fins' = fins \/ \E row \in FinRows : fins' = UpsertFinished(row)
    <3>1. CASE EndRun(e, ok)
      BY <3>1 DEF EndRun, FinRows
    <3>2. CASE DeployRun(e) /\ fins' # fins
      <4> DEFINE row == CHOOSE r \in known : r.dep = e
      <4>1. (\E r \in known : r.dep = e) /\ fins' = UpsertFinished(row)
        BY <3>2 DEF DeployRun
      <4>2. row \in known
        BY <4>1
      <4> HIDE DEF row
      <4> QED
        BY <1>1, <4>1, <4>2 DEF TypeInv, TypeOK, RunnerTypes
    <3> QED
      BY <1>4, <3>1, <3>2
  <2>3. flush = "finAck" => Head(fins').dep = Head(fins).dep
    <3>1. flush = "finAck" => fins # <<>>
      BY <1>1 DEF TypeInv, BufferKeys
    <3> QED
      BY <1>1, <2>2, <3>1, HeadStays
  <2> QED
    BY <2>1, <2>3, AwaitedQuiet DEF Awaited
<1>5. CASE \/ \E d \in Deps : Create(d) \/ Dispatch(d) \/ EmitLog(d)
           \/ OtherReport \/ (\E t \in orphans : OrphanStep(t) \/ OrphanFails(t)) \/ Reconcile
           \/ UNCHANGED vars
  <2>1. UNCHANGED <<queue, flush, acked, conn, fins>>
    BY <1>5
       DEF Create, Dispatch, EmitLog, OtherReport, OrphanStep, OrphanFails, Reconcile, linkVars,
           bufferVars, vars
  <2> QED
    BY <2>1, AwaitedQuiet DEF Awaited
<1>6. \A i \in DOMAIN queue : queue[i].kind \in {"log", "finished"}
  BY <1>1 DEF Frames
<1>7. CASE FlushWake \/ FlushRest
  <2>1. flush \in {"idle", "log", "fin"} /\ flush' \in {"idle", "log"} /\ UNCHANGED <<queue, acked, conn>>
    BY <1>7 DEF FlushWake, FlushRest, ToFinished, linkVars
  <2>2. ~acked /\ conn # "down" /\ \A i \in DOMAIN queue : ~queue[i].live
    BY <1>6, <2>1 DEF Awaited
  <2> QED
    BY <2>1, <2>2 DEF Awaited
<1>8. CASE AckLog \/ AckFinished
  <2>1. acked /\ acked' = FALSE /\ UNCHANGED <<queue, conn>> /\ flush # "off"
    BY <1>8 DEF AckLog, AckFinished, linkVars
  <2>2. conn # "down" /\ \A i \in DOMAIN queue : ~queue[i].live
    BY <2>1 DEF Awaited
  <2> QED
    BY <2>1, <2>2 DEF Awaited
<1>9. CASE AckTimeout \/ Disconnect \/ DaemonCrash
  <2>1. queue' = Stale(queue) /\ acked' = FALSE
    BY <1>9 DEF AckTimeout, Disconnect, DaemonCrash, LinkLost
  <2>2. \A i \in DOMAIN queue' : ~queue'[i].live
    BY <1>1, <2>1, StaleFrames
  <2>3. conn' = "down" => flush' = "off"
    <3>1. CASE AckTimeout
      BY <3>1 DEF AckTimeout, Awaited
    <3>2. CASE Disconnect \/ DaemonCrash
      BY <3>2 DEF Disconnect, DaemonCrash, LinkLost
    <3> QED
      BY <1>9, <3>1, <3>2
  <2> QED
    BY <2>1, <2>2, <2>3 DEF Awaited
<1>10. CASE ServerRestart \/ Connect
  <2>1. queue' = <<>> /\ DOMAIN <<>> = {}
    BY <1>10 DEF ServerRestart, Connect
  <2>2. acked' = FALSE
    <3>1. acked \in BOOLEAN
      BY <1>1 DEF TypeInv, TypeOK, BufferTypes
    <3> QED
      BY <1>10, <3>1 DEF ServerRestart, Connect, LinkLost, Awaited
  <2>3. conn' = "down" => flush' = "off"
    BY <1>10 DEF ServerRestart, Connect, LinkLost
  <2> QED
    BY <2>1, <2>2, <2>3 DEF Awaited
<1>11. CASE WriteFails
  <2>1. queue # <<>> /\ queue' = Tail(queue) /\ UNCHANGED <<flush, acked, conn, fins, status>>
    BY <1>11 DEF WriteFails, TxFails, bufferVars, rowVars
  <2>2. \A i \in DOMAIN queue' : i + 1 \in DOMAIN queue /\ queue'[i] = queue[i + 1] /\ i \in Int
    BY <1>1, <2>1, TailOf
  <2>3. ASSUME NEW i \in DOMAIN queue', queue'[i].live
        PROVE  /\ Waiting(queue', i, flush', fins') /\ ~acked'
               /\ \A j \in DOMAIN queue' : queue'[j].live => j = i
    <3>1. i + 1 \in DOMAIN queue /\ queue[i + 1].live /\ queue'[i] = queue[i + 1]
      BY <2>2, <2>3
    <3>2. /\ Waiting(queue, i + 1, flush, fins) /\ ~acked
          /\ \A j \in DOMAIN queue : queue[j].live => j = i + 1
      BY <3>1 DEF Awaited, Waiting
    <3>3. Waiting(queue', i, flush', fins')
      BY <2>1, <3>1, <3>2 DEF Waiting
    <3> QED
      BY <2>1, <2>2, <3>2, <3>3
  <2> QED
    BY <2>1, <2>3 DEF Awaited, Waiting
<1> QED
  BY <1>2, <1>3, <1>4, <1>5, <1>7, <1>8, <1>9, <1>10, <1>11 DEF Next

LEMMA UpsertDeps ==
  ASSUME TypeInv, NEW row \in FinRows, fins' = UpsertFinished(row)
  PROVE  /\ \A i \in DOMAIN fins : \E j \in DOMAIN fins' : fins'[j].dep = fins[i].dep
         /\ \E j \in DOMAIN fins' : fins'[j].dep = row.dep
<1> DEFINE new == UpsertFinished(row)
<1>1. /\ \A i \in DOMAIN fins : \E j \in DOMAIN new : new[j].dep = fins[i].dep
      /\ \E j \in DOMAIN new : new[j].dep = row.dep
  BY UpsertFinishedKeeps
<1>2. fins' = new
  OBVIOUS
<1> HIDE DEF new
<1> QED
  BY <1>1, <1>2

LEMMA KeptStep ==
  ASSUME VerdictInv, [Next]_vars
  PROVE  VerdictKept'
<1>1. /\ TypeInv /\ BoardInv /\ Begun /\ Real /\ Awaited /\ VerdictKept
      /\ fins \in Seq(FinRows) /\ ended \in [Deps -> SUBSET BOOLEAN] /\ running \subseteq Deps
  BY DEF VerdictInv, BoardInv, TypeInv, TypeOK, BufferTypes, RunnerTypes
<1>2. ASSUME NEW d \in Deps, status[d] \notin Active, ended[d] # {}
      PROVE  status'[d] \notin Active
  <2>1. status[d] \notin Active \cup {"none"}
    BY <1>1, <1>2 DEF Begun
  <2> QED
    BY <1>1, <2>1, StatusMoves
<1>3. ASSUME NEW d \in Deps, ended'[d] = ended[d] \/ ended[d] # {},
             (\E i \in DOMAIN fins : fins[i].dep = d) => \E i \in DOMAIN fins' : fins'[i].dep = d
      PROVE  ended'[d] # {} => status'[d] \notin Active \/ \E i \in DOMAIN fins' : fins'[i].dep = d
  BY <1>1, <1>2, <1>3 DEF VerdictKept
<1>4. ASSUME NEW e \in Deps, NEW ok \in BOOLEAN, EndRun(e, ok)
      PROVE  VerdictKept'
  <2> DEFINE row == [dep |-> e, ok |-> ok]
  <2>1. row \in FinRows /\ row.dep = e /\ fins' = UpsertFinished(row)
        /\ ended' = [ended EXCEPT ![e] = @ \cup {ok}]
    BY <1>4 DEF EndRun, FinRows
  <2> HIDE DEF row
  <2>2. /\ \A i \in DOMAIN fins : \E j \in DOMAIN fins' : fins'[j].dep = fins[i].dep
        /\ \E j \in DOMAIN fins' : fins'[j].dep = e
    BY <1>1, <2>1, UpsertDeps
  <2>3. \A d \in Deps : d # e => ended'[d] = ended[d]
    BY <1>1, <2>1
  <2> QED
    BY <1>3, <2>2, <2>3 DEF VerdictKept
<1>5. ASSUME NEW e \in Deps, DeployRun(e), fins' # fins
      PROVE  VerdictKept'
  <2> DEFINE row == CHOOSE r \in known : r.dep = e
  <2>1. (\E r \in known : r.dep = e) /\ fins' = UpsertFinished(row) /\ ended' = ended
    BY <1>5 DEF DeployRun
  <2>2. row \in known
    BY <2>1
  <2> HIDE DEF row
  <2>3. row \in FinRows
    BY <1>1, <2>2 DEF TypeInv, TypeOK, RunnerTypes
  <2>4. \A i \in DOMAIN fins : \E j \in DOMAIN fins' : fins'[j].dep = fins[i].dep
    BY <1>1, <2>1, <2>3, UpsertDeps
  <2> QED
    BY <1>3, <2>1, <2>4 DEF VerdictKept
<1>6. CASE AckFinished
  <2>1. flush = "finAck" /\ acked /\ fins' = Tail(fins) /\ ended' = ended /\ fins # <<>>
    BY <1>1, <1>6 DEF AckFinished, runnerVars, TypeInv, BufferKeys
  <2>2. status'[Head(fins).dep] \notin Active
    BY <1>1, <2>1, SettledStays DEF Awaited
  <2>3. /\ Head(fins) = fins[1]
        /\ \A i \in DOMAIN fins : i # 1 => i - 1 \in DOMAIN fins' /\ fins'[i - 1] = fins[i]
    BY <1>1, <2>1, TailOf
  <2>4. ASSUME NEW d \in Deps, ended'[d] # {}, status'[d] \in Active
        PROVE  \E i \in DOMAIN fins' : fins'[i].dep = d
    <3>1. status[d] \in Active
      BY <1>2, <2>1, <2>4
    <3>2. PICK i \in DOMAIN fins : fins[i].dep = d
      BY <1>1, <2>1, <2>4, <3>1 DEF VerdictKept
    <3>3. i # 1
      BY <2>2, <2>3, <2>4, <3>2
    <3> QED
      BY <2>3, <3>2, <3>3
  <2> QED
    BY <2>4 DEF VerdictKept
<1>7. CASE fins' = fins /\ ended' = ended
  BY <1>3, <1>7 DEF VerdictKept
<1>8. \/ (fins' = fins /\ ended' = ended)
      \/ AckFinished
      \/ \E e \in Deps : DeployRun(e) \/ \E ok \in BOOLEAN : EndRun(e, ok)
  BY DEF Next, Create, Dispatch, EmitLog, OtherReport, FlushWake, FlushLogs, FlushFinished,
         FlushRest, Report, AckLog, AckTimeout, WriterStep, OrphanStep, WriteFails,
         OrphanFails, TxFails, Connect, Reconcile, Disconnect, DaemonCrash, ServerRestart,
         bufferVars, runnerVars, vars
<1>9. ASSUME NEW e \in Deps, DeployRun(e)
      PROVE  ended' = ended
  BY <1>9 DEF DeployRun
<1> QED
  BY <1>4, <1>5, <1>6, <1>7, <1>8, <1>9

LEMMA VerdictInvariant == ASSUME DeployAssumption PROVE Spec => []VerdictInv
<1>1. ASSUME Init
      PROVE  VerdictInv
  <2>1. DOMAIN <<>> = {}
    OBVIOUS
  <2>2. BoardInv
    BY <1>1, TypeInit DEF BoardInv, Init, Board!OneActive, Board!Active
  <2>3. Begun /\ VerdictKept
    BY <1>1 DEF Init, Begun, VerdictKept
  <2>4. Real
    BY <1>1, <2>1 DEF Init, Real
  <2>5. Awaited
    BY <1>1, <2>1 DEF Init, Awaited
  <2> QED
    BY <2>2, <2>3, <2>4, <2>5 DEF VerdictInv
<1>2. ASSUME VerdictInv, [Next]_vars
      PROVE  VerdictInv'
  <2>1. TypeInv' /\ Board!OneActive'
    <3>1. TypeInv'
      BY <1>2, TypeStep DEF VerdictInv, BoardInv
    <3>2. Board!OneActive'
      BY <1>2, BoardStep, OneActiveStep DEF VerdictInv, BoardInv, TypeInv, TypeOK, RowTypes
    <3> QED
      BY <3>1, <3>2
  <2>2. Begun' /\ Real' /\ Awaited'
    BY <1>2, BegunStep, RealStep, AwaitedStep DEF VerdictInv, BoardInv
  <2>3. VerdictKept'
    BY <1>2, KeptStep
  <2> QED
    BY <2>1, <2>2, <2>3 DEF VerdictInv, BoardInv
<1> QED
  BY <1>1, <1>2, PTL DEF Spec

\* The verdict of a run that ended is settled on its row or still buffered, over
\* any number of acks, timeouts, failed writes, reconnections, crashes and
\* restarts, and whatever a late thread of a lost connection still does.
THEOREM VerdictsAreKept == ASSUME DeployAssumption PROVE Spec => []VerdictKept
<1>1. VerdictInv => VerdictKept
  BY DEF VerdictInv
<1> QED
  BY <1>1, VerdictInvariant, PTL

\* Nothing was spent of the budget for the daemon's or the server's death, so
\* the computer has been registered with the first boot nonce or not at all.
Calm == left["crash"] = Budget["crash"] /\ left["restart"] = Budget["restart"]

FirstBoot ==
  /\ \A f \in Faults : left[f] <= Budget[f]
  /\ Calm => /\ boot = 1 /\ nonce \in {0, 1}
             /\ nonce = 0 => conn = "down" /\ \A d \in Deps : status[d] = "none"
             /\ rebooted /\ recon => \A d \in Deps : status[d] = "none" \/ d \in early

\* Unless the daemon died, it remembers every command it started.
Remembered ==
  left["crash"] = Budget["crash"] =>
    \A d \in Deps :
      runs[d] = 0 \/ (runs[d] = 1 /\ (d \in running \/ \E r \in known : r.dep = d))

RealInv == FirstBoot /\ VerdictIsReal

\* The budget only shrinks, and what is spent is not given back.
LEMMA Spending ==
  ASSUME TypeInv, FirstBoot, DeployAssumption, [Next]_vars
  PROVE  /\ \A f \in Faults : left'[f] <= left[f] /\ left'[f] <= Budget[f]
         /\ left'["crash"] = Budget["crash"] => left["crash"] = Budget["crash"] /\ ~DaemonCrash
         /\ Calm' => Calm /\ ~DaemonCrash /\ ~ServerRestart
<1>1. left \in [Faults -> Nat] /\ Budget \in [Faults -> Nat] /\ {"crash", "restart"} \subseteq Faults
  BY DEF TypeInv, TypeOK, DeployAssumption, Faults
<1>2. ASSUME NEW f \in Faults, Spend(f)
      PROVE  left'[f] < left[f] /\ \A g \in Faults : left'[g] <= left[g]
  BY <1>1, <1>2 DEF Spend
<1>3. left' = left \/ \E f \in Faults : Spend(f)
  BY DEF Next, Create, Dispatch, DeployRun, EmitLog, EndRun, OtherReport, FlushWake,
         FlushLogs, FlushFinished, FlushRest, Report, AckLog, AckFinished, AckTimeout,
         WriterStep, Continues, Ends, LogTx, LogAppend, LogSettle, LogSeen, FinishedTx,
         OrphanStep, WriteFails, OrphanFails, TxFails, Connect, Reconcile, Disconnect,
         DaemonCrash, ServerRestart, Faults, vars
<1>4. \A f \in Faults : left'[f] <= left[f] /\ left'[f] \in Int
  <2>1. CASE left' = left
    BY <1>1, <2>1
  <2>2. ASSUME NEW f \in Faults, Spend(f)
        PROVE  \A g \in Faults : left'[g] <= left[g] /\ left'[g] \in Int
    BY <1>1, <2>2 DEF Spend
  <2> QED
    BY <1>3, <2>1, <2>2
<1>5. \A f \in Faults : left'[f] <= Budget[f]
  BY <1>1, <1>4 DEF FirstBoot
<1>6. DaemonCrash => left'["crash"] < left["crash"]
  BY <1>1, <1>2 DEF DaemonCrash
<1>7. ServerRestart => left'["restart"] < left["restart"]
  BY <1>1, <1>2 DEF ServerRestart
<1>8. left["crash"] <= Budget["crash"] /\ left["restart"] <= Budget["restart"]
  BY <1>1 DEF FirstBoot
<1>9. left'["crash"] <= left["crash"] /\ left'["restart"] <= left["restart"]
      /\ left'["crash"] \in Int /\ left'["restart"] \in Int
  BY <1>1, <1>4
<1>10. left'["crash"] = Budget["crash"] => left["crash"] = Budget["crash"] /\ ~DaemonCrash
  BY <1>1, <1>6, <1>8, <1>9
<1>11. left'["restart"] = Budget["restart"] => left["restart"] = Budget["restart"] /\ ~ServerRestart
  BY <1>1, <1>7, <1>8, <1>9
<1> QED
  BY <1>4, <1>5, <1>10, <1>11 DEF Calm

\* Who changes rows, and to what.
LEMMA RowWrites ==
  ASSUME BoardInv, Begun, Real, [Next]_vars, NEW d \in Deps, status'[d] # status[d]
  PROVE  \/ Create(d) /\ status'[d] = "queued"
         \/ status[d] = "queued" /\ status'[d] = "running"
         \/ \E ok \in ended[d] : status[d] # "none" /\ status'[d] = Verdict(ok)
         \/ Reconcile /\ rebooted /\ status[d] = "running" /\ status'[d] = "failed"
<1>1. /\ status \in [Deps -> {"none", "queued", "running", "success", "failed"}]
      /\ orphans \subseteq Threads /\ queue \in Seq(Frames)
  BY DEF BoardInv, TypeInv, TypeOK, RowTypes, LinkTypes
<1>2. ASSUME NEW t \in Threads, Continues(t) \/ Ends(t),
             t.frame.kind = "finished" => Told(t.frame.row)
      PROVE  \/ status[d] = "queued" /\ status'[d] = "running"
             \/ \E ok \in ended[d] : status[d] # "none" /\ status'[d] = Verdict(ok)
  <2>1. t.frame.row.dep \in Deps
    BY DEF Threads, Frames, LogRows, FinRows
  <2>2. CASE LogTx(t)
    BY <1>1, <2>1, <2>2 DEF LogTx
  <2>3. CASE FinishedTx(t)
    <3>1. status[t.frame.row.dep] \in Active /\ t.frame.kind = "finished"
          /\ status' = [status EXCEPT ![t.frame.row.dep] = Verdict(t.frame.row.ok)]
      BY <2>3 DEF FinishedTx, rowVars
    <3>2. t.frame.row.ok \in ended[t.frame.row.dep]
      BY <1>2, <3>1 DEF Told
    <3>3. d = t.frame.row.dep /\ status'[d] = Verdict(t.frame.row.ok)
      BY <1>1, <2>1, <3>1
    <3> QED
      BY <3>1, <3>2, <3>3 DEF Active
  <2> QED
    BY <1>2, <2>2, <2>3 DEF Continues, Ends, LogAppend, LogSettle, LogSeen, rowVars
<1>3. ASSUME NEW e \in Deps, Create(e)
      PROVE  Create(d) /\ status'[d] = "queued"
  BY <1>1, <1>3 DEF Create
<1>4. CASE WriterStep
  <2>1. queue # <<>> /\ (Continues(Thread) \/ Ends(Thread))
    BY <1>4 DEF WriterStep
  <2>2. Thread \in Threads /\ Thread.frame = queue[1] /\ 1 \in DOMAIN queue
    BY <1>1, <2>1, HeadThread, TailOf DEF BoardInv
  <2> QED
    BY <1>2, <2>1, <2>2 DEF Real
<1>5. ASSUME NEW t \in orphans, OrphanStep(t)
      PROVE  \/ status[d] = "queued" /\ status'[d] = "running"
             \/ \E ok \in ended[d] : status[d] # "none" /\ status'[d] = Verdict(ok)
  BY <1>1, <1>2, <1>5 DEF OrphanStep, Real
<1>6. CASE Reconcile
  BY <1>6 DEF Reconcile
<1>7. \/ \E e \in Deps : Create(e)
      \/ WriterStep \/ Reconcile \/ \E t \in orphans : OrphanStep(t)
  BY DEF Next, Dispatch, DeployRun, EmitLog, EndRun, OtherReport, FlushWake, FlushLogs,
         FlushFinished, FlushRest, Report, AckLog, AckFinished, AckTimeout, WriteFails,
         OrphanFails, TxFails, Connect, Disconnect, DaemonCrash, ServerRestart, rowVars, vars
<1> QED
  BY <1>3, <1>4, <1>5, <1>6, <1>7

\* What of the connection's state a step that is not one of a few leaves alone.
LEMMA LinkMoves ==
  ASSUME [Next]_vars
  PROVE  /\ boot' = boot \/ DaemonCrash
         /\ (nonce' = nonce /\ rebooted' = rebooted) \/ Connect \/ ServerRestart
         /\ (conn' = "up" => conn = "up") \/ Connect
         /\ (recon' => recon) \/ Connect
         /\ (early \subseteq early')
         /\ ended' = ended \/ \E e \in Deps, ok \in BOOLEAN : EndRun(e, ok)
<1>1. early \subseteq early'
  BY DEF Next, Create, Dispatch, DeployRun, EmitLog, EndRun, OtherReport, FlushWake,
         FlushLogs, FlushFinished, FlushRest, Report, AckLog, AckFinished, AckTimeout,
         WriterStep, OrphanStep, WriteFails, OrphanFails, TxFails, Connect, Reconcile,
         Disconnect, DaemonCrash, ServerRestart, askVars, vars
<1>2. ended' = ended \/ \E e \in Deps, ok \in BOOLEAN : EndRun(e, ok)
  BY DEF Next, Create, Dispatch, DeployRun, EmitLog, OtherReport, FlushWake, FlushLogs,
         FlushFinished, FlushRest, Report, AckLog, AckFinished, AckTimeout, WriterStep,
         OrphanStep, WriteFails, OrphanFails, TxFails, Connect, Reconcile, Disconnect,
         DaemonCrash, ServerRestart, runnerVars, vars
<1>3. boot' = boot \/ DaemonCrash
  BY DEF Next, Create, Dispatch, DeployRun, EmitLog, EndRun, OtherReport, FlushWake,
         FlushLogs, FlushFinished, FlushRest, Report, AckLog, AckFinished, AckTimeout,
         WriterStep, OrphanStep, WriteFails, OrphanFails, TxFails, Connect, Reconcile,
         Disconnect, ServerRestart, runnerVars, vars
<1>4. (nonce' = nonce /\ rebooted' = rebooted) \/ Connect \/ ServerRestart
  BY DEF Next, Create, Dispatch, DeployRun, EmitLog, EndRun, OtherReport, FlushWake,
         FlushLogs, FlushFinished, FlushRest, Report, AckLog, AckFinished, AckTimeout,
         WriterStep, OrphanStep, WriteFails, OrphanFails, TxFails, Reconcile, Disconnect,
         DaemonCrash, reconVars, vars
<1>5. conn' = conn \/ conn' = "down" \/ Connect
  BY DEF Next, Create, Dispatch, DeployRun, EmitLog, EndRun, OtherReport, FlushWake,
         FlushLogs, FlushFinished, FlushRest, Report, AckLog, AckFinished, AckTimeout,
         WriterStep, OrphanStep, WriteFails, OrphanFails, TxFails, Reconcile, Disconnect,
         DaemonCrash, ServerRestart, LinkLost, linkVars, vars
<1>6. recon' = recon \/ recon' = FALSE \/ Connect
  BY DEF Next, Create, Dispatch, DeployRun, EmitLog, EndRun, OtherReport, FlushWake,
         FlushLogs, FlushFinished, FlushRest, Report, AckLog, AckFinished, AckTimeout,
         WriterStep, OrphanStep, WriteFails, OrphanFails, TxFails, Reconcile, Disconnect,
         DaemonCrash, ServerRestart, LinkLost, reconVars, vars
<1>7. (recon' => recon) \/ Connect
  BY <1>6, Zenon
<1> QED
  BY <1>1, <1>2, <1>3, <1>4, <1>5, <1>7

LEMMA FirstBootStep ==
  ASSUME VerdictInv, FirstBoot, DeployAssumption, [Next]_vars
  PROVE  FirstBoot'
<1>1. /\ TypeInv /\ BoardInv /\ Begun /\ Real
      /\ nonce \in Nat /\ boot \in Nat /\ conn \in {"down", "up"}
      /\ rebooted \in BOOLEAN /\ recon \in BOOLEAN
  BY DEF VerdictInv, BoardInv, TypeInv, TypeOK, LinkTypes, RunnerTypes
<1>2. \A f \in Faults : left'[f] <= Budget[f]
  BY <1>1, Spending
<1>3. ASSUME Calm'
      PROVE  /\ boot' = 1 /\ nonce' \in {0, 1}
             /\ nonce' = 0 => conn' = "down" /\ \A d \in Deps : status'[d] = "none"
             /\ rebooted' /\ recon' => \A d \in Deps : status'[d] = "none" \/ d \in early'
  <2>1. Calm /\ ~DaemonCrash /\ ~ServerRestart
    BY <1>1, <1>3, Spending
  <2>2. /\ boot = 1 /\ nonce \in {0, 1}
        /\ nonce = 0 => conn = "down" /\ \A d \in Deps : status[d] = "none"
        /\ rebooted /\ recon => \A d \in Deps : status[d] = "none" \/ d \in early
    BY <2>1 DEF FirstBoot
  <2>3. boot' = 1
    BY <2>1, <2>2, LinkMoves
  <2>4. CASE Connect
    <3>1. /\ conn = "down" /\ nonce' = boot /\ rebooted' = (nonce # boot)
          /\ status' = status /\ early' = early
      BY <2>4 DEF Connect, rowVars, askVars
    <3>2. rebooted' => \A d \in Deps : status'[d] = "none"
      BY <2>2, <3>1
    <3>3. nonce' = 1
      BY <2>2, <3>1
    <3> QED
      BY <2>3, <3>2, <3>3
  <2>5. CASE ~Connect
    <3>1. /\ nonce' = nonce /\ rebooted' = rebooted /\ (conn' = "up" => conn = "up")
          /\ (recon' => recon) /\ early \subseteq early'
      BY <2>1, <2>5, LinkMoves
    <3>2. conn' \in {"down", "up"}
      <4>1. TypeInv'
        BY <1>1, TypeStep
      <4> QED
        BY <4>1 DEF TypeInv, TypeOK, LinkTypes
    <3>3. ASSUME NEW d \in Deps, status'[d] # status[d], status[d] = "none"
          PROVE  conn = "up" /\ (recon /\ rebooted => d \in early')
      <4>1. Create(d)
        BY <1>1, <3>3, RowWrites
      <4> QED
        BY <4>1 DEF Create
    <3>4. nonce' = 0 => conn' = "down" /\ \A d \in Deps : status'[d] = "none"
      BY <2>2, <3>1, <3>2, <3>3
    <3>5. rebooted' /\ recon' => \A d \in Deps : status'[d] = "none" \/ d \in early'
      BY <2>2, <3>1, <3>3
    <3> QED
      BY <2>2, <2>3, <3>1, <3>4, <3>5
  <2> QED
    BY <2>4, <2>5
<1> QED
  BY <1>2, <1>3 DEF FirstBoot, Calm

LEMMA RealVerdictStep ==
  ASSUME VerdictInv, RealInv, DeployAssumption, [Next]_vars
  PROVE  VerdictIsReal'
<1>1. /\ TypeInv /\ BoardInv /\ Begun /\ Real /\ FirstBoot /\ VerdictIsReal
      /\ ended \in [Deps -> SUBSET BOOLEAN]
  BY DEF VerdictInv, BoardInv, TypeInv, TypeOK, RunnerTypes, RealInv
<1>2. \A d \in Deps : ended[d] \subseteq ended'[d]
  <2>1. ASSUME NEW e \in Deps, NEW ok \in BOOLEAN, EndRun(e, ok)
        PROVE  \A d \in Deps : ended[d] \subseteq ended'[d]
    BY <1>1, <2>1 DEF EndRun
  <2> QED
    BY <2>1, LinkMoves
<1>3. early \subseteq early'
  BY LinkMoves
<1>4. Calm' => Calm
  BY <1>1, Spending
<1>5. ASSUME NEW d \in Deps, status'[d] = status[d]
      PROVE  /\ status'[d] = "success" => TRUE \in ended'[d]
             /\ status'[d] = "failed" /\ d \notin early' => FALSE \in ended'[d] \/ ~Calm'
  BY <1>1, <1>2, <1>3, <1>4, <1>5 DEF VerdictIsReal, Calm
<1>6. ASSUME NEW d \in Deps, NEW ok \in ended[d], status'[d] = Verdict(ok)
      PROVE  /\ status'[d] = "success" => TRUE \in ended'[d]
             /\ status'[d] = "failed" => FALSE \in ended'[d]
  <2>1. ok \in BOOLEAN /\ ok \in ended'[d]
    BY <1>1, <1>2, <1>6
  <2> QED
    BY <1>6, <2>1 DEF Verdict
<1>7. ASSUME NEW d \in Deps, Reconcile, rebooted, status[d] = "running"
      PROVE  d \in early' \/ ~Calm'
  <2>1. recon
    BY <1>7 DEF Reconcile
  <2> QED
    BY <1>1, <1>3, <1>4, <1>7, <2>1 DEF FirstBoot
<1>8. ASSUME NEW d \in Deps, status'[d] # status[d]
      PROVE  /\ status'[d] = "success" => TRUE \in ended'[d]
             /\ status'[d] = "failed" /\ d \notin early' => FALSE \in ended'[d] \/ ~Calm'
  <2>1. \/ status'[d] \in {"queued", "running"}
        \/ \E ok \in ended[d] : status'[d] = Verdict(ok)
        \/ Reconcile /\ rebooted /\ status[d] = "running" /\ status'[d] = "failed"
    BY <1>1, <1>8, RowWrites
  <2> QED
    BY <1>6, <1>7, <2>1
<1> QED
  BY <1>5, <1>8 DEF VerdictIsReal, Calm

LEMMA RealInvariant == ASSUME DeployAssumption PROVE Spec => [](VerdictInv /\ RealInv)
<1>1. ASSUME Init
      PROVE  RealInv
  <2>1. \A f \in Faults : left[f] <= Budget[f]
    BY <1>1 DEF Init, DeployAssumption
  <2> QED
    BY <1>1, <2>1 DEF Init, RealInv, FirstBoot, VerdictIsReal, Calm
<1>2. ASSUME VerdictInv, RealInv, [Next]_vars
      PROVE  RealInv'
  BY <1>2, FirstBootStep, RealVerdictStep DEF RealInv
<1> QED
  BY <1>1, <1>2, VerdictInvariant, PTL DEF Spec

\* A success was reached by a run of the command; a failure by a run too, or by
\* the death of a process, or through the window in which a request is accepted
\* while a restart is being reconciled. Reconnecting alone settles no row.
THEOREM VerdictsAreReal == ASSUME DeployAssumption PROVE Spec => []VerdictIsReal
<1>1. RealInv => VerdictIsReal
  BY DEF RealInv
<1> QED
  BY <1>1, RealInvariant, PTL

LEMMA RememberedStep ==
  ASSUME VerdictInv, FirstBoot, Remembered, DeployAssumption, [Next]_vars
  PROVE  Remembered'
<1> SUFFICES ASSUME left'["crash"] = Budget["crash"], NEW d \in Deps
             PROVE  \/ runs'[d] = 0
                    \/ runs'[d] = 1 /\ (d \in running' \/ \E r \in known' : r.dep = d)
  BY DEF Remembered
<1>1. TypeInv /\ runs \in [Deps -> Nat]
  BY DEF VerdictInv, BoardInv, TypeInv, TypeOK, RunnerTypes
<1>2. left["crash"] = Budget["crash"] /\ ~DaemonCrash
  BY <1>1, Spending
<1>3. runs[d] = 0 \/ (runs[d] = 1 /\ (d \in running \/ \E r \in known : r.dep = d))
  BY <1>2 DEF Remembered
<1>4. ASSUME NEW e \in Deps, DeployRun(e)
      PROVE  \/ runs'[d] = 0
             \/ runs'[d] = 1 /\ (d \in running' \/ \E r \in known' : r.dep = d)
  <2>1. known' = known
    BY <1>4 DEF DeployRun
  <2>2. \/ runs' = runs /\ running' = running
        \/ /\ e \notin running /\ ~\E r \in known : r.dep = e
           /\ runs' = [runs EXCEPT ![e] = @ + 1] /\ running' = running \cup {e}
    BY <1>4 DEF DeployRun
  <2>3. CASE runs' = runs /\ running' = running
    BY <1>3, <2>1, <2>3
  <2>4. CASE /\ e \notin running /\ ~\E r \in known : r.dep = e
             /\ runs' = [runs EXCEPT ![e] = @ + 1] /\ running' = running \cup {e}
    BY <1>1, <1>3, <2>1, <2>4
  <2> QED
    BY <2>2, <2>3, <2>4
<1>5. ASSUME NEW e \in Deps, NEW ok \in BOOLEAN, EndRun(e, ok)
      PROVE  \/ runs'[d] = 0
             \/ runs'[d] = 1 /\ (d \in running' \/ \E r \in known' : r.dep = d)
  <2>1. /\ runs' = runs /\ running' = running \ {e}
        /\ known' = known \cup {[dep |-> e, ok |-> ok]}
    BY <1>5 DEF EndRun
  <2>2. [dep |-> e, ok |-> ok].dep = e /\ [dep |-> e, ok |-> ok] \in known'
    BY <2>1
  <2>3. d # e /\ d \in running => d \in running'
    BY <2>1
  <2>4. d = e => \E r \in known' : r.dep = d
    BY <2>2
  <2>5. \A r \in known : r \in known'
    BY <2>1
  <2> QED
    BY <1>3, <2>1, <2>3, <2>4, <2>5
<1>6. \/ runs' = runs /\ running' = running /\ known' = known
      \/ \E e \in Deps : DeployRun(e) \/ \E ok \in BOOLEAN : EndRun(e, ok)
  BY <1>2 DEF Next, Create, Dispatch, EmitLog, OtherReport, FlushWake, FlushLogs,
         FlushFinished, FlushRest, Report, AckLog, AckFinished, AckTimeout, WriterStep,
         OrphanStep, WriteFails, OrphanFails, TxFails, Connect, Reconcile, Disconnect,
         ServerRestart, runnerVars, vars
<1> QED
  BY <1>3, <1>4, <1>5, <1>6

\* As long as the daemon lives, no reconnection, restart of the server, late
\* instruction or redispatch makes it start the command of a deployment twice.
THEOREM RunsAtMostOnce == ASSUME DeployAssumption PROVE Spec => []RunsOnce
<1>1. Init => Remembered
  BY DEF Init, Remembered
<1>2. ASSUME VerdictInv, RealInv, Remembered, [Next]_vars
      PROVE  Remembered'
  BY <1>2, RememberedStep DEF RealInv
<1>3. ASSUME TypeInv, Remembered
      PROVE  RunsOnce
  <2>1. runs \in [Deps -> Nat]
    BY <1>3 DEF TypeInv, TypeOK, RunnerTypes
  <2>2. ASSUME left["crash"] = Budget["crash"], NEW d \in Deps
        PROVE  runs[d] <= 1
    <3>1. runs[d] = 0 \/ runs[d] = 1
      BY <1>3, <2>2 DEF Remembered
    <3> QED
      BY <3>1
  <2> QED
    BY <2>2 DEF RunsOnce
<1>4. VerdictInv => TypeInv
  BY DEF VerdictInv, BoardInv
<1> QED
  BY <1>1, <1>2, <1>3, <1>4, RealInvariant, PTL DEF Spec
-----------------------------------------------------------------------------
(* The log is whole *)

InFile(d, n)  == \E j \in DOMAIN file[d] : file[d][j].seq = n
Preceded(row) == \A m \in Chunks : m < row.seq => InFile(row.dep, m)
Reached(row)  == InFile(row.dep, row.seq)

\* The buffer holds the chunks of a deployment in the order they were printed.
LogOrder ==
  /\ \A i \in DOMAIN logs : logs[i].seq < chunk[logs[i].dep]
  /\ \A i, j \in DOMAIN logs :
       i < j /\ logs[i].dep = logs[j].dep => logs[i].seq < logs[j].seq

LogKept == \A d \in Deps, n \in Chunks : n < chunk[d] => Buffered(d, n) \/ InFile(d, n)

Gapless ==
  \A d \in Deps : \A i \in DOMAIN file[d] : \A m \in Chunks :
    m < file[d][i].seq => \E j \in DOMAIN file[d] : j < i /\ file[d][j].seq = m

\* A chunk is on its way to the file only once those before it are in it, and a
\* thread that is about to move the cursor has written its chunk.
LogThreads ==
  /\ \A i \in DOMAIN queue : queue[i].kind = "log" => Preceded(queue[i].row)
  /\ step = "settle" => Reached(Head(queue).row)
  /\ \A t \in orphans : t.frame.kind = "log" =>
       Preceded(t.frame.row) /\ (t.step = "settle" => Reached(t.frame.row))

LogCursors == \A d \in Deps, n \in Chunks : n <= cursor[d] \/ n <= sidecar[d] => InFile(d, n)

\* The report that is awaited is of the first chunk of the buffer, and when it
\* was acked that chunk is in the file.
LogAcks ==
  flush = "logAck" =>
    /\ acked => Reached(Head(logs))
    /\ \A i \in DOMAIN queue : queue[i].live => /\ queue[i].row.dep = Head(logs).dep
                                                /\ queue[i].row.seq = Head(logs).seq

LogInv == Quiet => LogOrder /\ LogKept /\ Gapless /\ LogThreads /\ LogCursors /\ LogAcks

\* What was written stays written.
Grows == \A d \in Deps, n \in Chunks : InFile(d, n) => InFile(d, n)'

\* A sequence with one more element: the old places come first.
LEMMA OneLonger ==
  ASSUME NEW S, NEW q \in Seq(S), NEW x \in S, NEW r, r = Append(q, x)
  PROVE  /\ \A i \in DOMAIN q : i \in DOMAIN r /\ r[i] = q[i] /\ i < Len(q) + 1
         /\ \A i \in DOMAIN r : i \in DOMAIN q \/ i = Len(q) + 1
         /\ Len(q) + 1 \in DOMAIN r /\ r[Len(q) + 1] = x
<1>1. /\ DOMAIN r = 1..(Len(q) + 1) /\ r[Len(q) + 1] = x
      /\ \A i \in DOMAIN q : r[i] = q[i]
  BY AppendTo
<1>2. DOMAIN q = 1..Len(q) /\ Len(q) \in Nat
  OBVIOUS
<1>3. /\ Len(q) + 1 \in 1..(Len(q) + 1)
      /\ \A i \in 1..Len(q) : i \in 1..(Len(q) + 1) /\ i < Len(q) + 1
      /\ \A i \in 1..(Len(q) + 1) : i \in 1..Len(q) \/ i = Len(q) + 1
  BY <1>2
<1> QED
  BY <1>1, <1>2, <1>3

\* A thread appends a chunk that is the next of the file or one it has, and the
\* cursor moves up to what the file has.
LEMMA ThreadLogs ==
  ASSUME TypeInv, NEW t \in Threads, t.step # "tx" => t.frame.kind = "log",
         Continues(t) \/ Ends(t), ~Spend("disk"), Gapless, LogCursors,
         t.frame.kind = "log" => Preceded(t.frame.row),
         t.step = "settle" => Reached(t.frame.row)
  PROVE  /\ Gapless' /\ LogCursors' /\ Grows
         /\ t.frame.kind = "log" /\ (Ends(t) \/ t.step = "append") => InFile(t.frame.row.dep, t.frame.row.seq)'
<1> DEFINE d == t.frame.row.dep
           n == t.frame.row.seq
<1>1. /\ d \in Deps
      /\ t.frame.kind = "log" => t.frame.row \in LogRows
      /\ t.frame.kind = "log" => n \in Chunks
  BY DEF Threads, Frames, LogRows, FinRows
<1>2. CASE LogAppend(t)
  <2>1. /\ UNCHANGED <<cursor, sidecar>> /\ t.frame.kind = "log" /\ t.step = "append"
        /\ file' = [file EXCEPT ![d] = Append(@, t.frame.row)]
    BY <1>2 DEF LogAppend
  <2>2. file[d] \in Seq(LogRows) /\ file'[d] = Append(file[d], t.frame.row)
        /\ \A e \in Deps : e # d => file'[e] = file[e]
    BY <1>1, <2>1 DEF TypeInv, TypeOK, LogTypes
  <2> DEFINE last == Len(file[d]) + 1
  <2>3. /\ \A i \in DOMAIN file[d] : i \in DOMAIN file'[d] /\ file'[d][i] = file[d][i] /\ i < last
        /\ \A i \in DOMAIN file'[d] : i \in DOMAIN file[d] \/ i = last
        /\ last \in DOMAIN file'[d] /\ file'[d][last] = t.frame.row
    <3>1. t.frame.row \in LogRows
      BY <1>1, <2>1
    <3>2. file[d] \in Seq(LogRows) /\ file'[d] = Append(file[d], t.frame.row)
      BY <2>2
    <3> HIDE DEF d
    <3>3. \A i \in DOMAIN file[d] : i \in DOMAIN file'[d] /\ file'[d][i] = file[d][i] /\ i < last
      BY <3>1, <3>2, OneLonger
    <3>4. \A i \in DOMAIN file'[d] : i \in DOMAIN file[d] \/ i = last
      BY <3>1, <3>2, OneLonger
    <3>5. last \in DOMAIN file'[d] /\ file'[d][last] = t.frame.row
      BY <3>1, <3>2, OneLonger
    <3> QED
      BY <3>3, <3>4, <3>5
  <2> HIDE DEF last
  <2>4. Grows
    BY <2>2, <2>3 DEF Grows, InFile
  <2>5. Gapless'
    <3> SUFFICES ASSUME NEW e \in Deps, NEW i \in DOMAIN file'[e], NEW m \in Chunks,
                        m < file'[e][i].seq
                 PROVE  \E j \in DOMAIN file'[e] : j < i /\ file'[e][j].seq = m
      BY DEF Gapless
    <3>1. CASE e # d
      BY <2>2, <3>1 DEF Gapless
    <3>2. CASE e = d /\ i \in DOMAIN file[d]
      <4>1. PICK j \in DOMAIN file[d] : j < i /\ file[d][j].seq = m
        BY <2>3, <3>2 DEF Gapless
      <4> QED
        BY <2>3, <3>2, <4>1
    <3>3. CASE e = d /\ i = last
      <4>1. PICK j \in DOMAIN file[d] : file[d][j].seq = m
        BY <2>1, <2>3, <3>3 DEF Preceded, InFile
      <4> QED
        BY <2>3, <3>3, <4>1
    <3> QED
      BY <2>3, <3>1, <3>2, <3>3
  <2>6. LogCursors'
    BY <2>1, <2>4 DEF LogCursors, Grows
  <2>7. InFile(t.frame.row.dep, t.frame.row.seq)'
    BY <2>3 DEF InFile
  <2> QED
    BY <2>4, <2>5, <2>6, <2>7
<1>3. CASE ~LogAppend(t)
  <2>0. UNCHANGED file
    BY <1>3 DEF Continues, Ends, LogTx, LogSettle, LogSeen, FinishedTx, logVars
  <2>1. Grows /\ Gapless'
    BY <2>0 DEF Grows, Gapless, InFile
  <2>2. CASE LogTx(t)
    <3>1. UNCHANGED <<cursor, sidecar>> /\ t.step = "tx" /\ t.frame.kind = "log"
      BY <2>2 DEF LogTx, logVars
    <3>2. ~LogSeen(t)
      <4>1. n \in Int /\ Received(d) \in Int
        BY <1>1, <2>2
           DEF LogTx, Received, TypeInv, TypeOK, LogTypes, Chunks
      <4> QED
        BY <2>2, <4>1 DEF LogTx, LogSeen
    <3>3. ~Ends(t)
      BY <3>1, <3>2 DEF Ends, LogSettle, FinishedTx
    <3>4. LogCursors'
      BY <2>0, <3>1 DEF LogCursors, InFile
    <3> QED
      BY <2>1, <3>1, <3>3, <3>4
  <2>3. CASE LogSettle(t)
    <3>1. /\ t.step = "settle" /\ t.frame.kind = "log"
          /\ cursor' = [cursor EXCEPT ![d] = n] /\ sidecar' = [sidecar EXCEPT ![d] = n]
      BY <2>3 DEF LogSettle
    <3>2. \A m \in Chunks : m <= n => InFile(d, m)
      <4>1. \A m \in Chunks : m <= n => m < n \/ m = n
        BY <1>1, <3>1 DEF Chunks
      <4> QED
        BY <3>1, <4>1 DEF Preceded, Reached
    <3>3. /\ cursor'[d] = n /\ sidecar'[d] = n
          /\ \A e \in Deps : e # d => cursor'[e] = cursor[e] /\ sidecar'[e] = sidecar[e]
      BY <1>1, <3>1 DEF TypeInv, TypeOK, LogTypes
    <3>4. \A e \in Deps, m \in Chunks : m <= cursor'[e] \/ m <= sidecar'[e] => InFile(e, m)
      BY <3>2, <3>3 DEF LogCursors
    <3>5. LogCursors'
      BY <2>1, <3>4 DEF LogCursors, Grows
    <3> QED
      BY <1>1, <2>1, <3>1, <3>5 DEF Reached, Grows
  <2>4. CASE LogSeen(t)
    <3>1. /\ UNCHANGED <<cursor, sidecar>> /\ t.frame.kind = "log" /\ n <= Received(d)
      BY <2>4 DEF LogSeen, logVars
    <3>2. InFile(d, n)
      BY <1>1, <3>1 DEF LogCursors, Received
    <3> QED
      BY <1>1, <2>1, <3>1, <3>2 DEF LogCursors, Grows
  <2>5. CASE FinishedTx(t)
    <3>1. t.frame.kind = "finished" /\ (UNCHANGED <<cursor, sidecar>> \/ Forget(d))
      BY <2>5 DEF FinishedTx
    <3>2. \A e \in Deps, m \in Chunks : m <= cursor'[e] \/ m <= sidecar'[e] => InFile(e, m)
      <4>1. CASE UNCHANGED <<cursor, sidecar>>
        BY <4>1 DEF LogCursors
      <4>2. CASE Forget(d)
        <5>1. /\ cursor'[d] = -1 /\ sidecar'[d] = -1
              /\ \A e \in Deps : e # d => cursor'[e] = cursor[e] /\ sidecar'[e] = sidecar[e]
          BY <1>1, <4>2 DEF Forget, TypeInv, TypeOK, LogTypes
        <5>2. \A m \in Chunks : ~(m <= -1)
          BY DEF Chunks
        <5> QED
          BY <5>1, <5>2 DEF LogCursors
      <4> QED
        BY <3>1, <4>1, <4>2
    <3>3. LogCursors'
      BY <2>1, <3>2 DEF LogCursors, Grows
    <3> QED
      BY <2>1, <3>1, <3>3
  <2> QED
    BY <1>3, <2>2, <2>3, <2>4, <2>5 DEF Continues, Ends
<1> QED
  BY <1>2, <1>3

\* What the threads do, or nothing is done to the file; the cursor is otherwise
\* only forgotten.
LEMMA FileStep ==
  ASSUME DeployAssumption, TypeInv, [Next]_vars, ~Spend("disk"), Gapless, LogCursors, LogThreads
  PROVE  Gapless' /\ LogCursors' /\ Grows
<1>0. queue \in Seq(Frames)
  BY DEF TypeInv, TypeOK, LinkTypes
<1>1. CASE WriterStep
  <2>1. queue # <<>> /\ (Continues(Thread) \/ Ends(Thread))
    BY <1>1 DEF WriterStep
  <2>2. /\ Thread \in Threads /\ Thread.frame = Head(queue) /\ Thread.step = step
        /\ step # "tx" => Thread.frame.kind = "log"
    BY <2>1, HeadThread
  <2>3. 1 \in DOMAIN queue /\ Head(queue) = queue[1]
    BY <1>0, <2>1, TailOf
  <2>4. /\ Thread.frame.kind = "log" => Preceded(Thread.frame.row)
        /\ Thread.step = "settle" => Reached(Thread.frame.row)
    BY <2>2, <2>3 DEF LogThreads
  <2> QED
    BY <2>1, <2>2, <2>4, ThreadLogs
<1>2. ASSUME NEW t \in orphans, OrphanStep(t)
      PROVE  Gapless' /\ LogCursors' /\ Grows
  <2>1. t \in Threads /\ (t.step # "tx" => t.frame.kind = "log") /\ (Continues(t) \/ Ends(t))
    BY <1>2 DEF OrphanStep, TypeInv, TypeOK, LinkTypes, ThreadShape
  <2>2. /\ t.frame.kind = "log" => Preceded(t.frame.row)
        /\ t.step = "settle" => Reached(t.frame.row)
    BY <2>1 DEF LogThreads
  <2> QED
    BY <2>1, <2>2, ThreadLogs
<1>3. ASSUME file' = file,
             \A d \in Deps : /\ cursor'[d] \in {cursor[d], -1}
                             /\ sidecar'[d] \in {sidecar[d], -1}
      PROVE  Gapless' /\ LogCursors' /\ Grows
  <2>1. Gapless' /\ Grows
    BY <1>3 DEF Gapless, Grows, InFile
  <2>2. \A m \in Chunks : ~(m <= -1)
    BY DEF Chunks
  <2>3. \A d \in Deps, m \in Chunks : m <= cursor'[d] \/ m <= sidecar'[d] => InFile(d, m)
    BY <1>3, <2>2 DEF LogCursors
  <2> QED
    BY <2>1, <2>3 DEF LogCursors, Grows
<1>4. CASE Reconcile \/ ServerRestart
  <2>1. /\ file' = file
        /\ \A d \in Deps : /\ cursor'[d] \in {cursor[d], -1}
                           /\ sidecar'[d] \in {sidecar[d], -1}
    BY <1>4 DEF Reconcile, ServerRestart
  <2> QED
    BY <1>3, <2>1
<1>5. CASE UNCHANGED logVars
  BY <1>3, <1>5 DEF logVars
<1>7. CASE WriteFails \/ \E t \in orphans : OrphanFails(t)
  <2>1. PICK frame : TxFails(frame)
    BY <1>7 DEF WriteFails, OrphanFails
  <2>2. cursor \in [Deps -> Chunks \cup {-1}] /\ sidecar \in [Deps -> Chunks \cup {-1}]
    BY DEF TypeInv, TypeOK, LogTypes
  <2>3. /\ file' = file
        /\ \A d \in Deps : /\ cursor'[d] \in {cursor[d], -1}
                           /\ sidecar'[d] \in {sidecar[d], -1}
    BY <2>1, <2>2 DEF TxFails, Forget
  <2> QED
    BY <1>3, <2>3
<1>6. \/ UNCHANGED logVars \/ WriterStep \/ Reconcile \/ ServerRestart \/ WriteFails
      \/ \E t \in orphans : OrphanStep(t) \/ OrphanFails(t)
  BY DEF Next, Create, Dispatch, DeployRun, EmitLog, EndRun, OtherReport, FlushWake,
         FlushLogs, FlushFinished, FlushRest, Report, AckLog, AckFinished, AckTimeout,
         WriteFails, OrphanFails, TxFails, Connect, Disconnect, DaemonCrash, vars
<1> QED
  BY <1>1, <1>2, <1>4, <1>5, <1>6, <1>7

\* What was in the file, or led up to a chunk, still does.
LEMMA StillThere ==
  ASSUME Grows, NEW row, row.dep \in Deps, row.seq \in Chunks
  PROVE  /\ Preceded(row) => Preceded(row)'
         /\ Reached(row) => Reached(row)'
BY DEF Grows, Preceded, Reached

\* No step is quiet that kills the daemon or loses an append.
LEMMA QuietStep ==
  ASSUME TypeInv, FirstBoot, DeployAssumption, [Next]_vars, Quiet'
  PROVE  Quiet /\ ~DaemonCrash /\ ~Spend("disk")
<1>1. left \in [Faults -> Nat] /\ Budget \in [Faults -> Nat] /\ {"crash", "disk"} \subseteq Faults
  BY DEF TypeInv, TypeOK, DeployAssumption, Faults
<1>2. left["crash"] = Budget["crash"] /\ ~DaemonCrash
  BY Spending DEF Quiet
<1>3. left'["disk"] <= left["disk"] /\ left["disk"] <= Budget["disk"]
  BY <1>1, Spending DEF FirstBoot
<1>4. left["disk"] = Budget["disk"]
  BY <1>1, <1>3 DEF Quiet
<1>5. Spend("disk") => left'["disk"] = left["disk"] - 1
  BY <1>1 DEF Spend
<1>6. ~Spend("disk")
  BY <1>1, <1>4, <1>5 DEF Quiet
<1> QED
  BY <1>2, <1>4, <1>6 DEF Quiet

LEMMA BufferedRows ==
  ASSUME TypeInv
  PROVE  \A i \in DOMAIN logs : logs[i].dep \in Deps /\ logs[i].seq \in Chunks
<1>1. \A i \in DOMAIN logs : logs[i] \in LogRows
  BY DEF TypeInv, TypeOK, BufferTypes
<1> QED
  BY <1>1 DEF LogRows

\* Who moves the buffer of chunks and their numbers, while the daemon lives.
LEMMA LogMoves ==
  ASSUME [Next]_vars, ~DaemonCrash
  PROVE  UNCHANGED <<logs, chunk>> \/ (\E d \in Deps : EmitLog(d)) \/ AckLog
BY DEF Next, Create, Dispatch, DeployRun, EndRun, OtherReport, FlushWake, FlushLogs,
       FlushFinished, FlushRest, Report, AckFinished, AckTimeout, WriterStep, OrphanStep,
       WriteFails, OrphanFails, TxFails, Connect, Reconcile, Disconnect, ServerRestart,
       LinkLost, runnerVars, bufferVars, vars

\* A chunk that is printed has a number no buffered chunk has: it joins at the end.
LEMMA EmitAppends ==
  ASSUME DeployAssumption, TypeInv, LogOrder, NEW d \in Deps, EmitLog(d)
  PROVE  \E row \in LogRows :
           /\ row.dep = d /\ row.seq = chunk[d]
           /\ logs' = Append(logs, row)
           /\ chunk' = [chunk EXCEPT ![d] = @ + 1]
<1> DEFINE row == [dep |-> d, run |-> runs[d], seq |-> chunk[d]]
<1>1. /\ chunk \in [Deps -> 0..MaxChunks] /\ runs \in [Deps -> Nat] /\ logs \in Seq(LogRows)
      /\ chunk[d] < MaxChunks
  BY DEF EmitLog, TypeInv, TypeOK, RunnerTypes, BufferTypes
<1>2. chunk[d] \in Chunks
  <2>1. chunk[d] \in 0..MaxChunks /\ MaxChunks \in Nat
    BY <1>1 DEF DeployAssumption
  <2> QED
    BY <1>1, <2>1 DEF Chunks
<1>3. row \in LogRows
  BY <1>1, <1>2 DEF LogRows
<1>4. \A i \in DOMAIN logs : logs[i] \in LogRows
  BY <1>1
<1>5. \A i \in DOMAIN logs : logs[i].dep = d => logs[i].seq # chunk[d]
  <2> SUFFICES ASSUME NEW i \in DOMAIN logs, logs[i].dep = d
               PROVE  logs[i].seq # chunk[d]
    OBVIOUS
  <2>1. logs[i].seq < chunk[d]
    BY DEF LogOrder
  <2>2. logs[i].seq \in Chunks
    BY <1>4 DEF LogRows
  <2> QED
    BY <1>2, <2>1, <2>2 DEF Chunks
<1>6. logs' = Append(logs, row)
  BY <1>5 DEF EmitLog, UpsertLog
<1> QED
  BY <1>3, <1>6 DEF EmitLog

LEMMA LogOrderStep ==
  ASSUME DeployAssumption, TypeInv, LogOrder, [Next]_vars, ~DaemonCrash
  PROVE  LogOrder'
<1>1. /\ chunk \in [Deps -> 0..MaxChunks] /\ logs \in Seq(LogRows)
      /\ \A i \in DOMAIN logs : logs[i].dep \in Deps /\ logs[i].seq \in Chunks
  BY BufferedRows DEF TypeInv, TypeOK, RunnerTypes, BufferTypes
<1>2. CASE UNCHANGED <<logs, chunk>>
  BY <1>2 DEF LogOrder
<1>3. ASSUME NEW d \in Deps, EmitLog(d)
      PROVE  LogOrder'
  <2>1. PICK row \in LogRows : /\ row.dep = d /\ row.seq = chunk[d]
                               /\ logs' = Append(logs, row)
                               /\ chunk' = [chunk EXCEPT ![d] = @ + 1]
    BY <1>3, EmitAppends
  <2> DEFINE last == Len(logs) + 1
  <2>2. \A i \in DOMAIN logs : i \in DOMAIN logs' /\ logs'[i] = logs[i] /\ i < last
    BY <1>1, <2>1, OneLonger
  <2>3. \A i \in DOMAIN logs' : i \in DOMAIN logs \/ i = last
    BY <1>1, <2>1, OneLonger
  <2>4. logs'[last] = row
    BY <1>1, <2>1, OneLonger
  <2>5. last \in Int /\ \A i \in DOMAIN logs : i \in Int
    BY <1>1
  <2> HIDE DEF last
  <2>6. /\ chunk'[d] = chunk[d] + 1 /\ chunk[d] \in Int
        /\ \A e \in Deps : e # d => chunk'[e] = chunk[e]
    BY <1>1, <2>1
  <2>7. \A i \in DOMAIN logs' : logs'[i].seq < chunk'[logs'[i].dep]
    <3> SUFFICES ASSUME NEW i \in DOMAIN logs'
                 PROVE  logs'[i].seq < chunk'[logs'[i].dep]
      OBVIOUS
    <3>1. CASE i = last
      BY <2>1, <2>4, <2>6, <3>1
    <3>2. CASE i \in DOMAIN logs
      <4>1. logs'[i] = logs[i] /\ logs[i].seq < chunk[logs[i].dep] /\ logs[i].seq \in Int
        BY <1>1, <2>2, <3>2 DEF LogOrder, Chunks
      <4>2. CASE logs[i].dep = d
        BY <2>6, <4>1, <4>2
      <4>3. CASE logs[i].dep # d
        BY <1>1, <2>6, <3>2, <4>1, <4>3
      <4> QED
        BY <4>2, <4>3
    <3> QED
      BY <2>3, <3>1, <3>2
  <2>8. ASSUME NEW i \in DOMAIN logs', NEW j \in DOMAIN logs', i < j, logs'[i].dep = logs'[j].dep
        PROVE  logs'[i].seq < logs'[j].seq
    <3>1. i \in DOMAIN logs
      <4>1. i # last
        BY <2>2, <2>3, <2>5, <2>8
      <4> QED
        BY <2>3, <4>1
    <3>2. CASE j \in DOMAIN logs
      BY <2>2, <2>8, <3>1, <3>2 DEF LogOrder
    <3>3. CASE j = last
      <4>1. logs'[i] = logs[i] /\ logs[i].dep = d
        BY <2>1, <2>2, <2>4, <2>8, <3>1, <3>3
      <4> QED
        BY <2>1, <2>4, <3>1, <3>3, <4>1 DEF LogOrder
    <3> QED
      BY <2>3, <3>2, <3>3
  <2> QED
    BY <2>7, <2>8 DEF LogOrder
<1>4. CASE AckLog
  <2>1. logs # <<>> /\ logs' = Tail(logs) /\ chunk' = chunk
    BY <1>4 DEF AckLog, TypeInv, BufferKeys, runnerVars
  <2>2. \A i \in DOMAIN logs' : i + 1 \in DOMAIN logs /\ logs'[i] = logs[i + 1] /\ i \in Int
    BY <1>1, <2>1, TailOf
  <2>3. \A i, j \in DOMAIN logs' : i < j => i + 1 < j + 1
    BY <2>2
  <2> QED
    BY <2>1, <2>2, <2>3 DEF LogOrder
<1> QED
  BY <1>2, <1>3, <1>4, LogMoves

\* A chunk leaves the buffer only when it was acked, and then the file has it.
LEMMA LogKeptStep ==
  ASSUME DeployAssumption, TypeInv, LogOrder, LogKept, LogAcks, Grows, [Next]_vars, ~DaemonCrash
  PROVE  LogKept'
<1>1. /\ chunk \in [Deps -> 0..MaxChunks] /\ logs \in Seq(LogRows)
      /\ \A i \in DOMAIN logs : logs[i].dep \in Deps /\ logs[i].seq \in Chunks
  BY BufferedRows DEF TypeInv, TypeOK, RunnerTypes, BufferTypes
<1> SUFFICES ASSUME NEW e \in Deps, NEW n \in Chunks, n < chunk'[e]
             PROVE  Buffered(e, n)' \/ InFile(e, n)'
  BY DEF LogKept
<1>2. CASE UNCHANGED <<logs, chunk>>
  BY <1>2 DEF LogKept, Grows, Buffered
<1>3. ASSUME NEW d \in Deps, EmitLog(d)
      PROVE  Buffered(e, n)' \/ InFile(e, n)'
  <2>1. PICK row \in LogRows : /\ row.dep = d /\ row.seq = chunk[d]
                               /\ logs' = Append(logs, row)
                               /\ chunk' = [chunk EXCEPT ![d] = @ + 1]
    BY <1>3, EmitAppends
  <2> DEFINE last == Len(logs) + 1
  <2>2. \A i \in DOMAIN logs : i \in DOMAIN logs' /\ logs'[i] = logs[i]
    BY <1>1, <2>1, OneLonger
  <2>3. last \in DOMAIN logs' /\ logs'[last] = row
    BY <1>1, <2>1, OneLonger
  <2> HIDE DEF last
  <2>4. Buffered(e, n) => Buffered(e, n)'
    BY <2>2 DEF Buffered
  <2>5. CASE n < chunk[e]
    BY <2>4, <2>5 DEF LogKept, Grows
  <2>6. CASE ~(n < chunk[e])
    <3>1. e = d
      BY <1>1, <2>1, <2>6
    <3>2. n = chunk[d]
      BY <1>1, <2>1, <2>6, <3>1 DEF Chunks
    <3> QED
      BY <2>1, <2>3, <3>1, <3>2 DEF Buffered
  <2> QED
    BY <2>5, <2>6
<1>4. CASE AckLog
  <2>1. logs # <<>> /\ logs' = Tail(logs) /\ chunk' = chunk /\ flush = "logAck" /\ acked
    BY <1>4 DEF AckLog, TypeInv, BufferKeys, runnerVars
  <2>2. /\ Head(logs) = logs[1] /\ 1 \in DOMAIN logs
        /\ \A i \in DOMAIN logs : i # 1 => i - 1 \in DOMAIN logs' /\ logs'[i - 1] = logs[i]
    BY <1>1, <2>1, TailOf
  <2>3. Reached(Head(logs))
    BY <2>1 DEF LogAcks
  <2>4. ASSUME Buffered(e, n)
        PROVE  Buffered(e, n)' \/ InFile(e, n)
    <3>1. PICK i \in DOMAIN logs : logs[i].dep = e /\ logs[i].seq = n
      BY <2>4 DEF Buffered
    <3>2. CASE i = 1
      BY <2>2, <2>3, <3>1, <3>2 DEF Reached
    <3>3. CASE i # 1
      BY <2>2, <3>1, <3>3 DEF Buffered
    <3> QED
      BY <3>2, <3>3
  <2> QED
    BY <2>1, <2>4 DEF LogKept, Grows
<1> QED
  BY <1>2, <1>3, <1>4, LogMoves

\* A report is sent in the order of the buffer, so behind the chunks before it.
LEMMA HeadPreceded ==
  ASSUME TypeInv, LogOrder, LogKept, logs # <<>>
  PROVE  /\ Head(logs) \in LogRows /\ Head(logs) = logs[1] /\ 1 \in DOMAIN logs
         /\ Preceded(Head(logs))
<1>1. /\ logs \in Seq(LogRows) /\ Head(logs) \in LogRows /\ Head(logs) = logs[1]
      /\ 1 \in DOMAIN logs /\ \A i \in DOMAIN logs : i # 1 => 1 < i
  BY DEF TypeInv, TypeOK, BufferTypes
<1>2. /\ logs[1].dep \in Deps /\ logs[1].seq \in Int /\ logs[1].seq < chunk[logs[1].dep]
      /\ chunk[logs[1].dep] \in Int
  BY <1>1, BufferedRows DEF LogOrder, TypeInv, TypeOK, RunnerTypes, Chunks
<1>3. ASSUME NEW m \in Chunks, m < logs[1].seq
      PROVE  InFile(logs[1].dep, m)
  <2>1. m \in Int /\ m < chunk[logs[1].dep]
    BY <1>2, <1>3 DEF Chunks
  <2>2. ASSUME NEW i \in DOMAIN logs, logs[i].dep = logs[1].dep, logs[i].seq = m
        PROVE  FALSE
    <3>1. i # 1
      BY <1>2, <1>3, <2>1, <2>2
    <3>2. logs[1].seq < logs[i].seq
      BY <1>1, <2>2, <3>1 DEF LogOrder
    <3> QED
      BY <1>2, <1>3, <2>1, <2>2, <3>2
  <2> QED
    BY <1>2, <2>1, <2>2 DEF LogKept, Buffered
<1> QED
  BY <1>1, <1>3 DEF Preceded

\* The chunk a frame or a thread carries.
LEMMA CarriedRows ==
  ASSUME TypeInv
  PROVE  /\ \A i \in DOMAIN queue : queue[i].kind = "log" =>
              queue[i].row.dep \in Deps /\ queue[i].row.seq \in Chunks
         /\ \A t \in orphans : t.frame.kind = "log" =>
              t.frame.row.dep \in Deps /\ t.frame.row.seq \in Chunks
<1>1. \A f \in Frames : f.kind = "log" => f.row.dep \in Deps /\ f.row.seq \in Chunks
  BY DEF Frames, LogRows
<1>2. \A i \in DOMAIN queue : queue[i] \in Frames
  BY DEF TypeInv, TypeOK, LinkTypes
<1>3. \A t \in orphans : t.frame \in Frames
  BY DEF TypeInv, TypeOK, LinkTypes, Threads
<1> QED
  BY <1>1, <1>2, <1>3

\* What LogThreads says of the writer and of the threads left behind.
LEMMA WriterLogs ==
  ASSUME TypeInv, LogThreads, queue # <<>>
  PROVE  /\ Thread \in Threads /\ Thread.frame = Head(queue) /\ Thread.step = step
         /\ Head(queue) = queue[1] /\ 1 \in DOMAIN queue
         /\ step # "tx" => Head(queue).kind = "log"
         /\ Head(queue).kind = "log" =>
              /\ Head(queue).row.dep \in Deps /\ Head(queue).row.seq \in Chunks
              /\ Preceded(Head(queue).row)
         /\ step = "settle" => Reached(Head(queue).row)
<1>1. 1 \in DOMAIN queue /\ Head(queue) = queue[1]
  BY TailOf DEF TypeInv, TypeOK, LinkTypes
<1>2. /\ Thread \in Threads /\ Thread.frame = Head(queue) /\ Thread.step = step
      /\ step # "tx" => Head(queue).kind = "log"
  BY HeadThread DEF TypeInv, ThreadShape
<1> QED
  BY <1>1, <1>2, CarriedRows DEF LogThreads

\* The frames that are left, or that were marked stale, are frames of the queue.
LEMMA ThreadsKept ==
  ASSUME TypeInv, LogThreads, Grows,
         \A i \in DOMAIN queue' : \E j \in DOMAIN queue :
           queue'[i].kind = queue[j].kind /\ queue'[i].row = queue[j].row,
         step' = "settle" =>
           \/ step = "settle" /\ queue # <<>> /\ Head(queue').row = Head(queue).row
           \/ \A row : row = Head(queue').row => Reached(row)',
         \A t \in orphans' :
           \/ t \in orphans
           \/ t.frame.kind = "log" => /\ t.frame.row.dep \in Deps /\ t.frame.row.seq \in Chunks
                                      /\ Preceded(t.frame.row)
                                      /\ t.step = "settle" => Reached(t.frame.row)'
  PROVE  LogThreads'
<1>1. ASSUME NEW i \in DOMAIN queue', queue'[i].kind = "log", NEW row, row = queue'[i].row
      PROVE  Preceded(row)'
  <2>1. PICK j \in DOMAIN queue : queue'[i].kind = queue[j].kind /\ queue'[i].row = queue[j].row
    BY <1>1
  <2>2. row.dep \in Deps /\ row.seq \in Chunks /\ Preceded(row)
    BY <1>1, <2>1, CarriedRows DEF LogThreads
  <2> QED
    BY <2>2, StillThere
<1>2. ASSUME step' = "settle", NEW row, row = Head(queue').row
      PROVE  Reached(row)'
  <2>1. CASE step = "settle" /\ queue # <<>> /\ Head(queue').row = Head(queue).row
    <3>1. row.dep \in Deps /\ row.seq \in Chunks /\ Reached(row)
      BY <1>2, <2>1, WriterLogs
    <3> QED
      BY <3>1, StillThere
  <2> QED
    BY <1>2, <2>1
<1>3. ASSUME NEW t \in orphans', t.frame.kind = "log"
      PROVE  Preceded(t.frame.row)' /\ (t.step = "settle" => Reached(t.frame.row)')
  <2>1. CASE t \in orphans
    <3>1. /\ t.frame.row.dep \in Deps /\ t.frame.row.seq \in Chunks
          /\ Preceded(t.frame.row) /\ (t.step = "settle" => Reached(t.frame.row))
      BY <1>3, <2>1, CarriedRows DEF LogThreads
    <3> QED
      BY <3>1, StillThere
  <2>2. CASE t \notin orphans
    <3>1. /\ t.frame.row.dep \in Deps /\ t.frame.row.seq \in Chunks /\ Preceded(t.frame.row)
          /\ t.step = "settle" => Reached(t.frame.row)'
      BY <1>3, <2>2
    <3> QED
      BY <3>1, StillThere
  <2> QED
    BY <2>1, <2>2
<1>4. (\A i \in DOMAIN queue : queue[i].kind = "log" => Preceded(queue[i].row))'
  <2>1. ASSUME NEW i \in DOMAIN queue', queue'[i].kind = "log"
        PROVE  Preceded(queue[i].row)'
    <3>1. PICK row : row = queue'[i].row
      OBVIOUS
    <3>2. Preceded(row)'
      BY <1>1, <2>1, <3>1
    <3> QED
      BY <3>1, <3>2 DEF Preceded
  <2> QED
    BY <2>1
<1>5. (step = "settle" => Reached(Head(queue).row))'
  BY <1>2 DEF Reached, InFile
<1> QED
  BY <1>3, <1>4, <1>5 DEF LogThreads

LEMMA WriterThreads ==
  ASSUME DeployAssumption, TypeInv, Gapless, LogCursors, LogThreads, Grows, ~Spend("disk"), WriterStep
  PROVE  LogThreads'
<1>0. queue # <<>> /\ queue \in Seq(Frames) /\ orphans' = orphans
  BY DEF WriterStep, TypeInv, TypeOK, LinkTypes
<1>1. /\ Thread \in Threads /\ Thread.frame = Head(queue) /\ Thread.step = step
      /\ step # "tx" => Head(queue).kind = "log"
      /\ Head(queue).kind = "log" => Preceded(Head(queue).row)
      /\ step = "settle" => Reached(Head(queue).row)
  BY <1>0, WriterLogs
<1>2. CASE Continues(Thread) /\ step' = After(step) /\ queue' = queue
  <2>1. step' = "settle" => step = "append" \/ step = "settle"
    BY <1>2 DEF After, TypeInv, TypeOK, LinkTypes
  <2>2. ASSUME step = "append", NEW row, row = Head(queue').row
        PROVE  Reached(row)'
    <3>1. PICK t \in Threads : t = Thread
      BY <1>1
    <3>2. InFile(t.frame.row.dep, t.frame.row.seq)'
      BY <1>1, <1>2, <2>2, <3>1, ThreadLogs
    <3>3. row = t.frame.row
      BY <1>1, <1>2, <2>2, <3>1
    <3> QED
      BY <3>2, <3>3 DEF Reached
  <2>3. \A i \in DOMAIN queue' : \E j \in DOMAIN queue :
          queue'[i].kind = queue[j].kind /\ queue'[i].row = queue[j].row
    BY <1>2
  <2>4. step' = "settle" =>
           \/ step = "settle" /\ queue # <<>> /\ Head(queue').row = Head(queue).row
           \/ \A row : row = Head(queue').row => Reached(row)'
    BY <1>0, <1>2, <2>1, <2>2
  <2> QED
    BY <1>0, <2>3, <2>4, ThreadsKept
<1>3. CASE step' = "tx" /\ queue' = Tail(queue)
  <2>1. \A i \in DOMAIN queue' : i + 1 \in DOMAIN queue /\ queue'[i] = queue[i + 1]
    BY <1>0, <1>3, TailOf
  <2>2. \A i \in DOMAIN queue' : \E j \in DOMAIN queue :
          queue'[i].kind = queue[j].kind /\ queue'[i].row = queue[j].row
    BY <2>1
  <2> QED
    BY <1>0, <1>3, <2>2, ThreadsKept
<1> QED
  BY <1>2, <1>3 DEF WriterStep

LEMMA OrphanThreads ==
  ASSUME DeployAssumption, TypeInv, Gapless, LogCursors, LogThreads, Grows, ~Spend("disk"),
         NEW t \in orphans, OrphanStep(t)
  PROVE  LogThreads'
<1>1. queue' = queue /\ step' = step
  BY DEF OrphanStep
<1>2. /\ t \in Threads
      /\ t.step # "tx" => t.frame.kind = "log"
      /\ t.frame.kind = "log" => /\ t.frame.row.dep \in Deps /\ t.frame.row.seq \in Chunks
                                 /\ Preceded(t.frame.row)
      /\ t.step = "settle" => Reached(t.frame.row)
  BY CarriedRows DEF LogThreads, TypeInv, TypeOK, LinkTypes, ThreadShape
<1>3. ASSUME NEW u \in orphans', u \notin orphans
      PROVE  u.frame.kind = "log" => /\ u.frame.row.dep \in Deps /\ u.frame.row.seq \in Chunks
                                     /\ Preceded(u.frame.row)
                                     /\ u.step = "settle" => Reached(u.frame.row)'
  <2>1. Continues(t) /\ u = [t EXCEPT !.step = After(@)]
    BY <1>3 DEF OrphanStep
  <2>2. u.frame = t.frame /\ u.step = After(t.step)
    BY <1>2, <2>1 DEF Threads
  <2>3. u.step = "settle" => t.step = "append" \/ t.step = "settle"
    BY <1>2, <2>2 DEF After, Threads
  <2>4. t.step = "append" => Reached(t.frame.row)'
    <3>1. (t.step # "tx" => t.frame.kind = "log") /\ (t.frame.kind = "log" => Preceded(t.frame.row))
      BY <1>2
    <3> QED
      BY <1>2, <2>1, <3>1, ThreadLogs DEF Reached
  <2>5. t.frame.kind = "log" /\ t.step = "settle" => Reached(t.frame.row)'
    BY <1>2, StillThere
  <2> QED
    BY <1>2, <2>2, <2>3, <2>4, <2>5
<1>4. step' = "settle" => step = "settle" /\ queue # <<>> /\ Head(queue').row = Head(queue).row
  BY <1>1 DEF TypeInv, ThreadShape
<1>5. \A i \in DOMAIN queue' : \E j \in DOMAIN queue :
        queue'[i].kind = queue[j].kind /\ queue'[i].row = queue[j].row
  BY <1>1
<1> QED
  BY <1>3, <1>4, <1>5, ThreadsKept

LEMMA ReportThreads ==
  ASSUME DeployAssumption, TypeInv, LogOrder, LogKept, LogThreads, Grows, FlushLogs \/ FlushFinished
  PROVE  LogThreads'
<1>1. queue \in Seq(Frames) /\ UNCHANGED <<step, orphans>>
  BY DEF FlushLogs, FlushFinished, Report, TypeInv, TypeOK, LinkTypes
<1>2. \E f \in Frames : /\ queue' = Append(queue, f)
                        /\ f.kind = "log" => f.row.dep \in Deps /\ f.row.seq \in Chunks
                                             /\ Preceded(f.row)
  <2>1. CASE FlushLogs
    <3>1. Head(logs) \in LogRows /\ Preceded(Head(logs))
      BY <2>1, HeadPreceded DEF FlushLogs
    <3>2. [kind |-> "log", row |-> Head(logs), live |-> TRUE] \in Frames
      BY <3>1 DEF Frames
    <3>3. Head(logs).dep \in Deps /\ Head(logs).seq \in Chunks
      BY <3>1 DEF LogRows
    <3> QED
      BY <2>1, <3>1, <3>2, <3>3 DEF FlushLogs, Report
  <2>2. CASE FlushFinished
    <3>1. Head(fins) \in FinRows
      BY <2>2, TailOf DEF FlushFinished, TypeInv, TypeOK, BufferTypes
    <3>2. [kind |-> "finished", row |-> Head(fins), live |-> TRUE] \in Frames
      BY <3>1 DEF Frames
    <3> QED
      BY <2>2, <3>2 DEF FlushFinished, Report
  <2> QED
    BY <2>1, <2>2
<1>3. PICK f \in Frames : /\ queue' = Append(queue, f)
                          /\ f.kind = "log" => f.row.dep \in Deps /\ f.row.seq \in Chunks
                                               /\ Preceded(f.row)
  BY <1>2
<1>4. /\ \A i \in DOMAIN queue' : i \in DOMAIN queue \/ i = Len(queue) + 1
      /\ queue'[Len(queue) + 1] = f
      /\ \A i \in DOMAIN queue : queue'[i] = queue[i]
      /\ queue # <<>> => Head(queue') = Head(queue)
  BY <1>1, <1>3, AppendTo
<1>5. ASSUME NEW i \in DOMAIN queue', queue'[i].kind = "log"
      PROVE  Preceded(queue[i].row)'
  <2>1. PICK row : row = queue'[i].row
    OBVIOUS
  <2>2. row.dep \in Deps /\ row.seq \in Chunks /\ Preceded(row)
    <3>1. CASE i \in DOMAIN queue
      BY <1>4, <1>5, <2>1, <3>1, CarriedRows DEF LogThreads
    <3>2. CASE i = Len(queue) + 1
      BY <1>3, <1>4, <1>5, <2>1, <3>2
    <3> QED
      BY <1>4, <3>1, <3>2
  <2>3. Preceded(row)'
    BY <2>2, StillThere
  <2> QED
    BY <2>1, <2>3 DEF Preceded
<1>6. ASSUME step' = "settle"
      PROVE  Reached(Head(queue).row)'
  <2>1. queue # <<>> /\ step = "settle" /\ Head(queue') = Head(queue)
    BY <1>1, <1>4, <1>6 DEF TypeInv, ThreadShape
  <2>2. PICK row : row = Head(queue).row
    OBVIOUS
  <2>3. row.dep \in Deps /\ row.seq \in Chunks /\ Reached(row)
    BY <2>1, <2>2, WriterLogs
  <2>4. Reached(row)'
    BY <2>3, StillThere
  <2> QED
    BY <2>1, <2>2, <2>4 DEF Reached
<1>7. ASSUME NEW t \in orphans', t.frame.kind = "log"
      PROVE  Preceded(t.frame.row)' /\ (t.step = "settle" => Reached(t.frame.row)')
  BY <1>1, <1>7, CarriedRows, StillThere DEF LogThreads
<1> QED
  BY <1>5, <1>6, <1>7 DEF LogThreads

LEMMA LogThreadsStep ==
  ASSUME DeployAssumption, TypeInv, LogOrder, LogKept, Gapless, LogCursors, LogThreads, Grows,
         [Next]_vars, ~DaemonCrash, ~Spend("disk")
  PROVE  LogThreads'
<1>0. queue \in Seq(Frames)
  BY DEF TypeInv, TypeOK, LinkTypes
<1>1. CASE WriterStep
  BY <1>1, WriterThreads
<1>2. ASSUME NEW t \in orphans, OrphanStep(t)
      PROVE  LogThreads'
  BY <1>2, OrphanThreads
<1>3. CASE FlushLogs \/ FlushFinished
  BY <1>3, ReportThreads
<1>4. CASE Connect \/ ServerRestart
  <2>1. queue' = <<>> /\ step' = "tx" /\ DOMAIN <<>> = {}
    BY <1>4 DEF Connect, ServerRestart
  <2>2. ASSUME NEW t \in orphans', t \notin orphans
        PROVE  t.frame.kind = "log" => /\ t.frame.row.dep \in Deps /\ t.frame.row.seq \in Chunks
                                       /\ Preceded(t.frame.row)
                                       /\ t.step = "settle" => Reached(t.frame.row)'
    <3>1. queue # <<>> /\ t = Thread
      BY <1>4, <2>2 DEF Connect, ServerRestart
    <3>2. t.frame.kind = "log" => /\ t.frame.row.dep \in Deps /\ t.frame.row.seq \in Chunks
                                  /\ Preceded(t.frame.row)
                                  /\ t.step = "settle" => Reached(t.frame.row)
      BY <3>1, WriterLogs
    <3> QED
      BY <3>2, StillThere
  <2> QED
    BY <2>1, <2>2, ThreadsKept
<1>5. CASE AckTimeout \/ Disconnect
  <2>1. queue' = Stale(queue) /\ UNCHANGED <<step, orphans>>
    BY <1>5 DEF AckTimeout, Disconnect
  <2>2. \A i \in DOMAIN queue' : i \in DOMAIN queue /\ queue'[i].kind = queue[i].kind
                                                    /\ queue'[i].row = queue[i].row
    BY <1>0, <2>1, StaleFrames
  <2>3. step = "settle" => /\ queue # <<>> /\ Head(queue').row = Head(queue).row
    <3> SUFFICES ASSUME step = "settle" PROVE queue # <<>> /\ Head(queue').row = Head(queue).row
      OBVIOUS
    <3>1. queue # <<>>
      BY DEF TypeInv, ThreadShape
    <3>2. queue' # <<>> /\ queue' \in Seq(Frames) /\ DOMAIN queue' = DOMAIN queue
      BY <1>0, <2>1, <3>1, StaleFrames
    <3>3. /\ 1 \in DOMAIN queue /\ Head(queue) = queue[1] /\ Head(queue') = queue'[1]
      BY <1>0, <3>1, <3>2, TailOf
    <3> QED
      BY <2>2, <3>1, <3>2, <3>3
  <2>4. \A i \in DOMAIN queue' : \E j \in DOMAIN queue :
          queue'[i].kind = queue[j].kind /\ queue'[i].row = queue[j].row
    BY <2>2
  <2> QED
    BY <2>1, <2>3, <2>4, ThreadsKept
<1>6. CASE WriteFails
  <2>1. queue # <<>> /\ step = "tx" /\ queue' = Tail(queue) /\ UNCHANGED <<step, orphans>>
    BY <1>6 DEF WriteFails
  <2>2. \A i \in DOMAIN queue' : i + 1 \in DOMAIN queue /\ queue'[i] = queue[i + 1]
    BY <1>0, <2>1, TailOf
  <2>3. \A i \in DOMAIN queue' : \E j \in DOMAIN queue :
          queue'[i].kind = queue[j].kind /\ queue'[i].row = queue[j].row
    BY <2>2
  <2> QED
    BY <2>1, <2>3, ThreadsKept
<1>7. CASE UNCHANGED <<queue, step, orphans>>
  <2>1. step' = "settle" => step = "settle" /\ queue # <<>> /\ Head(queue').row = Head(queue).row
    BY <1>7 DEF TypeInv, ThreadShape
  <2> QED
    BY <1>7, <2>1, ThreadsKept
<1>9. ASSUME NEW t \in orphans, OrphanFails(t)
      PROVE  LogThreads'
  <2>1. UNCHANGED <<queue, step>> /\ orphans' \subseteq orphans
    BY <1>9 DEF OrphanFails
  <2>2. step' = "settle" => step = "settle" /\ queue # <<>> /\ Head(queue').row = Head(queue).row
    BY <2>1 DEF TypeInv, ThreadShape
  <2> QED
    BY <2>1, <2>2, ThreadsKept
<1>8. \/ WriterStep \/ (\E t \in orphans : OrphanStep(t)) \/ FlushLogs \/ FlushFinished
      \/ (\E t \in orphans : OrphanFails(t)) \/ Connect \/ ServerRestart \/ AckTimeout \/ Disconnect \/ WriteFails
      \/ UNCHANGED <<queue, step, orphans>>
  BY DEF Next, Create, Dispatch, DeployRun, EmitLog, EndRun, OtherReport, FlushWake, FlushRest,
         AckLog, AckFinished, Reconcile, linkVars, vars
<1> QED
  BY <1>1, <1>2, <1>3, <1>4, <1>5, <1>6, <1>7, <1>8, <1>9

\* An ack is given once the chunk has been dealt with, so once the file has it.
LEMMA WriterAcks ==
  ASSUME DeployAssumption, TypeInv, Awaited, Gapless, LogCursors, LogThreads, LogAcks, Grows,
         ~Spend("disk"), WriterStep
  PROVE  LogAcks'
<1>0. /\ queue # <<>> /\ queue \in Seq(Frames) /\ UNCHANGED <<logs, flush>> /\ acked \in BOOLEAN
  BY DEF WriterStep, TypeInv, TypeOK, LinkTypes, BufferTypes, bufferVars
<1>1. /\ Thread \in Threads /\ Thread.frame = Head(queue) /\ Thread.step = step
      /\ Head(queue) = queue[1] /\ 1 \in DOMAIN queue
      /\ step # "tx" => Head(queue).kind = "log"
      /\ Head(queue).kind = "log" => Preceded(Head(queue).row)
      /\ step = "settle" => Reached(Head(queue).row)
  BY <1>0, WriterLogs
<1> SUFFICES ASSUME flush = "logAck"
             PROVE  /\ acked' => Reached(Head(logs))'
                    /\ \A i \in DOMAIN queue' : queue'[i].live =>
                         queue'[i].row.dep = Head(logs).dep /\ queue'[i].row.seq = Head(logs).seq
  BY <1>0 DEF LogAcks
<1>2. Head(logs).dep \in Deps /\ Head(logs).seq \in Chunks
  <2>1. logs # <<>> /\ Head(logs) = logs[1] /\ 1 \in DOMAIN logs
    BY TailOf DEF TypeInv, TypeOK, BufferTypes, BufferKeys
  <2> QED
    BY <2>1, BufferedRows
<1>3. acked => InFile(Head(logs).dep, Head(logs).seq)'
  <2>1. PICK row : row = Head(logs)
    OBVIOUS
  <2>2. acked => InFile(row.dep, row.seq)'
    BY <1>2, <2>1 DEF LogAcks, Reached, Grows
  <2> QED
    BY <1>0, <2>1, <2>2
<1>4. \A i \in DOMAIN queue' : \E j \in DOMAIN queue : queue'[i] = queue[j]
  <2>1. CASE queue' = queue
    BY <2>1
  <2>2. CASE queue' = Tail(queue)
    BY <1>0, <2>2, TailOf
  <2> QED
    BY <2>1, <2>2 DEF WriterStep
<1>5. \A i \in DOMAIN queue' : queue'[i].live =>
        queue'[i].row.dep = Head(logs).dep /\ queue'[i].row.seq = Head(logs).seq
  BY <1>4 DEF LogAcks
<1>6. ASSUME acked', ~acked
      PROVE  InFile(Head(logs).dep, Head(logs).seq)'
  <2>1. Ends(Thread) /\ Head(queue).live
    BY <1>0, <1>6 DEF WriterStep
  <2>2. /\ Head(queue).row.dep = Head(logs).dep /\ Head(queue).row.seq = Head(logs).seq
        /\ Head(queue).kind = "log"
    <3>1. Head(queue).kind # "finished"
      BY <1>1, <2>1 DEF Awaited
    <3>2. Head(queue).kind \in {"log", "finished"}
      BY <1>0, <1>1 DEF Frames
    <3> QED
      BY <1>1, <2>1, <3>1, <3>2 DEF LogAcks
  <2>3. PICK t \in Threads : t = Thread
    BY <1>1
  <2>4. InFile(t.frame.row.dep, t.frame.row.seq)'
    BY <1>1, <2>1, <2>2, <2>3, ThreadLogs
  <2>5. t.frame.row.dep = Head(logs').dep /\ t.frame.row.seq = Head(logs').seq
    BY <1>0, <1>1, <2>2, <2>3
  <2> QED
    BY <2>4, <2>5
<1> QED
  BY <1>3, <1>5, <1>6 DEF Reached

LEMMA LogAcksStep ==
  ASSUME DeployAssumption, TypeInv, Awaited, LogOrder, Gapless, LogCursors, LogThreads, LogAcks,
         Grows, [Next]_vars, ~DaemonCrash, ~Spend("disk")
  PROVE  LogAcks'
<1>0. queue \in Seq(Frames) /\ logs \in Seq(LogRows)
  BY DEF TypeInv, TypeOK, LinkTypes, BufferTypes
<1>1. CASE WriterStep
  BY <1>1, WriterAcks
<1>2. CASE FlushLogs
  <2>1. /\ flush = "log" /\ logs # <<>> /\ UNCHANGED <<logs, acked>>
        /\ queue' = Append(queue, [kind |-> "log", row |-> Head(logs), live |-> TRUE])
    BY <1>2 DEF FlushLogs, Report, bufferVars
  <2>2. Head(logs) \in LogRows
    BY <1>0, <2>1, TailOf
  <2>3. [kind |-> "log", row |-> Head(logs), live |-> TRUE] \in Frames
    BY <2>2 DEF Frames
  <2>4. ~acked /\ \A i \in DOMAIN queue : ~queue[i].live
    <3>1. \A i \in DOMAIN queue : queue[i].kind \in {"log", "finished"}
      BY <1>0 DEF Frames
    <3> QED
      BY <2>1, <3>1 DEF Awaited
  <2>5. /\ \A i \in DOMAIN queue' : i \in DOMAIN queue \/ i = Len(queue) + 1
        /\ queue'[Len(queue) + 1].row = Head(logs)
        /\ \A i \in DOMAIN queue : queue'[i] = queue[i]
    BY <1>0, <2>1, <2>3, AppendTo
  <2>6. \A i \in DOMAIN queue' : queue'[i].live => queue'[i].row = Head(logs)
    BY <2>4, <2>5
  <2> QED
    BY <2>1, <2>4, <2>6 DEF LogAcks
<1>3. ASSUME NEW d \in Deps, EmitLog(d)
      PROVE  LogAcks'
  <2>1. UNCHANGED <<queue, flush, acked>>
    BY <1>3 DEF EmitLog, linkVars
  <2>2. PICK row \in LogRows : logs' = Append(logs, row)
    BY <1>3, EmitAppends
  <2>3. flush = "logAck" => Head(logs') = Head(logs) /\ Head(logs).dep \in Deps
                                                     /\ Head(logs).seq \in Chunks
    <3> SUFFICES ASSUME flush = "logAck"
                 PROVE  Head(logs') = Head(logs) /\ Head(logs).dep \in Deps
                                                 /\ Head(logs).seq \in Chunks
      OBVIOUS
    <3>1. logs # <<>>
      BY DEF TypeInv, BufferKeys
    <3>2. Head(logs) = logs[1] /\ 1 \in DOMAIN logs
      BY <1>0, <3>1, TailOf
    <3> QED
      BY <1>0, <2>2, <3>1, <3>2, AppendTo, BufferedRows
  <2>4. ASSUME flush = "logAck", acked, NEW row0, row0 = Head(logs)
        PROVE  Reached(row0)'
    <3>1. Reached(row0) /\ row0.dep \in Deps /\ row0.seq \in Chunks
      BY <2>3, <2>4 DEF LogAcks
    <3> QED
      BY <3>1, StillThere
  <2>5. flush' = "logAck" /\ acked' => Reached(Head(logs))'
    <3> SUFFICES ASSUME flush' = "logAck", acked'
                 PROVE  Reached(Head(logs))'
      OBVIOUS
    <3>1. PICK row0 : row0 = Head(logs)
      OBVIOUS
    <3>2. Reached(row0)'
      BY <2>1, <2>4, <3>1
    <3>3. row0 = Head(logs')
      BY <2>1, <2>3, <3>1
    <3> QED
      BY <3>2, <3>3 DEF Reached
  <2> QED
    BY <2>1, <2>3, <2>5 DEF LogAcks
<1>4. CASE UNCHANGED <<queue, flush, acked, logs>>
  <2>1. flush = "logAck" => Head(logs).dep \in Deps /\ Head(logs).seq \in Chunks
    <3> SUFFICES ASSUME flush = "logAck"
                 PROVE  Head(logs).dep \in Deps /\ Head(logs).seq \in Chunks
      OBVIOUS
    <3>1. logs # <<>>
      BY DEF TypeInv, BufferKeys
    <3>2. Head(logs) = logs[1] /\ 1 \in DOMAIN logs
      BY <1>0, <3>1, TailOf
    <3> QED
      BY <3>2, BufferedRows
  <2>2. flush' = "logAck" /\ acked' => Reached(Head(logs))'
    <3> SUFFICES ASSUME flush' = "logAck", acked'
                 PROVE  Reached(Head(logs))'
      OBVIOUS
    <3>1. PICK row0 : row0 = Head(logs)
      OBVIOUS
    <3>2. Reached(row0) /\ row0.dep \in Deps /\ row0.seq \in Chunks
      BY <1>4, <2>1, <3>1 DEF LogAcks
    <3>3. Reached(row0)'
      BY <3>2, StillThere
    <3>4. row0 = Head(logs')
      BY <1>4, <3>1
    <3> QED
      BY <3>3, <3>4 DEF Reached
  <2> QED
    BY <1>4, <2>2 DEF LogAcks
<1>5. CASE WriteFails
  <2>1. queue # <<>> /\ queue' = Tail(queue) /\ UNCHANGED <<flush, acked, logs>>
    BY <1>5 DEF WriteFails, bufferVars
  <2>2. \A i \in DOMAIN queue' : \E j \in DOMAIN queue : queue'[i] = queue[j]
    BY <1>0, <2>1, TailOf
  <2>3. flush = "logAck" /\ acked => Reached(Head(logs))'
    <3> SUFFICES ASSUME flush = "logAck", acked
                 PROVE  Reached(Head(logs))'
      OBVIOUS
    <3>1. file' = file
      BY <1>5 DEF WriteFails, TxFails
    <3> QED
      BY <2>1, <3>1 DEF LogAcks, Reached, InFile
  <2> QED
    BY <2>1, <2>2, <2>3 DEF LogAcks
<1>6. flush' # "logAck" => LogAcks'
  BY DEF LogAcks
<1>7. \/ flush' # "logAck" \/ WriterStep \/ FlushLogs \/ WriteFails
      \/ UNCHANGED <<queue, flush, acked, logs>> \/ \E d \in Deps : EmitLog(d)
  BY DEF Next, Create, Dispatch, DeployRun, EndRun, OtherReport, FlushWake, FlushFinished, Report,
         FlushRest, AckLog, AckFinished, AckTimeout, OrphanStep, OrphanFails, Connect, Reconcile,
         Disconnect, DaemonCrash, ServerRestart, LinkLost, linkVars, bufferVars, vars
<1> QED
  BY <1>1, <1>2, <1>3, <1>4, <1>5, <1>6, <1>7

\* While the daemon lives and the disk accepts appends, what a deployment printed
\* is on the daemon or in the server's log, which has no hole: retransmission,
\* late threads of old connections, timeouts and restarts of the server may
\* repeat a chunk but never put one before those that led up to it.
THEOREM LogIsWhole == ASSUME DeployAssumption PROVE Spec => []LogWhole
<1>1. ASSUME Init
      PROVE  LogInv
  <2>1. /\ logs = <<>> /\ queue = <<>> /\ DOMAIN <<>> = {} /\ orphans = {} /\ step = "tx"
        /\ flush = "off" /\ \A d \in Deps : chunk[d] = 0 /\ file[d] = <<>>
                                            /\ cursor[d] = -1 /\ sidecar[d] = -1
    BY <1>1 DEF Init
  <2>2. \A n \in Chunks : ~(n < 0) /\ ~(n <= -1)
    BY DEF Chunks
  <2>3. LogOrder /\ LogKept /\ Gapless
    BY <2>1, <2>2 DEF LogOrder, LogKept, Gapless
  <2>4. LogThreads /\ LogCursors /\ LogAcks
    BY <2>1, <2>2 DEF LogThreads, LogCursors, LogAcks
  <2> QED
    BY <2>3, <2>4 DEF LogInv
<1>2. ASSUME VerdictInv, RealInv, LogInv, [Next]_vars
      PROVE  LogInv'
  <2>1. TypeInv /\ Awaited /\ FirstBoot
    BY <1>2 DEF VerdictInv, BoardInv, RealInv
  <2>2. SUFFICES ASSUME Quiet'
                 PROVE  (LogOrder /\ LogKept /\ Gapless /\ LogThreads /\ LogCursors /\ LogAcks)'
    BY DEF LogInv
  <2>3. Quiet /\ ~DaemonCrash /\ ~Spend("disk")
    BY <1>2, <2>1, <2>2, QuietStep
  <2>4. LogOrder /\ LogKept /\ Gapless /\ LogThreads /\ LogCursors /\ LogAcks
    BY <1>2, <2>3 DEF LogInv
  <2>5. Gapless' /\ LogCursors' /\ Grows
    BY <1>2, <2>1, <2>3, <2>4, FileStep
  <2>6. LogOrder'
    BY <1>2, <2>1, <2>3, <2>4, LogOrderStep
  <2>7. LogKept'
    BY <1>2, <2>1, <2>3, <2>4, <2>5, LogKeptStep
  <2>8. LogThreads'
    BY <1>2, <2>1, <2>3, <2>4, <2>5, LogThreadsStep
  <2>9. LogAcks'
    BY <1>2, <2>1, <2>3, <2>4, <2>5, LogAcksStep
  <2> QED
    BY <2>5, <2>6, <2>7, <2>8, <2>9
<1>3. ASSUME VerdictInv, LogInv
      PROVE  LogWhole
  <2>1. /\ chunk \in [Deps -> 0..MaxChunks] /\ file \in [Deps -> Seq(LogRows)]
        /\ MaxChunks \in Nat
    BY <1>3 DEF VerdictInv, BoardInv, TypeInv, TypeOK, RunnerTypes, LogTypes, DeployAssumption
  <2> SUFFICES ASSUME Quiet, NEW d \in Deps
               PROVE  /\ \A n \in 0..(chunk[d] - 1) : Buffered(d, n) \/ n \in Before(d, Len(file[d]) + 1)
                      /\ \A i \in DOMAIN file[d] : 0..(file[d][i].seq - 1) \subseteq Before(d, i)
    BY DEF LogWhole
  <2>2. /\ DOMAIN file[d] = 1..Len(file[d]) /\ Len(file[d]) \in Nat
        /\ \A i \in DOMAIN file[d] : file[d][i] \in LogRows
        /\ chunk[d] \in 0..MaxChunks
    BY <2>1
  <2>3. \A i \in DOMAIN file[d] : file[d][i].seq \in Chunks
    BY <2>2 DEF LogRows
  <2>4. ASSUME NEW n \in 0..(chunk[d] - 1)
        PROVE  Buffered(d, n) \/ n \in Before(d, Len(file[d]) + 1)
    <3>1. n \in Chunks /\ n < chunk[d]
      BY <2>1, <2>2 DEF Chunks
    <3>2. Buffered(d, n) \/ InFile(d, n)
      BY <1>3, <3>1 DEF LogInv, LogKept
    <3>3. (Len(file[d]) + 1) - 1 = Len(file[d])
      BY <2>2
    <3> QED
      BY <2>2, <3>2, <3>3 DEF InFile, Before
  <2>5. ASSUME NEW i \in DOMAIN file[d], NEW m \in 0..(file[d][i].seq - 1)
        PROVE  m \in Before(d, i)
    <3>1. m \in Chunks /\ m < file[d][i].seq
      BY <2>1, <2>3 DEF Chunks
    <3>2. PICK j \in DOMAIN file[d] : j < i /\ file[d][j].seq = m
      BY <1>3, <3>1 DEF LogInv, Gapless
    <3>3. j \in 1..(i - 1)
      BY <2>2, <3>2
    <3> QED
      BY <3>2, <3>3 DEF Before
  <2> QED
    BY <2>4, <2>5
<1> QED
  BY <1>1, <1>2, <1>3, RealInvariant, PTL DEF Spec
=============================================================================
