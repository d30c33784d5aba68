-------------------------- MODULE TelemetryUplink --------------------------
(***************************************************************************)
(* The two ring buffers a daemon keeps for reports that need an ack (token *)
(* usage and diagnostics), the loop that flushes them over the WebSocket,  *)
(* and the server's per-connection writer that stores them.                *)
(*                                                                         *)
(* A buffer row is its append number: rows are appended at the tail and    *)
(* reloaded in order, so a set of numbers is the JSONL file in file order. *)
(* A usage number also stands for the event's ULID, which is its identity  *)
(* on the server; a diagnostic row has no identity beyond its position.    *)
(* Faults are drawn from a finite budget, one entry per kind.              *)
(***************************************************************************)
EXTENDS Integers, Sequences, FiniteSets

CONSTANTS
  MaxUsage, MaxDiag,       \* events the adapters produce (bounds)
  UsageCap, DiagCap,       \* BUFFER_USAGE_MAX, BUFFER_DIAGNOSTICS_MAX
  UsageBatch, DiagBatch,   \* rows per usage.batch / diagnostics.batch
  Budget                   \* fault kind |-> how often it may strike

Faults == {"cut", "crash", "restart", "timeout", "write", "disk"}

ASSUME UplinkAssumption ==
  /\ {MaxUsage, MaxDiag} \subseteq Nat
  /\ {UsageCap, DiagCap, UsageBatch, DiagBatch} \subseteq Nat \ {0}
  /\ Budget \in [Faults -> Nat]

VARIABLES
  produced, usage, usageDisk, droppedUsage,    \* TelemetryBuffer._usage
  events, rows, diag, diagDisk, droppedDiag,   \* TelemetryBuffer._diag
  flush,                   \* where flushLoop stands
  flushEvent,              \* client.flushEvent
  batch,                   \* rows of the report being awaited
  acked,                   \* its ack is on the wire
  conn,                    \* the daemon's view of the link
  queue,                   \* frames on the wire and in conn.report_queue
  orphans,                 \* writes a cancelled writer left to their thread
  done, unsaid,            \* the head frame is committed; events still to emit
  unsaidLate,              \* events that threads of dead connections emit yet
  ledger, reported,        \* token_usage rows, token_usage.reported counts
  stored,                  \* diagnostic_events rows
  muted,                   \* recorded by a server that died before it emitted
  evicted, trimmed,        \* usage / diagnostic rows a ring pushed out
  lost, lostDiag,          \* rows a crash took that were not on disk
  left                     \* the remaining fault budget

usageVars  == <<produced, usage, usageDisk, droppedUsage, evicted, lost>>
diagVars   == <<events, rows, diag, diagDisk, droppedDiag, trimmed, lostDiag>>
flushVars  == <<flush, flushEvent, batch, acked>>
threadVars == <<done, unsaid, unsaidLate>>
linkVars   == <<conn, queue, orphans, threadVars>>
serverVars == <<ledger, reported, stored, muted>>
vars == <<usageVars, diagVars, flushVars, linkVars, serverVars, left>>

Events  == 1..MaxUsage
Frames  == [kind : {"usage", "diag"}, rows : SUBSET Nat, live : BOOLEAN]

Oldest(S, n) == {x \in S : Cardinality({y \in S : y <= x}) <= n}
Newest(S, n) == {x \in S : Cardinality({y \in S : y >= x}) <= n}

Spend(fault) ==
  /\ left[fault] > 0
  /\ left' = [left EXCEPT ![fault] = @ - 1]

\* A rewrite of a JSONL file either replaces it or throws and leaves it.
Rewrite(ok) == IF ok THEN UNCHANGED left ELSE Spend("disk")

Init ==
  /\ produced = 0 /\ usage = {} /\ usageDisk = {} /\ droppedUsage = 0
  /\ events = 0 /\ rows = 0 /\ diag = {} /\ diagDisk = {} /\ droppedDiag = 0
  /\ flush = "off" /\ flushEvent = FALSE /\ batch = {} /\ acked = FALSE
  /\ conn = "down" /\ queue = <<>> /\ orphans = {}
  /\ done = FALSE /\ unsaid = {} /\ unsaidLate = {} /\ muted = {}
  /\ ledger = {} /\ reported = [u \in Events |-> 0] /\ stored = {}
  /\ evicted = {} /\ trimmed = {} /\ lost = {} /\ lostDiag = {}
  /\ left = Budget

-----------------------------------------------------------------------------
(* The buffers *)

\* onUsage: push, push out the oldest beyond the cap, and leave an overflow
\* marker in the diagnostics ring -- in memory: only the usage file is saved.
AppendUsage(ok) ==
  LET all    == usage \cup {produced + 1}
      kept   == Newest(all, UsageCap)
      over   == all \ kept
      marked == Newest(diag \cup {rows + 1}, DiagCap)
  IN /\ produced < MaxUsage
     /\ Rewrite(ok)
     /\ produced' = produced + 1
     /\ usage' = kept
     /\ usageDisk' = IF ok THEN kept ELSE usageDisk
     /\ evicted' = evicted \cup over
     /\ droppedUsage' = droppedUsage + Cardinality(over)
     /\ IF over = {}
          THEN UNCHANGED <<rows, diag, trimmed>>
          ELSE /\ rows' = rows + 1
               /\ diag' = marked
               /\ trimmed' = trimmed \cup ((diag \cup {rows + 1}) \ marked)
     /\ flushEvent' = TRUE
     /\ UNCHANGED <<lost, events, diagDisk, droppedDiag, lostDiag,
                    flush, batch, acked, linkVars, serverVars>>

\* onDiagnostic: the same ring; the marker's own push-out is not counted.
AppendDiagnostic(ok) ==
  LET all    == diag \cup {rows + 1}
      kept   == Newest(all, DiagCap)
      over   == all \ kept
      marked == Newest(kept \cup {rows + 2}, DiagCap)
      full   == over # {}
      final  == IF full THEN marked ELSE kept
  IN /\ events < MaxDiag
     /\ Rewrite(ok)
     /\ events' = events + 1
     /\ rows' = rows + (IF full THEN 2 ELSE 1)
     /\ diag' = final
     /\ diagDisk' = IF ok THEN final ELSE diagDisk
     /\ droppedDiag' = droppedDiag + Cardinality(over)
     /\ trimmed' = trimmed \cup (((rows + 1)..rows' \cup diag) \ final)
     /\ flushEvent' = TRUE
     /\ UNCHANGED <<usageVars, lostDiag, flush, batch, acked, linkVars, serverVars>>

-----------------------------------------------------------------------------
(* flushLoop *)

FlushWake ==
  /\ flush = "idle" /\ flushEvent
  /\ flushEvent' = FALSE
  /\ flush' = "usage"
  /\ UNCHANGED <<usageVars, diagVars, batch, acked, linkVars, serverVars, left>>

\* One turn of flushUsage / flushDiagnostics: send the oldest rows and wait,
\* or go on to the next buffer when this one is empty.
Report(kind, buffer, size, waiting, next) ==
  /\ flush = kind
  /\ IF buffer = {}
       THEN flush' = next /\ UNCHANGED <<batch, queue>>
       ELSE /\ flush' = waiting
            /\ batch' = Oldest(buffer, size)
            /\ queue' = Append(queue, [kind |-> kind, rows |-> batch', live |-> TRUE])
  /\ UNCHANGED <<usageVars, diagVars, flushEvent, acked, conn, orphans, threadVars,
                 serverVars, left>>

FlushUsage       == Report("usage", usage, UsageBatch, "usageAck", "diag")
FlushDiagnostics == Report("diag", diag, DiagBatch, "diagAck", "idle")

\* (mutant) usage is acked by count, as diagnostics are
AckUsage_ByCount(ok) ==
  /\ flush = "usageAck" /\ acked
  /\ Rewrite(ok)
  /\ usage' = usage \ Oldest(usage, Cardinality(batch))
  /\ usageDisk' = IF ok THEN usage' ELSE usageDisk
  /\ flush' = IF ok THEN "usage" ELSE "dead"
  /\ acked' = FALSE /\ batch' = {}
  /\ UNCHANGED <<produced, droppedUsage, evicted, lost, diagVars, flushEvent,
                 linkVars, serverVars>>

\* The ack of the awaited report. A rewrite that throws ends the loop for the
\* rest of the connection, after the rows have left memory.
AckUsage(ok) ==
  /\ flush = "usageAck" /\ acked
  /\ Rewrite(ok)
  /\ usage' = usage \ batch
  /\ usageDisk' = IF ok THEN usage' ELSE usageDisk
  /\ flush' = IF ok THEN "usage" ELSE "dead"
  /\ acked' = FALSE /\ batch' = {}
  /\ UNCHANGED <<produced, droppedUsage, evicted, lost, diagVars, flushEvent,
                 linkVars, serverVars>>

\* (mutant) a full batch is removed, however few rows were sent
AckDiagnostics_FullBatch(ok) ==
  /\ flush = "diagAck" /\ acked
  /\ Rewrite(ok)
  /\ diag' = diag \ Oldest(diag, DiagBatch)
  /\ diagDisk' = IF ok THEN diag' ELSE diagDisk
  /\ flush' = IF ok THEN "diag" ELSE "dead"
  /\ acked' = FALSE /\ batch' = {}
  /\ UNCHANGED <<usageVars, events, rows, droppedDiag, trimmed, lostDiag,
                 flushEvent, linkVars, serverVars>>

AckDiagnostics(ok) ==
  /\ flush = "diagAck" /\ acked
  /\ Rewrite(ok)
  /\ diag' = diag \ Oldest(diag, Cardinality(batch))
  /\ diagDisk' = IF ok THEN diag' ELSE diagDisk
  /\ flush' = IF ok THEN "diag" ELSE "dead"
  /\ acked' = FALSE /\ batch' = {}
  /\ UNCHANGED <<usageVars, events, rows, droppedDiag, trimmed, lostDiag,
                 flushEvent, linkVars, serverVars>>

\* A frame nobody waits for any more: its ack will find no pending promise.
Stale(q) == [i \in DOMAIN q |-> [q[i] EXCEPT !.live = FALSE]]

\* reportAwaited gives up after ackTimeout; flushX returns and the loop goes on.
AckTimeout ==
  /\ flush \in {"usageAck", "diagAck"}
  /\ Spend("timeout")
  /\ flush' = IF flush = "usageAck" THEN "diag" ELSE "idle"
  /\ batch' = {} /\ acked' = FALSE
  /\ queue' = Stale(queue)
  /\ UNCHANGED <<usageVars, diagVars, flushEvent, conn, orphans, threadVars, serverVars>>

-----------------------------------------------------------------------------
(* The link and the two processes *)

\* The server drops the superseded connection: a write its writer had already
\* handed to a thread may still commit, and emit its events.
Supersede ==
  /\ queue' = <<>>
  /\ orphans' = orphans \cup {queue[1] : i \in {j \in DOMAIN queue : ~done}}
  /\ done' = FALSE /\ unsaid' = {} /\ unsaidLate' = unsaidLate \cup unsaid

\* (mutant) a reconnection does not wake the flush loop
Connect_NoFlush ==
  /\ conn = "down"
  /\ conn' = "up"
  /\ flush' = "idle" /\ flushEvent' = FALSE
  /\ Supersede
  /\ UNCHANGED <<usageVars, diagVars, batch, acked, serverVars, left>>

\* serve up to flushEvent.set().
Connect ==
  /\ conn = "down"
  /\ conn' = "up"
  /\ flush' = "idle" /\ flushEvent' = TRUE
  /\ Supersede
  /\ UNCHANGED <<usageVars, diagVars, batch, acked, serverVars, left>>

LinkLost ==
  /\ conn' = "down"
  /\ flush' = "off"
  /\ batch' = {} /\ acked' = FALSE
  /\ UNCHANGED flushEvent

Disconnect ==
  /\ conn = "up"
  /\ Spend("cut")
  /\ LinkLost
  /\ queue' = Stale(queue)
  /\ UNCHANGED <<usageVars, diagVars, orphans, threadVars, serverVars>>

\* The daemon process dies and starts again: the files are what it has.
DaemonCrash ==
  /\ Spend("crash")
  /\ LinkLost
  /\ queue' = Stale(queue)
  /\ usage' = usageDisk /\ diag' = diagDisk
  /\ droppedUsage' = 0 /\ droppedDiag' = 0
  /\ lost' = lost \cup (usage \ usageDisk)
  /\ lostDiag' = lostDiag \cup (diag \ diagDisk)
  /\ UNCHANGED <<produced, usageDisk, evicted, events, rows, diagDisk, trimmed,
                 orphans, threadVars, serverVars>>

\* The server process dies: queued reports, running transactions and the events
\* of those that had committed are gone.
ServerRestart ==
  /\ Spend("restart")
  /\ LinkLost
  /\ queue' = <<>> /\ orphans' = {}
  /\ done' = FALSE /\ unsaid' = {} /\ unsaidLate' = {}
  /\ muted' = muted \cup unsaid \cup unsaidLate
  /\ UNCHANGED <<usageVars, diagVars, ledger, reported, stored>>

-----------------------------------------------------------------------------
(* The server's writer *)

\* (mutant) no look at the ids already in the table
New_NoSeen(f) == IF f.kind = "usage" THEN f.rows ELSE {}

\* Usage ids that are not in the table yet.
New(f) == IF f.kind = "usage" THEN f.rows \ ledger ELSE {}

\* One transaction up to its commit: new usage rows are inserted, diagnostics
\* whatever they are.
Store(f) ==
  /\ ledger' = ledger \cup New(f)
  /\ stored' = IF f.kind = "diag" THEN stored \cup f.rows ELSE stored
  /\ UNCHANGED <<reported, muted>>

\* token_usage.reported
Emit(u) == reported' = [reported EXCEPT ![u] = @ + 1]

WriteReport ==
  /\ queue # <<>> /\ ~done
  /\ Store(Head(queue))
  /\ done' = TRUE /\ unsaid' = New(Head(queue))
  /\ UNCHANGED <<usageVars, diagVars, flushVars, conn, queue, orphans, unsaidLate, left>>

\* The events of a committed transaction are emitted one by one, in order.
EmitNext ==
  /\ \E u \in Oldest(unsaid, 1) : Emit(u) /\ unsaid' = unsaid \ {u}
  /\ UNCHANGED <<usageVars, diagVars, flushVars, conn, queue, orphans, done, unsaidLate,
                 ledger, stored, muted, left>>

\* Then the report is acknowledged.
AckReport ==
  /\ done /\ unsaid = {}
  /\ done' = FALSE
  /\ acked' = (acked \/ Head(queue).live)
  /\ queue' = Tail(queue)
  /\ UNCHANGED <<usageVars, diagVars, flush, flushEvent, batch, conn, orphans,
                 unsaid, unsaidLate, serverVars, left>>

\* (mutant) events are emitted before the transaction commits
WriteFails_Emits ==
  /\ queue # <<>> /\ ~done
  /\ Spend("write")
  /\ reported' = [u \in Events |-> reported[u] + (IF u \in Head(queue).rows THEN 1 ELSE 0)]
  /\ queue' = Tail(queue)
  /\ UNCHANGED <<usageVars, diagVars, flushVars, conn, orphans, threadVars,
                 ledger, stored, muted>>

\* The transaction throws: it is logged, the frame is dropped, no ack is sent.
WriteFails ==
  /\ queue # <<>> /\ ~done
  /\ Spend("write")
  /\ queue' = Tail(queue)
  /\ UNCHANGED <<usageVars, diagVars, flushVars, conn, orphans, threadVars, serverVars>>

WriteOrphan(f) ==
  /\ Store(f)
  /\ orphans' = orphans \ {f}
  /\ unsaidLate' = unsaidLate \cup New(f)
  /\ UNCHANGED <<usageVars, diagVars, flushVars, conn, queue, done, unsaid, left>>

EmitLate(u) ==
  /\ Emit(u) /\ unsaidLate' = unsaidLate \ {u}
  /\ UNCHANGED <<usageVars, diagVars, flushVars, conn, queue, orphans, done, unsaid,
                 ledger, stored, muted, left>>

Next ==
  \/ \E ok \in BOOLEAN : AppendUsage(ok)
  \/ \E ok \in BOOLEAN : AppendDiagnostic(ok)
  \/ FlushWake
  \/ FlushUsage
  \/ FlushDiagnostics
  \/ \E ok \in BOOLEAN : AckUsage(ok)
  \/ \E ok \in BOOLEAN : AckDiagnostics(ok)
  \/ AckTimeout
  \/ Connect
  \/ Disconnect
  \/ DaemonCrash
  \/ ServerRestart
  \/ WriteReport
  \/ EmitNext
  \/ AckReport
  \/ WriteFails
  \/ \E f \in orphans : WriteOrphan(f)
  \/ \E u \in unsaidLate : EmitLate(u)

\* The daemon's event loop, its reconnect loop and the server's writer keep
\* running; nothing obliges an adapter to produce, a fault to strike, or the
\* thread of a cancelled writer to commit.
Fairness ==
  /\ WF_vars(FlushWake) /\ WF_vars(FlushUsage) /\ WF_vars(FlushDiagnostics)
  /\ WF_vars(AckUsage(TRUE)) /\ WF_vars(AckDiagnostics(TRUE)) /\ WF_vars(AckTimeout)
  /\ WF_vars(Connect) /\ WF_vars(WriteReport \/ EmitNext \/ AckReport)

Spec == Init /\ [][Next]_vars
FairSpec == Spec /\ Fairness

-----------------------------------------------------------------------------
(* Properties *)

Ledger == INSTANCE UsageLedger

UsageTypes ==
  /\ produced \in Nat /\ produced <= MaxUsage /\ droppedUsage \in Nat
  /\ usage \subseteq 1..produced /\ usageDisk \subseteq 1..produced
  /\ evicted \subseteq 1..produced /\ lost \subseteq 1..produced

DiagTypes ==
  /\ events \in Nat /\ events <= MaxDiag /\ rows \in Nat /\ droppedDiag \in Nat
  /\ diag \subseteq 1..rows /\ diagDisk \subseteq 1..rows
  /\ trimmed \subseteq 1..rows /\ lostDiag \subseteq 1..rows

FlushTypes ==
  /\ flush \in {"off", "idle", "usage", "usageAck", "diag", "diagAck", "dead"}
  /\ flushEvent \in BOOLEAN /\ acked \in BOOLEAN /\ batch \subseteq Nat

LinkTypes ==
  /\ conn \in {"down", "up"} /\ queue \in Seq(Frames) /\ orphans \subseteq Frames
  /\ done \in BOOLEAN /\ unsaid \subseteq Nat /\ unsaidLate \subseteq Nat
  /\ done => queue # <<>>

ServerTypes ==
  /\ ledger \subseteq Nat /\ stored \subseteq Nat /\ reported \in [Events -> Nat]
  /\ muted \subseteq Nat

TypeOK ==
  UsageTypes /\ DiagTypes /\ FlushTypes /\ LinkTypes /\ ServerTypes /\ left \in [Faults -> Nat]

\* The rows a frame may name: those that were appended.
Existing(f) == 1..(IF f.kind = "usage" THEN produced ELSE rows)

\* A report names rows that exist, so what the server stores was appended.
Bounds ==
  /\ ledger \subseteq 1..produced /\ stored \subseteq 1..rows
  /\ \A f \in orphans : f.rows \subseteq Existing(f)
  /\ \A i \in DOMAIN queue : queue[i].rows \subseteq Existing(queue[i])

\* Every variable keeps its type, and peekUsage / peekDiagnostics never slice a
\* row that was not appended.
TypeInv == TypeOK /\ Bounds

\* An event that was produced is recorded, or still buffered, or was pushed out
\* by the ring, or was lost by a crash: no ack, retransmission, supersession or
\* restart makes one vanish (TelemetryBuffer with flushUsage and _report_usage).
UsageNeverLost == 1..produced \subseteq ledger \cup usage \cup evicted \cup lost

\* However often a batch is resent, or committed by the thread of a dead
\* connection, each event is broadcast once, by the one transaction that inserted
\* its row, after it committed; never, if the server died in between.
Unsaid == unsaid \cup unsaidLate \cup muted
ReportedOnce == \A u \in Events : reported[u] = IF u \in ledger \ Unsaid THEN 1 ELSE 0

\* The uplink is a way to run the ledger of UsageLedger: retransmission,
\* crashes and supersession add nothing a reader of the ledger could see.
LedgerSpec == Ledger!Spec

Undisturbed == \A fault \in {"write", "timeout", "disk"} : left[fault] = Budget[fault]

\* Every event ends up recorded unless the ring or a crash took it first, over
\* disconnections, daemon crashes and server restarts (flushLoop, client.ts:635).
\* A failed write, a timeout or a failed rewrite can leave one waiting for the
\* next event or connection: nothing else wakes the loop.
EveryUsageRecorded ==
  \A u \in Events :
    (u <= produced) ~> (u \in ledger \cup evicted \cup lost \/ ~Undisturbed)

\* Acked diagnostics leave the buffer from its head, by count: while the ring has
\* not overflowed, only those that the server stored leave it, or those that a
\* crash takes (ackDiagnostics).
DiagNeverLost == trimmed = {} => 1..rows \subseteq stored \cup diag \cup lostDiag
=============================================================================
