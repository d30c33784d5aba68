----------------------------- MODULE Deployment -----------------------------
(***************************************************************************)
(* The deployments of one project: the REST request that opens a row, the  *)
(* deploy.run instruction, the daemon's DeployRunner, the durable buffers  *)
(* of deploy.log and deploy.finished, the server thread that stores them,  *)
(* and reconciliation rule #10 after a reconnection.                       *)
(*                                                                         *)
(* A log chunk is named by the deployment, the run of its command that     *)
(* printed it (1st, 2nd...: the program does not number runs) and its      *)
(* chunk_seq. Faults are drawn from a finite budget, one entry per kind.   *)
(***************************************************************************)
EXTENDS Integers, Sequences

CONSTANTS
  Deps,                  \* deployments that may be requested
  MaxChunks,             \* log chunks a run may print (a bound)
  Budget                 \* fault kind |-> how often it may strike

Faults == {"cut", "crash", "restart", "timeout", "write", "disk"}

ASSUME DeployAssumption == MaxChunks \in Nat /\ Budget \in [Faults -> Nat]

VARIABLES
  status, cards,         \* deployments rows and their result cards
  cursor, sidecar,       \* _deploy_log_seq and the <id>.seq files (-1: none)
  file,                  \* <id>.log, a sequence of chunks
  todo,                  \* requests committed whose deploy.run is not sent yet
  nonce,                 \* _last_boot_nonce of the computer (0: none)
  rebooted,              \* conn.daemon_restarted
  recon,                 \* reconcile() of this connection has not reached #10
  conn,                  \* the link
  down,                  \* deploy.run frames on the wire
  queue,                 \* reports on the wire and in conn.report_queue
  step,                  \* where the writer stands with the head of queue
  orphans,               \* report threads of connections that are gone
  boot,                  \* boot_nonce of the daemon process
  running, known, chunk, \* DeployRunner: running, finished, chunkSeq
  logs, fins,            \* TelemetryBuffer: deploy logs, deploy finished
  flush, flushEvent, acked,  \* flushLoop, its event, an ack on the wire
  runs, ended,           \* (history) runs started; verdicts runs ended with
  early,                 \* (history) rows opened while recon was pending
  left                   \* the remaining fault budget

rowVars    == <<status, cards>>
logVars    == <<cursor, sidecar, file>>
askVars    == <<todo, early>>
reconVars  == <<nonce, rebooted, recon>>
linkVars   == <<conn, down, queue, step, orphans>>
runnerVars == <<boot, running, known, chunk, runs, ended>>
bufferVars == <<logs, fins, flushEvent>>
vars == <<rowVars, logVars, askVars, reconVars, linkVars, runnerVars, bufferVars,
          flush, acked, left>>

Active  == {"queued", "running"}
Chunks  == 0..(MaxChunks - 1)
LogRows == [dep : Deps, run : Nat, seq : Chunks]
FinRows == [dep : Deps, ok : BOOLEAN]
Frames  == [kind : {"log"}, row : LogRows, live : BOOLEAN]
           \cup [kind : {"finished"}, row : FinRows, live : BOOLEAN]
Threads == [frame : Frames, step : {"tx", "append", "settle"}]

Verdict(ok) == IF ok THEN "success" ELSE "failed"

Spend(fault) ==
  /\ left[fault] > 0
  /\ left' = [left EXCEPT ![fault] = @ - 1]

Init ==
  /\ status = [d \in Deps |-> "none"] /\ cards = [d \in Deps |-> 0]
  /\ cursor = [d \in Deps |-> -1] /\ sidecar = [d \in Deps |-> -1]
  /\ file = [d \in Deps |-> <<>>]
  /\ todo = {} /\ nonce = 0 /\ rebooted = FALSE /\ recon = FALSE
  /\ conn = "down" /\ down = {} /\ queue = <<>> /\ step = "tx" /\ orphans = {}
  /\ boot = 1 /\ running = {} /\ known = {} /\ chunk = [d \in Deps |-> 0]
  /\ logs = <<>> /\ fins = <<>> /\ flush = "off" /\ flushEvent = FALSE /\ acked = FALSE
  /\ runs = [d \in Deps |-> 0] /\ ended = [d \in Deps |-> {}]
  /\ early = {} /\ left = Budget

-----------------------------------------------------------------------------
(* The request and its instruction *)

\* create_deployment: refused while the daemon is offline, or while the project
\* has an active row (the partial unique index).
Create(d) ==
  /\ conn = "up"
  /\ status[d] = "none"
  /\ \A e \in Deps : status[e] \notin Active
  /\ status' = [status EXCEPT ![d] = "queued"]
  /\ todo' = todo \cup {d}
  /\ early' = IF recon /\ rebooted THEN early \cup {d} ELSE early
  /\ UNCHANGED <<cards, logVars, reconVars, linkVars, runnerVars, bufferVars,
                 flush, acked, left>>

\* after_commit -> _dispatch_deploy_instr: a daemon that is offline by now is
\* silently skipped.
Dispatch(d) ==
  /\ d \in todo
  /\ todo' = todo \ {d}
  /\ down' = IF conn = "up" THEN down \cup {d} ELSE down
  /\ UNCHANGED <<rowVars, logVars, early, reconVars, conn, queue, step, orphans,
                 runnerVars, bufferVars, flush, acked, left>>

-----------------------------------------------------------------------------
(* DeployRunner and the handler of deploy.run *)

\* A buffered row replaces the one with its key in place, or goes to the end.
UpsertLog(row) ==
  IF \E i \in DOMAIN logs : logs[i].dep = row.dep /\ logs[i].seq = row.seq
    THEN [i \in DOMAIN logs |->
            IF logs[i].dep = row.dep /\ logs[i].seq = row.seq THEN row ELSE logs[i]]
    ELSE Append(logs, row)

UpsertFinished(row) ==
  IF \E i \in DOMAIN fins : fins[i].dep = row.dep
    THEN [i \in DOMAIN fins |-> IF fins[i].dep = row.dep THEN row ELSE fins[i]]
    ELSE Append(fins, row)

\* (mutant) the memory of what runs is not consulted
DeployRun_NoRunning(d) ==
  /\ d \in down
  /\ down' = down \ {d}
  /\ IF \E i \in DOMAIN fins : fins[i].dep = d
       THEN flushEvent' = TRUE /\ UNCHANGED <<running, runs, fins>>
     ELSE IF \E r \in known : r.dep = d
       THEN /\ flushEvent' = TRUE
            /\ fins' = UpsertFinished(CHOOSE r \in known : r.dep = d)
            /\ UNCHANGED <<running, runs>>
     ELSE /\ runs' = [runs EXCEPT ![d] = @ + 1]
          /\ running' = running \cup {d}
          /\ UNCHANGED <<flushEvent, fins>>
  /\ UNCHANGED <<rowVars, logVars, askVars, reconVars, conn, queue, step, orphans, boot,
                 known, chunk, ended, logs, flush, acked, left>>

\* deployRun: a verdict that is still buffered, or remembered, is reported
\* again; a run in progress is left alone; otherwise the command starts.
DeployRun(d) ==
  /\ d \in down
  /\ down' = down \ {d}
  /\ IF \E i \in DOMAIN fins : fins[i].dep = d
       THEN flushEvent' = TRUE /\ UNCHANGED <<running, runs, fins>>
     ELSE IF d \in running
       THEN UNCHANGED <<flushEvent, running, runs, fins>>
     ELSE IF \E r \in known : r.dep = d
       THEN /\ flushEvent' = TRUE
            /\ fins' = UpsertFinished(CHOOSE r \in known : r.dep = d)
            /\ UNCHANGED <<running, runs>>
     ELSE /\ runs' = [runs EXCEPT ![d] = @ + 1]
          /\ running' = running \cup {d}
          /\ UNCHANGED <<flushEvent, fins>>
  /\ UNCHANGED <<rowVars, logVars, askVars, reconVars, conn, queue, step, orphans, boot,
                 known, chunk, ended, logs, flush, acked, left>>

\* (mutant) chunks are numbered from one
EmitLog_FromOne(d) ==
  /\ d \in running
  /\ chunk[d] < MaxChunks
  /\ chunk' = [chunk EXCEPT ![d] = @ + 1]
  /\ logs' = UpsertLog([dep |-> d, run |-> runs[d], seq |-> chunk[d] + 1])
  /\ flushEvent' = TRUE
  /\ UNCHANGED <<rowVars, logVars, askVars, reconVars, linkVars, boot, running, known, runs,
                 ended, fins, flush, acked, left>>

\* logCb -> reportDeployLog: chunk_seq is counted in memory, the row is durable.
EmitLog(d) ==
  /\ d \in running
  /\ chunk[d] < MaxChunks
  /\ chunk' = [chunk EXCEPT ![d] = @ + 1]
  /\ logs' = UpsertLog([dep |-> d, run |-> runs[d], seq |-> chunk[d]])
  /\ flushEvent' = TRUE
  /\ UNCHANGED <<rowVars, logVars, askVars, reconVars, linkVars, boot, running, known, runs,
                 ended, fins, flush, acked, left>>

\* The command ends: the verdict is remembered and buffered.
EndRun(d, ok) ==
  /\ d \in running
  /\ running' = running \ {d}
  /\ known' = known \cup {[dep |-> d, ok |-> ok]}
  /\ ended' = [ended EXCEPT ![d] = @ \cup {ok}]
  /\ fins' = UpsertFinished([dep |-> d, ok |-> ok])
  /\ flushEvent' = TRUE
  /\ UNCHANGED <<rowVars, logVars, askVars, reconVars, linkVars, boot, chunk, runs, logs,
                 flush, acked, left>>

\* Any other report (usage, diagnostics, a check) wakes the same flush loop.
OtherReport ==
  /\ ~flushEvent
  /\ flushEvent' = TRUE
  /\ UNCHANGED <<rowVars, logVars, askVars, reconVars, linkVars, runnerVars, logs, fins,
                 flush, acked, left>>

-----------------------------------------------------------------------------
(* flushLoop: deploy logs, then verdicts, one report at a time *)

FlushWake ==
  /\ flush = "idle" /\ flushEvent
  /\ flush' = "log" /\ flushEvent' = FALSE
  /\ UNCHANGED <<rowVars, logVars, askVars, reconVars, linkVars, runnerVars, logs, fins,
                 acked, left>>

Report(kind, rows, waiting) ==
  /\ flush' = waiting
  /\ queue' = Append(queue, [kind |-> kind, row |-> Head(rows), live |-> TRUE])
  /\ UNCHANGED <<rowVars, logVars, askVars, reconVars, conn, down, step, orphans,
                 runnerVars, bufferVars, acked, left>>

FlushLogs == flush = "log" /\ logs # <<>> /\ Report("log", logs, "logAck")

\* Once flushDeployLogs has returned: drained, or given up.
ToFinished == flush = "fin" \/ (flush = "log" /\ logs = <<>>)

FlushFinished == ToFinished /\ fins # <<>> /\ Report("finished", fins, "finAck")

FlushRest ==
  /\ ToFinished /\ fins = <<>>
  /\ flush' = "idle"
  /\ UNCHANGED <<rowVars, logVars, askVars, reconVars, linkVars, runnerVars, bufferVars,
                 acked, left>>

\* The ack of the awaited report removes its row by key. Keys are unique and
\* rows join at the tail or in place, so that row is still the head.
AckLog ==
  /\ flush = "logAck" /\ acked
  /\ logs' = Tail(logs)
  /\ flush' = "log" /\ acked' = FALSE
  /\ UNCHANGED <<rowVars, logVars, askVars, reconVars, linkVars, runnerVars, fins,
                 flushEvent, left>>

AckFinished ==
  /\ flush = "finAck" /\ acked
  /\ fins' = Tail(fins)
  /\ flush' = "fin" /\ acked' = FALSE
  /\ UNCHANGED <<rowVars, logVars, askVars, reconVars, linkVars, runnerVars, logs,
                 flushEvent, left>>

Stale(q) == [i \in DOMAIN q |-> [q[i] EXCEPT !.live = FALSE]]

\* A report is not acked in time: its flush returns and the loop goes on -- to
\* the verdicts when it was a log chunk that timed out.
AckTimeout ==
  /\ flush \in {"logAck", "finAck"}
  /\ Spend("timeout")
  /\ flush' = IF flush = "logAck" THEN "fin" ELSE "idle"
  /\ acked' = FALSE
  /\ queue' = Stale(queue)
  /\ UNCHANGED <<rowVars, logVars, askVars, reconVars, conn, down, step, orphans, runnerVars,
                 bufferVars>>

-----------------------------------------------------------------------------
(* The server thread that stores reports *)

Thread == [frame |-> Head(queue), step |-> step]

\* What a report thread t does next to the rows, the log file and its cursor.
\* _deploy_log_seq, else the sidecar, says which chunks were received.
Received(d) == IF cursor[d] # -1 THEN cursor[d] ELSE sidecar[d]

\* (mutant) the cursor moves with the transaction, before the lines are written
LogTx_CursorFirst(t) ==
  LET d == t.frame.row.dep IN
  /\ t.frame.kind = "log" /\ t.step = "tx" /\ t.frame.row.seq > Received(d)
  /\ status' = IF status[d] = "queued" THEN [status EXCEPT ![d] = "running"] ELSE status
  /\ cursor' = [cursor EXCEPT ![d] = t.frame.row.seq]
  /\ sidecar' = [sidecar EXCEPT ![d] = t.frame.row.seq]
  /\ UNCHANGED <<cards, file, left>>

\* A chunk that is new: its transaction turns a queued row into a running one.
LogTx(t) ==
  LET d == t.frame.row.dep IN
  /\ t.frame.kind = "log" /\ t.step = "tx" /\ t.frame.row.seq > Received(d)
  /\ status' = IF status[d] = "queued" THEN [status EXCEPT ![d] = "running"] ELSE status
  /\ UNCHANGED <<cards, logVars, left>>

\* The lines are appended after the commit; a failed append is swallowed.
LogAppend(t) ==
  /\ t.step = "append"
  /\ \/ file' = [file EXCEPT ![t.frame.row.dep] = Append(@, t.frame.row)] /\ UNCHANGED left
     \/ Spend("disk") /\ UNCHANGED file
  /\ UNCHANGED <<rowVars, cursor, sidecar>>

\* Then the cursor moves, in memory and beside the log.
LogSettle(t) ==
  /\ t.step = "settle"
  /\ cursor' = [cursor EXCEPT ![t.frame.row.dep] = t.frame.row.seq]
  /\ sidecar' = [sidecar EXCEPT ![t.frame.row.dep] = t.frame.row.seq]
  /\ UNCHANGED <<rowVars, file, left>>

LogSeen(t) ==
  /\ t.frame.kind = "log" /\ t.step = "tx" /\ t.frame.row.seq <= Received(t.frame.row.dep)
  /\ UNCHANGED <<rowVars, logVars, left>>

Forget(d) ==
  /\ cursor' = [cursor EXCEPT ![d] = -1]
  /\ sidecar' = [sidecar EXCEPT ![d] = -1]

\* (mutant) no condition on the row's status
FinishedTx_Unconditional(t) ==
  LET d == t.frame.row.dep IN
  /\ t.frame.kind = "finished"
  /\ status' = [status EXCEPT ![d] = Verdict(t.frame.row.ok)]
  /\ cards' = [cards EXCEPT ![d] = @ + 1]
  /\ Forget(d)
  /\ UNCHANGED <<file, left>>

\* The verdict closes an active row and posts its card; a closed row is left alone.
FinishedTx(t) ==
  LET d == t.frame.row.dep IN
  /\ t.frame.kind = "finished"
  /\ IF status[d] \in Active
       THEN /\ status' = [status EXCEPT ![d] = Verdict(t.frame.row.ok)]
            /\ cards' = [cards EXCEPT ![d] = @ + 1]
            /\ Forget(d)
       ELSE UNCHANGED <<rowVars, cursor, sidecar>>
  /\ UNCHANGED <<file, left>>

\* Steps after which the thread goes on, and steps that end it (the ack follows).
Continues(t) ==
  \/ LogTx(t)
  \/ LogAppend(t)
Ends(t) ==
  \/ LogSettle(t)
  \/ LogSeen(t)
  \/ FinishedTx(t)

After(s) == IF s = "tx" THEN "append" ELSE "settle"

WriterStep ==
  /\ queue # <<>>
  /\ \/ Continues(Thread) /\ step' = After(step) /\ UNCHANGED <<queue, acked>>
     \/ /\ Ends(Thread)
        /\ step' = "tx"
        /\ queue' = Tail(queue)
        /\ acked' = (acked \/ Head(queue).live)
  /\ UNCHANGED <<askVars, reconVars, conn, down, orphans, runnerVars, bufferVars, flush>>

OrphanStep(t) ==
  /\ \/ Continues(t) /\ orphans' = (orphans \ {t}) \cup {[t EXCEPT !.step = After(@)]}
     \/ Ends(t) /\ orphans' = orphans \ {t}
  /\ UNCHANGED <<askVars, reconVars, conn, down, queue, step, runnerVars, bufferVars, flush,
                 acked>>

\* A transaction throws. That of a verdict may have forgotten the cursor by then,
\* which no rollback brings back.
TxFails(frame) ==
  /\ Spend("write")
  /\ \/ UNCHANGED <<cursor, sidecar>>
     \/ frame.kind = "finished" /\ status[frame.row.dep] \in Active /\ Forget(frame.row.dep)
  /\ UNCHANGED <<rowVars, file>>

\* It is logged, the report is dropped, no ack is sent.
WriteFails ==
  /\ queue # <<>> /\ step = "tx"
  /\ TxFails(Head(queue))
  /\ queue' = Tail(queue)
  /\ UNCHANGED <<askVars, reconVars, conn, down, step, orphans, runnerVars,
                 bufferVars, flush, acked>>

OrphanFails(t) ==
  /\ t.step = "tx"
  /\ TxFails(t.frame)
  /\ orphans' = orphans \ {t}
  /\ UNCHANGED <<askVars, reconVars, conn, down, queue, step, runnerVars,
                 bufferVars, flush, acked>>

-----------------------------------------------------------------------------
(* Connections, reconciliation #10, crashes *)

\* serve on both sides up to the first flush: hello registers the boot nonce,
\* the superseded connection is dropped, reconcile() is scheduled.
Connect ==
  /\ conn = "down"
  /\ conn' = "up"
  /\ rebooted' = (nonce # boot)
  /\ nonce' = boot
  /\ recon' = TRUE
  /\ queue' = <<>> /\ step' = "tx"
  /\ orphans' = orphans \cup {Thread : i \in DOMAIN queue}
  /\ flush' = "idle" /\ flushEvent' = TRUE
  /\ UNCHANGED <<rowVars, logVars, askVars, down, runnerVars, logs, fins, acked, left>>

\* (mutant) a reconnection is always taken for a restart
Reconcile_Always ==
  /\ conn = "up" /\ recon
  /\ recon' = FALSE
  /\ LET dead == {d \in Deps : status[d] = "running"} IN
     /\ status' = [d \in Deps |-> IF d \in dead THEN "failed" ELSE status[d]]
     /\ cards' = [d \in Deps |-> cards[d] + (IF d \in dead THEN 1 ELSE 0)]
     /\ cursor' = [d \in Deps |-> IF d \in dead THEN -1 ELSE cursor[d]]
     /\ sidecar' = [d \in Deps |-> IF d \in dead THEN -1 ELSE sidecar[d]]
     /\ down' = down \cup {d \in Deps : status[d] = "queued"}
  /\ UNCHANGED <<file, askVars, nonce, rebooted, conn, queue, step, orphans, runnerVars,
                 bufferVars, flush, acked, left>>

\* (mutant) queued rows are left to the request that opened them
Reconcile_RunningOnly ==
  /\ conn = "up" /\ recon
  /\ recon' = FALSE
  /\ LET dead == {d \in Deps : rebooted /\ status[d] = "running"} IN
     /\ status' = [d \in Deps |-> IF d \in dead THEN "failed" ELSE status[d]]
     /\ cards' = [d \in Deps |-> cards[d] + (IF d \in dead THEN 1 ELSE 0)]
     /\ cursor' = [d \in Deps |-> IF d \in dead THEN -1 ELSE cursor[d]]
     /\ sidecar' = [d \in Deps |-> IF d \in dead THEN -1 ELSE sidecar[d]]
  /\ UNCHANGED <<file, askVars, nonce, rebooted, conn, down, queue, step, orphans,
                 runnerVars, bufferVars, flush, acked, left>>

\* _reconcile_deployments: after a restart of the daemon, running rows fail
\* closed and queued ones are sent again; nothing after a mere reconnection.
Reconcile ==
  /\ conn = "up" /\ recon
  /\ recon' = FALSE
  /\ LET dead == {d \in Deps : rebooted /\ status[d] = "running"} IN
     /\ status' = [d \in Deps |-> IF d \in dead THEN "failed" ELSE status[d]]
     /\ cards' = [d \in Deps |-> cards[d] + (IF d \in dead THEN 1 ELSE 0)]
     /\ cursor' = [d \in Deps |-> IF d \in dead THEN -1 ELSE cursor[d]]
     /\ sidecar' = [d \in Deps |-> IF d \in dead THEN -1 ELSE sidecar[d]]
     /\ down' = down \cup {d \in Deps : rebooted /\ status[d] = "queued"}
  /\ UNCHANGED <<file, askVars, nonce, rebooted, conn, queue, step, orphans, runnerVars,
                 bufferVars, flush, acked, left>>

\* Instructions on the wire and the reconciliation of the connection go with it.
LinkLost ==
  /\ conn' = "down" /\ down' = {} /\ recon' = FALSE
  /\ flush' = "off" /\ acked' = FALSE

Disconnect ==
  /\ conn = "up"
  /\ Spend("cut")
  /\ LinkLost
  /\ queue' = Stale(queue)
  /\ UNCHANGED <<rowVars, logVars, askVars, nonce, rebooted, step, orphans, runnerVars,
                 bufferVars>>

\* (mutant) the buffers are in memory
DaemonCrash_InMemory ==
  /\ Spend("crash")
  /\ LinkLost
  /\ queue' = Stale(queue)
  /\ boot' = boot + 1
  /\ running' = {} /\ known' = {} /\ chunk' = [d \in Deps |-> 0]
  /\ logs' = <<>> /\ fins' = <<>> /\ UNCHANGED flushEvent
  /\ UNCHANGED <<rowVars, logVars, askVars, nonce, rebooted, step, orphans, runs, ended>>

\* The daemon dies with its commands and comes back: the buffers are files.
DaemonCrash ==
  /\ Spend("crash")
  /\ LinkLost
  /\ queue' = Stale(queue)
  /\ boot' = boot + 1
  /\ running' = {} /\ known' = {} /\ chunk' = [d \in Deps |-> 0]
  /\ UNCHANGED <<rowVars, logVars, askVars, nonce, rebooted, step, orphans, runs, ended,
                 bufferVars>>

\* The server dies: what is in the database and in files survives.
ServerRestart ==
  /\ Spend("restart")
  /\ LinkLost
  /\ queue' = <<>> /\ step' = "tx" /\ orphans' = {}
  /\ todo' = {} /\ nonce' = 0 /\ rebooted' = FALSE
  /\ cursor' = [d \in Deps |-> -1]
  /\ UNCHANGED <<rowVars, sidecar, file, early, runnerVars, bufferVars>>

Next ==
  \/ \E d \in Deps : Create(d) \/ Dispatch(d) \/ DeployRun(d) \/ EmitLog(d)
  \/ \E d \in Deps, ok \in BOOLEAN : EndRun(d, ok)
  \/ OtherReport
  \/ FlushWake
  \/ FlushLogs
  \/ FlushFinished
  \/ FlushRest
  \/ AckLog
  \/ AckFinished
  \/ AckTimeout
  \/ WriterStep
  \/ \E t \in orphans : OrphanStep(t) \/ OrphanFails(t)
  \/ WriteFails
  \/ Connect
  \/ Reconcile
  \/ Disconnect
  \/ DaemonCrash
  \/ ServerRestart

\* Event loops, the reconnect loop, the writer and the deploy command go on (a
\* command that hangs is killed after 1800 s); faults and requests need not come.
Fairness ==
  /\ \A d \in Deps : WF_vars(Dispatch(d)) /\ WF_vars(DeployRun(d))
  /\ \A d \in Deps : WF_vars(\E ok \in BOOLEAN : EndRun(d, ok))
  /\ WF_vars(FlushWake) /\ WF_vars(FlushLogs)
  /\ WF_vars(FlushFinished) /\ WF_vars(FlushRest)
  /\ WF_vars(AckLog) /\ WF_vars(AckFinished)
  /\ WF_vars(WriterStep) /\ WF_vars(Connect) /\ WF_vars(Reconcile)

Spec == Init /\ [][Next]_vars
FairSpec == Spec /\ Fairness

-----------------------------------------------------------------------------
(* Properties *)

Board == INSTANCE DeployBoard

RowTypes ==
  /\ status \in [Deps -> {"none", "queued", "running", "success", "failed"}]
  /\ cards \in [Deps -> Nat] /\ todo \subseteq Deps /\ early \subseteq Deps

LogTypes ==
  /\ cursor \in [Deps -> Chunks \cup {-1}] /\ sidecar \in [Deps -> Chunks \cup {-1}]
  /\ file \in [Deps -> Seq(LogRows)]

LinkTypes ==
  /\ conn \in {"down", "up"} /\ down \subseteq Deps /\ queue \in Seq(Frames)
  /\ step \in {"tx", "append", "settle"} /\ orphans \subseteq Threads
  /\ nonce \in Nat /\ rebooted \in BOOLEAN /\ recon \in BOOLEAN

RunnerTypes ==
  /\ boot \in Nat /\ running \subseteq Deps /\ known \subseteq FinRows
  /\ chunk \in [Deps -> 0..MaxChunks]
  /\ runs \in [Deps -> Nat] /\ ended \in [Deps -> SUBSET BOOLEAN]

BufferTypes ==
  /\ logs \in Seq(LogRows) /\ fins \in Seq(FinRows)
  /\ flush \in {"off", "idle", "log", "logAck", "fin", "finAck"}
  /\ flushEvent \in BOOLEAN /\ acked \in BOOLEAN

\* Buffered rows have distinct keys, and the awaited one is still there.
BufferKeys ==
  /\ \A i, j \in DOMAIN logs : logs[i].dep = logs[j].dep /\ logs[i].seq = logs[j].seq => i = j
  /\ \A i, j \in DOMAIN fins : fins[i].dep = fins[j].dep => i = j
  /\ flush = "logAck" => logs # <<>>
  /\ flush = "finAck" => fins # <<>>

\* Only a log chunk takes a thread past its transaction.
ThreadShape ==
  /\ \A t \in orphans : t.step # "tx" => t.frame.kind = "log"
  /\ step # "tx" => queue # <<>> /\ Head(queue).kind = "log"

TypeOK ==
  /\ RowTypes /\ LogTypes /\ LinkTypes /\ RunnerTypes /\ BufferTypes
  /\ left \in [Faults -> Nat]

\* Every variable keeps its type, chunks and cursors stay within what a run can
\* print, the buffers hold one row per key, and threads are where they can be.
TypeInv == TypeOK /\ BufferKeys /\ ThreadShape

\* Logs, retransmitted verdicts, late threads and reconciliation only ever move
\* the board along: one card per verdict, one active row, no verdict undone.
BoardSpec == Board!Spec

\* The verdict of a run that ended is on the board, or some verdict is, or it is
\* still in the daemon's buffer: no ack, timeout, crash or restart loses it.
VerdictKept ==
  \A d \in Deps :
    ended[d] # {} => \/ status[d] \notin Active
                     \/ \E i \in DOMAIN fins : fins[i].dep = d

\* A row says success only if a run succeeded, and failed only if a run failed, a
\* process died, or the row was opened while a restart was being reconciled: a
\* reconnection by itself never settles a row (rule #10).
VerdictIsReal ==
  \A d \in Deps :
    /\ status[d] = "success" => TRUE \in ended[d]
    /\ status[d] = "failed" /\ d \notin early =>
         FALSE \in ended[d] \/ left["crash"] # Budget["crash"]
                            \/ left["restart"] # Budget["restart"]

\* Without a daemon crash a deployment's command is started at most once,
\* whatever the server restarts, reconnects and redispatches.
RunsOnce ==
  left["crash"] = Budget["crash"] => \A d \in Deps : runs[d] <= 1

Quiet == left["crash"] = Budget["crash"] /\ left["disk"] = Budget["disk"]

Buffered(d, n) == \E i \in DOMAIN logs : logs[i].dep = d /\ logs[i].seq = n
Before(d, i)   == {file[d][j].seq : j \in 1..(i - 1)}

\* Without a daemon crash or a failed append the log is whole: every chunk
\* printed is buffered on the daemon or in the server's file, and the file never
\* skips one, though retransmission may repeat some.
LogWhole ==
  Quiet => \A d \in Deps :
    /\ \A n \in 0..(chunk[d] - 1) : Buffered(d, n) \/ n \in Before(d, Len(file[d]) + 1)
    /\ \A i \in DOMAIN file[d] : 0..(file[d][i].seq - 1) \subseteq Before(d, i)

\* A deployment that was requested is settled in the end, through a daemon crash
\* and a server restart, unless a mere disconnection hit it.
EveryDeploymentEnds ==
  \A d \in Deps :
    (status[d] \in Active) ~> (status[d] \notin Active \/ left["cut"] # Budget["cut"])
=============================================================================
