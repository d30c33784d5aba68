------------------------------ MODULE Preview -------------------------------
(***************************************************************************)
(* Preview sessions: a row in the server's database and a dev server       *)
(* process in the daemon (preview.ts), kept together by frames that a      *)
(* broken connection loses on both ways and nobody resends.  The only      *)
(* repair is the reconciliation after a hello, which compares the rows     *)
(* with the daemon's table as the hello named it.  A process that outlives *)
(* its daemon is in no table and beyond its reach.                         *)
(*                                                                         *)
(* The daemon handles one instruction at a time; beside its handler each   *)
(* session has a monitor.  The dev server and its port are external.       *)
(***************************************************************************)
EXTENDS Naturals, Sequences, FiniteSets

CONSTANTS Sessions, \* bound: preview sessions ever opened, 1 .. Sessions
          Ports,    \* ports the daemon may find free
          TaskOf,   \* the task of each session
          Faults,   \* bound: connections lost, restarts, daemon crashes, failed writes
          Recycles  \* bound: stops that users and scans ask for

Ids == 1 .. Sessions

ASSUME PreviewAssumption ==
  /\ Sessions \in Nat /\ Faults \in Nat /\ Recycles \in Nat
  /\ 0 \notin Ports /\ DOMAIN TaskOf = Ids

VARIABLES
  \* the server: rows, calls to dispatch, reconciliation and its hello, and
  \* (history) the sessions of which a report that would have changed the row
  \* was dropped since that hello
  row, jobs, recon, hello, dropped,
  \* the connection and the frames on it
  conn, down, up,
  \* the daemon: its table, its handler and a monitor per session
  entry, port, halting, monitor, assigned, handler,
  \* the exits of dev servers (external) that a monitor is still to notice
  exited,
  left

server == <<row, jobs, recon, hello, dropped>>
net    == <<conn, down, up>>
table  == <<entry, port, halting, monitor, assigned>>
vars   == <<server, net, table, handler, exited, left>>

Statuses == {"absent", "starting", "running", "failed", "recycled"}
Active   == {"starting", "running"}
Calls    == [kind : {"start", "stop"}, id : Ids]
Reports  == [id : Ids, status : {"running", "failed", "recycled"}]
Idle     == [step |-> "idle", id |-> 0, port |-> 0]

TypeInv ==
  /\ row \in [Ids -> Statuses] /\ jobs \in SUBSET Calls
  /\ recon \in {"none", "replay", "close", "failed"} /\ hello \in [Ids -> Statuses]
  /\ dropped \in SUBSET Ids
  /\ conn \in {"up", "down"}
  /\ down \in Seq(Calls) /\ up \in Seq(Reports)
  /\ entry \in [Ids -> Statuses] /\ port \in [Ids -> Ports \union {0}]
  /\ halting \in [Ids -> BOOLEAN]
  /\ monitor \in [Ids -> {"none", "waiting", "serving", "killing", "failing", "done"}]
  /\ assigned \in SUBSET Ports
  /\ handler \in [step : {"idle", "spawn", "kill"}, id : Ids \union {0},
                  port : Ports \union {0}]
  /\ exited \in [Ids -> BOOLEAN]
  /\ left \in [faults : 0 .. Faults, recycles : 0 .. Recycles]

Nothing == [s \in Ids |-> "absent"]

Init ==
  /\ row = Nothing /\ jobs = {} /\ recon = "none" /\ hello = Nothing /\ dropped = {}
  /\ conn = "down" /\ down = <<>> /\ up = <<>>
  /\ entry = Nothing /\ port = [s \in Ids |-> 0]
  /\ halting = [s \in Ids |-> FALSE] /\ monitor = [s \in Ids |-> "none"]
  /\ assigned = {} /\ handler = Idle
  /\ exited = [s \in Ids |-> FALSE]
  /\ left = [faults |-> Faults, recycles |-> Recycles]

-----------------------------------------------------------------------------
\* POST /preview: refused while the daemon is offline, a mere touch while the
\* task has an active row; the start is dispatched after the commit.
Open(s) ==
  /\ row[s] = "absent" /\ \A r \in Ids : r < s => row[r] # "absent"
  /\ conn = "up"
  /\ \A r \in Ids : TaskOf[r] = TaskOf[s] => row[r] \notin Active
  /\ row' = [row EXCEPT ![s] = "starting"]
  /\ jobs' = jobs \union {[kind |-> "start", id |-> s]}
  /\ UNCHANGED <<recon, hello, dropped, net, table, handler, exited, left>>

\* DELETE /preview, the idle scan, the end of the task and its cleanup: a stop
\* for an active row, which itself stays as it is.
Recycle(s) ==
  /\ row[s] \in Active /\ left.recycles > 0
  /\ left' = [left EXCEPT !.recycles = @ - 1]
  /\ jobs' = jobs \union {[kind |-> "stop", id |-> s]}
  /\ UNCHANGED <<row, recon, hello, dropped, net, table, handler, exited>>

\* The calls of one task are sent one at a time, each after the answer to the
\* last; without a connection a call is dropped.
InFlight(t) == \/ \E i \in DOMAIN down : TaskOf[down[i].id] = t
               \/ handler.id # 0 /\ TaskOf[handler.id] = t

Dispatch(j) ==
  /\ j \in jobs
  /\ ~InFlight(TaskOf[j.id])
  /\ jobs' = jobs \ {j}
  /\ down' = IF conn = "up" THEN Append(down, j) ELSE down
  /\ UNCHANGED <<row, recon, hello, dropped, conn, up, table, handler, exited, left>>

\* The conditional updates of preview.status.
Advanced(old, new) ==
  IF \/ new = "running" /\ old = "starting"
     \/ new \in {"failed", "recycled"} /\ old \in Active
  THEN new ELSE old

ReadReport ==
  /\ up # <<>>
  /\ row' = [row EXCEPT ![Head(up).id] = Advanced(@, Head(up).status)]
  /\ up' = Tail(up)
  /\ UNCHANGED <<jobs, recon, hello, dropped, conn, down, table, handler, exited, left>>

\* A report whose transaction fails is logged and dropped.
DropReport ==
  /\ up # <<>> /\ left.faults > 0
  /\ dropped' = IF Advanced(row[Head(up).id], Head(up).status) = row[Head(up).id]
                THEN dropped ELSE dropped \union {Head(up).id}
  /\ up' = Tail(up)
  /\ left' = [left EXCEPT !.faults = @ - 1]
  /\ UNCHANGED <<row, jobs, recon, hello, conn, down, table, handler, exited>>

\* The periodic branch: a row that is starting for too long has failed.
StartingTimeout(s) ==
  /\ conn = "up" /\ row[s] = "starting"
  /\ row' = [row EXCEPT ![s] = "failed"]
  /\ UNCHANGED <<jobs, recon, hello, dropped, net, table, handler, exited, left>>

\* Reconciliation: the table of the hello is replayed as reports.
Replay ==
  /\ recon = "replay" /\ recon' = "close"
  /\ row' = [s \in Ids |-> Advanced(row[s], hello[s])]
  /\ UNCHANGED <<jobs, hello, dropped, net, table, handler, exited, left>>

\* An error anywhere in the reconciliation ends its task; nothing repeats it
\* before the next hello.
Abort ==
  /\ recon \in {"replay", "close"} /\ left.faults > 0
  /\ recon' = "failed"
  /\ left' = [left EXCEPT !.faults = @ - 1]
  /\ UNCHANGED <<row, jobs, hello, dropped, net, table, handler, exited>>

\* (mutant) no protection against processes without a row
Close_KeepsProcesses ==
  /\ recon = "close" /\ recon' = "none"
  /\ row' = [s \in Ids |-> IF row[s] \in Active /\ hello[s] \notin Active
                           THEN "failed" ELSE row[s]]
  /\ hello' = Nothing
  /\ UNCHANGED <<jobs, dropped, net, table, handler, exited, left>>

\* (mutant) a row that the hello does not mention stays
Close_KeepsRows ==
  /\ recon = "close" /\ recon' = "none"
  /\ jobs' = jobs \union [kind : {"stop"},
                id : {s \in Ids : hello[s] \in Active /\ row[s] \notin Active}]
  /\ hello' = Nothing
  /\ UNCHANGED <<row, dropped, net, table, handler, exited, left>>

\* Then rows without a live process in the hello fail, and live processes
\* without an active row are stopped.
Close ==
  /\ recon = "close" /\ recon' = "none"
  /\ row' = [s \in Ids |-> IF row[s] \in Active /\ hello[s] \notin Active
                           THEN "failed" ELSE row[s]]
  /\ jobs' = jobs \union [kind : {"stop"},
                id : {s \in Ids : hello[s] \in Active /\ row[s] \notin Active}]
  /\ hello' = Nothing
  /\ UNCHANGED <<dropped, net, table, handler, exited, left>>

-----------------------------------------------------------------------------
Connect ==
  /\ conn = "down" /\ conn' = "up"
  /\ hello' = entry /\ recon' = "replay" /\ dropped' = {}
  /\ UNCHANGED <<row, jobs, down, up, table, handler, exited, left>>

\* The connection breaks; with it goes what is on it, the reconciliation and,
\* when the server restarts, the calls not yet dispatched.
Disconnected == /\ conn' = "down" /\ down' = <<>> /\ up' = <<>>
                /\ recon' = "none" /\ hello' = Nothing

Cut ==
  /\ conn = "up" /\ left.faults > 0
  /\ Disconnected
  /\ left' = [left EXCEPT !.faults = @ - 1]
  /\ jobs' \in {jobs, {}}
  /\ UNCHANGED <<row, dropped, table, handler, exited>>

\* The daemon dies with its table.  Its dev servers die with it or live on as
\* orphans, on ports that no registry names: nothing below reaches them.
Crash ==
  /\ left.faults > 0
  /\ Disconnected
  /\ left' = [left EXCEPT !.faults = @ - 1]
  /\ entry' = Nothing /\ port' = [s \in Ids |-> 0]
  /\ halting' = [s \in Ids |-> FALSE] /\ monitor' = [s \in Ids |-> "none"]
  /\ assigned' = {} /\ handler' = Idle
  /\ exited' = [s \in Ids |-> FALSE]
  /\ UNCHANGED <<row, jobs, dropped>>

-----------------------------------------------------------------------------
\* reportBestEffort
Report(s, status) ==
  up' = IF conn = "up" THEN Append(up, [id |-> s, status |-> status]) ELSE up

Takes(kind, s) ==
  /\ handler = Idle /\ down # <<>> /\ Head(down) = [kind |-> kind, id |-> s]
  /\ down' = Tail(down)

\* preview.start (a session is started once; a frame that is sent again is
\* answered without the handler).
Start(s) ==
  /\ Takes("start", s)
  /\ \E p \in Ports \ assigned :
       /\ assigned' = assigned \union {p}
       /\ handler' = [step |-> "spawn", id |-> s, port |-> p]
  /\ UNCHANGED <<server, conn, up, entry, port, halting, monitor, exited, left>>

Spawned(s) ==
  /\ handler.step = "spawn" /\ handler.id = s
  /\ entry' = [entry EXCEPT ![s] = "starting"]
  /\ port' = [port EXCEPT ![s] = handler.port]
  /\ monitor' = [monitor EXCEPT ![s] = "waiting"]
  /\ handler' = Idle
  /\ UNCHANGED <<server, net, halting, assigned, exited, left>>

NotSpawned(s) ==
  /\ handler.step = "spawn" /\ handler.id = s
  /\ assigned' = assigned \ {handler.port}
  /\ entry' = [entry EXCEPT ![s] = "failed"]
  /\ Report(s, "failed")
  /\ handler' = Idle
  /\ UNCHANGED <<server, conn, down, port, halting, monitor, exited, left>>

\* preview.stop: a noop for an unknown or settled session.
StopNothing(s) ==
  /\ Takes("stop", s) /\ entry[s] \notin Active
  /\ UNCHANGED <<server, conn, up, table, handler, exited, left>>

\* (mutant) a settled session is stopped once more
Stop_Settled(s) ==
  /\ Takes("stop", s) /\ entry[s] # "absent"
  /\ halting' = [halting EXCEPT ![s] = TRUE]
  /\ handler' = [step |-> "kill", id |-> s, port |-> 0]
  /\ UNCHANGED <<server, conn, up, entry, port, monitor, assigned, exited, left>>

Stop(s) ==
  /\ Takes("stop", s) /\ entry[s] \in Active
  /\ halting' = [halting EXCEPT ![s] = TRUE]
  /\ handler' = [step |-> "kill", id |-> s, port |-> 0]
  /\ UNCHANGED <<server, conn, up, entry, port, monitor, assigned, exited, left>>

\* The process is told to die and the monitor has ended, or 5 s have passed.
\* Whether it dies, before this, later or never, is up to Exit: a kill is
\* waited for 3 s at most and nobody asks whether it has worked.
Stopped(s) ==
  /\ handler.step = "kill" /\ handler.id = s
  /\ assigned' = assigned \ {port[s]}
  /\ entry' = [entry EXCEPT ![s] = "recycled"]
  /\ Report(s, "recycled")
  /\ handler' = Idle
  /\ UNCHANGED <<server, conn, down, port, halting, monitor, exited, left>>

-----------------------------------------------------------------------------
\* The monitor.  It looks at the stopping flag after each wait and leaves the
\* session to stop() when that is set.
Monitor(s, step) == monitor' = [monitor EXCEPT ![s] = step]

Leaves(s) ==
  /\ halting[s]
  /\ \/ monitor[s] \in {"waiting", "killing"}
     \/ monitor[s] = "serving" /\ exited[s]
  /\ Monitor(s, "done")
  /\ exited' = [exited EXCEPT ![s] = FALSE]
  /\ UNCHANGED <<server, net, entry, port, halting, assigned, handler, left>>

Reached(s) ==
  /\ monitor[s] = "waiting" /\ ~exited[s] /\ ~halting[s]
  /\ entry' = [entry EXCEPT ![s] = "running"]
  /\ Report(s, "running")
  /\ Monitor(s, "serving")
  /\ UNCHANGED <<server, conn, down, port, halting, assigned, handler, exited, left>>

\* The process died first, or 120 s have passed: it is told to die.
Unreached(s) ==
  /\ monitor[s] = "waiting" /\ ~halting[s]
  /\ Monitor(s, "killing")
  /\ UNCHANGED <<server, net, entry, port, halting, assigned, handler, exited, left>>

Fails(s) ==
  /\ monitor[s] = "killing" \/ (monitor[s] = "serving" /\ exited[s])
  /\ ~halting[s]
  /\ entry' = [entry EXCEPT ![s] = "failed"]
  /\ Monitor(s, "failing")
  /\ exited' = [exited EXCEPT ![s] = FALSE]
  /\ UNCHANGED <<server, net, port, halting, assigned, handler, left>>

\* After the rest of the output: the report, then the port.
FailReported(s) ==
  /\ monitor[s] = "failing"
  /\ Report(s, "failed")
  /\ assigned' = assigned \ {port[s]}
  /\ Monitor(s, "done")
  /\ UNCHANGED <<server, conn, down, entry, port, halting, handler, exited, left>>

\* The dev server exits, by itself or killed, while its monitor may look.
Exit(s) ==
  /\ monitor[s] \in {"waiting", "serving"} /\ ~exited[s]
  /\ exited' = [exited EXCEPT ![s] = TRUE]
  /\ UNCHANGED <<server, net, table, handler, left>>

-----------------------------------------------------------------------------
Handles(s) == \/ Start(s) \/ Spawned(s) \/ NotSpawned(s)
              \/ StopNothing(s) \/ Stop(s) \/ Stopped(s)
Monitors(s) == \/ Leaves(s) \/ Reached(s) \/ Unreached(s) \/ Fails(s)
               \/ FailReported(s)

Next ==
  \/ ReadReport \/ DropReport \/ Replay \/ Abort \/ Close \/ Connect \/ Cut \/ Crash
  \/ \E j \in jobs : Dispatch(j)
  \/ \E s \in Ids : \/ Open(s) \/ Recycle(s) \/ StartingTimeout(s)
                    \/ Handles(s) \/ Monitors(s) \/ Exit(s)

\* The tasks of both sides run on, the daemon reconnects, and the periodic
\* scan comes round.
Fairness ==
  /\ WF_vars(ReadReport) /\ WF_vars(Connect \/ Replay \/ Close)
  /\ WF_vars(\E j \in jobs : Dispatch(j))
  /\ WF_vars(\E s \in Ids : StartingTimeout(s))
  /\ WF_vars(\E s \in Ids : Handles(s))
  /\ WF_vars(\E s \in Ids : Monitors(s))

Spec == Init /\ [][Next]_vars /\ Fairness

-----------------------------------------------------------------------------
Live(s) == entry[s] \in Active

\* The port registry is exact, however stops, failures and monitors cross:
\* two sessions that may still serve or have yet to release never name the
\* same port, and the registered ports are those of such sessions and the one
\* of a start under way, no more and no fewer (releasing twice would free the
\* port of another session).  It speaks of the daemon's table: a process that
\* outlived its kill or its daemon keeps a port that is registered nowhere.
PortsHeld ==
  LET holders == {s \in Ids : Live(s) \/ monitor[s] = "failing"}
  IN  /\ \A s, r \in holders : s # r => port[s] # port[r]
      /\ \A s \in holders : port[s] # handler.port
      /\ assigned = {port[s] : s \in holders} \union ({handler.port} \ {0})

\* Whatever frames were lost: when the faults are over, no row goes on
\* promising a preview that the daemon does not have in its table, unless the
\* write of a report failed since the last hello and the row says running, or
\* the reconciliation of that hello failed.  (The converse does not hold: the
\* starting timeout fails a row whose process serves on.)
RowsSettle ==
  <>[](recon = "failed" \/ \A s \in Ids :
         row[s] \in Active => Live(s) \/ (row[s] = "running" /\ s \in dropped))

\* A session of the daemon's table that is left without an active row when the
\* connection is down is gone from it after the next reconciliation, unless
\* that fails.  It says nothing of a process the table no longer has.
LeakEnds ==
  \A s \in Ids : (conn = "down" /\ Live(s) /\ row[s] \notin Active)
                   ~> (~Live(s) \/ recon = "failed")

=============================================================================
