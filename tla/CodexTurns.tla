----------------------------- MODULE CodexTurns -----------------------------
(***************************************************************************)
(* The turn queue of one codex agent (codex.ts).  The manager's handler    *)
(* feeds turns; the process object keeps them in a queue and starts the    *)
(* next one when the app-server has ended the last; a handshake that opens *)
(* the thread runs beside it.  All three share the fields of one process   *)
(* object, which is used again for the next app-server process after a     *)
(* crash or a restart.                                                     *)
(*                                                                         *)
(* The app-server is external: it answers the handshake, may report the    *)
(* usage of a turn and ends it, completed or with an error, in any order.  *)
(* A thread and the process that opened it have the same number.           *)
(***************************************************************************)
EXTENDS Naturals, Sequences, FiniteSets

CONSTANTS Turns,     \* bound: turns fed
          Processes, \* bound: app-server processes spawned
          Channels,  \* channels that turns belong to
          None,      \* of Channels: the turn of an injected note
          ChannelOf  \* the channel of each turn

ASSUME CodexAssumption ==
  /\ Turns \in Nat /\ Processes \in Nat /\ None \in Channels
  /\ ChannelOf \in [1 .. Turns -> Channels]

VARIABLES
  \* the process object
  proc, thread, queue, inFlight, channel, usage, pending,
  \* its tasks: the handler feeding a turn or stopping, and for each process
  \* the reader and the handshake
  feeding, phase, reader, handshake,
  \* the app-servers: alive, the turns they work on, their unread output
  life, running, out,
  \* history: the process each turn was fed to, the turns started since the
  \* last spawn and ever, the turns with a usage report and with a completion
  \* read, the usage events, and whether a process was spawned early
  fed, started, sent, measured, completed, billed, early

object  == <<proc, thread, queue, inFlight, channel, usage, pending>>
tasks   == <<feeding, phase, reader, handshake>>
server  == <<life, running, out>>
history == <<fed, started, sent, measured, completed, billed, early>>
vars    == <<object, tasks, server, history>>

TurnIds == 1 .. Turns
Pids    == 1 .. Processes
Queued  == [turn : TurnIds, channel : Channels]
Frames  == [kind : {"ready", "usage", "completed", "error"},
            turn : {0} \union TurnIds]

TypeInv ==
  /\ proc \in {0} \union Pids /\ thread \in {0} \union Pids
  /\ queue \in Seq(Queued) /\ inFlight \in BOOLEAN
  /\ channel \in Channels /\ usage \in {0} \union TurnIds
  /\ pending \in SUBSET Pids
  /\ feeding \in {0} \union TurnIds /\ phase \in {"serving", "stopping", "stopped"}
  /\ reader \in [Pids -> {"none", "reading", "releasing", "gone"}]
  /\ handshake \in [Pids -> {"none", "asked", "answered", "rejected", "done"}]
  /\ life \in [Pids -> {"unborn", "running", "exited"}]
  /\ running \in [Pids -> SUBSET TurnIds]
  /\ out \in [Pids -> Seq(Frames)]
  /\ fed \in [TurnIds -> {0} \union Pids]
  /\ started \in Seq(TurnIds)
  /\ sent \in SUBSET TurnIds /\ measured \in SUBSET TurnIds
  /\ completed \in SUBSET TurnIds
  /\ billed \in Seq(Queued) /\ early \in BOOLEAN

Init ==
  /\ proc = 0 /\ thread = 0 /\ queue = <<>> /\ inFlight = FALSE
  /\ channel = None /\ usage = 0 /\ pending = {}
  /\ feeding = 0 /\ phase = "stopped"
  /\ reader = [p \in Pids |-> "none"] /\ handshake = [p \in Pids |-> "none"]
  /\ life = [p \in Pids |-> "unborn"] /\ running = [p \in Pids |-> {}]
  /\ out = [p \in Pids |-> <<>>]
  /\ fed = [t \in TurnIds |-> 0] /\ started = <<>> /\ sent = {}
  /\ measured = {} /\ completed = {} /\ billed = <<>> /\ early = FALSE

-----------------------------------------------------------------------------
\* start(): the state of the last run is reset and a process is spawned.  A
\* launch of the supervision comes after the reader of the last process has
\* ended; an agent.start may come as soon as the process is gone.
Spawn ==
  /\ feeding = 0 /\ phase # "stopping" /\ proc < Processes
  /\ proc # 0 => life[proc] = "exited"
  /\ proc' = proc + 1
  /\ thread' = 0 /\ queue' = <<>> /\ inFlight' = FALSE /\ usage' = 0
  /\ pending' = {proc + 1}
  /\ reader' = [reader EXCEPT ![proc + 1] = "reading"]
  /\ handshake' = [handshake EXCEPT ![proc + 1] = "asked"]
  /\ life' = [life EXCEPT ![proc + 1] = "running"]
  /\ phase' = "serving"
  /\ started' = <<>>
  /\ early' = \/ early
              \/ proc # 0 /\ (reader[proc] # "gone" \/ handshake[proc] # "done")
  /\ UNCHANGED <<channel, feeding, running, out, fed, sent, measured,
                 completed, billed>>

\* (mutant) a turn in flight does not hold the next one back
SubmitNext_Eager(q, th, busy) ==
  IF th = 0 \/ q = <<>>
  THEN /\ queue' = q /\ inFlight' = busy
       /\ UNCHANGED <<channel, running, started, sent>>
  ELSE /\ queue' = Tail(q) /\ inFlight' = TRUE
       /\ channel' = Head(q).channel
       /\ running' = [running EXCEPT ![proc] = @ \union {Head(q).turn}]
       /\ started' = Append(started, Head(q).turn)
       /\ sent' = sent \union {Head(q).turn}

\* maybeSubmitNextTurn, with the queue, the thread and the flag as its caller
\* has left them.
SubmitNext(q, th, busy) ==
  IF th = 0 \/ busy \/ q = <<>>
  THEN /\ queue' = q /\ inFlight' = busy
       /\ UNCHANGED <<channel, running, started, sent>>
  ELSE /\ queue' = Tail(q) /\ inFlight' = TRUE
       /\ channel' = Head(q).channel
       /\ running' = IF life[proc] = "running"
                     THEN [running EXCEPT ![proc] = @ \union {Head(q).turn}]
                     ELSE running
       /\ started' = Append(started, Head(q).turn)
       /\ sent' = sent \union {Head(q).turn}

\* beginTurn, when a turn is submitted.
UsageAfter(q, th, busy, u) == IF th = 0 \/ busy \/ q = <<>> THEN u ELSE 0

\* The manager's deliver and inject: the context of the turn is set, the
\* status is reported, and only then is the turn fed.
Deliver ==
  /\ proc # 0 /\ feeding = 0 /\ phase = "serving"
  /\ \E t \in TurnIds :
       /\ fed[t] = 0 /\ \A s \in TurnIds : s < t => fed[s] # 0
       /\ feeding' = t
       /\ channel' = ChannelOf[t]
  /\ UNCHANGED <<proc, thread, queue, inFlight, usage, pending, phase,
                 reader, handshake, server, history>>

\* (mutant) the new turn goes to the head of the queue
Feed_First ==
  /\ feeding # 0
  /\ SubmitNext(<<[turn |-> feeding, channel |-> channel]>> \o queue,
                thread, inFlight)
  /\ usage' = UsageAfter(Append(queue, 0), thread, inFlight, usage)
  /\ fed' = [fed EXCEPT ![feeding] = proc]
  /\ feeding' = 0
  /\ UNCHANGED <<proc, thread, pending, phase, reader, handshake, life, out,
                 measured, completed, billed, early>>

Feed ==
  /\ feeding # 0
  /\ SubmitNext(Append(queue, [turn |-> feeding, channel |-> channel]),
                thread, inFlight)
  /\ usage' = UsageAfter(Append(queue, 0), thread, inFlight, usage)
  /\ fed' = [fed EXCEPT ![feeding] = proc]
  /\ feeding' = 0
  /\ UNCHANGED <<proc, thread, pending, phase, reader, handshake, life, out,
                 measured, completed, billed, early>>

\* stop(), of agent.stop and of the restarts: the process is killed, the
\* tasks are told to leave and waited for.
Stop ==
  /\ proc # 0 /\ feeding = 0 /\ phase = "serving"
  /\ phase' = "stopping"
  /\ life' = [life EXCEPT ![proc] = "exited"]
  /\ handshake' = [handshake EXCEPT ![proc] = IF @ = "answered" THEN @ ELSE "done"]
  /\ UNCHANGED <<object, feeding, reader, running, out, history>>

ReaderStops ==
  /\ phase = "stopping" /\ reader[proc] = "reading"
  /\ reader' = [reader EXCEPT ![proc] = "gone"]
  /\ UNCHANGED <<object, feeding, phase, handshake, server, history>>

Stopped ==
  /\ phase = "stopping" /\ reader[proc] = "gone"
  /\ handshake[proc] = "done"
  /\ phase' = "stopped" /\ pending' = {}
  /\ UNCHANGED <<proc, thread, queue, inFlight, channel, usage, feeding, reader,
                 handshake, server, history>>

-----------------------------------------------------------------------------
\* The app-server (external).
Emit(p, kind, t) == out' = [out EXCEPT ![p] = Append(@, [kind |-> kind, turn |-> t])]

Ready(p) ==
  /\ life[p] = "running" /\ handshake[p] = "asked"
  /\ \A i \in DOMAIN out[p] : out[p][i].kind # "ready"
  /\ Emit(p, "ready", 0)
  /\ UNCHANGED <<object, tasks, life, running, history>>

Measure(p, t) ==
  /\ life[p] = "running" /\ t \in running[p] /\ t \notin measured
  /\ Emit(p, "usage", t)
  /\ measured' = measured \union {t}
  /\ UNCHANGED <<object, tasks, life, running, fed, started, sent, completed,
                 billed, early>>

End(p, t, kind) ==
  /\ life[p] = "running" /\ t \in running[p]
  /\ Emit(p, kind, t)
  /\ running' = [running EXCEPT ![p] = @ \ {t}]
  /\ UNCHANGED <<object, tasks, life, history>>

Crash(p) ==
  /\ life[p] = "running"
  /\ life' = [life EXCEPT ![p] = "exited"]
  /\ UNCHANGED <<object, tasks, running, out, history>>

-----------------------------------------------------------------------------
\* The read loop of process p takes a frame.
Read(p, kind) ==
  /\ reader[p] = "reading" /\ out[p] # <<>>
  /\ Head(out[p]).kind = kind
  /\ out' = [out EXCEPT ![p] = Tail(@)]

\* A response settles a request of the object, whichever process asked it:
\* request numbers start over with every process.
ReadReady(p) ==
  /\ Read(p, "ready")
  /\ handshake' = [q \in Pids |-> IF q \in pending THEN "answered" ELSE handshake[q]]
  /\ pending' = {}
  /\ UNCHANGED <<proc, thread, queue, inFlight, channel, usage, feeding,
                 phase, reader, life, running, history>>

\* (mutant) every update is charged, and the last one again at the end
ReadUsage_Charges(p) ==
  /\ Read(p, "usage")
  /\ usage' = Head(out[p]).turn
  /\ billed' = Append(billed, [turn |-> Head(out[p]).turn, channel |-> channel])
  /\ UNCHANGED <<proc, thread, queue, inFlight, channel, pending, tasks, life,
                 running, fed, started, sent, measured, completed, early>>

ReadUsage(p) ==
  /\ Read(p, "usage")
  /\ usage' = Head(out[p]).turn
  /\ UNCHANGED <<proc, thread, queue, inFlight, channel, pending, tasks, life,
                 running, history>>

\* onTurnCompleted up to the status report: the usage kept is charged to the
\* channel the router has at that time.
EmitUsage ==
  /\ billed' = IF usage = 0 THEN billed
               ELSE Append(billed, [turn |-> usage, channel |-> channel])
  /\ usage' = 0

ReadCompleted(p) ==
  /\ Read(p, "completed")
  /\ EmitUsage
  /\ completed' = completed \union {Head(out[p]).turn}
  /\ reader' = [reader EXCEPT ![p] = "releasing"]
  /\ UNCHANGED <<proc, thread, queue, inFlight, channel, pending, feeding,
                 phase, handshake, life, running, fed, started, sent,
                 measured, early>>

\* onError of an error that is not retried.
ReadError(p) ==
  /\ Read(p, "error")
  /\ reader' = [reader EXCEPT ![p] = "releasing"]
  /\ UNCHANGED <<object, feeding, phase, handshake, life, running, history>>

\* After the status report: releaseTurn.
Release(p) ==
  /\ reader[p] = "releasing"
  /\ reader' = [reader EXCEPT ![p] = "reading"]
  /\ SubmitNext(queue, thread, FALSE)
  /\ usage' = UsageAfter(queue, thread, FALSE, usage)
  /\ UNCHANGED <<proc, thread, pending, feeding, phase, handshake, life, out,
                 fed, measured, completed, billed, early>>

\* The end of the output: failPending rejects the requests of the object.
ReadEnd(p) ==
  /\ reader[p] = "reading" /\ out[p] = <<>> /\ life[p] = "exited" /\ phase # "stopping"
  /\ reader' = [reader EXCEPT ![p] = "gone"]
  /\ handshake' = [q \in Pids |-> IF q \in pending THEN "rejected" ELSE handshake[q]]
  /\ pending' = {}
  /\ UNCHANGED <<proc, thread, queue, inFlight, channel, usage, feeding,
                 phase, server, history>>

\* (mutant) what waited for the thread goes on waiting
Opened_NoDrain(p) ==
  /\ handshake[p] = "answered"
  /\ handshake' = [handshake EXCEPT ![p] = "done"]
  /\ thread' = p
  /\ UNCHANGED <<proc, queue, inFlight, channel, usage, pending, feeding, phase,
                 reader, server, history>>

\* The handshake has its answer: the thread is open, and what waited for it
\* is started.
Opened(p) ==
  /\ handshake[p] = "answered"
  /\ handshake' = [handshake EXCEPT ![p] = "done"]
  /\ thread' = p
  /\ SubmitNext(queue, p, inFlight)
  /\ usage' = UsageAfter(queue, p, inFlight, usage)
  /\ UNCHANGED <<proc, pending, feeding, phase, reader, life, out, fed,
                 measured, completed, billed, early>>

\* It was rejected, or got no answer in 60 s: the object's process is killed.
Aborted(p) ==
  /\ handshake[p] \in {"asked", "rejected"}
  /\ handshake' = [handshake EXCEPT ![p] = "done"]
  /\ pending' = pending \ {p}
  /\ life' = [life EXCEPT ![proc] = "exited"]
  /\ UNCHANGED <<proc, thread, queue, inFlight, channel, usage, feeding,
                 phase, reader, running, out, history>>

-----------------------------------------------------------------------------
ReadLoop(p)  == \/ ReadReady(p) \/ ReadUsage(p) \/ ReadCompleted(p)
                \/ ReadError(p) \/ ReadEnd(p) \/ Release(p)
Handshake(p) == Opened(p) \/ Aborted(p)
Works(p)     == \E t \in TurnIds, k \in {"completed", "error"} : End(p, t, k)

Next ==
  \/ Spawn \/ Deliver \/ Feed \/ Stop \/ ReaderStops \/ Stopped
  \/ \E p \in Pids : \/ Ready(p) \/ Crash(p) \/ Works(p)
                     \/ (\E t \in TurnIds : Measure(p, t))
                     \/ ReadLoop(p) \/ Handshake(p)

\* The daemon's tasks run on; the app-server answers the handshake or the
\* 60 s pass, and it ends every turn it was given.
Fairness ==
  /\ WF_vars(Feed)
  /\ \A p \in Pids : WF_vars(ReadLoop(p)) /\ WF_vars(Handshake(p)) /\ WF_vars(Works(p))

Spec == Init /\ [][Next]_vars /\ Fairness

-----------------------------------------------------------------------------
\* Turns of process p that were started and whose end was not read.
Unended(p) ==
  running[p] \union {out[p][i].turn : i \in {j \in DOMAIN out[p] :
                                     out[p][j].kind \in {"completed", "error"}}}

\* "app-server concurrency is undecided, so submit serially": whatever the
\* order of handshake, feeds and turn ends, the process has at most one turn,
\* and none when the flag says so.
OneTurn ==
  ~early /\ proc # 0 =>
    /\ Cardinality(Unended(proc)) <= 1
    /\ ~inFlight => Unended(proc) = {}

\* Turns are started in the order they were fed, and none that was fed to the
\* process is dropped or started twice, even when a process was spawned early.
FirstIn ==
  LET mine == {t \in TurnIds : fed[t] = proc}
      line == started \o [i \in DOMAIN queue |-> queue[i].turn]
  IN proc # 0 =>
       /\ {line[i] : i \in DOMAIN line} = mine
       /\ \A i, j \in DOMAIN line : i < j => line[i] < line[j]

\* A turn is charged at most once, and a turn that completed after a usage
\* report has been charged.
BilledOnce ==
  ~early =>
    /\ \A i, j \in DOMAIN billed : billed[i].turn = billed[j].turn => i = j
    /\ completed \intersect measured \subseteq {billed[i].turn : i \in DOMAIN billed}

\* A turn fed to a process is started, or the process ends.
TurnsMove ==
  \A t \in TurnIds :
    fed[t] # 0 ~> \/ t \in sent
                  \/ \E p \in Pids : fed[t] = p /\ life[p] = "exited"

=============================================================================
