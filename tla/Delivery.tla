------------------------------ MODULE Delivery ------------------------------
(***************************************************************************)
(* The delivery engine between the messages of one channel and the runtime *)
(* process of one agent: a task per new message (bus), the plan of         *)
(* reconcile() (rules #1 to #3), the per-agent lock of send_instr, the     *)
(* daemon's handlers of agent.start / stop / restart / wake and            *)
(* message.deliver, its per-channel cursor, and the read position that the *)
(* server keeps.                                                           *)
(*                                                                         *)
(* reconcile() plans in a transaction and asks for the lock later: what it *)
(* planned is kept per run in between.                                     *)
(*                                                                         *)
(* A message is its id. Ids are drawn by the requests that post them.      *)
(***************************************************************************)
EXTENDS Integers, Sequences, FiniteSets

CONSTANTS
  MaxMsg,                \* ids that may be drawn (a bound)
  Calls,                 \* messages that wake the agent (DM, mention, activation)
  Gated,                 \* messages whose worktree has no path yet
  Overlap,               \* may an id be committed after a greater one?
  MaxScans,              \* reconcile() runs at a time (a bound)
  Budget                 \* fault or request |-> how often it may happen

Events == {"cut", "crash", "server", "exit", "error", "start", "stop", "restart"}
Ids == 1..MaxMsg
Runs == 1..MaxScans

ASSUME DeliveryAssumption ==
  /\ MaxMsg \in Nat
  /\ Calls \subseteq Ids /\ Gated \subseteq Ids
  /\ Overlap \in BOOLEAN /\ MaxScans \in Nat
  /\ Budget \in [Events -> Nat]

VARIABLES
  nextId, drawn,         \* the ULID clock; ids of open transactions
  msgs,                  \* committed messages
  waits,                 \* delivery_waits_for_directory
  news,                  \* _deliver_message tasks that have not decided yet
  due,                   \* the reconcile() of the handshake has not planned yet
  plan,                  \* what each reconcile() has planned and not asked to send
  line,                  \* agent_lock: its holder and, in order, who waits for it
  sent,                  \* the holder's instruction: not sent, on the wire, taken
  pos,                   \* read_positions.last_read_message_id (0: no row)
  status,                \* agents.status
  conn,                  \* is the daemon connected?
  present,               \* conn.present of the agent ("none": absent)
  up,                    \* reports and acks, from the daemon to their handlers
  entry,                 \* AgentEntry.status ("none": not in the process table)
  alive, turns,          \* the process; inputs it has not finished
  backoff,               \* superviseRestart is asleep
  last,                  \* entry.lastDelivered (0: none)
  feeding,               \* batch whose deliver() has set the cursor, not fed yet
  fed, dropped,          \* (history) times fed; written to a dead process
  left                   \* the remaining budget

postVars   == <<nextId, drawn, msgs, waits>>
serverVars == <<news, due, plan, line, sent, present>>
rowVars    == <<pos, status>>
procVars   == <<alive, turns, backoff>>
feedVars   == <<feeding, fed, dropped>>
vars == <<postVars, serverVars, rowVars, conn, up, entry, last, procVars, feedVars, left>>

Statuses    == {"offline", "starting", "idle", "busy", "error"}
Resumable   == {"starting", "idle", "busy"}
Deliverable == {"idle", "busy"}
Acks        == {"done", "noop"}

Holders     == [kind : {"start", "stop", "restart", "wake", "deliver"},
                from : {"news", "scan", "rest"}, batch : SUBSET Ids]

Nothing     == [kind |-> "none", from |-> "scan", batch |-> {}]

Top(S) == CHOOSE m \in S : \A n \in S : n <= m

Spend(event) ==
  /\ left[event] > 0
  /\ left' = [left EXCEPT ![event] = @ - 1]

Init ==
  /\ nextId = 1 /\ drawn = {} /\ msgs = {} /\ waits = Gated
  /\ news = {} /\ due = FALSE /\ plan = [r \in Runs |-> Nothing] /\ line = <<>> /\ sent = "no"
  /\ pos = 0 /\ status = "idle"
  /\ conn = FALSE /\ present = "none" /\ up = <<>>
  /\ entry = "none" /\ alive = FALSE /\ turns = 0 /\ backoff = FALSE /\ last = 0
  /\ feeding = {} /\ fed = [m \in Ids |-> 0] /\ dropped = {} /\ left = Budget

-----------------------------------------------------------------------------
(* Messages *)

\* A request draws its id before its transaction writes. (Ids of one millisecond
\* are in random order, which is the same: a smaller one committed later.)
Draw ==
  /\ nextId \in Ids
  /\ Overlap \/ drawn = {}
  /\ drawn' = drawn \cup {nextId} /\ nextId' = nextId + 1
  /\ UNCHANGED <<msgs, waits, serverVars, rowVars, conn, up, entry, last, procVars,
                 feedVars, left>>

\* Commit, then message.created on the bus: a _deliver_message task.
Commit(m) ==
  /\ m \in drawn
  /\ drawn' = drawn \ {m} /\ msgs' = msgs \cup {m}
  /\ news' = news \cup {m}
  /\ UNCHANGED <<nextId, waits, due, plan, line, sent, present, rowVars, conn, up, entry,
                 last, procVars, feedVars, left>>

\* The worktree of m's task gets its path.
Ready(m) ==
  /\ m \in waits
  /\ waits' = waits \ {m}
  /\ UNCHANGED <<nextId, drawn, msgs, serverVars, rowVars, conn, up, entry, last, procVars,
                 feedVars, left>>

Backlog == {m \in msgs : m > pos}

\* (mutant) messages that wait are skipped, and the rest is delivered
Prefix_Skips == {m \in Backlog : m \notin waits}

\* _filter_agent_delivery: the backlog is cut at the first message that waits.
Prefix == {m \in Backlog : \A n \in Backlog : n \in waits => m < n}

-----------------------------------------------------------------------------
(* Who sends: _deliver_message, reconcile() and the lifecycle requests *)

Join(kind, from, batch) ==
  line' = Append(line, [kind |-> kind, from |-> from, batch |-> batch])

\* _deliver_message: nothing to do for an agent that cannot take messages, or
\* for an idle one that this message does not call.
Decide(m) ==
  /\ m \in news
  /\ news' = news \ {m}
  /\ IF ~conn \/ present \notin Deliverable \/ Prefix = {} THEN UNCHANGED line
     ELSE IF present = "busy" THEN Join("deliver", "news", {})
     ELSE IF m \in Prefix \cap Calls THEN Join("wake", "news", {})
     ELSE UNCHANGED line
  /\ UNCHANGED <<postVars, due, plan, sent, present, rowVars, conn, up, entry, last, procVars,
                 feedVars, left>>

\* One per tick of _reconcile_loop, beside that of the handshake; a run ends when
\* what it planned was sent and answered.
MayScan ==
  /\ conn
  /\ Cardinality({i \in DOMAIN line : line[i].from = "scan"})
       + Cardinality({r \in Runs : plan[r] # Nothing}) < MaxScans

Plan(r, kind, batch) ==
  plan' = [plan EXCEPT ![r] = [kind |-> kind, from |-> "scan", batch |-> batch]]

\* (mutant) an agent missing from the process table is not started again
Scan_NoResume(r) ==
  /\ MayScan /\ plan[r] = Nothing
  /\ due' = FALSE
  /\ status' = IF present # "none" THEN present ELSE status
  /\ IF present = "busy" /\ Prefix # {}
       THEN Plan(r, "deliver", Prefix)
     ELSE IF present = "idle" /\ Prefix \cap Calls # {}
       THEN Plan(r, "wake", Prefix)
     ELSE UNCHANGED plan
  /\ UNCHANGED <<postVars, news, line, sent, present, pos, conn, up, entry, last, procVars,
                 feedVars, left>>

\* The transaction of reconcile(): the process table corrects agents.status
\* (#1), a missing agent that should live is started (#2), a present one gets
\* its backlog (#3). The batch is kept until it is sent.
Scan(r) ==
  /\ MayScan /\ plan[r] = Nothing
  /\ due' = FALSE
  /\ status' = IF present # "none" THEN present ELSE status
  /\ IF present = "none" /\ status \in Resumable
       THEN Plan(r, "start", {})
     ELSE IF present = "busy" /\ Prefix # {}
       THEN Plan(r, "deliver", Prefix)
     ELSE IF present = "idle" /\ Prefix \cap Calls # {}
       THEN Plan(r, "wake", Prefix)
     ELSE UNCHANGED plan
  /\ UNCHANGED <<postVars, news, line, sent, present, pos, conn, up, entry, last, procVars,
                 feedVars, left>>

\* After the transaction, and after what it sends to others, the run asks for the
\* lock.
Ask(r) ==
  /\ plan[r] # Nothing
  /\ line' = Append(line, plan[r])
  /\ plan' = [plan EXCEPT ![r] = Nothing]
  /\ UNCHANGED <<postVars, news, due, sent, present, rowVars, conn, up, entry, last, procVars,
                 feedVars, left>>

\* send_lifecycle: START, STOP or RESTART of the REST interface.
Request(action) ==
  /\ conn
  /\ Spend(action)
  /\ Join(action, "rest", {})
  /\ UNCHANGED <<postVars, news, due, plan, sent, present, rowVars, conn, up, entry, last,
                 procVars, feedVars>>

Recomputes == Head(line).kind = "deliver" /\ Head(line).from = "news"

\* send_instr, with the lock: a delivery task computes its batch now (_prepare).
\* The handshake's reconcile() plans first: its task is spawned before the reader
\* starts and waits for nothing, so no answer can be read before its plan.
Send ==
  /\ line # <<>> /\ sent = "no" /\ ~due
  /\ Recomputes => Prefix # {}
  /\ line' = IF Recomputes THEN [line EXCEPT ![1].batch = Prefix] ELSE line
  /\ sent' = "wire"
  /\ UNCHANGED <<postVars, news, due, plan, present, rowVars, conn, up, entry, last, procVars,
                 feedVars, left>>

\* _prepare returns None: everything has been delivered meanwhile.
Skip ==
  /\ line # <<>> /\ sent = "no"
  /\ Recomputes /\ Prefix = {}
  /\ line' = Tail(line)
  /\ UNCHANGED <<postVars, news, due, plan, sent, present, rowVars, conn, up, entry, last,
                 procVars, feedVars, left>>

-----------------------------------------------------------------------------
(* The daemon: one instruction at a time, each answered *)

\* Reports and acks are dropped without a connection.
Tell(reports) == up' = IF conn THEN up \o reports ELSE up

Take(kind) ==
  /\ sent = "wire" /\ Head(line).kind = kind
  /\ sent' = "taken"

\* start: a running process is left alone; launch otherwise.
HandleStart ==
  /\ Take("start")
  /\ IF alive
       THEN Tell(<<"noop">>) /\ UNCHANGED <<entry, alive>>
       ELSE entry' = "idle" /\ alive' = TRUE /\ Tell(<<"starting", "idle", "done">>)
  /\ UNCHANGED <<postVars, news, due, plan, line, present, rowVars, conn, last, turns,
                 backoff, feedVars, left>>

\* stop: the entry goes, and its cursor with it.
HandleStop ==
  /\ Take("stop")
  /\ IF entry = "none"
       THEN Tell(<<"noop">>) /\ UNCHANGED <<entry, last, procVars>>
       ELSE /\ entry' = "none" /\ last' = 0
            /\ alive' = FALSE /\ turns' = 0 /\ backoff' = FALSE
            /\ Tell(<<"offline", "done">>)
  /\ UNCHANGED <<postVars, news, due, plan, line, present, rowVars, conn, feedVars, left>>

\* respawn: stop the process and launch again; the entry keeps its cursor.
HandleRestart ==
  /\ Take("restart")
  /\ entry' = "idle" /\ alive' = TRUE /\ turns' = 0 /\ backoff' = FALSE
  /\ Tell(<<"starting", "idle", "done">>)
  /\ UNCHANGED <<postVars, news, due, plan, line, present, rowVars, conn, last, feedVars,
                 left>>

HandleWake ==
  /\ Take("wake")
  /\ IF entry \in {"none", "busy"}
       THEN Tell(<<"noop">>) /\ UNCHANGED entry
       ELSE entry' = "busy" /\ Tell(<<"busy", "done">>)
  /\ UNCHANGED <<postVars, news, due, plan, line, present, rowVars, conn, last, procVars,
                 feedVars, left>>

\* (mutant) the daemon does not compare a batch with its cursor
Deliver_NoCursor ==
  /\ Take("deliver")
  /\ IF entry = "none"
       THEN Tell(<<"noop">>) /\ UNCHANGED <<entry, last, feeding>>
       ELSE /\ last' = Top(Head(line).batch) /\ feeding' = Head(line).batch
            /\ entry' = "busy" /\ Tell(<<"busy">>)
  /\ UNCHANGED <<postVars, news, due, plan, line, present, rowVars, conn, procVars, fed,
                 dropped, left>>

\* deliver: a batch whose last id is not past the cursor is answered noop;
\* otherwise the cursor moves and the agent is reported busy...
Deliver ==
  /\ Take("deliver")
  /\ IF entry = "none" \/ Top(Head(line).batch) <= last
       THEN Tell(<<"noop">>) /\ UNCHANGED <<entry, last, feeding>>
       ELSE /\ last' = Top(Head(line).batch) /\ feeding' = Head(line).batch
            /\ entry' = "busy" /\ Tell(<<"busy">>)
  /\ UNCHANGED <<postVars, news, due, plan, line, present, rowVars, conn, procVars, fed,
                 dropped, left>>

\* ... and then the whole batch is written to the process, which may be dead.
Feed ==
  /\ feeding # {}
  /\ feeding' = {}
  /\ IF alive
       THEN /\ fed' = [m \in Ids |-> IF m \in feeding THEN fed[m] + 1 ELSE fed[m]]
            /\ turns' = turns + 1
            /\ UNCHANGED dropped
       ELSE dropped' = dropped \cup feeding /\ UNCHANGED <<fed, turns>>
  /\ Tell(<<"done">>)
  /\ UNCHANGED <<postVars, serverVars, rowVars, conn, entry, last, alive, backoff, left>>

\* A result frame: the input is done.
EndTurn ==
  /\ alive /\ turns > 0
  /\ turns' = turns - 1
  /\ entry' = "idle" /\ Tell(<<"idle">>)
  /\ UNCHANGED <<postVars, serverVars, rowVars, conn, last, alive, backoff, feedVars, left>>

\* A result frame that reports an error.
FailTurn ==
  /\ alive /\ turns > 0
  /\ Spend("error")
  /\ turns' = turns - 1
  /\ entry' = "error" /\ Tell(<<"error">>)
  /\ UNCHANGED <<postVars, serverVars, rowVars, conn, last, alive, backoff, feedVars>>

\* The process exits: nothing is reported, a restart is scheduled.
Exit ==
  /\ alive
  /\ Spend("exit")
  /\ alive' = FALSE /\ turns' = 0 /\ backoff' = TRUE
  /\ UNCHANGED <<postVars, serverVars, rowVars, conn, up, entry, last, feedVars>>

\* superviseRestart after its sleep.
Relaunch ==
  /\ backoff
  /\ backoff' = FALSE /\ alive' = TRUE
  /\ entry' = "idle" /\ Tell(<<"starting", "idle">>)
  /\ UNCHANGED <<postVars, serverVars, rowVars, conn, last, turns, feedVars, left>>

-----------------------------------------------------------------------------
(* The server's reader and writer *)

Drop(i) == SubSeq(up, 1, i - 1) \o SubSeq(up, i + 1, Len(up))

\* The lock is free for the next; a wake is followed by its batch.
Release ==
  /\ sent' = "no"
  /\ line' = IF Head(line).kind = "wake"
                THEN Append(Tail(line), [Head(line) EXCEPT !.kind = "deliver"])
                ELSE Tail(line)

\* (mutant) the ack of a wake that carries a batch moves the read position
HandleAck_Wake ==
  \E i \in DOMAIN up :
    /\ up[i] \in Acks
    /\ up' = Drop(i)
    /\ pos' = IF Head(line).batch # {} /\ up[i] = "done" THEN Top(Head(line).batch) ELSE pos
    /\ Release
    /\ UNCHANGED <<postVars, news, due, plan, present, status, conn, entry, last, procVars, feedVars,
                   left>>

\* (mutant) the ack releases the lock before the read position is written
HandleAck_NoWrite ==
  \E i \in DOMAIN up :
    /\ up[i] \in Acks
    /\ up' = Drop(i)
    /\ Release
    /\ UNCHANGED <<postVars, news, due, plan, present, rowVars, conn, entry, last, procVars, feedVars,
                   left>>

\* _handle_ack, in the reader: reports received earlier may still be queued for
\* the writer. A batch acked done moves the read position to its last message.
HandleAck ==
  \E i \in DOMAIN up :
    /\ up[i] \in Acks
    /\ up' = Drop(i)
    /\ pos' = IF Head(line).kind = "deliver" /\ up[i] = "done" THEN Top(Head(line).batch) ELSE pos
    /\ Release
    /\ UNCHANGED <<postVars, news, due, plan, present, status, conn, entry, last, procVars, feedVars,
                   left>>

\* The writer: _report_status_changed.
WriteStatus ==
  /\ up # <<>> /\ Head(up) \in Statuses
  /\ up' = Tail(up)
  /\ present' = IF Head(up) \in Resumable THEN Head(up) ELSE "none"
  /\ status' = Head(up)
  /\ UNCHANGED <<postVars, news, due, plan, line, sent, pos, conn, entry, last, procVars,
                 feedVars, left>>

-----------------------------------------------------------------------------
(* Connections and processes *)

\* The hello carries the process table; reconcile() is spawned. A handler of
\* the previous connection has ended by then.
Connect ==
  /\ ~conn /\ feeding = {}
  /\ conn' = TRUE /\ due' = TRUE /\ present' = entry
  /\ UNCHANGED <<postVars, news, plan, line, sent, rowVars, up, entry, last, procVars,
                 feedVars, left>>

\* The connection takes its tasks and everyone who waits for its lock with it;
\* a _deliver_message that has not looked for a connection yet goes on.
Disconnect ==
  /\ conn' = FALSE /\ due' = FALSE /\ present' = "none" /\ up' = <<>>
  /\ plan' = [r \in Runs |-> Nothing] /\ line' = <<>> /\ sent' = "no"

Cut ==
  /\ conn /\ Spend("cut")
  /\ Disconnect
  /\ UNCHANGED <<postVars, news, rowVars, entry, last, procVars, feedVars>>

DaemonCrash ==
  /\ Spend("crash")
  /\ Disconnect
  /\ entry' = "none" /\ last' = 0 /\ feeding' = {}
  /\ alive' = FALSE /\ turns' = 0 /\ backoff' = FALSE
  /\ UNCHANGED <<postVars, news, rowVars, fed, dropped>>

ServerRestart ==
  /\ Spend("server")
  /\ Disconnect
  /\ news' = {} /\ drawn' = {}
  /\ UNCHANGED <<nextId, msgs, waits, rowVars, entry, last, procVars, feedVars>>

Daemon == HandleStart \/ HandleStop \/ HandleRestart \/ HandleWake \/ Deliver \/ Feed
Process == EndTurn \/ FailTurn \/ Exit \/ Relaunch
Server == (\E r \in Runs : Scan(r) \/ Ask(r)) \/ Send \/ Skip \/ HandleAck \/ WriteStatus
Link == Connect \/ Cut \/ DaemonCrash \/ ServerRestart

Next ==
  \/ Draw
  \/ \E m \in Ids : Commit(m) \/ Ready(m) \/ Decide(m)
  \/ \E action \in {"start", "stop", "restart"} : Request(action)
  \/ Daemon \/ Process \/ Server \/ Link

Spec == Init /\ [][Next]_vars

\* Handlers run, the client reconnects for ever (run, client.ts:195) and
\* reconcile() is periodic. agent_lock is first come, first served.
Fairness ==
  /\ WF_vars(Daemon) /\ WF_vars(Send \/ Skip) /\ WF_vars(HandleAck)
  /\ WF_vars(WriteStatus) /\ WF_vars(Connect)
  /\ WF_vars(\E r \in Runs : Scan(r)) /\ \A r \in Runs : WF_vars(Ask(r))
  /\ \A m \in Ids : WF_vars(Decide(m))

FairSpec == Spec /\ Fairness

-----------------------------------------------------------------------------
(* Properties *)

TypeInv ==
  /\ nextId \in 1..(MaxMsg + 1) /\ drawn \subseteq Ids
  /\ msgs \subseteq Ids /\ waits \subseteq Ids
  /\ news \subseteq Ids /\ due \in BOOLEAN
  /\ plan \in [Runs -> Holders \cup {Nothing}]
  /\ line \in Seq(Holders) /\ sent \in {"no", "wire", "taken"}
  /\ pos \in 0..MaxMsg /\ status \in Statuses
  /\ conn \in BOOLEAN /\ present \in Statuses \cup {"none"}
  /\ up \in Seq(Statuses \cup Acks)
  /\ entry \in Statuses \cup {"none"} /\ alive \in BOOLEAN /\ turns \in Nat
  /\ backoff \in BOOLEAN /\ last \in 0..MaxMsg /\ feeding \in SUBSET Ids
  /\ fed \in [Ids -> Nat] /\ dropped \subseteq Ids
  /\ left \in [Events -> Nat]

Handed == {m \in msgs : fed[m] > 0} \cup dropped

\* A message the read position covers was written to the agent's process: a
\* lost ack, a restart or a stop between its batch and its ack never marks it
\* read unseen (_handle_ack, hub.py:583, and deliver, claude_code.ts:963).
ReadIsHanded == \A m \in msgs : m <= pos => m \in Handed

Unbroken == \A event \in {"cut", "crash", "server"} : left[event] = Budget[event]
Unstopped == left["stop"] = Budget["stop"]

\* Until the connection is lost or the agent stopped for the first time, a
\* delivery task never feeds a message again, however many overlap: it computes
\* its batch under the lock (_prepare, hub.py:1442). reconcile() plans before it
\* has the lock (hub.py:1994), so its batch may repeat messages, but the daemon's
\* cursor lets no batch through that only repeats (claude_code.ts:966).
FedAgain ==
  [][ fed' # fed /\ Unbroken /\ Unstopped =>
        /\ \E m \in Ids : fed[m] = 0 /\ fed'[m] # 0
        /\ \A m \in Ids : fed[m] # 0 /\ fed'[m] # fed[m] => Head(line).from = "scan" ]_vars

\* The read position moves back only by a batch that reconcile() planned, and
\* only after a stop has cleared the cursor that would have refused that batch
\* (_write_read_position, hub.py:1323, compares nothing).
ReadOnward ==
  [][ pos' < pos => ~Unstopped /\ Head(line).kind = "deliver" /\ Head(line).from = "scan" ]_vars

\* The engine gives what Inbox promises, over lost acks, crashes, stops and
\* redeliveries: in order, no gap, and a read position at a message handed over.
Promise == INSTANCE Inbox WITH posted <- msgs, handed <- Handed, read <- pos
InboxSpec == Promise!Spec

\* A message that calls the agent is written to its process in the end, over
\* cuts and restarts of either side, once nothing before it waits for a
\* directory (wake + deliver, and rules #2 and #3 of reconcile, hub.py:1865).
CallsAreHanded ==
  \A m \in Calls :
    m \in msgs /\ waits \cap (1..m) = {} ~> m \in Handed
=============================================================================
