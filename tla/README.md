# CoAgentia in TLA+

CoAgentia is a workspace in which humans and coding agents share channels,
tasks and projects. A Python server (FastAPI, one SQLite file) keeps everything;
a TypeScript daemon on each computer runs the agents' processes, worktrees,
previews and deployments and talks to the server over one WebSocket; browsers
listen to a second one. The code is threaded (request handlers in a thread
pool, report handlers in worker threads, asyncio tasks), two processes restart
independently, and the wire between them loses what it carries. This directory
models those parts of it that tests reach worst.

Paths below are relative to `src/apps/server/src/coagentia_server/` (server) and
`src/apps/daemon-ts/src/` (daemon); `hub.py` is `computers/hub.py`.

## 1. The system

| component | code | state | operations | hard behaviour | what makes it right | modelled |
|---|---|---|---|---|---|---|
| Telemetry uplink | `buffer.ts`, `client.ts`, `hub.py` `_writer`, `_report_usage`, `_report_diagnostics` | two rings with disk copies, flush loop, ack waits; `token_usage`, `diagnostic_events` | append, flush, ack, time out, reconnect, store | overflow during an await, resent batches, threads of dead connections, lost wake-ups | nothing vanishes, nothing counted twice, everything is recorded in the end | yes |
| Deployment | `routes/deployments.py`, `hub.py` (dispatch, log, finished, rule 10), `deploy.ts`, `buffer.ts` | row, log file, cursor and sidecar, runner, two buffers | create, dispatch, run, report, settle, reconcile | crash of either side, retransmission, overtaking, stale rows | one active row, one card, a verdict is real and is kept, the log has no gap | mostly |
| Message delivery | `hub.py` (tasks, `send_instr`, acks, `reconcile`), `claude_code.ts`, `handlers.ts` | read position, `present`, waiting directories, per-agent lock, process table, cursor | post, plan, send, feed, ack, start/stop/restart | overlapping tasks, stale plans, lost acks | read means handed; in order; fed again only by reconciliation; a call arrives | mostly |
| Posting, drafts, files | `routes/messages.py`, `guard/service.py`, `ledger/service.py`, `routes/held_drafts.py`, `deps.py`, `files/` | ledger, messages, files on disk, drafts | post, hold, release, discard, reevaluate, collect | transactions that are not what they look like, disk and database out of step | one message per key, whole messages, no stray files, closed drafts stay closed | mostly |
| Connection, presence | `hub.py` `serve`, `send_instr`, `_teardown`, `client.ts`, `transport.ts`, `routes/computers.py` | connection table, row, daemon's transport, waiting callers | hello, supersede, heartbeat, teardown, call | overlapping handshakes, silent wires, a failing teardown | one live connection, presence follows it, callers return | mostly |
| Agent runtime | `adapters/claude_code.ts` `RuntimeManager`, `frames.ts`, `handlers.ts` | `agents` map, entries, crash window, session file | start, stop, restart, reset, supervise | a restart sleeps while instructions run | one process per agent, which its entry owns; a lost session stays lost; no silence after a crash | mostly |
| Codex turns | `adapters/codex.ts`, `deliver`/`inject` of the manager | turn queue, in-flight flag, thread, usage of the turn | handshake, feed, turn end, stop | three tasks on one object across awaits | one turn at a time, in order, charged once, none stuck | mostly |
| Previews | `preview.ts`, `routes/tasks.py`, `hub.py` rule 9 | port registry, sessions and monitors; rows, hello snapshot | open, start, ready, fail, stop, reconcile | lost frames nobody resends, handler beside monitors | ports of the daemon's table are exact, its rows settle, its leaks end | mostly |
| Worktrees, merge | `tasks/merge.py`, `routes/tasks.py`, `hub.py`, `client.ts` lane, `git.ts` `merge` | rows, pending merges, the lane, the main tree | ask, send, merge, recover, report, ack | lost answers, retries, `reset --hard`, crashes | what is announced is in main, the tree is given back, no lock for ever | merge: mostly |
| Tasks, silence | `tasks/`, `contracts/` | tasks, events | transitions, reminders of silence | boundaries | a chain restarts only by activity | no |
| Reminders | `reminders/` | next fire times | re-arm, scan | boundaries, cancel against fire | each slot once | no |
| Event bus, browsers | `events/bus.py`, `ws/hub.py` | subscribers, sequence numbers | emit, attach, detach | threads | commit order, presence | no |
| Others | database schema, read routes, workspace/member/channel/project routes, checks and probes, the Python daemon, web client, mock server, contract types | | | | | no (see PROJECT.json) |

How they interact: a REST handler commits one transaction (`deps.get_tx`), then
emits events to the bus and runs its callbacks; callbacks and bus subscribers
schedule coroutines of the gateway (`hub.py`), which send *instructions* under a
lock per target and wait for *acks*; the daemon sends *reports* and waits for
acks; the gateway stores reports one by one in a thread per connection, and after
every reconnection, and periodically, *reconciles* rows with what the daemon says
is running. A coroutine that is cancelled with its connection leaves the thread it
waits for running: in TelemetryUplink, Deployment and Delivery such threads are
`orphans`. On the daemon side everything is one event loop: handlers, monitors,
readers and supervisors are tasks that interleave at every `await`, and the
modules cut the code exactly there.

## 2. Modules

| module | what it is |
|---|---|
| `UsageLedger` | abstract: each usage event is recorded once, and broadcast at most once, after that |
| `TelemetryUplink` | rings, flush loop, link, writer |
| `DeployBoard` | abstract: rows open one at a time, begin, close once with one card |
| `Deployment` | request, instruction, runner, buffers, writer, reconciliation |
| `Inbox` | abstract: messages are posted in order, handed over without a gap, and read only once handed over |
| `Delivery` | delivery engine and the daemon's handlers |
| `Timeline` | abstract: a message appears with all its attachments, which stay readable |
| `Posting` | requests that post, drafts, file binding, collection |
| `AgentRuntime` | the runtime manager of one agent: entries, processes, supervisors |
| `CodexTurns` | the turn queue of one codex process object |
| `Preview` | preview rows, calls, the daemon's table, port registry, monitors, rule 9 |
| `Merge` | merge requests, pending table, the daemon's lane, the main working tree |
| `Connection` | the sockets of one daemon, the connection table, presence, callers of `send_instr` |
| `MC*` | constants for TLC |
| `TelemetryUplinkProofs`, `DeploymentProofs`, `DeliveryProofs`, `PostingProofs`, `AgentRuntimeProofs`, `CodexTurnsProofs`, `PreviewProofs`, `MergeProofs` | theorems (those about Connection, whose common definitions are therefore called `LinkInit`, `LinkSpec`, ..., are in the last part of `AgentRuntimeProofs`) |

The first four detailed modules refine an abstract one; the refinement is a PROPERTY
of a run (`LedgerSpec`, `BoardSpec`, `InboxSpec`, `TimelineSpec`) and a theorem (for
Delivery under the condition that ids become visible in order, section 6). Faults
are drawn from a `Budget`, one entry per kind, so every interleaving of the given
number of faults is explored and an assumption such as "no crash happened" can be
written `left["crash"] = Budget["crash"]`.

### TelemetryUplink
A buffer row is its append number, so a ring is a set and the JSONL file is the
same set on disk. `AppendUsage`/`AppendDiagnostic` are `onUsage`/`onDiagnostic`
including the overflow marker that an overflow appends to the other ring;
`FlushWake`, `FlushUsage`, `FlushDiagnostics` are the steps of `flushLoop` between
its awaits; `AckUsage` removes by id, `AckDiagnostics` by count, as the code does;
a rewrite of the file may throw. `WriteReport` and orphans' writes are the
transactions of `_report_usage`/`_report_diagnostics` up to their commit;
`gateway_tx` hands the events to the bus only then, one by one (`EmitNext`, or
`EmitLate` in a thread whose connection is gone), and the ack follows (`AckReport`).
A server that dies in between has recorded what nobody will hear of: such events
are kept in `muted`. `Connect`, `Disconnect`, `Crash` and
`ServerRestart` reset exactly what the code keeps in memory.

### Deployment
`Create` is the POST handler, `Dispatch` its after-commit callback, `DeployRun`
the daemon's handler with its three answers (already running, already finished:
report again, new), `EmitLog`/`EndRun` the runner. The server handles a chunk in
three steps of a thread (`LogTx`: row to running; `LogAppend`: file and sidecar;
`LogSettle`: cursor and ack) because it can die, or its connection can, between
them. The transaction of a verdict forgets the cursor and its sidecar before it
commits, so one that fails (`TxFails`, in the live writer or in an orphan) may leave
the row active and the cursor gone. `Reconcile` is rule 10: on a changed boot nonce,
running rows fail closed and queued rows are sent again.
Left out: the Idempotency-Key of the request, the 422 checks of its body, several
projects or computers, the 5 MB cap of a log. A failed rewrite of the daemon's
file is modelled in TelemetryUplink only.

### Delivery
A message is its id. `Draw`/`Commit` post; `Decide` is `_deliver_message`, `Scan`
the planning transaction of a `reconcile()`, of the handshake or of the periodic loop,
and `Ask` its later request for the lock, with the batch it planned; `line` is the
queue of `agent_lock`, whose head `Send`s (tasks recompute their batch in
`_prepare`, reconcile does not). `Handle*` are the daemon's handlers,
`Deliver`/`Feed` the cursor and the write of the turn, which are two steps because
`deliver()` awaits between them. `HandleAck` moves the read position.
Left out: thread scopes, messages of the agent itself, several agents, a second
process of one agent, spawn failures, a reply thread that outlives its connection.
Launch and stop are atomic; frames on the wire at a cut are handled before it or
lost; writing to a dead process counts as `dropped`, which is handed over as far
as the server can know. `Overlap = FALSE` in the runs: ids become visible in
order (see section 6).

### Posting
Requests run in threads; SQLite has one writer (`lock`). The driver opens a
transaction at the first write, so what a request reads before is not protected
and the SAVEPOINT of `record()` commits by itself when nothing was written before
it. `Lookup`, `Gate`, `Hold`, `Record`, `Begin`, `Bind`, `Commit`, `Finalize` are
the stretches of `post_message` between which others run; `Undo` moves bodies
back one at a time. `Check`, `Discard`, `Reevaluate`, `Combo` are the buttons; a
release continues at `Begin` with the draft's attachments. `ScanRead`/`ScanFlip`
are `run_held_scan`, `Gc*` the steps of `run_gc`, including the race that ends the
hourly task. `Talk` stands for everybody else's messages and for deliveries.
Left out: editing, tasks created with a message (a failure of theirs is `Abort`),
the clock of `next_reeval_at`, escalation thresholds below two, the offline check
of a reevaluation (it changes nothing), a commit between the two reads of the gate,
a body that cannot be moved back (`deps.py` suppresses the OSError).

### AgentRuntime
Task 0 is the instruction handler (`client.ts` awaits one handler at a time), task
*p* the supervision of the exit of process *p*. `Start`, `Stop`, `Respawn` (restart
and reset_session) run to their first await; `Killed`/`Stopped` end the stop,
`Prepared`, `Spawned`, `SpawnFails` are the launch between its awaits.
`ExitNoticed` is the end of the read loop with `onProcessExit` and the part of
`superviseRestart` before its sleep (crash count, breaker, degradation of an
unconfirmed resume); `Wakes` is the check after the sleep. A session is named
after the process that created it; `Confirmed` is its init frame. `overlap`
remembers that an instruction met a restart under way; see section 5.
Left out: home files, the parser of stream-json, the window of the crash counter
(every crash is inside it: the hardest case), several agents (they share nothing).

### CodexTurns
The app-server is external: it may die, answer the handshake, measure a turn and
end it completed or with an error, in any order its frames allow. `Deliver` and
`Feed` are the two halves of `deliver`/`feed` around the `busy` report, `Handshake`
and `ReadLoop` the tasks of each spawned process, which share the fields of one
object with those of the next. `SubmitNext` is `maybeSubmitNextTurn`, which all
three call. `early` remembers that a process was spawned before the reader of the
last one had ended.
Left out: the contents of items, token arithmetic (a usage report is charged or
not), a failed turn that sends both `error` and `turn/completed` (assumed not to
happen: it would release the next turn twice).

### Preview
`Open` is POST ensure, `Recycle` a stop asked for by a user or a finished task;
`Dispatch` sends a call and forgets it when the connection is gone. The daemon's
handler is two-step (`Start`/`Spawned`, `Stop`/`Stopped`); a monitor goes from
waiting to serving (`Reached`), or kills and reports (`Unreached`, `Leaves`,
`Fails`, `FailReported`). `Connect` takes the hello's snapshot, `Replay` and `Close`
are the halves of rule 9; `StartingTimeout` is its periodic half. A report is
written (`ReadReport`) or its transaction fails and it is dropped (`DropReport`); an
error in reconciliation ends it (`Abort`). The state is that of the daemon's
table: `exited` says that a dev server has died and its monitor has not looked yet.
A kill has no effect of its own, because nobody asks whether it worked
(`preview.ts:350`): after `Stopped` and `Fails` the process may be dead or not.
Neither has `Crash` an effect on the processes: they die with the daemon or live on
as orphans, which keep ports that no registry names (`hub.py:2786`,
`scratchpad/PREVIEW-CALIBRATION.md` 3.4), and nothing in the code reaches them again.
Left out: log tails, how a port is probed (a port an orphan or anyone else holds is
found taken and is not one of those the daemon finds free), shutdown of the daemon (as
`Crash`).

### Merge
`Ask` is the route with its 409 gate, `Register` and the call the after-commit
callback; the lane of `client.ts` runs one operation, whose steps are those of
`git.ts`: `RecoverConflict` and `Refuse` look at what a crash left, `AlreadyMerged`
answers a retry, `Begin`/`Git` are `git merge --no-ff`, and then `Merged`,
`Conflicted`, `NotMerged`, `TimedOut` (abort or `reset --hard`) or `NotRestored`.
Statuses and acks travel separately and are lost with the connection. A frame whose
ack does not come is sent again (`Resend`); worktree.merge bypasses the daemon's
memory of frame ids (`client.ts:416`), so `Receive` drops it only while its
operation waits or runs (`Known`), and afterwards it runs the merge once more. The
server's thread stores a status in three steps: it looks whether the merge is
pending (`ReadStatus`), writes (`Store`), forgets it (`Pop`); a thread whose
connection is gone goes on. A transaction may fail, that of a failure's announcement
too.
Left out: ensure, revalidation and cleanup of worktrees, a branch that moves after a
conflict, the conflict task (part of "told = conflicted"), alias rows.

### Connection
A socket is numbered; its coroutine on the server is `serve` in `hub.py` cut at its
awaits: `Begin` (authenticate, take the old connection out), `Accept` (close it,
accept the new one), `ReadHello` (the row is written), `Register` (hello_ack, then
the table), `Notice` (end of the read) with `Teardown`; `Drop` is a handshake that
ends before it is registered. The daemon's loop is `Connect`, `Opened`, `SayHello`,
`GotAck`, and what ends a transport. `OpenTimeout` covers only the time until the
open event (`Opened`); from then until hello_ack there is no timer, whether or not
the hello was lost. `PongTimeout` only begins the close: the reader goes on until
the close event (`Closed`), which a silent wire delays. `Take`, `Send`, `Answer`,
`Expire` are `send_instr` under the agent's lock. A wire is up, silent (nothing
passes, nobody is told) or broken. `late` remembers that a handshake went on
although that of a later socket had begun, `stale` that what took the last
connection away did not reach the row. The other modules take their link as given:
it comes and goes, and a reconnection supersedes.
Left out: adding, renaming and removing a computer, refused keys and protocol
versions, the boot nonce (in Deployment), the presence events of agents, two daemons
with one key.

## 3. Runs

| run | instance | distinct states | shows |
|---|---|---|---|
| `uplink` | 2 usage events, ring of 1; 1 diagnostic, ring of 2 plus markers; one fault of each of six kinds; the server may die between a commit and its events | 1 183 000 | UsageNeverLost, ReportedOnce, DiagNeverLost, LedgerSpec, EveryUsageRecorded |
| `deploy_run` | 1 deployment, 1 chunk; cut, daemon crash, server restart once each | 719 000 | TypeInv, VerdictKept, BoardSpec, EveryDeploymentEnds |
| `deploy_logs` | 1 deployment, 2 chunks; every fault but a daemon crash once | 1 279 000 | VerdictIsReal, RunsOnce, LogWhole |
| `delivery_local` | 2 calling messages, the first gated; stop, restart, failed turn once each; the periodic reconcile | 1 765 000 | FedAgain, ReadOnward, InboxSpec |
| `delivery_faults` | 2 messages, the second calls, the first gated; cut, crash, server restart, exit once each | 348 000 | ReadIsHanded, CallsAreHanded |
| `posting` | 2 posts of the agent with one key, 1 upload or none, 1 human; one error, one crash | 592 000 | KeyOnce, NoStrayFile, TimelineSpec, RequestsEnd, OrphansCollected |
| `agent` | 3 instructions, 2 crashes, 1 refused spawn, breaker after 1 restart | 162 000 | OneProcess, LostStaysLost, DownIsAnswered |
| `codex` | 3 turns on 2 channels, 2 processes | 455 000 | OneTurn, FirstIn, BilledOnce, TurnsMove |
| `preview` | 2 sessions of one task, 2 ports; 1 recycle; 1 fault: cut, daemon crash, server restart, failed write or broken-off reconciliation | 387 000 | PortsHeld, RowsSettle, LeakEnds |
| `merge` | 2 requests over 2 tasks; 1 cut, server restart or frame sent again, 1 failed write, 2 crashes or failing restores | 695 000 | MergedIsTrue, MainRestored, PendingEnds |
| `connection` | 4 sockets, 2 callers of one agent; any 2 of cut, silence, slow peer, failed write, server restart, daemon exit | 298 000 | LinkTypeInv, OneLive, PresenceSettles, Reconnects, CallersReturn |
| `posting_revived` | smallest instance, no fault | up to 5 000 | violation of TerminalStays, section 5 |

**Why the bounds are enough.** The properties are about what one row, message, key
or upload meets, so one or two of each suffice to violate them: a ring of one
overflows at the second event; two chunks are a gap; two messages are an order; two
posts with one key are a retry; two processes are one too many; two sockets are two
handshakes, and the fourth is left for the connection that must come after two
faults; a turn ends, one runs and one waits; two sessions compete for a port; two
merges are what one reset could drop. Every fault may strike at every point, once,
together with one of every other kind of the run's budget (in `connection` any two,
in `preview` any one); the violation needs none. `MaxScans` bounds concurrent
`reconcile()` calls at one (the theorems do not); each may run any number of times.
The counterexample of section 5, a read position that goes back, lies inside
`delivery_local`, which stops and restarts the agent under a planned batch. Two
uploads and posts without a key were checked for Posting, and one caller with three
faults for Connection's invariants; what is proved does not depend on it.

Six runs do not list the type invariant of their module, which is proved (section 4).

**Deadlock.** All modules but Posting do not check deadlock: with the budget
spent and every event produced they legitimately stop; their liveness properties
say that nothing is left undone. In Posting people may
always talk, so TLC's check would show nothing; `RequestsEnd` is what excludes a
deadlock of requests.

**Fairness.** TelemetryUplink: the flush loop, the writer with its events, acks and
`Connect` (the daemon reconnects for ever, with backoff) are weakly fair; the ack
timeout is, because a timer always fires. Deployment: the same, and a run ends
because `DEPLOY_TIMEOUT_SEC` kills it; ack timeouts are not assumed. Delivery:
daemon, lock, acks, status writes, the periodic reconcile and `Connect`; exits and
requests are not. Posting: a request that has started goes on (a thread is
scheduled, SQLite's busy handler lets every writer have a turn) and the collection
runs every hour; nobody has to press a button or to post. AgentRuntime: the handler
and the supervisors go on, exits are noticed. CodexTurns: the same for feeds,
readers and handshakes, and the app-server ends the turns it was given (a hung
app-server would hold its queue for ever, as in the code). Preview: calls are sent,
handlers, monitors, reader, reconciliation, the periodic scan and `Connect`. Merge:
both readers, the threads that write, the lane and `Connect`; a git command ends or
is killed by its timeout. Connection: every coroutine, the daemon's loop and its
timers, the 10 s timer of a call; a silent peer is noticed (heartbeat loop,
keepalive of the WebSocket library). Nothing says that users act or faults happen.

**Conditions in the liveness properties.** Each states what the code does not
promise: a usage event that met a failed write or a timeout waits for the next event
or connection; a deployment hit by a mere disconnection may stay queued (section 5);
the collection may have died; an agent whose spawn was refused during a supervised
restart stays as it is; a merge status the server failed to write leaves its entry
pending; a preview row keeps saying running when the write of its report failed, and
rule 9 may break off; a daemon whose wire falls silent between hello and hello_ack
waits for ever, and a row keeps what a failed handshake, teardown or server left in
it.

## 4. Proofs

| theorem | says |
|---|---|
| `TelemetryUplinkProofs!TypeCorrect`, `NeverLost`, `ExactlyOnce`, `DiagnosticsAreKept`, `UplinkImplementsLedger` | TypeInv, UsageNeverLost, ReportedOnce, DiagNeverLost and `Spec => LedgerSpec` |
| `DeploymentProofs!TypeCorrect`, `DeploymentImplementsBoard`, `OneAtATimeOneCard` | TypeInv, `Spec => BoardSpec`, and what follows on the board |
| `DeploymentProofs!VerdictsAreKept`, `VerdictsAreReal`, `RunsAtMostOnce`, `LogIsWhole` | VerdictKept, VerdictIsReal, RunsOnce, LogWhole |
| `DeliveryProofs!TypeCorrect`, `ReadOnwardHolds`, `FedAgainHolds`, `ReadIsHandedHolds`, `ImplementsInbox` | TypeInv, ReadOnward, FedAgain; ReadIsHanded and `Spec => InboxSpec` if `~Overlap` |
| `PostingProofs!TypeCorrect`, `KeyIsOnce`, `NoStrayFiles`, `PostingImplementsTimeline` | TypeInv, KeyOnce, NoStrayFile and `Spec => TimelineSpec` |
| `AgentRuntimeProofs!TypeCorrect`, `OneProcessHolds`, `LostSessionsStayLost` | OneProcess, LostStaysLost |
| `AgentRuntimeProofs!ConnectionTypes`, `OneLiveHolds` | Connection's LinkTypeInv, OneLive |
| `CodexTurnsProofs!TypeCorrect`, `OneTurnHolds`, `FirstInHolds`, `BilledOnceHolds` | TypeInv, OneTurn, FirstIn, BilledOnce |
| `PreviewProofs!TypeCorrect`, `PortsAreExact` | TypeInv, PortsHeld |
| `MergeProofs!TypeCorrect`, `MergedStaysTrue`, `TreeGivenBack` | TypeInv, MergedIsTrue, MainRestored |

They hold for every value of the constants that satisfies the module's named
assumption (`UplinkAssumption`, `DeployAssumption`, `DeliveryAssumption`,
`PostingAssumption`, `RuntimeAssumption`, `ConnectionAssumption`, `CodexAssumption`,
`PreviewAssumption`, `MergeAssumption`:
types of the constants; for Posting also that the escalation threshold is at least
two).

*Uplink.* TypeInv needs `Bounds` (a report names only appended rows) because the
server stores whatever a frame names. NeverLost is inductive with the fact that the
batch being acknowledged is in the ledger when its ack is on the wire, which needs
that a report whose transaction committed is in the tables as a whole (`Committed`).
ExactlyOnce relates the broadcast count to the ledger through what is recorded and
not broadcast yet, or never will be: the events of the live writer, of late threads
and of a server that died are in the ledger, and no two of them share one (`Apart`),
so each has one thread that may broadcast it. The refinement uses the same.
DiagnosticsAreKept needs `Awaiting`: while an ack of diagnostics is awaited, the
rows sent are still the first of the ring (`Leads`, over the ids in the ring) and,
once the ack is on the wire, stored; so the count the daemon removes is theirs. An
overflow breaks it (section 5).

*Deployment.* TypeInv contains `BufferKeys` and `ThreadShape`: acks remove the
row with a key, and an orphan past its transaction is a log thread; without them
the buffers could lose or duplicate rows and the types of the cursors fail. The
refinement needs `Board!OneActive`, that a project has at most one active row, and
that a thread settles a row only from an active status, read and written in one
transaction. The three verdict theorems share what is known of a verdict on its
way: a row whose run ended has begun (`Begun`); every verdict anywhere (buffer,
memory, frame, thread) is one that a run reached (`Real`); only the frame the flush
loop waits for is live, and an ack on the wire means that the verdict at the head
of the buffer is settled (`Awaited`). VerdictIsReal adds that without a crash or a
restart there is one boot nonce, and only the first connection looks like a restart
(`FirstBoot`); RunsOnce that, unless the daemon crashed, a started command is
running or remembered (`Remembered`).
LogIsWhole is an argument about order: the buffer holds the chunks of a deployment
in the order printed (`LogOrder`); only its first row is reported, and a row is on
its way - in the queue, in a thread of the live connection or in one that outlived
its connection - only after every chunk before it is in the file (`LogThreads`);
neither cursor nor sidecar is ahead of the file (`LogCursors`), and an ack on the
wire means that the first row is in it (`LogAcks`), so what the daemon drops is
stored (`LogKept`) and an append never leaves a hole (`Gapless`).

*Delivery.* TypeInv needs `Lock`: at most one ack is on its way, it answers the
instruction the daemon took, and a batch being fed is that instruction's; without
it the batch an ack moves the read position to could be another one, or empty.
ReadIsHanded needs `Order` (a message commits behind every committed one) and
`Batches`: whatever a planned, sent or half-fed batch leaves out before its last
message has been handed over already, and the batch an ack "done" speaks of has
been handed over itself. The refinement needs nothing more: Inbox allows what the
engine does, a read position that moves to any message handed over. Top is a CHOOSE;
`Greatest` shows from the well-foundedness of < that its choice exists.

ReadOnward and FedAgain have no condition on the constants. ReadOnward rests on
`Onward`: the batch of a delivery task is computed when it is sent, so it is past the
read position (`NewsFresh`); and until the first stop every other batch, planned,
queued or on its way, reaches past the read position or ends at the daemon's
cursor, which then refuses it (`Ahead`). FedAgain adds, until the connection is first
lost or the agent first stopped, that what was fed is covered by the read position,
or by the ack "done" that will move it (`Counted`). Deliveries may overlap, ids
become visible out of order and reconcile() run at any time.

*Posting.* KeyIsOnce strengthens to `OwnsKey`: a post that is about to write, or
has a message, is the one recorded for its key. NoStrayFiles and the refinement
share `FilesInv`: what a request has bound is empty outside its transaction and
its end (`OnlyThen`); until the commit or the way back a bound body is in files/,
belongs to no message and is bound by one request (`Guarded`); a message's
request is past its commit (`Past`); a file with a message is in files/ (`Owned`);
after the commit every bound upload has its message (`Done`). The lemma
`StepKinds` reduces the 25 actions to six kinds: quiet ones, the move of one body
either way, the commit, the end, and a crash; each invariant is proved over these.

*AgentRuntime.* OneProcess follows from `Solo`, which is inductive as long as no
instruction met a restart: one process is heard (`OneHeard`), at most one task is
between its first and last step and it acts for the current entry (`OneActor`), a
stop under way holds the process its entry names (`StopHolds`), and a process that
was not spawned yet is nobody's (`Born`). LostStaysLost adds where a given-up
session could come back from: the file (`Kept`) and a launch that has read it
(`Fresh`).

*CodexTurns.* OneTurn needs `Serial`: with the in-flight flag down, or a reader
between a turn's end and the next submission, nothing is unended; with it up, at
most one thing is; and `OneProcess`: what the object holds belongs to the
process it spawned last. FirstInHolds
says that the turns started followed by those queued (`Lined`) are a strictly growing
enumeration of the turns fed to the process, and that turns are fed in their order
(`FedFirst`); it holds with two processes as well. BilledOnceHolds adds that
only started turns are measured and completed (`Reached`), that the usage of the
current turn is kept by the object or in a frame before that of its end, and what is
kept belongs to no other turn (`Meter`), and that completed turns are charged once
(`Billing`); these need `Serial`, hence the condition.

*Connection.* OneLive rests on the order of sockets (`InOrder`: the daemon opens
them in order and uses the last), on what an acknowledgement implies (`Settled`),
and, while no handshake went on after a later one had begun, on `InTime`: a
connection in the table is later than every handshake under way (`Newest`), whoever
is served is in the table or superseded (`Known`), and the daemon's transport is
shown as connected from its hello on, and in the table once served (`Shown`).
The step that matters is a coroutine which goes on: in time it is that of the last
socket that began (lemma `OnTime`), and so displaces nobody.

*Preview.* PortsHeld rests on where a start may be: in the calls, on the wire, in
the handler or in the table, never in two places (`StartsOnce`); on the phases a
session goes through in handler, monitor and table together (`Phases`); and on the
registry, in which the ports of different holders differ (`Registry`). It is a theorem
about the daemon's memory, whose crash empties table and registry together.

*Merge.* MergedIsTrue and MainRestored share `LaneInv`: only the head of the lane
operates and a staged merge in the tree is its own unless something crashed
(`OneOperation`), a claim in a row, an announcement, on the wire or in the hands of a
writing thread is backed by main (`ClaimsBacked`), and the
branch an operation began without is not in main until it commits (`NotYet`), so
that `reset --hard` drops nothing.

*Only model-checked:* liveness and everything under fairness, which the prover
does not reach. Every invariant and every refinement that a passing run checks is
proved as well, under the conditions of the table.

## 5. Where the code differs from what it says

With a run that ends in the violation:

- `posting_revived`: `run_held_scan` (`hub.py:3078`) and `_apply_rehold`
  (`guard/service.py:141`) write a draft by id and revive one that was closed in
  between; the third writer of that table guards against this and says why.

Larger ones, seen as violations of the modules while they were written, which the
conditions of today's properties name:

- *Posting*: `record()` commits the ledger row by its own savepoint
  (`ledger/service.py:133`). A request that fails afterwards leaves its key
  pointing at nothing, and every retry answers 404.
- *Deployment*: an instruction lost by a mere disconnection is never sent again
  (`hub.py:2622`), the row stays queued and blocks the project; `queued` means "no
  log chunk stored yet", not "not started" (`hub.py:2673`), so rule 10 may start a
  command a second time after a crash of the daemon.
- *Delivery*: `reconcile()` sends batches it planned earlier (`hub.py:1994`), and a
  message may be fed twice on a healthy link, along with new ones (FedAgain).
- *Delivery*: `_write_read_position` (`hub.py:1323`) writes what it is given. A batch
  that `reconcile()` planned, sent only after a stop and a start have cleared the
  daemon's cursor, is acked done and moves the read position back behind later
  batches, which are then delivered again. `ReadOnward` says that this is the only
  way back, and `delivery_local` contains it.
- *AgentRuntime* (the excluded `overlap`): `start()` does not cancel a restart that
  sleeps (`claude_code.ts:827`, `1064`), nor wait for the reader of a process that
  has exited, so a start during the backoff, or between exit and end of output,
  gives a second process; `onProcessExit` finds the entry by the agent's id
  (`claude_code.ts:1021`) and charges the exit to the new process, whose session it
  may even clear. A stop or restart during a supervised launch leaves a process
  that no entry owns.
- *AgentRuntime*: a spawn refused inside a supervised restart is swallowed
  (`claude_code.ts:1033`) and the agent stays "starting" (DownIsAnswered names it).
- *CodexTurns*: `deliver()` and `inject()` set the turn context of the router
  before they await (`claude_code.ts:976`, `996`): the turn in flight is charged to
  the channel of the next, and one that ends in between gives the queued turn the
  wrong one.
- *Preview*: rule 9 compares rows it reads after the handshake with the snapshot of
  the hello (`hub.py:2827`): a preview opened in between is failed although its
  process runs. The starting timeout (`hub.py:2866`) fails a row without a stop;
  the process lives until the next hello. A report that cannot be written is dropped
  (`hub.py:571`) and no scan looks at running rows (`hub.py:2796`): the row of a dead
  preview stays running until a hello whose reconciliation does not break off
  (`hub.py:3373`). A dev server that outlives its daemon keeps its
  port and is stopped by nobody (`hub.py:2786`).
- *Merge*: a hello clears the pending merges although the daemon is still merging
  (`hub.py:484`): a second merge is accepted, its conflict report then creates no
  conflict task and its merged report no message. A lost ack announces "failed"
  for a merge that succeeds (`hub.py:2576`). A status that cannot be written
  (`hub.py:574`) leaves the project answering 409 until the next hello.

- *Connection* (the excluded `late`, `stale` and `Stuck`): "每 computer 恰一活跃连接"
  (`hub.py:277`) holds only if handshakes do not overlap. `serve` takes the old
  connection out before the new one has said hello (`hub.py:422`) and enters itself
  without looking (`hub.py:439`): an older coroutine that goes on after a newer one
  has begun displaces the live connection, or its teardown shows it offline, and
  pings alone keep that connection up. A handshake that fails after the takeover, a
  killed server or a failed write in `_teardown` (`hub.py:3386`) leaves the computer
  shown as connected until its next hello; the last also skips the cancelling of
  the connection's tasks. Neither `_recv_hello` (`hub.py:471`) nor the wait for
  hello_ack (`client.ts:264`) has a timeout.
- *Posting*: two humans who release one draft at the same moment both pass the check
  (`routes/held_drafts.py:116`), and without an attachment the message is posted twice.

Smaller ones met while modelling, without a run of their own: a failed write
of a report is not retried while the link is up (`hub.py:571`); diagnostics are
acknowledged by count of a ring that may have moved (`buffer.ts:180`); the overflow
count misses the row the marker itself pushes out (`buffer.ts:163`); the overflow
marker of the usage ring is not written to disk (`buffer.ts:136`); a row is failed
closed although its command started on the new connection (`hub.py:2662`); a second
reconnection during reconciliation looks like a jitter (`hub.py:498`), and its
running rows stay running; a restart of
the server after an append and before its sidecar repeats a chunk (`hub.py:1009`);
the verdict may overtake the last chunks (`client.ts:685`); a chunk whose number
another run has used is swallowed (`hub.py:965`); a noop delivery after a wake leaves
the agent shown as busy (`hub.py:588`); `reset_session` clears the session file
before the old process, whose init frame may write it again, is stopped
(`claude_code.ts:907`); giving up after a crash loop returns before the degradation
of a lost session (`claude_code.ts:1045`), and the crash times survive a manual
restart; a delivery after giving up shows the agent as busy (`claude_code.ts:977`);
turns that were acknowledged and wait in the queue are lost with the codex process;
the pending requests of two codex processes share one map (`codex.ts:798`); a merge
report whose writer is cancelled after its ack was processed is announced by nobody;
two requests may both pass the 409 gate of a merge (`routes/tasks.py:371`); a merge
that a crash left unfinished, or a dirty main tree, refuses the merges of all other
tasks until its own is retried or a human cleans up (`git.ts:495`, `532`); `_teardown`
broadcasts the agents as offline (`hub.py:3397`) and reconciliation broadcasts only
statuses that differ from the row (`hub.py:1902`), so after a mere reconnection
browsers keep showing idle agents as offline; removing a computer does not close
its connection (`routes/computers.py:94`), whose teardown then fails on the missing
row; the reminder scan writes by id what it read (`hub.py:3020`), so a reminder that
was cancelled meanwhile becomes done.

## 6. Assumptions that carry weight

- *Ids become visible in order.* ULIDs are drawn before the transaction and are
  random within a millisecond. With `Overlap = TRUE` in Delivery a lower id can be
  committed behind the read position, and ReadIsHanded fails.
- *SQLite.* Reads before the first write see committed state and are not repeated;
  a savepoint that opens the transaction commits when released. Both are the
  behaviour of Python's `sqlite3` in its default isolation mode, which
  `db/engine.py` leaves in place.
- *The daemon's process memory and disk.* A crash keeps exactly what was written
  with the last successful rewrite.

## 7. Not modelled, and the plan

Left out of the modelled components: see "Left out" under each module. Not
modelled at all: the database schema, read routes, workspace, member, channel and
project routes (one transaction each, no state besides the database's), checks,
probes and directory scans (one bounded subprocess per request), generated types,
the Python daemon (an earlier implementation of the same protocol), the web client.

Next, in this order:

1. Tasks and the silence chain: `decide` against a reference over bounded times.
2. Reminder cadence (`rearm_fire` against a reference), the scan against a cancel
   (`hub.py:3020`), and browser fan-out (order of events across threads, `attach`
   against `detach`).
3. Delivery, Deployment, Preview and Merge with its
   sockets instead of a link that comes and goes; adding and removing a computer.
4. Proofs about Connection's callers (who waits, waits on a connection that was
   registered), and FedAgain per connection instead of for the first one.
5. Creation and cleanup of worktrees in Merge; thread scopes in Delivery.
