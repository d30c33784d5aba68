---------------------------- MODULE AgentRuntime ----------------------------
(***************************************************************************)
(* The daemon's runtime manager for one agent (claude_code.ts): a table    *)
(* entry, the child process it drives, and the supervision that restarts a *)
(* process that died.  Instructions are handled one at a time (client.ts   *)
(* awaits each handler), but a supervised restart is a task of its own: it *)
(* sleeps, looks at the entry again and launches, while instructions start *)
(* and stop the same agent.  Agents share nothing, so one is modelled.     *)
(*                                                                         *)
(* Task 0 is the instruction handler; task p supervises the exit of        *)
(* process p.  A session is named after the process that created it.       *)
(***************************************************************************)
EXTENDS Naturals, FiniteSets

CONSTANTS Instructions,  \* bound: agent instructions handled
          Crashes,       \* bound: processes that die by themselves
          SpawnFailures, \* bound: spawns the operating system refuses
          CrashMax       \* CRASH_MAX: restarts granted within the window

ASSUME RuntimeAssumption ==
  /\ Instructions \in Nat /\ Crashes \in Nat /\ SpawnFailures \in Nat
  /\ CrashMax \in Nat

VARIABLES current,   \* the entry in the manager's `agents` map, or 0
          entries,   \* the AgentEntry objects, with their process object
          procs,     \* the operating system's processes
          tasks,     \* the handler and the supervisors
          stored,    \* the session named in the agent's state file, or 0
          lost,      \* history: sessions given up as session_lost
          overlap,   \* history: an instruction met a restart under way
          used       \* instructions, crashes and spawn failures so far

vars == <<current, entries, procs, tasks, stored, lost, overlap, used>>

EntryIds == 1 .. Instructions
Pids     == 1 .. (Instructions + Crashes)
Sessions == {0} \union Pids
Tasks    == {0} \union Pids

Entry == [status : {"unborn", "starting", "idle", "error", "offline"},
          stopping : BOOLEAN, resumeUsed : BOOLEAN, confirmed : BOOLEAN,
          session : Sessions, proc : {0} \union Pids,
          crashes : 0 .. (CrashMax + 1), restart : Tasks]
Process == [life : {"unborn", "running", "exited"}, of : {0} \union EntryIds,
            heard : BOOLEAN, session : Sessions, resumed : BOOLEAN]
Task == [step : {"done", "sleep", "stop", "home", "spawn"},
         entry : {0} \union EntryIds, resume : BOOLEAN, session : Sessions,
         cancelled : BOOLEAN, victim : {0} \union Pids, relaunch : BOOLEAN]
Use == [instructions : 0 .. Instructions, crashes : 0 .. Crashes,
        failures : 0 .. SpawnFailures]

TypeInv ==
  /\ current \in {0} \union EntryIds
  /\ entries \in [EntryIds -> Entry]
  /\ procs \in [Pids -> Process]
  /\ tasks \in [Tasks -> Task]
  /\ stored \in Sessions
  /\ lost \in SUBSET Pids
  /\ overlap \in BOOLEAN
  /\ used \in Use

Done == [step |-> "done", entry |-> 0, resume |-> FALSE, session |-> 0,
         cancelled |-> FALSE, victim |-> 0, relaunch |-> FALSE]
NewEntry == [status |-> "unborn", stopping |-> FALSE, resumeUsed |-> FALSE,
             confirmed |-> FALSE, session |-> 0, proc |-> 0, crashes |-> 0,
             restart |-> 0]

Init ==
  /\ current = 0
  /\ entries = [e \in EntryIds |-> NewEntry]
  /\ procs = [p \in Pids |-> [life |-> "unborn", of |-> 0, heard |-> FALSE,
                              session |-> 0, resumed |-> FALSE]]
  /\ tasks = [t \in Tasks |-> Done]
  /\ stored = 0
  /\ lost = {}
  /\ overlap = FALSE
  /\ used = [instructions |-> 0, crashes |-> 0, failures |-> 0]

-----------------------------------------------------------------------------
Running(p) == p # 0 /\ procs[p].life = "running"

\* A supervisor of the entry that sleeps, or that is past its last look.
Sleeping(e)  == {p \in Pids : /\ tasks[p].step = "sleep" /\ tasks[p].entry = e
                              /\ ~tasks[p].cancelled}
Launching(e) == {p \in Pids : /\ tasks[p].step \in {"home", "spawn"}
                              /\ tasks[p].entry = e}
\* A process of the entry that died and whose reader has not noticed.
Unnoticed(e) == {p \in Pids : /\ procs[p].of = e
                              /\ procs[p].life = "exited" /\ procs[p].heard}

TakesInstruction ==
  /\ tasks[0].step = "done"
  /\ used.instructions < Instructions
  /\ used' = [used EXCEPT !.instructions = @ + 1]

\* launch() up to its first await: the entry is taken into service again.
Launched(entry, resume) ==
  [entry EXCEPT !.status = "starting", !.stopping = FALSE,
                !.resumeUsed = resume]

\* launch() of an instruction, of the entry in the map or of a new one.
Launch(resume) ==
  \E e \in EntryIds :
    /\ IF current # 0
       THEN e = current
       ELSE /\ entries[e].status = "unborn"
            /\ \A d \in EntryIds : d < e => entries[d].status # "unborn"
    /\ current' = e
    /\ entries' = [entries EXCEPT ![e] = Launched(@, resume)]
    /\ tasks' = [tasks EXCEPT ![0] = [Done EXCEPT !.step = "home", !.entry = e,
                                                  !.resume = resume]]
    /\ overlap' = \/ overlap
                   \/ Sleeping(e) \union Launching(e) \union Unnoticed(e) # {}

\* agent.start: a noop while the process runs.
Start ==
  /\ TakesInstruction
  /\ ~(current # 0 /\ Running(entries[current].proc))
  /\ Launch(stored # 0)
  /\ UNCHANGED <<procs, stored, lost>>

\* The common part of stop() and respawn(): no more supervision of the
\* entry, and the process object is told to stop.
BeginStop(relaunch, resume) ==
  LET e == current
      r == entries[e].restart
  IN /\ entries' = [entries EXCEPT ![e].stopping = TRUE]
     /\ tasks' = [t \in Tasks |->
          IF t = 0 THEN [Done EXCEPT !.step = "stop", !.entry = e,
                           !.victim = entries[e].proc, !.resume = resume,
                           !.relaunch = relaunch]
          ELSE IF t = r THEN [tasks[t] EXCEPT !.cancelled = TRUE]
          ELSE tasks[t]]
     /\ overlap' = (overlap \/ Launching(e) # {})

\* agent.stop
Stop ==
  /\ TakesInstruction
  /\ current # 0
  /\ BeginStop(FALSE, FALSE)
  /\ current' = 0
  /\ UNCHANGED <<procs, stored, lost>>

\* agent.restart keeps the session; agent.reset_session and agent.reset_full
\* clear it first.
Respawn(reset) ==
  /\ TakesInstruction
  /\ stored' = IF reset THEN 0 ELSE stored
  /\ IF current = 0
     THEN Launch(~reset)
     ELSE BeginStop(TRUE, ~reset) /\ UNCHANGED current
  /\ UNCHANGED <<procs, lost>>

\* ClaudeCodeProcess.stop: the process gets 5 s to leave, then it is
\* terminated, then killed.
Killed ==
  /\ tasks[0].step = "stop"
  /\ Running(tasks[0].victim)
  /\ procs' = [procs EXCEPT ![tasks[0].victim].life = "exited"]
  /\ UNCHANGED <<current, entries, tasks, stored, lost, overlap, used>>

TakenOff(entry) == [entry EXCEPT !.status = "offline"]

\* The rest of stop(): the reader of the latest process is cancelled and the
\* process object forgets it; then offline, or the launch of a respawn.
Stopped ==
  LET h == tasks[0]
      e == h.entry
      p == entries[e].proc
      cleared == IF h.victim = 0 THEN entries[e] ELSE [entries[e] EXCEPT !.proc = 0]
  IN /\ h.step = "stop"
     /\ ~Running(h.victim)
     /\ procs' = IF h.victim = 0 \/ p = 0 THEN procs
                 ELSE [procs EXCEPT ![p].heard = FALSE]
     /\ IF h.relaunch
        THEN /\ entries' = [entries EXCEPT ![e] = Launched(cleared, h.resume)]
             /\ tasks' = [tasks EXCEPT ![0] = [Done EXCEPT !.step = "home",
                                            !.entry = e, !.resume = h.resume]]
        ELSE /\ entries' = [entries EXCEPT ![e] = TakenOff(cleared)]
             /\ tasks' = [tasks EXCEPT ![0] = Done]
     /\ UNCHANGED <<current, stored, lost, overlap, used>>

-----------------------------------------------------------------------------
\* The rest of launch(): the home is prepared, the session to resume is read
\* and the process object reset; then the process is spawned.
Prepared(t) ==
  LET e == tasks[t].entry
  IN /\ tasks[t].step = "home"
     /\ tasks' = [tasks EXCEPT ![t].step = "spawn",
                    ![t].session = IF tasks[t].resume THEN stored ELSE 0]
     /\ entries' = [entries EXCEPT ![e].confirmed = FALSE]
     /\ UNCHANGED <<current, procs, stored, lost, overlap, used>>

Spawned(t) ==
  LET e == tasks[t].entry
      s == tasks[t].session
  IN /\ tasks[t].step = "spawn"
     /\ \E p \in Pids :
          /\ procs[p].life = "unborn"
          /\ \A q \in Pids : q < p => procs[q].life # "unborn"
          /\ procs' = [procs EXCEPT ![p] =
               [life |-> "running", of |-> e, heard |-> TRUE,
                session |-> IF s = 0 THEN p ELSE s, resumed |-> s # 0]]
          /\ entries' = [entries EXCEPT ![e].proc = p, ![e].status = "idle"]
     /\ tasks' = [tasks EXCEPT ![t] = Done]
     /\ UNCHANGED <<current, stored, lost, overlap, used>>

\* The spawn is refused: an instruction is acknowledged as failed, the error
\* of a supervisor is swallowed; nothing else happens.
SpawnFails(t) ==
  /\ tasks[t].step = "spawn"
  /\ used.failures < SpawnFailures
  /\ used' = [used EXCEPT !.failures = @ + 1]
  /\ tasks' = [tasks EXCEPT ![t] = Done]
  /\ UNCHANGED <<current, entries, procs, stored, lost, overlap>>

\* The first frames of a process name its session: the process object
\* remembers it, and writes it to the state file when it is a new one.
Confirmed(p) ==
  LET e == procs[p].of
  IN /\ Running(p) /\ procs[p].heard
     /\ entries' = [entries EXCEPT ![e].confirmed = TRUE,
                                   ![e].session = procs[p].session]
     /\ stored' = IF entries[e].session = procs[p].session THEN stored
                  ELSE procs[p].session
     /\ UNCHANGED <<current, procs, tasks, lost, overlap, used>>

Crash(p) ==
  /\ Running(p)
  /\ used.crashes < Crashes
  /\ used' = [used EXCEPT !.crashes = @ + 1]
  /\ procs' = [procs EXCEPT ![p].life = "exited"]
  /\ UNCHANGED <<current, entries, tasks, stored, lost, overlap>>

\* (mutant) the agent is given up without a report
GivenUp_Silent(entry) == entry

GivenUp(entry) == [entry EXCEPT !.status = "error"]

\* (mutant) the state file goes on naming the session
ClearSession_Not(degrade) == UNCHANGED stored

ClearSession(degrade) == stored' = IF degrade THEN 0 ELSE stored

\* superviseRestart up to its sleep, for the entry in the map: the crash is
\* counted in the window (kept of the earlier ones are still inside), beyond
\* CrashMax the agent is given up, and a resume that was never confirmed
\* costs the session.
Supervise(p, kept) ==
  LET e == entries[current]
      attempt == kept + 1
      degrade == e.resumeUsed /\ ~e.confirmed
  IN IF attempt > CrashMax
     THEN /\ entries' = [entries EXCEPT ![current] =
                 GivenUp([e EXCEPT !.crashes = attempt, !.restart = p])]
          /\ UNCHANGED <<tasks, stored, lost>>
     ELSE /\ entries' = [entries EXCEPT ![current] =
                 [e EXCEPT !.crashes = attempt, !.restart = p]]
          /\ tasks' = [tasks EXCEPT ![p] = [Done EXCEPT !.step = "sleep",
                           !.entry = current, !.resume = ~degrade]]
          /\ ClearSession(degrade)
          /\ lost' = IF degrade THEN lost \union ({stored} \ {0}) ELSE lost

\* The read loop reaches the end of the output: onProcessExit.
ExitNoticed(p) ==
  /\ procs[p].life = "exited" /\ procs[p].heard
  /\ procs' = [procs EXCEPT ![p].heard = FALSE]
  /\ IF current = 0 \/ entries[current].stopping
     THEN UNCHANGED <<entries, tasks, stored, lost>>
     ELSE \E kept \in 0 .. entries[current].crashes :
            kept <= CrashMax /\ Supervise(p, kept)
  /\ UNCHANGED <<current, overlap, used>>

\* (mutant) nobody looks again after the sleep
MayRelaunch_Blindly(p) == ~tasks[p].cancelled \/ tasks[p].entry \in EntryIds

\* superviseRestart after its sleep.
MayRelaunch(p) ==
  /\ ~tasks[p].cancelled
  /\ current = tasks[p].entry
  /\ ~entries[current].stopping

Wakes(p) ==
  LET e == tasks[p].entry
  IN /\ tasks[p].step = "sleep"
     /\ IF MayRelaunch(p)
        THEN /\ entries' = [entries EXCEPT ![e] = Launched(@, tasks[p].resume)]
             /\ tasks' = [tasks EXCEPT ![p].step = "home"]
        ELSE /\ tasks' = [tasks EXCEPT ![p] = Done]
             /\ UNCHANGED entries
     /\ UNCHANGED <<current, procs, stored, lost, overlap, used>>

-----------------------------------------------------------------------------
Next ==
  \/ Start \/ Stop \/ (\E reset \in BOOLEAN : Respawn(reset))
  \/ Killed \/ Stopped
  \/ \E t \in Tasks : Prepared(t) \/ Spawned(t) \/ SpawnFails(t)
  \/ \E p \in Pids : Confirmed(p) \/ Crash(p) \/ ExitNoticed(p) \/ Wakes(p)

\* What the daemon's own code and the operating system go on to do.
Fairness ==
  /\ WF_vars(Killed) /\ WF_vars(Stopped)
  /\ \A t \in Tasks : WF_vars(Prepared(t)) /\ WF_vars(Spawned(t))
  /\ \A p \in Pids : WF_vars(ExitNoticed(p)) /\ WF_vars(Wakes(p))

Spec == Init /\ [][Next]_vars /\ Fairness

-----------------------------------------------------------------------------
Live == {p \in Pids : Running(p)}

\* An agent has at most one process, and a running process is the one its
\* entry in the map would stop, or the one the handler is stopping: unless
\* an instruction met a supervised restart, no order of crashes, restarts
\* and instructions leaves a process nobody owns.
OneProcess ==
  ~overlap =>
    /\ \A p, q \in Live : p = q
    /\ \A p \in Live : \/ current # 0 /\ entries[current].proc = p
                       \/ tasks[0].step = "stop" /\ tasks[0].victim = p

\* A session that was given up is not resumed again, however often the agent
\* is started, restarted or supervised afterwards.
LostStaysLost ==
  ~overlap => \A p \in Live : procs[p].resumed => procs[p].session \notin lost

\* The restarts of the supervision are a circuit: an agent of the map without
\* a process gets one, or is reported in error, or a spawn was refused.
Down == current # 0 /\ \A p \in Live : procs[p].of # current
DownIsAnswered ==
  Down ~> (~Down \/ entries[current].status = "error" \/ used.failures > 0)

=============================================================================
