------------------------- MODULE AgentRuntimeProofs -------------------------
(***************************************************************************)
(* Theorems about AgentRuntime for any number of instructions, crashes,    *)
(* refused spawns and restarts granted, and, in the last part, about       *)
(* Connection, the connection over which the instructions arrive, for any  *)
(* number of sockets, callers and faults.                                  *)
(***************************************************************************)
EXTENDS AgentRuntime, Connection, TLAPS

-----------------------------------------------------------------------------
(* Types *)

\* A task that is not over works on an entry, and so does a process that is
\* still listened to.
Named == /\ \A t \in Tasks : tasks[t].step # "done" => tasks[t].entry \in EntryIds
         /\ \A p \in Pids : procs[p].heard => procs[p].of \in EntryIds

Typed == TypeInv /\ Named

LEMMA Numbers ==
  ASSUME RuntimeAssumption
  PROVE  /\ EntryIds \subseteq Nat \ {0} /\ Pids \subseteq Nat \ {0}
         /\ Tasks = {0} \union Pids /\ 0 \in Tasks /\ 0 \notin Pids /\ 0 \notin EntryIds
BY DEF RuntimeAssumption, EntryIds, Pids, Tasks

LEMMA LaunchedType ==
  ASSUME NEW x \in Entry, NEW resume \in BOOLEAN
  PROVE  Launched(x, resume) \in Entry
BY DEF Launched, Entry

LEMMA EntryUpdates ==
  ASSUME NEW x \in Entry, NEW p \in Pids, NEW id \in Sessions
  PROVE  /\ [x EXCEPT !.proc = p, !.status = "idle"] \in Entry
         /\ [x EXCEPT !.confirmed = TRUE, !.session = id] \in Entry
BY DEF Entry

LEMMA TaskUpdates ==
  ASSUME NEW x \in Task
  PROVE  /\ [x EXCEPT !.cancelled = TRUE] \in Task
         /\ [x EXCEPT !.cancelled = TRUE].step = x.step
         /\ [x EXCEPT !.cancelled = TRUE].entry = x.entry
         /\ [x EXCEPT !.step = "home"] \in Task
BY DEF Task

LEMMA Unheard ==
  ASSUME NEW x \in Process
  PROVE  /\ [x EXCEPT !.heard = FALSE] \in Process
         /\ ~[x EXCEPT !.heard = FALSE].heard
         /\ [x EXCEPT !.heard = FALSE].of = x.of
BY DEF Process

LEMMA NewTasks ==
  ASSUME RuntimeAssumption, NEW e \in EntryIds, NEW resume \in BOOLEAN,
         NEW relaunch \in BOOLEAN, NEW victim \in {0} \union Pids
  PROVE  /\ Done \in Task
         /\ [Done EXCEPT !.step = "home", !.entry = e, !.resume = resume] \in Task
         /\ [Done EXCEPT !.step = "sleep", !.entry = e, !.resume = resume] \in Task
         /\ [Done EXCEPT !.step = "stop", !.entry = e, !.victim = victim,
                         !.resume = resume, !.relaunch = relaunch] \in Task
BY DEF Done, Task, Sessions

LEMMA TakesType ==
  ASSUME RuntimeAssumption, TypeInv, TakesInstruction
  PROVE  used' \in Use
BY DEF RuntimeAssumption, TypeInv, TakesInstruction, Use

LEMMA LaunchTyped ==
  ASSUME RuntimeAssumption, Typed, NEW resume \in BOOLEAN, TakesInstruction,
         Launch(resume), stored' \in Sessions, UNCHANGED <<procs, lost>>
  PROVE  Typed'
<1>1. PICK e \in EntryIds :
        /\ current' = e
        /\ entries' = [entries EXCEPT ![e] = Launched(@, resume)]
        /\ tasks' = [tasks EXCEPT ![0] = [Done EXCEPT !.step = "home", !.entry = e,
                                                      !.resume = resume]]
        /\ overlap' \in BOOLEAN
  BY DEF Launch, Typed, TypeInv
<1>2. entries' \in [EntryIds -> Entry]
  BY <1>1, LaunchedType DEF Typed, TypeInv
<1>3. tasks' \in [Tasks -> Task]
  BY <1>1, NewTasks DEF Typed, TypeInv
<1>4. Named'
  BY <1>1, Numbers DEF Typed, TypeInv, Named, Done
<1> QED
  BY <1>1, <1>2, <1>3, <1>4, TakesType DEF Typed, TypeInv

LEMMA BeginStopTyped ==
  ASSUME RuntimeAssumption, Typed, NEW resume \in BOOLEAN, NEW relaunch \in BOOLEAN,
         TakesInstruction, current # 0, BeginStop(relaunch, resume),
         stored' \in Sessions, current' \in {0} \union EntryIds, UNCHANGED <<procs, lost>>
  PROVE  Typed'
<1>1. current \in EntryIds /\ entries[current] \in Entry
  BY DEF Typed, TypeInv
<1>2. entries' \in [EntryIds -> Entry]
  BY <1>1 DEF BeginStop, Typed, TypeInv, Entry
<1>3. \A t \in Tasks : tasks'[t] \in Task /\ (tasks'[t].step # "done" => tasks'[t].entry \in EntryIds)
  <2> SUFFICES ASSUME NEW t \in Tasks
               PROVE  tasks'[t] \in Task /\ (tasks'[t].step # "done" => tasks'[t].entry \in EntryIds)
    OBVIOUS
  <2>1. CASE t = 0
    <3>1. entries[current].proc \in {0} \union Pids
      BY <1>1 DEF Entry
    <3>2. tasks'[t] = [Done EXCEPT !.step = "stop", !.entry = current,
                         !.victim = entries[current].proc, !.resume = resume,
                         !.relaunch = relaunch]
      BY <2>1 DEF BeginStop
    <3>3. tasks'[t] \in Task
      <4> DEFINE v == entries[current].proc
      <4>1. v \in {0} \union Pids
        BY <3>1
      <4> HIDE DEF v
      <4>2. [Done EXCEPT !.step = "stop", !.entry = current, !.victim = v,
                         !.resume = resume, !.relaunch = relaunch] \in Task
        BY <1>1, <4>1, NewTasks
      <4> QED
        BY <3>2, <4>2 DEF v
    <3>4. tasks'[t].entry = current
      BY <3>2 DEF Done
    <3> QED
      BY <1>1, <3>3, <3>4
  <2>2. CASE t # 0
    <3>1. tasks'[t] = tasks[t] \/ tasks'[t] = [tasks[t] EXCEPT !.cancelled = TRUE]
      BY <2>2 DEF BeginStop
    <3>2. tasks[t] \in Task /\ (tasks[t].step # "done" => tasks[t].entry \in EntryIds)
      BY DEF Typed, TypeInv, Named
    <3>3. CASE tasks'[t] = tasks[t]
      BY <3>2, <3>3
    <3>4. CASE tasks'[t] = [tasks[t] EXCEPT !.cancelled = TRUE]
      BY <3>2, <3>4, TaskUpdates
    <3> QED
      BY <3>1, <3>3, <3>4
  <2> QED
    BY <2>1, <2>2
<1>4. tasks' \in [Tasks -> Task]
  BY <1>3 DEF BeginStop
<1>5. Named'
  BY <1>3 DEF Typed, Named
<1> QED
  BY <1>2, <1>4, <1>5, TakesType DEF Typed, TypeInv, BeginStop

LEMMA StopTyped ==
  ASSUME RuntimeAssumption, Typed, Killed \/ Stopped
  PROVE  Typed'
<1>1. CASE Killed
  <2>1. procs' \in [Pids -> Process] /\ \A p \in Pids : procs'[p].heard = procs[p].heard
                                                       /\ procs'[p].of = procs[p].of
    <3>1. \A p \in Pids : procs[p] \in Process
      BY DEF Typed, TypeInv
    <3>2. \A p \in Pids : \/ procs'[p] = procs[p]
                           \/ procs'[p] = [procs[p] EXCEPT !.life = "exited"]
      BY <1>1 DEF Killed, Typed, TypeInv
    <3>3. ASSUME NEW p \in Pids, procs'[p] = [procs[p] EXCEPT !.life = "exited"]
          PROVE  /\ procs'[p] \in Process
                 /\ procs'[p].heard = procs[p].heard /\ procs'[p].of = procs[p].of
      BY <3>1, <3>3 DEF Process
    <3>4. \A p \in Pids : procs'[p] \in Process
      BY <3>1, <3>2, <3>3
    <3>5. procs' \in [Pids -> Process]
      BY <1>1, <3>4 DEF Killed, Typed, TypeInv
    <3> QED
      BY <3>2, <3>3, <3>5
  <2>2. Named'
    BY <1>1, <2>1 DEF Killed, Typed, Named
  <2>3. TypeInv'
    BY <1>1, <2>1 DEF Killed, Typed, TypeInv
  <2> QED
    BY <2>2, <2>3 DEF Typed
<1>2. CASE Stopped
  <2> DEFINE h == tasks[0]
             cleared == IF h.victim = 0 THEN entries[h.entry]
                        ELSE [entries[h.entry] EXCEPT !.proc = 0]
  <2>1. h \in Task /\ h.entry \in EntryIds
    BY <1>2, Numbers DEF Stopped, Typed, TypeInv, Named
  <2>2. cleared \in Entry
    BY <2>1 DEF Typed, TypeInv, Entry
  <2>3. /\ procs' \in [Pids -> Process]
        /\ \A p \in Pids : (procs'[p].heard => procs[p].heard) /\ procs'[p].of = procs[p].of
    <3>1. \/ procs' = procs
          \/ procs' = [procs EXCEPT ![entries[h.entry].proc].heard = FALSE]
      BY <1>2 DEF Stopped
    <3>2. \A p \in Pids : procs'[p] = procs[p] \/ procs'[p] = [procs[p] EXCEPT !.heard = FALSE]
      BY <3>1 DEF Typed, TypeInv
    <3>3. \A p \in Pids : /\ procs'[p] \in Process /\ procs'[p].of = procs[p].of
                          /\ procs'[p].heard => procs[p].heard
      BY <3>2, Unheard DEF Typed, TypeInv
    <3>4. procs' = [p \in Pids |-> procs'[p]]
      BY <3>1 DEF Typed, TypeInv
    <3>5. \A p \in Pids : procs'[p] \in Process
      BY <3>3
    <3>6. procs' \in [Pids -> Process]
      <4> HIDE DEF h, cleared
      <4> QED
        BY <3>4, <3>5, Zenon
    <3> QED
      BY <3>3, <3>6
  <2>4. CASE h.relaunch
    <3>1. /\ entries' = [entries EXCEPT ![h.entry] = Launched(cleared, h.resume)]
          /\ tasks' = [tasks EXCEPT ![0] = [Done EXCEPT !.step = "home",
                                        !.entry = h.entry, !.resume = h.resume]]
      BY <1>2, <2>4 DEF Stopped
    <3>2. h.resume \in BOOLEAN
      BY <2>1 DEF Task
    <3>3. entries' \in [EntryIds -> Entry] /\ tasks' \in [Tasks -> Task]
      <4> HIDE DEF cleared
      <4> QED
        BY <2>1, <2>2, <3>1, <3>2, LaunchedType, NewTasks DEF Typed, TypeInv
    <3>4. Named'
      BY <2>1, <2>3, <3>1, Numbers DEF Typed, TypeInv, Named, Done
    <3> QED
      BY <1>2, <2>3, <3>3, <3>4 DEF Stopped, Typed, TypeInv
  <2>5. CASE ~h.relaunch
    <3>1. /\ entries' = [entries EXCEPT ![h.entry] = TakenOff(cleared)]
          /\ tasks' = [tasks EXCEPT ![0] = Done]
      BY <1>2, <2>5 DEF Stopped
    <3>2. TakenOff(cleared) \in Entry
      BY <2>2 DEF TakenOff, Entry
    <3>3. entries' \in [EntryIds -> Entry] /\ tasks' \in [Tasks -> Task]
      BY <2>1, <3>1, <3>2, NewTasks DEF Typed, TypeInv
    <3>4. Named'
      BY <2>3, <3>1, Numbers DEF Typed, TypeInv, Named, Done
    <3> QED
      BY <1>2, <2>3, <3>3, <3>4 DEF Stopped, Typed, TypeInv
  <2> QED
    BY <2>4, <2>5
<1> QED
  BY <1>1, <1>2

LEMMA SpawnTyped ==
  ASSUME RuntimeAssumption, Typed, NEW t \in Tasks, Prepared(t) \/ Spawned(t) \/ SpawnFails(t)
  PROVE  Typed'
<1>1. tasks[t] \in Task /\ tasks[t].entry \in EntryIds
  BY DEF Prepared, Spawned, SpawnFails, Typed, TypeInv, Named
<1>2. CASE Prepared(t)
  <2>1. tasks' \in [Tasks -> Task]
    BY <1>1, <1>2 DEF Prepared, Typed, TypeInv, Task, Sessions
  <2>2. entries' \in [EntryIds -> Entry]
    <3>1. entries' = [entries EXCEPT ![tasks[t].entry] =
                        [entries[tasks[t].entry] EXCEPT !.confirmed = FALSE]]
      BY <1>1, <1>2 DEF Prepared, Typed, TypeInv
    <3>2. entries[tasks[t].entry] \in Entry
      BY <1>1 DEF Typed, TypeInv
    <3>3. [entries[tasks[t].entry] EXCEPT !.confirmed = FALSE] \in Entry
      BY <3>2 DEF Entry
    <3> QED
      BY <1>1, <3>1, <3>3 DEF Typed, TypeInv
  <2>3. Named'
    BY <1>1, <1>2 DEF Prepared, Typed, TypeInv, Named, Task
  <2> QED
    BY <1>2, <2>1, <2>2, <2>3 DEF Prepared, Typed, TypeInv
<1>3. CASE Spawned(t)
  <2> DEFINE s == tasks[t].session
  <2>1. PICK p \in Pids :
          /\ procs' = [procs EXCEPT ![p] =
               [life |-> "running", of |-> tasks[t].entry, heard |-> TRUE,
                session |-> IF s = 0 THEN p ELSE s, resumed |-> s # 0]]
          /\ entries' = [entries EXCEPT ![tasks[t].entry].proc = p,
                                        ![tasks[t].entry].status = "idle"]
    BY <1>3 DEF Spawned
  <2>2. [life |-> "running", of |-> tasks[t].entry, heard |-> TRUE,
         session |-> IF s = 0 THEN p ELSE s, resumed |-> s # 0] \in Process
    BY <1>1 DEF Process, Task, Sessions
  <2>3. procs' \in [Pids -> Process] /\ entries' \in [EntryIds -> Entry]
    <3>1. [entries[tasks[t].entry] EXCEPT !.proc = p, !.status = "idle"] \in Entry
      BY <1>1, EntryUpdates DEF Typed, TypeInv
    <3>2. entries' = [entries EXCEPT ![tasks[t].entry] =
                        [entries[tasks[t].entry] EXCEPT !.proc = p, !.status = "idle"]]
      BY <1>1, <2>1 DEF Typed, TypeInv
    <3> QED
      BY <1>1, <2>1, <2>2, <3>1, <3>2 DEF Typed, TypeInv
  <2>4. tasks' \in [Tasks -> Task]
    BY <1>1, <1>3, NewTasks DEF Spawned, Typed, TypeInv
  <2>5. Named'
    <3>1. \A r \in Tasks : tasks'[r].step # "done" => tasks'[r] = tasks[r]
      BY <1>3 DEF Spawned, Typed, TypeInv, Done
    <3>2. \A q \in Pids : procs'[q] = procs[q] \/ procs'[q].of = tasks[t].entry
      BY <2>1 DEF Typed, TypeInv
    <3> QED
      BY <1>1, <3>1, <3>2 DEF Typed, Named
  <2> QED
    BY <1>3, <2>3, <2>4, <2>5 DEF Spawned, Typed, TypeInv
<1>4. CASE SpawnFails(t)
  <2>1. tasks' \in [Tasks -> Task]
    BY <1>1, <1>4, NewTasks DEF SpawnFails, Typed, TypeInv
  <2>2. used' \in Use
    BY <1>4 DEF SpawnFails, Typed, TypeInv, RuntimeAssumption, Use
  <2>3. Named'
    BY <1>4 DEF SpawnFails, Typed, TypeInv, Named, Done
  <2> QED
    BY <1>4, <2>1, <2>2, <2>3 DEF SpawnFails, Typed, TypeInv
<1> QED
  BY <1>2, <1>3, <1>4

LEMMA SuperviseTyped ==
  ASSUME RuntimeAssumption, Typed, current # 0, NEW p \in Pids, NEW kept \in Nat,
         kept <= CrashMax, Supervise(p, kept)
  PROVE  /\ entries' \in [EntryIds -> Entry] /\ tasks' \in [Tasks -> Task]
         /\ stored' \in Sessions /\ lost' \in SUBSET Pids
         /\ \A t \in Tasks : tasks'[t].step # "done" => tasks'[t].entry \in EntryIds
<1> DEFINE e == [entries[current] EXCEPT !.crashes = kept + 1, !.restart = p]
           degrade == entries[current].resumeUsed /\ ~entries[current].confirmed
<1>1. current \in EntryIds /\ p \in Tasks /\ degrade \in BOOLEAN
  BY Numbers DEF Typed, TypeInv, Entry
<1>2. kept + 1 \in 0 .. (CrashMax + 1)
  BY DEF RuntimeAssumption
<1>3. e \in Entry /\ GivenUp(e) \in Entry
  <2>1. entries[current] \in Entry
    BY <1>1 DEF Typed, TypeInv
  <2>2. e \in Entry
    BY <1>1, <1>2, <2>1 DEF Entry
  <2>3. GivenUp(e) \in Entry
    BY <2>2 DEF GivenUp, Entry
  <2> QED
    BY <2>2, <2>3
<1>4. CASE kept + 1 > CrashMax
  <2>1. entries' = [entries EXCEPT ![current] = GivenUp(e)] /\ UNCHANGED <<tasks, stored, lost>>
    BY <1>4 DEF Supervise
  <2> QED
    BY <1>3, <2>1 DEF Typed, TypeInv, Named
<1>5. CASE ~(kept + 1 > CrashMax)
  <2>1. /\ entries' = [entries EXCEPT ![current] = e]
        /\ tasks' = [tasks EXCEPT ![p] = [Done EXCEPT !.step = "sleep",
                         !.entry = current, !.resume = ~degrade]]
        /\ ClearSession(degrade)
        /\ lost' = IF degrade THEN lost \union ({stored} \ {0}) ELSE lost
    BY <1>5 DEF Supervise
  <2>2. stored' \in Sessions /\ lost' \in SUBSET Pids
    BY <2>1 DEF ClearSession, Typed, TypeInv, Sessions
  <2>3. tasks' \in [Tasks -> Task]
    BY <1>1, <2>1, NewTasks DEF Typed, TypeInv
  <2>4. \A t \in Tasks : tasks'[t].step # "done" => tasks'[t].entry \in EntryIds
    BY <1>1, <2>1 DEF Typed, TypeInv, Named, Done
  <2>5. entries' \in [EntryIds -> Entry]
    BY <1>3, <2>1 DEF Typed, TypeInv
  <2> QED
    BY <2>2, <2>3, <2>4, <2>5
<1> QED
  BY <1>4, <1>5

LEMMA ProcessTyped ==
  ASSUME RuntimeAssumption, Typed, NEW p \in Pids,
         Confirmed(p) \/ Crash(p) \/ ExitNoticed(p) \/ Wakes(p)
  PROVE  Typed'
<1>1. CASE Confirmed(p)
  <2>1. procs[p] \in Process /\ procs[p].of \in EntryIds /\ procs[p].session \in Sessions
    BY <1>1 DEF Confirmed, Typed, TypeInv, Named, Process
  <2>2. [entries[procs[p].of] EXCEPT !.confirmed = TRUE, !.session = procs[p].session]
          \in Entry
    BY <2>1, EntryUpdates DEF Typed, TypeInv
  <2>3. entries' = [entries EXCEPT ![procs[p].of] =
          [entries[procs[p].of] EXCEPT !.confirmed = TRUE, !.session = procs[p].session]]
    BY <1>1, <2>1 DEF Confirmed, Typed, TypeInv
  <2>4. entries' \in [EntryIds -> Entry] /\ stored' \in Sessions
    BY <1>1, <2>1, <2>2, <2>3 DEF Confirmed, Typed, TypeInv
  <2> QED
    BY <1>1, <2>4 DEF Confirmed, Typed, TypeInv, Named
<1>2. CASE Crash(p)
  <2>1. procs' \in [Pids -> Process] /\ \A q \in Pids : procs'[q].heard = procs[q].heard
                                                       /\ procs'[q].of = procs[q].of
    BY <1>2 DEF Crash, Typed, TypeInv, Process
  <2>2. used' \in Use
    BY <1>2 DEF Crash, Typed, TypeInv, RuntimeAssumption, Use
  <2> QED
    BY <1>2, <2>1, <2>2 DEF Crash, Typed, TypeInv, Named
<1>3. CASE ExitNoticed(p)
  <2>1. /\ procs' \in [Pids -> Process]
        /\ \A q \in Pids : (procs'[q].heard => procs[q].heard) /\ procs'[q].of = procs[q].of
    BY <1>3 DEF ExitNoticed, Typed, TypeInv, Process
  <2>2. /\ entries' \in [EntryIds -> Entry] /\ tasks' \in [Tasks -> Task]
        /\ stored' \in Sessions /\ lost' \in SUBSET Pids
        /\ \A t \in Tasks : tasks'[t].step # "done" => tasks'[t].entry \in EntryIds
    <3>1. CASE UNCHANGED <<entries, tasks, stored, lost>>
      BY <3>1 DEF Typed, TypeInv, Named
    <3>2. CASE ~UNCHANGED <<entries, tasks, stored, lost>>
      <4>1. current # 0 /\ current \in EntryIds
        BY <1>3, <3>2 DEF ExitNoticed, Typed, TypeInv
      <4>2. PICK kept \in 0 .. entries[current].crashes :
              kept <= CrashMax /\ Supervise(p, kept)
        BY <1>3, <3>2 DEF ExitNoticed
      <4>3. kept \in Nat
        BY <4>1, <4>2 DEF Typed, TypeInv, Entry, RuntimeAssumption
      <4> QED
        BY <4>1, <4>2, <4>3, SuperviseTyped
    <3> QED
      BY <3>1, <3>2
  <2> QED
    BY <1>3, <2>1, <2>2 DEF ExitNoticed, Typed, TypeInv, Named
<1>4. CASE Wakes(p)
  <2>1. p \in Tasks /\ tasks[p] \in Task /\ tasks[p].entry \in EntryIds
    BY <1>4, Numbers DEF Wakes, Typed, TypeInv, Named
  <2>2. entries' \in [EntryIds -> Entry]
    <3>1. tasks[p].resume \in BOOLEAN
      BY <2>1 DEF Task
    <3> QED
      BY <1>4, <2>1, <3>1, LaunchedType DEF Wakes, Typed, TypeInv
  <2>3. tasks' \in [Tasks -> Task]
    <3>1. [tasks[p] EXCEPT !.step = "home"] \in Task /\ Done \in Task
      BY <2>1, NewTasks, TaskUpdates
    <3>2. \/ tasks' = [tasks EXCEPT ![p] = [tasks[p] EXCEPT !.step = "home"]]
          \/ tasks' = [tasks EXCEPT ![p] = Done]
      BY <1>4 DEF Wakes
    <3> QED
      BY <2>1, <3>1, <3>2 DEF Typed, TypeInv
  <2>4. Named'
    BY <1>4, <2>1 DEF Wakes, Typed, TypeInv, Named, Done, Task
  <2> QED
    BY <1>4, <2>2, <2>3, <2>4 DEF Wakes, Typed, TypeInv
<1> QED
  BY <1>1, <1>2, <1>3, <1>4

LEMMA InitTyped ==
  ASSUME RuntimeAssumption, Init
  PROVE  Typed
<1>1. /\ NewEntry \in Entry /\ Done \in Task /\ 0 \in Sessions
      /\ [life |-> "unborn", of |-> 0, heard |-> FALSE, session |-> 0, resumed |-> FALSE]
           \in Process
      /\ [instructions |-> 0, crashes |-> 0, failures |-> 0] \in Use
  BY Numbers DEF RuntimeAssumption, NewEntry, Done, Entry, Process, Task, Use, Sessions
<1>2. TypeInv
  BY <1>1 DEF Init, TypeInv
<1>3. Named
  BY DEF Init, Named, Done
<1> QED
  BY <1>2, <1>3 DEF Typed

LEMMA StepTyped ==
  ASSUME RuntimeAssumption, Typed, [Next]_vars
  PROVE  Typed'
<1>1. CASE UNCHANGED vars
  BY <1>1 DEF vars, Typed, TypeInv, Named
<1>2. CASE Start
  <2>1. (stored # 0) \in BOOLEAN /\ stored' \in Sessions
    BY <1>2 DEF Start, Typed, TypeInv
  <2> QED
    BY <1>2, <2>1, LaunchTyped DEF Start
<1>3. CASE Stop
  BY <1>3, BeginStopTyped DEF Stop, Typed, TypeInv
<1>4. ASSUME NEW reset \in BOOLEAN, Respawn(reset)
      PROVE  Typed'
  <2>1. stored' \in Sessions /\ (~reset) \in BOOLEAN /\ current \in {0} \union EntryIds
    BY <1>4 DEF Respawn, Typed, TypeInv, Sessions
  <2> QED
    BY <1>4, <2>1, LaunchTyped, BeginStopTyped DEF Respawn
<1> QED
  BY <1>1, <1>2, <1>3, <1>4, StopTyped, SpawnTyped, ProcessTyped DEF Next

\* Entries, processes, tasks and the state file keep their types; the crash
\* count of an entry never exceeds what the window can hold.
THEOREM TypeCorrect ==
  ASSUME RuntimeAssumption
  PROVE  Spec => []TypeInv
<1>1. Init => Typed
  BY InitTyped
<1>2. Typed /\ [Next]_vars => Typed'
  BY StepTyped
<1>3. Typed => TypeInv
  BY DEF Typed
<1> QED
  BY <1>1, <1>2, <1>3, PTL DEF Spec

-----------------------------------------------------------------------------
(* One process *)

\* The agent is in the hands of one actor: a process that is listened to, a
\* supervisor that will act when it wakes, or a task that launches.
Heard(p)    == procs[p].heard
Launches(t) == tasks[t].step \in {"home", "spawn"}
Sleeps(t)   == tasks[t].step = "sleep" /\ ~tasks[t].cancelled /\ tasks[t].entry = current

Stopping == tasks[0].step = "stop"
InHand   == IF Stopping THEN tasks[0].entry ELSE current

OneHeard ==
  /\ \A p \in Pids : /\ procs[p].life = "running" => Heard(p)
                     /\ Heard(p) => procs[p].life \in {"running", "exited"}
  /\ \A p, q \in Pids : Heard(p) /\ Heard(q) => p = q
  /\ \A p \in Pids : Heard(p) => /\ InHand # 0 /\ entries[InHand].proc = p
                                 /\ procs[p].of = InHand

OneActor ==
  /\ \A p \in Pids, t \in Tasks : Heard(p) => ~Launches(t) /\ ~Sleeps(t)
  /\ \A t, u \in Tasks : Launches(t) => ~Sleeps(u) /\ (Launches(u) => t = u)
  /\ \A t \in Tasks : Launches(t) => current # 0 /\ tasks[t].entry = current
  /\ \A t \in Tasks : Sleeps(t) => current # 0 /\ entries[current].restart = t

StopHolds ==
  Stopping =>
    /\ \A t \in Tasks : ~Launches(t) /\ ~Sleeps(t)
    /\ tasks[0].entry # 0 /\ entries[tasks[0].entry].stopping
    /\ tasks[0].victim = entries[tasks[0].entry].proc
    /\ current = IF tasks[0].relaunch THEN tasks[0].entry ELSE 0

Born ==
  /\ \A t \in Tasks : tasks[t].step = "sleep" => entries[tasks[t].entry].status # "unborn"
  /\ current # 0 => entries[current].status # "unborn"
  /\ tasks[0].step # "sleep" /\ \A p \in Pids : tasks[p].step # "stop"

Solo == OneHeard /\ OneActor /\ StopHolds /\ Born

\* A launch of an instruction, when no restart is under way, finds the agent
\* in nobody's hands.
LEMMA LaunchSolo ==
  ASSUME RuntimeAssumption, Typed, Solo, NEW resume, TakesInstruction, Launch(resume),
         current = 0 \/ ~Running(entries[current].proc), procs' = procs, ~overlap'
  PROVE  Solo'
<1>1. PICK e \in EntryIds :
        /\ IF current # 0 THEN e = current ELSE entries[e].status = "unborn"
        /\ current' = e
        /\ entries' = [entries EXCEPT ![e] = Launched(@, resume)]
        /\ tasks' = [tasks EXCEPT ![0] = [Done EXCEPT !.step = "home", !.entry = e,
                                                      !.resume = resume]]
        /\ Sleeping(e) = {} /\ Launching(e) = {} /\ Unnoticed(e) = {}
  BY DEF Launch
<1>2. tasks[0].step = "done" /\ ~Stopping /\ InHand = current
  BY DEF TakesInstruction, Stopping, InHand
<1>3. \A p \in Pids : ~Heard(p)
  <2> SUFFICES ASSUME NEW p \in Pids, Heard(p)
               PROVE  FALSE
    OBVIOUS
  <2>1. current # 0 /\ entries[current].proc = p /\ procs[p].of = current
    BY <1>2 DEF Solo, OneHeard
  <2>2. procs[p].life = "exited" /\ e = current
    BY <1>1, <2>1, Numbers DEF Running, Solo, OneHeard
  <2>3. p \in Unnoticed(e)
    BY <2>1, <2>2 DEF Unnoticed, Heard
  <2> QED
    BY <1>1, <2>3
<1>4. \A t \in Tasks : /\ t = 0 => tasks'[t].step = "home" /\ tasks'[t].entry = e
                       /\ t # 0 => tasks'[t] = tasks[t]
  BY <1>1 DEF Typed, TypeInv, Done
<1>5. \A t \in Pids : ~Launches(t)
  <2> SUFFICES ASSUME NEW t \in Pids, Launches(t)
               PROVE  FALSE
    OBVIOUS
  <2>1. current # 0 /\ tasks[t].entry = current /\ e = current
    BY <1>1, Numbers DEF Solo, OneActor
  <2>2. t \in Launching(e)
    BY <2>1 DEF Launching, Launches
  <2> QED
    BY <1>1, <2>2
<1>6. \A t \in Pids : ~(tasks[t].step = "sleep" /\ ~tasks[t].cancelled /\ tasks[t].entry = e)
  BY <1>1 DEF Sleeping
<1>7. \A t \in Pids : ~Launches(t)' /\ ~Sleeps(t)'
  BY <1>1, <1>4, <1>5, <1>6, Numbers DEF Launches, Sleeps
<1>8. Launches(0)' /\ ~Sleeps(0)' /\ ~Stopping'
  BY <1>4, Numbers DEF Launches, Sleeps, Stopping
<1>9. OneHeard'
  BY <1>3 DEF Solo, OneHeard, Heard
<1>10. OneActor'
  <2>1. \A t \in Tasks : (Launches(t)' <=> t = 0) /\ ~Sleeps(t)'
    BY <1>7, <1>8, Numbers
  <2>2. current' # 0 /\ tasks'[0].entry = current'
    BY <1>1, <1>4, Numbers
  <2> QED
    BY <1>3, <2>1, <2>2 DEF OneActor, Heard
<1>11. Born'
  <2>1. /\ \A d \in EntryIds : entries[d].status # "unborn" => entries'[d].status # "unborn"
        /\ entries'[e].status # "unborn"
    BY <1>1 DEF Launched, Typed, TypeInv, Entry
  <2> QED
    BY <1>1, <1>4, <2>1, Numbers DEF Solo, Born, Typed, Named
<1> QED
  BY <1>8, <1>9, <1>10, <1>11 DEF Solo, StopHolds

\* A stop takes the agent out of the supervisor's hands.
LEMMA BeginStopSolo ==
  ASSUME RuntimeAssumption, Typed, Solo, NEW relaunch \in BOOLEAN, NEW resume,
         TakesInstruction, current # 0, BeginStop(relaunch, resume), procs' = procs,
         current' = IF relaunch THEN current ELSE 0, ~overlap'
  PROVE  Solo'
<1> DEFINE e == current
<1>1. tasks[0].step = "done" /\ ~Stopping /\ InHand = current /\ e \in EntryIds
  BY DEF TakesInstruction, Stopping, InHand, Typed, TypeInv
<1>2. Launching(e) = {}
  BY DEF BeginStop
<1>3. \A t \in Pids : ~Launches(t)
  <2> SUFFICES ASSUME NEW t \in Pids, Launches(t)
               PROVE  FALSE
    OBVIOUS
  <2>1. t \in Launching(e)
    BY Numbers DEF Solo, OneActor, Launching, Launches
  <2> QED
    BY <1>2, <2>1
<1>4. /\ tasks'[0].step = "stop" /\ tasks'[0].entry = e
      /\ tasks'[0].victim = entries[e].proc /\ tasks'[0].relaunch = relaunch
  <2>1. tasks'[0] = [Done EXCEPT !.step = "stop", !.entry = e, !.victim = entries[e].proc,
                                 !.resume = resume, !.relaunch = relaunch]
    BY Numbers DEF BeginStop
  <2> QED
    BY <2>1 DEF Done
<1>5. \A t \in Pids : /\ tasks'[t].step = tasks[t].step /\ tasks'[t].entry = tasks[t].entry
                      /\ tasks[t].cancelled => tasks'[t].cancelled
                      /\ t = entries[e].restart => tasks'[t].cancelled
  <2> SUFFICES ASSUME NEW t \in Pids
               PROVE  /\ tasks'[t].step = tasks[t].step /\ tasks'[t].entry = tasks[t].entry
                      /\ tasks[t].cancelled => tasks'[t].cancelled
                      /\ t = entries[e].restart => tasks'[t].cancelled
    OBVIOUS
  <2>1. tasks[t] \in Task /\ t # 0 /\ t \in Tasks
    BY Numbers DEF Typed, TypeInv
  <2>2. tasks'[t] = IF t = entries[e].restart THEN [tasks[t] EXCEPT !.cancelled = TRUE]
                    ELSE tasks[t]
    BY <2>1 DEF BeginStop
  <2> QED
    BY <2>1, <2>2 DEF Task
<1>6. \A t \in Tasks : ~Launches(t)' /\ ~Sleeps(t)'
  <2>1. ~Launches(0)' /\ ~Sleeps(0)'
    BY <1>4 DEF Launches, Sleeps
  <2>2. ASSUME NEW t \in Pids
        PROVE  ~Launches(t)' /\ ~Sleeps(t)'
    <3>1. ~Launches(t)'
      BY <1>3, <1>5 DEF Launches
    <3>2. ASSUME Sleeps(t)'
          PROVE  FALSE
      <4>1. tasks[t].step = "sleep" /\ tasks[t].entry = current' /\ tasks[t].entry # 0
        BY <1>5, <3>2, Numbers DEF Sleeps, Typed, Named
      <4>2. Sleeps(t) /\ t = entries[e].restart
        BY <1>5, <3>2, <4>1, Numbers DEF Sleeps, Solo, OneActor
      <4> QED
        BY <1>5, <3>2, <4>2 DEF Sleeps
    <3> QED
      BY <3>1, <3>2
  <2> QED
    BY <2>1, <2>2, Numbers
<1>7. \A d \in EntryIds : /\ entries'[d].proc = entries[d].proc
                          /\ entries'[d].status = entries[d].status
                          /\ d = e => entries'[d].stopping
  BY DEF BeginStop, Typed, TypeInv, Entry
<1>8. Stopping' /\ InHand' = e
  BY <1>4 DEF Stopping, InHand
<1>9. OneHeard'
  BY <1>1, <1>7, <1>8 DEF Solo, OneHeard, Heard
<1>10. OneActor'
  BY <1>6 DEF OneActor
<1>11. StopHolds'
  BY <1>1, <1>4, <1>6, <1>7 DEF StopHolds
<1>12. Born'
  BY <1>1, <1>4, <1>5, <1>7, Numbers DEF Solo, Born, Typed, Named
<1> QED
  BY <1>9, <1>10, <1>11, <1>12 DEF Solo

\* When a stop is over nobody is listened to: what it killed is what the
\* entry drives.
LEMMA StoppedSolo ==
  ASSUME RuntimeAssumption, Typed, Solo, Stopped
  PROVE  Solo'
<1> DEFINE h == tasks[0]
           e == tasks[0].entry
<1>1. /\ Stopping /\ InHand = e /\ e \in EntryIds /\ ~Running(h.victim)
      /\ h.victim = entries[e].proc /\ current' = current
      /\ current = IF h.relaunch THEN e ELSE 0
  BY Numbers DEF Stopped, Stopping, InHand, Solo, StopHolds, Typed, Named
<1>2. \A p \in Pids : ~procs'[p].heard /\ procs'[p].life # "running"
  <2> SUFFICES ASSUME NEW p \in Pids
               PROVE  ~procs'[p].heard /\ procs'[p].life # "running"
    OBVIOUS
  <2>1. procs[p] \in Process
    BY DEF Typed, TypeInv
  <2>2. CASE Heard(p)
    <3>1. p = h.victim /\ p # 0
      BY <1>1, <2>2, Numbers DEF Solo, OneHeard
    <3>2. procs' = [procs EXCEPT ![p].heard = FALSE] /\ procs[p].life # "running"
      BY <1>1, <3>1 DEF Stopped, Running
    <3> QED
      BY <2>1, <3>2 DEF Typed, TypeInv, Process
  <2>3. CASE ~Heard(p)
    <3>1. procs[p].life # "running"
      BY <2>3 DEF Solo, OneHeard
    <3>2. procs' = procs \/ procs' = [procs EXCEPT ![entries[e].proc].heard = FALSE]
      BY DEF Stopped
    <3>3. procs'[p] = procs[p] \/ procs'[p] = [procs[p] EXCEPT !.heard = FALSE]
      BY <3>2 DEF Typed, TypeInv
    <3> QED
      BY <2>1, <2>3, <3>1, <3>3 DEF Heard, Process
  <2> QED
    BY <2>2, <2>3
<1>3. /\ \A t \in Pids : tasks'[t] = tasks[t]
      /\ h.relaunch => tasks'[0].step = "home" /\ tasks'[0].entry = e
      /\ ~h.relaunch => tasks'[0].step = "done"
  <2>1. CASE h.relaunch
    <3>1. tasks' = [tasks EXCEPT ![0] = [Done EXCEPT !.step = "home", !.entry = e,
                                                     !.resume = h.resume]]
      BY <2>1 DEF Stopped
    <3> QED
      BY <2>1, <3>1, Numbers DEF Done, Typed, TypeInv
  <2>2. CASE ~h.relaunch
    BY <2>2, Numbers DEF Stopped, Done, Typed, TypeInv
  <2> QED
    BY <2>1, <2>2
<1>4. \A d \in EntryIds : entries'[d].status = entries[d].status \/ entries'[d].status # "unborn"
  <2> DEFINE cleared == IF h.victim = 0 THEN entries[e] ELSE [entries[e] EXCEPT !.proc = 0]
  <2>1. cleared \in Entry
    BY <1>1 DEF Typed, TypeInv, Entry
  <2>2. \/ entries' = [entries EXCEPT ![e] = Launched(cleared, h.resume)]
        \/ entries' = [entries EXCEPT ![e] = TakenOff(cleared)]
    BY DEF Stopped
  <2>3. /\ Launched(cleared, h.resume).status = "starting"
        /\ TakenOff(cleared).status = "offline"
    <3> HIDE DEF cleared
    <3> QED
      BY <2>1 DEF Launched, TakenOff, Entry
  <2> HIDE DEF cleared
  <2> QED
    BY <1>1, <2>2, <2>3 DEF Typed, TypeInv
<1>5. \A t \in Pids : ~Launches(t)' /\ ~Sleeps(t)'
  BY <1>1, <1>3, Numbers DEF Solo, StopHolds, Launches, Sleeps
<1>6. ~Sleeps(0)' /\ ~Stopping' /\ (Launches(0)' <=> h.relaunch)
  BY <1>3 DEF Sleeps, Stopping, Launches
<1>7. OneHeard'
  BY <1>2 DEF OneHeard, Heard
<1>8. OneActor'
  <2>1. \A t \in Tasks : (Launches(t)' => t = 0 /\ h.relaunch) /\ ~Sleeps(t)'
    BY <1>5, <1>6, Numbers
  <2>2. h.relaunch => current' # 0 /\ tasks'[0].entry = current'
    BY <1>1, <1>3, Numbers
  <2> QED
    BY <1>2, <2>1, <2>2 DEF OneActor, Heard
<1>9. Born'
  <2>1. tasks'[0].step # "sleep" /\ \A p \in Pids : tasks'[p].step # "stop"
    BY <1>3 DEF Solo, Born
  <2>2. current' # 0 => entries'[current'].status # "unborn"
    BY <1>1, <1>4 DEF Solo, Born, Typed, TypeInv
  <2>3. \A t \in Pids : tasks'[t].step = "sleep" => entries'[tasks'[t].entry].status # "unborn"
    BY <1>3, <1>4, Numbers DEF Solo, Born, Typed, Named
  <2> QED
    BY <2>1, <2>2, <2>3, Numbers DEF Born
<1> QED
  BY <1>6, <1>7, <1>8, <1>9 DEF Solo, StopHolds

\* A launch goes on in the same hands, and hands over to its process.
LEMMA SpawnSolo ==
  ASSUME RuntimeAssumption, Typed, Solo, NEW t \in Tasks,
         Prepared(t) \/ Spawned(t) \/ SpawnFails(t)
  PROVE  Solo'
<1>1. /\ Launches(t) /\ current # 0 /\ tasks[t].entry = current /\ current' = current
      /\ current \in EntryIds /\ ~Stopping /\ InHand = current
      /\ \A p \in Pids : ~Heard(p)
      /\ \A u \in Tasks : ~Sleeps(u) /\ (Launches(u) => u = t)
  <2>1. Launches(t) /\ current' = current
    BY DEF Prepared, Spawned, SpawnFails, Launches
  <2> QED
    BY <2>1 DEF Solo, OneActor, StopHolds, InHand, Typed, TypeInv
<1>2. /\ \A u \in Tasks : u # t => tasks'[u] = tasks[u]
      /\ tasks'[t].step \in {"spawn", "done"}
      /\ Prepared(t) => tasks'[t].entry = current
      /\ ~Prepared(t) => tasks'[t].step = "done"
  BY <1>1 DEF Prepared, Spawned, SpawnFails, Done, Typed, TypeInv, Task
<1>3. \A u \in Tasks : (Launches(u)' => u = t /\ Prepared(t)) /\ ~Sleeps(u)'
  BY <1>1, <1>2 DEF Launches, Sleeps
<1>4. ~Stopping' /\ InHand' = current
  BY <1>1, <1>2, Numbers DEF Stopping, InHand
<1>5. \A d \in EntryIds : entries'[d].status = entries[d].status \/ entries'[d].status # "unborn"
  <2>1. CASE Prepared(t)
    BY <2>1 DEF Prepared, Typed, TypeInv, Entry
  <2>2. CASE Spawned(t)
    <3>1. PICK p \in Pids : entries' = [entries EXCEPT ![tasks[t].entry].proc = p,
                                                      ![tasks[t].entry].status = "idle"]
      BY <2>2 DEF Spawned
    <3>2. entries' = [entries EXCEPT ![current] =
                        [entries[current] EXCEPT !.proc = p, !.status = "idle"]]
      BY <1>1, <3>1 DEF Typed, TypeInv
    <3> QED
      BY <1>1, <3>2 DEF Typed, TypeInv, Entry
  <2>3. CASE SpawnFails(t)
    BY <2>3 DEF SpawnFails
  <2> QED
    BY <2>1, <2>2, <2>3
<1>6. Born'
  <2>1. /\ tasks'[0].step # "sleep" /\ \A p \in Pids : tasks'[p].step # "stop"
        /\ \A u \in Tasks : tasks'[u].step = "sleep" =>
             /\ tasks'[u] = tasks[u] /\ entries[tasks[u].entry].status # "unborn"
             /\ tasks[u].entry \in EntryIds
    BY <1>2, Numbers DEF Solo, Born, Typed, Named
  <2>2. current' # 0 => entries'[current'].status # "unborn"
    BY <1>1, <1>5 DEF Solo, Born
  <2> QED
    BY <1>5, <2>1, <2>2 DEF Born
<1>7. OneHeard' /\ (Prepared(t) \/ SpawnFails(t) => \A p \in Pids : ~Heard(p)')
  <2>1. CASE Prepared(t) \/ SpawnFails(t)
    BY <1>1, <2>1 DEF Prepared, SpawnFails, Solo, OneHeard, Heard
  <2>2. CASE Spawned(t)
    <3>1. PICK p \in Pids :
            /\ procs' = [procs EXCEPT ![p] =
                 [life |-> "running", of |-> tasks[t].entry, heard |-> TRUE,
                  session |-> IF tasks[t].session = 0 THEN p ELSE tasks[t].session,
                  resumed |-> tasks[t].session # 0]]
            /\ entries' = [entries EXCEPT ![tasks[t].entry].proc = p,
                                          ![tasks[t].entry].status = "idle"]
      BY <2>2 DEF Spawned
    <3>2. entries'[current].proc = p
      BY <1>1, <3>1 DEF Typed, TypeInv, Entry
    <3>3. /\ procs'[p].life = "running" /\ procs'[p].of = current /\ procs'[p].heard
          /\ \A q \in Pids : q # p => procs'[q] = procs[q]
      BY <1>1, <3>1 DEF Typed, TypeInv
    <3>4. OneHeard'
      BY <1>1, <1>4, <3>2, <3>3 DEF Solo, OneHeard, Heard
    <3>5. ~Prepared(t) /\ ~SpawnFails(t)
      <4>1. tasks'[t].step = "done" /\ tasks[t].step = "spawn"
        BY <2>2 DEF Spawned, Done, Typed, TypeInv
      <4>2. procs' # procs
        BY <1>1, <3>3 DEF Heard
      <4> QED
        BY <4>1, <4>2 DEF Prepared, SpawnFails
    <3> QED
      BY <3>4, <3>5
  <2> QED
    BY <2>1, <2>2
<1>8. OneActor'
  BY <1>1, <1>2, <1>3, <1>7 DEF OneActor
<1> QED
  BY <1>4, <1>6, <1>7, <1>8 DEF Solo, StopHolds

\* Frames and deaths change no hands.
LEMMA ProcessSolo ==
  ASSUME RuntimeAssumption, Typed, Solo, NEW p \in Pids, Confirmed(p) \/ Crash(p) \/ Killed
  PROVE  Solo'
<1>1. tasks' = tasks /\ current' = current
  BY DEF Confirmed, Crash, Killed
<1>2. \A d \in EntryIds : /\ entries'[d].proc = entries[d].proc
                          /\ entries'[d].status = entries[d].status
                          /\ entries'[d].restart = entries[d].restart
                          /\ entries'[d].stopping = entries[d].stopping
  <2>1. CASE Confirmed(p)
    BY <2>1 DEF Confirmed, Typed, TypeInv, Entry
  <2>2. CASE Crash(p) \/ Killed
    BY <2>2 DEF Crash, Killed
  <2> QED
    BY <2>1, <2>2
<1>3. \A q \in Pids : /\ procs'[q].heard = procs[q].heard /\ procs'[q].of = procs[q].of
                      /\ \/ procs'[q].life = procs[q].life
                         \/ procs[q].life = "running" /\ procs'[q].life = "exited"
  <2>1. CASE Confirmed(p)
    BY <2>1 DEF Confirmed
  <2>2. CASE Crash(p) \/ Killed
    BY <2>2 DEF Crash, Killed, Running, Typed, TypeInv, Process
  <2> QED
    BY <2>1, <2>2
<1>4. /\ \A t \in Tasks : (Launches(t)' <=> Launches(t)) /\ (Sleeps(t)' <=> Sleeps(t))
      /\ (Stopping' <=> Stopping) /\ InHand' = InHand
      /\ \A q \in Pids : Heard(q)' <=> Heard(q)
  BY <1>1, <1>3 DEF Launches, Sleeps, Stopping, InHand, Heard
<1>5. (InHand # 0 => InHand \in EntryIds) /\ (current # 0 => current \in EntryIds)
  BY Numbers DEF InHand, Stopping, Typed, TypeInv, Named
<1>6. OneHeard'
  BY <1>2, <1>3, <1>4, <1>5 DEF Solo, OneHeard
<1>7. OneActor'
  BY <1>1, <1>2, <1>4, <1>5 DEF Solo, OneActor
<1>8. StopHolds'
  BY <1>1, <1>2, <1>4, <1>5 DEF Solo, StopHolds, InHand
<1>9. Born'
  BY <1>1, <1>2, <1>5 DEF Solo, Born, Typed, Named
<1> QED
  BY <1>6, <1>7, <1>8, <1>9 DEF Solo

\* The exit of the process puts the agent into the hands of its supervisor.
LEMMA ExitSolo ==
  ASSUME RuntimeAssumption, Typed, Solo, NEW p \in Pids, ExitNoticed(p)
  PROVE  Solo'
<1>1. /\ Heard(p) /\ InHand # 0 /\ entries[InHand].proc = p /\ current' = current
      /\ procs[p].life = "exited"
      /\ \A t \in Tasks : ~Launches(t) /\ ~Sleeps(t)
  BY DEF ExitNoticed, Solo, OneHeard, OneActor, Heard
<1>2. \A q \in Pids : ~Heard(q)' /\ procs'[q].life # "running"
  <2>1. \A q \in Pids : q # p => ~procs[q].heard /\ procs[q].life # "running"
    BY <1>1 DEF Solo, OneHeard, Heard
  <2>2. procs' = [procs EXCEPT ![p].heard = FALSE]
    BY DEF ExitNoticed
  <2> QED
    BY <1>1, <2>1, <2>2 DEF Heard, Typed, TypeInv, Process
<1>3. OneHeard'
  BY <1>2 DEF OneHeard
<1>4. CASE UNCHANGED <<entries, tasks>>
  <2>1. \A t \in Tasks : ~Launches(t)' /\ ~Sleeps(t)'
    BY <1>1, <1>4 DEF Launches, Sleeps
  <2>2. OneActor'
    BY <1>2, <2>1 DEF OneActor
  <2>3. StopHolds' /\ Born'
    BY <1>1, <1>4, <2>1 DEF Solo, StopHolds, Stopping, Born
  <2> QED
    BY <1>3, <2>2, <2>3 DEF Solo
<1>5. CASE ~UNCHANGED <<entries, tasks>>
  <2>1. current \in EntryIds /\ ~entries[current].stopping /\ \E kept \in Nat : Supervise(p, kept)
    <3>1. current # 0 /\ ~entries[current].stopping /\ current \in EntryIds
      BY <1>5 DEF ExitNoticed, Typed, TypeInv
    <3>2. \E kept \in 0 .. entries[current].crashes : Supervise(p, kept)
      BY <1>5 DEF ExitNoticed
    <3> QED
      BY <3>1, <3>2 DEF Typed, TypeInv, Entry
  <2>2. PICK kept \in Nat : Supervise(p, kept)
    BY <2>1
  <2>3. ~Stopping /\ p # 0 /\ p \in Tasks /\ current # 0
    BY <1>1, <2>1, Numbers DEF Solo, StopHolds
  <2>4. /\ \A d \in EntryIds : entries'[d].status = entries[d].status
                               \/ entries'[d].status # "unborn"
        /\ entries'[current].restart = p
    <3> DEFINE x == [entries[current] EXCEPT !.crashes = kept + 1, !.restart = p]
    <3>1. entries' = [entries EXCEPT ![current] = x]
          \/ entries' = [entries EXCEPT ![current] = GivenUp(x)]
      BY <2>2 DEF Supervise
    <3>2. /\ x.status = entries[current].status /\ x.restart = p
          /\ GivenUp(x).status = "error" /\ GivenUp(x).restart = p
      BY <2>1 DEF GivenUp, Typed, TypeInv, Entry
    <3> HIDE DEF x
    <3> QED
      BY <2>1, <3>1, <3>2 DEF Typed, TypeInv
  <2>5. /\ \A t \in Tasks : t # p => tasks'[t] = tasks[t]
        /\ \/ tasks'[p] = tasks[p]
           \/ tasks'[p].step = "sleep" /\ tasks'[p].entry = current
    <3>1. \/ tasks' = tasks
          \/ \E resume : tasks' = [tasks EXCEPT ![p] = [Done EXCEPT !.step = "sleep",
                                               !.entry = current, !.resume = resume]]
      BY <2>2 DEF Supervise
    <3> QED
      BY <2>3, <3>1 DEF Done, Typed, TypeInv
  <2>6. /\ \A t \in Tasks : ~Launches(t)' /\ (Sleeps(t)' => t = p)
        /\ ~Stopping'
    BY <1>1, <2>3, <2>5, Numbers DEF Launches, Sleeps, Stopping
  <2>7. OneActor'
    BY <1>1, <1>2, <2>3, <2>4, <2>6 DEF OneActor
  <2>8. Born'
    <3>1. tasks'[0].step # "sleep" /\ \A q \in Pids : tasks'[q].step # "stop"
      BY <2>3, <2>5, Numbers DEF Solo, Born
    <3>2. current' # 0 => entries'[current'].status # "unborn"
      BY <1>1, <2>1, <2>4 DEF Solo, Born
    <3>3. \A t \in Tasks : tasks'[t].step = "sleep" =>
            \/ tasks'[t].entry = current
            \/ /\ tasks'[t] = tasks[t] /\ tasks[t].entry \in EntryIds
               /\ entries[tasks[t].entry].status # "unborn"
      BY <2>5 DEF Solo, Born, Typed, Named
    <3> QED
      BY <1>1, <2>3, <2>4, <3>1, <3>2, <3>3 DEF Born
  <2> QED
    BY <1>3, <2>6, <2>7, <2>8 DEF Solo, StopHolds
<1> QED
  BY <1>4, <1>5

\* A supervisor that wakes launches only what is still in its hands.
LEMMA WakesSolo ==
  ASSUME RuntimeAssumption, Typed, Solo, NEW p \in Pids, Wakes(p)
  PROVE  Solo'
<1>1. /\ tasks[p].step = "sleep" /\ p \in Tasks /\ p # 0 /\ current' = current
      /\ procs' = procs /\ tasks[p].entry \in EntryIds
      /\ \A t \in Tasks : t # p => tasks'[t] = tasks[t]
  BY Numbers DEF Wakes, Typed, TypeInv, Named
<1>2. (Stopping' <=> Stopping) /\ InHand' = InHand
  BY <1>1, Numbers DEF Stopping, InHand
<1>3. CASE MayRelaunch(p)
  <2>1. Sleeps(p) /\ current # 0 /\ ~Stopping
    BY <1>1, <1>3, Numbers DEF MayRelaunch, Sleeps, Solo, StopHolds
  <2>2. /\ \A q \in Pids : ~Heard(q)
        /\ \A t \in Tasks : ~Launches(t) /\ (Sleeps(t) => t = p)
    BY <1>1, <2>1 DEF Solo, OneActor
  <2>3. tasks' = [tasks EXCEPT ![p].step = "home"]
        /\ entries' = [entries EXCEPT ![current] = Launched(@, tasks[p].resume)]
    BY <1>3 DEF Wakes, MayRelaunch
  <2>4. tasks'[p].step = "home" /\ tasks'[p].entry = current
    BY <1>1, <1>3, <2>3 DEF MayRelaunch, Typed, TypeInv, Task
  <2>5. \A t \in Tasks : (Launches(t)' <=> t = p) /\ ~Sleeps(t)'
    BY <1>1, <2>2, <2>4 DEF Launches, Sleeps
  <2>6. \A d \in EntryIds : entries'[d].status = entries[d].status
                            \/ entries'[d].status # "unborn"
    <3>1. current \in EntryIds /\ entries[current] \in Entry
      BY <2>1 DEF Typed, TypeInv
    <3>2. Launched(entries[current], tasks[p].resume).status = "starting"
      BY <3>1 DEF Launched, Entry
    <3> QED
      BY <2>3, <3>1, <3>2 DEF Typed, TypeInv
  <2>7. OneHeard'
    BY <1>1, <2>2 DEF Solo, OneHeard, Heard
  <2>8. OneActor'
    BY <1>1, <2>1, <2>2, <2>4, <2>5 DEF OneActor, Heard
  <2>9. Born'
    <3>1. tasks'[0].step # "sleep" /\ \A q \in Pids : tasks'[q].step # "stop"
      BY <1>1, <2>4, Numbers DEF Solo, Born
    <3>2. current' # 0 => entries'[current'].status # "unborn"
      BY <1>1, <2>1, <2>6 DEF Solo, Born, Typed, TypeInv
    <3>3. \A t \in Tasks : tasks'[t].step = "sleep" =>
            /\ tasks'[t] = tasks[t] /\ tasks[t].entry \in EntryIds
            /\ entries[tasks[t].entry].status # "unborn"
      BY <1>1, <2>4 DEF Solo, Born, Typed, Named
    <3> QED
      BY <2>6, <3>1, <3>2, <3>3 DEF Born
  <2> QED
    BY <1>2, <2>1, <2>7, <2>8, <2>9 DEF Solo, StopHolds
<1>4. CASE ~MayRelaunch(p)
  <2>1. tasks' = [tasks EXCEPT ![p] = Done] /\ entries' = entries
    BY <1>4 DEF Wakes
  <2>2. tasks'[p].step = "done"
    BY <1>1, <2>1 DEF Done, Typed, TypeInv
  <2>3. \A t \in Tasks : (Launches(t)' => Launches(t) /\ t # p) /\ (Sleeps(t)' => Sleeps(t) /\ t # p)
    BY <1>1, <2>2 DEF Launches, Sleeps
  <2>4. OneHeard'
    BY <1>1, <1>2, <2>1 DEF Solo, OneHeard, Heard
  <2>5. OneActor'
    <3>1. /\ \A q \in Pids, t \in Tasks : Heard(q) => ~Launches(t)' /\ ~Sleeps(t)'
          /\ \A t, u \in Tasks : Launches(t)' => ~Sleeps(u)' /\ (Launches(u)' => t = u)
      BY <2>3 DEF Solo, OneActor
    <3>2. /\ \A t \in Tasks : Launches(t)' => current' # 0 /\ tasks'[t].entry = current'
          /\ \A t \in Tasks : Sleeps(t)' => current' # 0 /\ entries'[current'].restart = t
      BY <1>1, <2>1, <2>3 DEF Solo, OneActor
    <3> QED
      BY <1>1, <3>1, <3>2 DEF OneActor, Heard
  <2>6. StopHolds'
    <3>1. Stopping => tasks'[0] = tasks[0]
      BY <1>1, Numbers
    <3> QED
      BY <1>1, <1>2, <2>1, <2>3, <3>1 DEF Solo, StopHolds
  <2>7. Born'
    BY <1>1, <2>1, <2>2, Numbers DEF Solo, Born
  <2> QED
    BY <2>4, <2>5, <2>6, <2>7 DEF Solo
<1> QED
  BY <1>3, <1>4

SoloInv == Typed /\ (~overlap => Solo)

LEMMA StepSolo ==
  ASSUME RuntimeAssumption, SoloInv, [Next]_vars, ~overlap'
  PROVE  Solo'
<1>1. Typed /\ Solo
  <2>1. overlap => overlap' \/ UNCHANGED overlap
    BY DEF Next, vars, Start, Stop, Respawn, Launch, BeginStop, Killed, Stopped, Prepared,
       Spawned, SpawnFails, Confirmed, Crash, ExitNoticed, Wakes, SoloInv
  <2> QED
    BY <2>1 DEF SoloInv
<1>2. CASE UNCHANGED vars
  BY <1>1, <1>2 DEF vars, Solo, OneHeard, OneActor, StopHolds, Born, Heard, Launches, Sleeps,
     Stopping, InHand
<1>3. CASE Start
  BY <1>1, <1>3, LaunchSolo DEF Start
<1>4. CASE Stop
  BY <1>1, <1>4, BeginStopSolo DEF Stop
<1>5. ASSUME NEW reset \in BOOLEAN, Respawn(reset)
      PROVE  Solo'
  <2>1. CASE current = 0
    BY <1>1, <1>5, <2>1, LaunchSolo DEF Respawn
  <2>2. CASE current # 0
    BY <1>1, <1>5, <2>2, BeginStopSolo DEF Respawn
  <2> QED
    BY <2>1, <2>2
<1>6. CASE Killed
  <2>1. Pids # {}
    BY <1>6, Numbers DEF Killed, Running, SoloInv, Typed, TypeInv, Task
  <2> QED
    BY <1>1, <1>6, <2>1, ProcessSolo
<1> QED
  BY <1>1, <1>2, <1>3, <1>4, <1>5, <1>6, StoppedSolo, SpawnSolo, ProcessSolo, ExitSolo,
     WakesSolo DEF Next

\* However crashes, supervised restarts and instructions interleave, an agent
\* never has two processes nor one that its entry could not stop, unless an
\* instruction was taken while a supervised restart was under way.
THEOREM OneProcessHolds ==
  ASSUME RuntimeAssumption
  PROVE  Spec => []OneProcess
<1>1. Init => SoloInv
  <2> SUFFICES ASSUME Init
               PROVE  SoloInv
    OBVIOUS
  <2>1. /\ \A p \in Pids : ~Heard(p) /\ procs[p].life = "unborn"
        /\ \A t \in Tasks : tasks[t].step = "done"
        /\ current = 0
    BY DEF Init, Heard, Done
  <2>2. Solo
    BY <2>1, Numbers DEF Solo, OneHeard, OneActor, StopHolds, Born, Launches, Sleeps, Stopping
  <2> QED
    BY <2>2, InitTyped DEF SoloInv
<1>2. SoloInv /\ [Next]_vars => SoloInv'
  BY StepTyped, StepSolo DEF SoloInv
<1>3. SoloInv => OneProcess
  <2> SUFFICES ASSUME Typed, Solo
               PROVE  /\ \A p, q \in Live : p = q
                      /\ \A p \in Live : \/ current # 0 /\ entries[current].proc = p
                                         \/ tasks[0].step = "stop" /\ tasks[0].victim = p
    BY DEF SoloInv, OneProcess
  <2>1. \A p \in Live : p \in Pids /\ Heard(p)
    BY DEF Live, Running, Solo, OneHeard
  <2> QED
    BY <2>1 DEF Solo, OneHeard, StopHolds, InHand, Stopping
<1> QED
  BY <1>1, <1>2, <1>3, PTL DEF Spec

-----------------------------------------------------------------------------
(* Lost sessions *)

\* What may still become the session of a process: the stored one, that of a
\* process listened to, that of a launch about to spawn, and new ones.
Kept ==
  /\ stored \notin lost
  /\ \A p \in Pids : Heard(p) => procs[p].session \notin lost
  /\ \A t \in Tasks : tasks[t].step = "spawn" => tasks[t].session \notin lost

Fresh ==
  \A p \in Pids : procs[p].life = "unborn" =>
    /\ p \notin lost /\ stored # p
    /\ \A q \in Pids : procs[q].session # p
    /\ \A t \in Tasks : tasks[t].session # p

SessionsInv == Kept /\ Fresh

\* A step that gives up no session, starts no process, and hands on no
\* session but the stored one.
LEMMA QuietSessions ==
  ASSUME RuntimeAssumption, Typed, SessionsInv, lost' = lost, stored' \in {stored, 0},
         \A p \in Pids : /\ procs'[p].session = procs[p].session
                         /\ procs'[p].heard => procs[p].heard
                         /\ procs'[p].life = "unborn" => procs[p].life = "unborn",
         \A t \in Tasks : /\ tasks'[t].session \in {tasks[t].session, stored, 0}
                          /\ tasks'[t].step = "spawn" =>
                               \/ tasks'[t].session \in {stored, 0}
                               \/ tasks[t].step = "spawn"
  PROVE  SessionsInv'
<1>1. 0 \notin lost /\ \A p \in Pids : p # 0
  BY Numbers DEF Typed, TypeInv
<1>2. Kept'
  BY <1>1 DEF SessionsInv, Kept, Heard
<1>3. Fresh'
  BY <1>1 DEF SessionsInv, Fresh
<1> QED
  BY <1>2, <1>3 DEF SessionsInv

LEMMA InstructionSessions ==
  ASSUME RuntimeAssumption, Typed, SessionsInv,
         Start \/ Stop \/ \E reset \in BOOLEAN : Respawn(reset)
  PROVE  SessionsInv'
<1>1. lost' = lost /\ procs' = procs /\ stored' \in {stored, 0}
  BY DEF Start, Stop, Respawn
<1>2. \A t \in Tasks : /\ tasks'[t].session \in {tasks[t].session, 0}
                       /\ tasks'[t].step = "spawn" => tasks[t].step = "spawn"
  <2>1. ASSUME NEW resume, Launch(resume)
        PROVE  \A t \in Tasks : /\ tasks'[t].session \in {tasks[t].session, 0}
                                /\ tasks'[t].step = "spawn" => tasks[t].step = "spawn"
    <3>1. \E e \in EntryIds :
            tasks' = [tasks EXCEPT ![0] = [Done EXCEPT !.step = "home", !.entry = e,
                                                       !.resume = resume]]
      BY <2>1 DEF Launch
    <3> QED
      BY <3>1 DEF Done, Typed, TypeInv
  <2>2. ASSUME NEW resume, NEW relaunch, BeginStop(relaunch, resume)
        PROVE  \A t \in Tasks : /\ tasks'[t].session \in {tasks[t].session, 0}
                                /\ tasks'[t].step = "spawn" => tasks[t].step = "spawn"
    <3> SUFFICES ASSUME NEW t \in Tasks
                 PROVE  /\ tasks'[t].session \in {tasks[t].session, 0}
                        /\ tasks'[t].step = "spawn" => tasks[t].step = "spawn"
      OBVIOUS
    <3>1. CASE t = 0
      <4>1. tasks'[t] = [Done EXCEPT !.step = "stop", !.entry = current,
                           !.victim = entries[current].proc, !.resume = resume,
                           !.relaunch = relaunch]
        BY <2>2, <3>1 DEF BeginStop
      <4> QED
        BY <4>1 DEF Done
    <3>2. CASE t # 0
      <4>1. tasks'[t] = tasks[t] \/ tasks'[t] = [tasks[t] EXCEPT !.cancelled = TRUE]
        BY <2>2, <3>2 DEF BeginStop
      <4>2. tasks[t] \in Task
        BY DEF Typed, TypeInv
      <4> QED
        BY <4>1, <4>2 DEF Task
    <3> QED
      BY <3>1, <3>2
  <2> QED
    BY <2>1, <2>2 DEF Start, Stop, Respawn
<1> QED
  BY <1>1, <1>2, QuietSessions

LEMMA StopSessions ==
  ASSUME RuntimeAssumption, Typed, SessionsInv, Killed \/ Stopped
  PROVE  SessionsInv'
<1>1. lost' = lost /\ stored' = stored
  BY DEF Killed, Stopped
<1>2. \A p \in Pids : /\ procs'[p].session = procs[p].session
                      /\ procs'[p].heard => procs[p].heard
                      /\ procs'[p].life = "unborn" => procs[p].life = "unborn"
  <2>1. CASE Killed
    BY <2>1 DEF Killed, Typed, TypeInv, Process
  <2>2. CASE Stopped
    <3>1. \/ procs' = procs
          \/ procs' = [procs EXCEPT ![entries[tasks[0].entry].proc].heard = FALSE]
      BY <2>2 DEF Stopped
    <3>2. \A p \in Pids : procs'[p] = procs[p] \/ procs'[p] = [procs[p] EXCEPT !.heard = FALSE]
      BY <3>1 DEF Typed, TypeInv
    <3>3. \A p \in Pids : procs[p] \in Process
      BY DEF Typed, TypeInv
    <3>4. ASSUME NEW p \in Pids, procs'[p] = [procs[p] EXCEPT !.heard = FALSE]
          PROVE  /\ procs'[p].session = procs[p].session
                 /\ ~procs'[p].heard
                 /\ procs'[p].life = procs[p].life
      BY <3>3, <3>4 DEF Process
    <3> QED
      BY <3>2, <3>4
  <2> QED
    BY <2>1, <2>2
<1>3. \A t \in Tasks : /\ tasks'[t].session \in {tasks[t].session, 0}
                       /\ tasks'[t].step = "spawn" => tasks[t].step = "spawn"
  <2>1. CASE Killed
    BY <2>1 DEF Killed
  <2>2. CASE Stopped
    <3>1. \/ tasks' = [tasks EXCEPT ![0] = [Done EXCEPT !.step = "home",
                           !.entry = tasks[0].entry, !.resume = tasks[0].resume]]
          \/ tasks' = [tasks EXCEPT ![0] = Done]
      BY <2>2 DEF Stopped
    <3>2. \A t \in Tasks : \/ tasks'[t] = tasks[t] \/ tasks'[t] = Done
                           \/ tasks'[t] = [Done EXCEPT !.step = "home",
                                  !.entry = tasks[0].entry, !.resume = tasks[0].resume]
      BY <3>1 DEF Typed, TypeInv
    <3> DEFINE x == [Done EXCEPT !.step = "home", !.entry = tasks[0].entry,
                                 !.resume = tasks[0].resume]
    <3>3. x.session = 0 /\ x.step = "home" /\ Done.session = 0 /\ Done.step = "done"
      BY DEF Done
    <3>4. \A t \in Tasks : tasks'[t] = tasks[t] \/ tasks'[t] = Done \/ tasks'[t] = x
      BY <3>2
    <3> HIDE DEF x
    <3> QED
      BY <3>3, <3>4
  <2> QED
    BY <2>1, <2>2
<1> QED
  BY <1>1, <1>2, <1>3, QuietSessions

LEMMA SpawnSessions ==
  ASSUME RuntimeAssumption, Typed, Solo, SessionsInv, NEW t \in Tasks,
         Prepared(t) \/ Spawned(t) \/ SpawnFails(t)
  PROVE  SessionsInv'
<1>0. tasks[t] \in Task
  BY DEF Typed, TypeInv
<1>1. CASE Prepared(t) \/ SpawnFails(t)
  <2>1. lost' = lost /\ stored' = stored /\ procs' = procs
    BY <1>1 DEF Prepared, SpawnFails
  <2>2. \A u \in Tasks : /\ tasks'[u].session \in {tasks[u].session, stored, 0}
                         /\ tasks'[u].step = "spawn" =>
                              tasks'[u].session \in {stored, 0} \/ tasks[u].step = "spawn"
    <3>1. CASE Prepared(t)
      BY <1>0, <3>1 DEF Prepared, Typed, TypeInv, Task
    <3>2. CASE SpawnFails(t)
      BY <3>2 DEF SpawnFails, Done, Typed, TypeInv
    <3> QED
      BY <1>1, <3>1, <3>2
  <2> QED
    BY <2>1, <2>2, QuietSessions
<1>2. CASE Spawned(t)
  <2> DEFINE s == tasks[t].session
             new(p) == IF s = 0 THEN p ELSE s
  <2>1. PICK p \in Pids :
          /\ procs[p].life = "unborn"
          /\ procs' = [procs EXCEPT ![p] =
               [life |-> "running", of |-> tasks[t].entry, heard |-> TRUE,
                session |-> new(p), resumed |-> s # 0]]
    BY <1>2 DEF Spawned
  <2>2. /\ procs'[p].session = new(p) /\ procs'[p].life = "running"
        /\ \A q \in Pids : q # p => procs'[q] = procs[q]
    BY <2>1 DEF Typed, TypeInv
  <2>3. /\ lost' = lost /\ stored' = stored
        /\ \A u \in Tasks : /\ tasks'[u].session \in {tasks[u].session, 0}
                            /\ tasks'[u].step = "spawn" =>
                                 tasks[u].step = "spawn" /\ tasks'[u] = tasks[u]
    BY <1>2 DEF Spawned, Done, Typed, TypeInv
  <2>4. tasks[t].step = "spawn" /\ s \notin lost /\ p \notin lost
    BY <1>2, <2>1 DEF Spawned, SessionsInv, Kept, Fresh
  <2>5. Kept'
    BY <2>2, <2>3, <2>4 DEF SessionsInv, Kept, Heard
  <2>6. Fresh'
    <3>1. \A q \in Pids : procs'[q].life = "unborn" =>
            q # p /\ q # 0 /\ procs[q].life = "unborn" /\ s # q
      BY <2>2, Numbers DEF SessionsInv, Fresh
    <3>2. \A q, r \in Pids : procs'[q].life = "unborn" => procs'[r].session # q
      BY <2>2, <3>1 DEF SessionsInv, Fresh
    <3> QED
      BY <2>3, <3>1, <3>2 DEF SessionsInv, Fresh
  <2> QED
    BY <2>5, <2>6 DEF SessionsInv
<1> QED
  BY <1>1, <1>2

LEMMA ProcessSessions ==
  ASSUME RuntimeAssumption, Typed, Solo, SessionsInv, NEW p \in Pids,
         Confirmed(p) \/ Crash(p) \/ ExitNoticed(p) \/ Wakes(p)
  PROVE  SessionsInv'
<1>1. CASE Confirmed(p)
  <2>1. /\ UNCHANGED <<lost, procs, tasks>> /\ Heard(p) /\ procs[p].life = "running"
        /\ stored' \in {stored, procs[p].session}
    BY <1>1 DEF Confirmed, Running, Heard
  <2> QED
    BY <2>1 DEF SessionsInv, Kept, Fresh, Heard
<1>2. CASE Crash(p)
  <2>1. \A q \in Pids : /\ procs'[q].session = procs[q].session
                        /\ procs'[q].heard => procs[q].heard
                        /\ procs'[q].life = "unborn" => procs[q].life = "unborn"
    BY <1>2 DEF Crash, Typed, TypeInv, Process
  <2> QED
    BY <1>2, <2>1, QuietSessions DEF Crash
<1>3. CASE ExitNoticed(p)
  <2>1. /\ Heard(p) /\ \A t \in Tasks : ~Launches(t)
        /\ \A q \in Pids : /\ q # p => ~procs[q].heard
                           /\ procs'[q].session = procs[q].session
                           /\ ~procs'[q].heard
                           /\ procs'[q].life = procs[q].life
    <3>1. /\ Heard(p) /\ \A t \in Tasks : ~Launches(t)
          /\ \A q \in Pids : q # p => ~procs[q].heard
      BY <1>3 DEF ExitNoticed, Solo, OneHeard, OneActor, Heard
    <3> QED
      BY <1>3, <3>1 DEF ExitNoticed, Typed, TypeInv, Process
  <2>2. /\ stored' \in {stored, 0}
        /\ lost' = lost \/ (lost' = lost \union ({stored} \ {0}) /\ stored' = 0)
        /\ \A t \in Tasks : /\ tasks'[t].session \in {tasks[t].session, 0}
                            /\ tasks'[t].step = "spawn" => tasks[t].step = "spawn"
    <3>1. CASE UNCHANGED <<entries, tasks, stored, lost>>
      BY <3>1
    <3>2. CASE ~UNCHANGED <<entries, tasks, stored, lost>>
      <4>1. PICK kept \in 0 .. entries[current].crashes : Supervise(p, kept)
        BY <1>3, <3>2 DEF ExitNoticed
      <4>2. \/ UNCHANGED <<tasks, stored, lost>>
            \/ \E degrade :
                 /\ tasks' = [tasks EXCEPT ![p] = [Done EXCEPT !.step = "sleep",
                                !.entry = current, !.resume = ~degrade]]
                 /\ stored' = IF degrade THEN 0 ELSE stored
                 /\ lost' = IF degrade THEN lost \union ({stored} \ {0}) ELSE lost
        BY <4>1 DEF Supervise, ClearSession
      <4> QED
        BY <4>2 DEF Done, Typed, TypeInv
    <3> QED
      BY <3>1, <3>2
  <2>3. 0 \notin lost /\ 0 \notin lost' /\ \A q \in Pids : q # 0
    BY <2>2, Numbers DEF Typed, TypeInv
  <2>4. Kept'
    BY <2>1, <2>2, <2>3 DEF SessionsInv, Kept, Heard, Launches
  <2>5. Fresh'
    BY <2>1, <2>2, <2>3 DEF SessionsInv, Fresh
  <2> QED
    BY <2>4, <2>5 DEF SessionsInv
<1>4. CASE Wakes(p)
  <2>1. UNCHANGED <<lost, stored, procs>>
    BY <1>4 DEF Wakes
  <2>2. \A t \in Tasks : /\ tasks'[t].session \in {tasks[t].session, 0}
                         /\ tasks'[t].step = "spawn" => tasks[t].step = "spawn"
    <3>1. \/ tasks' = [tasks EXCEPT ![p].step = "home"]
          \/ tasks' = [tasks EXCEPT ![p] = Done]
      BY <1>4 DEF Wakes
    <3> SUFFICES ASSUME NEW t \in Tasks
                 PROVE  /\ tasks'[t].session \in {tasks[t].session, 0}
                        /\ tasks'[t].step = "spawn" => tasks[t].step = "spawn"
      OBVIOUS
    <3>2. CASE tasks' = [tasks EXCEPT ![p].step = "home"]
      <4>1. tasks'[t] = tasks[t] \/ tasks'[t] = [tasks[t] EXCEPT !.step = "home"]
        BY <3>2 DEF Typed, TypeInv
      <4>2. tasks[t] \in Task
        BY DEF Typed, TypeInv
      <4> QED
        BY <4>1, <4>2 DEF Task
    <3>3. CASE tasks' = [tasks EXCEPT ![p] = Done]
      BY <3>3 DEF Done, Typed, TypeInv
    <3> QED
      BY <3>1, <3>2, <3>3
  <2> QED
    BY <2>1, <2>2, QuietSessions
<1> QED
  BY <1>1, <1>2, <1>3, <1>4

LEMMA StepSessions ==
  ASSUME RuntimeAssumption, Typed, Solo, SessionsInv, [Next]_vars
  PROVE  SessionsInv'
<1>1. CASE UNCHANGED vars
  BY <1>1 DEF vars, SessionsInv, Kept, Fresh, Heard
<1> QED
  BY <1>1, InstructionSessions, StopSessions, SpawnSessions, ProcessSessions DEF Next

\* Once a session was given up as lost, no later start, restart, reset or
\* supervised launch resumes it (unless an instruction met a restart).
THEOREM LostSessionsStayLost ==
  ASSUME RuntimeAssumption
  PROVE  Spec => []LostStaysLost
<1> DEFINE Inv == SoloInv /\ (~overlap => SessionsInv)
<1>1. Init => Inv
  <2> SUFFICES ASSUME Init
               PROVE  Inv
    OBVIOUS
  <2>1. /\ \A p \in Pids : ~Heard(p) /\ procs[p].session = 0
        /\ \A t \in Tasks : tasks[t].step = "done" /\ tasks[t].session = 0
        /\ lost = {} /\ stored = 0 /\ current = 0
        /\ \A p \in Pids : procs[p].life = "unborn"
    BY DEF Init, Heard, Done
  <2>2. Solo
    BY <2>1, Numbers DEF Solo, OneHeard, OneActor, StopHolds, Born, Launches, Sleeps, Stopping
  <2>3. SessionsInv
    BY <2>1, Numbers DEF SessionsInv, Kept, Fresh
  <2> QED
    BY <2>2, <2>3, InitTyped DEF SoloInv
<1>2. Inv /\ [Next]_vars => Inv'
  <2> SUFFICES ASSUME Inv, [Next]_vars
               PROVE  Inv'
    OBVIOUS
  <2>1. SoloInv'
    BY StepTyped, StepSolo DEF SoloInv
  <2>2. overlap => overlap'
    BY DEF Next, vars, Start, Stop, Respawn, Launch, BeginStop, Killed, Stopped, Prepared,
       Spawned, SpawnFails, Confirmed, Crash, ExitNoticed, Wakes
  <2>3. ~overlap' => SessionsInv'
    BY <2>2, StepSessions DEF SoloInv
  <2> QED
    BY <2>1, <2>3
<1>3. Inv => LostStaysLost
  <2> SUFFICES ASSUME Solo, SessionsInv
               PROVE  \A p \in Live : procs[p].session \notin lost
    BY DEF SoloInv, LostStaysLost
  <2> QED
    BY DEF Live, Running, Solo, OneHeard, SessionsInv, Kept
<1> QED
  BY <1>1, <1>2, <1>3, PTL DEF Spec

-----------------------------------------------------------------------------
(* The connection over which the instructions arrive *)

\* A connection is acknowledged only after its hello.
Greeted == \A c \in Socks : phase[c] \in {"acking", "serving"} => c \in hello

LinkTyped == LinkTypeInv /\ Greeted

LEMMA SockNumbers ==
  ASSUME ConnectionAssumption
  PROVE  /\ Socks \subseteq Nat /\ None = 0 /\ 0 \notin Socks
         /\ None \notin Socks
BY DEF ConnectionAssumption, Socks, None

LEMMA ShutTypes ==
  ASSUME DaemonTypes, NEW c
  PROVE  Shut(c) \in [Socks -> {"up", "silent", "broken"}]
BY DEF DaemonTypes, Shut

LEMMA SpendTypes ==
  ASSUME left \in Nat, NEW fault, Spend(fault)
  PROVE  left' \in Nat
BY DEF Spend

LEMMA LinkStarts ==
  ASSUME ConnectionAssumption, LinkInit
  PROVE  LinkTyped
<1>1. ServerTypes
  BY SockNumbers DEF LinkInit, ServerTypes, Phases
<1>2. DaemonTypes
  BY SockNumbers DEF LinkInit, DaemonTypes
<1>3. call \in [Calls -> [at : {"idle", "queued", "waiting", "back"}, on : Socks \cup {None}]]
  BY DEF LinkInit
<1>4. Greeted
  BY DEF LinkInit, Greeted
<1> QED BY <1>1, <1>2, <1>3, <1>4 DEF LinkTyped, LinkTypeInv, LinkInit, ConnectionAssumption

LEMMA ServeTypes ==
  ASSUME ConnectionAssumption, LinkTyped, NEW c \in Socks, Serve(c)
  PROVE  LinkTyped'
<1> USE DEF LinkTyped, LinkTypeInv
<1>n. Socks \subseteq Nat /\ None \notin Socks
  BY SockNumbers
<1>t. call \in [Calls -> [at : {"idle", "queued", "waiting", "back"}, on : Socks \cup {None}]]
  OBVIOUS
<1>f. Failed(c) \in [Calls -> [at : {"idle", "queued", "waiting", "back"}, on : Socks \cup {None}]]
  BY <1>t DEF Failed, Back
<1>s. \A d : Shut(d) \in [Socks -> {"up", "silent", "broken"}]
  BY ShutTypes
<1>1. CASE Begin(c)
  BY <1>1, <1>n DEF Begin, Enter, Overtake, Later, ServerTypes, DaemonTypes,
     wireVars, daemonVars, Phases, Greeted
<1>2. CASE Accept(c)
  BY <1>2, <1>n, <1>s DEF Accept, Enter, ServerTypes, DaemonTypes,
     wireVars, daemonVars, Phases, Greeted
<1>d. ASSUME Drop(c), phase[c] \in {"hello", "acking"}, left' \in Nat
      PROVE  LinkTyped'
  BY <1>d, <1>n, <1>s DEF Drop, Enter, ServerTypes, DaemonTypes,
     wireVars, daemonVars, Phases, Greeted
<1>3. CASE ReadHello(c)
  <2>1. CASE Spend("write") /\ Drop(c)
    BY <1>3, <2>1, <1>d, SpendTypes DEF ReadHello
  <2>2. CASE ~(Spend("write") /\ Drop(c))
    <3>1. /\ Enter(c, "acking") /\ row' = "connected" /\ Overtake(c)
          /\ UNCHANGED <<old, registered, superseded, wire, hello, acked, daemon, mine, call, stale, left>>
          /\ phase[c] = "hello" /\ c \in hello
      BY <1>3, <2>2 DEF ReadHello, wireVars, daemonVars
    <3>2. DaemonTypes' /\ late' \in BOOLEAN
      BY <3>1 DEF DaemonTypes, Overtake
    <3>3. ServerTypes' /\ Greeted' /\ (registered # None => phase[registered] = "serving")'
      BY <3>1 DEF Enter, ServerTypes, Phases, Greeted
    <3> QED BY <3>1, <3>2, <3>3
  <2> QED BY <2>1, <2>2
<1>4. CASE Register(c)
  <2>1. CASE wire[c] = "broken" /\ Drop(c) /\ UNCHANGED left
    BY <1>4, <2>1, <1>d DEF Register
  <2>2. CASE ~(wire[c] = "broken" /\ Drop(c) /\ UNCHANGED left)
    <3>1. /\ Enter(c, "serving") /\ registered' = c /\ stale' = FALSE /\ Overtake(c)
          /\ acked' \in {acked, acked \cup {c}} /\ phase[c] = "acking" /\ c \in hello
          /\ UNCHANGED <<old, superseded, row, wire, hello, daemon, mine, call, left>>
      BY <1>4, <2>2 DEF Register, daemonVars, Greeted
    <3>2. DaemonTypes' /\ late' \in BOOLEAN
      BY <3>1 DEF DaemonTypes, Overtake
    <3>3. ServerTypes' /\ Greeted' /\ phase'[registered'] = "serving"
      BY <3>1 DEF Enter, ServerTypes, Phases, Greeted
    <3> QED BY <3>1, <3>2, <3>3
  <2> QED BY <2>1, <2>2
<1>5. CASE Notice(c)
  <2>1. CASE phase[c] = "hello" /\ Drop(c) /\ UNCHANGED left
    BY <2>1, <1>d
  <2>2. CASE phase[c] = "serving" /\ Teardown(c)
    <3>1. left' \in Nat /\ stale' \in BOOLEAN
      BY <2>2, SpendTypes DEF Teardown
    <3>2. call' \in [Calls -> [at : {"idle", "queued", "waiting", "back"}, on : Socks \cup {None}]]
      BY <2>2, <1>t, <1>f DEF Teardown
    <3> QED BY <2>2, <3>1, <3>2, <1>n, <1>s DEF Teardown, Enter, ServerTypes,
         DaemonTypes, wireVars, daemonVars, Phases, Greeted
  <2> QED BY <1>5, <2>1, <2>2 DEF Notice
<1> QED BY <1>1, <1>2, <1>3, <1>4, <1>5 DEF Serve

LEMMA DaemonStepTypes ==
  ASSUME ConnectionAssumption, LinkTyped, Daemon
  PROVE  LinkTyped'
<1> USE DEF LinkTyped, LinkTypeInv
<1>n. Socks \subseteq Nat /\ None \notin Socks
  BY SockNumbers
<1>s. \A d : Shut(d) \in [Socks -> {"up", "silent", "broken"}]
  BY ShutTypes
<1>1. CASE \E c \in Socks : Connect(c)
  BY <1>1, <1>n DEF Connect, Enter, ServerTypes, DaemonTypes,
     wireVars, Phases, Greeted
<1>l. ASSUME Leave, wire' \in {wire, Shut(mine)}, left' \in Nat,
             UNCHANGED <<serverVars, hello, acked, call, late, stale>>
      PROVE  LinkTyped'
  BY <1>l, <1>s, <1>n DEF Leave, ServerTypes, DaemonTypes, serverVars, Greeted
<1>2. CASE OpenTimeout
  BY <1>2, <1>l, SpendTypes DEF OpenTimeout
<1>7. CASE Opened
  BY <1>7, <1>n DEF Opened, ServerTypes, DaemonTypes, serverVars, wireVars, Greeted
<1>3. CASE SayHello
  <2>1. /\ hello' \in {hello, hello \cup {mine}} /\ daemon = "open" /\ daemon' = "hello"
        /\ UNCHANGED <<serverVars, wire, acked, mine, call, late, stale, left>>
    BY <1>3 DEF SayHello
  <2>2. mine \in Socks
    BY <2>1 DEF DaemonTypes
  <2> QED BY <2>1, <2>2, <1>n DEF ServerTypes, DaemonTypes, serverVars, Greeted
<1>4. CASE GotAck
  BY <1>4, <1>n DEF GotAck, ServerTypes, DaemonTypes, serverVars, wireVars, Greeted
<1>5. CASE Closed
  BY <1>5, <1>l DEF Closed, wireVars
<1>6. CASE PongTimeout
  <2>1. left' \in Nat
    BY <1>6, SpendTypes DEF PongTimeout
  <2> QED BY <1>6, <2>1, <1>s, <1>n DEF PongTimeout, ServerTypes, DaemonTypes,
       serverVars, Greeted
<1> QED BY <1>1, <1>2, <1>3, <1>4, <1>5, <1>6, <1>7 DEF Daemon

LEMMA OtherTypes ==
  ASSUME ConnectionAssumption, LinkTyped,
         \/ \E k \in Calls : Take(k) \/ Caller(k)
         \/ Fail \/ ServerRestart \/ Exit
  PROVE  LinkTyped'
<1> USE DEF LinkTyped, LinkTypeInv
<1>n. Socks \subseteq Nat /\ None \notin Socks
  BY SockNumbers
<1>s. \A d : Shut(d) \in [Socks -> {"up", "silent", "broken"}]
  BY ShutTypes
<1>1. CASE \E k \in Calls : Take(k) \/ Caller(k)
  <2> PICK k \in Calls : Take(k) \/ Caller(k)
    BY <1>1
  <2>1. UNCHANGED <<serverVars, wireVars, daemonVars, late, stale, left>>
    BY DEF Take, Caller, Send, Answer, Expire
  <2>2. call' \in [Calls -> [at : {"idle", "queued", "waiting", "back"}, on : Socks \cup {None}]]
    <3>1. CASE Take(k)
      BY <3>1 DEF Take, ServerTypes
    <3>2. CASE Send(k)
      BY <3>2 DEF Send, Return, Back
    <3>3. CASE Answer(k) \/ Expire(k)
      BY <3>3 DEF Answer, Expire, Return, Back
    <3> QED BY <3>1, <3>2, <3>3 DEF Caller
  <2> QED BY <2>1, <2>2 DEF ServerTypes, DaemonTypes, serverVars, wireVars,
       daemonVars, Greeted
<1>2. CASE Fail
  <2>1. left' \in Nat
    BY <1>2, SpendTypes DEF Fail
  <2> QED BY <1>2, <2>1 DEF Fail, ServerTypes, DaemonTypes, serverVars,
       daemonVars, Greeted
<1>3. CASE ServerRestart
  <2>1. left' \in Nat
    BY <1>3, SpendTypes DEF ServerRestart
  <2>2. call' \in [Calls -> [at : {"idle", "queued", "waiting", "back"}, on : Socks \cup {None}]]
    BY <1>3 DEF ServerRestart, Back
  <2> QED BY <1>3, <2>1, <2>2, <1>n DEF ServerRestart, ServerTypes, DaemonTypes,
       daemonVars, Phases, Greeted
<1>4. CASE Exit
  <2>1. left' \in Nat
    BY <1>4, SpendTypes DEF Exit
  <2> QED BY <1>4, <2>1, <1>s DEF Exit, ServerTypes, DaemonTypes, serverVars, Greeted
<1> QED BY <1>1, <1>2, <1>3, <1>4

\* The daemon opens its sockets in order, and its transport is the last of them.
InOrder ==
  /\ \A c, d \in Socks : c < d /\ phase[d] # "none" => phase[c] # "none"
  /\ mine # None => phase[mine] # "none" /\ \A d \in Socks : d > mine => phase[d] = "none"

\* The wire of a coroutine that ended is down, an acknowledged connection was
\* registered, and a connected daemon was acknowledged.
Settled ==
  /\ \A c \in Socks : phase[c] = "ended" => wire[c] # "up"
  /\ \A c \in acked : phase[c] \in {"serving", "ended"}
  /\ daemon = "connected" => mine \in acked

\* A connection in the table is later than every handshake under way.
Newest ==
  registered # None =>
    \A c \in Socks : phase[c] \in {"closing", "hello", "acking"} => c < registered

\* Whoever is served is in the table or superseded.
Known ==
  \A c \in Socks : phase[c] = "serving" => c = registered \/ c \in superseded

\* The daemon's transport, once its hello was read, is shown as connected, and
\* is in the table as soon as it is served.
Shown ==
  mine # None =>
    /\ phase[mine] = "acking" => row = "connected" /\ registered = None
    /\ phase[mine] = "serving" => row = "connected" /\ registered = mine

InTime == Newest /\ Known /\ Shown

LinkInv == LinkTyped /\ InOrder /\ Settled /\ (~late => InTime)

\* What a step of a coroutine does to its socket.
LEMMA ServeMoves ==
  ASSUME LinkTyped, NEW c \in Socks, Serve(c)
  PROVE  /\ phase[c] \notin {"none", "ended"}
         /\ \E p \in Phases \ {"none"} :
              /\ phase' = [phase EXCEPT ![c] = p]
              /\ p = "ended" => wire' = Shut(c)
              /\ acked' # acked => p = "serving" /\ acked' = acked \cup {c}
              /\ phase[c] = "serving" => p = "ended"
         /\ \A d \in Socks : wire[d] # "up" => wire'[d] # "up"
         /\ UNCHANGED <<daemon, mine>>
<1> USE DEF LinkTyped, LinkTypeInv, ServerTypes, DaemonTypes, Phases
<1>s. \A d, e \in Socks : wire[d] # "up" => Shut(e)[d] # "up"
  BY DEF Shut
<1>1. CASE Begin(c)
  BY <1>1 DEF Begin, Enter, wireVars, daemonVars
<1>2. CASE Accept(c)
  BY <1>2, <1>s DEF Accept, Enter, daemonVars
<1>d. ASSUME Drop(c)
      PROVE  /\ phase' = [phase EXCEPT ![c] = "ended"] /\ wire' = Shut(c)
             /\ UNCHANGED <<daemon, mine, acked>>
             /\ \A d \in Socks : wire[d] # "up" => wire'[d] # "up"
  BY <1>d, <1>s DEF Drop, Enter, daemonVars
<1>3. CASE ReadHello(c)
  <2>1. CASE Drop(c)
    BY <1>3, <1>d, <2>1 DEF ReadHello
  <2>2. CASE ~Drop(c)
    BY <1>3, <2>2 DEF ReadHello, Enter, wireVars, daemonVars
  <2> QED BY <2>1, <2>2
<1>4. CASE Register(c)
  <2>1. CASE Drop(c)
    BY <1>4, <1>d, <2>1 DEF Register
  <2>2. CASE ~Drop(c)
    BY <1>4, <2>2 DEF Register, Enter, wireVars, daemonVars
  <2> QED BY <2>1, <2>2
<1>5. CASE Notice(c)
  <2>1. CASE phase[c] = "hello" /\ Drop(c)
    BY <1>5, <1>d, <2>1
  <2>2. CASE phase[c] = "serving" /\ Teardown(c)
    BY <1>s, <2>2 DEF Teardown, Enter, daemonVars
  <2> QED BY <1>5, <2>1, <2>2 DEF Notice
<1> QED BY <1>1, <1>2, <1>3, <1>4, <1>5 DEF Serve

LEMMA ServeInOrder ==
  ASSUME ConnectionAssumption, LinkTyped, InOrder, Settled,
         NEW c \in Socks, Serve(c)
  PROVE  InOrder' /\ Settled'
<1> USE DEF LinkTyped, LinkTypeInv, ServerTypes, DaemonTypes
<1>1. PICK p \in Phases \ {"none"} :
        /\ phase' = [phase EXCEPT ![c] = p]
        /\ p = "ended" => wire' = Shut(c)
        /\ acked' # acked => p = "serving" /\ acked' = acked \cup {c}
        /\ phase[c] = "serving" => p = "ended"
  BY ServeMoves
<1>2. /\ phase[c] \notin {"none", "ended"}
      /\ \A d \in Socks : wire[d] # "up" => wire'[d] # "up"
      /\ UNCHANGED <<daemon, mine>>
  BY ServeMoves
<1>3. \A d \in Socks : phase'[d] = "none" <=> phase[d] = "none"
  BY <1>1, <1>2
<1>4. InOrder'
  BY <1>2, <1>3 DEF InOrder
<1>5. Shut(c)[c] # "up"
  BY DEF Shut
<1>6. (\A d \in Socks : phase[d] = "ended" => wire[d] # "up")'
  BY <1>1, <1>2, <1>5 DEF Settled
<1>7. (\A d \in acked : phase[d] \in {"serving", "ended"})'
  BY <1>1, <1>2 DEF Settled
<1>8. (daemon = "connected" => mine \in acked)'
  BY <1>1, <1>2 DEF Settled
<1> QED BY <1>4, <1>6, <1>7, <1>8 DEF Settled

LEMMA DaemonInOrder ==
  ASSUME ConnectionAssumption, LinkTyped, InOrder, Settled, Daemon
  PROVE  InOrder' /\ Settled'
<1> USE DEF LinkTyped, LinkTypeInv, ServerTypes, DaemonTypes
<1>n. Socks \subseteq Nat /\ None \notin Socks
  BY SockNumbers
<1>s. \A d \in Socks : wire[d] # "up" => Shut(mine)[d] # "up"
  BY DEF Shut
<1>1. CASE \E c \in Socks : Connect(c)
  <2> PICK c \in Socks : Connect(c)
    BY <1>1
  <2>1. /\ phase[c] = "none" /\ phase' = [phase EXCEPT ![c] = "asking"] /\ mine' = c
        /\ daemon' = "opening" /\ UNCHANGED <<wire, acked>>
    BY DEF Connect, Enter, wireVars
  <2>2. \A d \in 1..(c - 1) : phase[d] # "none"
    BY DEF Connect
  <2>3. \A d \in Socks : d < c => phase[d] # "none"
    BY <2>2, <1>n DEF Socks, ConnectionAssumption
  <2>4. \A d \in Socks : d > c => phase[d] = "none"
    BY <2>1, <1>n DEF InOrder
  <2>5. InOrder'
    BY <2>1, <2>3, <2>4, <1>n DEF InOrder
  <2>6. Settled'
    BY <2>1 DEF Settled
  <2> QED BY <2>5, <2>6
<1>l. ASSUME Leave, wire' \in {wire, Shut(mine)}, UNCHANGED <<phase, acked>>
      PROVE  InOrder' /\ Settled'
  BY <1>l, <1>s DEF Leave, InOrder, Settled
<1>2. CASE OpenTimeout
  BY <1>2, <1>l DEF OpenTimeout, serverVars
<1>7. CASE Opened
  BY <1>7 DEF Opened, serverVars, wireVars, InOrder, Settled
<1>3. CASE SayHello
  BY <1>3 DEF SayHello, serverVars, InOrder, Settled
<1>4. CASE GotAck
  BY <1>4 DEF GotAck, serverVars, wireVars, InOrder, Settled
<1>5. CASE Closed
  BY <1>5, <1>l DEF Closed, serverVars, wireVars
<1>6. CASE PongTimeout
  BY <1>6, <1>s DEF PongTimeout, serverVars, InOrder, Settled
<1> QED BY <1>1, <1>2, <1>3, <1>4, <1>5, <1>6, <1>7 DEF Daemon

LEMMA OtherInOrder ==
  ASSUME ConnectionAssumption, LinkTyped, InOrder, Settled,
         \/ \E k \in Calls : Take(k) \/ Caller(k)
         \/ Fail \/ ServerRestart \/ Exit
  PROVE  InOrder' /\ Settled'
<1> USE DEF LinkTyped, LinkTypeInv, ServerTypes, DaemonTypes
<1>n. Socks \subseteq Nat /\ None \notin Socks
  BY SockNumbers
<1>1. CASE \E k \in Calls : Take(k) \/ Caller(k)
  <2>1. UNCHANGED <<phase, wire, acked, daemon, mine>>
    BY <1>1 DEF Take, Caller, Send, Answer, Expire, serverVars,
       wireVars, daemonVars
  <2> QED BY <2>1 DEF InOrder, Settled
<1>2. CASE Fail
  <2>1. /\ \A d \in Socks : wire[d] # "up" => wire'[d] # "up"
        /\ UNCHANGED <<phase, acked, daemon, mine>>
    BY <1>2 DEF Fail, serverVars, daemonVars
  <2> QED BY <2>1 DEF InOrder, Settled
<1>3. CASE ServerRestart
  <2>1. /\ phase' = [c \in Socks |-> IF phase[c] = "none" THEN "none" ELSE "ended"]
        /\ wire' = [c \in Socks |-> IF phase[c] # "none" /\ wire[c] = "up"
                                         THEN "broken" ELSE wire[c]]
        /\ UNCHANGED <<acked, daemon, mine>>
    BY <1>3 DEF ServerRestart, daemonVars
  <2>2. InOrder'
    BY <2>1 DEF InOrder
  <2>3. Settled'
    BY <2>1 DEF Settled
  <2> QED BY <2>2, <2>3
<1>4. CASE Exit
  <2>1. /\ \A d \in Socks : wire[d] # "up" => wire'[d] # "up"
        /\ UNCHANGED <<phase, acked>> /\ daemon' = "exited" /\ mine' = None
    BY <1>4 DEF Exit, serverVars, Shut
  <2> QED BY <2>1 DEF InOrder, Settled
<1> QED BY <1>1, <1>2, <1>3, <1>4

\* A coroutine that goes on in time is that of the last socket which began.
LEMMA OnTime ==
  ASSUME LinkTyped, NEW c \in Socks, Overtake(c), ~late'
  PROVE  ~late /\ \A d \in Socks : d > c => phase[d] \notin Begun
BY DEF Overtake, Later, LinkTyped, LinkTypeInv

LEMMA BeginInTime ==
  ASSUME ConnectionAssumption, LinkTyped, InOrder, ~late => InTime,
         NEW c \in Socks, Begin(c), ~late'
  PROVE  InTime'
<1> USE DEF LinkTyped, LinkTypeInv, ServerTypes, DaemonTypes
<1>n. Socks \subseteq Nat /\ None \notin Socks
  BY SockNumbers
<1>1. /\ phase[c] = "asking" /\ phase' = [phase EXCEPT ![c] = "closing"]
      /\ registered' = None /\ superseded' = superseded \cup ({registered} \ {None})
      /\ UNCHANGED <<row, mine>> /\ Overtake(c)
  BY DEF Begin, Enter, daemonVars
<1>2. InTime /\ \A d \in Socks : d > c => phase[d] \notin Begun
  BY <1>1, OnTime
<1>3. Newest'
  BY <1>1 DEF Newest
<1>4. Known'
  BY <1>1, <1>2, <1>n DEF InTime, Known
<1>5. mine # None /\ mine # c => mine > c
  BY <1>1, <1>n DEF InOrder
<1>6. Shown'
  BY <1>1, <1>2, <1>5, <1>n DEF InTime, Shown, Begun
<1> QED BY <1>3, <1>4, <1>6 DEF InTime

LEMMA RegisterInTime ==
  ASSUME ConnectionAssumption, LinkTyped, InOrder, ~late => InTime,
         NEW c \in Socks, phase[c] = "acking",
         phase' = [phase EXCEPT ![c] = "serving"], registered' = c,
         UNCHANGED <<row, mine, superseded>>, Overtake(c), ~late'
  PROVE  InTime'
<1> USE DEF LinkTyped, LinkTypeInv, ServerTypes, DaemonTypes
<1>n. Socks \subseteq Nat /\ None \notin Socks
  BY SockNumbers
<1>2. InTime /\ \A d \in Socks : d > c => phase[d] \notin Begun
  BY OnTime
<1>3. registered = None
  BY <1>2 DEF InTime, Newest, Begun
<1>4. Newest'
  <2>1. \A d \in Socks : phase'[d] \in {"closing", "hello", "acking"} => d # c /\ ~(d > c)
    BY <1>2 DEF Begun
  <2> QED BY <2>1, <1>n DEF Newest
<1>5. Known'
  BY <1>2, <1>3, <1>n DEF InTime, Known
<1>6. mine # None /\ mine # c => mine > c
  BY <1>n DEF InOrder
<1>7. Shown'
  BY <1>2, <1>6, <1>n DEF InTime, Shown, Begun
<1> QED BY <1>4, <1>5, <1>7 DEF InTime

LEMMA HelloInTime ==
  ASSUME ConnectionAssumption, LinkTyped, InOrder, ~late => InTime,
         NEW c \in Socks, phase[c] = "hello",
         phase' = [phase EXCEPT ![c] = "acking"], row' = "connected",
         UNCHANGED <<registered, mine, superseded>>, Overtake(c), ~late'
  PROVE  InTime'
<1> USE DEF LinkTyped, LinkTypeInv, ServerTypes, DaemonTypes
<1>n. Socks \subseteq Nat /\ None \notin Socks
  BY SockNumbers
<1>2. InTime /\ \A d \in Socks : d > c => phase[d] \notin Begun
  BY OnTime
<1>3. registered = None
  BY <1>2 DEF InTime, Newest, Begun
<1>4. Newest' /\ Known'
  BY <1>2, <1>3 DEF InTime, Newest, Known
<1>5. Shown'
  BY <1>2, <1>3 DEF InTime, Shown
<1> QED BY <1>4, <1>5 DEF InTime

\* A coroutine that ends takes at most its own connection out of the table.
LEMMA EndInTime ==
  ASSUME ConnectionAssumption, LinkTyped, InTime,
         NEW c \in Socks, phase' = [phase EXCEPT ![c] = "ended"],
         UNCHANGED <<mine, superseded>>,
         \/ UNCHANGED <<registered, row>>
         \/ registered = c /\ registered' = None
  PROVE  InTime'
<1> USE DEF LinkTyped, LinkTypeInv, ServerTypes, DaemonTypes
<1>n. Socks \subseteq Nat /\ None \notin Socks
  BY SockNumbers
<1>1. Newest'
  BY DEF InTime, Newest
<1>2. Known'
  BY DEF InTime, Known
<1>3. Shown'
  BY <1>n DEF InTime, Shown
<1> QED BY <1>1, <1>2, <1>3 DEF InTime

LEMMA ServeInTime ==
  ASSUME ConnectionAssumption, LinkTyped, InOrder, ~late => InTime,
         NEW c \in Socks, Serve(c), ~late'
  PROVE  InTime'
<1>1. CASE Begin(c)
  BY <1>1, BeginInTime
<1>2. CASE Accept(c)
  <2>1. /\ phase[c] = "closing" /\ phase' = [phase EXCEPT ![c] = "hello"]
        /\ UNCHANGED <<registered, superseded, row, mine, late>>
    BY <1>2 DEF Accept, Enter, daemonVars
  <2>2. phase \in [Socks -> Phases]
    BY DEF LinkTyped, LinkTypeInv, ServerTypes
  <2>3. Newest'
    BY <2>1, <2>2 DEF InTime, Newest
  <2>4. Known' /\ Shown'
    BY <2>1, <2>2 DEF InTime, Known, Shown
  <2> QED BY <2>3, <2>4 DEF InTime
<1>d. ASSUME Drop(c) PROVE InTime'
  <2>1. /\ phase' = [phase EXCEPT ![c] = "ended"]
        /\ UNCHANGED <<registered, superseded, row, mine, late>>
    BY <1>d DEF Drop, Enter, daemonVars
  <2> QED BY <2>1, EndInTime
<1>3. CASE ReadHello(c)
  <2>1. CASE ~Drop(c)
    <3>1. /\ phase[c] = "hello" /\ phase' = [phase EXCEPT ![c] = "acking"] /\ row' = "connected"
          /\ UNCHANGED <<registered, mine, superseded>> /\ Overtake(c)
      BY <1>3, <2>1 DEF ReadHello, Enter, daemonVars
    <3> QED BY <3>1, HelloInTime
  <2> QED BY <2>1, <1>d
<1>4. CASE Register(c)
  <2>1. CASE ~Drop(c)
    <3>1. /\ phase[c] = "acking" /\ phase' = [phase EXCEPT ![c] = "serving"] /\ registered' = c
          /\ UNCHANGED <<row, mine, superseded>> /\ Overtake(c)
      BY <1>4, <2>1 DEF Register, Enter, daemonVars
    <3> QED BY <3>1, RegisterInTime
  <2> QED BY <2>1, <1>d
<1>5. CASE Notice(c)
  <2>1. CASE Teardown(c)
    <3>1. /\ phase' = [phase EXCEPT ![c] = "ended"]
          /\ UNCHANGED <<superseded, mine, late>>
          /\ \/ UNCHANGED <<registered, row>>
             \/ registered = c /\ registered' = None
      BY <2>1 DEF Teardown, Enter, daemonVars
    <3> QED BY <3>1, EndInTime
  <2> QED BY <1>5, <2>1, <1>d DEF Notice
<1> QED BY <1>1, <1>2, <1>3, <1>4, <1>5 DEF Serve

LEMMA DaemonInTime ==
  ASSUME ConnectionAssumption, LinkTyped, InTime, Daemon
  PROVE  InTime'
<1> USE DEF LinkTyped, LinkTypeInv, ServerTypes, DaemonTypes
<1>1. CASE \E c \in Socks : Connect(c)
  <2> PICK c \in Socks : Connect(c)
    BY <1>1
  <2>1. /\ phase[c] = "none" /\ phase' = [phase EXCEPT ![c] = "asking"] /\ mine' = c
        /\ UNCHANGED <<registered, superseded, row>>
    BY DEF Connect, Enter
  <2>2. Newest' /\ Known'
    BY <2>1 DEF InTime, Newest, Known
  <2>3. Shown'
    BY <2>1 DEF Shown
  <2> QED BY <2>2, <2>3 DEF InTime
<1>2. CASE ~(\E c \in Socks : Connect(c))
  <2>1. UNCHANGED <<phase, registered, superseded, row>> /\ mine' \in {mine, None}
    BY <1>2 DEF Daemon, OpenTimeout, Opened, SayHello, GotAck, Closed,
       PongTimeout, Leave, serverVars
  <2> QED BY <2>1 DEF InTime, Newest, Known, Shown
<1> QED BY <1>1, <1>2

LEMMA OtherInTime ==
  ASSUME ConnectionAssumption, LinkTyped, InTime,
         \/ \E k \in Calls : Take(k) \/ Caller(k)
         \/ Fail \/ ServerRestart \/ Exit
  PROVE  InTime'
<1> USE DEF LinkTyped, LinkTypeInv, ServerTypes, DaemonTypes
<1>1. CASE ServerRestart
  <2>1. /\ phase' = [c \in Socks |-> IF phase[c] = "none" THEN "none" ELSE "ended"]
        /\ registered' = None /\ UNCHANGED mine
    BY <1>1 DEF ServerRestart, daemonVars
  <2> QED BY <2>1 DEF InTime, Newest, Known, Shown
<1>2. CASE ~ServerRestart
  <2>1. UNCHANGED <<phase, registered, superseded, row>> /\ mine' \in {mine, None}
    BY <1>2 DEF Take, Caller, Send, Answer, Expire, Fail, Exit,
       serverVars, daemonVars
  <2> QED BY <2>1 DEF InTime, Newest, Known, Shown
<1> QED BY <1>1, <1>2

LEMMA LinkStep ==
  ASSUME ConnectionAssumption, LinkInv, [LinkNext]_linkVars
  PROVE  LinkInv'
<1>1. CASE \E c \in Socks : Serve(c)
  BY <1>1, ServeTypes, ServeInOrder, ServeInTime DEF LinkInv
<1>2. CASE Daemon
  <2>1. UNCHANGED late
    BY <1>2 DEF Daemon, Connect, OpenTimeout, Opened, SayHello, GotAck, Closed,
       PongTimeout
  <2> QED BY <1>2, <2>1, DaemonStepTypes, DaemonInOrder, DaemonInTime DEF LinkInv
<1>3. CASE \/ \E k \in Calls : Take(k) \/ Caller(k)
           \/ Fail \/ ServerRestart \/ Exit
  <2>1. UNCHANGED late
    BY <1>3 DEF Take, Caller, Send, Answer, Expire, Fail,
       ServerRestart, Exit
  <2> QED BY <1>3, <2>1, OtherTypes, OtherInOrder, OtherInTime DEF LinkInv
<1>4. CASE UNCHANGED linkVars
  <2>1. UNCHANGED <<phase, old, registered, superseded, row, wire, hello, acked, daemon, mine, call,
                    late, stale, left>>
    BY <1>4 DEF linkVars, serverVars, wireVars, daemonVars
  <2>2. LinkTyped'
    BY <2>1 DEF LinkInv, LinkTyped, LinkTypeInv, ServerTypes, DaemonTypes, Greeted
  <2>3. InOrder' /\ Settled'
    BY <2>1 DEF LinkInv, InOrder, Settled
  <2>4. ~late' => InTime'
    BY <2>1 DEF LinkInv, InTime, Newest, Known, Shown
  <2> QED BY <2>2, <2>3, <2>4 DEF LinkInv
<1> QED BY <1>1, <1>2, <1>3, <1>4 DEF LinkNext

LEMMA LinkHolds ==
  ASSUME ConnectionAssumption
  PROVE  LinkSpec => []LinkInv
<1>1. ASSUME LinkInit PROVE LinkInv
  <2>1. LinkTyped
    BY <1>1, LinkStarts
  <2>2. InOrder /\ Settled /\ InTime
    BY <1>1 DEF LinkInit, InOrder, Settled, InTime, Newest, Known, Shown
  <2> QED BY <2>1, <2>2 DEF LinkInv
<1>2. LinkInv /\ [LinkNext]_linkVars => LinkInv'
  BY LinkStep
<1> QED BY <1>1, <1>2, PTL DEF LinkSpec

\* Every variable of the connection keeps its type, only a served connection is
\* in the table and only a greeted one is acknowledged, for any number of
\* sockets, callers and faults.
THEOREM ConnectionTypes ==
  ASSUME ConnectionAssumption
  PROVE  LinkSpec => []LinkTypeInv
<1>1. LinkInv => LinkTypeInv
  BY DEF LinkInv, LinkTyped
<1> QED BY <1>1, LinkHolds, PTL

\* A daemon connected over a working wire is in the table and shown as connected,
\* and whoever else is served is superseded, however the coroutines of older and
\* newer sockets interleave, fail or notice late - as long as no handshake goes
\* on after a later one began.
THEOREM OneLiveHolds ==
  ASSUME ConnectionAssumption
  PROVE  LinkSpec => []OneLive
<1>1. LinkInv => OneLive
  <2> SUFFICES ASSUME LinkInv, ~late PROVE OneLive
    BY DEF OneLive
  <2>1. ASSUME daemon = "connected", wire[mine] = "up"
        PROVE  registered = mine /\ row = "connected"
    <3>1. mine \in acked /\ mine \in Socks /\ mine # None
      BY <2>1 DEF LinkInv, Settled, LinkTyped, LinkTypeInv, DaemonTypes
    <3>2. phase[mine] = "serving"
      BY <2>1, <3>1 DEF LinkInv, Settled
    <3> QED BY <3>1, <3>2 DEF LinkInv, InTime, Shown
  <2>2. \A c \in Socks : phase[c] = "serving" => c = registered \/ c \in superseded
    BY DEF LinkInv, InTime, Known
  <2> QED BY <2>1, <2>2 DEF OneLive
<1> QED BY <1>1, LinkHolds, PTL
=============================================================================
