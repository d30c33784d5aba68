---------------------------- MODULE PreviewProofs ----------------------------
(***************************************************************************)
(* Theorems about Preview for any number of sessions, any set of ports and *)
(* any fault budget.                                                       *)
(***************************************************************************)
EXTENDS Preview, TLAPS

-----------------------------------------------------------------------------
(* Types *)

MonitorSteps == {"none", "waiting", "serving", "killing", "failing", "done"}
HandlerType  == [step : {"idle", "spawn", "kill"}, id : Ids \union {0},
                 port : Ports \union {0}]
LeftType     == [faults : 0 .. Faults, recycles : 0 .. Recycles]

ServerTyped == /\ row \in [Ids -> Statuses] /\ jobs \in SUBSET Calls
               /\ recon \in {"none", "replay", "close", "failed"}
               /\ hello \in [Ids -> Statuses] /\ dropped \in SUBSET Ids
NetTyped    == /\ conn \in {"up", "down"}
               /\ down \in Seq(Calls) /\ up \in Seq(Reports)
DaemonTyped == /\ entry \in [Ids -> Statuses] /\ port \in [Ids -> Ports \union {0}]
               /\ halting \in [Ids -> BOOLEAN] /\ monitor \in [Ids -> MonitorSteps]
               /\ assigned \in SUBSET Ports /\ handler \in HandlerType
               /\ exited \in [Ids -> BOOLEAN]

Typed == ServerTyped /\ NetTyped /\ DaemonTyped /\ left \in LeftType

LEMMA TypedIsTypeInv == Typed => TypeInv
BY DEF Typed, TypeInv, ServerTyped, NetTyped, DaemonTyped, MonitorSteps, HandlerType,
       LeftType

\* What the steps of the server and of the connection leave alone.
TableStays == UNCHANGED <<table, handler, exited>>

LEMMA TableStaysTyped ==
  ASSUME DaemonTyped, TableStays
  PROVE  DaemonTyped'
BY DEF TableStays, table, DaemonTyped

\* An update never leaves the statuses.
LEMMA AdvancedType ==
  ASSUME NEW old \in Statuses, NEW new \in Statuses
  PROVE  Advanced(old, new) \in Statuses
BY DEF Advanced

LEMMA HeadTail ==
  ASSUME NEW S, NEW s \in Seq(S), s # <<>>
  PROVE  Head(s) \in S /\ Tail(s) \in Seq(S)
OBVIOUS

LEMMA ReportTypes ==
  ASSUME NetTyped, NEW s \in Ids, NEW status \in {"running", "failed", "recycled"},
         Report(s, status), conn' = conn, down' \in Seq(Calls)
  PROVE  NetTyped'
<1>1. [id |-> s, status |-> status] \in Reports
  BY DEF Reports
<1>2. up' \in Seq(Reports)
  BY <1>1 DEF NetTyped, Report
<1> QED
  BY <1>2 DEF NetTyped

LEMMA ServerStepTyped ==
  ASSUME Typed, ReadReport \/ Replay \/ Close \/ (\E s \in Ids : StartingTimeout(s))
  PROVE  Typed' /\ TableStays
<1>1. TableStays /\ left' = left /\ dropped' = dropped /\ conn' = conn /\ down' = down
  BY DEF ReadReport, Replay, Close, StartingTimeout, TableStays, net
<1>2. CASE ReadReport
  <2>1. /\ Head(up).id \in Ids /\ Head(up).status \in Statuses /\ Tail(up) \in Seq(Reports)
    <3>1. Head(up) \in Reports /\ Tail(up) \in Seq(Reports)
      BY <1>2, HeadTail DEF ReadReport, Typed, NetTyped
    <3> QED
      BY <3>1 DEF Reports, Statuses
  <2>2. row' \in [Ids -> Statuses]
    BY <1>2, <2>1, AdvancedType DEF ReadReport, Typed, ServerTyped
  <2> QED
    BY <1>1, <1>2, <2>1, <2>2, TableStaysTyped
       DEF ReadReport, Typed, ServerTyped, NetTyped
<1>3. CASE Replay
  <2>1. row' \in [Ids -> Statuses]
    BY <1>3, AdvancedType DEF Replay, Typed, ServerTyped
  <2> QED
    BY <1>1, <1>3, <2>1, TableStaysTyped DEF Replay, net, Typed, ServerTyped, NetTyped
<1>4. CASE Close
  <2>1. row' \in [Ids -> Statuses] /\ hello' \in [Ids -> Statuses]
    BY <1>4 DEF Close, Typed, ServerTyped, Statuses, Nothing
  <2>2. jobs' \in SUBSET Calls
    BY <1>4 DEF Close, Typed, ServerTyped, Calls
  <2> QED
    BY <1>1, <1>4, <2>1, <2>2, TableStaysTyped DEF Close, net, Typed, ServerTyped, NetTyped
<1>5. CASE \E s \in Ids : StartingTimeout(s)
  <2>1. row' \in [Ids -> Statuses]
    BY <1>5 DEF StartingTimeout, Typed, ServerTyped, Statuses
  <2> QED
    BY <1>1, <1>5, <2>1, TableStaysTyped
       DEF StartingTimeout, net, Typed, ServerTyped, NetTyped
<1> QED
  BY <1>1, <1>2, <1>3, <1>4, <1>5

\* The server's writes that fail.
LEMMA FailureTyped ==
  ASSUME PreviewAssumption, Typed, DropReport \/ Abort
  PROVE  Typed' /\ TableStays
<1>1. TableStays /\ left.faults > 0 /\ left' = [left EXCEPT !.faults = @ - 1]
  BY DEF DropReport, Abort, TableStays
<1>2. left' \in LeftType
  BY <1>1 DEF Typed, LeftType, PreviewAssumption
<1>3. CASE DropReport
  <2>1. Head(up) \in Reports /\ Tail(up) \in Seq(Reports)
    BY <1>3, HeadTail DEF DropReport, Typed, NetTyped
  <2>2. dropped' \in SUBSET Ids
    BY <1>3, <2>1 DEF DropReport, Reports, Typed, ServerTyped
  <2> QED
    BY <1>1, <1>2, <1>3, <2>1, <2>2, TableStaysTyped
       DEF DropReport, Typed, ServerTyped, NetTyped
<1>4. CASE Abort
  BY <1>1, <1>2, <1>4, TableStaysTyped DEF Abort, net, Typed, ServerTyped, NetTyped
<1> QED
  BY <1>3, <1>4

LEMMA CallStepTyped ==
  ASSUME PreviewAssumption, Typed,
         \/ \E s \in Ids : Open(s) \/ Recycle(s)
         \/ \E j \in jobs : Dispatch(j)
  PROVE  Typed' /\ TableStays
<1>1. TableStays
  BY DEF Open, Recycle, Dispatch, TableStays
<1>2. ASSUME NEW s \in Ids, Open(s)
      PROVE  Typed'
  <2>1. row' \in [Ids -> Statuses] /\ jobs' \in SUBSET Calls
    BY <1>2 DEF Open, Typed, ServerTyped, Statuses, Calls
  <2> QED
    BY <1>1, <1>2, <2>1, TableStaysTyped DEF Open, net, Typed, ServerTyped, NetTyped
<1>3. ASSUME NEW s \in Ids, Recycle(s)
      PROVE  Typed'
  <2>1. jobs' \in SUBSET Calls
    BY <1>3 DEF Recycle, Typed, ServerTyped, Calls
  <2>2. left.recycles > 0 /\ left' = [left EXCEPT !.recycles = @ - 1]
    BY <1>3 DEF Recycle
  <2>3. left' \in LeftType
    BY <2>2 DEF Typed, LeftType, PreviewAssumption
  <2> QED
    BY <1>1, <1>3, <2>1, <2>3, TableStaysTyped DEF Recycle, net, Typed, ServerTyped, NetTyped
<1>4. ASSUME NEW j \in jobs, Dispatch(j)
      PROVE  Typed'
  <2>1. j \in Calls
    BY DEF Typed, ServerTyped
  <2>2. down' \in Seq(Calls) /\ jobs' \in SUBSET Calls
    BY <1>4, <2>1 DEF Dispatch, Typed, ServerTyped, NetTyped
  <2> QED
    BY <1>1, <1>4, <2>2, TableStaysTyped DEF Dispatch, Typed, ServerTyped, NetTyped
<1> QED
  BY <1>1, <1>2, <1>3, <1>4

LEMMA LinkStepTyped ==
  ASSUME PreviewAssumption, Typed, Connect \/ Cut
  PROVE  Typed' /\ TableStays
<1>1. TableStays
  BY DEF Connect, Cut, TableStays
<1>2. CASE Connect
  BY <1>1, <1>2, TableStaysTyped DEF Connect, Typed, ServerTyped, NetTyped, DaemonTyped
<1>3. CASE Cut
  <2>1. left.faults > 0 /\ left' = [left EXCEPT !.faults = @ - 1]
    BY <1>3 DEF Cut
  <2>2. left' \in LeftType
    BY <2>1 DEF Typed, LeftType, PreviewAssumption
  <2>3. ServerTyped' /\ NetTyped'
    BY <1>3 DEF Cut, Disconnected, Typed, ServerTyped, NetTyped, Nothing, Statuses
  <2> QED
    BY <1>1, <2>2, <2>3, TableStaysTyped DEF Typed
<1> QED
  BY <1>1, <1>2, <1>3

LEMMA CrashTyped ==
  ASSUME PreviewAssumption, Typed, Crash
  PROVE  Typed'
<1>1. left.faults > 0 /\ left' = [left EXCEPT !.faults = @ - 1]
  BY DEF Crash
<1>2. left' \in LeftType
  BY <1>1 DEF Typed, LeftType, PreviewAssumption
<1>3. ServerTyped' /\ NetTyped'
  BY DEF Crash, Disconnected, Typed, ServerTyped, NetTyped, Nothing, Statuses
<1>4. DaemonTyped'
  BY DEF Crash, DaemonTyped, Nothing, Statuses, MonitorSteps, HandlerType, Idle
<1> QED
  BY <1>2, <1>3, <1>4 DEF Typed

LEMMA HandlesTyped ==
  ASSUME Typed, NEW s \in Ids, Handles(s)
  PROVE  Typed'
<1>1. ServerTyped' /\ left' = left /\ conn' = conn
  BY DEF Handles, Start, Spawned, NotSpawned, StopNothing, Stop, Stopped, server, net,
         Typed, ServerTyped
<1>2. \A kind \in {"start", "stop"} : Takes(kind, s) => down' \in Seq(Calls)
  BY HeadTail DEF Takes, Typed, NetTyped
<1>3. NetTyped'
  <2>1. CASE Start(s) \/ StopNothing(s) \/ Stop(s)
    BY <1>1, <1>2, <2>1 DEF Start, StopNothing, Stop, Typed, NetTyped
  <2>2. CASE Spawned(s)
    BY <2>2 DEF Spawned, net, Typed, NetTyped
  <2>3. CASE NotSpawned(s) \/ Stopped(s)
    BY <1>1, <2>3, ReportTypes DEF NotSpawned, Stopped, Typed, NetTyped
  <2> QED
    BY <2>1, <2>2, <2>3 DEF Handles
<1>4. DaemonTyped'
  <2>1. CASE Start(s)
    <3>1. handler' \in HandlerType /\ assigned' \in SUBSET Ports
      BY <2>1 DEF Start, Typed, DaemonTyped, HandlerType
    <3> QED
      BY <2>1, <3>1 DEF Start, Typed, DaemonTyped
  <2>2. CASE Spawned(s)
    <3>1. handler.port \in Ports \union {0} /\ handler' \in HandlerType
      BY <2>2 DEF Spawned, Typed, DaemonTyped, HandlerType, Idle
    <3> QED
      BY <2>2, <3>1 DEF Spawned, Typed, DaemonTyped, Statuses, MonitorSteps
  <2>3. CASE NotSpawned(s)
    BY <2>3 DEF NotSpawned, Typed, DaemonTyped, Statuses, HandlerType, Idle
  <2>4. CASE StopNothing(s)
    BY <2>4 DEF StopNothing, table, Typed, DaemonTyped
  <2>5. CASE Stop(s)
    <3>1. handler' \in HandlerType
      BY <2>5 DEF Stop, HandlerType
    <3> QED
      BY <2>5, <3>1 DEF Stop, Typed, DaemonTyped
  <2>6. CASE Stopped(s)
    BY <2>6 DEF Stopped, Typed, DaemonTyped, Statuses, HandlerType, Idle
  <2> QED
    BY <2>1, <2>2, <2>3, <2>4, <2>5, <2>6 DEF Handles
<1> QED
  BY <1>1, <1>3, <1>4 DEF Typed

LEMMA MonitorsTyped ==
  ASSUME Typed, NEW s \in Ids, Monitors(s) \/ Exit(s)
  PROVE  Typed'
<1>1. ServerTyped' /\ left' = left /\ conn' = conn /\ down' = down
  BY DEF Monitors, Leaves, Reached, Unreached, Fails, FailReported, Exit, server, net,
         Typed, ServerTyped
<1>2. NetTyped'
  <2>1. CASE Leaves(s) \/ Unreached(s) \/ Fails(s) \/ Exit(s)
    BY <2>1 DEF Leaves, Unreached, Fails, Exit, net, Typed, NetTyped
  <2>2. CASE Reached(s) \/ FailReported(s)
    BY <1>1, <2>2, ReportTypes DEF Reached, FailReported, Typed, NetTyped
  <2> QED
    BY <2>1, <2>2 DEF Monitors
<1>3. DaemonTyped'
  <2>1. CASE Leaves(s)
    <3>1. exited' \in [Ids -> BOOLEAN]
      BY <2>1 DEF Leaves, Typed, DaemonTyped
    <3> QED
      BY <2>1, <3>1 DEF Leaves, Monitor, Typed, DaemonTyped, MonitorSteps
  <2>2. CASE Reached(s) \/ Unreached(s) \/ Fails(s)
    BY <2>2 DEF Reached, Unreached, Fails, Monitor, Typed, DaemonTyped, MonitorSteps, Statuses
  <2>3. CASE FailReported(s) \/ Exit(s)
    BY <2>3 DEF FailReported, Exit, table, Monitor, Typed, DaemonTyped, MonitorSteps
  <2> QED
    BY <2>1, <2>2, <2>3 DEF Monitors
<1> QED
  BY <1>1, <1>2, <1>3 DEF Typed

LEMMA InitTyped ==
  ASSUME PreviewAssumption, Init
  PROVE  Typed
<1>1. ServerTyped /\ NetTyped
  BY DEF Init, ServerTyped, NetTyped, Nothing, Statuses
<1>2. DaemonTyped
  BY DEF Init, DaemonTyped, Nothing, Statuses, MonitorSteps, HandlerType, Idle
<1>3. left \in LeftType
  BY DEF Init, LeftType, PreviewAssumption
<1> QED
  BY <1>1, <1>2, <1>3 DEF Typed

LEMMA StepTyped ==
  ASSUME PreviewAssumption, Typed, [Next]_vars
  PROVE  Typed'
<1>1. CASE UNCHANGED vars
  BY <1>1 DEF vars, server, net, table, Typed, ServerTyped, NetTyped, DaemonTyped
<1>2. CASE Next
  BY <1>2, ServerStepTyped, FailureTyped, CallStepTyped, LinkStepTyped, CrashTyped, HandlesTyped,
     MonitorsTyped DEF Next
<1> QED
  BY <1>1, <1>2

\* Rows, frames, the daemon's table, its monitors and its handler keep their
\* types: no report carries a status that the server does not know.
THEOREM TypeCorrect ==
  ASSUME PreviewAssumption
  PROVE  Spec => []TypeInv
<1>1. Init => Typed
  BY InitTyped
<1>2. Typed /\ [Next]_vars => Typed'
  BY StepTyped
<1>3. Typed => TypeInv
  BY TypedIsTypeInv
<1> QED
  BY <1>1, <1>2, <1>3, PTL DEF Spec

-----------------------------------------------------------------------------
(* Each session is started once *)

StartCall(s) == [kind |-> "start", id |-> s]
Spawning(s)  == handler.step = "spawn" /\ handler.id = s

\* A start is in one place: not yet called for, among the calls, on the
\* connection, or being spawned; in all of them the daemon knows nothing of it.
Uncalled(s)  == /\ entry[s] = "absent" /\ StartCall(s) \notin jobs /\ ~Spawning(s)
                /\ \A k \in DOMAIN down : down[k] # StartCall(s)
Called(s)    == /\ entry[s] = "absent" /\ ~Spawning(s)
                /\ \A k \in DOMAIN down : down[k] # StartCall(s)
Travelling(s, k) ==
  /\ entry[s] = "absent" /\ ~Spawning(s)
  /\ \A l \in DOMAIN down : down[l] = StartCall(s) => l = k

StartsOnce ==
  \A s \in Ids :
    /\ row[s] = "absent" => Uncalled(s)
    /\ StartCall(s) \in jobs => Called(s)
    /\ \A k \in DOMAIN down : down[k] = StartCall(s) => Travelling(s, k)
    /\ Spawning(s) => entry[s] = "absent"

\* A row is opened by Open alone and is not closed to "absent".
RowsStay == \A s \in Ids : row'[s] = "absent" => row[s] = "absent"

LEMMA RowsDoNotVanish ==
  ASSUME Typed, Next
  PROVE  RowsStay
<1>1. CASE row' = row
  BY <1>1 DEF RowsStay
<1>2. CASE ReadReport
  <2>1. \A s \in Ids : row'[s] \in {row[s], Advanced(row[s], Head(up).status)}
    BY <1>2 DEF ReadReport, Typed, ServerTyped
  <2> QED
    BY <2>1 DEF RowsStay, Advanced, Active
<1>3. CASE Replay
  BY <1>3 DEF Replay, RowsStay, Advanced, Active
<1>4. CASE Close \/ \E s \in Ids : StartingTimeout(s) \/ Open(s)
  BY <1>4 DEF Close, StartingTimeout, Open, RowsStay, Typed, ServerTyped
<1> QED
  BY <1>1, <1>2, <1>3, <1>4
     DEF Next, DropReport, Abort, Connect, Cut, Crash, Dispatch, Recycle, Handles, Start, Spawned, NotSpawned,
         StopNothing, Stop, Stopped, Monitors, Leaves, Reached, Unreached, Fails,
         FailReported, Exit, server

\* A step that starts nothing, and sets no entry that is absent, keeps it.
LEMMA NothingStarts ==
  ASSUME StartsOnce, RowsStay,
         \A s \in Ids : /\ StartCall(s) \in jobs' => StartCall(s) \in jobs
                        /\ entry[s] = "absent" => entry'[s] = "absent"
                        /\ Spawning(s)' => Spawning(s),
         down' \in {down, <<>>}
  PROVE  StartsOnce'
<1> SUFFICES ASSUME NEW s \in Ids
             PROVE  /\ row'[s] = "absent" => Uncalled(s)'
                    /\ StartCall(s) \in jobs' => Called(s)'
                    /\ \A k \in DOMAIN down' : down'[k] = StartCall(s) => Travelling(s, k)'
                    /\ Spawning(s)' => entry'[s] = "absent"
  BY DEF StartsOnce, StartCall
<1>1. \A k \in DOMAIN down' : k \in DOMAIN down /\ down'[k] = down[k]
  OBVIOUS
<1> QED
  BY <1>1 DEF StartsOnce, RowsStay, Uncalled, Called, Travelling, StartCall

LEMMA OpenStarts ==
  ASSUME Typed, StartsOnce, NEW s \in Ids, Open(s)
  PROVE  StartsOnce'
<1>1. /\ row[s] = "absent" /\ row' = [row EXCEPT ![s] = "starting"]
      /\ jobs' = jobs \union {StartCall(s)} /\ UNCHANGED <<down, entry, handler>>
  BY DEF Open, net, table, StartCall
<1>2. \A r \in Ids : /\ row'[r] = "absent" => r # s /\ row[r] = "absent"
                     /\ StartCall(r) \in jobs' => r = s \/ StartCall(r) \in jobs
  BY <1>1 DEF Typed, ServerTyped, StartCall
<1>3. \A r \in Ids : /\ Called(r)' <=> Called(r)
                     /\ Spawning(r)' <=> Spawning(r)
                     /\ \A k : Travelling(r, k)' <=> Travelling(r, k)
  BY <1>1 DEF Called, Spawning, Travelling, StartCall
<1>4. Called(s)
  BY <1>1 DEF StartsOnce, Uncalled, Called
<1>5. \A r \in Ids : row'[r] = "absent" => Uncalled(r)'
  BY <1>1, <1>2, <1>3 DEF StartsOnce, Uncalled, StartCall, Spawning
<1> QED
  BY <1>1, <1>2, <1>3, <1>4, <1>5 DEF StartsOnce, StartCall, Spawning

LEMMA DispatchStarts ==
  ASSUME Typed, StartsOnce, NEW j \in jobs, Dispatch(j)
  PROVE  StartsOnce'
<1>1. /\ jobs' = jobs \ {j} /\ UNCHANGED <<row, entry, handler>>
      /\ down' = down \/ down' = Append(down, j)
  BY DEF Dispatch, table
<1>2. RowsStay
  BY <1>1 DEF RowsStay
<1>3. CASE down' = down
  BY <1>1, <1>2, <1>3, NothingStarts DEF Spawning
<1>4. CASE down' = Append(down, j)
  <2>1. /\ down \in Seq(Calls) /\ Len(down') = Len(down) + 1
        /\ \A k \in DOMAIN down' : \/ k \in DOMAIN down /\ down'[k] = down[k]
                                   \/ k = Len(down) + 1 /\ down'[k] = j
        /\ \A k \in DOMAIN down : k # Len(down) + 1
    BY <1>4 DEF Typed, NetTyped, ServerTyped
  <2> SUFFICES ASSUME NEW s \in Ids
               PROVE  /\ row'[s] = "absent" => Uncalled(s)'
                      /\ StartCall(s) \in jobs' => Called(s)'
                      /\ \A k \in DOMAIN down' : down'[k] = StartCall(s) => Travelling(s, k)'
                      /\ Spawning(s)' => entry'[s] = "absent"
    BY DEF StartsOnce, StartCall
  <2>2. CASE j = StartCall(s)
    <3>1. Called(s) /\ row[s] # "absent" /\ StartCall(s) \notin jobs'
      BY <1>1, <2>2 DEF StartsOnce, Uncalled
    <3> QED
      BY <1>1, <2>1, <3>1 DEF Called, Travelling, Spawning, StartCall
  <2>3. CASE j # StartCall(s)
    <3>1. \A k \in DOMAIN down' : down'[k] = StartCall(s) =>
            k \in DOMAIN down /\ down[k] = StartCall(s)
      BY <2>1, <2>3
    <3> QED
      BY <1>1, <3>1 DEF StartsOnce, Uncalled, Called, Travelling, Spawning, StartCall
  <2> QED
    BY <2>2, <2>3
<1> QED
  BY <1>1, <1>3, <1>4

\* The handler takes the head of the connection: a start is spawned next, and
\* is nowhere else.
LEMMA TakesStarts ==
  ASSUME Typed, StartsOnce, NEW s \in Ids, NEW kind \in {"start", "stop"}, Takes(kind, s),
         UNCHANGED <<row, jobs, entry>>,
         handler'.step = "spawn" => kind = "start" /\ handler'.id = s
  PROVE  StartsOnce'
<1>1. /\ down # <<>> /\ down' = Tail(down) /\ down[1] = [kind |-> kind, id |-> s]
      /\ handler = Idle /\ 1 \in DOMAIN down
      /\ \A k \in DOMAIN down' : k + 1 \in DOMAIN down /\ down'[k] = down[k + 1]
                                 /\ k + 1 # 1 /\ k \in Nat
  BY DEF Takes, Typed, NetTyped
<1>2. \A r \in Ids : ~Spawning(r)
  BY <1>1 DEF Spawning, Idle
<1> SUFFICES ASSUME NEW r \in Ids
             PROVE  /\ row'[r] = "absent" => Uncalled(r)'
                    /\ StartCall(r) \in jobs' => Called(r)'
                    /\ \A k \in DOMAIN down' : down'[k] = StartCall(r) => Travelling(r, k)'
                    /\ Spawning(r)' => entry'[r] = "absent"
  BY DEF StartsOnce, StartCall
<1>3. CASE Spawning(r)'
  <2>1. r = s /\ down[1] = StartCall(r)
    BY <1>1, <1>3 DEF Spawning, StartCall
  <2>2. Travelling(r, 1) /\ row[r] # "absent" /\ StartCall(r) \notin jobs
    BY <1>1, <2>1 DEF StartsOnce, Uncalled, Called
  <2>3. \A k \in DOMAIN down' : down'[k] # StartCall(r)
    BY <1>1, <2>2 DEF Travelling
  <2> QED
    BY <2>2, <2>3 DEF Travelling, StartCall
<1>4. CASE ~Spawning(r)'
  <2>1. \A k \in DOMAIN down' : down'[k] = StartCall(r) => Travelling(r, k + 1)
    BY <1>1 DEF StartsOnce
  <2>2. \A k \in DOMAIN down' : down'[k] = StartCall(r) => Travelling(r, k)'
    <3> SUFFICES ASSUME NEW k \in DOMAIN down', down'[k] = StartCall(r),
                        NEW l \in DOMAIN down', down'[l] = StartCall(r)
                 PROVE  l = k /\ entry[r] = "absent"
      BY <1>4 DEF Travelling, StartCall
    <3>1. l + 1 = k + 1 /\ entry[r] = "absent"
      BY <1>1, <2>1 DEF Travelling
    <3> QED
      BY <1>1, <3>1
  <2>3. (\A k \in DOMAIN down : down[k] # StartCall(r)) =>
          \A k \in DOMAIN down' : down'[k] # StartCall(r)
    BY <1>1
  <2> QED
    BY <1>4, <2>2, <2>3 DEF StartsOnce, Uncalled, Called, StartCall
<1> QED
  BY <1>3, <1>4

\* A spawn that ends, well or not, was of a session that is nowhere else.
LEMMA SpawnEnds ==
  ASSUME Typed, StartsOnce, NEW s \in Ids, Spawning(s), handler' = Idle,
         UNCHANGED <<row, jobs, down>>, \A r \in Ids : r # s => entry'[r] = entry[r]
  PROVE  StartsOnce'
<1>1. /\ row[s] # "absent" /\ StartCall(s) \notin jobs
      /\ \A k \in DOMAIN down : down[k] # StartCall(s)
  BY DEF StartsOnce, Uncalled, Called, Travelling
<1>2. \A r \in Ids : ~Spawning(r)'
  BY DEF Spawning, Idle
<1> SUFFICES ASSUME NEW r \in Ids
             PROVE  /\ row'[r] = "absent" => Uncalled(r)'
                    /\ StartCall(r) \in jobs' => Called(r)'
                    /\ \A k \in DOMAIN down' : down'[k] = StartCall(r) => Travelling(r, k)'
                    /\ Spawning(r)' => entry'[r] = "absent"
  BY DEF StartsOnce, StartCall
<1>3. CASE r = s
  BY <1>1, <1>2, <1>3 DEF StartCall
<1>4. CASE r # s
  BY <1>2, <1>4 DEF StartsOnce, Uncalled, Called, Travelling, StartCall
<1> QED
  BY <1>3, <1>4

-----------------------------------------------------------------------------
(* The daemon's table, its monitors and its handler *)

\* Between start() and the end of its monitor a session is in one phase: what
\* the handler and the monitor may still do to it follows from its entry.
Phase(s) ==
  /\ monitor[s] = "failing" => entry[s] = "failed"
  /\ monitor[s] \in {"waiting", "serving", "killing"} /\ ~halting[s] => Live(s)
  /\ entry[s] = "absent" => monitor[s] = "none"

HandlerPhase ==
  /\ handler.step = "idle" => handler = Idle
  /\ handler.step = "spawn" => handler.port \in Ports /\ handler.id \in Ids
  /\ handler.step = "kill" =>
       handler.port = 0 /\ handler.id \in Ids /\ Live(handler.id) /\ halting[handler.id]

Phases == HandlerPhase /\ \A s \in Ids : Phase(s)

LEMMA StepStarts ==
  ASSUME Typed, StartsOnce, Phases, [Next]_vars
  PROVE  StartsOnce'
<1>1. CASE UNCHANGED vars
  BY <1>1, NothingStarts DEF vars, server, net, table, RowsStay, Spawning
<1>2. CASE Next
  <2>0. RowsStay
    BY <1>2, RowsDoNotVanish
  <2>1. CASE \/ ReadReport \/ DropReport \/ Replay \/ Abort \/ Connect
           \/ \E s \in Ids : StartingTimeout(s) \/ Exit(s)
    BY <2>0, <2>1, NothingStarts
       DEF ReadReport, DropReport, Replay, Abort, Connect, StartingTimeout, Exit, server, net, table, Spawning
  <2>2. CASE Close \/ \E s \in Ids : Recycle(s)
    <3>1. \A s \in Ids : StartCall(s) \in jobs' => StartCall(s) \in jobs
      BY <2>2 DEF Close, Recycle, StartCall
    <3> QED
      BY <2>0, <2>2, <3>1, NothingStarts DEF Close, Recycle, net, table, Spawning
  <2>3. CASE Cut
    BY <2>0, <2>3, NothingStarts DEF Cut, Disconnected, table, Spawning
  <2>4. CASE Crash
    BY <2>0, <2>4, NothingStarts DEF Crash, Disconnected, Spawning, Idle, Nothing
  <2>5. ASSUME NEW s \in Ids, Open(s)
        PROVE  StartsOnce'
    BY <2>5, OpenStarts
  <2>6. ASSUME NEW j \in jobs, Dispatch(j)
        PROVE  StartsOnce'
    BY <2>6, DispatchStarts
  <2>7. ASSUME NEW s \in Ids, Start(s)
        PROVE  StartsOnce'
    BY <2>7, TakesStarts DEF Start, server
  <2>8. ASSUME NEW s \in Ids, Stop(s) \/ StopNothing(s)
        PROVE  StartsOnce'
    <3>1. handler'.step # "spawn" /\ Takes("stop", s) /\ UNCHANGED <<row, jobs, entry>>
      BY <2>8 DEF Stop, StopNothing, server, table, Takes, Idle
    <3> QED
      BY <3>1, TakesStarts
  <2>9. ASSUME NEW s \in Ids, Spawned(s) \/ NotSpawned(s)
        PROVE  StartsOnce'
    <3>1. /\ Spawning(s) /\ handler' = Idle /\ UNCHANGED <<row, jobs, down>>
          /\ \A r \in Ids : r # s => entry'[r] = entry[r]
      BY <2>9 DEF Spawned, NotSpawned, Spawning, server, net, Typed, DaemonTyped
    <3> QED
      BY <3>1, SpawnEnds
  <2>10. ASSUME NEW s \in Ids, Stopped(s) \/ Monitors(s)
         PROVE  StartsOnce'
    <3>1. \A r \in Ids : entry[r] = "absent" => entry'[r] = "absent"
      <4>1. CASE Stopped(s)
        <5>1. entry[s] # "absent"
          BY <4>1 DEF Stopped, Phases, HandlerPhase, Live, Active
        <5> QED
          BY <4>1, <5>1 DEF Stopped, Typed, DaemonTyped
      <4>2. CASE Reached(s) \/ Fails(s)
        <5>1. entry[s] # "absent"
          BY <4>2 DEF Reached, Fails, Phases, Phase
        <5> QED
          BY <4>2, <5>1 DEF Reached, Fails, Typed, DaemonTyped
      <4>3. CASE Leaves(s) \/ Unreached(s) \/ FailReported(s)
        BY <4>3 DEF Leaves, Unreached, FailReported
      <4> QED
        BY <2>10, <4>1, <4>2, <4>3 DEF Monitors
    <3>2. /\ jobs' = jobs /\ down' = down /\ (handler' = handler \/ handler' = Idle)
      BY <2>10 DEF Stopped, Monitors, Leaves, Reached, Unreached, Fails, FailReported,
         server, net
    <3> QED
      BY <2>0, <3>1, <3>2, NothingStarts DEF Spawning, Idle
  <2> QED
    BY <1>2, <2>1, <2>2, <2>3, <2>4, <2>5, <2>6, <2>7, <2>8, <2>9, <2>10 DEF Next, Handles
<1> QED
  BY <1>1, <1>2

LEMMA HandlesPhases ==
  ASSUME Typed, StartsOnce, Phases, NEW s \in Ids, Handles(s)
  PROVE  Phases'
<1>1. CASE Start(s)
  <2>1. UNCHANGED <<entry, halting, monitor>> /\ handler'.step = "spawn"
        /\ handler'.port \in Ports /\ handler'.id = s
    BY <1>1 DEF Start
  <2> QED
    BY <2>1 DEF Phases, Phase, HandlerPhase, Live
<1>2. CASE Spawned(s)
  <2>1. handler' = Idle /\ HandlerPhase'
    BY <1>2 DEF Spawned, HandlerPhase, Idle
  <2>2. Phase(s)'
    BY <1>2 DEF Spawned, Phase, Live, Active, Typed, DaemonTyped
  <2>3. \A r \in Ids : r # s => Phase(r)'
    BY <1>2 DEF Spawned, Phases, Phase, Live, Typed, DaemonTyped
  <2> QED
    BY <2>1, <2>2, <2>3 DEF Phases
<1>3. CASE NotSpawned(s)
  <2>1. handler' = Idle /\ HandlerPhase'
    BY <1>3 DEF NotSpawned, HandlerPhase, Idle
  <2>2. entry[s] = "absent" /\ monitor[s] = "none"
    BY <1>3 DEF NotSpawned, StartsOnce, Spawning, Phases, Phase, Live, Active
  <2>3. Phase(s)'
    BY <1>3, <2>2 DEF NotSpawned, Phase, Live, Active, Typed, DaemonTyped
  <2>4. \A r \in Ids : r # s => Phase(r)'
    BY <1>3 DEF NotSpawned, Phases, Phase, Live, Typed, DaemonTyped
  <2> QED
    BY <2>1, <2>3, <2>4 DEF Phases
<1>4. CASE StopNothing(s)
  BY <1>4 DEF StopNothing, table, Phases, Phase, HandlerPhase, Live
<1>5. CASE Stop(s)
  <2>1. HandlerPhase'
    BY <1>5 DEF Stop, HandlerPhase, Live, Typed, DaemonTyped
  <2>2. \A r \in Ids : Phase(r)'
    BY <1>5 DEF Stop, Phases, Phase, Live, Typed, DaemonTyped
  <2> QED
    BY <2>1, <2>2 DEF Phases
<1>6. CASE Stopped(s)
  <2>1. handler' = Idle /\ HandlerPhase'
    BY <1>6 DEF Stopped, HandlerPhase, Idle
  <2>2. Live(s) /\ halting[s] /\ monitor[s] # "failing"
    BY <1>6 DEF Stopped, Phases, HandlerPhase, Phase, Live, Active
  <2>3. Phase(s)'
    BY <1>6, <2>2 DEF Stopped, Phase, Live, Active, Typed, DaemonTyped
  <2>4. \A r \in Ids : r # s => Phase(r)'
    BY <1>6 DEF Stopped, Phases, Phase, Live, Typed, DaemonTyped
  <2> QED
    BY <2>1, <2>3, <2>4 DEF Phases
<1> QED
  BY <1>1, <1>2, <1>3, <1>4, <1>5, <1>6 DEF Handles

LEMMA MonitorsPhases ==
  ASSUME Typed, Phases, NEW s \in Ids, Monitors(s) \/ Exit(s)
  PROVE  Phases'
<1>1. handler' = handler /\ halting' = halting
  BY DEF Monitors, Leaves, Reached, Unreached, Fails, FailReported, Exit, table
<1>2. Live(handler.id)' \/ handler.step # "kill"
  <2>1. CASE Reached(s) \/ Fails(s)
    <3>1. handler.step = "kill" => handler.id # s
      BY <2>1 DEF Reached, Fails, Phases, HandlerPhase
    <3> QED
      BY <2>1, <3>1 DEF Reached, Fails, Phases, HandlerPhase, Live, Typed, DaemonTyped
  <2>2. CASE Leaves(s) \/ Unreached(s) \/ FailReported(s) \/ Exit(s)
    BY <2>2 DEF Leaves, Unreached, FailReported, Exit, table, Phases, HandlerPhase, Live
  <2> QED
    BY <2>1, <2>2 DEF Monitors
<1>3. HandlerPhase'
  BY <1>1, <1>2 DEF Phases, HandlerPhase, Live
<1>4. \A r \in Ids : Phase(r)'
  <2>1. CASE Leaves(s)
    BY <2>1 DEF Leaves, Monitor, Phases, Phase, Live, Active, Typed, DaemonTyped
  <2>2. CASE Reached(s)
    BY <2>2 DEF Reached, Monitor, Phases, Phase, Live, Active, Typed, DaemonTyped
  <2>3. CASE Unreached(s)
    BY <2>3 DEF Unreached, Monitor, Phases, Phase, Live, Active, Typed, DaemonTyped
  <2>4. CASE Fails(s)
    BY <2>4 DEF Fails, Monitor, Phases, Phase, Live, Active, Typed, DaemonTyped
  <2>5. CASE FailReported(s)
    BY <2>5 DEF FailReported, Monitor, Phases, Phase, Live, Active, Typed, DaemonTyped
  <2>6. CASE Exit(s)
    BY <2>6 DEF Exit, table, Phases, Phase, Live, Typed, DaemonTyped
  <2> QED
    BY <2>1, <2>2, <2>3, <2>4, <2>5, <2>6 DEF Monitors
<1> QED
  BY <1>3, <1>4 DEF Phases

-----------------------------------------------------------------------------
(* The port registry *)

Holder(s) == Live(s) \/ monitor[s] = "failing"

\* Every holder has a port of its own, none has the one that a spawn is about
\* to use, and nothing else is registered.
Registry ==
  /\ \A s \in Ids : Holder(s) => port[s] \in Ports /\ port[s] # handler.port
  /\ \A s, r \in Ids : Holder(s) /\ Holder(r) /\ s # r => port[s] # port[r]
  /\ \A p \in Ports : p \in assigned <=>
        p = handler.port \/ \E s \in Ids : Holder(s) /\ port[s] = p

PortsInv == Typed /\ StartsOnce /\ Phases /\ Registry

LEMMA SameHolders ==
  ASSUME Registry, UNCHANGED <<port, assigned>>, handler'.port = handler.port,
         \A s \in Ids : Holder(s)' <=> Holder(s)
  PROVE  Registry'
BY DEF Registry

\* Who lets a port go was its only holder.
LEMMA HolderReleases ==
  ASSUME Registry, NEW s \in Ids, Holder(s), assigned' = assigned \ {port[s]},
         port' = port, handler'.port = handler.port,
         \A r \in Ids : Holder(r)' <=> Holder(r) /\ r # s
  PROVE  Registry'
BY DEF Registry

LEMMA HandlesRegistry ==
  ASSUME PreviewAssumption, PortsInv, NEW s \in Ids, Handles(s)
  PROVE  Registry'
<1>1. CASE Start(s)
  <2>1. PICK p \in Ports \ assigned : assigned' = assigned \union {p} /\ handler'.port = p
    BY <1>1 DEF Start
  <2>2. handler.port = 0 /\ UNCHANGED <<entry, port, monitor>>
    BY <1>1 DEF Start, Takes, Idle
  <2>3. \A r \in Ids : Holder(r)' <=> Holder(r)
    BY <2>2 DEF Holder, Live
  <2> QED
    BY <2>1, <2>2, <2>3 DEF PortsInv, Registry, PreviewAssumption
<1>2. CASE Spawned(s)
  <2>1. /\ handler.port \in Ports /\ handler'.port = 0 /\ assigned' = assigned
        /\ port' = [port EXCEPT ![s] = handler.port] /\ port \in [Ids -> Ports \union {0}]
    BY <1>2 DEF Spawned, Idle, PortsInv, Phases, HandlerPhase, Typed, DaemonTyped
  <2>2. ~Holder(s)
    BY <1>2 DEF Spawned, PortsInv, StartsOnce, Spawning, Phases, Phase, Holder, Live, Active
  <2>3. \A r \in Ids : Holder(r)' <=> Holder(r) \/ r = s
    BY <1>2 DEF Spawned, Holder, Live, Active, PortsInv, Typed, DaemonTyped
  <2> QED
    BY <2>1, <2>2, <2>3 DEF PortsInv, Registry, PreviewAssumption
<1>3. CASE NotSpawned(s)
  <2>1. /\ handler.port \in Ports /\ handler'.port = 0
        /\ assigned' = assigned \ {handler.port} /\ port' = port
    BY <1>3 DEF NotSpawned, Idle, PortsInv, Phases, HandlerPhase
  <2>2. ~Holder(s) /\ monitor[s] # "failing"
    BY <1>3 DEF NotSpawned, PortsInv, StartsOnce, Spawning, Phases, Phase, Holder, Live, Active
  <2>3. \A r \in Ids : Holder(r)' <=> Holder(r)
    BY <1>3, <2>2 DEF NotSpawned, Holder, Live, Active, PortsInv, Typed, DaemonTyped
  <2> QED
    BY <2>1, <2>3 DEF PortsInv, Registry, PreviewAssumption
<1>4. CASE StopNothing(s) \/ Stop(s)
  <2>1. UNCHANGED <<entry, port, monitor, assigned>> /\ handler'.port = handler.port
    BY <1>4 DEF StopNothing, Stop, table, Takes, Idle
  <2> QED
    BY <2>1, SameHolders DEF PortsInv, Holder, Live
<1>5. CASE Stopped(s)
  <2>1. /\ assigned' = assigned \ {port[s]} /\ port' = port
        /\ handler'.port = 0 /\ handler.port = 0
    BY <1>5 DEF Stopped, Idle, PortsInv, Phases, HandlerPhase
  <2>2. Live(s) /\ monitor[s] # "failing"
    BY <1>5 DEF Stopped, PortsInv, Phases, HandlerPhase, Phase, Live, Active
  <2>3. \A r \in Ids : Holder(r)' <=> Holder(r) /\ r # s
    BY <1>5, <2>2 DEF Stopped, Holder, Live, Active, PortsInv, Typed, DaemonTyped
  <2> QED
    BY <2>1, <2>2, <2>3, HolderReleases DEF PortsInv, Holder
<1> QED
  BY <1>1, <1>2, <1>3, <1>4, <1>5 DEF Handles

LEMMA MonitorsRegistry ==
  ASSUME PortsInv, NEW s \in Ids, Monitors(s) \/ Exit(s)
  PROVE  Registry'
<1>1. port' = port /\ handler' = handler
  BY DEF Monitors, Leaves, Reached, Unreached, Fails, FailReported, Exit, table
<1>2. CASE FailReported(s)
  <2>1. Holder(s) /\ ~Live(s) /\ assigned' = assigned \ {port[s]}
    BY <1>2 DEF FailReported, Holder, Live, Active, PortsInv, Phases, Phase
  <2>2. \A r \in Ids : Holder(r)' <=> Holder(r) /\ r # s
    BY <1>2, <2>1 DEF FailReported, Monitor, Holder, Live, PortsInv, Typed, DaemonTyped
  <2> QED
    BY <1>1, <2>1, <2>2, HolderReleases DEF PortsInv
<1>3. CASE ~FailReported(s)
  <2>1. assigned' = assigned
    BY <1>3 DEF Monitors, Leaves, Reached, Unreached, Fails, Exit, table
  <2>2. \A r \in Ids : Holder(r)' <=> Holder(r)
    <3>1. CASE Leaves(s) \/ Unreached(s)
      BY <3>1 DEF Leaves, Unreached, Monitor, Holder, Live, PortsInv, Typed, DaemonTyped
    <3>2. CASE Reached(s) \/ Fails(s)
      <4>1. Live(s)
        BY <3>2 DEF Reached, Fails, PortsInv, Phases, Phase
      <4> QED
        BY <3>2, <4>1 DEF Reached, Fails, Monitor, Holder, Live, Active, PortsInv, Typed,
           DaemonTyped
    <3>3. CASE Exit(s)
      BY <3>3 DEF Exit, table, Holder, Live
    <3> QED
      BY <1>3, <3>1, <3>2, <3>3 DEF Monitors
  <2> QED
    BY <1>1, <2>1, <2>2, SameHolders DEF PortsInv
<1> QED
  BY <1>2, <1>3

LEMMA StepPorts ==
  ASSUME PreviewAssumption, PortsInv, [Next]_vars
  PROVE  PortsInv'
<1>1. Typed' /\ StartsOnce'
  BY StepTyped, StepStarts DEF PortsInv
<1>2. CASE TableStays
  <2>1. Phases'
    BY <1>2 DEF TableStays, table, PortsInv, Phases, Phase, HandlerPhase, Live
  <2>2. Registry'
    BY <1>2, SameHolders DEF TableStays, table, PortsInv, Holder, Live
  <2> QED
    BY <1>1, <2>1, <2>2 DEF PortsInv
<1>3. CASE Crash
  <2>1. /\ handler' = Idle /\ assigned' = {}
        /\ \A s \in Ids : entry'[s] = "absent" /\ monitor'[s] = "none"
    BY <1>3 DEF Crash, Nothing
  <2>2. Phases'
    BY <2>1 DEF Phases, Phase, HandlerPhase, Idle
  <2>3. Registry'
    BY <2>1 DEF Registry, Holder, Live, Active, Idle, PreviewAssumption
  <2> QED
    BY <1>1, <2>2, <2>3 DEF PortsInv
<1>4. ASSUME NEW s \in Ids, Handles(s)
      PROVE  PortsInv'
  BY <1>1, <1>4, HandlesPhases, HandlesRegistry DEF PortsInv
<1>5. ASSUME NEW s \in Ids, Monitors(s) \/ Exit(s)
      PROVE  PortsInv'
  BY <1>1, <1>5, MonitorsPhases, MonitorsRegistry DEF PortsInv
<1>6. CASE \/ UNCHANGED vars \/ ReadReport \/ DropReport \/ Replay \/ Abort
           \/ Close \/ Connect \/ Cut
           \/ (\E j \in jobs : Dispatch(j))
           \/ (\E s \in Ids : Open(s) \/ Recycle(s) \/ StartingTimeout(s))
  <2>1. TableStays
    BY <1>6 DEF vars, ReadReport, DropReport, Replay, Abort, Close, Connect, Cut, Dispatch, Open, Recycle,
       StartingTimeout, TableStays
  <2> QED
    BY <1>2, <2>1
<1> QED
  BY <1>3, <1>4, <1>5, <1>6 DEF Next

\* No two sessions of the daemon's table that serve, or that a monitor still
\* has to release, name the same port, and a port is registered exactly as long
\* as one of them or a start under way is still to release it: however a stop,
\* a failure and a monitor that outlives its stop cross, none releases a port
\* twice or never.  No kill is assumed to work; of the processes that outlive
\* their session or their daemon the theorem says nothing.
THEOREM PortsAreExact ==
  ASSUME PreviewAssumption
  PROVE  Spec => []PortsHeld
<1>1. Init => PortsInv
  <2> SUFFICES ASSUME Init
               PROVE  PortsInv
    OBVIOUS
  <2>1. /\ handler = Idle /\ assigned = {} /\ jobs = {} /\ down = <<>>
        /\ \A s \in Ids : entry[s] = "absent" /\ monitor[s] = "none"
    BY DEF Init, Nothing
  <2>2. StartsOnce
    BY <2>1 DEF StartsOnce, Uncalled, Called, Travelling, Spawning, Idle
  <2>3. Phases
    BY <2>1 DEF Phases, Phase, HandlerPhase, Idle
  <2>4. Registry
    BY <2>1 DEF Registry, Holder, Live, Active, Idle, PreviewAssumption
  <2> QED
    BY <2>2, <2>3, <2>4, InitTyped DEF PortsInv
<1>2. PortsInv /\ [Next]_vars => PortsInv'
  BY StepPorts
<1>3. PortsInv => PortsHeld
  <2> SUFFICES ASSUME PortsInv
               PROVE  PortsHeld
    OBVIOUS
  <2> DEFINE holders == {s \in Ids : Live(s) \/ monitor[s] = "failing"}
  <2>1. \A s \in Ids : s \in holders <=> Holder(s)
    BY DEF Holder
  <2>2. \A s \in holders : /\ port[s] \in Ports /\ port[s] \in assigned
                           /\ port[s] # handler.port
    BY <2>1 DEF PortsInv, Registry
  <2>3. \A s, r \in holders : s # r => port[s] # port[r]
    BY <2>1 DEF PortsInv, Registry
  <2>4. handler.port \in Ports \union {0} /\ assigned \subseteq Ports
    BY DEF PortsInv, Typed, DaemonTyped, HandlerType
  <2>5. assigned = {port[s] : s \in holders} \union ({handler.port} \ {0})
    <3>1. \A p : p \in assigned =>
            \/ p = handler.port /\ p # 0
            \/ \E s \in holders : p = port[s]
      BY <2>1, <2>4 DEF PortsInv, Registry, PreviewAssumption
    <3>2. \A p : p = handler.port /\ p # 0 => p \in assigned
      BY <2>4 DEF PortsInv, Registry
    <3> QED
      BY <2>2, <3>1, <3>2
  <2> QED
    BY <2>2, <2>3, <2>5 DEF PortsHeld
<1> QED
  BY <1>1, <1>2, <1>3, PTL DEF Spec

=============================================================================
