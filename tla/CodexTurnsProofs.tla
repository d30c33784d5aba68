-------------------------- MODULE CodexTurnsProofs --------------------------
(***************************************************************************)
(* Theorems about CodexTurns for any number of turns, processes and        *)
(* channels.                                                               *)
(***************************************************************************)
EXTENDS CodexTurns, FiniteSetTheorems, SequenceTheorems, TLAPS

-----------------------------------------------------------------------------
(* Types *)

ReaderSteps    == {"none", "reading", "releasing", "gone"}
HandshakeSteps == {"none", "asked", "answered", "rejected", "done"}

ObjectTyped ==
  /\ proc \in {0} \union Pids /\ thread \in {0} \union Pids
  /\ queue \in Seq(Queued) /\ inFlight \in BOOLEAN
  /\ channel \in Channels /\ usage \in {0} \union TurnIds
  /\ pending \in SUBSET Pids
TasksTyped ==
  /\ feeding \in {0} \union TurnIds /\ phase \in {"serving", "stopping", "stopped"}
  /\ reader \in [Pids -> ReaderSteps] /\ handshake \in [Pids -> HandshakeSteps]
  /\ proc = 0 => /\ phase = "stopped" /\ feeding = 0
                 /\ \A p \in Pids : reader[p] = "none" /\ handshake[p] = "none"
ServerTyped ==
  /\ life \in [Pids -> {"unborn", "running", "exited"}]
  /\ running \in [Pids -> SUBSET TurnIds] /\ out \in [Pids -> Seq(Frames)]
HistoryTyped ==
  /\ fed \in [TurnIds -> {0} \union Pids] /\ started \in Seq(TurnIds)
  /\ sent \in SUBSET TurnIds /\ measured \in SUBSET TurnIds
  /\ completed \in SUBSET TurnIds
  /\ billed \in Seq(Queued) /\ early \in BOOLEAN

\* A usage frame names its turn, as does the end of a turn.
FramesTyped ==
  \A p \in Pids : \A i \in DOMAIN out[p] : out[p][i].kind # "ready" => out[p][i].turn \in TurnIds

Typed == ObjectTyped /\ TasksTyped /\ ServerTyped /\ HistoryTyped /\ FramesTyped

LEMMA TypedIsTypeInv == Typed => TypeInv
BY DEF Typed, TypeInv, ObjectTyped, TasksTyped, ServerTyped, HistoryTyped, ReaderSteps,
       HandshakeSteps

LEMMA Numbers ==
  ASSUME CodexAssumption
  PROVE  /\ 0 \notin Pids /\ 0 \notin TurnIds /\ Pids \subseteq Nat /\ TurnIds \subseteq Nat
BY DEF CodexAssumption, Pids, TurnIds

\* What the next turn is submitted from, and what it leaves.
LEMMA SubmitTypes ==
  ASSUME Typed, proc \in Pids, NEW q \in Seq(Queued), NEW th, NEW busy \in BOOLEAN,
         SubmitNext(q, th, busy)
  PROVE  /\ queue' \in Seq(Queued) /\ inFlight' \in BOOLEAN /\ channel' \in Channels
         /\ running' \in [Pids -> SUBSET TurnIds] /\ started' \in Seq(TurnIds)
         /\ sent' \in SUBSET TurnIds
<1>1. CASE th = 0 \/ busy \/ q = <<>>
  BY <1>1 DEF SubmitNext, Typed, ObjectTyped, ServerTyped, HistoryTyped
<1>2. CASE ~(th = 0 \/ busy \/ q = <<>>)
  <2>1. /\ queue' = Tail(q) /\ inFlight' = TRUE /\ channel' = Head(q).channel
        /\ running' = IF life[proc] = "running"
                      THEN [running EXCEPT ![proc] = @ \union {Head(q).turn}]
                      ELSE running
        /\ started' = Append(started, Head(q).turn)
        /\ sent' = sent \union {Head(q).turn}
    BY <1>2 DEF SubmitNext
  <2>2. Head(q) \in Queued /\ Tail(q) \in Seq(Queued)
    BY <1>2
  <2>3. Head(q).turn \in TurnIds /\ Head(q).channel \in Channels
    BY <2>2 DEF Queued
  <2>4. running' \in [Pids -> SUBSET TurnIds]
    BY <2>1, <2>3 DEF Typed, ServerTyped
  <2>5. started' \in Seq(TurnIds)
    BY <2>1, <2>3 DEF Typed, HistoryTyped
  <2> QED
    BY <2>1, <2>2, <2>3, <2>4, <2>5 DEF Typed, HistoryTyped
<1> QED
  BY <1>1, <1>2

LEMMA SpawnTyped ==
  ASSUME CodexAssumption, Typed, Spawn
  PROVE  Typed'
<1>1. proc + 1 \in Pids /\ proc' = proc + 1 /\ proc' # 0
  BY DEF Spawn, Typed, ObjectTyped, CodexAssumption, Pids
<1>2. ObjectTyped'
  <2>1. <<>> \in Seq(Queued) /\ {proc + 1} \in SUBSET Pids
    BY <1>1
  <2> QED
    BY <1>1, <2>1 DEF Spawn, Typed, ObjectTyped
<1>3. TasksTyped'
  BY <1>1 DEF Spawn, Typed, TasksTyped, ReaderSteps, HandshakeSteps
<1>4. ServerTyped' /\ FramesTyped'
  BY <1>1 DEF Spawn, Typed, ServerTyped, FramesTyped
<1>5. HistoryTyped'
  <2>1. early' \in BOOLEAN
    BY DEF Spawn, Typed, HistoryTyped
  <2> QED
    BY <2>1 DEF Spawn, Typed, HistoryTyped
<1> QED
  BY <1>2, <1>3, <1>4, <1>5 DEF Typed

LEMMA FeedTyped ==
  ASSUME CodexAssumption, Typed, Deliver \/ Feed
  PROVE  Typed'
<1>1. proc \in Pids
  BY Numbers DEF Deliver, Feed, Typed, ObjectTyped, TasksTyped
<1>2. CASE Deliver
  <2>1. PICK t \in TurnIds : feeding' = t /\ channel' = ChannelOf[t]
    BY <1>2 DEF Deliver
  <2>2. channel' \in Channels
    BY <2>1 DEF CodexAssumption, TurnIds
  <2> QED
    BY <1>1, <1>2, <2>1, <2>2, Numbers
       DEF Deliver, server, history, Typed, ObjectTyped, TasksTyped, ServerTyped,
           HistoryTyped, FramesTyped
<1>3. CASE Feed
  <2>1. [turn |-> feeding, channel |-> channel] \in Queued
    BY <1>3 DEF Feed, Typed, ObjectTyped, TasksTyped, Queued
  <2>2. Append(queue, [turn |-> feeding, channel |-> channel]) \in Seq(Queued)
    BY <2>1 DEF Typed, ObjectTyped
  <2>3. /\ queue' \in Seq(Queued) /\ inFlight' \in BOOLEAN /\ channel' \in Channels
        /\ running' \in [Pids -> SUBSET TurnIds] /\ started' \in Seq(TurnIds)
        /\ sent' \in SUBSET TurnIds
    <3>1. inFlight \in BOOLEAN
      BY DEF Typed, ObjectTyped
    <3> QED
      BY <1>1, <1>3, <2>2, <3>1, SubmitTypes DEF Feed
  <2>4. usage' \in {0} \union TurnIds
    BY <1>3 DEF Feed, UsageAfter, Typed, ObjectTyped
  <2>5. fed' \in [TurnIds -> {0} \union Pids]
    BY <1>1, <1>3 DEF Feed, Typed, HistoryTyped, TasksTyped
  <2>6. ObjectTyped' /\ TasksTyped'
    BY <1>3, <2>3, <2>4 DEF Feed, Typed, ObjectTyped, TasksTyped
  <2>7. ServerTyped' /\ HistoryTyped' /\ FramesTyped'
    BY <1>3, <2>3, <2>5 DEF Feed, Typed, ServerTyped, HistoryTyped, FramesTyped
  <2> QED
    BY <2>6, <2>7 DEF Typed
<1> QED
  BY <1>2, <1>3

LEMMA StopTyped ==
  ASSUME CodexAssumption, Typed, Stop \/ ReaderStops \/ Stopped
  PROVE  Typed'
<1>1. UNCHANGED history /\ UNCHANGED <<running, out>> /\ feeding' = feeding
      /\ life' \in [Pids -> {"unborn", "running", "exited"}]
  BY DEF Stop, ReaderStops, Stopped, server, Typed, ServerTyped
<1>2. ObjectTyped'
  BY DEF Stop, ReaderStops, Stopped, object, Typed, ObjectTyped
<1>3. TasksTyped'
  <2>1. CASE Stop
    <3>1. handshake' \in [Pids -> HandshakeSteps]
      BY <2>1 DEF Stop, Typed, TasksTyped, HandshakeSteps
    <3> QED
      BY <2>1, <3>1 DEF Stop, object, Typed, TasksTyped
  <2>2. CASE ReaderStops
    BY <2>2 DEF ReaderStops, object, Typed, TasksTyped, ReaderSteps
  <2>3. CASE Stopped
    BY <2>3 DEF Stopped, Typed, TasksTyped
  <2> QED
    BY <2>1, <2>2, <2>3
<1> QED
  BY <1>1, <1>2, <1>3 DEF history, Typed, ServerTyped, HistoryTyped, FramesTyped

\* What the app-server appends to its output.
LEMMA EmitTypes ==
  ASSUME Typed, NEW p \in Pids, NEW kind \in {"ready", "usage", "completed", "error"},
         NEW t \in {0} \union TurnIds, kind # "ready" => t \in TurnIds, Emit(p, kind, t)
  PROVE  out' \in [Pids -> Seq(Frames)] /\ FramesTyped'
<1> DEFINE f == [kind |-> kind, turn |-> t]
<1>1. f \in Frames /\ f.kind = kind /\ f.turn = t
  BY DEF Frames
<1>2. out' = [out EXCEPT ![p] = Append(@, f)]
  BY DEF Emit
<1> HIDE DEF f
<1>3. out' \in [Pids -> Seq(Frames)]
  BY <1>1, <1>2 DEF Typed, ServerTyped
<1>4. FramesTyped'
  <2> SUFFICES ASSUME NEW q \in Pids, NEW i \in DOMAIN out'[q], out'[q][i].kind # "ready"
               PROVE  out'[q][i].turn \in TurnIds
    BY DEF FramesTyped
  <2>1. CASE q = p
    <3>1. out[p] \in Seq(Frames) /\ out'[p] = Append(out[p], f)
      BY <1>2 DEF Typed, ServerTyped
    <3>2. \/ i \in DOMAIN out[p] /\ out'[p][i] = out[p][i]
          \/ out'[p][i] = f
      BY <2>1, <3>1, <1>1
    <3> QED
      BY <1>1, <2>1, <3>2 DEF Typed, FramesTyped
  <2>2. CASE q # p
    BY <1>2, <2>2 DEF Typed, ServerTyped, FramesTyped
  <2> QED
    BY <2>1, <2>2
<1> QED
  BY <1>3, <1>4

LEMMA AppServerTyped ==
  ASSUME CodexAssumption, Typed, NEW p \in Pids,
         Ready(p) \/ Crash(p) \/ Works(p) \/ \E t \in TurnIds : Measure(p, t)
  PROVE  Typed'
<1>1. UNCHANGED object /\ UNCHANGED tasks
  BY DEF Ready, Crash, Works, End, Measure
<1>2. ObjectTyped' /\ TasksTyped'
  BY <1>1 DEF object, tasks, Typed, ObjectTyped, TasksTyped
<1>3. CASE Ready(p)
  <2>1. out' \in [Pids -> Seq(Frames)] /\ FramesTyped'
    BY <1>3, EmitTypes DEF Ready
  <2> QED
    BY <1>2, <1>3, <2>1 DEF Ready, history, Typed, ServerTyped, HistoryTyped
<1>4. CASE Crash(p)
  BY <1>2, <1>4 DEF Crash, history, Typed, ServerTyped, HistoryTyped, FramesTyped
<1>5. CASE Works(p)
  <2>1. PICK t \in TurnIds, kind \in {"completed", "error"} : End(p, t, kind)
    BY <1>5 DEF Works
  <2>2. out' \in [Pids -> Seq(Frames)] /\ FramesTyped'
    BY <2>1, EmitTypes DEF End
  <2> QED
    BY <1>2, <2>1, <2>2 DEF End, history, Typed, ServerTyped, HistoryTyped
<1>6. ASSUME NEW t \in TurnIds, Measure(p, t)
      PROVE  Typed'
  <2>1. out' \in [Pids -> Seq(Frames)] /\ FramesTyped'
    BY <1>6, EmitTypes DEF Measure
  <2> QED
    BY <1>2, <1>6, <2>1 DEF Measure, Typed, ServerTyped, HistoryTyped
<1> QED
  BY <1>3, <1>4, <1>5, <1>6

LEMMA TailElements ==
  ASSUME NEW S, NEW s \in Seq(S), s # <<>>
  PROVE  /\ Head(s) = s[1] /\ 1 \in DOMAIN s /\ Tail(s) \in Seq(S)
         /\ \A i \in DOMAIN Tail(s) : i \in Nat /\ i + 1 # 1 /\ i + 1 \in DOMAIN s
                                     /\ Tail(s)[i] = s[i + 1]
OBVIOUS

LEMMA ReadTypes ==
  ASSUME Typed, NEW p \in Pids, NEW kind, Read(p, kind)
  PROVE  /\ out' \in [Pids -> Seq(Frames)] /\ FramesTyped'
         /\ kind # "ready" => Head(out[p]).turn \in TurnIds
<1>1. /\ out[p] \in Seq(Frames) /\ out[p] # <<>> /\ Head(out[p]).kind = kind
      /\ out' = [out EXCEPT ![p] = Tail(@)] /\ out'[p] = Tail(out[p])
  BY DEF Read, Typed, ServerTyped
<1>2. out' \in [Pids -> Seq(Frames)]
  BY <1>1 DEF Typed, ServerTyped
<1>3. \A i \in DOMAIN out'[p] : i + 1 \in DOMAIN out[p] /\ out'[p][i] = out[p][i + 1]
  <2>1. \A i \in DOMAIN Tail(out[p]) :
          i + 1 \in DOMAIN out[p] /\ Tail(out[p])[i] = out[p][i + 1]
    BY <1>1, TailElements
  <2> QED
    BY <1>1, <2>1
<1>4. FramesTyped'
  <2> SUFFICES ASSUME NEW q \in Pids, NEW i \in DOMAIN out'[q], out'[q][i].kind # "ready"
               PROVE  out'[q][i].turn \in TurnIds
    BY DEF FramesTyped
  <2>1. CASE q = p
    BY <1>3, <2>1 DEF Typed, FramesTyped
  <2>2. CASE q # p
    BY <1>1, <2>2 DEF Typed, ServerTyped, FramesTyped
  <2> QED
    BY <2>1, <2>2
<1>5. Head(out[p]) = out[p][1] /\ 1 \in DOMAIN out[p]
  BY <1>1
<1> QED
  BY <1>1, <1>2, <1>4, <1>5 DEF Typed, FramesTyped

LEMMA ReadLoopTyped ==
  ASSUME CodexAssumption, Typed, NEW p \in Pids, ReadLoop(p), proc \in Pids
  PROVE  Typed'
<1>0. proc # 0 /\ UNCHANGED <<life, fed, measured, early, feeding, phase, thread, proc>>
  BY Numbers DEF ReadLoop, ReadReady, ReadUsage, ReadCompleted, ReadError, ReadEnd, Release, object,
     tasks, server, history
<1>1. CASE ReadReady(p) \/ ReadEnd(p)
  <2>1. handshake' \in [Pids -> HandshakeSteps] /\ reader' \in [Pids -> ReaderSteps]
    BY <1>1 DEF ReadReady, ReadEnd, Typed, TasksTyped, HandshakeSteps, ReaderSteps
  <2>2. out' \in [Pids -> Seq(Frames)] /\ FramesTyped'
    <3>1. CASE ReadReady(p)
      BY <3>1, ReadTypes DEF ReadReady
    <3>2. CASE ReadEnd(p)
      BY <3>2 DEF ReadEnd, server, Typed, ServerTyped, FramesTyped
    <3> QED
      BY <1>1, <3>1, <3>2
  <2>3. UNCHANGED <<queue, inFlight, channel, usage, running, history>> /\ pending' = {}
    BY <1>1 DEF ReadReady, ReadEnd, server
  <2> QED
    BY <1>0, <2>1, <2>2, <2>3
       DEF history, Typed, ObjectTyped, TasksTyped, ServerTyped, HistoryTyped
<1>2. CASE ReadUsage(p) \/ ReadError(p)
  <2>1. out' \in [Pids -> Seq(Frames)] /\ FramesTyped' /\ usage' \in {0} \union TurnIds
    BY <1>2, ReadTypes DEF ReadUsage, ReadError, object, Typed, ObjectTyped
  <2>2. UNCHANGED <<queue, inFlight, channel, pending, running, handshake, history>>
    BY <1>2 DEF ReadUsage, ReadError, object, tasks
  <2>3. reader' \in [Pids -> ReaderSteps]
    BY <1>2 DEF ReadUsage, ReadError, tasks, Typed, TasksTyped, ReaderSteps
  <2> QED
    BY <1>0, <2>1, <2>2, <2>3
       DEF history, Typed, ObjectTyped, TasksTyped, ServerTyped, HistoryTyped
<1>3. CASE ReadCompleted(p)
  <2>1. out' \in [Pids -> Seq(Frames)] /\ FramesTyped' /\ Head(out[p]).turn \in TurnIds
    BY <1>3, ReadTypes DEF ReadCompleted
  <2>2. billed' \in Seq(Queued) /\ usage' = 0
    <3>1. usage # 0 => [turn |-> usage, channel |-> channel] \in Queued
      BY DEF Queued, Typed, ObjectTyped
    <3> QED
      BY <1>3, <3>1 DEF ReadCompleted, EmitUsage, Typed, HistoryTyped
  <2>3. reader' \in [Pids -> ReaderSteps] /\ completed' \in SUBSET TurnIds
    BY <1>3, <2>1 DEF ReadCompleted, Typed, TasksTyped, HistoryTyped, ReaderSteps
  <2>4. UNCHANGED <<queue, inFlight, channel, pending, running, handshake, started, sent>>
    BY <1>3 DEF ReadCompleted
  <2> QED
    BY <1>0, <2>1, <2>2, <2>3, <2>4
       DEF Typed, ObjectTyped, TasksTyped, ServerTyped, HistoryTyped
<1>4. CASE Release(p)
  <2>1. /\ queue' \in Seq(Queued) /\ inFlight' \in BOOLEAN /\ channel' \in Channels
        /\ running' \in [Pids -> SUBSET TurnIds] /\ started' \in Seq(TurnIds)
        /\ sent' \in SUBSET TurnIds
    BY <1>4, SubmitTypes DEF Release, Typed, ObjectTyped
  <2>2. usage' \in {0} \union TurnIds /\ reader' \in [Pids -> ReaderSteps]
    BY <1>4 DEF Release, UsageAfter, Typed, ObjectTyped, TasksTyped, ReaderSteps
  <2>3. UNCHANGED <<pending, out, handshake, completed, billed>>
    BY <1>4 DEF Release
  <2> QED
    BY <1>0, <2>1, <2>2, <2>3
       DEF Typed, ObjectTyped, TasksTyped, ServerTyped, HistoryTyped, FramesTyped
<1> QED
  BY <1>1, <1>2, <1>3, <1>4 DEF ReadLoop

LEMMA HandshakeTyped ==
  ASSUME CodexAssumption, Typed, NEW p \in Pids, Handshake(p), proc \in Pids
  PROVE  Typed'
<1>0. /\ UNCHANGED <<proc, feeding, phase, reader, out, fed, measured, completed, billed, early>>
      /\ handshake' \in [Pids -> HandshakeSteps] /\ proc # 0
  BY Numbers DEF Handshake, Opened, Aborted, Typed, TasksTyped, HandshakeSteps, history
<1>1. CASE Opened(p)
  <2>1. /\ queue' \in Seq(Queued) /\ inFlight' \in BOOLEAN /\ channel' \in Channels
        /\ running' \in [Pids -> SUBSET TurnIds] /\ started' \in Seq(TurnIds)
        /\ sent' \in SUBSET TurnIds
    BY <1>1, SubmitTypes DEF Opened, Typed, ObjectTyped
  <2>2. usage' \in {0} \union TurnIds
    BY <1>1 DEF Opened, UsageAfter, Typed, ObjectTyped
  <2>3. thread' = p /\ pending' = pending /\ life' = life
    BY <1>1 DEF Opened
  <2> QED
    BY <1>0, <2>1, <2>2, <2>3
       DEF Typed, ObjectTyped, TasksTyped, ServerTyped, HistoryTyped, FramesTyped
<1>2. CASE Aborted(p)
  <2>1. /\ UNCHANGED <<thread, queue, inFlight, channel, usage, running, started, sent>>
        /\ life' \in [Pids -> {"unborn", "running", "exited"}] /\ pending' \in SUBSET Pids
    BY <1>2 DEF Aborted, history, Typed, ServerTyped, ObjectTyped
  <2> QED
    BY <1>0, <2>1 DEF Typed, ObjectTyped, TasksTyped, ServerTyped, HistoryTyped, FramesTyped
<1> QED
  BY <1>1, <1>2 DEF Handshake

LEMMA InitTyped ==
  ASSUME CodexAssumption, Init
  PROVE  Typed
<1>0. <<>> \in Seq(Queued) /\ <<>> \in Seq(TurnIds) /\ <<>> \in Seq(Frames)
      /\ DOMAIN <<>> = {} /\ {} \in SUBSET TurnIds /\ {} \in SUBSET Pids
  OBVIOUS
<1>1. ObjectTyped /\ TasksTyped
  BY <1>0 DEF Init, ObjectTyped, TasksTyped, ReaderSteps, HandshakeSteps, CodexAssumption
<1>2. ServerTyped /\ HistoryTyped
  BY <1>0 DEF Init, ServerTyped, HistoryTyped
<1>3. FramesTyped
  BY <1>0 DEF Init, FramesTyped
<1> QED
  BY <1>1, <1>2, <1>3 DEF Typed

LEMMA StepTyped ==
  ASSUME CodexAssumption, Typed, [Next]_vars
  PROVE  Typed'
<1>1. CASE UNCHANGED vars
  BY <1>1 DEF vars, object, tasks, server, history, Typed, ObjectTyped, TasksTyped,
     ServerTyped, HistoryTyped, FramesTyped
<1>2. ASSUME NEW p \in Pids, ReadLoop(p) \/ Handshake(p)
      PROVE  Typed'
  <2>1. proc \in Pids
    BY <1>2 DEF ReadLoop, ReadReady, ReadUsage, ReadCompleted, ReadError, ReadEnd, Release,
       Read, Handshake, Opened, Aborted, Typed, ObjectTyped, TasksTyped
  <2> QED
    BY <1>2, <2>1, ReadLoopTyped, HandshakeTyped
<1> QED
  BY <1>1, <1>2, SpawnTyped, FeedTyped, StopTyped, AppServerTyped DEF Next

\* The process object, its tasks and the frames keep their types: a turn is
\* charged, released or completed only for a turn that was fed.
THEOREM TypeCorrect ==
  ASSUME CodexAssumption
  PROVE  Spec => []TypeInv
<1>1. Init => Typed
  BY InitTyped
<1>2. Typed /\ [Next]_vars => Typed'
  BY StepTyped
<1>3. Typed => TypeInv
  BY TypedIsTypeInv
<1> QED
  BY <1>1, <1>2, <1>3, PTL DEF Spec

-----------------------------------------------------------------------------
(* One turn *)

IsEnd(p, i) == out[p][i].kind \in {"completed", "error"}

\* While no process is spawned early, the tasks of the processes before the
\* object's have ended and those after it have not begun.
OneProcess ==
  /\ pending \subseteq {proc}
  /\ \A p \in Pids :
       /\ p < proc => reader[p] = "gone" /\ handshake[p] = "done"
       /\ p > proc => /\ reader[p] = "none" /\ handshake[p] = "none"
                      /\ life[p] = "unborn" /\ running[p] = {} /\ out[p] = <<>>

NoneUnended == running[proc] = {} /\ \A i \in DOMAIN out[proc] : ~IsEnd(proc, i)

AtMostOne ==
  /\ \A t, u \in running[proc] : t = u
  /\ \A i \in DOMAIN out[proc] : IsEnd(proc, i) =>
       running[proc] = {} /\ \A j \in DOMAIN out[proc] : IsEnd(proc, j) => i = j

Serial ==
  proc # 0 =>
    /\ AtMostOne
    /\ ~inFlight \/ reader[proc] = "releasing" => NoneUnended
    /\ reader[proc] = "releasing" => inFlight

SerialInv == Typed /\ (~early => OneProcess /\ Serial)

\* A turn is submitted to an app-server that has none.
LEMMA SubmitSerial ==
  ASSUME CodexAssumption, Typed, OneProcess, Serial, proc \in Pids,
         UNCHANGED <<proc, life, out>>, pending' \subseteq {proc}, NEW q \in Seq(Queued), NEW th, NEW busy \in BOOLEAN,
         SubmitNext(q, th, busy), ~busy => NoneUnended, busy => inFlight,
         reader'[proc] = "releasing" => busy /\ reader[proc] = "releasing",
         \A p \in Pids : p # proc => reader'[p] = reader[p] /\ handshake'[p] = handshake[p]
  PROVE  OneProcess' /\ Serial'
<1>1. \A p \in Pids : p # proc => running'[p] = running[p]
  BY DEF SubmitNext, Typed, ServerTyped
<1>2. OneProcess'
  BY <1>1 DEF OneProcess, Typed, ObjectTyped
<1>3. CASE th = 0 \/ busy \/ q = <<>>
  <2>1. running' = running /\ inFlight' = busy
    BY <1>3 DEF SubmitNext
  <2> QED
    BY <1>2, <2>1 DEF Serial, AtMostOne, NoneUnended, IsEnd
<1>4. CASE ~(th = 0 \/ busy \/ q = <<>>)
  <2>1. /\ NoneUnended /\ inFlight' = TRUE /\ reader'[proc] # "releasing"
        /\ \/ running' = running
           \/ running' = [running EXCEPT ![proc] = @ \union {Head(q).turn}]
    BY <1>4 DEF SubmitNext
  <2>2. running'[proc] \in {{}, {Head(q).turn}}
    BY <2>1 DEF NoneUnended, Typed, ServerTyped
  <2> QED
    BY <1>2, <2>1, <2>2 DEF Serial, AtMostOne, NoneUnended, IsEnd
<1> QED
  BY <1>3, <1>4

\* Who works for the object: the tasks of its process, and no others.
LEMMA OnlyProc ==
  ASSUME CodexAssumption, Typed, OneProcess, NEW p \in Pids,
         \/ reader[p] \in {"reading", "releasing"}
         \/ handshake[p] \in {"asked", "answered", "rejected"}
  PROVE  p = proc
BY Numbers DEF OneProcess, Typed, ObjectTyped

LEMMA SpawnSerial ==
  ASSUME CodexAssumption, Typed, OneProcess, Serial, Spawn, ~early'
  PROVE  OneProcess' /\ Serial'
<1>1. /\ proc' = proc + 1 /\ proc + 1 \in Pids /\ proc \in Nat /\ pending' = {proc'}
      /\ proc # 0 => reader[proc] = "gone" /\ handshake[proc] = "done"
      /\ UNCHANGED <<running, out>>
  BY Numbers DEF Spawn, Typed, ObjectTyped, CodexAssumption, Pids
<1>2. \A p \in Pids : p # proc' => /\ reader'[p] = reader[p] /\ handshake'[p] = handshake[p]
                                   /\ life'[p] = life[p]
  BY DEF Spawn, Typed, TasksTyped, ServerTyped
<1>3. OneProcess'
  BY <1>1, <1>2, Numbers DEF OneProcess
<1>4. running'[proc'] = {} /\ DOMAIN out'[proc'] = {} /\ reader'[proc'] = "reading"
  <2>1. out'[proc'] = <<>> /\ DOMAIN <<>> = {}
    BY <1>1, Numbers DEF OneProcess
  <2> QED
    BY <1>1, <2>1 DEF Spawn, OneProcess, Typed, TasksTyped
<1> QED
  BY <1>3, <1>4 DEF Serial, AtMostOne, NoneUnended

\* Steps that leave the turns and the process alone.
LEMMA QuietSerial ==
  ASSUME CodexAssumption, Typed, OneProcess, Serial,
         UNCHANGED <<proc, running, out, inFlight>>, pending' \subseteq {proc},
         \A p \in Pids :
           /\ p # proc => /\ reader'[p] = reader[p] /\ handshake'[p] = handshake[p]
                          /\ life'[p] = life[p]
           /\ reader'[p] = "releasing" => reader[p] = "releasing"
  PROVE  OneProcess' /\ Serial'
<1>1. OneProcess'
  BY Numbers DEF OneProcess, Typed, ObjectTyped
<1>2. proc # 0 => proc \in Pids
  BY DEF Typed, ObjectTyped
<1> QED
  BY <1>1, <1>2 DEF Serial, AtMostOne, NoneUnended, IsEnd

LEMMA HandlerSerial ==
  ASSUME CodexAssumption, Typed, OneProcess, Serial,
         Deliver \/ Feed \/ Stop \/ ReaderStops \/ Stopped
  PROVE  OneProcess' /\ Serial'
<1>1. CASE Deliver
  BY <1>1, QuietSerial DEF Deliver, server, OneProcess
<1>2. CASE Feed
  <2>1. proc \in Pids
    BY <1>2, Numbers DEF Feed, Typed, ObjectTyped, TasksTyped
  <2>2. Append(queue, [turn |-> feeding, channel |-> channel]) \in Seq(Queued)
    <3>1. [turn |-> feeding, channel |-> channel] \in Queued
      BY <1>2 DEF Feed, Typed, ObjectTyped, TasksTyped, Queued
    <3> QED
      BY <3>1 DEF Typed, ObjectTyped
  <2>3. /\ inFlight \in BOOLEAN /\ (~inFlight => NoneUnended)
        /\ reader[proc] = "releasing" => inFlight
    BY <2>1, Numbers DEF Typed, ObjectTyped, Serial
  <2>4. /\ SubmitNext(Append(queue, [turn |-> feeding, channel |-> channel]), thread, inFlight)
        /\ UNCHANGED <<proc, pending, reader, handshake, life, out>>
    BY <1>2 DEF Feed
  <2> QED
    BY <2>1, <2>2, <2>3, <2>4, SubmitSerial DEF OneProcess
<1>3. CASE Stop \/ ReaderStops \/ Stopped
  <2>1. /\ UNCHANGED <<proc, running, out, inFlight>> /\ pending' \in {pending, {}}
    BY <1>3 DEF Stop, ReaderStops, Stopped, object, server
  <2>2. \A p \in Pids :
          /\ p # proc => /\ reader'[p] = reader[p] /\ handshake'[p] = handshake[p]
                         /\ life'[p] = life[p]
          /\ reader'[p] = "releasing" => reader[p] = "releasing"
    BY <1>3 DEF Stop, ReaderStops, Stopped, server, Typed, TasksTyped, ServerTyped
  <2> QED
    BY <2>1, <2>2, QuietSerial DEF OneProcess
<1> QED
  BY <1>1, <1>2, <1>3

\* A frame that ends no turn.
LEMMA EmitSerial ==
  ASSUME CodexAssumption, Typed, OneProcess, Serial, NEW p \in Pids, life[p] = "running",
         NEW kind \in {"ready", "usage"}, NEW t, Emit(p, kind, t),
         UNCHANGED <<proc, running, inFlight, pending, reader, handshake, life>>
  PROVE  OneProcess' /\ Serial'
<1> DEFINE f == [kind |-> kind, turn |-> t]
<1>1. f.kind = kind /\ out' = [out EXCEPT ![p] = Append(@, f)]
  BY DEF Emit
<1> HIDE DEF f
<1>2. ~(p > proc) /\ \A q \in Pids : q # p => out'[q] = out[q]
  BY <1>1 DEF OneProcess, Typed, ServerTyped
<1>3. OneProcess'
  BY <1>2 DEF OneProcess
<1>4. CASE p = proc
  <2>1. out[p] \in Seq(Frames) /\ out'[p] = Append(out[p], f)
    BY <1>1 DEF Typed, ServerTyped
  <2>2. \A i \in DOMAIN out'[p] : \/ i \in DOMAIN out[p] /\ out'[p][i] = out[p][i]
                                  \/ out'[p][i].kind = kind
    BY <1>1, <2>1
  <2>3. \A i \in DOMAIN out'[proc] : IsEnd(proc, i)' => i \in DOMAIN out[proc] /\ IsEnd(proc, i)
    BY <1>4, <2>2 DEF IsEnd
  <2> QED
    BY <1>3, <2>3 DEF Serial, AtMostOne, NoneUnended
<1>5. CASE p # proc
  <2>1. proc # 0 => out'[proc] = out[proc]
    BY <1>2, <1>5 DEF Typed, ObjectTyped
  <2> QED
    BY <1>3, <2>1 DEF Serial, AtMostOne, NoneUnended, IsEnd
<1> QED
  BY <1>4, <1>5

LEMMA EndSerial ==
  ASSUME CodexAssumption, Typed, OneProcess, Serial, NEW p \in Pids, NEW t \in TurnIds,
         NEW kind \in {"completed", "error"}, End(p, t, kind)
  PROVE  OneProcess' /\ Serial'
<1> DEFINE f == [kind |-> kind, turn |-> t]
<1>1. /\ f.kind = kind /\ out' = [out EXCEPT ![p] = Append(@, f)]
      /\ running' = [running EXCEPT ![p] = @ \ {t}] /\ t \in running[p]
      /\ UNCHANGED <<proc, inFlight, pending, reader, handshake, life>>
  BY DEF End, Emit, object, tasks
<1> HIDE DEF f
<1>2. /\ ~(p > proc)
      /\ \A q \in Pids : q # p => out'[q] = out[q] /\ running'[q] = running[q]
  BY <1>1 DEF OneProcess, Typed, ServerTyped
<1>3. OneProcess'
  BY <1>1, <1>2 DEF OneProcess
<1>4. CASE p = proc
  <2>1. out[p] \in Seq(Frames) /\ out'[p] = Append(out[p], f)
    BY <1>1 DEF Typed, ServerTyped
  <2>2. proc # 0 /\ running'[p] = running[p] \ {t}
    BY <1>1, <1>4, Numbers DEF Typed, ServerTyped
  <2>3. running[p] = {t} /\ inFlight /\ reader[proc] # "releasing"
        /\ \A i \in DOMAIN out[p] : ~IsEnd(p, i)
    BY <1>1, <1>4, <2>2 DEF Serial, AtMostOne, NoneUnended, Typed, ObjectTyped
  <2>4. \A i \in DOMAIN out'[p] : \/ i \in DOMAIN out[p] /\ out'[p][i] = out[p][i]
                                  \/ i = Len(out[p]) + 1
    BY <2>1
  <2>5. \A i \in DOMAIN out'[p] : IsEnd(p, i)' => i = Len(out[p]) + 1
    BY <2>3, <2>4 DEF IsEnd
  <2>6. running'[p] = {}
    BY <2>2, <2>3
  <2> QED
    BY <1>1, <1>3, <1>4, <2>3, <2>5, <2>6 DEF Serial, AtMostOne
<1>5. CASE p # proc
  <2>1. proc # 0 => out'[proc] = out[proc] /\ running'[proc] = running[proc]
    BY <1>2, <1>5 DEF Typed, ObjectTyped
  <2> QED
    BY <1>1, <1>3, <2>1 DEF Serial, AtMostOne, NoneUnended, IsEnd
<1> QED
  BY <1>4, <1>5

LEMMA AppServerSerial ==
  ASSUME CodexAssumption, Typed, OneProcess, Serial, NEW p \in Pids,
         Ready(p) \/ Crash(p) \/ Works(p) \/ \E t \in TurnIds : Measure(p, t)
  PROVE  OneProcess' /\ Serial'
<1>1. CASE Ready(p)
  BY <1>1, EmitSerial DEF Ready, object, tasks
<1>2. CASE Crash(p)
  <2>1. /\ UNCHANGED <<proc, running, out, inFlight, pending, reader, handshake, life>>
           \/ (/\ UNCHANGED <<proc, running, out, inFlight, pending, reader, handshake>>
               /\ life' = [life EXCEPT ![p] = "exited"])
        /\ life[p] = "running"
    BY <1>2 DEF Crash, object, tasks
  <2>2. UNCHANGED <<proc, running, out, inFlight, pending, reader, handshake>>
    BY <2>1
  <2>3. \A q \in Pids : q > proc => life'[q] = life[q]
    BY <1>2, <2>1 DEF Crash, OneProcess, Typed, ServerTyped
  <2>4. OneProcess'
    BY <2>2, <2>3 DEF OneProcess
  <2> QED
    BY <2>2, <2>4 DEF Serial, AtMostOne, NoneUnended, IsEnd
<1>3. CASE Works(p)
  <2>1. PICK t \in TurnIds, kind \in {"completed", "error"} : End(p, t, kind)
    BY <1>3 DEF Works
  <2> QED
    BY <2>1, EndSerial
<1>4. ASSUME NEW t \in TurnIds, Measure(p, t)
      PROVE  OneProcess' /\ Serial'
  BY <1>4, EmitSerial DEF Measure, object, tasks
<1> QED
  BY <1>1, <1>2, <1>3, <1>4

\* The reader takes a frame of its process; the end of a turn leaves none.
LEMMA ReadSerial ==
  ASSUME CodexAssumption, Typed, OneProcess, Serial, NEW p \in Pids, NEW kind, Read(p, kind),
         UNCHANGED <<proc, running, inFlight, life>>, pending' \subseteq pending,
         \A q \in Pids : q # proc => reader'[q] = reader[q] /\ handshake'[q] = handshake[q],
         reader'[proc] = "releasing" => kind \in {"completed", "error"}
  PROVE  OneProcess' /\ Serial'
<1>1. p = proc /\ proc # 0 /\ reader[p] = "reading"
  BY OnlyProc, Numbers DEF Read
<1>2. /\ out[p] \in Seq(Frames) /\ out[p] # <<>> /\ Head(out[p]).kind = kind
      /\ out'[p] = Tail(out[p]) /\ \A q \in Pids : q # p => out'[q] = out[q]
  BY DEF Read, Typed, ServerTyped
<1>3. OneProcess'
  BY <1>1, <1>2, Numbers DEF OneProcess, Typed, ObjectTyped
<1>4. \A i \in DOMAIN out'[p] : /\ i \in Nat /\ i + 1 # 1 /\ i + 1 \in DOMAIN out[p]
                                /\ IsEnd(p, i)' <=> IsEnd(p, i + 1)
  BY <1>2, TailElements DEF IsEnd
<1>5. AtMostOne'
  BY <1>1, <1>4 DEF Serial, AtMostOne
<1>6. ~inFlight => NoneUnended'
  BY <1>1, <1>4 DEF Serial, NoneUnended
<1>7. kind \in {"completed", "error"} => NoneUnended' /\ inFlight
  <2>1. 1 \in DOMAIN out[p] /\ (kind \in {"completed", "error"} => IsEnd(p, 1))
    BY <1>2, TailElements DEF IsEnd
  <2> QED
    BY <1>1, <1>4, <2>1 DEF Serial, AtMostOne, NoneUnended
<1> QED
  BY <1>3, <1>5, <1>6, <1>7 DEF Serial

LEMMA ReadLoopSerial ==
  ASSUME CodexAssumption, Typed, OneProcess, Serial, NEW p \in Pids, ReadLoop(p)
  PROVE  OneProcess' /\ Serial'
<1>1. p = proc /\ proc # 0 /\ reader[proc] \in {"reading", "releasing"}
  BY OnlyProc, Numbers DEF ReadLoop, ReadReady, ReadUsage, ReadCompleted, ReadError, ReadEnd,
     Release, Read
<1>2. CASE ReadReady(p)
  <2>1. \A q \in Pids : q # proc => handshake'[q] = handshake[q]
    BY <1>2 DEF ReadReady, OneProcess
  <2>2. reader' = reader /\ reader[proc] = "reading"
    BY <1>1, <1>2 DEF ReadReady, Read
  <2> QED
    BY <1>2, <2>1, <2>2, ReadSerial DEF ReadReady
<1>3. CASE ReadUsage(p)
  <2>1. reader[proc] = "reading"
    BY <1>1, <1>3 DEF ReadUsage, Read
  <2> QED
    BY <1>3, <2>1, ReadSerial DEF ReadUsage, tasks
<1>4. CASE ReadCompleted(p) \/ ReadError(p)
  <2>1. \A q \in Pids : q # proc => reader'[q] = reader[q]
    BY <1>1, <1>4 DEF ReadCompleted, ReadError, Typed, TasksTyped
  <2> QED
    BY <1>4, <2>1, ReadSerial DEF ReadCompleted, ReadError, object
<1>5. CASE ReadEnd(p)
  <2>1. \A q \in Pids : /\ q # proc => reader'[q] = reader[q] /\ handshake'[q] = handshake[q]
                        /\ reader'[q] = "releasing" => reader[q] = "releasing"
    BY <1>1, <1>5 DEF ReadEnd, OneProcess, Typed, TasksTyped
  <2> QED
    BY <1>5, <2>1, QuietSerial DEF ReadEnd, server
<1>6. CASE Release(p)
  <2>1. NoneUnended /\ proc \in Pids /\ queue \in Seq(Queued)
    BY <1>1, <1>6 DEF Release, Serial, Typed, ObjectTyped
  <2>2. \A q \in Pids : q # proc => reader'[q] = reader[q] /\ handshake'[q] = handshake[q]
    BY <1>1, <1>6 DEF Release, Typed, TasksTyped
  <2>3. reader'[proc] = "reading"
    BY <1>1, <1>6 DEF Release, Typed, TasksTyped
  <2> QED
    BY <1>6, <2>1, <2>2, <2>3, SubmitSerial DEF Release, OneProcess
<1> QED
  BY <1>2, <1>3, <1>4, <1>5, <1>6 DEF ReadLoop

LEMMA HandshakeSerial ==
  ASSUME CodexAssumption, Typed, OneProcess, Serial, NEW p \in Pids, Handshake(p)
  PROVE  OneProcess' /\ Serial'
<1>1. p = proc /\ proc # 0
  BY OnlyProc, Numbers DEF Handshake, Opened, Aborted
<1>2. \A q \in Pids : q # proc => handshake'[q] = handshake[q]
  BY <1>1 DEF Handshake, Opened, Aborted, Typed, TasksTyped
<1>3. CASE Opened(p)
  <2>1. /\ queue \in Seq(Queued) /\ inFlight \in BOOLEAN /\ (~inFlight => NoneUnended)
        /\ reader[proc] = "releasing" => inFlight
    BY <1>1 DEF Typed, ObjectTyped, Serial
  <2> QED
    BY <1>1, <1>2, <1>3, <2>1, SubmitSerial DEF Opened, OneProcess
<1>4. CASE Aborted(p)
  <2>1. \A q \in Pids : q # proc => life'[q] = life[q]
    BY <1>4 DEF Aborted, Typed, ServerTyped
  <2> QED
    BY <1>2, <1>4, <2>1, QuietSerial DEF Aborted, OneProcess
<1> QED
  BY <1>3, <1>4 DEF Handshake

LEMMA StepSerial ==
  ASSUME CodexAssumption, SerialInv, [Next]_vars, ~early'
  PROVE  OneProcess' /\ Serial'
<1>1. Typed /\ OneProcess /\ Serial
  <2>1. early => early'
    BY DEF Next, vars, history, Spawn, Deliver, Feed, Stop, ReaderStops, Stopped, Ready, Crash,
       Works, End, Measure, ReadLoop, ReadReady, ReadUsage, ReadCompleted, ReadError, ReadEnd,
       Release, Handshake, Opened, Aborted
  <2> QED
    BY <2>1 DEF SerialInv
<1>2. CASE UNCHANGED vars
  BY <1>1, <1>2, QuietSerial DEF vars, object, tasks, server, OneProcess
<1> QED
  BY <1>1, <1>2, SpawnSerial, HandlerSerial, AppServerSerial, ReadLoopSerial, HandshakeSerial
     DEF Next

\* Turns are submitted serially: whatever the order of handshakes, feeds,
\* completions and errors, an app-server has at most one turn that has not
\* been seen to end, and none when the object says it is free (as long as no
\* process is spawned while the tasks of the last one are alive).
THEOREM OneTurnHolds ==
  ASSUME CodexAssumption
  PROVE  Spec => []OneTurn
<1>1. Init => SerialInv
  <2> SUFFICES ASSUME Init
               PROVE  SerialInv
    OBVIOUS
  <2>1. OneProcess /\ Serial
    BY Numbers DEF Init, OneProcess, Serial
  <2> QED
    BY <2>1, InitTyped DEF SerialInv
<1>2. SerialInv /\ [Next]_vars => SerialInv'
  BY StepTyped, StepSerial DEF SerialInv
<1>3. SerialInv => OneTurn
  <2> SUFFICES ASSUME Typed, Serial, proc # 0
               PROVE  /\ Cardinality(Unended(proc)) <= 1
                      /\ ~inFlight => Unended(proc) = {}
    BY DEF SerialInv, OneTurn
  <2> DEFINE Ends == {j \in DOMAIN out[proc] : IsEnd(proc, j)}
  <2>1. Unended(proc) = running[proc] \union {out[proc][i].turn : i \in Ends}
    BY DEF Unended, IsEnd
  <2>2. ~inFlight => Unended(proc) = {}
    BY <2>1 DEF Serial, NoneUnended
  <2>3. \A t, u \in Unended(proc) : t = u
    BY <2>1 DEF Serial, AtMostOne
  <2>4. Unended(proc) = {} \/ \E t : Unended(proc) = {t}
    BY <2>3
  <2>5. Cardinality(Unended(proc)) <= 1
    <3>1. CASE Unended(proc) = {}
      <4>1. Cardinality({}) = 0
        BY FS_EmptySet
      <4> QED
        BY <3>1, <4>1
    <3>2. ASSUME NEW t, Unended(proc) = {t}
          PROVE  Cardinality(Unended(proc)) <= 1
      <4>1. Cardinality({t}) = 1
        BY FS_Singleton
      <4> QED
        BY <3>2, <4>1
    <3> QED
      BY <2>4, <3>1, <3>2
  <2> QED
    BY <2>2, <2>5
<1> QED
  BY <1>1, <1>2, <1>3, PTL DEF Spec

-----------------------------------------------------------------------------
(* First in, first out *)

\* The turns of the object in a line: those started, then those that wait.
Slot(s, q, i) == IF i <= Len(s) THEN s[i] ELSE q[i - Len(s)].turn
Places(s, q)  == 1 .. (Len(s) + Len(q))

\* The line holds the turns fed to process p, each once and in order.
Lined(s, q, f, p) ==
  /\ \A i \in Places(s, q) : p # 0 /\ f[Slot(s, q, i)] = p
  /\ \A t \in TurnIds : f[t] = p /\ p # 0 => \E i \in Places(s, q) : Slot(s, q, i) = t
  /\ \A i, j \in Places(s, q) : i < j => Slot(s, q, i) < Slot(s, q, j)

\* Turns are fed one after the other, to the processes there have been.
FedFirst ==
  /\ \A t \in TurnIds : fed[t] <= proc
  /\ \A s, t \in TurnIds : s < t /\ fed[t] # 0 => fed[s] # 0
  /\ feeding # 0 => /\ fed[feeding] = 0
                    /\ \A s \in TurnIds : s < feeding => fed[s] # 0

LineInv == Typed /\ FedFirst /\ Lined(started, queue, fed, proc)

\* Each place of a line holds a turn.
LEMMA SlotTypes ==
  ASSUME CodexAssumption, NEW s \in Seq(TurnIds), NEW q \in Seq(Queued)
  PROVE  \A i \in Places(s, q) : Slot(s, q, i) \in TurnIds
<1> SUFFICES ASSUME NEW i \in Places(s, q)
             PROVE  Slot(s, q, i) \in TurnIds
  OBVIOUS
<1>1. i \in 1 .. (Len(s) + Len(q)) /\ Len(s) \in Nat /\ Len(q) \in Nat
  BY DEF Places
<1>2. CASE i <= Len(s)
  BY <1>1, <1>2 DEF Slot
<1>3. CASE ~(i <= Len(s))
  <2>1. i - Len(s) \in 1 .. Len(q)
    BY <1>1, <1>3
  <2>2. q[i - Len(s)] \in Queued
    BY <2>1
  <2> QED
    BY <1>3, <2>2 DEF Slot, Queued
<1> QED
  BY <1>2, <1>3

\* Starting the first turn that waits moves no turn in the line.
LEMMA MoveUp ==
  ASSUME NEW s \in Seq(TurnIds), NEW q \in Seq(Queued), q # <<>>
  PROVE  LET s2 == Append(s, Head(q).turn)
         IN  /\ Places(s2, Tail(q)) = Places(s, q)
             /\ \A i \in Places(s, q) : Slot(s2, Tail(q), i) = Slot(s, q, i)
<1> DEFINE s2 == Append(s, Head(q).turn)
<1>1. /\ Len(s) \in Nat /\ Len(q) \in Nat /\ Len(q) >= 1 /\ Head(q) = q[1]
      /\ Tail(q) \in Seq(Queued) /\ Len(Tail(q)) = Len(q) - 1
      /\ \A k \in 1 .. Len(Tail(q)) : Tail(q)[k] = q[k + 1]
  OBVIOUS
<1>2. Head(q).turn \in TurnIds
  <2>1. Head(q) \in Queued
    OBVIOUS
  <2> QED
    BY <2>1 DEF Queued
<1>3. /\ Len(s2) = Len(s) + 1 /\ s2[Len(s) + 1] = Head(q).turn
      /\ \A i \in 1 .. Len(s) : s2[i] = s[i]
  BY <1>2
<1> HIDE DEF s2
<1>4. Places(s2, Tail(q)) = Places(s, q)
  BY <1>1, <1>3 DEF Places
<1>5. ASSUME NEW i \in Places(s, q)
      PROVE  Slot(s2, Tail(q), i) = Slot(s, q, i)
  <2>0. i \in 1 .. (Len(s) + Len(q))
    BY DEF Places
  <2>1. CASE i <= Len(s)
    BY <1>1, <1>3, <2>0, <2>1 DEF Slot
  <2>2. CASE i = Len(s) + 1
    BY <1>1, <1>3, <2>2 DEF Slot
  <2>3. CASE i > Len(s) + 1
    <3>1. /\ i - Len(s2) \in 1 .. Len(Tail(q)) /\ i - Len(s2) + 1 = i - Len(s)
          /\ ~(i <= Len(s2)) /\ ~(i <= Len(s))
      BY <1>1, <1>3, <2>0, <2>3
    <3> QED
      BY <1>1, <3>1 DEF Slot
  <2> QED
    BY <1>1, <2>0, <2>1, <2>2, <2>3
<1> QED
  BY <1>4, <1>5 DEF s2

\* A turn added to the line comes last.
LEMMA JoinLine ==
  ASSUME NEW s \in Seq(TurnIds), NEW q \in Seq(Queued), NEW e \in Queued
  PROVE  /\ Places(s, Append(q, e)) = Places(s, q) \union {Len(s) + Len(q) + 1}
         /\ \A i \in Places(s, q) : Slot(s, Append(q, e), i) = Slot(s, q, i)
         /\ Slot(s, Append(q, e), Len(s) + Len(q) + 1) = e.turn
<1> DEFINE r == Append(q, e)
<1>1. /\ Len(s) \in Nat /\ Len(q) \in Nat /\ Len(r) = Len(q) + 1 /\ r[Len(q) + 1] = e
      /\ \A k \in 1 .. Len(q) : r[k] = q[k]
  OBVIOUS
<1> HIDE DEF r
<1>2. Places(s, r) = Places(s, q) \union {Len(s) + Len(q) + 1}
  BY <1>1 DEF Places
<1>3. ASSUME NEW i \in Places(s, q)
      PROVE  Slot(s, r, i) = Slot(s, q, i)
  <2>1. i <= Len(s) \/ i - Len(s) \in 1 .. Len(q)
    BY <1>1 DEF Places
  <2> QED
    BY <1>1, <2>1 DEF Slot
<1>4. Slot(s, r, Len(s) + Len(q) + 1) = e.turn
  BY <1>1 DEF Slot
<1> QED
  BY <1>2, <1>3, <1>4 DEF r

\* Submitting the next turn leaves the line as the caller made it.
LEMMA SubmitLine ==
  ASSUME Typed, NEW q \in Seq(Queued), NEW th, NEW busy \in BOOLEAN,
         SubmitNext(q, th, busy), NEW f, NEW p, Lined(started, q, f, p)
  PROVE  Lined(started', queue', f, p)
<1>1. CASE th = 0 \/ busy \/ q = <<>>
  BY <1>1 DEF SubmitNext
<1>2. CASE ~(th = 0 \/ busy \/ q = <<>>)
  <2>1. queue' = Tail(q) /\ started' = Append(started, Head(q).turn) /\ q # <<>>
    BY <1>2 DEF SubmitNext
  <2>2. started \in Seq(TurnIds)
    BY DEF Typed, HistoryTyped
  <2>3. /\ Places(started', queue') = Places(started, q)
        /\ \A i \in Places(started, q) : Slot(started', queue', i) = Slot(started, q, i)
    BY <2>1, <2>2, MoveUp
  <2> QED
    BY <2>3 DEF Lined
<1> QED
  BY <1>1, <1>2

LEMMA FeedLine ==
  ASSUME CodexAssumption, LineInv, Feed
  PROVE  FedFirst' /\ Lined(started', queue', fed', proc')
<1> DEFINE e == [turn |-> feeding, channel |-> channel]
           last == Len(started) + Len(queue) + 1
           r == Append(queue, e)
<1>1. /\ feeding \in TurnIds /\ proc \in Pids /\ proc # 0 /\ fed \in [TurnIds -> {0} \union Pids]
      /\ queue \in Seq(Queued) /\ started \in Seq(TurnIds) /\ inFlight \in BOOLEAN
  BY Numbers DEF Feed, LineInv, Typed, ObjectTyped, TasksTyped, HistoryTyped
<1>2. e \in Queued /\ e.turn = feeding
  BY <1>1 DEF LineInv, Typed, ObjectTyped, Queued
<1>3. proc' = proc /\ feeding' = 0 /\ fed' = [fed EXCEPT ![feeding] = proc]
  BY DEF Feed
<1>4. fed'[feeding] = proc /\ \A t \in TurnIds : t # feeding => fed'[t] = fed[t]
  BY <1>1, <1>3
<1>5. fed[feeding] = 0 /\ \A t \in TurnIds : fed[t] # 0 => t < feeding
  <2>1. fed[feeding] = 0 /\ \A t \in TurnIds : feeding < t => fed[t] = 0
    BY <1>1, Numbers DEF LineInv, FedFirst
  <2>2. feeding \in Nat /\ \A t \in TurnIds : t \in Nat
    BY <1>1, Numbers
  <2> QED
    BY <2>1, <2>2
<1>6. FedFirst'
  <2>1. \A t \in TurnIds : fed'[t] <= proc
    <3>1. proc <= proc
      BY <1>1, Numbers
    <3> QED
      BY <1>4, <3>1 DEF LineInv, FedFirst
  <2>2. ASSUME NEW s \in TurnIds, NEW t \in TurnIds, s < t, fed'[t] # 0
        PROVE  fed'[s] # 0
    <3>1. CASE t = feeding
      <4>1. fed[s] # 0 /\ s # feeding
        BY <2>2, <3>1, <1>1, <1>5, Numbers DEF LineInv, FedFirst
      <4> QED
        BY <4>1, <1>4
    <3>2. CASE t # feeding
      <4>1. fed[s] # 0
        BY <2>2, <3>2, <1>4 DEF LineInv, FedFirst
      <4> QED
        BY <4>1, <1>1, <1>4
    <3> QED
      BY <3>1, <3>2
  <2> QED
    BY <1>3, <2>1, <2>2 DEF FedFirst
<1>7. /\ Places(started, r) = Places(started, queue) \union {last}
      /\ \A i \in Places(started, queue) : Slot(started, r, i) = Slot(started, queue, i)
      /\ Slot(started, r, last) = feeding
  BY <1>1, <1>2, JoinLine
<1>8. \A i \in Places(started, queue) :
        /\ i \in Nat /\ i < last /\ Slot(started, queue, i) \in TurnIds
        /\ fed[Slot(started, queue, i)] = proc
  <2>1. \A i \in Places(started, queue) : Slot(started, queue, i) \in TurnIds
    BY <1>1, SlotTypes
  <2>2. \A i \in Places(started, queue) : i \in Nat /\ i < last
    <3>1. Len(started) \in Nat /\ Len(queue) \in Nat
      BY <1>1
    <3> QED
      BY <3>1 DEF Places
  <2> QED
    BY <2>1, <2>2 DEF LineInv, Lined
<1> HIDE DEF last, r, e
<1>9. \A i \in Places(started, queue) : Slot(started, queue, i) < feeding
  BY <1>1, <1>5, <1>8
<1>10. last \in Nat
  BY <1>1 DEF last
<1>11. Lined(started, r, fed', proc)
  <2>1. \A i \in Places(started, r) : proc # 0 /\ fed'[Slot(started, r, i)] = proc
    BY <1>1, <1>4, <1>7, <1>8
  <2>2. ASSUME NEW t \in TurnIds, fed'[t] = proc
        PROVE  \E i \in Places(started, r) : Slot(started, r, i) = t
    <3>1. CASE t = feeding
      BY <1>7, <3>1
    <3>2. CASE t # feeding
      <4>1. \E i \in Places(started, queue) : Slot(started, queue, i) = t
        BY <1>1, <1>4, <2>2, <3>2 DEF LineInv, Lined
      <4> QED
        BY <1>7, <4>1
    <3> QED
      BY <3>1, <3>2
  <2>3. ASSUME NEW i \in Places(started, r), NEW j \in Places(started, r), i < j
        PROVE  Slot(started, r, i) < Slot(started, r, j)
    <3>1. i \in Places(started, queue)
      BY <1>7, <1>8, <1>10, <2>3
    <3>2. CASE j = last
      BY <1>7, <1>9, <3>1, <3>2
    <3>3. CASE j \in Places(started, queue)
      <4>1. Slot(started, queue, i) < Slot(started, queue, j)
        BY <2>3, <3>1, <3>3 DEF LineInv, Lined
      <4> QED
        BY <1>7, <3>1, <3>3, <4>1
    <3> QED
      BY <1>7, <3>2, <3>3
  <2> QED
    BY <2>1, <2>2, <2>3 DEF Lined
<1>12. SubmitNext(r, thread, inFlight) /\ r \in Seq(Queued)
  BY <1>1, <1>2 DEF Feed, r, e
<1>13. Lined(started', queue', fed', proc)
  BY <1>1, <1>11, <1>12, SubmitLine DEF LineInv
<1> QED
  BY <1>3, <1>6, <1>13

LEMMA SpawnLine ==
  ASSUME CodexAssumption, LineInv, Spawn
  PROVE  FedFirst' /\ Lined(started', queue', fed', proc')
<1>1. /\ proc' = proc + 1 /\ proc \in Nat /\ feeding' = 0 /\ fed' = fed
      /\ started' = <<>> /\ queue' = <<>>
  BY Numbers DEF Spawn, LineInv, Typed, ObjectTyped
<1>2. \A t \in TurnIds : fed[t] \in Nat /\ fed[t] <= proc
  BY Numbers DEF LineInv, Typed, HistoryTyped, FedFirst
<1>3. Places(started', queue') = {}
  <2>1. Len(<<>>) = 0
    OBVIOUS
  <2>2. 1 .. (0 + 0) = {}
    OBVIOUS
  <2> QED
    BY <1>1, <2>1, <2>2 DEF Places
<1>4. \A t \in TurnIds : fed'[t] <= proc' /\ fed'[t] # proc'
  BY <1>1, <1>2
<1>5. FedFirst'
  BY <1>1, <1>4 DEF LineInv, FedFirst
<1> QED
  BY <1>3, <1>4, <1>5 DEF Lined

LEMMA StepLine ==
  ASSUME CodexAssumption, LineInv, [Next]_vars
  PROVE  LineInv'
<1>1. Typed'
  BY StepTyped DEF LineInv
<1>2. CASE UNCHANGED <<proc, feeding, fed, started, queue>>
  BY <1>1, <1>2 DEF LineInv, FedFirst
<1>3. CASE Deliver
  <2>1. UNCHANGED <<proc, fed, started, queue>> /\ feeding = 0
    BY <1>3 DEF Deliver, history
  <2>2. fed[feeding'] = 0 /\ \A s \in TurnIds : s < feeding' => fed[s] # 0
    BY <1>3 DEF Deliver
  <2> QED
    BY <1>1, <2>1, <2>2 DEF LineInv, FedFirst
<1>4. ASSUME NEW p \in Pids, Release(p) \/ Opened(p)
      PROVE  LineInv'
  <2>1. UNCHANGED <<proc, feeding, fed>>
    BY <1>4 DEF Release, Opened
  <2>2. SubmitNext(queue, thread, FALSE) \/ SubmitNext(queue, p, inFlight)
    BY <1>4 DEF Release, Opened
  <2>3. queue \in Seq(Queued) /\ inFlight \in BOOLEAN
    BY DEF LineInv, Typed, ObjectTyped
  <2>4. Lined(started', queue', fed, proc)
    BY <2>2, <2>3, SubmitLine DEF LineInv
  <2> QED
    BY <1>1, <2>1, <2>4 DEF LineInv, FedFirst
<1>5. ASSUME NEW p \in Pids, ReadLoop(p) \/ Handshake(p)
      PROVE  LineInv'
  <2>1. CASE Release(p) \/ Opened(p)
    BY <1>4, <2>1
  <2>2. CASE ~(Release(p) \/ Opened(p))
    <3>1. UNCHANGED <<proc, feeding, fed, started, queue>>
      BY <1>5, <2>2
         DEF ReadLoop, ReadReady, ReadUsage, ReadCompleted, ReadError, ReadEnd, Handshake,
             Aborted, object, tasks, history
    <3> QED
      BY <1>2, <3>1
  <2> QED
    BY <2>1, <2>2
<1>6. ASSUME NEW p \in Pids,
             Ready(p) \/ Crash(p) \/ Works(p) \/ \E t \in TurnIds : Measure(p, t)
      PROVE  LineInv'
  <2>1. UNCHANGED <<proc, feeding, fed, started, queue>>
    BY <1>6 DEF Ready, Crash, Works, End, Measure, object, tasks, history
  <2> QED
    BY <1>2, <2>1
<1>7. CASE Stop \/ ReaderStops \/ Stopped
  <2>1. UNCHANGED <<proc, feeding, fed, started, queue>>
    BY <1>7 DEF Stop, ReaderStops, Stopped, object, history
  <2> QED
    BY <1>2, <2>1
<1>8. CASE UNCHANGED vars
  BY <1>2, <1>8 DEF vars, object, tasks, history
<1>9. CASE Spawn \/ Feed
  BY <1>1, <1>9, SpawnLine, FeedLine DEF LineInv
<1> QED
  BY <1>3, <1>5, <1>6, <1>7, <1>8, <1>9 DEF Next

LEMMA InitLine ==
  ASSUME CodexAssumption, Init
  PROVE  LineInv
<1>1. Places(<<>>, <<>>) = {}
  <2>1. Len(<<>>) = 0
    OBVIOUS
  <2>2. 1 .. (0 + 0) = {}
    OBVIOUS
  <2> QED
    BY <2>1, <2>2 DEF Places
<1>2. FedFirst /\ Lined(started, queue, fed, proc)
  BY <1>1 DEF Init, FedFirst, Lined
<1> QED
  BY <1>2, InitTyped DEF LineInv

\* The queue is a queue: whatever the interleaving of feeds, handshakes, turn
\* ends, crashes and restarts, the turns started and those waiting are the
\* turns fed to the process, each once and in the order they were fed.
THEOREM FirstInHolds ==
  ASSUME CodexAssumption
  PROVE  Spec => []FirstIn
<1>1. LineInv /\ [Next]_vars => LineInv'
  BY StepLine
<1>2. LineInv => FirstIn
  <2> DEFINE turns == [i \in DOMAIN queue |-> queue[i].turn]
             line  == started \o turns
  <2> SUFFICES ASSUME LineInv, proc # 0
               PROVE  /\ {line[i] : i \in DOMAIN line} = {t \in TurnIds : fed[t] = proc}
                      /\ \A i, j \in DOMAIN line : i < j => line[i] < line[j]
    BY DEF FirstIn
  <2>1. started \in Seq(TurnIds) /\ queue \in Seq(Queued)
    BY DEF LineInv, Typed, ObjectTyped, HistoryTyped
  <2>2. turns \in Seq(TurnIds) /\ Len(turns) = Len(queue)
        /\ \A i \in 1 .. Len(queue) : turns[i] = queue[i].turn
    <3>1. DOMAIN queue = 1 .. Len(queue) /\ Len(queue) \in Nat
          /\ \A i \in 1 .. Len(queue) : queue[i] \in Queued
      BY <2>1
    <3>2. \A i \in 1 .. Len(queue) : queue[i].turn \in TurnIds
      BY <3>1 DEF Queued
    <3>3. turns \in [1 .. Len(queue) -> TurnIds]
      BY <3>1, <3>2
    <3> QED
      BY <3>1, <3>3
  <2> HIDE DEF turns
  <2>3. /\ line \in Seq(TurnIds) /\ Len(line) = Len(started) + Len(queue)
        /\ \A i \in 1 .. (Len(started) + Len(queue)) :
             line[i] = IF i <= Len(started) THEN started[i] ELSE turns[i - Len(started)]
    <3>1. /\ started \o turns \in Seq(TurnIds)
          /\ Len(started \o turns) = Len(started) + Len(turns)
          /\ \A i \in 1 .. Len(started) + Len(turns) : (started \o turns)[i] =
               IF i <= Len(started) THEN started[i] ELSE turns[i - Len(started)]
      BY <2>1, <2>2, ConcatProperties
    <3> QED
      BY <2>2, <3>1
  <2> HIDE DEF line
  <2>4. DOMAIN line = Places(started, queue)
    BY <2>3 DEF Places
  <2>5. ASSUME NEW i \in Places(started, queue)
        PROVE  line[i] = Slot(started, queue, i)
    <3>1. i <= Len(started) \/ i - Len(started) \in 1 .. Len(queue)
      BY <2>1 DEF Places
    <3> QED
      BY <2>2, <2>3, <3>1 DEF Places, Slot
  <2>6. \A i \in DOMAIN line : line[i] \in TurnIds
    BY <2>3
  <2> QED
    BY <2>4, <2>5, <2>6 DEF LineInv, Lined
<1> QED
  BY <1>1, <1>2, InitLine, PTL DEF Spec

-----------------------------------------------------------------------------
(* Charged once *)

\* A process that is not the object's any more has exited, and one that is not
\* yet is unborn.
OldExited ==
  \A p \in Pids : /\ p < proc => life[p] = "exited"
                  /\ p > proc => life[p] = "unborn"

\* The turn the app-server has, or whose end has not been read.
Current(t) ==
  \/ t \in running[proc]
  \/ \E i \in DOMAIN out[proc] : IsEnd(proc, i) /\ out[proc][i].turn = t

\* Usage is reported of turns that were started, and so are they completed.
Reached ==
  /\ \A t \in sent : fed[t] # 0
  /\ \A t \in sent : fed[t] = proc => \E i \in DOMAIN started : started[i] = t
  /\ measured \subseteq sent /\ completed \subseteq sent

\* The usage of the current turn is kept by the object, or on its way in a
\* frame before the frame of its end; what is kept belongs to no other turn.
IsUsage(i) == out[proc][i].kind = "usage"
Meter ==
  proc # 0 =>
    /\ \A t : Current(t) =>
         /\ t \in sent /\ t \notin completed
         /\ t \in measured => \/ usage = t
                              \/ \E i \in DOMAIN out[proc] :
                                   IsUsage(i) /\ out[proc][i].turn = t
    /\ \A i \in DOMAIN out[proc] : IsUsage(i) =>
         /\ Current(out[proc][i].turn)
         /\ \A j \in DOMAIN out[proc] : IsEnd(proc, j) => i < j
    /\ usage # 0 => \A t : Current(t) => usage = t

Billing ==
  /\ \A i \in DOMAIN billed : billed[i].turn \in completed
  /\ \A i, j \in DOMAIN billed : billed[i].turn = billed[j].turn => i = j
  /\ \A t \in completed \intersect measured : \E i \in DOMAIN billed : billed[i].turn = t

BillInv ==
  /\ LineInv /\ SerialInv /\ OldExited
  /\ ~early => Reached /\ Meter /\ Billing

LEMMA QuietBills ==
  ASSUME Reached, Meter, Billing,
         UNCHANGED <<proc, usage, running, out, fed, started, sent, measured, completed, billed>>
  PROVE  Reached' /\ Meter' /\ Billing'
<1>1. Reached' /\ Billing'
  BY DEF Reached, Billing
<1>2. Meter'
  BY DEF Meter, Current, IsUsage, IsEnd
<1> QED
  BY <1>1, <1>2

\* A turn that waits has not been started.
LEMMA FreshHead ==
  ASSUME CodexAssumption, LineInv, Reached, proc # 0, queue # <<>>
  PROVE  Head(queue).turn \notin sent /\ fed[Head(queue).turn] # 0
<1> DEFINE k == Len(started) + 1
<1>1. queue \in Seq(Queued) /\ started \in Seq(TurnIds)
  BY DEF LineInv, Typed, ObjectTyped, HistoryTyped
<1>2. /\ Len(started) \in Nat /\ Len(queue) \in Nat /\ Len(queue) >= 1
      /\ Head(queue) = queue[1] /\ DOMAIN started = 1 .. Len(started)
  BY <1>1
<1>3. k \in Places(started, queue) /\ Slot(started, queue, k) = Head(queue).turn
  BY <1>2 DEF Places, Slot
<1>4. fed[Head(queue).turn] = proc
  BY <1>3 DEF LineInv, Lined
<1>5. ASSUME Head(queue).turn \in sent
      PROVE  FALSE
  <2>1. PICK i \in DOMAIN started : started[i] = Head(queue).turn
    BY <1>4, <1>5 DEF Reached
  <2>2. i \in Places(started, queue) /\ Slot(started, queue, i) = started[i] /\ i < k
    BY <1>2 DEF Places, Slot
  <2>3. started[i] < started[i] /\ started[i] \in TurnIds
    BY <1>1, <1>3, <2>1, <2>2 DEF LineInv, Lined
  <2> QED
    BY <2>3, Numbers
<1> QED
  BY <1>4, <1>5

\* Submitting a turn that was not started before: what was kept of the last
\* turn is forgotten.
LEMMA SubmitBills ==
  ASSUME CodexAssumption, Typed, Reached, Meter, Billing, proc \in Pids,
         NEW q \in Seq(Queued), NEW th, NEW busy \in BOOLEAN, SubmitNext(q, th, busy),
         UNCHANGED <<proc, out, measured, completed, billed>>,
         usage' = IF th = 0 \/ busy \/ q = <<>> THEN usage ELSE 0,
         ~busy => NoneUnended,
         q # <<>> => Head(q).turn \notin sent /\ fed'[Head(q).turn] # 0,
         \A t \in sent : fed'[t] = fed[t]
  PROVE  Reached' /\ Meter' /\ Billing'
<1>0. Billing'
  BY DEF Billing
<1>1. CASE th = 0 \/ busy \/ q = <<>>
  <2>1. UNCHANGED <<running, started, sent, usage>>
    BY <1>1 DEF SubmitNext
  <2>2. Meter'
    BY <2>1 DEF Meter, Current, IsUsage, IsEnd
  <2>3. Reached'
    BY <2>1 DEF Reached
  <2> QED
    BY <1>0, <2>2, <2>3
<1>2. CASE ~(th = 0 \/ busy \/ q = <<>>)
  <2> DEFINE t0 == Head(q).turn
  <2>1. /\ started' = Append(started, t0) /\ sent' = sent \union {t0} /\ usage' = 0
        /\ running'[proc] \subseteq running[proc] \union {t0}
        /\ NoneUnended /\ t0 \notin sent /\ fed'[t0] # 0
    BY <1>2 DEF SubmitNext, Typed, ServerTyped
  <2> HIDE DEF t0
  <2>2. started \in Seq(TurnIds)
    BY DEF Typed, HistoryTyped
  <2>3. /\ \A i \in DOMAIN started : i \in DOMAIN started' /\ started'[i] = started[i]
        /\ \E i \in DOMAIN started' : started'[i] = t0
    <3>1. /\ DOMAIN started = 1 .. Len(started) /\ Len(started) \in Nat
          /\ DOMAIN started' = 1 .. (Len(started) + 1)
          /\ started'[Len(started) + 1] = t0
          /\ \A i \in 1 .. Len(started) : started'[i] = started[i]
      BY <2>1, <2>2
    <3> QED
      BY <3>1
  <2>4. Reached'
    <3>1. \A t \in sent' : fed'[t] # 0
      BY <2>1 DEF Reached
    <3>2. \A t \in sent' : fed'[t] = proc' => \E i \in DOMAIN started' : started'[i] = t
      BY <2>1, <2>3 DEF Reached
    <3> QED
      BY <2>1, <3>1, <3>2 DEF Reached
  <2>5. \A i \in DOMAIN out[proc] : ~IsEnd(proc, i) /\ ~IsUsage(i)
    BY <2>1, Numbers DEF NoneUnended, Meter, Current
  <2>6. \A t : Current(t)' => t = t0
    BY <2>1, <2>5 DEF Current, NoneUnended, IsEnd
  <2>7. t0 \in sent' /\ t0 \notin completed /\ t0 \notin measured
    BY <2>1 DEF Reached
  <2>8. Meter'
    BY <2>1, <2>5, <2>6, <2>7 DEF Meter, IsUsage, IsEnd
  <2> QED
    BY <1>0, <2>4, <2>8
<1> QED
  BY <1>1, <1>2

LEMMA FeedBills ==
  ASSUME CodexAssumption, LineInv, Serial, Reached, Meter, Billing, Feed
  PROVE  Reached' /\ Meter' /\ Billing'
<1> DEFINE e == [turn |-> feeding, channel |-> channel]
           r == Append(queue, e)
<1>1. /\ feeding \in TurnIds /\ proc \in Pids /\ proc # 0 /\ fed \in [TurnIds -> {0} \union Pids]
      /\ queue \in Seq(Queued) /\ inFlight \in BOOLEAN /\ feeding # 0 /\ Typed
  BY Numbers DEF Feed, LineInv, Typed, ObjectTyped, TasksTyped, HistoryTyped
<1>2. e \in Queued /\ e.turn = feeding
  BY <1>1 DEF Typed, ObjectTyped, Queued
<1> HIDE DEF e
<1>3. r \in Seq(Queued) /\ r # <<>> /\ Head(r) = IF queue = <<>> THEN e ELSE Head(queue)
  BY <1>1, <1>2, AppendProperties, HeadTailAppend
<1>4. fed[feeding] = 0 /\ feeding \notin sent
  BY <1>1 DEF LineInv, FedFirst, Reached
<1>5. fed'[feeding] # 0 /\ \A t \in TurnIds : t # feeding => fed'[t] = fed[t]
  BY <1>1 DEF Feed
<1>6. Head(r).turn \notin sent /\ fed'[Head(r).turn] # 0
  <2>1. CASE queue = <<>>
    BY <1>2, <1>3, <1>4, <1>5, <2>1
  <2>2. CASE queue # <<>>
    <3>1. Head(queue).turn \notin sent /\ fed[Head(queue).turn] # 0
      BY <1>1, <2>2, FreshHead
    <3>2. Head(queue) \in Queued
      BY <1>1, <2>2
    <3>3. Head(queue).turn \in TurnIds
      BY <3>2 DEF Queued
    <3> QED
      BY <1>3, <1>4, <1>5, <2>2, <3>1, <3>3
  <2> QED
    BY <2>1, <2>2
<1>7. \A t \in sent : fed'[t] = fed[t]
  BY <1>4, <1>5, <1>1 DEF Typed, HistoryTyped
<1>8. usage' = IF thread = 0 \/ inFlight \/ r = <<>> THEN usage ELSE 0
  <2>1. Append(queue, 0) # <<>>
    OBVIOUS
  <2> QED
    BY <1>3, <2>1 DEF Feed, UsageAfter
<1>9. SubmitNext(r, thread, inFlight) /\ UNCHANGED <<proc, out, measured, completed, billed>>
  BY DEF Feed, e
<1>10. ~inFlight => NoneUnended
  BY <1>1 DEF Serial
<1> HIDE DEF r
<1> QED
  BY <1>1, <1>3, <1>6, <1>7, <1>8, <1>9, <1>10, SubmitBills

LEMMA SpawnBills ==
  ASSUME CodexAssumption, LineInv, OneProcess, Serial, Reached, Meter, Billing, Spawn, ~early'
  PROVE  Reached' /\ Meter' /\ Billing'
<1>1. /\ proc' = proc + 1 /\ proc' \in Pids /\ proc \in Nat /\ usage' = 0
      /\ UNCHANGED <<running, out, fed, sent, measured, completed, billed>>
  BY Numbers DEF Spawn, LineInv, Typed, ObjectTyped, CodexAssumption, Pids
<1>2. running'[proc'] = {} /\ DOMAIN out'[proc'] = {}
  <2>1. out'[proc'] = <<>> /\ running'[proc'] = {} /\ DOMAIN <<>> = {}
    BY <1>1, Numbers DEF OneProcess
  <2> QED
    BY <2>1
<1>3. Meter'
  BY <1>1, <1>2 DEF Meter, Current
<1>4. Reached'
  <2>1. \A t \in sent : fed[t] \in Nat /\ fed[t] <= proc
    BY Numbers DEF LineInv, FedFirst, Typed, HistoryTyped
  <2>2. \A t \in sent : fed[t] # proc + 1
    BY <1>1, <2>1
  <2> QED
    BY <1>1, <2>2 DEF Reached
<1>5. Billing'
  BY <1>1 DEF Billing
<1> QED
  BY <1>3, <1>4, <1>5

\* The output with one more frame.
LEMMA EmitOut ==
  ASSUME Typed, NEW p \in Pids, NEW kind, NEW t, Emit(p, kind, t)
  PROVE  /\ \A i \in DOMAIN out[p] : /\ i \in DOMAIN out'[p] /\ out'[p][i] = out[p][i]
                                     /\ i < Len(out[p]) + 1
         /\ \A i \in DOMAIN out'[p] : i \in DOMAIN out[p] \/ i = Len(out[p]) + 1
         /\ Len(out[p]) + 1 \in DOMAIN out'[p]
         /\ out'[p][Len(out[p]) + 1].kind = kind /\ out'[p][Len(out[p]) + 1].turn = t
<1> DEFINE f == [kind |-> kind, turn |-> t]
<1>1. f.kind = kind /\ f.turn = t
  OBVIOUS
<1>2. out[p] \in Seq(Frames) /\ out'[p] = Append(out[p], f)
  BY DEF Emit, Typed, ServerTyped
<1> HIDE DEF f
<1>3. /\ Len(out[p]) \in Nat /\ DOMAIN out[p] = 1 .. Len(out[p])
      /\ DOMAIN out'[p] = 1 .. (Len(out[p]) + 1) /\ out'[p][Len(out[p]) + 1] = f
      /\ \A i \in 1 .. Len(out[p]) : out'[p][i] = out[p][i]
  BY <1>2
<1> QED
  BY <1>1, <1>3

\* An app-server that works is the object's.
LEMMA AtWork ==
  ASSUME CodexAssumption, Typed, OneProcess, OldExited, NEW p \in Pids, life[p] = "running"
  PROVE  p = proc /\ proc # 0
BY Numbers DEF OneProcess, OldExited, Typed, ObjectTyped

LEMMA AppServerBills ==
  ASSUME CodexAssumption, Typed, OneProcess, Serial, OldExited, Reached, Meter, Billing,
         NEW p \in Pids,
         Ready(p) \/ Crash(p) \/ Works(p) \/ \E t \in TurnIds : Measure(p, t)
  PROVE  Reached' /\ Meter' /\ Billing'
<1>0. p = proc /\ proc # 0 /\ UNCHANGED <<proc, usage, fed, started, sent, completed, billed>>
  <2>1. life[p] = "running"
    BY DEF Ready, Crash, Works, End, Measure
  <2> QED
    BY <2>1, AtWork DEF Ready, Crash, Works, End, Measure, object, history
<1> DEFINE n == Len(out[p]) + 1
<1>1. CASE Crash(p)
  BY <1>1, QuietBills DEF Crash, object, history
<1>2. CASE Ready(p)
  <2>1. Emit(p, "ready", 0) /\ UNCHANGED <<running, measured>>
    BY <1>2 DEF Ready, history
  <2>2. /\ \A i \in DOMAIN out[p] : i \in DOMAIN out'[p] /\ out'[p][i] = out[p][i]
        /\ \A i \in DOMAIN out'[p] : i \in DOMAIN out[p] \/ out'[p][i].kind = "ready"
    BY <2>1, EmitOut
  <2>3. \A t : Current(t)' <=> Current(t)
    BY <1>0, <2>1, <2>2 DEF Current, IsEnd
  <2>4. Meter'
    BY <1>0, <2>1, <2>2, <2>3 DEF Meter, IsUsage, IsEnd
  <2> QED
    BY <1>0, <2>1, <2>4 DEF Reached, Billing
<1>3. ASSUME NEW t \in TurnIds, Measure(p, t)
      PROVE  Reached' /\ Meter' /\ Billing'
  <2>1. /\ Emit(p, "usage", t) /\ running' = running /\ measured' = measured \union {t}
        /\ t \in running[p]
    BY <1>3 DEF Measure
  <2>2. /\ \A i \in DOMAIN out[p] : i \in DOMAIN out'[p] /\ out'[p][i] = out[p][i]
        /\ \A i \in DOMAIN out'[p] : i \in DOMAIN out[p] \/ i = n
        /\ n \in DOMAIN out'[p] /\ out'[p][n].kind = "usage" /\ out'[p][n].turn = t
    BY <2>1, EmitOut
  <2> HIDE DEF n
  <2>3. \A u : Current(u)' <=> Current(u)
    BY <1>0, <2>1, <2>2 DEF Current, IsEnd
  <2>4. Current(t) /\ t \in sent /\ t \notin completed
    BY <1>0, <2>1 DEF Current, Meter
  <2>5. \A j \in DOMAIN out'[p] : ~IsEnd(proc, j)'
    BY <1>0, <2>1, <2>2 DEF Serial, AtMostOne, IsEnd
  <2>6. Meter'
    <3>1. ASSUME NEW u, Current(u)'
          PROVE  /\ u \in sent' /\ u \notin completed'
                 /\ u \in measured' => \/ usage' = u
                                       \/ \E i \in DOMAIN out'[proc] :
                                            IsUsage(i)' /\ out'[proc][i].turn = u
      <4>1. Current(u)
        BY <2>3, <3>1
      <4>2. CASE u = t
        BY <1>0, <2>2, <2>4, <4>2 DEF IsUsage
      <4>3. CASE u # t
        BY <1>0, <2>1, <2>2, <4>1, <4>3 DEF Meter, IsUsage
      <4> QED
        BY <4>2, <4>3
    <3>2. (\A i \in DOMAIN out[proc] : IsUsage(i) => Current(out[proc][i].turn))'
      <4>1. ASSUME NEW i \in DOMAIN out'[p], IsUsage(i)'
            PROVE  \E u : out'[p][i].turn = u /\ Current(u)'
        <5>1. Current(t)'
          BY <2>3, <2>4
        <5>2. CASE i = n
          BY <2>2, <5>1, <5>2
        <5>3. CASE i # n
          <6>1. i \in DOMAIN out[p] /\ out'[p][i] = out[p][i] /\ IsUsage(i)
            BY <1>0, <2>2, <4>1, <5>3 DEF IsUsage
          <6>2. Current(out[p][i].turn)
            BY <1>0, <6>1 DEF Meter
          <6> QED
            BY <2>3, <6>1, <6>2
        <5> QED
          BY <5>2, <5>3
      <4> QED
        BY <1>0, <4>1 DEF Current
    <3>3. usage' # 0 => \A u : Current(u)' => usage' = u
      BY <1>0, <2>3 DEF Meter
    <3> QED
      BY <1>0, <2>5, <3>1, <3>2, <3>3 DEF Meter
  <2>7. Reached' /\ Billing'
    BY <1>0, <2>1, <2>4 DEF Reached, Billing
  <2> QED
    BY <2>6, <2>7
<1>4. ASSUME NEW t \in TurnIds, NEW kind \in {"completed", "error"}, End(p, t, kind)
      PROVE  Reached' /\ Meter' /\ Billing'
  <2>1. /\ Emit(p, kind, t) /\ running' = [running EXCEPT ![p] = @ \ {t}]
        /\ measured' = measured /\ t \in running[p]
    BY <1>4 DEF End, history
  <2>2. /\ \A i \in DOMAIN out[p] : /\ i \in DOMAIN out'[p] /\ out'[p][i] = out[p][i]
                                    /\ i < n
        /\ \A i \in DOMAIN out'[p] : i \in DOMAIN out[p] \/ i = n
        /\ n \in DOMAIN out'[p] /\ out'[p][n].kind = kind /\ out'[p][n].turn = t
    BY <2>1, EmitOut
  <2> HIDE DEF n
  <2>3. running'[p] = running[p] \ {t}
    BY <2>1 DEF Typed, ServerTyped
  <2>4. \A i \in DOMAIN out[p] : ~IsEnd(p, i)
    BY <1>0, <2>1 DEF Serial, AtMostOne
  <2>5. \A u : Current(u)' <=> Current(u)
    <3>1. ASSUME NEW u, Current(u)
          PROVE  Current(u)'
      <4>1. u \in running[p]
        BY <1>0, <2>4, <3>1 DEF Current
      <4>2. CASE u = t
        BY <1>0, <2>2, <4>2 DEF Current, IsEnd
      <4>3. CASE u # t
        BY <1>0, <2>3, <4>1, <4>3 DEF Current
      <4> QED
        BY <4>2, <4>3
    <3>2. ASSUME NEW u, Current(u)'
          PROVE  Current(u)
      <4>1. u \in running'[p] \/ \E i \in DOMAIN out'[p] : IsEnd(p, i)' /\ out'[p][i].turn = u
        BY <1>0, <3>2 DEF Current
      <4>2. u \in running[p]
        BY <2>1, <2>2, <2>3, <2>4, <4>1 DEF IsEnd
      <4> QED
        BY <1>0, <4>2 DEF Current
    <3> QED
      BY <3>1, <3>2
  <2>6. Meter'
    <3>1. \A i \in DOMAIN out'[p] : IsUsage(i)' => i \in DOMAIN out[p] /\ IsUsage(i)
      BY <1>0, <2>2 DEF IsUsage
    <3>2. \A i \in DOMAIN out[p] : IsUsage(i) => IsUsage(i)'
      BY <1>0, <2>2 DEF IsUsage
    <3>3. \A j \in DOMAIN out'[p] : IsEnd(p, j)' => j = n
      BY <2>2, <2>4 DEF IsEnd
    <3> QED
      BY <1>0, <2>1, <2>2, <2>5, <3>1, <3>2, <3>3 DEF Meter
  <2> QED
    BY <1>0, <2>1, <2>6 DEF Reached, Billing
<1> QED
  BY <1>1, <1>2, <1>3, <1>4 DEF Works

\* What is left of the output when its first frame has been read.
LEMMA ReadOut ==
  ASSUME Typed, NEW p \in Pids, NEW kind, Read(p, kind)
  PROVE  /\ 1 \in DOMAIN out[p] /\ out[p][1] = Head(out[p]) /\ out[p][1].kind = kind
         /\ \A i \in DOMAIN out'[p] : /\ i \in Nat /\ i + 1 > 1 /\ i + 1 \in DOMAIN out[p]
                                      /\ out'[p][i] = out[p][i + 1]
         /\ \A j \in DOMAIN out[p] : j # 1 => \E i \in DOMAIN out'[p] : j = i + 1
<1>1. /\ out[p] \in Seq(Frames) /\ out[p] # <<>> /\ Head(out[p]).kind = kind
      /\ out'[p] = Tail(out[p])
  BY DEF Read, Typed, ServerTyped
<1>2. /\ Len(out[p]) \in Nat /\ Len(out[p]) >= 1 /\ DOMAIN out[p] = 1 .. Len(out[p])
      /\ Head(out[p]) = out[p][1] /\ DOMAIN out'[p] = 1 .. (Len(out[p]) - 1)
      /\ \A i \in 1 .. (Len(out[p]) - 1) : out'[p][i] = out[p][i + 1]
  BY <1>1
<1>3. \A j \in 1 .. Len(out[p]) : j # 1 => j - 1 \in 1 .. (Len(out[p]) - 1) /\ j = (j - 1) + 1
  BY <1>2
<1>4. \A i \in 1 .. (Len(out[p]) - 1) : i \in Nat /\ i + 1 > 1 /\ i + 1 \in 1 .. Len(out[p])
  BY <1>2
<1>5. 1 \in 1 .. Len(out[p])
  BY <1>2
<1>6. \A j \in DOMAIN out[p] : j # 1 => \E i \in DOMAIN out'[p] : j = i + 1
  <2> SUFFICES ASSUME NEW j \in DOMAIN out[p], j # 1
               PROVE  \E i \in DOMAIN out'[p] : j = i + 1
    OBVIOUS
  <2>1. j - 1 \in DOMAIN out'[p] /\ j = (j - 1) + 1
    BY <1>2, <1>3
  <2> QED
    BY <2>1
<1>7. \A i \in DOMAIN out'[p] : /\ i \in Nat /\ i + 1 > 1 /\ i + 1 \in DOMAIN out[p]
                               /\ out'[p][i] = out[p][i + 1]
  BY <1>2, <1>4
<1>8. 1 \in DOMAIN out[p] /\ out[p][1] = Head(out[p]) /\ out[p][1].kind = kind
  BY <1>1, <1>2, <1>5
<1> QED
  BY <1>6, <1>7, <1>8

\* A frame that ends no turn: a usage report is kept.
LEMMA ReadOnBills ==
  ASSUME CodexAssumption, Typed, OneProcess, Serial, Reached, Meter, Billing,
         NEW p \in Pids, ReadReady(p) \/ ReadUsage(p)
  PROVE  Reached' /\ Meter' /\ Billing'
<1>1. /\ p = proc /\ proc # 0
      /\ UNCHANGED <<proc, running, fed, started, sent, measured, completed, billed>>
  BY OnlyProc, Numbers DEF ReadReady, ReadUsage, Read, history
<1>2. PICK kind \in {"ready", "usage"} :
        /\ Read(p, kind)
        /\ \/ kind = "ready" /\ usage' = usage
           \/ kind = "usage" /\ usage' = Head(out[p]).turn
  BY DEF ReadReady, ReadUsage
<1>3. /\ 1 \in DOMAIN out[p] /\ out[p][1] = Head(out[p]) /\ out[p][1].kind = kind
      /\ \A i \in DOMAIN out'[p] : /\ i \in Nat /\ i + 1 > 1 /\ i + 1 \in DOMAIN out[p]
                                   /\ out'[p][i] = out[p][i + 1]
      /\ \A j \in DOMAIN out[p] : j # 1 => \E i \in DOMAIN out'[p] : j = i + 1
  <2>1. Read(p, kind)
    BY <1>2
  <2> QED
    BY <2>1, ReadOut
<1>4. \A t : Current(t)' <=> Current(t)
  <2>1. ~IsEnd(p, 1)
    BY <1>3 DEF IsEnd
  <2>2. ASSUME NEW t, Current(t)
        PROVE  Current(t)'
    <3>1. CASE t \in running[p]
      BY <1>1, <3>1 DEF Current
    <3>2. ASSUME NEW j \in DOMAIN out[p], IsEnd(p, j), out[p][j].turn = t
          PROVE  Current(t)'
      <4>1. PICK i \in DOMAIN out'[p] : j = i + 1
        BY <1>3, <2>1, <3>2
      <4> QED
        BY <1>1, <1>3, <3>2, <4>1 DEF Current, IsEnd
    <3> QED
      BY <1>1, <2>2, <3>1, <3>2 DEF Current
  <2>3. ASSUME NEW t, Current(t)'
        PROVE  Current(t)
    BY <1>1, <1>3, <2>3 DEF Current, IsEnd
  <2> QED
    BY <2>2, <2>3
<1>5. \A t, u : Current(t) /\ Current(u) => t = u
  BY <1>1 DEF Serial, AtMostOne, Current
<1>6. kind = "usage" => usage' = out[p][1].turn /\ Current(usage')
  BY <1>1, <1>2, <1>3 DEF Meter, IsUsage, Current
<1>7. Meter'
  <2>1. ASSUME NEW t, Current(t)', t \in measured'
        PROVE  usage' = t \/ \E i \in DOMAIN out'[proc] : IsUsage(i)' /\ out'[proc][i].turn = t
    <3>1. Current(t) /\ t \in measured
      BY <1>1, <1>4, <2>1
    <3>2. CASE kind = "usage"
      <4>1. Current(usage')
        BY <1>6, <3>2
      <4> QED
        BY <1>5, <3>1, <4>1
    <3>3. CASE kind = "ready"
      <4>1. ASSUME NEW j \in DOMAIN out[p], IsUsage(j), out[p][j].turn = t
            PROVE  \E i \in DOMAIN out'[proc] : IsUsage(i)' /\ out'[proc][i].turn = t
        <5>1. j # 1
          BY <1>1, <1>3, <3>3, <4>1 DEF IsUsage
        <5>2. PICK i \in DOMAIN out'[p] : j = i + 1
          BY <1>3, <5>1
        <5> QED
          BY <1>1, <1>3, <4>1, <5>2 DEF IsUsage
      <4> QED
        BY <1>1, <1>2, <3>1, <3>3, <4>1 DEF Meter
    <3> QED
      BY <3>2, <3>3
  <2>2. \A t : Current(t)' => t \in sent' /\ t \notin completed'
    BY <1>1, <1>4 DEF Meter
  <2>3. (\A i \in DOMAIN out[proc] : IsUsage(i) =>
           /\ Current(out[proc][i].turn)
           /\ \A j \in DOMAIN out[proc] : IsEnd(proc, j) => i < j)'
    <3>1. \A i \in DOMAIN out'[p] : IsUsage(i)' =>
            IsUsage(i + 1) /\ Current(out'[p][i].turn)
      BY <1>1, <1>3 DEF Meter, IsUsage
    <3>2. \A i, j \in DOMAIN out'[p] : IsUsage(i)' /\ IsEnd(p, j)' => i < j
      BY <1>1, <1>3 DEF Meter, IsUsage, IsEnd
    <3>3. \A i \in DOMAIN out'[p] : IsUsage(i)' => \E u : out'[p][i].turn = u /\ Current(u)'
      BY <1>4, <3>1
    <3> QED
      BY <1>1, <3>2, <3>3 DEF Current
  <2>4. usage' # 0 => \A t : Current(t)' => usage' = t
    BY <1>1, <1>2, <1>4, <1>5, <1>6 DEF Meter
  <2>5. (\A t : Current(t) =>
           /\ t \in sent /\ t \notin completed
           /\ t \in measured => \/ usage = t
                                \/ \E i \in DOMAIN out[proc] :
                                     IsUsage(i) /\ out[proc][i].turn = t)'
    BY <1>1, <2>1, <2>2
  <2>6. (usage # 0 => \A t : Current(t) => usage = t)'
    BY <2>4
  <2> QED
    BY <2>3, <2>5, <2>6 DEF Meter
<1> QED
  BY <1>1, <1>7 DEF Reached, Billing

\* The end of a turn: what was kept is its usage and charged, or it had none.
LEMMA ReadEndBills ==
  ASSUME CodexAssumption, Typed, OneProcess, Serial, Reached, Meter, Billing,
         NEW p \in Pids, ReadCompleted(p) \/ ReadError(p)
  PROVE  Reached' /\ Meter' /\ Billing'
<1>1. /\ p = proc /\ proc # 0
      /\ UNCHANGED <<proc, running, fed, started, sent, measured>>
  BY OnlyProc, Numbers DEF ReadCompleted, ReadError, Read, object, history
<1>2. PICK kind \in {"completed", "error"} : Read(p, kind)
  BY DEF ReadCompleted, ReadError
<1> DEFINE t0 == out[p][1].turn
<1>3. /\ 1 \in DOMAIN out[p] /\ t0 = Head(out[p]).turn /\ IsEnd(p, 1) /\ Current(t0)
      /\ \A i \in DOMAIN out'[p] : /\ i \in Nat /\ i + 1 > 1 /\ i + 1 \in DOMAIN out[p]
                                   /\ out'[p][i] = out[p][i + 1]
  BY <1>1, <1>2, ReadOut DEF IsEnd, Current
<1> HIDE DEF t0
<1>4. \A t : ~Current(t)'
  BY <1>1, <1>3 DEF Serial, AtMostOne, Current, IsEnd
<1>5. \A i \in DOMAIN out[p] : ~IsUsage(i)
  <2> SUFFICES ASSUME NEW i \in DOMAIN out[p], IsUsage(i)
               PROVE  FALSE
    OBVIOUS
  <2>1. i < 1
    BY <1>1, <1>3 DEF Meter
  <2>2. i \in Nat /\ i >= 1
    BY DEF Typed, ServerTyped
  <2> QED
    BY <2>1, <2>2
<1>6. Meter'
  BY <1>1, <1>3, <1>4, <1>5 DEF Meter, IsUsage
<1>7. t0 \in sent /\ t0 \notin completed /\ (t0 \in measured => usage = t0)
      /\ (usage # 0 => usage = t0)
  BY <1>1, <1>3, <1>5 DEF Meter
<1>8. CASE ReadError(p)
  <2>1. UNCHANGED <<completed, billed>>
    BY <1>8 DEF ReadError, history
  <2> QED
    BY <1>1, <1>6, <2>1 DEF Reached, Billing
<1>9. CASE ReadCompleted(p)
  <2>1. /\ completed' = completed \union {t0}
        /\ billed' = IF usage = 0 THEN billed
                     ELSE Append(billed, [turn |-> usage, channel |-> channel])
    BY <1>3, <1>9 DEF ReadCompleted, EmitUsage
  <2>2. Reached'
    BY <1>1, <1>7, <2>1 DEF Reached
  <2>3. CASE usage = 0
    <3>1. t0 \notin measured
      BY <1>3, <1>7, <2>3, Numbers DEF Reached, Typed, HistoryTyped
    <3> QED
      BY <1>1, <1>6, <2>1, <2>2, <2>3, <3>1 DEF Billing
  <2>4. CASE usage # 0
    <3> DEFINE b == [turn |-> usage, channel |-> channel]
               n == Len(billed) + 1
    <3>1. b.turn = t0 /\ b \in Queued
      BY <1>7, <2>4 DEF Typed, ObjectTyped, Queued
    <3>2. billed \in Seq(Queued) /\ billed' = Append(billed, b)
      BY <2>1, <2>4 DEF Typed, HistoryTyped
    <3> HIDE DEF b
    <3>3. /\ DOMAIN billed = 1 .. Len(billed) /\ Len(billed) \in Nat
          /\ DOMAIN billed' = 1 .. (Len(billed) + 1) /\ billed'[n] = b
          /\ \A i \in 1 .. Len(billed) : billed'[i] = billed[i]
      BY <3>1, <3>2
    <3>4. /\ \A i \in DOMAIN billed' : i \in DOMAIN billed \/ i = n
          /\ \A i \in DOMAIN billed : i \in DOMAIN billed' /\ billed'[i] = billed[i]
          /\ n \in DOMAIN billed' /\ billed'[n].turn = t0
      BY <3>1, <3>3
    <3> HIDE DEF n
    <3>5. \A i \in DOMAIN billed : billed[i].turn \in completed /\ billed[i].turn # t0
      BY <1>7 DEF Billing
    <3>6. \A i, j \in DOMAIN billed' : billed'[i].turn = billed'[j].turn => i = j
      BY <3>4, <3>5 DEF Billing
    <3>7. \A i \in DOMAIN billed' : billed'[i].turn \in completed'
      BY <2>1, <3>4, <3>5
    <3>8. \A t \in completed' \intersect measured' : \E i \in DOMAIN billed' : billed'[i].turn = t
      BY <1>1, <2>1, <3>4 DEF Billing
    <3> QED
      BY <1>6, <2>2, <3>6, <3>7, <3>8 DEF Billing
  <2> QED
    BY <2>3, <2>4
<1> QED
  BY <1>8, <1>9

\* The turn that waited is started: when the reader releases the last one, or
\* when the thread opens.
LEMMA StartBills ==
  ASSUME CodexAssumption, LineInv, OneProcess, Serial, Reached, Meter, Billing,
         NEW p \in Pids, Release(p) \/ Opened(p)
  PROVE  Reached' /\ Meter' /\ Billing'
<1>1. /\ p = proc /\ proc # 0 /\ Typed
      /\ UNCHANGED <<proc, out, fed, measured, completed, billed>>
  BY OnlyProc, Numbers DEF Release, Opened, LineInv
<1>2. queue \in Seq(Queued) /\ inFlight \in BOOLEAN
  BY <1>1 DEF Typed, ObjectTyped
<1>3. queue # <<>> => Head(queue).turn \notin sent /\ fed'[Head(queue).turn] # 0
  BY <1>1, FreshHead
<1>4. CASE Release(p)
  <2>1. /\ SubmitNext(queue, thread, FALSE) /\ NoneUnended
        /\ usage' = IF thread = 0 \/ FALSE \/ queue = <<>> THEN usage ELSE 0
    BY <1>1, <1>4 DEF Release, UsageAfter, Serial
  <2> QED
    BY <1>1, <1>2, <1>3, <2>1, SubmitBills
<1>5. CASE Opened(p)
  <2>1. /\ SubmitNext(queue, p, inFlight) /\ (~inFlight => NoneUnended)
        /\ usage' = IF p = 0 \/ inFlight \/ queue = <<>> THEN usage ELSE 0
    BY <1>1, <1>5 DEF Opened, UsageAfter, Serial
  <2> QED
    BY <1>1, <1>2, <1>3, <2>1, SubmitBills
<1> QED
  BY <1>4, <1>5

LEMMA StepExited ==
  ASSUME CodexAssumption, Typed, OldExited, [Next]_vars
  PROVE  OldExited'
<1>1. CASE Spawn
  <2>1. /\ proc' = proc + 1 /\ proc \in Nat /\ (proc # 0 => life[proc] = "exited")
        /\ life' = [life EXCEPT ![proc + 1] = "running"]
    BY <1>1, Numbers DEF Spawn, Typed, ObjectTyped
  <2>2. ASSUME NEW p \in Pids
        PROVE  /\ p < proc' => p < proc \/ (p = proc /\ proc # 0)
               /\ p > proc' => p > proc
               /\ p < proc' \/ p > proc' => p # proc + 1
    <3>1. p \in Nat /\ p # 0
      BY Numbers
    <3> QED
      BY <2>1, <3>1
  <2>3. \A p \in Pids : p # proc + 1 => life'[p] = life[p]
    BY <2>1 DEF Typed, ServerTyped
  <2> QED
    BY <2>1, <2>2, <2>3 DEF OldExited
<1>2. CASE ~Spawn
  <2>1. proc' = proc
    BY <1>2
       DEF Next, vars, object, Deliver, Feed, Stop, ReaderStops, Stopped, Ready, Crash,
           Works, End, Measure, ReadLoop, ReadReady, ReadUsage, ReadCompleted, ReadError,
           ReadEnd, Release, Handshake, Opened, Aborted
  <2>2. \/ life' = life
        \/ \E p \in Pids : life' = [life EXCEPT ![p] = "exited"] /\ life[p] = "running"
        \/ life' = [life EXCEPT ![proc] = "exited"]
    BY <1>2
       DEF Next, vars, server, Deliver, Feed, Stop, ReaderStops, Stopped, Ready, Crash,
           Works, End, Measure, ReadLoop, ReadReady, ReadUsage, ReadCompleted, ReadError,
           ReadEnd, Release, Handshake, Opened, Aborted
  <2>3. \A p \in Pids : p # proc /\ life[p] # "running" => life'[p] = life[p]
    BY <2>2 DEF Typed, ServerTyped
  <2>4. \A p \in Pids : p < proc \/ p > proc => p # proc
    BY Numbers DEF Typed, ObjectTyped
  <2> QED
    BY <2>1, <2>3, <2>4 DEF OldExited
<1> QED
  BY <1>1, <1>2

LEMMA StepBills ==
  ASSUME CodexAssumption, BillInv, [Next]_vars, ~early'
  PROVE  Reached' /\ Meter' /\ Billing'
<1>1. /\ LineInv /\ Typed /\ OldExited /\ OneProcess /\ Serial /\ Reached /\ Meter /\ Billing
  <2>1. early => early'
    BY DEF Next, vars, history, Spawn, Deliver, Feed, Stop, ReaderStops, Stopped, Ready, Crash,
       Works, End, Measure, ReadLoop, ReadReady, ReadUsage, ReadCompleted, ReadError, ReadEnd,
       Release, Handshake, Opened, Aborted
  <2> QED
    BY <2>1 DEF BillInv, SerialInv
<1>2. CASE Deliver \/ Stop \/ ReaderStops \/ Stopped \/ UNCHANGED vars
  <2>1. UNCHANGED <<proc, usage, running, out, fed, started, sent, measured, completed, billed>>
    BY <1>2 DEF Deliver, Stop, ReaderStops, Stopped, vars, object, server, history
  <2> QED
    BY <1>1, <2>1, QuietBills
<1>3. ASSUME NEW p \in Pids, ReadEnd(p) \/ Aborted(p)
      PROVE  Reached' /\ Meter' /\ Billing'
  <2>1. UNCHANGED <<proc, usage, running, out, fed, started, sent, measured, completed, billed>>
    BY <1>3 DEF ReadEnd, Aborted, server, history
  <2> QED
    BY <1>1, <2>1, QuietBills
<1> QED
  BY <1>1, <1>2, <1>3, SpawnBills, FeedBills, AppServerBills, ReadOnBills, ReadEndBills, StartBills
     DEF Next, ReadLoop, Handshake

\* Billing: whatever the order of usage reports, turn ends, errors, feeds,
\* crashes and restarts, a turn is charged at most once, and a turn that
\* completed after a usage report has been charged (as long as no process is
\* spawned while the tasks of the last one are alive).
THEOREM BilledOnceHolds ==
  ASSUME CodexAssumption
  PROVE  Spec => []BilledOnce
<1>1. Init => BillInv
  <2> SUFFICES ASSUME Init
               PROVE  BillInv
    OBVIOUS
  <2>1. SerialInv
    <3>1. OneProcess /\ Serial
      BY Numbers DEF Init, OneProcess, Serial
    <3> QED
      BY <3>1, InitTyped DEF SerialInv
  <2>2. OldExited /\ Meter
    BY Numbers DEF Init, OldExited, Meter
  <2>3. Reached /\ Billing
    <3>1. DOMAIN <<>> = {}
      OBVIOUS
    <3> QED
      BY <3>1 DEF Init, Reached, Billing
  <2> QED
    BY <2>1, <2>2, <2>3, InitLine DEF BillInv
<1>2. BillInv /\ [Next]_vars => BillInv'
  <2> SUFFICES ASSUME BillInv, [Next]_vars
               PROVE  BillInv'
    OBVIOUS
  <2>1. LineInv' /\ OldExited'
    BY StepLine, StepExited DEF BillInv, LineInv
  <2>2. SerialInv'
    BY StepTyped, StepSerial DEF BillInv, SerialInv
  <2>3. ~early' => Reached' /\ Meter' /\ Billing'
    BY StepBills
  <2> QED
    BY <2>1, <2>2, <2>3 DEF BillInv
<1>3. BillInv => BilledOnce
  BY DEF BillInv, BilledOnce, Billing
<1> QED
  BY <1>1, <1>2, <1>3, PTL DEF Spec

=============================================================================
