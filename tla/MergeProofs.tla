----------------------------- MODULE MergeProofs -----------------------------
(***************************************************************************)
(* Theorems about Merge for every set of tasks, any number of requests and *)
(* any fault budget.                                                       *)
(***************************************************************************)
EXTENDS Merge, TLAPS

-----------------------------------------------------------------------------
(* Types *)

\* A request that was made names a task, and what is on the connection, in the
\* lane or under way was requested.
Asked == {i \in Calls : call[i].at # "none"}

Named    == \A i \in Asked : call[i].task \in Tasks
UnderWay == /\ down \in Seq(Asked) /\ lane \in Seq(Asked)
            /\ \A i \in Calls : op[i].merging => i \in Asked

CallType   == [at : {"none", "accepted", "called", "sent", "lost", "over"},
               task : Tasks \union {None}]
ReportType == [task : Tasks, status : Outcomes]
OpType     == [merging : BOOLEAN, base : SUBSET Tasks]
LeftType   == [cuts : 0 .. Cuts, writes : 0 .. Writes, stops : 0 .. Stops]

\* What actions disturb separately.
RowsTyped   == /\ row \in [Tasks -> Outcomes \union {"active"}]
               /\ pending \in SUBSET Tasks
               /\ told \in [Tasks -> Outcomes \union {"nothing", "failed"}]
CallsTyped  == call \in [Calls -> CallType] /\ Named
ReportsTyped == /\ reports \in Seq(ReportType) /\ acks \in SUBSET [call : Calls, ok : BOOLEAN]
                /\ writing \in SUBSET Writings
OpsTyped    == op \in [Calls -> OpType]
RepoTyped   == /\ main \in SUBSET Tasks
               /\ tree \in [is : {"clean", "dirty", "staged", "conflict"},
                            by : Tasks \union {None}]


Typed == /\ RowsTyped /\ CallsTyped /\ ReportsTyped /\ OpsTyped /\ RepoTyped
         /\ conn \in {"up", "down"} /\ left \in LeftType
         /\ down \in Seq(Calls) /\ lane \in Seq(Calls) /\ UnderWay

LEMMA TypedIsTypeInv == Typed => TypeInv
BY DEF Typed, TypeInv, RowsTyped, CallsTyped, ReportsTyped, OpsTyped, RepoTyped,
       CallType, ReportType, OpType, LeftType

\* Sequences over a set are sequences over a larger one.
LEMMA SeqGrows ==
  ASSUME NEW S, NEW T, S \subseteq T, NEW s \in Seq(S)
  PROVE  s \in Seq(T)
OBVIOUS

\* Taking the head leaves a sequence over the same set.
LEMMA HeadTail ==
  ASSUME NEW S, NEW s \in Seq(S), s # <<>>
  PROVE  Head(s) \in S /\ Tail(s) \in Seq(S)
OBVIOUS

\* No request is unmade: what is under way stays so while the lane, the
\* connection and the operations stay.
LEMMA UnderWayStays ==
  ASSUME UnderWay, Asked \subseteq Asked',
         down' \in {down, <<>>}, lane' \in {lane, <<>>},
         \A i \in Calls : op'[i].merging => op[i].merging
  PROVE  UnderWay'
<1> DEFINE A == Asked
           B == Asked'
<1>0. down \in Seq(A) /\ lane \in Seq(A) /\ A \subseteq B
  BY DEF UnderWay
<1> HIDE DEF A, B
<1>1. down \in Seq(B) /\ lane \in Seq(B) /\ <<>> \in Seq(B)
  BY <1>0, SeqGrows
<1>2. down' \in Seq(B) /\ lane' \in Seq(B)
  BY <1>1
<1>3. \A i \in Calls : op'[i].merging => i \in Asked'
  BY DEF UnderWay
<1> QED
  BY <1>2, <1>3 DEF UnderWay, B

\* A request that moves on stays a request.
LEMMA CallMoves ==
  ASSUME CallsTyped, NEW i \in Asked,
         NEW step \in {"accepted", "called", "sent", "lost", "over"}, Moves(i, step)
  PROVE  CallsTyped' /\ Asked' = Asked
BY DEF CallsTyped, CallType, Named, Asked, Moves

\* An operation that is over reports its task.
LEMMA FinishTypes ==
  ASSUME Typed, NEW i \in Asked, NEW status \in Outcomes \union {"nothing"},
         NEW ok \in BOOLEAN, Finish(i, status, ok)
  PROVE  /\ ReportsTyped' /\ OpsTyped' /\ Asked' = Asked
         /\ \A j \in Calls : op'[j].merging => op[j].merging
<1>1. ReportsTyped /\ OpsTyped /\ i \in Calls /\ TaskOf(i) \in Tasks
  BY DEF Typed, CallsTyped, Named, TaskOf, Asked
<1>2. Resting \in OpType /\ Resting.merging = FALSE
  BY DEF OpType, Resting
<1>3. op' = [op EXCEPT ![i] = Resting]
  BY DEF Finish
<1>4. OpsTyped' /\ \A j \in Calls : op'[j].merging => op[j].merging
  BY <1>1, <1>2, <1>3 DEF OpsTyped
<1>5. Asked' = Asked
  BY DEF Finish, server, Asked
<1>6. ReportsTyped'
  <2>1. acks' \in SUBSET [call : Calls, ok : BOOLEAN]
    BY <1>1 DEF Finish, ReportsTyped
  <2>2. status \in Outcomes => [task |-> TaskOf(i), status |-> status] \in ReportType
    BY <1>1 DEF ReportType
  <2>3. reports' \in Seq(ReportType)
    BY <1>1, <2>2 DEF Finish, ReportsTyped
  <2> QED
    BY <1>1, <2>1, <2>3 DEF Finish, ReportsTyped
<1> QED
  BY <1>4, <1>5, <1>6

-----------------------------------------------------------------------------
(* The server's steps *)

LEMMA AskTyped ==
  ASSUME Typed, NEW i \in Calls, NEW t \in Tasks, Ask(i, t)
  PROVE  Typed'
<1>1. CallsTyped' /\ Asked \subseteq Asked'
  BY DEF Typed, Ask, CallsTyped, CallType, Named, Asked
<1> QED
  BY <1>1, UnderWayStays
     DEF Typed, Ask, net, daemon, repo, RowsTyped, ReportsTyped, OpsTyped, RepoTyped

LEMMA NotWrittenTyped ==
  ASSUME MergeAssumption, left \in LeftType, NotWritten
  PROVE  left' \in LeftType
BY DEF NotWritten, LeftType, MergeAssumption

\* A failure, written or not.
LEMMA FailTyped ==
  ASSUME MergeAssumption, Typed, NEW i \in Asked, FailMerge(i), row' = row
  PROVE  RowsTyped' /\ CallsTyped' /\ Asked' = Asked /\ left' \in LeftType
<1>1. CallsTyped' /\ Asked' = Asked
  BY CallMoves DEF Typed, FailMerge
<1>2. call[i].task \in Tasks
  BY DEF Typed, CallsTyped, Named
<1>3. RowsTyped'
  BY <1>2 DEF Typed, FailMerge, RowsTyped
<1>4. left' \in LeftType
  BY NotWrittenTyped DEF Typed, FailMerge
<1> QED
  BY <1>1, <1>3, <1>4

LEMMA CallingTyped ==
  ASSUME MergeAssumption, Typed, NEW i \in Calls, Calling(i)
  PROVE  Typed'
<1>1. i \in Asked /\ call[i].task \in Tasks
  BY DEF Typed, Calling, Register, Send, Offline, Asked, CallsTyped, Named
<1>2. CASE Register(i)
  <2>1. CallsTyped' /\ Asked' = Asked
    BY <1>1, <1>2, CallMoves DEF Typed, Register
  <2> QED
    BY <1>1, <1>2, <2>1, UnderWayStays
       DEF Typed, Register, net, daemon, repo, RowsTyped, ReportsTyped, OpsTyped, RepoTyped
<1>3. CASE Send(i)
  <2>1. CallsTyped' /\ Asked' = Asked
    BY <1>1, <1>3, CallMoves DEF Typed, Send
  <2>2. down' \in Seq(Calls) /\ down' \in Seq(Asked)
    BY <1>1, <1>3 DEF Typed, Send, UnderWay
  <2>3. UnderWay'
    BY <1>3, <2>1, <2>2 DEF Typed, UnderWay, Send, daemon
  <2> QED
    BY <1>3, <2>1, <2>2, <2>3
       DEF Typed, Send, daemon, repo, RowsTyped, ReportsTyped, OpsTyped, RepoTyped
<1>4. CASE Offline(i)
  <2>1. RowsTyped' /\ CallsTyped' /\ Asked' = Asked /\ left' \in LeftType
    BY <1>1, <1>4, FailTyped DEF Offline
  <2> QED
    BY <1>4, <2>1, UnderWayStays
       DEF Typed, Offline, net, daemon, repo, ReportsTyped, OpsTyped, RepoTyped
<1> QED
  BY <1>2, <1>3, <1>4 DEF Calling

LEMMA ResendTyped ==
  ASSUME MergeAssumption, Typed, NEW i \in Calls, Resend(i)
  PROVE  Typed'
<1>1. i \in Asked /\ Asked' = Asked /\ down' = Append(down, i)
  BY DEF Resend, Asked, server
<1>2. left.cuts > 0 /\ left' = [left EXCEPT !.cuts = @ - 1]
  BY DEF Resend
<1>3. left' \in LeftType
  BY <1>2 DEF Typed, LeftType, MergeAssumption
<1>4. down' \in Seq(Calls) /\ down' \in Seq(Asked)
  BY <1>1 DEF Typed, UnderWay
<1>5. UnderWay'
  BY <1>1, <1>4 DEF Typed, UnderWay, Resend, daemon
<1> QED
  BY <1>3, <1>4, <1>5
     DEF Typed, Resend, server, daemon, repo, RowsTyped, CallsTyped, Named, Asked,
         ReportsTyped, OpsTyped, RepoTyped

LEMMA AckedTyped ==
  ASSUME MergeAssumption, Typed, NEW a \in acks, Acked(a)
  PROVE  Typed'
<1>1. a.call \in Calls
  BY DEF Typed, ReportsTyped
<1>2. ReportsTyped'
  BY DEF Typed, Acked, ReportsTyped
<1>3. CASE call[a.call].at # "sent"
  BY <1>2, <1>3, UnderWayStays
     DEF Typed, Acked, daemon, repo, RowsTyped, CallsTyped, Named, Asked, OpsTyped, RepoTyped
<1>4. CASE call[a.call].at = "sent" /\ a.ok
  <2>1. a.call \in Asked
    BY <1>1, <1>4 DEF Typed, Asked, CallsTyped, Named
  <2>2. CallsTyped' /\ Asked' = Asked
    BY <1>4, <2>1, CallMoves DEF Typed, Acked
  <2>3. RowsTyped'
    BY <1>4 DEF Typed, Acked, RowsTyped
  <2> QED
    BY <1>2, <1>4, <2>2, <2>3, UnderWayStays
       DEF Typed, Acked, daemon, repo, OpsTyped, RepoTyped
<1>5. CASE call[a.call].at = "sent" /\ ~a.ok
  <2>1. a.call \in Asked
    BY <1>1, <1>5 DEF Asked
  <2>2. RowsTyped' /\ CallsTyped' /\ Asked' = Asked /\ left' \in LeftType
    BY <1>5, <2>1, FailTyped DEF Acked
  <2> QED
    BY <1>2, <2>2, UnderWayStays
       DEF Typed, Acked, daemon, repo, OpsTyped, RepoTyped
<1> QED
  BY <1>3, <1>4, <1>5

LEMMA ReadTyped ==
  ASSUME Typed, ReadStatus
  PROVE  Typed'
<1>1. Head(reports) \in ReportType /\ Tail(reports) \in Seq(ReportType)
  BY HeadTail DEF Typed, ReadStatus, ReportsTyped
<1>2. ReportsTyped'
  <2> DEFINE t == Head(reports).task
             w == [task |-> t, status |-> Head(reports).status, known |-> t \in pending,
                   stored |-> FALSE, late |-> FALSE]
  <2>1. t \in Tasks /\ Head(reports).status \in Outcomes /\ (t \in pending) \in BOOLEAN
    BY <1>1 DEF ReportType
  <2>2. w \in Writings
    BY <2>1 DEF Writings
  <2>3. writing' = writing \union {w} /\ reports' = Tail(reports) /\ acks' = acks
    BY DEF ReadStatus
  <2> QED
    BY <1>1, <2>2, <2>3 DEF Typed, ReportsTyped
<1> QED
  BY <1>2, UnderWayStays
     DEF Typed, ReadStatus, server, daemon, repo, RowsTyped, CallsTyped, Named, Asked,
         OpsTyped, RepoTyped

LEMMA WritingTyped ==
  ASSUME Typed, NEW w \in writing, Writing(w)
  PROVE  Typed'
<1>1. w \in Writings
  BY DEF Typed, ReportsTyped
<1>2. ReportsTyped'
  <2>1. [w EXCEPT !.stored = TRUE] \in Writings
    BY <1>1 DEF Writings
  <2> QED
    BY <2>1 DEF Typed, Writing, Store, Pop, net, ReportsTyped
<1>3. RowsTyped'
  BY <1>1 DEF Typed, Writing, Store, Pop, RowsTyped, Writings
<1>4. UNCHANGED <<call, conn, down, lane, op, main, tree, left>>
  BY DEF Writing, Store, Pop, net, daemon, repo
<1> QED
  BY <1>2, <1>3, <1>4, UnderWayStays
     DEF Typed, CallsTyped, Named, Asked, OpsTyped, RepoTyped

LEMMA WriteFailsTyped ==
  ASSUME MergeAssumption, Typed, NEW w \in writing, WriteFails(w)
  PROVE  Typed'
<1>1. ReportsTyped'
  BY DEF Typed, WriteFails, net, ReportsTyped
<1>2. left' \in LeftType
  BY NotWrittenTyped DEF Typed, WriteFails
<1>3. UNCHANGED <<row, pending, told, call, conn, down, lane, op, main, tree>>
  BY DEF WriteFails, server, net, daemon, repo
<1> QED
  BY <1>1, <1>2, <1>3, UnderWayStays
     DEF Typed, RowsTyped, CallsTyped, Named, Asked, OpsTyped, RepoTyped

LEMMA ConnectTyped ==
  ASSUME Typed, Connect
  PROVE  Typed'
BY UnderWayStays
   DEF Typed, Connect, daemon, repo, RowsTyped, CallsTyped, Named, Asked, ReportsTyped,
       OpsTyped, RepoTyped

\* The calls that a lost connection or a restart ends stay calls.
LEMMA CallsEnd ==
  ASSUME CallsTyped, NEW Ended \in SUBSET Asked, NEW step \in {"lost", "over"},
         call' = [i \in Calls |-> IF i \in Ended THEN [call[i] EXCEPT !.at = step] ELSE call[i]]
  PROVE  CallsTyped' /\ Asked' = Asked
<1>1. \A i \in Calls : call[i] \in CallType /\ [call[i] EXCEPT !.at = step] \in CallType
  BY DEF CallsTyped, CallType
<1>2. \A i \in Calls : /\ call'[i] \in CallType /\ call'[i].task = call[i].task
                       /\ (call'[i].at = "none") <=> (call[i].at = "none")
  BY <1>1 DEF CallType, Asked
<1>3. call' \in [Calls -> CallType] /\ Asked' = Asked
  BY <1>2 DEF Asked
<1> QED
  BY <1>2, <1>3 DEF CallsTyped, Named, Asked

\* Losing the connection empties it.
LEMMA Lost ==
  ASSUME ReportsTyped, Disconnected
  PROVE  /\ ReportsTyped' /\ conn' \in {"up", "down"}
         /\ down' = <<>> /\ down' \in Seq(Calls) 
<1>1. \A w \in Writings : [w EXCEPT !.late = TRUE] \in Writings
  BY DEF Writings
<1> QED
  BY <1>1 DEF Disconnected, ReportsTyped

LEMMA CutTyped ==
  ASSUME MergeAssumption, Typed, Cut
  PROVE  Typed'
<1>1. CallsTyped' /\ Asked' = Asked
  <2> DEFINE W == {i \in Calls : Waiting(i)}
  <2>1. W \in SUBSET Asked
    BY DEF Waiting, Asked
  <2>2. call' = [i \in Calls |-> IF i \in W THEN [call[i] EXCEPT !.at = "lost"] ELSE call[i]]
    BY DEF Cut
  <2> QED
    BY <2>1, <2>2, CallsEnd DEF Typed
<1>2. left' \in LeftType
  BY DEF Typed, Cut, LeftType, MergeAssumption
<1>3. Disconnected /\ UNCHANGED <<row, pending, told, lane, op, main, tree>>
  BY DEF Cut, daemon, repo
<1>4. UnderWay'
  BY <1>1, <1>3, Lost, UnderWayStays DEF Typed
<1> QED
  BY <1>1, <1>2, <1>3, <1>4, Lost DEF Typed, RowsTyped, OpsTyped, RepoTyped

LEMMA RestartTyped ==
  ASSUME MergeAssumption, Typed, Restart
  PROVE  Typed'
<1>1. CallsTyped' /\ Asked' = Asked
  <2>1. call' = [i \in Calls |-> IF i \in Asked THEN [call[i] EXCEPT !.at = "over"] ELSE call[i]]
    BY DEF Restart, Asked
  <2> QED
    BY <2>1, CallsEnd DEF Typed
<1>2. left' \in LeftType
  BY DEF Typed, Restart, LeftType, MergeAssumption
<1>3. /\ pending' = {} /\ UNCHANGED <<row, told, lane, op, main, tree>>
      /\ conn' = "down" /\ down' = <<>> /\ reports' = <<>> /\ acks' = {} /\ writing' = {}
  BY DEF Restart, daemon, repo
<1>4. UnderWay'
  BY <1>1, <1>3, UnderWayStays DEF Typed
<1> QED
  BY <1>1, <1>2, <1>3, <1>4 DEF Typed, RowsTyped, ReportsTyped, OpsTyped, RepoTyped

LEMMA CrashTyped ==
  ASSUME MergeAssumption, Typed, Crash
  PROVE  Typed'
<1>1. CallsTyped' /\ Asked' = Asked
  <2> DEFINE W == {i \in Calls : Waiting(i)}
  <2>1. W \in SUBSET Asked
    BY DEF Waiting, Asked
  <2>2. call' = [i \in Calls |-> IF i \in W THEN [call[i] EXCEPT !.at = "lost"] ELSE call[i]]
    BY DEF Crash
  <2> QED
    BY <2>1, <2>2, CallsEnd DEF Typed
<1>2. left' \in LeftType
  BY DEF Typed, Crash, LeftType, MergeAssumption
<1>3. /\ Disconnected /\ UNCHANGED <<row, pending, told, main, tree>>
      /\ lane' = <<>> /\ op' = [i \in Calls |-> Resting]
  BY DEF Crash, repo
<1>4. OpsTyped' /\ lane' \in Seq(Calls) /\ \A i \in Calls : op'[i].merging => op[i].merging
  BY <1>3 DEF OpsTyped, OpType, Resting
<1>5. UnderWay'
  BY <1>1, <1>3, <1>4, Lost, UnderWayStays DEF Typed
<1> QED
  BY <1>1, <1>2, <1>3, <1>4, <1>5, Lost DEF Typed, RowsTyped, RepoTyped

-----------------------------------------------------------------------------
(* The daemon's steps *)

LEMMA ReceiveTyped ==
  ASSUME Typed, Receive
  PROVE  Typed'
<1>1. /\ Head(down) \in Asked /\ Tail(down) \in Seq(Asked)
      /\ Head(down) \in Calls /\ Tail(down) \in Seq(Calls)
  BY HeadTail DEF Typed, Receive, UnderWay
<1>2. /\ down' \in Seq(Calls) /\ lane' \in Seq(Calls)
      /\ down' \in Seq(Asked) /\ lane' \in Seq(Asked)
  BY <1>1 DEF Typed, Receive, UnderWay
<1>3. Asked' = Asked
  BY DEF Receive, server, Asked
<1>4. UnderWay'
  BY <1>2, <1>3 DEF Typed, Receive, UnderWay
<1> QED
  BY <1>2, <1>4
     DEF Typed, Receive, server, repo, RowsTyped, CallsTyped, Named, Asked, ReportsTyped,
         OpsTyped, RepoTyped

\* Whose turn it is was requested.
LEMMA TurnAsked ==
  ASSUME Typed, NEW i \in Calls, Turn(i)
  PROVE  i \in Asked /\ lane' \in Seq(Calls) /\ lane' \in Seq(Asked)
BY HeadTail DEF Typed, Turn, UnderWay

\* The end of an operation keeps the types when the repository keeps its own.
LEMMA EndTyped ==
  ASSUME Typed, NEW i \in Asked, NEW status \in Outcomes \union {"nothing"},
         NEW ok \in BOOLEAN, Finish(i, status, ok), RepoTyped', left' \in LeftType,
         lane' \in Seq(Calls), lane' \in Seq(Asked)
  PROVE  Typed'
<1>1. /\ ReportsTyped' /\ OpsTyped' /\ Asked' = Asked
      /\ \A j \in Calls : op'[j].merging => op[j].merging
  BY FinishTypes
<1>2. UnderWay' /\ conn' = conn /\ down' = down
  BY <1>1 DEF Typed, Finish, UnderWay
<1>3. RowsTyped' /\ CallsTyped'
  BY DEF Typed, Finish, server, RowsTyped, CallsTyped, Named, Asked
<1> QED
  BY <1>1, <1>2, <1>3 DEF Typed

LEMMA RunningTyped ==
  ASSUME MergeAssumption, Typed, NEW i \in Calls, Running(i) \/ NotRestored(i)
  PROVE  Typed'
<1>1. CASE Begin(i)
  <2>1. i \in Asked /\ lane' \in Seq(Calls) /\ lane' \in Seq(Asked)
    BY <1>1, TurnAsked DEF Begin
  <2>2. OpsTyped' /\ op' = [op EXCEPT ![i] = [merging |-> TRUE, base |-> main]]
    BY <1>1 DEF Typed, Begin, OpsTyped, OpType, RepoTyped
  <2>3. RepoTyped'
    BY <1>1 DEF Typed, Begin, RepoTyped, Clean
  <2>4. Asked' = Asked
    BY <1>1 DEF Begin, server, Asked
  <2>5. UnderWay'
    BY <1>1, <2>1, <2>2, <2>4 DEF Typed, Begin, net, UnderWay, OpsTyped
  <2> QED
    BY <1>1, <2>1, <2>2, <2>3, <2>5
       DEF Typed, Begin, server, net, RowsTyped, CallsTyped, Named, Asked, ReportsTyped
<1>2. CASE RecoverConflict(i) \/ AlreadyMerged(i) \/ Refuse(i)
  <2>1. i \in Asked /\ lane' \in Seq(Calls) /\ lane' \in Seq(Asked)
    BY <1>2, TurnAsked DEF RecoverConflict, AlreadyMerged, Refuse
  <2>2. main' = main /\ tree' \in {tree, Clean} /\ left' = left
    BY <1>2 DEF RecoverConflict, AlreadyMerged, Refuse, repo
  <2>4. RepoTyped' /\ left' \in LeftType
    BY <2>2 DEF Typed, RepoTyped, Clean
  <2>3. \E s \in Outcomes \union {"nothing"}, ok \in BOOLEAN : Finish(i, s, ok)
    BY <1>2 DEF RecoverConflict, AlreadyMerged, Refuse, Fails, Outcomes
  <2> QED
    BY <2>1, <2>3, <2>4, EndTyped
<1>3. CASE Merged(i) \/ Conflicted(i) \/ NotMerged(i) \/ TimedOut(i)
  <2>1. i \in Asked /\ lane' \in Seq(Calls) /\ lane' \in Seq(Asked)
    BY <1>3 DEF Typed, Merged, Conflicted, NotMerged, TimedOut, UnderWay
  <2>2. main' \in {main, op[i].base} /\ tree' \in {tree, Clean} /\ left' = left
    BY <1>3 DEF Merged, Conflicted, NotMerged, TimedOut, repo
  <2>4. op[i].base \in SUBSET Tasks
    BY DEF Typed, OpsTyped, OpType
  <2>5. RepoTyped' /\ left' \in LeftType
    BY <2>2, <2>4 DEF Typed, RepoTyped, Clean
  <2>3. \E s \in Outcomes \union {"nothing"}, ok \in BOOLEAN : Finish(i, s, ok)
    BY <1>3 DEF Merged, Conflicted, NotMerged, TimedOut, Fails, Outcomes
  <2> QED
    BY <2>1, <2>3, <2>5, EndTyped
<1>4. CASE NotRestored(i)
  <2>1. i \in Asked /\ lane' \in Seq(Calls) /\ lane' \in Seq(Asked)
    BY <1>4, TurnAsked DEF Typed, NotRestored, UnderWay
  <2>2. RepoTyped' /\ left' \in LeftType
    <3>1. UNCHANGED <<main, tree>>
      BY <1>4 DEF NotRestored, repo
    <3>2. left.stops > 0 /\ left' = [left EXCEPT !.stops = @ - 1]
      BY <1>4 DEF NotRestored
    <3>3. left' \in LeftType
      BY <3>2 DEF Typed, LeftType, MergeAssumption
    <3> QED
      BY <3>1, <3>3 DEF Typed, RepoTyped
  <2>3. Finish(i, "nothing", FALSE)
    BY <1>4 DEF NotRestored, Fails
  <2> QED
    BY <2>1, <2>2, <2>3, EndTyped DEF Typed
<1> QED
  BY <1>1, <1>2, <1>3, <1>4 DEF Running

LEMMA GitTyped ==
  ASSUME Typed, NEW i \in Calls, Git(i)
  PROVE  Typed'
<1>1. TaskOf(i) \in Tasks
  BY DEF Typed, Git, UnderWay, CallsTyped, Named, TaskOf
<1>2. RepoTyped'
  BY <1>1 DEF Typed, Git, RepoTyped, Clean
<1> QED
  BY <1>2, UnderWayStays
     DEF Typed, Git, server, net, daemon, RowsTyped, CallsTyped, Named, Asked, ReportsTyped,
         OpsTyped

LEMMA InitTyped ==
  ASSUME MergeAssumption, Init
  PROVE  Typed
BY
   DEF Typed, Init, RowsTyped, CallsTyped, CallType, Named, Asked, ReportsTyped, OpsTyped, OpType,
       Resting, RepoTyped, Clean, Absent, UnderWay, LeftType, MergeAssumption

LEMMA StepTyped ==
  ASSUME MergeAssumption, Typed, [Next]_vars
  PROVE  Typed'
<1>1. CASE UNCHANGED vars
  BY <1>1, UnderWayStays
     DEF Typed, vars, server, net, daemon, repo, RowsTyped, CallsTyped, Named, Asked,
         ReportsTyped, OpsTyped, RepoTyped
<1>2. CASE Next
  BY <1>2, AskTyped, CallingTyped, ResendTyped, AckedTyped, ReadTyped, WritingTyped,
     WriteFailsTyped, ConnectTyped, CutTyped, RestartTyped, CrashTyped, ReceiveTyped, RunningTyped, GitTyped DEF Next
<1> QED
  BY <1>1, <1>2

\* Rows, requests, frames, the lane and the repository keep their types: no
\* frame, ack or operation ever names a request without a task.
THEOREM TypeCorrect ==
  ASSUME MergeAssumption
  PROVE  Spec => []TypeInv
<1>1. Init => Typed
  BY InitTyped
<1>2. Typed /\ [Next]_vars => Typed'
  BY StepTyped
<1>3. Typed => TypeInv
  BY TypedIsTypeInv
<1> QED
  BY <1>1, <1>2, <1>3, PTL DEF Spec

-----------------------------------------------------------------------------
(* What is reported merged *)

\* The server says that t was merged, or a report on its way or in hand does.
Claimed(t) == \/ row[t] = "merged" \/ told[t] = "merged"
              \/ \E k \in DOMAIN reports : reports[k] = [task |-> t, status |-> "merged"]
              \/ \E w \in writing : w.task = t /\ w.status = "merged"

\* The branch is in main, and a time-out would not take it out again.
Backed(t) == t \in main /\ \A i \in Calls : op[i].merging => t \in op[i].base

OneOperation == \A i, j \in Calls : op[i].merging /\ op[j].merging => i = j
ClaimsBacked == \A t \in Tasks : Claimed(t) => Backed(t)

\* A merge that has left something in the tree has not committed.
NotYet == \A i \in Calls : op[i].merging /\ tree # Clean => TaskOf(i) \notin main

LaneInv == OneOperation /\ ClaimsBacked /\ NotYet /\ MainRestored

NoNewClaim == \A t \in Tasks : Claimed(t)' => Claimed(t)

\* A step that leaves the repository, the operations and the requests of those
\* under way alone and claims nothing new.
Quiet == /\ UNCHANGED <<op, main, tree>> /\ NoNewClaim
         /\ \A i \in Calls : op[i].merging => TaskOf(i)' = TaskOf(i)
         /\ left'.stops = left.stops

LEMMA QuietKeeps ==
  ASSUME LaneInv, Quiet
  PROVE  LaneInv'
<1>1. OneOperation'
  BY DEF LaneInv, Quiet, OneOperation
<1>2. ClaimsBacked'
  <2>1. \A t \in Tasks : Backed(t)' <=> Backed(t)
    BY DEF Quiet, Backed
  <2> QED
    BY <2>1 DEF LaneInv, Quiet, NoNewClaim, ClaimsBacked
<1>3. NotYet' /\ MainRestored'
  BY DEF LaneInv, Quiet, NotYet, MainRestored, Clean
<1> QED
  BY <1>1, <1>2, <1>3 DEF LaneInv

\* An operation that ends claims its own task at most.
LEMMA FinishClaims ==
  ASSUME Typed, NEW i \in Calls, NEW status, NEW ok, Finish(i, status, ok),
         NEW t \in Tasks, Claimed(t)'
  PROVE  Claimed(t) \/ (t = TaskOf(i) /\ status = "merged")
<1>1. row' = row /\ told' = told /\ reports \in Seq(ReportType) /\ writing' = writing
  BY DEF Finish, server, Typed, ReportsTyped
<1>2. CASE reports' = reports
  BY <1>1, <1>2 DEF Claimed
<1>3. CASE reports' = Append(reports, [task |-> TaskOf(i), status |-> status])
  <2> DEFINE new == [task |-> TaskOf(i), status |-> status]
             claim == [task |-> t, status |-> "merged"]
  <2>1. new = claim => t = TaskOf(i) /\ status = "merged"
    OBVIOUS
  <2> HIDE DEF new, claim
  <2>2. reports' = Append(reports, new)
    BY <1>3 DEF new
  <2>3. \A k \in DOMAIN reports' : reports'[k] = claim =>
          (\E l \in DOMAIN reports : reports[l] = claim) \/ new = claim
    BY <1>1, <2>2
  <2> QED
    BY <1>1, <2>1, <2>3 DEF Claimed, claim
<1> QED
  BY <1>2, <1>3 DEF Finish

\* The end of the only operation keeps the invariant if main stays, or goes back
\* to the base of the operation, and the tree is clean unless git failed.
LEMMA EndKeeps ==
  ASSUME Typed, LaneInv, NEW i \in Calls, NEW status, NEW ok, Finish(i, status, ok),
         \A j \in Calls : op[j].merging => j = i,
         main' = main \/ (op[i].merging /\ main' = op[i].base),
         status = "merged" => TaskOf(i) \in main /\ main' = main,
         left'.stops = Stops => tree' = Clean
  PROVE  LaneInv'
<1>1. \A j \in Calls : ~op'[j].merging
  BY DEF Finish, Resting, Typed, OpsTyped
<1>2. ClaimsBacked'
  <2> SUFFICES ASSUME NEW t \in Tasks, Claimed(t)'
               PROVE  t \in main'
    BY <1>1 DEF ClaimsBacked, Backed
  <2>1. CASE Claimed(t)
    BY <2>1 DEF LaneInv, ClaimsBacked, Backed
  <2>2. CASE ~Claimed(t)
    BY <2>2, FinishClaims
  <2> QED
    BY <2>1, <2>2
<1> QED
  BY <1>1, <1>2 DEF LaneInv, OneOperation, NotYet, MainRestored

LEMMA RunningKeeps ==
  ASSUME MergeAssumption, Typed, LaneInv, NEW i \in Calls,
         Running(i) \/ NotRestored(i)
  PROVE  LaneInv'
<1>0. ASSUME Turn(i)
      PROVE  /\ \A j \in Calls : ~op[j].merging
             /\ left.stops = Stops => tree = Clean
  BY <1>0 DEF Turn, LaneInv, MainRestored
<1>1. ASSUME op[i].merging
      PROVE  \A j \in Calls : op[j].merging => j = i
  BY <1>1 DEF LaneInv, OneOperation
<1>2. CASE Begin(i)
  <2>1. /\ op' = [op EXCEPT ![i] = [merging |-> TRUE, base |-> main]]
        /\ UNCHANGED <<row, told, reports, writing, main, left>> /\ tree' = Clean
        /\ \A j \in Calls : ~op[j].merging
    BY <1>0, <1>2 DEF Begin, server, net
  <2>2. \A j \in Calls : op'[j].merging => j = i /\ op'[j].base = main
    BY <2>1 DEF Typed, OpsTyped, OpType
  <2>3. \A t \in Tasks : Claimed(t)' => Claimed(t)
    BY <2>1 DEF Claimed
  <2>4. ClaimsBacked'
    BY <2>1, <2>2, <2>3 DEF LaneInv, ClaimsBacked, Backed
  <2> QED
    BY <2>1, <2>2, <2>4 DEF LaneInv, OneOperation, NotYet, MainRestored, Clean
<1>3. CASE RecoverConflict(i)
  BY <1>0, <1>3, EndKeeps DEF RecoverConflict
<1>4. CASE AlreadyMerged(i)
  BY <1>0, <1>4, EndKeeps DEF AlreadyMerged, repo, Fails
<1>5. CASE Refuse(i)
  BY <1>0, <1>5, EndKeeps DEF Refuse, repo, Fails
<1>6. CASE Merged(i)
  <2>1. tree = Clean
    BY <1>6 DEF Merged, LaneInv, NotYet
  <2> QED
    BY <1>1, <1>6, <2>1, EndKeeps DEF Merged, repo
<1>7. CASE Conflicted(i)
  BY <1>1, <1>7, EndKeeps DEF Conflicted
<1>8. CASE NotMerged(i)
  BY <1>1, <1>8, EndKeeps DEF NotMerged, Fails
<1>9. CASE TimedOut(i)
  BY <1>1, <1>9, EndKeeps DEF TimedOut, Fails
<1>10. CASE NotRestored(i)
  <2>1. left'.stops # Stops
    <3>1. left.stops > 0 /\ left' = [left EXCEPT !.stops = @ - 1]
      BY <1>10 DEF NotRestored
    <3> QED
      BY <3>1 DEF Typed, LeftType, MergeAssumption
  <2>2. main' = main /\ Finish(i, "nothing", FALSE)
    BY <1>10 DEF NotRestored, repo, Fails
  <2>3. \A j \in Calls : op[j].merging => j = i
    BY <1>0, <1>1, <1>10 DEF NotRestored
  <2> QED
    BY <2>1, <2>2, <2>3, EndKeeps
<1> QED
  BY <1>2, <1>3, <1>4, <1>5, <1>6, <1>7, <1>8, <1>9, <1>10 DEF Running

LEMMA GitKeeps ==
  ASSUME Typed, LaneInv, NEW i \in Calls, Git(i)
  PROVE  LaneInv'
<1>1. /\ op[i].merging /\ TaskOf(i) \notin main /\ main \subseteq main'
      /\ UNCHANGED <<row, told, reports, writing, op, call, left>>
  BY DEF Git, server, net, daemon
<1>2. \A j \in Calls : op[j].merging => j = i
  BY <1>1 DEF LaneInv, OneOperation
<1>3. \A t \in Tasks : Claimed(t)' => Claimed(t)
  BY <1>1 DEF Claimed
<1>4. OneOperation' /\ ClaimsBacked'
  BY <1>1, <1>3 DEF LaneInv, OneOperation, ClaimsBacked, Backed
<1>5. TaskOf(i)' = TaskOf(i)
  BY <1>1 DEF TaskOf
<1>6. tree' # Clean => tree'.by = TaskOf(i) /\ main' = main
  BY DEF Git, Clean
<1>7. NotYet' /\ MainRestored'
  <2>1. NotYet'
    BY <1>1, <1>2, <1>5, <1>6 DEF NotYet, Clean
  <2>2. MainRestored'
    BY <1>1, <1>5, <1>6 DEF MainRestored, Clean
  <2> QED
    BY <2>1, <2>2
<1> QED
  BY <1>4, <1>7 DEF LaneInv

\* A status in hand says the same when its connection is gone.
LEMMA LateClaims ==
  ASSUME Typed, writing' = {[w EXCEPT !.late = TRUE] : w \in writing}, NEW t \in Tasks,
         NEW v \in writing', v.task = t, v.status = "merged"
  PROVE  \E w \in writing : w.task = t /\ w.status = "merged"
BY DEF Typed, ReportsTyped, Writings

LEMMA CrashKeeps ==
  ASSUME MergeAssumption, Typed, LaneInv, Crash
  PROVE  LaneInv'
<1>1. \A j \in Calls : ~op'[j].merging
  BY DEF Crash, Resting
<1>2. left.stops > 0 /\ left' = [left EXCEPT !.stops = @ - 1]
  BY DEF Crash
<1>3. left'.stops # Stops
  BY <1>2 DEF Typed, LeftType, MergeAssumption
<1>4. /\ row' = row /\ told' = told /\ reports' = <<>> /\ main' = main
      /\ writing' = {[w EXCEPT !.late = TRUE] : w \in writing}
  BY DEF Crash, Disconnected, repo
<1>5. \A t \in Tasks : Claimed(t)' => Claimed(t)
  BY <1>4, LateClaims DEF Claimed
<1> QED
  BY <1>1, <1>3, <1>4, <1>5
     DEF LaneInv, OneOperation, ClaimsBacked, Backed, NotYet, MainRestored

-----------------------------------------------------------------------------
(* The quiet steps *)

\* A status that is read was claimed already.
LEMMA ReadQuiet ==
  ASSUME Typed, ReadStatus
  PROVE  NoNewClaim
<1> DEFINE r == Head(reports)
<1>1. /\ r \in ReportType /\ r = reports[1] /\ 1 \in DOMAIN reports
      /\ \A k \in DOMAIN Tail(reports) :
           k + 1 \in DOMAIN reports /\ Tail(reports)[k] = reports[k + 1]
  BY DEF Typed, ReportsTyped, ReadStatus
<1>2. /\ row' = row /\ told' = told /\ reports' = Tail(reports)
      /\ \A w \in writing' : w \in writing \/ (w.task = r.task /\ w.status = r.status)
  BY DEF ReadStatus, server
<1>3. r = [task |-> r.task, status |-> r.status]
  BY <1>1 DEF ReportType
<1> HIDE DEF r
<1> SUFFICES ASSUME NEW t \in Tasks, Claimed(t)'
             PROVE  Claimed(t)
  BY DEF NoNewClaim
<1>4. CASE row'[t] = "merged" \/ told'[t] = "merged"
  BY <1>2, <1>4 DEF Claimed
<1>5. CASE \E k \in DOMAIN reports' : reports'[k] = [task |-> t, status |-> "merged"]
  BY <1>1, <1>2, <1>5 DEF Claimed
<1>6. CASE \E w \in writing' : w.task = t /\ w.status = "merged"
  BY <1>1, <1>2, <1>3, <1>6 DEF Claimed
<1> QED
  BY <1>4, <1>5, <1>6 DEF Claimed

\* What a writer stores it had in hand.
LEMMA WritingQuiet ==
  ASSUME Typed, NEW w \in writing, Writing(w)
  PROVE  NoNewClaim
<1>1. w \in Writings /\ reports' = reports
  BY DEF Typed, ReportsTyped, Writing, Store, Pop, net
<1>2. \A v \in writing' : v \in writing \/ (v.task = w.task /\ v.status = w.status)
  BY <1>1 DEF Writing, Store, Pop, Writings
<1> SUFFICES ASSUME NEW t \in Tasks, Claimed(t)'
             PROVE  Claimed(t)
  BY DEF NoNewClaim
<1>3. CASE row'[t] = "merged" \/ told'[t] = "merged"
  <2>1. CASE row[t] = "merged" \/ told[t] = "merged"
    BY <2>1 DEF Claimed
  <2>2. CASE ~(row[t] = "merged" \/ told[t] = "merged")
    <3>1. w.task = t /\ w.status = "merged"
      BY <1>1, <1>3, <2>2 DEF Writing, Store, Pop, Typed, RowsTyped, Writings
    <3> QED
      BY <3>1 DEF Claimed
  <2> QED
    BY <2>1, <2>2
<1>4. CASE \E k \in DOMAIN reports' : reports'[k] = [task |-> t, status |-> "merged"]
  BY <1>1, <1>4 DEF Claimed
<1>5. CASE \E v \in writing' : v.task = t /\ v.status = "merged"
  BY <1>2, <1>5 DEF Claimed
<1> QED
  BY <1>3, <1>4, <1>5 DEF Claimed

\* A failure that is announced claims nothing.
LEMMA FailClaims ==
  ASSUME Typed, NEW i \in Calls, FailMerge(i), row' = row, reports' = reports,
         writing' = writing
  PROVE  NoNewClaim
BY DEF Typed, RowsTyped, FailMerge, NoNewClaim, Claimed

LEMMA StepQuiet ==
  ASSUME MergeAssumption, Typed,
         \/ ReadStatus \/ Connect \/ Cut \/ Restart \/ Receive
         \/ \E a \in acks : Acked(a)
         \/ \E w \in writing : Writing(w) \/ WriteFails(w)
         \/ \E i \in Calls : Calling(i) \/ Resend(i) \/ \E t \in Tasks : Ask(i, t)
         \/ UNCHANGED vars
  PROVE  Quiet
<1>1. UNCHANGED <<op, main, tree>>
  BY DEF ReadStatus, Writing, Store, Pop, WriteFails, Connect, Cut, Restart, Receive, Acked,
         Calling, Register, Send, Offline, Resend, Ask, vars, daemon, repo
<1>2. left'.stops = left.stops
  BY DEF ReadStatus, Writing, Store, Pop, WriteFails, Connect, Cut, Restart, Receive, Acked,
         Calling, Register, Send, Offline, Resend, Ask, FailMerge, NotWritten, vars, Typed,
         LeftType
<1>3. NoNewClaim
  <2>1. CASE ReadStatus
    BY <2>1, ReadQuiet
  <2>2. ASSUME NEW w \in writing, Writing(w) \/ WriteFails(w)
        PROVE  NoNewClaim
    <3>1. CASE WriteFails(w)
      <4>1. row' = row /\ told' = told /\ reports' = reports /\ writing' \subseteq writing
        BY <3>1 DEF WriteFails, server, net
      <4> QED
        BY <4>1 DEF NoNewClaim, Claimed
    <3> QED
      BY <2>2, <3>1, WritingQuiet
  <2>3. CASE \/ Connect \/ Receive \/ UNCHANGED vars
             \/ \E i \in Calls : Resend(i) \/ \E t \in Tasks : Ask(i, t)
    <3>1. UNCHANGED <<row, told, reports, writing>>
      BY <2>3 DEF Connect, Receive, Resend, Ask, vars, server, net
    <3> QED
      BY <3>1 DEF NoNewClaim, Claimed
  <2>4. CASE Cut
    <3>1. /\ row' = row /\ told' = told /\ reports' = <<>>
          /\ writing' = {[w EXCEPT !.late = TRUE] : w \in writing}
      BY <2>4 DEF Cut, Disconnected
    <3> QED
      BY <3>1, LateClaims DEF NoNewClaim, Claimed
  <2>5. CASE Restart
    <3>1. row' = row /\ told' = told /\ reports' = <<>> /\ writing' = {}
      BY <2>5 DEF Restart
    <3> QED
      BY <3>1 DEF NoNewClaim, Claimed
  <2>6. ASSUME NEW a \in acks, Acked(a)
        PROVE  NoNewClaim
    <3>1. a.call \in Calls
      BY DEF Typed, ReportsTyped
    <3>2. row' = row /\ reports' = reports /\ writing' = writing
      BY <2>6 DEF Acked
    <3>3. told' = told \/ FailMerge(a.call)
      BY <2>6 DEF Acked
    <3> QED
      BY <3>1, <3>2, <3>3, FailClaims DEF NoNewClaim, Claimed
  <2>7. ASSUME NEW i \in Calls, Calling(i)
        PROVE  NoNewClaim
    <3>1. /\ row' = row /\ reports' = reports /\ writing' = writing
          /\ told' = told \/ FailMerge(i)
      BY <2>7 DEF Calling, Register, Send, Offline, net
    <3> QED
      BY <3>1, FailClaims DEF NoNewClaim, Claimed
  <2> QED
    BY <2>1, <2>2, <2>3, <2>4, <2>5, <2>6, <2>7
<1>4. \A i \in Calls : op[i].merging => TaskOf(i)' = TaskOf(i)
  <2> SUFFICES ASSUME NEW i \in Calls, i \in Asked
               PROVE  call'[i].task = call[i].task
    BY DEF Typed, UnderWay, TaskOf
  <2>1. CASE \/ ReadStatus \/ Connect \/ Receive \/ UNCHANGED vars
             \/ (\E w \in writing : Writing(w) \/ WriteFails(w))
             \/ (\E j \in Calls : Resend(j))
    BY <2>1 DEF ReadStatus, Writing, Store, Pop, WriteFails, Connect, Receive, Resend, vars,
       server
  <2>2. CASE Cut
    BY <2>2 DEF Cut, Typed, CallsTyped, CallType
  <2>3. CASE Restart
    BY <2>3 DEF Restart, Typed, CallsTyped, CallType
  <2>4. ASSUME NEW a \in acks, Acked(a)
        PROVE  call'[i].task = call[i].task
    BY <2>4 DEF Acked, FailMerge, Moves, Typed, CallsTyped, CallType
  <2>5. ASSUME NEW j \in Calls, Calling(j)
        PROVE  call'[i].task = call[i].task
    BY <2>5 DEF Calling, Register, Send, Offline, FailMerge, Moves, Typed, CallsTyped, CallType
  <2>6. ASSUME NEW j \in Calls, NEW t \in Tasks, Ask(j, t)
        PROVE  call'[i].task = call[i].task
    BY <2>6 DEF Ask, Asked, Typed, CallsTyped, CallType
  <2> QED
    BY <2>1, <2>2, <2>3, <2>4, <2>5, <2>6
<1> QED
  BY <1>1, <1>2, <1>3, <1>4 DEF Quiet

-----------------------------------------------------------------------------

LEMMA InitLane ==
  ASSUME MergeAssumption, Init
  PROVE  LaneInv
<1>1. \A i \in Calls : ~op[i].merging
  BY DEF Init, Resting
<1>2. reports = <<>> /\ writing = {} /\ \A t \in Tasks : row[t] = "active" /\ told[t] = "nothing"
  BY DEF Init
<1>3. \A t \in Tasks : ~Claimed(t)
  <2>1. \A k : k \notin DOMAIN reports
    BY <1>2
  <2>2. \A t \in Tasks : row[t] # "merged" /\ told[t] # "merged"
    BY <1>2
  <2> QED
    BY <1>2, <2>1, <2>2 DEF Claimed
<1> QED
  BY <1>1, <1>3 DEF Init, LaneInv, OneOperation, ClaimsBacked, NotYet, MainRestored

LEMMA StepLane ==
  ASSUME MergeAssumption, Typed, LaneInv, [Next]_vars
  PROVE  LaneInv'
<1>1. CASE Crash
  BY <1>1, CrashKeeps
<1>2. ASSUME NEW i \in Calls, Running(i) \/ NotRestored(i)
      PROVE  LaneInv'
  BY <1>2, RunningKeeps
<1>3. ASSUME NEW i \in Calls, Git(i)
      PROVE  LaneInv'
  BY <1>3, GitKeeps
<1>4. CASE \/ ReadStatus \/ Connect \/ Cut \/ Restart \/ Receive
           \/ \E a \in acks : Acked(a)
           \/ \E w \in writing : Writing(w) \/ WriteFails(w)
           \/ \E i \in Calls : Calling(i) \/ Resend(i) \/ \E t \in Tasks : Ask(i, t)
           \/ UNCHANGED vars
  BY <1>4, StepQuiet, QuietKeeps
<1> QED
  BY <1>1, <1>2, <1>3, <1>4 DEF Next

\* Whatever is lost, resent, timed out or restarted, in any number of requests:
\* a row or an announcement that says merged is true of the repository.
THEOREM MergedStaysTrue ==
  ASSUME MergeAssumption
  PROVE  Spec => []MergedIsTrue
<1>1. Init => Typed /\ LaneInv
  BY InitTyped, InitLane
<1>2. Typed /\ LaneInv /\ [Next]_vars => Typed' /\ LaneInv'
  BY StepTyped, StepLane
<1>3. LaneInv => MergedIsTrue
  BY DEF LaneInv, ClaimsBacked, Claimed, Backed, MergedIsTrue
<1> QED
  BY <1>1, <1>2, <1>3, PTL DEF Spec

\* The main working tree is given back clean by every operation, unless the
\* daemon died or git failed to restore it.
THEOREM TreeGivenBack ==
  ASSUME MergeAssumption
  PROVE  Spec => []MainRestored
<1>1. Init => Typed /\ LaneInv
  BY InitTyped, InitLane
<1>2. Typed /\ LaneInv /\ [Next]_vars => Typed' /\ LaneInv'
  BY StepTyped, StepLane
<1>3. LaneInv => MainRestored
  BY DEF LaneInv
<1> QED
  BY <1>1, <1>2, <1>3, PTL DEF Spec

=============================================================================
