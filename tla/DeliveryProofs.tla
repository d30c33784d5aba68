--------------------------- MODULE DeliveryProofs ---------------------------
(***************************************************************************)
(* What the delivery engine guarantees for any number of messages, faults  *)
(* and requests: its types; when the read position goes back and when a    *)
(* message is fed again; and, when ids become visible in order, that what  *)
(* is marked read was handed to the process and that the engine implements *)
(* Inbox.                                                                  *)
(***************************************************************************)
EXTENDS Delivery, TLAPS, WellFoundedInduction

-----------------------------------------------------------------------------
(* Sets of ids and sequences *)

\* A nonempty set of ids has a greatest element, which Top chooses.
LEMMA Greatest ==
  ASSUME NEW n \in Nat, NEW S, S \subseteq 1 .. n, S # {}
  PROVE  \E m \in S : \A k \in S : k <= m
<1> DEFINE T == {n - m : m \in S}
           R == OpToRel(<, Nat)
<1>1. T \subseteq Nat /\ T # {}
  <2>1. \A m \in S : n - m \in Nat
    OBVIOUS
  <2> QED
    BY <2>1
<1>2. IsWellFoundedOn(R, Nat)
  BY NatLessThanWellFounded
<1>3. PICK x \in T : \A y \in T : <<y, x>> \notin R
  <2> HIDE DEF T, R
  <2> QED
    BY <1>1, <1>2, WFMin
<1>4. \A y \in T : ~(y < x)
  BY <1>1, <1>3 DEF OpToRel
<1>5. PICK m \in S : x = n - m
  OBVIOUS
<1>6. \A k \in S : ~(n - k < n - m)
  BY <1>4, <1>5
<1>7. ASSUME NEW k \in S
      PROVE  k <= m
  <2> HIDE DEF T, R
  <2>1. k \in 1 .. n /\ m \in 1 .. n
    OBVIOUS
  <2> QED
    BY <1>6, <2>1
<1> QED
  BY <1>7

LEMMA TopIsGreatest ==
  ASSUME DeliveryAssumption, NEW S, S \subseteq Ids, S # {}
  PROVE  /\ Top(S) \in S /\ Top(S) \in Ids
         /\ \A k \in S : k <= Top(S)
<1>1. \E m \in S : \A k \in S : k <= m
  BY Greatest DEF DeliveryAssumption, Ids
<1> QED
  BY <1>1 DEF Top

\* Where the elements of an appended, shortened or joined sequence come from.
LEMMA Appended ==
  ASSUME NEW S, NEW s \in Seq(S), NEW x \in S
  PROVE  /\ Append(s, x) \in Seq(S) /\ Append(s, x) # <<>>
         /\ \A i \in DOMAIN Append(s, x) :
              Append(s, x)[i] = x \/ (i \in DOMAIN s /\ Append(s, x)[i] = s[i])
         /\ s # <<>> => Head(Append(s, x)) = Head(s)
OBVIOUS

LEMMA Shortened ==
  ASSUME NEW S, NEW s \in Seq(S), s # <<>>
  PROVE  /\ Head(s) = s[1] /\ 1 \in DOMAIN s /\ Head(s) \in S /\ Tail(s) \in Seq(S)
         /\ \A i \in DOMAIN Tail(s) : i + 1 \in DOMAIN s /\ Tail(s)[i] = s[i + 1] /\ i + 1 # 1
         /\ \A i \in DOMAIN s : i # 1 => i - 1 \in DOMAIN Tail(s) /\ Tail(s)[i - 1] = s[i]
OBVIOUS

LEMMA Joined ==
  ASSUME NEW S, NEW s \in Seq(S), NEW t \in Seq(S)
  PROVE  /\ s \o t \in Seq(S)
         /\ \A i \in DOMAIN s : i \in DOMAIN (s \o t) /\ (s \o t)[i] = s[i]
         /\ \A i \in DOMAIN t : Len(s) + i \in DOMAIN (s \o t) /\ (s \o t)[Len(s) + i] = t[i]
         /\ \A i \in DOMAIN (s \o t) :
              \/ i \in DOMAIN s
              \/ \E j \in DOMAIN t : i = Len(s) + j
<1>1. s \o t \in Seq(S) /\ Len(s \o t) = Len(s) + Len(t)
  OBVIOUS
<1>2. /\ DOMAIN s = 1 .. Len(s) /\ DOMAIN t = 1 .. Len(t) /\ Len(s) \in Nat /\ Len(t) \in Nat
      /\ DOMAIN (s \o t) = 1 .. (Len(s) + Len(t))
  BY <1>1
<1>3. ASSUME NEW i \in 1 .. (Len(s) + Len(t))
      PROVE  (s \o t)[i] = IF i <= Len(s) THEN s[i] ELSE t[i - Len(s)]
  OBVIOUS
<1>4. ASSUME NEW i \in DOMAIN s
      PROVE  i \in DOMAIN (s \o t) /\ (s \o t)[i] = s[i]
  BY <1>2, <1>3
<1>5. ASSUME NEW i \in DOMAIN t
      PROVE  Len(s) + i \in DOMAIN (s \o t) /\ (s \o t)[Len(s) + i] = t[i]
  BY <1>2, <1>3
<1>6. ASSUME NEW i \in DOMAIN (s \o t), i \notin DOMAIN s
      PROVE  \E j \in DOMAIN t : i = Len(s) + j
  <2>1. i - Len(s) \in DOMAIN t /\ i = Len(s) + (i - Len(s))
    BY <1>2, <1>6
  <2> QED
    BY <2>1
<1> QED
  BY <1>1, <1>4, <1>5, <1>6

-----------------------------------------------------------------------------
(* Acks on the way to the server *)

Frames == Statuses \cup Acks

NoAck(q)  == \A i \in DOMAIN q : q[i] \notin Acks
OneAck(q) == \E i \in DOMAIN q : /\ q[i] \in Acks
                                 /\ \A j \in DOMAIN q : q[j] \in Acks => j = i
Done(q)   == \E i \in DOMAIN q : q[i] = "done"

\* Statuses appended to the frames add no ack.
LEMMA Quietly ==
  ASSUME NEW s \in Seq(Frames), NEW t \in Seq(Frames), NoAck(t)
  PROVE  /\ NoAck(s) => NoAck(s \o t)
         /\ OneAck(s) => OneAck(s \o t)
         /\ Done(s \o t) => Done(s)
<1>1. \A i \in DOMAIN (s \o t) : (s \o t)[i] \in Acks => i \in DOMAIN s
  BY Joined DEF NoAck
<1>2. \A i \in DOMAIN s : i \in DOMAIN (s \o t) /\ (s \o t)[i] = s[i]
  BY Joined
<1>3. NoAck(s) => NoAck(s \o t)
  BY <1>1, <1>2 DEF NoAck
<1>4. OneAck(s) => OneAck(s \o t)
  BY <1>1, <1>2 DEF OneAck
<1>5. Done(s \o t) => Done(s)
  BY <1>1, <1>2 DEF Done, Acks
<1> QED
  BY <1>3, <1>4, <1>5

\* One answer appended to frames without an ack is the only one.
LEMMA Answered ==
  ASSUME NEW s \in Seq(Frames), NEW t \in Seq(Frames), NoAck(s), OneAck(t)
  PROVE  OneAck(s \o t)
<1>1. PICK i \in DOMAIN t : t[i] \in Acks /\ \A j \in DOMAIN t : t[j] \in Acks => j = i
  BY DEF OneAck
<1>2. Len(s) + i \in DOMAIN (s \o t) /\ (s \o t)[Len(s) + i] \in Acks
  BY <1>1, Joined
<1>3. ASSUME NEW k \in DOMAIN (s \o t), (s \o t)[k] \in Acks
      PROVE  k = Len(s) + i
  <2>1. k \notin DOMAIN s
    BY <1>3, Joined DEF NoAck
  <2>2. PICK j \in DOMAIN t : k = Len(s) + j
    BY <2>1, Joined
  <2>3. t[j] \in Acks
    BY <1>3, <2>2, Joined
  <2> QED
    BY <1>1, <2>2, <2>3
<1> QED
  BY <1>2, <1>3 DEF OneAck

\* A status taken from the front takes no ack with it.
LEMMA ReadOff ==
  ASSUME NEW s \in Seq(Frames), s # <<>>, Head(s) \in Statuses
  PROVE  /\ Tail(s) \in Seq(Frames)
         /\ NoAck(s) => NoAck(Tail(s))
         /\ OneAck(s) => OneAck(Tail(s))
         /\ Done(Tail(s)) => Done(s)
<1>1. s[1] \notin Acks
  BY Shortened DEF Statuses, Acks
<1>2. /\ Tail(s) \in Seq(Frames)
      /\ \A i \in DOMAIN Tail(s) : i + 1 \in DOMAIN s /\ Tail(s)[i] = s[i + 1]
      /\ \A i \in DOMAIN s : i # 1 => i - 1 \in DOMAIN Tail(s) /\ Tail(s)[i - 1] = s[i]
      /\ \A i \in DOMAIN Tail(s) : i \in Int
  BY Shortened
<1>3. NoAck(s) => NoAck(Tail(s))
  BY <1>2 DEF NoAck
<1>4. Done(Tail(s)) => Done(s)
  BY <1>2 DEF Done
<1>5. ASSUME OneAck(s)
      PROVE  OneAck(Tail(s))
  <2>1. PICK i \in DOMAIN s : s[i] \in Acks /\ \A j \in DOMAIN s : s[j] \in Acks => j = i
    BY <1>5 DEF OneAck
  <2>2. i - 1 \in DOMAIN Tail(s) /\ Tail(s)[i - 1] \in Acks
    BY <1>1, <1>2, <2>1
  <2>3. ASSUME NEW k \in DOMAIN Tail(s), Tail(s)[k] \in Acks
        PROVE  k = i - 1
    BY <1>2, <2>1, <2>3
  <2> QED
    BY <2>2, <2>3 DEF OneAck
<1> QED
  BY <1>2, <1>3, <1>4, <1>5

\* When the only ack has been taken out, none is left.
LEMMA Taken ==
  ASSUME up \in Seq(Frames), OneAck(up), NEW i \in DOMAIN up, up[i] \in Acks
  PROVE  Drop(i) \in Seq(Frames) /\ NoAck(Drop(i))
<1> DEFINE a == SubSeq(up, 1, i - 1)
           b == SubSeq(up, i + 1, Len(up))
<1>1. i \in 1 .. Len(up) /\ Len(up) \in Nat /\ DOMAIN up = 1 .. Len(up)
  OBVIOUS
<1>2. \A j \in DOMAIN up : j # i => up[j] \notin Acks
  BY DEF OneAck
<1>3. a \in Seq(Frames) /\ NoAck(a)
  <2>1. a \in Seq(Frames) /\ Len(a) = i - 1 /\ \A k \in 1 .. (i - 1) : a[k] = up[k]
    BY <1>1
  <2> QED
    BY <1>1, <1>2, <2>1 DEF NoAck
<1>4. b \in Seq(Frames) /\ NoAck(b)
  <2>1. /\ b \in Seq(Frames) /\ Len(b) = Len(up) - i
        /\ \A k \in 1 .. (Len(up) - i) : b[k] = up[k + i]
    BY <1>1
  <2> QED
    BY <1>1, <1>2, <2>1 DEF NoAck
<1> HIDE DEF a, b
<1>5. a \o b \in Seq(Frames) /\ NoAck(a \o b)
  BY <1>3, <1>4, Quietly, Joined
<1> QED
  BY <1>5 DEF Drop, a, b

LEMMA DoneOf ==
  ASSUME NEW s \in Seq(Frames), NEW t \in Seq(Frames)
  PROVE  Done(s \o t) => Done(s) \/ Done(t)
<1> SUFFICES ASSUME NEW i \in DOMAIN (s \o t), (s \o t)[i] = "done"
             PROVE  Done(s) \/ Done(t)
  BY DEF Done
<1>1. CASE i \in DOMAIN s
  BY <1>1, Joined DEF Done
<1>2. ASSUME NEW j \in DOMAIN t, i = Len(s) + j
      PROVE  Done(t)
  BY <1>2, Joined DEF Done
<1> QED
  BY <1>1, <1>2, Joined

\* What the handlers tell.
LEMMA Reports ==
  /\ <<"starting", "idle">> \in Seq(Frames) /\ NoAck(<<"starting", "idle">>)
  /\ \A s \in Statuses : <<s>> \in Seq(Frames) /\ NoAck(<<s>>)
  /\ \A a \in Acks : <<a>> \in Seq(Frames) /\ OneAck(<<a>>)
  /\ \A s \in Statuses : <<s, "done">> \in Seq(Frames) /\ OneAck(<<s, "done">>)
  /\ <<"starting", "idle", "done">> \in Seq(Frames) /\ OneAck(<<"starting", "idle", "done">>)
  /\ ~Done(<<"noop">>)
<1>1. <<"starting", "idle">> \in Seq(Frames) /\ NoAck(<<"starting", "idle">>)
  BY DEF Frames, Statuses, Acks, NoAck
<1>2. \A s \in Statuses : <<s>> \in Seq(Frames) /\ NoAck(<<s>>)
  BY DEF Frames, Statuses, Acks, NoAck
<1>3. \A a \in Acks : <<a>> \in Seq(Frames) /\ OneAck(<<a>>)
  BY DEF Frames, Statuses, Acks, OneAck
<1>4. ASSUME NEW s \in Statuses
      PROVE  <<s, "done">> \in Seq(Frames) /\ OneAck(<<s, "done">>)
  <2>1. /\ <<s, "done">> \in Seq(Frames) /\ 2 \in DOMAIN <<s, "done">>
        /\ <<s, "done">>[2] = "done" /\ <<s, "done">>[1] = s /\ s \notin Acks
        /\ \A j \in DOMAIN <<s, "done">> : j = 1 \/ j = 2
    BY DEF Frames, Statuses, Acks
  <2> QED
    BY <2>1 DEF OneAck, Acks
<1>5. <<"starting", "idle", "done">> \in Seq(Frames) /\ OneAck(<<"starting", "idle", "done">>)
  <2> DEFINE t == <<"starting", "idle", "done">>
  <2>1. /\ t \in Seq(Frames) /\ 3 \in DOMAIN t
        /\ t[1] = "starting" /\ t[2] = "idle" /\ t[3] = "done"
        /\ \A j \in DOMAIN t : j = 1 \/ j = 2 \/ j = 3
    BY DEF Frames, Statuses, Acks
  <2> QED
    BY <2>1 DEF OneAck, Acks
<1>6. ~Done(<<"noop">>)
  BY DEF Done
<1> QED
  BY <1>1, <1>2, <1>3, <1>4, <1>5, <1>6

-----------------------------------------------------------------------------
(* Types *)

\* Who joins the line: only a delivery task joins it without a batch.
Armed(h) == h.kind \in {"wake", "deliver"} => h.from = "news" \/ (h.from = "scan" /\ h.batch # {})

Scanned(h) == Armed(h) /\ h.from = "scan" /\ h.kind # "stop"

\* Who holds the lock: an instruction on its way has its line, an ack on its
\* way is the only one and answers the instruction that was taken, a batch
\* being fed is the one of that instruction, and no empty batch is sent.
Lock ==
  /\ ~conn => line = <<>> /\ up = <<>>
  /\ sent # "no" => line # <<>>
  /\ NoAck(up) \/ (OneAck(up) /\ sent = "taken" /\ feeding = {})
  /\ feeding # {} /\ conn =>
       sent = "taken" /\ Head(line).kind = "deliver" /\ Head(line).batch = feeding
  /\ \A i \in DOMAIN line : Armed(line[i])
  /\ \A r \in Runs : plan[r] # Nothing => conn /\ Scanned(plan[r])
  /\ sent # "no" /\ Head(line).kind = "deliver" => Head(line).batch # {}

Typed == TypeInv /\ Lock

\* Telling keeps the frames well-typed: statuses only, or one answer to what
\* was just taken.
LEMMA TellTypes ==
  ASSUME Typed, NEW t \in Seq(Frames), Tell(t)
  PROVE  /\ up' \in Seq(Frames)
         /\ ~conn => up' = <<>>
         /\ NoAck(t) => /\ NoAck(up) => NoAck(up')
                        /\ OneAck(up) => OneAck(up')
         /\ OneAck(t) /\ NoAck(up) => OneAck(up') \/ NoAck(up')
<1>1. up \in Seq(Frames)
  BY DEF Typed, TypeInv, Frames
<1>2. CASE conn
  <2>1. up' = up \o t
    BY <1>2 DEF Tell
  <2> QED
    BY <1>1, <1>2, <2>1, Joined, Quietly, Answered
<1>3. CASE ~conn
  BY <1>1, <1>3 DEF Tell, Typed, Lock
<1> QED
  BY <1>2, <1>3

LEMMA InitTyped ==
  ASSUME DeliveryAssumption, Init
  PROVE  Typed
<1>1. TypeInv
  <2>1. line \in Seq(Holders) /\ up \in Seq(Statuses \cup Acks)
    BY DEF Init
  <2>2. nextId \in 1 .. (MaxMsg + 1) /\ pos \in 0 .. MaxMsg /\ last \in 0 .. MaxMsg
    BY DEF DeliveryAssumption, Init
  <2>3. fed \in [Ids -> Nat] /\ left \in [Events -> Nat]
    BY DEF DeliveryAssumption, Init
  <2>4. plan \in [Runs -> Holders \cup {Nothing}]
    BY DEF Init
  <2> QED
    BY <2>1, <2>2, <2>3, <2>4 DEF DeliveryAssumption, Init, TypeInv, Statuses
<1>2. Lock
  <2>1. DOMAIN <<>> = {} /\ \A r \in Runs : plan[r] = Nothing
    BY DEF Init
  <2> QED
    BY <2>1 DEF Init, Lock, NoAck
<1> QED
  BY <1>1, <1>2 DEF Typed

LEMMA SpendTypes ==
  ASSUME TypeInv, NEW e \in Events, Spend(e)
  PROVE  left' \in [Events -> Nat]
BY DEF TypeInv, Spend

LEMMA PrefixTypes ==
  ASSUME TypeInv
  PROVE  Prefix \in SUBSET Ids
BY DEF TypeInv, Prefix, Backlog

\* What joins the line leaves it typed and in its order.
LEMMA JoinTypes ==
  ASSUME Typed, NEW h \in Holders, Armed(h), line' = Append(line, h)
  PROVE  /\ line' \in Seq(Holders) /\ line' # <<>>
         /\ \A i \in DOMAIN line' : Armed(line'[i])
         /\ line # <<>> => Head(line') = Head(line)
         /\ \A i \in DOMAIN line' : line'[i] = h \/ (i \in DOMAIN line /\ line'[i] = line[i])
<1>1. line \in Seq(Holders) /\ \A i \in DOMAIN line : Armed(line[i])
  BY DEF Typed, TypeInv, Lock, Armed
<1>2. /\ Append(line, h) \in Seq(Holders) /\ Append(line, h) # <<>>
      /\ \A i \in DOMAIN Append(line, h) :
           Append(line, h)[i] = h \/ (i \in DOMAIN line /\ Append(line, h)[i] = line[i])
      /\ line # <<>> => Head(Append(line, h)) = Head(line)
  BY <1>1, Appended
<1>3. \A i \in DOMAIN line' : Armed(line'[i])
  BY <1>1, <1>2
<1> QED
  BY <1>2, <1>3

LEMMA NewHolders ==
  ASSUME TypeInv, NEW kind \in {"start", "stop", "restart", "wake", "deliver"},
         NEW from \in {"news", "scan", "rest"}
  PROVE  /\ [kind |-> kind, from |-> from, batch |-> {}] \in Holders
         /\ [kind |-> kind, from |-> from, batch |-> Prefix] \in Holders
BY PrefixTypes DEF Holders

\* Adding to the line under the lock, and nothing else the lock is about.
LEMMA JoinLock ==
  ASSUME Typed, NEW h \in Holders, Armed(h), line' = Append(line, h), conn,
         conn' = conn, sent' = sent, up' = up, feeding' = feeding,
         \A r \in Runs : plan'[r] = plan[r] \/ plan'[r] = Nothing
  PROVE  line' \in Seq(Holders) /\ Lock'
<1>1. /\ line' \in Seq(Holders) /\ line' # <<>>
      /\ \A i \in DOMAIN line' : Armed(line'[i])
      /\ line # <<>> => Head(line') = Head(line)
  BY JoinTypes
<1>2. \A r \in Runs : plan'[r] # Nothing => conn' /\ Scanned(plan'[r])
  BY DEF Typed, Lock
<1>3. NoAck(up') \/ (OneAck(up') /\ sent' = "taken" /\ feeding' = {})
  BY DEF Typed, Lock
<1> QED
  BY <1>1, <1>2, <1>3 DEF Typed, Lock

\* What reconcile() plans.
LEMMA ScanPlans ==
  ASSUME Typed, NEW r \in Runs, Scan(r)
  PROVE  /\ plan' \in [Runs -> Holders \cup {Nothing}]
         /\ \A q \in Runs :
              \/ plan'[q] = plan[q]
              \/ plan'[q] = [kind |-> "start", from |-> "scan", batch |-> {}]
              \/ /\ Prefix # {}
                 /\ \E kind \in {"wake", "deliver"} :
                      plan'[q] = [kind |-> kind, from |-> "scan", batch |-> Prefix]
<1>1. plan \in [Runs -> Holders \cup {Nothing}]
  BY DEF Typed, TypeInv
<1>2. \/ plan' = plan
      \/ Plan(r, "start", {})
      \/ Prefix # {} /\ \E kind \in {"wake", "deliver"} : Plan(r, kind, Prefix)
  BY DEF Scan
<1>3. CASE plan' = plan
  BY <1>1, <1>3
<1>4. CASE Plan(r, "start", {})
  <2>1. [kind |-> "start", from |-> "scan", batch |-> {}] \in Holders
    BY NewHolders DEF Typed
  <2> QED
    BY <1>1, <1>4, <2>1 DEF Plan
<1>5. ASSUME NEW kind \in {"wake", "deliver"}, Prefix # {}, Plan(r, kind, Prefix)
      PROVE  /\ plan' \in [Runs -> Holders \cup {Nothing}]
             /\ \A q \in Runs : \/ plan'[q] = plan[q]
                                \/ plan'[q] = [kind |-> kind, from |-> "scan", batch |-> Prefix]
  <2>1. [kind |-> kind, from |-> "scan", batch |-> Prefix] \in Holders
    BY NewHolders DEF Typed
  <2> QED
    BY <1>1, <1>5, <2>1 DEF Plan
<1> QED
  BY <1>2, <1>3, <1>4, <1>5

\* What a run asks to send is what it planned.
LEMMA AskJoins ==
  ASSUME Typed, NEW r \in Runs, Ask(r)
  PROVE  /\ plan[r] \in Holders /\ Scanned(plan[r]) /\ conn
         /\ line' = Append(line, plan[r])
         /\ plan' \in [Runs -> Holders \cup {Nothing}]
         /\ \A q \in Runs : plan'[q] = plan[q] \/ plan'[q] = Nothing
<1>1. plan \in [Runs -> Holders \cup {Nothing}]
  BY DEF Typed, TypeInv
<1>2. plan[r] # Nothing /\ line' = Append(line, plan[r]) /\ plan' = [plan EXCEPT ![r] = Nothing]
  BY DEF Ask
<1>3. plan[r] \in Holders
  BY <1>1, <1>2
<1> QED
  BY <1>1, <1>2, <1>3 DEF Typed, Lock

\* The steps of the server that plan or add to the line.
LEMMA JoinersTyped ==
  ASSUME DeliveryAssumption, Typed,
         \/ \E m \in Ids : Decide(m)
         \/ \E r \in Runs : Scan(r) \/ Ask(r)
         \/ \E action \in {"start", "stop", "restart"} : Request(action)
  PROVE  Typed'
<1>1. ASSUME NEW m \in Ids, Decide(m)
      PROVE  Typed'
  <2>1. CASE line' = line
    <3>1. TypeInv'
      BY <1>1, <2>1 DEF Decide, Typed, TypeInv, postVars, rowVars, procVars, feedVars
    <3>2. Lock'
      BY <1>1, <2>1 DEF Decide, Typed, Lock, feedVars
    <3> QED
      BY <3>1, <3>2 DEF Typed
  <2>2. CASE line' # line
    <3>1. conn /\ \E kind \in {"wake", "deliver"} :
            line' = Append(line, [kind |-> kind, from |-> "news", batch |-> {}])
      BY <1>1, <2>2 DEF Decide, Join
    <3>2. PICK kind \in {"wake", "deliver"} :
            line' = Append(line, [kind |-> kind, from |-> "news", batch |-> {}])
      BY <3>1
    <3>3. [kind |-> kind, from |-> "news", batch |-> {}] \in Holders
      BY NewHolders DEF Typed
    <3>4. conn' = conn /\ sent' = sent /\ up' = up /\ feeding' = feeding /\ plan' = plan
      BY <1>1 DEF Decide, feedVars
    <3>5. line' \in Seq(Holders) /\ Lock'
      BY <3>1, <3>2, <3>3, <3>4, JoinLock DEF Armed
    <3>6. TypeInv'
      BY <1>1, <3>5 DEF Decide, Typed, TypeInv, postVars, rowVars, procVars, feedVars
    <3> QED
      BY <3>5, <3>6 DEF Typed
  <2> QED
    BY <2>1, <2>2
<1>2. ASSUME NEW r \in Runs, Scan(r)
      PROVE  Typed'
  <2>1. /\ conn /\ conn' = conn /\ sent' = sent /\ up' = up /\ feeding' = feeding
        /\ due' \in BOOLEAN /\ status' \in Statuses
        /\ UNCHANGED <<postVars, news, line, sent, present, pos, conn, up, entry, last,
                       procVars, feedVars, left>>
    BY <1>2 DEF Scan, MayScan, Typed, TypeInv, feedVars
  <2>2. \A q \in Runs : plan'[q] # Nothing => conn' /\ Scanned(plan'[q])
    <3> SUFFICES ASSUME NEW q \in Runs, plan'[q] # Nothing
                 PROVE  Scanned(plan'[q])
      BY <2>1
    <3>1. CASE plan'[q] = plan[q]
      BY <3>1 DEF Typed, Lock
    <3>2. CASE plan'[q] = [kind |-> "start", from |-> "scan", batch |-> {}]
      BY <3>2 DEF Scanned, Armed
    <3>3. ASSUME NEW kind \in {"wake", "deliver"}, Prefix # {},
                 plan'[q] = [kind |-> kind, from |-> "scan", batch |-> Prefix]
          PROVE  Scanned(plan'[q])
      BY <3>3 DEF Scanned, Armed
    <3> QED
      BY <1>2, <3>1, <3>2, <3>3, ScanPlans
  <2>3. NoAck(up') \/ (OneAck(up') /\ sent' = "taken" /\ feeding' = {})
    BY <2>1 DEF Typed, Lock
  <2>4. Lock'
    BY <2>1, <2>2, <2>3 DEF Typed, Lock
  <2>5. plan' \in [Runs -> Holders \cup {Nothing}]
    BY <1>2, ScanPlans
  <2>6. TypeInv'
    BY <2>1, <2>5 DEF Typed, TypeInv, postVars, procVars, feedVars
  <2> QED
    BY <2>4, <2>6 DEF Typed
<1>3. ASSUME NEW r \in Runs, Ask(r)
      PROVE  Typed'
  <2>1. /\ conn' = conn /\ sent' = sent /\ up' = up /\ feeding' = feeding
        /\ UNCHANGED <<postVars, news, due, sent, present, rowVars, conn, up, entry, last,
                       procVars, feedVars, left>>
    BY <1>3 DEF Ask, feedVars
  <2>2. /\ plan[r] \in Holders /\ Scanned(plan[r]) /\ conn
        /\ line' = Append(line, plan[r])
        /\ plan' \in [Runs -> Holders \cup {Nothing}]
        /\ \A q \in Runs : plan'[q] = plan[q] \/ plan'[q] = Nothing
    BY <1>3, AskJoins
  <2>3. line' \in Seq(Holders) /\ Lock'
    BY <2>1, <2>2, JoinLock DEF Scanned
  <2>4. TypeInv'
    BY <2>1, <2>2, <2>3 DEF Typed, TypeInv, postVars, rowVars, procVars, feedVars
  <2> QED
    BY <2>3, <2>4 DEF Typed
<1>4. ASSUME NEW action \in {"start", "stop", "restart"}, Request(action)
      PROVE  Typed'
  <2>1. [kind |-> action, from |-> "rest", batch |-> {}] \in Holders
    BY NewHolders DEF Typed
  <2>2. /\ conn /\ conn' = conn /\ sent' = sent /\ up' = up /\ feeding' = feeding
        /\ line' = Append(line, [kind |-> action, from |-> "rest", batch |-> {}])
        /\ plan' = plan
    BY <1>4 DEF Request, Join, feedVars
  <2>3. line' \in Seq(Holders) /\ Lock'
    BY <2>1, <2>2, JoinLock DEF Armed
  <2>4. left' \in [Events -> Nat]
    BY <1>4, SpendTypes DEF Request, Typed, Events
  <2>5. TypeInv'
    BY <1>4, <2>3, <2>4
       DEF Request, Typed, TypeInv, postVars, rowVars, procVars, feedVars
  <2> QED
    BY <2>3, <2>5 DEF Typed
<1> QED
  BY <1>1, <1>2, <1>3, <1>4

\* The line's head is changed in place or goes, or comes back as a delivery.
LEMMA HeadBatch ==
  ASSUME Typed, line # <<>>, Recomputes, Prefix # {},
         line' = [line EXCEPT ![1].batch = Prefix]
  PROVE  /\ line' \in Seq(Holders) /\ line' # <<>> /\ DOMAIN line' = DOMAIN line
         /\ Head(line') = [Head(line) EXCEPT !.batch = Prefix]
         /\ Head(line').batch = Prefix /\ Head(line').kind = "deliver"
         /\ \A i \in DOMAIN line' : \/ line'[i] = line[i]
                                    \/ line'[i] = [Head(line) EXCEPT !.batch = Prefix]
         /\ \A i \in DOMAIN line' : Armed(line'[i])
<1> DEFINE h == [Head(line) EXCEPT !.batch = Prefix]
<1>1. /\ line \in Seq(Holders) /\ Head(line) = line[1] /\ 1 \in DOMAIN line
      /\ Head(line) \in Holders
  BY Shortened DEF Typed, TypeInv
<1>2. h \in Holders /\ h.batch = Prefix /\ h.kind = "deliver" /\ h.from = "news"
  BY <1>1, PrefixTypes DEF Holders, Recomputes, Typed
<1>3. line' = [line EXCEPT ![1] = h]
  BY <1>1
<1>4. line' \in Seq(Holders) /\ DOMAIN line' = DOMAIN line /\ line' # <<>>
  BY <1>1, <1>2, <1>3
<1>5. Head(line') = h
  BY <1>1, <1>3, <1>4
<1>6. \A i \in DOMAIN line' : line'[i] = line[i] \/ line'[i] = h
  BY <1>1, <1>3
<1>7. \A i \in DOMAIN line : Armed(line[i])
  BY DEF Typed, Lock, Armed
<1>8. Armed(h)
  BY <1>2 DEF Armed
<1> QED
  BY <1>2, <1>4, <1>5, <1>6, <1>7, <1>8

LEMMA ReleaseTypes ==
  ASSUME Typed, line # <<>>, Release \/ line' = Tail(line)
  PROVE  /\ line' \in Seq(Holders)
         /\ \A i \in DOMAIN line' : Armed(line'[i])
         /\ \A i \in DOMAIN line' : \E j \in DOMAIN line :
              line'[i].batch = line[j].batch /\ line'[i].from = line[j].from
              /\ (line'[i].kind = line[j].kind \/ line'[i].kind = "deliver")
<1>1. /\ line \in Seq(Holders) /\ Head(line) = line[1] /\ 1 \in DOMAIN line
      /\ Head(line) \in Holders /\ Tail(line) \in Seq(Holders)
      /\ \A i \in DOMAIN Tail(line) : i + 1 \in DOMAIN line /\ Tail(line)[i] = line[i + 1]
  BY Shortened DEF Typed, TypeInv
<1>2. \A i \in DOMAIN line : Armed(line[i])
  BY DEF Typed, Lock, Armed
<1>3. CASE line' = Tail(line)
  BY <1>1, <1>2, <1>3
<1>4. CASE Head(line).kind = "wake"
           /\ line' = Append(Tail(line), [Head(line) EXCEPT !.kind = "deliver"])
  <2> DEFINE h == [Head(line) EXCEPT !.kind = "deliver"]
  <2>1. h \in Holders /\ h.batch = Head(line).batch /\ h.from = Head(line).from
        /\ h.kind = "deliver"
    BY <1>1 DEF Holders
  <2>2. Armed(h)
    BY <1>1, <1>2, <1>4, <2>1 DEF Armed
  <2>3. /\ line' \in Seq(Holders)
        /\ \A i \in DOMAIN line' : \/ line'[i] = h
                                   \/ i \in DOMAIN Tail(line) /\ line'[i] = Tail(line)[i]
    BY <1>1, <1>4, <2>1, Appended
  <2>4. ASSUME NEW i \in DOMAIN line'
        PROVE  /\ Armed(line'[i])
               /\ \E j \in DOMAIN line :
                    line'[i].batch = line[j].batch /\ line'[i].from = line[j].from
                    /\ (line'[i].kind = line[j].kind \/ line'[i].kind = "deliver")
    <3>1. CASE line'[i] = h
      BY <1>1, <2>1, <2>2, <3>1
    <3>2. CASE i \in DOMAIN Tail(line) /\ line'[i] = Tail(line)[i]
      BY <1>1, <1>2, <3>2
    <3> QED
      BY <2>3, <3>1, <3>2
  <2> QED
    BY <2>3, <2>4
<1> QED
  BY <1>3, <1>4 DEF Release

\* Posting, and the steps of the server that hold the lock.
LEMMA PostersTyped ==
  ASSUME DeliveryAssumption, Typed,
         Draw \/ \E m \in Ids : Commit(m) \/ Ready(m)
  PROVE  Typed'
<1>1. UNCHANGED <<line, sent, up, conn, feeding, plan>>
  BY DEF Draw, Commit, Ready, serverVars, feedVars
<1>2. Lock'
  BY <1>1 DEF Typed, Lock, NoAck, OneAck
<1>3. TypeInv'
  <2>1. CASE Draw
    BY <2>1 DEF Draw, Typed, TypeInv, serverVars, rowVars, procVars, feedVars, Ids,
                DeliveryAssumption
  <2>2. ASSUME NEW m \in Ids, Commit(m) \/ Ready(m)
        PROVE  TypeInv'
    BY <2>2 DEF Commit, Ready, Typed, TypeInv, serverVars, rowVars, procVars, feedVars
  <2> QED
    BY <2>1, <2>2
<1> QED
  BY <1>2, <1>3 DEF Typed

LEMMA HoldersTyped ==
  ASSUME DeliveryAssumption, Typed, Send \/ Skip \/ HandleAck \/ WriteStatus
  PROVE  Typed'
<1>1. CASE Send
  <2>1. /\ line # <<>> /\ sent = "no" /\ sent' = "wire" /\ conn /\ feeding = {} /\ NoAck(up)
        /\ UNCHANGED <<up, conn, feeding, plan>>
    BY <1>1 DEF Send, Typed, Lock, feedVars
  <2>2. /\ line' \in Seq(Holders) /\ line' # <<>>
        /\ \A i \in DOMAIN line' : Armed(line'[i])
        /\ Head(line').kind = "deliver" => Head(line').batch # {}
    <3>1. CASE Recomputes
      BY <1>1, <2>1, <3>1, HeadBatch DEF Send
    <3>2. CASE ~Recomputes
      <4>1. /\ line' = line /\ line \in Seq(Holders) /\ \A i \in DOMAIN line : Armed(line[i])
        BY <1>1, <3>2 DEF Send, Typed, TypeInv, Lock, Armed
      <4>2. Head(line) = line[1] /\ 1 \in DOMAIN line
        BY <2>1, <4>1, Shortened
      <4> QED
        BY <2>1, <3>2, <4>1, <4>2 DEF Recomputes, Armed
    <3> QED
      BY <3>1, <3>2
  <2>3. Lock'
    BY <2>1, <2>2 DEF Typed, Lock, NoAck
  <2>4. TypeInv'
    BY <1>1, <2>2 DEF Send, Typed, TypeInv, postVars, rowVars, procVars, feedVars
  <2> QED
    BY <2>3, <2>4 DEF Typed
<1>2. CASE Skip
  <2>1. /\ line # <<>> /\ sent = "no" /\ sent' = sent /\ conn /\ feeding = {} /\ NoAck(up)
        /\ UNCHANGED <<up, conn, feeding, plan>> /\ line' = Tail(line)
    BY <1>2 DEF Skip, Typed, Lock, feedVars
  <2>2. line' \in Seq(Holders) /\ \A i \in DOMAIN line' : Armed(line'[i])
    BY <2>1, ReleaseTypes
  <2>3. Lock'
    BY <2>1, <2>2 DEF Typed, Lock, NoAck
  <2>4. TypeInv'
    BY <1>2, <2>2 DEF Skip, Typed, TypeInv, postVars, rowVars, procVars, feedVars
  <2> QED
    BY <2>3, <2>4 DEF Typed
<1>3. CASE HandleAck
  <2>1. PICK i \in DOMAIN up :
          /\ up[i] \in Acks /\ up' = Drop(i)
          /\ pos' = IF Head(line).kind = "deliver" /\ up[i] = "done"
                      THEN Top(Head(line).batch) ELSE pos
          /\ Release
          /\ UNCHANGED <<postVars, news, due, plan, present, status, conn, entry, last, procVars,
                         feedVars, left>>
    BY <1>3 DEF HandleAck
  <2>2. OneAck(up) /\ sent = "taken" /\ feeding = {} /\ line # <<>> /\ conn
    <3>1. up # <<>> /\ ~NoAck(up)
      BY <2>1 DEF NoAck
    <3> QED
      BY <3>1 DEF Typed, Lock
  <2>3. up' \in Seq(Frames) /\ NoAck(up')
    BY <2>1, <2>2, Taken DEF Typed, TypeInv, Frames
  <2>4. line' \in Seq(Holders) /\ \A j \in DOMAIN line' : Armed(line'[j])
    BY <2>1, <2>2, ReleaseTypes
  <2>5. pos' \in 0 .. MaxMsg
    <3>1. CASE Head(line).kind = "deliver"
      <4>1. Head(line) \in Holders
        BY <2>2, Shortened DEF Typed, TypeInv
      <4>2. Head(line).batch \subseteq Ids /\ Head(line).batch # {}
        BY <2>2, <3>1, <4>1 DEF Holders, Typed, Lock
      <4>3. Top(Head(line).batch) \in Ids
        BY <4>2, TopIsGreatest
      <4> QED
        BY <2>1, <4>3 DEF Typed, TypeInv, Ids, DeliveryAssumption
    <3>2. CASE Head(line).kind # "deliver"
      BY <2>1, <3>2 DEF Typed, TypeInv
    <3> QED
      BY <3>1, <3>2
  <2>6. Lock'
    BY <2>1, <2>2, <2>3, <2>4 DEF Typed, Lock, Release, feedVars
  <2>7. TypeInv'
    BY <2>1, <2>3, <2>4, <2>5
       DEF Typed, TypeInv, Release, Frames, postVars, procVars, feedVars
  <2> QED
    BY <2>6, <2>7 DEF Typed
<1>4. CASE WriteStatus
  <2>1. up \in Seq(Frames) /\ up # <<>> /\ Head(up) \in Statuses /\ up' = Tail(up)
    BY <1>4 DEF WriteStatus, Typed, TypeInv, Frames
  <2>2. /\ up' \in Seq(Frames) /\ NoAck(up) => NoAck(up')
        /\ OneAck(up) => OneAck(up')
    BY <2>1, ReadOff
  <2>3. conn /\ UNCHANGED <<line, sent, conn, feeding, plan>>
    BY <1>4, <2>1 DEF WriteStatus, Typed, Lock, feedVars
  <2>4. up' \in Seq(Frames) /\ (NoAck(up') \/ (OneAck(up') /\ sent = "taken" /\ feeding = {}))
    <3>1. up' \in Seq(Frames)
      BY <2>1, ReadOff
    <3> QED
      BY <2>1, <3>1, ReadOff DEF Typed, Lock
  <2>5. Lock'
    BY <2>3, <2>4 DEF Typed, Lock
  <2>6. TypeInv'
    BY <1>4, <2>4 DEF WriteStatus, Typed, TypeInv, Frames, Resumable, Statuses, postVars,
                      procVars, feedVars
  <2> QED
    BY <2>5, <2>6 DEF Typed
<1> QED
  BY <1>1, <1>2, <1>3, <1>4

-----------------------------------------------------------------------------
(* The daemon and its process *)

\* An instruction that the daemon takes finds no ack on the way and no batch
\* being fed.
LEMMA TakeTypes ==
  ASSUME Typed, NEW kind, Take(kind)
  PROVE  /\ conn /\ line # <<>> /\ NoAck(up) /\ feeding = {}
         /\ Head(line).kind = kind /\ sent' = "taken" /\ Head(line) \in Holders
<1>1. sent = "wire" /\ Head(line).kind = kind /\ sent' = "taken"
  BY DEF Take
<1>2. line # <<>> /\ conn /\ NoAck(up) /\ feeding = {}
  BY <1>1 DEF Typed, Lock
<1> QED
  BY <1>1, <1>2, Shortened DEF Typed, TypeInv

\* The handlers that answer at once.
LEMMA AnswerLock ==
  ASSUME Typed, NEW kind, Take(kind), NEW t \in Seq(Frames), OneAck(t), Tell(t),
         UNCHANGED <<line, conn, feeding, plan>>
  PROVE  up' \in Seq(Frames) /\ Lock'
<1>1. /\ conn /\ line # <<>> /\ NoAck(up) /\ feeding = {} /\ sent' = "taken"
  BY TakeTypes
<1>2. up' \in Seq(Frames) /\ (OneAck(up') \/ NoAck(up'))
  BY <1>1, TellTypes
<1>3. Head(line).kind = "deliver" => Head(line).batch # {}
  BY DEF Take, Typed, Lock
<1> QED
  BY <1>1, <1>2, <1>3 DEF Typed, Lock

LEMMA AnswersTyped ==
  ASSUME DeliveryAssumption, Typed,
         HandleStart \/ HandleStop \/ HandleRestart \/ HandleWake
  PROVE  Typed'
<1>1. /\ UNCHANGED <<line, conn, feeding, plan>>
      /\ \E kind : Take(kind)
  BY DEF HandleStart, HandleStop, HandleRestart, HandleWake, feedVars
<1>2. \E t \in Seq(Frames) : OneAck(t) /\ Tell(t)
  <2>1. CASE HandleStart
    BY <2>1, Reports DEF HandleStart, Acks
  <2>2. CASE HandleStop
    BY <2>2, Reports DEF HandleStop, Acks, Statuses
  <2>3. CASE HandleRestart
    BY <2>3, Reports DEF HandleRestart
  <2>4. CASE HandleWake
    BY <2>4, Reports DEF HandleWake, Acks, Statuses
  <2> QED
    BY <2>1, <2>2, <2>3, <2>4
<1>3. up' \in Seq(Statuses \cup Acks) /\ Lock'
  BY <1>1, <1>2, AnswerLock DEF Frames
<1>4. /\ entry' \in Statuses \cup {"none"} /\ alive' \in BOOLEAN /\ turns' \in Nat
      /\ backoff' \in BOOLEAN /\ last' \in 0 .. MaxMsg
  <2>1. CASE HandleStart
    BY <2>1 DEF HandleStart, Typed, TypeInv, Statuses
  <2>2. CASE HandleStop
    <3>1. 0 \in 0 .. MaxMsg /\ 0 \in Nat
      BY DEF DeliveryAssumption
    <3>2. \/ UNCHANGED <<entry, last, alive, turns, backoff>>
          \/ entry' = "none" /\ last' = 0 /\ alive' = FALSE /\ turns' = 0 /\ backoff' = FALSE
      BY <2>2 DEF HandleStop, procVars
    <3> QED
      BY <3>1, <3>2 DEF Typed, TypeInv
  <2>3. CASE HandleRestart
    BY <2>3 DEF HandleRestart, Typed, TypeInv, Statuses
  <2>4. CASE HandleWake
    BY <2>4 DEF HandleWake, Typed, TypeInv, Statuses, procVars
  <2> QED
    BY <2>1, <2>2, <2>3, <2>4
<1>5. /\ UNCHANGED <<postVars, news, due, plan, line, present, rowVars, conn, feedVars, left>>
      /\ sent' = "taken"
  BY DEF HandleStart, HandleStop, HandleRestart, HandleWake, Take
<1>6. TypeInv'
  BY <1>3, <1>4, <1>5 DEF Typed, TypeInv, postVars, rowVars, feedVars
<1> QED
  BY <1>3, <1>6 DEF Typed

LEMMA DeliverTyped ==
  ASSUME DeliveryAssumption, Typed, Deliver
  PROVE  Typed'
<1>1. /\ conn /\ line # <<>> /\ NoAck(up) /\ feeding = {} /\ sent' = "taken"
      /\ Head(line).kind = "deliver" /\ Head(line) \in Holders
      /\ Head(line).batch # {} /\ Head(line).batch \subseteq Ids
  <2>1. Take("deliver")
    BY DEF Deliver
  <2>2. /\ conn /\ line # <<>> /\ NoAck(up) /\ feeding = {} /\ sent' = "taken"
        /\ Head(line).kind = "deliver" /\ Head(line) \in Holders
    BY <2>1, TakeTypes
  <2>3. sent # "no"
    BY <2>1 DEF Take
  <2> QED
    BY <2>2, <2>3 DEF Typed, Lock, Holders
<1>2. UNCHANGED <<postVars, news, due, plan, line, present, rowVars, conn, procVars, fed, dropped,
                  left>>
  BY DEF Deliver
<1>3. CASE entry = "none" \/ Top(Head(line).batch) <= last
  <2>1. Take("deliver") /\ Tell(<<"noop">>) /\ UNCHANGED <<entry, last, feeding>>
    BY <1>3 DEF Deliver
  <2>2. up' \in Seq(Statuses \cup Acks) /\ Lock'
    BY <1>2, <2>1, Reports, AnswerLock DEF Acks, Frames
  <2>3. TypeInv'
    BY <1>1, <1>2, <2>1, <2>2 DEF Typed, TypeInv, postVars, rowVars, procVars
  <2> QED
    BY <2>2, <2>3 DEF Typed
<1>4. CASE ~(entry = "none" \/ Top(Head(line).batch) <= last)
  <2>1. /\ last' = Top(Head(line).batch) /\ feeding' = Head(line).batch
        /\ entry' = "busy" /\ Tell(<<"busy">>)
    BY <1>4 DEF Deliver
  <2>2. last' \in 0 .. MaxMsg
    BY <1>1, <2>1, TopIsGreatest DEF Ids, DeliveryAssumption
  <2>3. "busy" \in Statuses
    BY DEF Statuses
  <2>4. up' \in Seq(Frames) /\ NoAck(up')
    BY <1>1, <2>1, <2>3, Reports, TellTypes
  <2>5. Lock'
    BY <1>1, <1>2, <2>1, <2>4 DEF Typed, Lock
  <2>6. TypeInv'
    BY <1>1, <1>2, <2>1, <2>2, <2>3, <2>4
       DEF Typed, TypeInv, Frames, postVars, rowVars, procVars
  <2> QED
    BY <2>5, <2>6 DEF Typed
<1> QED
  BY <1>3, <1>4

LEMMA FeedTyped ==
  ASSUME DeliveryAssumption, Typed, Feed
  PROVE  Typed'
<1>1. /\ feeding # {} /\ feeding' = {} /\ Tell(<<"done">>)
      /\ UNCHANGED <<postVars, serverVars, rowVars, conn, entry, last, alive, backoff, left>>
  BY DEF Feed
<1>2. NoAck(up)
  BY <1>1 DEF Typed, Lock
<1>3. <<"done">> \in Seq(Frames) /\ OneAck(<<"done">>)
  BY Reports DEF Acks
<1>4. /\ up' \in Seq(Frames) /\ (~conn => up' = <<>>) /\ (OneAck(up') \/ NoAck(up'))
  BY <1>1, <1>2, <1>3, TellTypes
<1>5. fed' \in [Ids -> Nat] /\ turns' \in Nat /\ dropped' \subseteq Ids
  <2>1. fed \in [Ids -> Nat] /\ turns \in Nat /\ dropped \subseteq Ids /\ feeding \subseteq Ids
    BY DEF Typed, TypeInv
  <2>2. CASE alive
    <3>1. /\ fed' = [m \in Ids |-> IF m \in feeding THEN fed[m] + 1 ELSE fed[m]]
          /\ turns' = turns + 1 /\ dropped' = dropped
      BY <2>2 DEF Feed
    <3> QED
      BY <2>1, <3>1
  <2>3. CASE ~alive
    <3>1. dropped' = dropped \cup feeding /\ fed' = fed /\ turns' = turns
      BY <2>3 DEF Feed
    <3> QED
      BY <2>1, <3>1
  <2> QED
    BY <2>2, <2>3
<1>6. Lock'
  <2>1. CASE conn
    BY <1>1, <1>4, <2>1 DEF Typed, Lock, serverVars
  <2>2. CASE ~conn
    <3>1. up' = <<>> /\ DOMAIN <<>> = {}
      BY <1>4, <2>2
    <3>2. NoAck(up')
      BY <3>1 DEF NoAck
    <3> QED
      BY <1>1, <2>2, <3>1, <3>2 DEF Typed, Lock, serverVars
  <2> QED
    BY <2>1, <2>2
<1>7. TypeInv'
  BY <1>1, <1>4, <1>5 DEF Typed, TypeInv, Frames, postVars, serverVars, rowVars
<1> QED
  BY <1>6, <1>7 DEF Typed

\* Frames without an ack leave the lock alone.
LEMMA QuietLock ==
  ASSUME Typed, NEW t \in Seq(Frames), NoAck(t), Tell(t),
         UNCHANGED <<line, sent, conn, feeding, plan>>
  PROVE  up' \in Seq(Frames) /\ Lock'
<1>1. /\ up' \in Seq(Frames) /\ (~conn => up' = <<>>)
      /\ (NoAck(up) => NoAck(up')) /\ (OneAck(up) => OneAck(up'))
  BY TellTypes
<1> QED
  BY <1>1 DEF Typed, Lock

LEMMA ProcessTyped ==
  ASSUME DeliveryAssumption, Typed, Process
  PROVE  Typed'
<1>1. UNCHANGED <<postVars, serverVars, rowVars, conn, last, feedVars>>
  BY DEF Process, EndTurn, FailTurn, Exit, Relaunch
<1>2. /\ entry' \in Statuses \cup {"none"} /\ alive' \in BOOLEAN /\ turns' \in Nat
      /\ backoff' \in BOOLEAN /\ left' \in [Events -> Nat]
  <2>1. CASE EndTurn
    BY <2>1 DEF EndTurn, Typed, TypeInv, Statuses
  <2>2. CASE FailTurn
    <3>1. left' \in [Events -> Nat]
      BY <2>2, SpendTypes DEF FailTurn, Typed, Events
    <3>2. turns' \in Nat /\ entry' = "error" /\ UNCHANGED <<alive, backoff>>
      BY <2>2 DEF FailTurn, Typed, TypeInv
    <3> QED
      BY <3>1, <3>2 DEF Typed, TypeInv, Statuses
  <2>3. CASE Exit
    BY <2>3, SpendTypes DEF Exit, Typed, TypeInv, Events
  <2>4. CASE Relaunch
    BY <2>4 DEF Relaunch, Typed, TypeInv, Statuses
  <2> QED
    BY <2>1, <2>2, <2>3, <2>4 DEF Process
<1>3. up' \in Seq(Frames) /\ Lock'
  <2>1. CASE Exit
    <3>1. up' = up /\ UNCHANGED <<line, sent, conn, feeding, plan>>
      BY <1>1, <2>1 DEF Exit, serverVars, feedVars
    <3>2. NoAck(up') <=> NoAck(up)
      BY <3>1
    <3>3. OneAck(up') <=> OneAck(up)
      BY <3>1
    <3> QED
      BY <3>1, <3>2, <3>3 DEF Typed, TypeInv, Frames, Lock
  <2>2. CASE ~Exit
    <3>1. \E t \in Seq(Frames) : NoAck(t) /\ Tell(t)
      BY <2>2, Reports DEF Process, EndTurn, FailTurn, Relaunch, Statuses
    <3>2. UNCHANGED <<line, sent, conn, feeding, plan>>
      BY <1>1 DEF serverVars, feedVars
    <3> QED
      BY <3>1, <3>2, QuietLock
  <2> QED
    BY <2>1, <2>2
<1>4. TypeInv'
  BY <1>1, <1>2, <1>3 DEF Typed, TypeInv, Frames, postVars, serverVars, rowVars, feedVars
<1> QED
  BY <1>3, <1>4 DEF Typed

\* A connection that ends takes the line and the frames with it.
LEMMA LinkTyped ==
  ASSUME DeliveryAssumption, Typed, Link
  PROVE  Typed'
<1>1. CASE Connect
  <2>1. /\ ~conn /\ feeding = {} /\ conn' = TRUE /\ due' = TRUE /\ present' = entry
        /\ line = <<>> /\ up = <<>> /\ sent = "no"
        /\ UNCHANGED <<line, sent, up, feeding, plan>>
        /\ \A r \in Runs : plan[r] = Nothing
    BY <1>1 DEF Connect, Typed, Lock, feedVars
  <2>2. NoAck(up') /\ DOMAIN line' = {}
    BY <2>1 DEF NoAck
  <2>3. Lock'
    BY <2>1, <2>2 DEF Lock
  <2>4. TypeInv'
    BY <1>1, <2>1 DEF Connect, Typed, TypeInv, postVars, rowVars, procVars, feedVars
  <2> QED
    BY <2>3, <2>4 DEF Typed
<1>2. CASE Cut \/ DaemonCrash \/ ServerRestart
  <2>1. conn' = FALSE /\ due' = FALSE /\ present' = "none" /\ up' = <<>> /\ line' = <<>>
        /\ sent' = "no" /\ plan' = [r \in Runs |-> Nothing]
    BY <1>2 DEF Cut, DaemonCrash, ServerRestart, Disconnect
  <2>2. NoAck(up') /\ (\A r \in Runs : plan'[r] = Nothing) /\ plan' \in [Runs -> Holders \cup {Nothing}]
    BY <2>1 DEF NoAck
  <2>6. NoAck(up') /\ DOMAIN line' = {} /\ line' \in Seq(Holders) /\ up' \in Seq(Statuses \cup Acks)
    BY <2>1 DEF NoAck
  <2>3. Lock'
    BY <2>1, <2>2, <2>6 DEF Lock
  <2>4. left' \in [Events -> Nat]
    BY <1>2, SpendTypes DEF Cut, DaemonCrash, ServerRestart, Typed, Events
  <2>5. TypeInv'
    <3>1. CASE Cut
      BY <2>1, <2>2, <2>6, <2>4, <3>1
         DEF Cut, Typed, TypeInv, postVars, rowVars, procVars, feedVars
    <3>2. CASE DaemonCrash
      <4>1. /\ entry' = "none" /\ last' = 0 /\ feeding' = {}
            /\ alive' = FALSE /\ turns' = 0 /\ backoff' = FALSE
            /\ UNCHANGED <<postVars, news, rowVars, fed, dropped>>
        BY <3>2 DEF DaemonCrash
      <4>2. last' \in 0 .. MaxMsg /\ turns' \in Nat
        BY <4>1 DEF DeliveryAssumption
      <4> QED
        BY <2>1, <2>2, <2>6, <2>4, <4>1, <4>2 DEF Typed, TypeInv, postVars, rowVars
    <3>3. CASE ServerRestart
      BY <2>1, <2>2, <2>6, <2>4, <3>3
         DEF ServerRestart, Typed, TypeInv, rowVars, procVars, feedVars
    <3> QED
      BY <1>2, <3>1, <3>2, <3>3
  <2> QED
    BY <2>3, <2>5 DEF Typed
<1> QED
  BY <1>1, <1>2 DEF Link

LEMMA StutterTyped ==
  ASSUME Typed, UNCHANGED vars
  PROVE  Typed'
<1>1. NoAck(up') <=> NoAck(up)
  BY DEF vars
<1>2. OneAck(up') <=> OneAck(up)
  BY DEF vars
<1>3. Lock'
  BY <1>1, <1>2 DEF Typed, Lock, vars, serverVars, feedVars
<1>4. TypeInv'
  BY DEF Typed, TypeInv, vars, postVars, serverVars, rowVars, procVars, feedVars
<1> QED
  BY <1>3, <1>4 DEF Typed

LEMMA NextTyped ==
  ASSUME DeliveryAssumption, Typed, [Next]_vars
  PROVE  Typed'
<1>1. CASE UNCHANGED vars
  BY <1>1, StutterTyped
<1>2. CASE Draw \/ \E m \in Ids : Commit(m) \/ Ready(m)
  BY <1>2, PostersTyped
<1>3. CASE \/ \E m \in Ids : Decide(m)
           \/ \E r \in Runs : Scan(r) \/ Ask(r)
           \/ \E action \in {"start", "stop", "restart"} : Request(action)
  BY <1>3, JoinersTyped
<1>4. CASE Send \/ Skip \/ HandleAck \/ WriteStatus
  BY <1>4, HoldersTyped
<1>5. CASE Daemon
  BY <1>5, AnswersTyped, DeliverTyped, FeedTyped DEF Daemon
<1>6. CASE Process
  BY <1>6, ProcessTyped
<1>7. CASE Link
  BY <1>7, LinkTyped
<1> QED
  BY <1>1, <1>2, <1>3, <1>4, <1>5, <1>6, <1>7 DEF Next, Server

\* Every variable keeps its type, under any faults and requests.
THEOREM TypeCorrect == Spec => []TypeInv
<1>1. Init => Typed
  BY DeliveryAssumption, InitTyped
<1>2. Typed /\ [Next]_vars => Typed'
  BY DeliveryAssumption, NextTyped
<1>3. Typed => TypeInv
  BY DEF Typed
<1> QED
  BY <1>1, <1>2, <1>3, PTL DEF Spec

-----------------------------------------------------------------------------
(* What is marked read was handed over *)

\* Everything in ms up to a message of the batch b is in b or in hs.
ClosedIn(b, ms, hs) ==
  /\ b \subseteq ms
  /\ \A m \in b : \A n \in ms : n <= m => n \in b \/ n \in hs

\* Ids become visible in the order in which they are drawn.
Order ==
  /\ \A m \in msgs : m < nextId
  /\ \A d \in drawn : d < nextId /\ (\A m \in msgs : m < d) /\ (\A e \in drawn : e = d)

\* The read position and the daemon know only messages that exist.
Seen ==
  /\ pos = 0 \/ pos \in msgs
  /\ dropped \subseteq msgs
  /\ \A m \in Ids : fed[m] > 0 => m \in msgs
  /\ ReadIsHanded

\* A batch, planned or on its way, leaves out nothing that has not been handed
\* over, and the one answered done has been handed over itself.
Batches ==
  /\ \A i \in DOMAIN line : ClosedIn(line[i].batch, msgs, Handed)
  /\ \A r \in Runs : ClosedIn(plan[r].batch, msgs, Handed)
  /\ ClosedIn(feeding, msgs, Handed)
  /\ Done(up) /\ Head(line).kind = "deliver" => Head(line).batch \subseteq Handed

Sound == Typed /\ Order /\ Seen /\ Batches

\* What is handed over stays handed over, and a message once posted exists.
LEMMA HandedGrows ==
  ASSUME Typed, Seen, Next
  PROVE  msgs \subseteq msgs' /\ Handed \subseteq Handed'
<1>1. msgs \subseteq msgs'
  BY DEF Next, Draw, Commit, Ready, Decide, Request, Daemon, Process, Server, Link,
         HandleStart, HandleStop, HandleRestart, HandleWake, Deliver, Feed, EndTurn, FailTurn,
         Exit, Relaunch, Scan, Ask, Send, Skip, HandleAck, WriteStatus, Connect, Cut, DaemonCrash,
         ServerRestart, postVars
<1>2. dropped \subseteq dropped' /\ \A m \in Ids : fed[m] > 0 => fed'[m] > 0
  <2>1. CASE Feed
    <3>1. fed \in [Ids -> Nat]
      BY DEF Typed, TypeInv
    <3>2. CASE alive
      <4>1. /\ fed' = [m \in Ids |-> IF m \in feeding THEN fed[m] + 1 ELSE fed[m]]
            /\ dropped' = dropped
        BY <2>1, <3>2 DEF Feed
      <4> QED
        BY <3>1, <4>1
    <3>3. CASE ~alive
      BY <2>1, <3>3 DEF Feed
    <3> QED
      BY <3>2, <3>3
  <2>2. CASE ~Feed
    <3>1. fed' = fed /\ dropped' = dropped
      BY <2>2
         DEF Next, Draw, Commit, Ready, Decide, Request, Daemon, Process, Server, Link,
             HandleStart, HandleStop, HandleRestart, HandleWake, Deliver, EndTurn, FailTurn,
             Exit, Relaunch, Scan, Ask, Send, Skip, HandleAck, WriteStatus, Connect, Cut,
             DaemonCrash, ServerRestart, feedVars
    <3> QED
      BY <3>1
  <2> QED
    BY <2>1, <2>2
<1>3. msgs \subseteq Ids
  BY DEF Typed, TypeInv
<1> QED
  BY <1>1, <1>2, <1>3 DEF Handed

\* Where the batches of the line come from, and its stops.
Planned(h)  == h.batch \in {{}, Prefix} /\ (h.kind = "stop" => Request("stop"))
Kept(h, g)  == h.batch = g.batch /\ (h.kind = "stop" => g.kind = "stop")

Old(h) == \/ \E j \in DOMAIN line : Kept(h, line[j])
          \/ \E r \in Runs : plan[r] # Nothing /\ Kept(h, plan[r])

\* The tasks, runs and requests append one holder to the line, or none.
LEMMA Joining ==
  ASSUME Typed, \/ \E m \in Ids : Decide(m)
                \/ \E r \in Runs : Scan(r) \/ Ask(r)
                \/ \E action \in {"start", "stop", "restart"} : Request(action)
  PROVE  \/ line' = line
         \/ \E h \in Holders : line' = Append(line, h) /\ (Planned(h) \/ Old(h))
<1>1. ASSUME NEW m \in Ids, Decide(m), line' # line
      PROVE  \E h \in Holders : line' = Append(line, h) /\ Planned(h)
  <2>1. PICK kind \in {"wake", "deliver"} :
          line' = Append(line, [kind |-> kind, from |-> "news", batch |-> {}])
    BY <1>1 DEF Decide, Join
  <2>2. [kind |-> kind, from |-> "news", batch |-> {}] \in Holders
    BY NewHolders DEF Typed
  <2>3. Planned([kind |-> kind, from |-> "news", batch |-> {}])
    BY DEF Planned
  <2> QED
    BY <2>1, <2>2, <2>3
<1>2. ASSUME NEW r \in Runs, Scan(r)
      PROVE  line' = line
  BY <1>2 DEF Scan
<1>3. ASSUME NEW r \in Runs, Ask(r)
      PROVE  \E h \in Holders : line' = Append(line, h) /\ Old(h)
  <2>1. plan[r] \in Holders /\ line' = Append(line, plan[r])
    BY <1>3, AskJoins
  <2>2. plan[r] # Nothing
    BY <1>3 DEF Ask
  <2>3. Old(plan[r])
    BY <2>2 DEF Old, Kept
  <2> QED
    BY <2>1, <2>3
<1>4. ASSUME NEW action \in {"start", "stop", "restart"}, Request(action)
      PROVE  \E h \in Holders : line' = Append(line, h) /\ Planned(h)
  <2>1. line' = Append(line, [kind |-> action, from |-> "rest", batch |-> {}])
    BY <1>4 DEF Request, Join
  <2>2. [kind |-> action, from |-> "rest", batch |-> {}] \in Holders
    BY NewHolders DEF Typed
  <2>3. Planned([kind |-> action, from |-> "rest", batch |-> {}])
    BY <1>4 DEF Planned
  <2> QED
    BY <2>1, <2>2, <2>3
<1> QED
  BY <1>1, <1>2, <1>3, <1>4

LEMMA Origins ==
  ASSUME Typed, Next, NEW i \in DOMAIN line'
  PROVE  Planned(line'[i]) \/ Old(line'[i])
<1>1. CASE line' = line
  BY <1>1 DEF Old, Kept
<1>2. CASE line' = <<>>
  <2>1. DOMAIN <<>> = {}
    OBVIOUS
  <2> QED
    BY <1>2, <2>1
<1>3. ASSUME NEW h \in Holders, Planned(h) \/ Old(h), line' = Append(line, h)
      PROVE  Planned(line'[i]) \/ Old(line'[i])
  <2>1. line \in Seq(Holders)
    BY DEF Typed, TypeInv
  <2>2. line'[i] = h \/ (i \in DOMAIN line /\ line'[i] = line[i])
    BY <1>3, <2>1, Appended
  <2> QED
    BY <1>3, <2>2 DEF Old, Kept
<1>4. CASE Send /\ Recomputes
  <2>1. line # <<>> /\ line' = [line EXCEPT ![1].batch = Prefix] /\ Prefix # {}
    BY <1>4 DEF Send
  <2>2. /\ DOMAIN line' = DOMAIN line
        /\ line'[i] = line[i] \/ line'[i] = [Head(line) EXCEPT !.batch = Prefix]
    BY <1>4, <2>1, HeadBatch
  <2>3. Head(line) \in Holders
    BY <2>1, Shortened DEF Typed, TypeInv
  <2>4. /\ [Head(line) EXCEPT !.batch = Prefix].batch = Prefix
        /\ [Head(line) EXCEPT !.batch = Prefix].kind = "deliver"
    BY <1>4, <2>3 DEF Holders, Recomputes
  <2> QED
    BY <2>2, <2>4 DEF Planned, Old, Kept
<1>5. CASE line # <<>> /\ (Release \/ line' = Tail(line))
  BY <1>5, ReleaseTypes DEF Old, Kept
<1>6. CASE \/ Draw \/ \E m \in Ids : Commit(m) \/ Ready(m)
           \/ Daemon \/ Process \/ WriteStatus \/ Connect
  <2>1. line' = line
    BY <1>6 DEF Draw, Commit, Ready, Daemon, Process, HandleStart, HandleStop, HandleRestart,
                HandleWake, Deliver, Feed, EndTurn, FailTurn, Exit, Relaunch, WriteStatus,
                Connect, serverVars
  <2> QED
    BY <1>1, <2>1
<1>7. CASE Cut \/ DaemonCrash \/ ServerRestart
  BY <1>2, <1>7 DEF Cut, DaemonCrash, ServerRestart, Disconnect
<1>8. CASE \/ \E m \in Ids : Decide(m)
           \/ \E r \in Runs : Scan(r) \/ Ask(r)
           \/ \E action \in {"start", "stop", "restart"} : Request(action)
  BY <1>1, <1>3, <1>8, Joining
<1>9. CASE Send
  BY <1>1, <1>4, <1>9 DEF Send
<1>10. CASE Skip \/ HandleAck
  <2>1. line # <<>>
    <3>1. CASE Skip
      BY <3>1 DEF Skip
    <3>2. CASE HandleAck
      <4>1. ~NoAck(up)
        BY <3>2 DEF HandleAck, NoAck
      <4> QED
        BY <4>1 DEF Typed, Lock
    <3> QED
      BY <1>10, <3>1, <3>2
  <2> QED
    BY <1>5, <1>10, <2>1 DEF Skip, HandleAck
<1> QED
  BY <1>6, <1>7, <1>8, <1>9, <1>10 DEF Next, Server, Link

\* What a run keeps is what it planned last, computed then.
LEMMA PlanOrigins ==
  ASSUME Typed, Next, NEW q \in Runs
  PROVE  plan'[q] = plan[q] \/ plan'[q].batch \in {{}, Prefix}
<1>1. Nothing.batch = {}
  BY DEF Nothing
<1>2. ASSUME NEW r \in Runs, Scan(r)
      PROVE  plan'[q] = plan[q] \/ plan'[q].batch \in {{}, Prefix}
  <2>1. \/ plan'[q] = plan[q]
        \/ plan'[q] = [kind |-> "start", from |-> "scan", batch |-> {}]
        \/ \E kind \in {"wake", "deliver"} :
             plan'[q] = [kind |-> kind, from |-> "scan", batch |-> Prefix]
    BY <1>2, ScanPlans
  <2> QED
    BY <2>1
<1>3. ASSUME NEW r \in Runs, Ask(r)
      PROVE  plan'[q] = plan[q] \/ plan'[q].batch \in {{}, Prefix}
  BY <1>1, <1>3, AskJoins
<1>4. CASE Cut \/ DaemonCrash \/ ServerRestart
  BY <1>1, <1>4 DEF Cut, DaemonCrash, ServerRestart, Disconnect
<1>5. CASE ~\E r \in Runs : Scan(r) \/ Ask(r)
  <2>1. CASE ~Cut /\ ~DaemonCrash /\ ~ServerRestart
    BY <1>5, <2>1
       DEF Next, Draw, Commit, Ready, Decide, Request, Daemon, Process, Server, Link,
           HandleStart, HandleStop, HandleRestart, HandleWake, Deliver, Feed, EndTurn, FailTurn,
           Exit, Relaunch, Send, Skip, HandleAck, WriteStatus, Connect, serverVars
  <2> QED
    BY <1>4, <2>1
<1> QED
  BY <1>2, <1>3, <1>5

\* A batch left open by nothing before the step is left open by nothing after.
LEMMA ClosedStays ==
  ASSUME Typed, Order, Seen, Next, NEW b, ClosedIn(b, msgs, Handed)
  PROVE  ClosedIn(b, msgs', Handed')
<1>1. msgs \subseteq msgs' /\ Handed \subseteq Handed'
  BY HandedGrows
<1>2. ASSUME NEW n \in msgs', n \notin msgs, NEW m \in msgs
      PROVE  ~(n <= m)
  <2>1. n \in drawn
    BY <1>2
       DEF Next, Draw, Commit, Ready, Decide, Request, Daemon, Process, Server, Link,
           HandleStart, HandleStop, HandleRestart, HandleWake, Deliver, Feed, EndTurn, FailTurn,
           Exit, Relaunch, Scan, Ask, Send, Skip, HandleAck, WriteStatus, Connect, Cut, DaemonCrash,
           ServerRestart, postVars
  <2>2. n \in Int /\ m \in Int
    BY <2>1 DEF Typed, TypeInv, Ids
  <2> QED
    BY <2>1, <2>2 DEF Order
<1> QED
  BY <1>1, <1>2 DEF ClosedIn

\* What is planned now: everything before it has been read or goes with it.
LEMMA PrefixClosed ==
  ASSUME Typed, Seen
  PROVE  ClosedIn(Prefix, msgs, Handed)
<1>1. Prefix \subseteq msgs
  BY DEF Prefix, Backlog
<1>2. msgs \subseteq Int /\ pos \in Int
  BY DEF Typed, TypeInv, Ids
<1>3. ASSUME NEW m \in Prefix, NEW n \in msgs, n <= m
      PROVE  n \in Prefix \/ n \in Handed
  <2>1. CASE n <= pos
    BY <2>1 DEF Seen, ReadIsHanded
  <2>2. CASE n > pos
    <3>1. n \in Backlog
      BY <2>2 DEF Backlog
    <3>2. ASSUME NEW k \in Backlog, k \in waits
          PROVE  n < k
      <4>1. m < k /\ k \in Int /\ m \in Int /\ n \in Int
        BY <1>1, <1>2, <3>2 DEF Prefix, Backlog
      <4> QED
        BY <1>3, <4>1
    <3> QED
      BY <3>1, <3>2 DEF Prefix
  <2> QED
    BY <1>2, <2>1, <2>2
<1> QED
  BY <1>1, <1>3 DEF ClosedIn

\* An ack "done" of a delivery is on its way because it was, or because the
\* batch has just been written to the process.
LEMMA Answering ==
  ASSUME Typed, Next, Done(up'), Head(line').kind = "deliver"
  PROVE  \/ Done(up) /\ conn /\ line # <<>> /\ Head(line') = Head(line) /\ ~Feed /\ ~HandleAck
         \/ Feed /\ conn /\ up' = up \o <<"done">> /\ line' = line /\ line # <<>>
<1> DEFINE G == \/ /\ Done(up) /\ conn /\ line # <<>> /\ Head(line') = Head(line)
                   /\ ~Feed /\ ~HandleAck
                \/ Feed /\ conn /\ up' = up \o <<"done">> /\ line' = line /\ line # <<>>
<1>1. up \in Seq(Frames) /\ line \in Seq(Holders)
  BY DEF Typed, TypeInv, Frames
<1>2. Done(up) => ~NoAck(up) /\ OneAck(up) /\ sent = "taken" /\ feeding = {} /\ line # <<>> /\ conn
  <2>1. Done(up) => ~NoAck(up) /\ up # <<>>
    BY DEF Done, NoAck, Acks
  <2> QED
    BY <2>1 DEF Typed, Lock
<1>4. CASE HandleAck
  <2>1. PICK i \in DOMAIN up : up[i] \in Acks /\ up' = Drop(i)
    BY <1>4 DEF HandleAck
  <2>2. OneAck(up)
    BY <2>1 DEF Typed, Lock, NoAck
  <2>3. NoAck(up')
    BY <1>1, <2>1, <2>2, Taken
  <2> QED
    BY <2>3 DEF NoAck, Done, Acks
<1>5. CASE Feed
  <2>1. UNCHANGED line /\ Tell(<<"done">>) /\ feeding # {}
    BY <1>5 DEF Feed, serverVars
  <2>2. conn
    <3>1. CASE ~conn
      <4>1. up' = <<>> /\ DOMAIN <<>> = {}
        BY <2>1, <3>1 DEF Tell, Typed, Lock
      <4> QED
        BY <4>1 DEF Done
    <3> QED
      BY <3>1
  <2>3. line # <<>>
    BY <2>1, <2>2 DEF Typed, Lock
  <2> QED
    BY <1>5, <2>1, <2>2, <2>3 DEF Tell
<1>6. CASE HandleStart \/ HandleStop \/ HandleRestart \/ HandleWake
  <2>1. line' = line /\ \E kind \in {"start", "stop", "restart", "wake"} : Take(kind)
    BY <1>6 DEF HandleStart, HandleStop, HandleRestart, HandleWake
  <2>2. Head(line').kind # "deliver"
    BY <2>1 DEF Take
  <2> QED
    BY <2>2
<1>7. ASSUME ~HandleAck, ~Feed, up' = up, Head(line') = Head(line)
      PROVE  G
  BY <1>2, <1>7
<1>8. ASSUME NEW t \in Seq(Frames), ~Done(t), Tell(t), line' = line, ~HandleAck, ~Feed
      PROVE  G
  <2>1. up' = up \o t \/ up' = up
    BY <1>8 DEF Tell
  <2>2. Done(up)
    BY <1>1, <1>8, <2>1, DoneOf
  <2> QED
    BY <1>2, <1>8, <2>2
<1>9. CASE \/ Draw \/ \E m \in Ids : Commit(m) \/ Ready(m)
           \/ Exit
  <2>1. up' = up /\ line' = line /\ (HandleAck \/ Feed \/ (~HandleAck /\ ~Feed))
    BY <1>9 DEF Draw, Commit, Ready, Exit, serverVars
  <2> QED
    BY <1>4, <1>5, <1>7, <2>1
<1>10. CASE Deliver \/ EndTurn \/ FailTurn \/ Relaunch
  <2>1. line' = line /\ \E t \in {<<"noop">>, <<"busy">>, <<"idle">>, <<"error">>, <<"starting", "idle">>} : Tell(t)
    BY <1>10 DEF Deliver, EndTurn, FailTurn, Relaunch, serverVars
  <2>2. \A t \in {<<"noop">>, <<"busy">>, <<"idle">>, <<"error">>, <<"starting", "idle">>} :
          t \in Seq(Frames) /\ ~Done(t)
    <3>1. \A s \in Statuses : <<s>> \in Seq(Frames) /\ NoAck(<<s>>)
      BY Reports
    <3>2. \A s \in Statuses : ~Done(<<s>>)
      BY <3>1 DEF NoAck, Done, Acks
    <3>3. <<"starting", "idle">> \in Seq(Frames) /\ ~Done(<<"starting", "idle">>)
      BY Reports DEF NoAck, Done, Acks
    <3>4. <<"noop">> \in Seq(Frames) /\ ~Done(<<"noop">>)
      BY Reports DEF Acks
    <3> QED
      BY <3>1, <3>2, <3>3, <3>4 DEF Statuses
  <2> QED
    BY <1>4, <1>5, <1>8, <2>1, <2>2
<1>11. CASE WriteStatus
  <2>1. line' = line /\ up' = Tail(up) /\ up # <<>> /\ Head(up) \in Statuses
    BY <1>11 DEF WriteStatus
  <2>2. Done(up)
    BY <1>1, <2>1, ReadOff
  <2> QED
    BY <1>2, <1>4, <1>5, <2>1, <2>2
<1>12. CASE Link
  <2>1. up' = <<>> /\ DOMAIN <<>> = {}
    BY <1>12 DEF Link, Connect, Cut, DaemonCrash, ServerRestart, Disconnect, Typed, Lock
  <2> QED
    BY <2>1 DEF Done
<1>13. CASE Send \/ Skip
  <2>1. up' = up /\ sent = "no"
    BY <1>13 DEF Send, Skip
  <2> QED
    BY <1>2, <2>1
<1>14. CASE \/ \E m \in Ids : Decide(m)
            \/ \E r \in Runs : Scan(r) \/ Ask(r)
            \/ \E action \in {"start", "stop", "restart"} : Request(action)
  <2>1. up' = up /\ Done(up)
    BY <1>14 DEF Decide, Scan, Ask, Request
  <2>2. Head(line') = Head(line)
    <3>1. CASE line' = line
      BY <3>1
    <3>2. ASSUME NEW h \in Holders, line' = Append(line, h)
          PROVE  Head(line') = Head(line)
      BY <1>1, <1>2, <2>1, <3>2, Appended
    <3>3. line' = line \/ \E h \in Holders : line' = Append(line, h)
      BY <1>14, Joining
    <3> QED
      BY <3>1, <3>2, <3>3
  <2> QED
    BY <1>4, <1>5, <1>7, <2>1, <2>2
<1> QED
  BY <1>4, <1>5, <1>6, <1>9, <1>10, <1>11, <1>12, <1>13, <1>14
     DEF Next, Daemon, Process, Server

LEMMA OrderKept ==
  ASSUME DeliveryAssumption, ~Overlap, Typed, Order, Next
  PROVE  Order'
<1>1. msgs \subseteq Int /\ drawn \subseteq Int /\ nextId \in Int
  BY DEF Typed, TypeInv, Ids
<1>2. CASE Draw
  <2>1. drawn = {} /\ drawn' = {nextId} /\ nextId' = nextId + 1 /\ msgs' = msgs
    BY <1>2 DEF Draw
  <2> QED
    BY <1>1, <2>1 DEF Order
<1>3. ASSUME NEW m \in Ids, Commit(m)
      PROVE  Order'
  <2>1. m \in drawn /\ drawn' = drawn \ {m} /\ msgs' = msgs \cup {m} /\ nextId' = nextId
    BY <1>3 DEF Commit
  <2>2. drawn' = {}
    BY <2>1 DEF Order
  <2> QED
    BY <2>1, <2>2 DEF Order
<1>4. CASE ~Draw /\ ~\E m \in Ids : Commit(m)
  <2>1. msgs' = msgs /\ nextId' = nextId /\ drawn' \subseteq drawn
    BY <1>4
       DEF Next, Ready, Decide, Request, Daemon, Process, Server, Link,
           HandleStart, HandleStop, HandleRestart, HandleWake, Deliver, Feed, EndTurn, FailTurn,
           Exit, Relaunch, Scan, Ask, Send, Skip, HandleAck, WriteStatus, Connect, Cut, DaemonCrash,
           ServerRestart, postVars
  <2> QED
    BY <2>1 DEF Order
<1> QED
  BY <1>2, <1>3, <1>4

\* An ack moves the read position to the last message of the batch at the head.
LEMMA AckMoves ==
  ASSUME DeliveryAssumption, Typed, HandleAck, pos' # pos
  PROVE  LET b == Head(line).batch IN
         /\ line # <<>> /\ conn /\ Done(up) /\ Head(line).kind = "deliver" /\ sent = "taken"
         /\ b # {} /\ b \subseteq Ids /\ pos' = Top(b) /\ Top(b) \in b
<1>1. PICK i \in DOMAIN up :
        /\ up[i] \in Acks
        /\ pos' = IF Head(line).kind = "deliver" /\ up[i] = "done"
                    THEN Top(Head(line).batch) ELSE pos
  BY DEF HandleAck
<1>2. Head(line).kind = "deliver" /\ Done(up) /\ pos' = Top(Head(line).batch)
  BY <1>1 DEF Done
<1>3. ~NoAck(up) /\ up # <<>>
  BY <1>1 DEF NoAck
<1>4. sent = "taken" /\ conn /\ line # <<>>
  BY <1>3 DEF Typed, Lock
<1>5. Head(line) \in Holders
  BY <1>4, Shortened DEF Typed, TypeInv
<1>6. Head(line).batch # {} /\ Head(line).batch \subseteq Ids
  BY <1>2, <1>4, <1>5 DEF Typed, Lock, Holders
<1> QED
  BY <1>2, <1>4, <1>6, TopIsGreatest

\* All of that batch has been handed over, and everything before it.
LEMMA Acked ==
  ASSUME DeliveryAssumption, Typed, Seen, Batches, HandleAck, pos' # pos
  PROVE  LET b == Head(line).batch IN
         /\ line # <<>> /\ conn /\ Done(up) /\ Head(line).kind = "deliver"
         /\ b # {} /\ b \subseteq Ids /\ pos' = Top(b)
         /\ b \subseteq msgs /\ b \subseteq Handed /\ ClosedIn(b, msgs, Handed)
<1>1. /\ line # <<>> /\ conn /\ Done(up) /\ Head(line).kind = "deliver"
      /\ Head(line).batch # {} /\ Head(line).batch \subseteq Ids /\ pos' = Top(Head(line).batch)
  BY AckMoves
<1>2. Head(line) = line[1] /\ 1 \in DOMAIN line
  BY <1>1, Shortened DEF Typed, TypeInv
<1>3. Head(line).batch \subseteq Handed /\ ClosedIn(Head(line).batch, msgs, Handed)
  BY <1>1, <1>2 DEF Batches
<1> QED
  BY <1>1, <1>3 DEF ClosedIn

LEMMA SeenKept ==
  ASSUME DeliveryAssumption, Sound, Next
  PROVE  Seen'
<1>1. Typed /\ Order /\ Seen /\ Batches
  BY DEF Sound
<1>2. msgs \subseteq msgs' /\ Handed \subseteq Handed'
  BY <1>1, HandedGrows
<1>3. /\ msgs \subseteq Int /\ pos \in Int /\ msgs \subseteq Ids /\ feeding \subseteq Ids
      /\ fed \in [Ids -> Nat]
  BY <1>1 DEF Typed, TypeInv, Ids
<1>4. ASSUME NEW m \in Ids, Commit(m)
      PROVE  Seen'
  <2>1. m \in drawn /\ msgs' = msgs \cup {m} /\ UNCHANGED <<pos, fed, dropped>>
    BY <1>4 DEF Commit, rowVars, feedVars
  <2>2. \A n \in msgs : n < m
    BY <1>1, <2>1 DEF Order
  <2>3. ~(m <= pos)
    BY <1>1, <1>3, <2>2 DEF Seen, Ids
  <2>4. ReadIsHanded'
    BY <1>1, <1>2, <2>1, <2>3 DEF Seen, ReadIsHanded
  <2> QED
    BY <1>1, <2>1, <2>4 DEF Seen
<1>5. CASE HandleAck
  <2>1. UNCHANGED <<msgs, fed, dropped>>
    BY <1>5 DEF HandleAck, postVars, feedVars
  <2>2. Handed' = Handed
    BY <2>1 DEF Handed
  <2>3. CASE pos' = pos
    BY <1>1, <2>1, <2>2, <2>3 DEF Seen, ReadIsHanded
  <2>4. CASE pos' # pos
    <3> DEFINE b == Head(line).batch
    <3>1. /\ b # {} /\ b \subseteq Ids /\ pos' = Top(b) /\ b \subseteq msgs /\ b \subseteq Handed
          /\ ClosedIn(b, msgs, Handed)
      BY <1>1, <1>5, <2>4, Acked
    <3> HIDE DEF b
    <3>2. pos' \in b
      BY <3>1, TopIsGreatest
    <3>3. ASSUME NEW m \in msgs, m <= pos'
          PROVE  m \in Handed
      BY <3>1, <3>2, <3>3 DEF ClosedIn
    <3>4. ReadIsHanded'
      BY <2>1, <2>2, <3>3 DEF ReadIsHanded
    <3> QED
      BY <1>1, <2>1, <3>1, <3>2, <3>4 DEF Seen
  <2> QED
    BY <2>3, <2>4
<1>6. CASE Feed
  <2>1. UNCHANGED <<msgs, pos>> /\ feeding \subseteq msgs
    BY <1>1, <1>6 DEF Feed, postVars, rowVars, Batches, ClosedIn
  <2>2. dropped' \subseteq msgs
    BY <1>1, <1>6, <2>1 DEF Feed, Seen
  <2>3. \A m \in Ids : fed'[m] > 0 => m \in msgs
    <3>1. CASE alive
      <4>1. fed' = [m \in Ids |-> IF m \in feeding THEN fed[m] + 1 ELSE fed[m]]
        BY <1>6, <3>1 DEF Feed
      <4> QED
        BY <1>1, <2>1, <4>1 DEF Seen
    <3>2. CASE ~alive
      BY <1>1, <1>6, <3>2 DEF Feed, Seen
    <3> QED
      BY <3>1, <3>2
  <2>4. ReadIsHanded'
    BY <1>1, <1>2, <2>1 DEF Seen, ReadIsHanded
  <2> QED
    BY <1>1, <2>1, <2>2, <2>3, <2>4 DEF Seen
<1>7. CASE ~HandleAck /\ ~Feed /\ ~\E m \in Ids : Commit(m)
  <2>1. UNCHANGED <<msgs, pos, fed, dropped>>
    BY <1>7
       DEF Next, Draw, Ready, Decide, Request, Daemon, Process, Server, Link,
           HandleStart, HandleStop, HandleRestart, HandleWake, Deliver, EndTurn, FailTurn,
           Exit, Relaunch, Scan, Ask, Send, Skip, WriteStatus, Connect, Cut, DaemonCrash,
           ServerRestart, postVars, rowVars, feedVars
  <2> QED
    BY <1>1, <1>2, <2>1 DEF Seen, ReadIsHanded
<1> QED
  BY <1>4, <1>5, <1>6, <1>7

LEMMA BatchesKept ==
  ASSUME DeliveryAssumption, Sound, Next
  PROVE  Batches'
<1>1. Typed /\ Order /\ Seen /\ Batches
  BY DEF Sound
<1>2. ASSUME NEW i \in DOMAIN line'
      PROVE  ClosedIn(line'[i].batch, msgs', Handed')
  <2>1. ASSUME NEW b, ClosedIn(b, msgs, Handed)
        PROVE  ClosedIn(b, msgs', Handed')
    BY <1>1, <2>1, ClosedStays
  <2>2. ClosedIn({}, msgs, Handed) /\ ClosedIn(Prefix, msgs, Handed)
    BY <1>1, PrefixClosed DEF ClosedIn
  <2>3. /\ \A j \in DOMAIN line : ClosedIn(line[j].batch, msgs, Handed)
        /\ \A r \in Runs : ClosedIn(plan[r].batch, msgs, Handed)
    BY <1>1 DEF Batches
  <2>4. Planned(line'[i]) \/ Old(line'[i])
    BY <1>1, Origins
  <2> QED
    BY <2>1, <2>2, <2>3, <2>4 DEF Planned, Old, Kept
<1>5. ASSUME NEW r \in Runs
      PROVE  ClosedIn(plan'[r].batch, msgs', Handed')
  <2>1. ClosedIn({}, msgs, Handed) /\ ClosedIn(Prefix, msgs, Handed)
    BY <1>1, PrefixClosed DEF ClosedIn
  <2>2. ClosedIn(plan[r].batch, msgs, Handed)
    BY <1>1 DEF Batches
  <2>3. ClosedIn(plan'[r].batch, msgs, Handed)
    BY <1>1, <2>1, <2>2, PlanOrigins
  <2> QED
    BY <1>1, <2>3, ClosedStays
<1>3. ClosedIn(feeding', msgs', Handed')
  <2>1. feeding' = feeding \/ feeding' = {} \/ (Deliver /\ feeding' = Head(line).batch)
    BY DEF Next, Draw, Commit, Ready, Decide, Request, Daemon, Process, Server, Link,
           HandleStart, HandleStop, HandleRestart, HandleWake, Deliver, Feed, EndTurn, FailTurn,
           Exit, Relaunch, Scan, Ask, Send, Skip, HandleAck, WriteStatus, Connect, Cut, DaemonCrash,
           ServerRestart, feedVars
  <2>2. Deliver => 1 \in DOMAIN line /\ Head(line) = line[1]
    <3>1. Deliver => line # <<>>
      BY <1>1, TakeTypes DEF Deliver
    <3> QED
      BY <1>1, <3>1, Shortened DEF Typed, TypeInv
  <2>3. ClosedIn({}, msgs, Handed) /\ ClosedIn(feeding, msgs, Handed)
    BY <1>1 DEF Batches, ClosedIn
  <2>4. ClosedIn(feeding', msgs, Handed)
    BY <1>1, <2>1, <2>2, <2>3 DEF Batches
  <2> QED
    BY <1>1, <2>4, ClosedStays
<1>4. ASSUME Done(up'), Head(line').kind = "deliver"
      PROVE  Head(line').batch \subseteq Handed'
  <2>1. Handed \subseteq Handed'
    BY <1>1, HandedGrows
  <2>2. CASE Done(up) /\ Head(line') = Head(line)
    BY <1>1, <1>4, <2>1, <2>2 DEF Batches
  <2>3. CASE Feed /\ conn /\ line' = line
    <3>1. feeding = Head(line').batch
      BY <1>1, <2>3 DEF Feed, Typed, Lock
    <3>2. feeding \subseteq msgs /\ msgs' = msgs /\ feeding \subseteq Ids
      BY <1>1, <2>3 DEF Feed, postVars, Batches, ClosedIn, Typed, TypeInv
    <3>3. CASE alive
      <4>1. fed' = [m \in Ids |-> IF m \in feeding THEN fed[m] + 1 ELSE fed[m]]
        BY <2>3, <3>3 DEF Feed
      <4>2. \A m \in feeding : fed'[m] > 0
        BY <1>1, <3>2, <4>1 DEF Typed, TypeInv
      <4> QED
        BY <3>1, <3>2, <4>2 DEF Handed
    <3>4. CASE ~alive
      <4>1. dropped' = dropped \cup feeding
        BY <2>3, <3>4 DEF Feed
      <4> QED
        BY <3>1, <4>1 DEF Handed
    <3> QED
      BY <3>3, <3>4
  <2> QED
    BY <1>1, <1>4, <2>2, <2>3, Answering
<1> QED
  BY <1>2, <1>3, <1>4, <1>5 DEF Batches

LEMMA SoundKept ==
  ASSUME DeliveryAssumption, ~Overlap, Sound, [Next]_vars
  PROVE  Sound'
<1>1. CASE Next
  <2>1. Typed /\ Order
    BY DEF Sound
  <2>2. Typed' /\ Order'
    BY <1>1, <2>1, NextTyped, OrderKept
  <2> QED
    BY <1>1, <2>2, SeenKept, BatchesKept DEF Sound
<1>2. CASE UNCHANGED vars
  <2>1. Typed'
    BY <1>2, StutterTyped DEF Sound
  <2>2. UNCHANGED <<postVars, line, plan, up, pos, feeding, fed, dropped>>
    BY <1>2 DEF vars, serverVars, rowVars, feedVars
  <2>3. Handed' = Handed
    BY <2>2 DEF Handed, postVars
  <2>4. Order' /\ Seen'
    BY <2>2, <2>3 DEF Sound, Order, Seen, ReadIsHanded, postVars
  <2>5. Batches'
    BY <2>2, <2>3 DEF Sound, Batches, Done, postVars
  <2> QED
    BY <2>1, <2>4, <2>5 DEF Sound
<1> QED
  BY <1>1, <1>2

LEMMA InitSound ==
  ASSUME DeliveryAssumption, Init
  PROVE  Sound
<1>1. Typed
  BY InitTyped
<1>2. DOMAIN <<>> = {} /\ line = <<>> /\ up = <<>> /\ \A r \in Runs : plan[r].batch = {}
  BY DEF Init, Nothing
<1>3. Order /\ Seen
  BY DEF Init, Order, Seen, ReadIsHanded
<1>4. Batches
  BY <1>2 DEF Init, Batches, ClosedIn, Done
<1> QED
  BY <1>1, <1>3, <1>4 DEF Sound

\* When ids become visible in order, a message the read position covers was
\* written to the agent's process, whatever is lost, stopped or restarted and
\* however the batches that overlapping tasks plan overtake each other.
THEOREM ReadIsHandedHolds == ~Overlap /\ Spec => []ReadIsHanded
<1>1. Init => Sound
  BY DeliveryAssumption, InitSound
<1>2. ~Overlap /\ Sound /\ [Next]_vars => Sound'
  BY DeliveryAssumption, SoundKept
<1>3. Sound => ReadIsHanded
  BY DEF Sound, Seen
<1>4. CASE Overlap
  BY <1>4
<1>5. CASE ~Overlap
  <2>1. Sound /\ [Next]_vars => Sound'
    BY <1>2, <1>5
  <2> QED
    BY <1>1, <1>3, <2>1, PTL DEF Spec
<1> QED
  BY <1>4, <1>5

-----------------------------------------------------------------------------
(* The engine implements Inbox *)

\* Every step of the engine is one of Inbox, or none.
LEMMA StepRefines ==
  ASSUME DeliveryAssumption, Sound, Next
  PROVE  [Promise!Next]_(Promise!vars)
<1>1. Typed /\ Order /\ Seen /\ Batches
  BY DEF Sound
<1>2. msgs \subseteq Ids /\ fed \in [Ids -> Nat] /\ feeding \subseteq Ids /\ pos \in Int
  BY <1>1 DEF Typed, TypeInv
<1>3. ASSUME NEW m \in Ids, Commit(m)
      PROVE  Promise!Post(m)
  <2>1. m \in drawn /\ msgs' = msgs \cup {m} /\ UNCHANGED <<pos, fed, dropped>>
    BY <1>3 DEF Commit, rowVars, feedVars
  <2>2. \A n \in msgs : n < m
    BY <1>1, <2>1 DEF Order
  <2>3. fed[m] > 0 => m \in msgs
    BY <1>1 DEF Seen
  <2>4. Handed' = Handed
    BY <2>1, <2>3 DEF Handed
  <2> QED
    BY <2>1, <2>2, <2>4 DEF Promise!Post
<1>4. CASE HandleAck
  <2>1. UNCHANGED <<msgs, fed, dropped>>
    BY <1>4 DEF HandleAck, postVars, feedVars
  <2>2. Handed' = Handed
    BY <2>1 DEF Handed
  <2>3. CASE pos' = pos
    BY <2>1, <2>2, <2>3 DEF Promise!vars
  <2>4. CASE pos' # pos
    <3> DEFINE b == Head(line).batch
    <3>1. /\ b # {} /\ b \subseteq Ids /\ pos' = Top(b) /\ b \subseteq Handed
          /\ conn /\ Done(up) /\ Head(line).kind = "deliver"
      BY <1>1, <1>4, <2>4, Acked
    <3> HIDE DEF b
    <3>2. Top(b) \in b
      BY <3>1, TopIsGreatest
    <3>3. Promise!Read(Top(b))
      BY <2>1, <2>2, <3>1, <3>2 DEF Promise!Read
    <3>4. Top(b) \in 1 .. MaxMsg
      BY <3>1, <3>2 DEF Ids
    <3> QED
      BY <3>3, <3>4 DEF Promise!Next
  <2> QED
    BY <2>3, <2>4
<1>5. CASE Feed
  <2>1. msgs' = msgs /\ pos' = pos /\ feeding # {}
    BY <1>5 DEF Feed, postVars, rowVars
  <2>2. ClosedIn(feeding, msgs, Handed) /\ feeding \subseteq msgs
    BY <1>1 DEF Batches, ClosedIn
  <2>3. Handed' = Handed \cup feeding
    <3>1. CASE alive
      <4>1. /\ fed' = [m \in Ids |-> IF m \in feeding THEN fed[m] + 1 ELSE fed[m]]
            /\ dropped' = dropped
        BY <1>5, <3>1 DEF Feed
      <4>2. \A m \in Ids : fed'[m] > 0 <=> m \in feeding \/ fed[m] > 0
        BY <1>2, <4>1
      <4> QED
        BY <1>2, <2>1, <2>2, <4>1, <4>2 DEF Handed
    <3>2. CASE ~alive
      <4>1. dropped' = dropped \cup feeding /\ fed' = fed
        BY <1>5, <3>2 DEF Feed
      <4> QED
        BY <2>1, <4>1 DEF Handed
    <3> QED
      BY <3>1, <3>2
  <2>4. Top(feeding) \in feeding /\ \A k \in feeding : k <= Top(feeding)
    BY <1>2, <2>1, TopIsGreatest
  <2> DEFINE t == Top(feeding)
  <2> HIDE DEF t
  <2>5. t \in feeding /\ \A k \in feeding : k <= t
    BY <2>4 DEF t
  <2>6. Handed' = Handed \cup {n \in msgs : n <= t}
    BY <2>2, <2>3, <2>5 DEF ClosedIn
  <2>7. Promise!Hand(t)
    BY <2>1, <2>2, <2>5, <2>6 DEF Promise!Hand
  <2>8. t \in 1 .. MaxMsg
    BY <1>2, <2>5 DEF Ids
  <2> QED
    BY <2>7, <2>8 DEF Promise!Next
<1>6. CASE ~HandleAck /\ ~Feed /\ ~\E m \in Ids : Commit(m)
  <2>1. UNCHANGED <<msgs, pos, fed, dropped>>
    BY <1>6
       DEF Next, Draw, Ready, Decide, Request, Daemon, Process, Server, Link,
           HandleStart, HandleStop, HandleRestart, HandleWake, Deliver, EndTurn, FailTurn,
           Exit, Relaunch, Scan, Ask, Send, Skip, WriteStatus, Connect, Cut, DaemonCrash,
           ServerRestart, postVars, rowVars, feedVars
  <2>2. Handed' = Handed
    BY <2>1 DEF Handed
  <2> QED
    BY <2>1, <2>2 DEF Promise!vars
<1> QED
  BY <1>3, <1>4, <1>5, <1>6 DEF Promise!Next, Ids

\* When ids become visible in order the engine gives what Inbox promises, over
\* any number of cuts, crashes, restarts, stops and overlapping deliveries:
\* messages in order and without a gap, and a read position that is never set
\* to a message that was not handed over.
THEOREM ImplementsInbox == ~Overlap /\ Spec => InboxSpec
<1> SUFFICES ASSUME ~Overlap
             PROVE  Spec => InboxSpec
  OBVIOUS
<1>1. ASSUME Init
      PROVE  Sound /\ Promise!Init
  <2>1. msgs = {} /\ dropped = {} /\ pos = 0
    BY <1>1 DEF Init
  <2>2. Promise!Init
    BY <2>1 DEF Promise!Init, Handed
  <2> QED
    BY <1>1, <2>2, DeliveryAssumption, InitSound
<1>2. ASSUME Sound, [Next]_vars
      PROVE  Sound'
  BY <1>2, DeliveryAssumption, SoundKept
<1>3. ASSUME Sound, [Next]_vars
      PROVE  [Promise!Next]_(Promise!vars)
  <2>1. CASE Next
    BY <1>3, <2>1, DeliveryAssumption, StepRefines
  <2>2. CASE UNCHANGED vars
    <3>1. UNCHANGED <<msgs, fed, dropped, pos>>
      BY <2>2 DEF vars, postVars, rowVars, feedVars
    <3>2. Handed' = Handed
      BY <3>1 DEF Handed
    <3> QED
      BY <3>1, <3>2 DEF Promise!vars
  <2> QED
    BY <1>3, <2>1, <2>2
<1> QED
  BY <1>1, <1>2, <1>3, PTL DEF Spec, InboxSpec, Promise!Spec

-----------------------------------------------------------------------------
(* When the read position goes back *)

Past(b, p)   == \E m \in b : m > p
Within(b, l) == \A m \in b : m <= l

Delivering == sent # "no" /\ Head(line).kind = "deliver"

\* The budget is never given back.
Spent == \A e \in Events : left[e] <= Budget[e]

\* The batch of a delivery task is computed when it is sent, so on its way it is
\* past the read position.
NewsFresh == Delivering /\ Head(line).from = "news" => \A m \in Head(line).batch : m > pos

\* Without a stop the cursor never falls back behind a batch that was acked:
\* a batch that no longer reaches past the read position is answered noop.
Ahead ==
  /\ \A i \in DOMAIN line : line[i].kind # "stop"
  /\ \A i \in DOMAIN line :
       line[i].batch = {} \/ Past(line[i].batch, pos) \/ Within(line[i].batch, last)
  /\ \A r \in Runs :
       plan[r].batch = {} \/ Past(plan[r].batch, pos) \/ Within(plan[r].batch, last)
  /\ conn /\ (feeding # {} \/ (Done(up) /\ Head(line).kind = "deliver")) =>
       Past(Head(line).batch, pos) /\ Within(Head(line).batch, last)

Onward == Spent /\ NewsFresh /\ (Unstopped => Ahead)

LEMMA Untouched ==
  ASSUME Next
  PROVE  /\ pos' = pos \/ HandleAck
         /\ last' = last \/ HandleStop \/ Deliver \/ DaemonCrash
         /\ left' = left \/ \E e \in Events : Spend(e)
<1>1. pos' = pos \/ HandleAck
  BY DEF Next, Draw, Commit, Ready, Decide, Request, Daemon, Process, Server, Link,
         HandleStart, HandleStop, HandleRestart, HandleWake, Deliver, Feed, EndTurn, FailTurn,
         Exit, Relaunch, Scan, Ask, Send, Skip, WriteStatus, Connect, Cut, DaemonCrash,
         ServerRestart, rowVars
<1>2. last' = last \/ HandleStop \/ Deliver \/ DaemonCrash
  BY DEF Next, Draw, Commit, Ready, Decide, Request, Daemon, Process, Server, Link,
         HandleStart, HandleRestart, HandleWake, Feed, EndTurn, FailTurn,
         Exit, Relaunch, Scan, Ask, Send, Skip, HandleAck, WriteStatus, Connect, Cut,
         ServerRestart
<1>3. left' = left \/ \E e \in Events : Spend(e)
  BY DEF Next, Draw, Commit, Ready, Decide, Request, Daemon, Process, Server, Link,
         HandleStart, HandleStop, HandleRestart, HandleWake, Deliver, Feed, EndTurn, FailTurn,
         Exit, Relaunch, Scan, Ask, Send, Skip, HandleAck, WriteStatus, Connect, Cut, DaemonCrash,
         ServerRestart, Events
<1> QED
  BY <1>1, <1>2, <1>3

\* The budget only shrinks: before a step after which it is whole, it was.
LEMMA SpentKept ==
  ASSUME DeliveryAssumption, Typed, Spent, Next
  PROVE  /\ Spent'
         /\ \A e \in Events : left'[e] = Budget[e] => left[e] = Budget[e] /\ ~Spend(e)
<1>1. \A e \in Events : left[e] \in Int /\ Budget[e] \in Int /\ left[e] <= Budget[e]
  BY DEF Typed, TypeInv, DeliveryAssumption, Spent
<1>2. ASSUME NEW e \in Events, Spend(e)
      PROVE  left'[e] < left[e] /\ \A g \in Events : left'[g] <= left[g] /\ left'[g] \in Int
  BY <1>1, <1>2 DEF Spend, Typed, TypeInv
<1>3. \A g \in Events : left'[g] <= left[g] /\ left'[g] \in Int
  <2>1. left' = left => \A g \in Events : left'[g] <= left[g] /\ left'[g] \in Int
    BY <1>1
  <2> QED
    BY <1>2, <2>1, Untouched
<1>4. Spent'
  BY <1>1, <1>3 DEF Spent
<1>5. ASSUME NEW e \in Events, left'[e] = Budget[e]
      PROVE  left[e] = Budget[e] /\ ~Spend(e)
  <2>1. left[e] = Budget[e]
    BY <1>1, <1>3, <1>5
  <2>2. Spend(e) => left'[e] < left[e]
    BY <1>2
  <2> QED
    BY <1>1, <1>5, <2>1, <2>2
<1> QED
  BY <1>4, <1>5

\* While a connection lasts, its cursor only moves on.
LEMMA CursorMovesOn ==
  ASSUME DeliveryAssumption, Typed, Ahead, Next, conn'
  PROVE  last' >= last
<1>1. last \in Int
  BY DEF Typed, TypeInv
<1>2. ~HandleStop
  <2>1. HandleStop => line # <<>> /\ Head(line).kind = "stop"
    BY TakeTypes DEF HandleStop
  <2>2. line # <<>> => Head(line) = line[1] /\ 1 \in DOMAIN line
    BY Shortened DEF Typed, TypeInv
  <2> QED
    BY <2>1, <2>2 DEF Ahead
<1>3. ~DaemonCrash
  BY DEF DaemonCrash, Disconnect
<1>4. CASE Deliver
  <2>1. CASE last' = last
    BY <1>1, <2>1
  <2>2. CASE last' # last
    <3>1. ~(Top(Head(line).batch) <= last) /\ last' = Top(Head(line).batch)
      BY <1>4, <2>2 DEF Deliver
    <3>2. Head(line) \in Holders /\ Head(line).batch # {}
      <4>1. Take("deliver")
        BY <1>4 DEF Deliver
      <4> QED
        BY <4>1, TakeTypes DEF Take, Typed, Lock
    <3>3. Top(Head(line).batch) \in Ids
      BY <3>2, TopIsGreatest DEF Holders
    <3> QED
      BY <1>1, <3>1, <3>3 DEF Ids
  <2> QED
    BY <2>1, <2>2
<1> QED
  BY <1>1, <1>2, <1>3, <1>4, Untouched

\* Until an instruction is answered its line stays at the head.
LEMMA HeldHead ==
  ASSUME Typed, Next, sent # "no", ~HandleAck, conn'
  PROVE  Head(line') = Head(line)
<1>1. line # <<>> /\ line \in Seq(Holders) /\ conn
  BY DEF Typed, TypeInv, Lock
<1>2. ASSUME NEW h \in Holders, line' = Append(line, h)
      PROVE  Head(line') = Head(line)
  BY <1>1, <1>2, Appended
<1>3. CASE \/ \E m \in Ids : Decide(m)
           \/ \E r \in Runs : Scan(r) \/ Ask(r)
           \/ \E action \in {"start", "stop", "restart"} : Request(action)
  <2>1. line' = line \/ \E h \in Holders : line' = Append(line, h)
    BY <1>3, Joining
  <2> QED
    BY <1>2, <2>1
<1>4. CASE \/ Draw \/ \E m \in Ids : Commit(m) \/ Ready(m)
           \/ Daemon \/ Process \/ WriteStatus
  BY <1>4 DEF Draw, Commit, Ready, Daemon, Process, HandleStart, HandleStop, HandleRestart,
              HandleWake, Deliver, Feed, EndTurn, FailTurn, Exit, Relaunch, WriteStatus,
              serverVars
<1>5. ~Send /\ ~Skip /\ ~Connect /\ ~Cut /\ ~DaemonCrash /\ ~ServerRestart
  BY <1>1 DEF Send, Skip, Connect, Cut, DaemonCrash, ServerRestart, Disconnect
<1> QED
  BY <1>3, <1>4, <1>5 DEF Next, Server, Link

\* The head of a line is one of its holders.
LEMMA HeadInLine ==
  ASSUME Typed, line # <<>>
  PROVE  1 \in DOMAIN line /\ Head(line) = line[1] /\ Head(line) \in Holders
BY Shortened DEF Typed, TypeInv

\* A delivery task's batch stays ahead of the read position until it is answered.
LEMMA NewsKept ==
  ASSUME DeliveryAssumption, Typed, NewsFresh, Next
  PROVE  NewsFresh'
<1>1. CASE sent' = "no"
  BY <1>1 DEF NewsFresh, Delivering
<1>2. CASE sent' # "no" /\ Send
  <2>1. pos' = pos /\ line # <<>>
    BY <1>2 DEF Send, rowVars
  <2>2. CASE Recomputes
    <3>1. Prefix # {} /\ line' = [line EXCEPT ![1].batch = Prefix]
      BY <1>2, <2>2 DEF Send
    <3>2. Head(line').batch = Prefix
      BY <2>1, <2>2, <3>1, HeadBatch
    <3> QED
      BY <2>1, <3>2 DEF NewsFresh, Prefix, Backlog
  <2>3. CASE ~Recomputes
    <3>1. line' = line
      BY <1>2, <2>3 DEF Send
    <3>2. ~(Head(line').kind = "deliver" /\ Head(line').from = "news")
      BY <2>3, <3>1 DEF Recomputes
    <3> QED
      BY <3>2 DEF NewsFresh, Delivering
  <2> QED
    BY <2>2, <2>3
<1>3. CASE sent' # "no" /\ ~Send
  <2>1. sent # "no" /\ ~HandleAck /\ ~Cut /\ ~DaemonCrash /\ ~ServerRestart
    BY <1>3 DEF Next, Draw, Commit, Ready, Decide, Request, Daemon, Process, Server, Link,
         HandleStart, HandleStop, HandleRestart, HandleWake, Deliver, Take, Feed, EndTurn, FailTurn,
         Exit, Relaunch, Scan, Ask, Skip, HandleAck, Release, WriteStatus, Connect, Cut,
         DaemonCrash, ServerRestart, Disconnect, serverVars
  <2>2. conn
    BY <2>1 DEF Typed, Lock
  <2>3. conn'
    BY <2>1, <2>2
       DEF Next, Draw, Commit, Ready, Decide, Request, Daemon, Process, Server, Link,
         HandleStart, HandleStop, HandleRestart, HandleWake, Deliver, Feed, EndTurn, FailTurn,
         Exit, Relaunch, Scan, Ask, Send, Skip, WriteStatus, Connect
  <2>4. Head(line') = Head(line) /\ pos' = pos
    BY <2>1, <2>3, HeldHead, Untouched
  <2> QED
    BY <2>1, <2>4 DEF NewsFresh, Delivering
<1> QED
  BY <1>1, <1>2, <1>3

\* Until the first stop, nothing is behind both the read position and the cursor.
LEMMA AheadKept ==
  ASSUME DeliveryAssumption, Typed, Ahead, Next, ~Spend("stop")
  PROVE  Ahead'
<1> DEFINE Held == feeding # {} \/ (Done(up) /\ Head(line).kind = "deliver")
<1>2. pos \in Int /\ last \in Int
  BY DEF Typed, TypeInv
<1>3. pos' \in Int /\ last' \in Int /\ Typed'
  <2>1. Typed'
    BY NextTyped
  <2> QED
    BY <2>1 DEF Typed, TypeInv
<1>4. ASSUME pos' # pos
      PROVE  conn /\ HandleAck /\ last' = last /\ pos' <= last
  <2> DEFINE b == Head(line).batch
  <2>1. HandleAck
    BY <1>4, Untouched
  <2>2. /\ conn /\ Done(up) /\ Head(line).kind = "deliver" /\ b # {} /\ b \subseteq Ids
        /\ pos' = Top(b)
    BY <1>4, <2>1, AckMoves
  <2>3. Within(b, last)
    BY <2>2 DEF Ahead
  <2> HIDE DEF b
  <2>4. Top(b) \in b
    BY <2>2, TopIsGreatest
  <2> QED
    BY <2>1, <2>2, <2>3, <2>4 DEF Within, HandleAck
<1>5. ASSUME NEW b, b \subseteq Int, conn',
             \/ b \in {{}, Prefix}
             \/ \E j \in DOMAIN line : b = line[j].batch
             \/ \E r \in Runs : b = plan[r].batch
      PROVE  b = {} \/ Past(b, pos') \/ Within(b, last')
  <2>1. b = {} \/ Past(b, pos) \/ Within(b, last)
    BY <1>5 DEF Ahead, Prefix, Backlog, Past
  <2>2. last' >= last
    BY <1>5, CursorMovesOn
  <2>3. CASE pos' # pos
    BY <1>2, <1>3, <1>4, <1>5, <2>1, <2>3 DEF Past, Within
  <2>4. CASE pos' = pos
    BY <1>2, <1>3, <1>5, <2>1, <2>2, <2>4 DEF Past, Within
  <2> QED
    BY <2>3, <2>4
<1>9. ASSUME NEW i \in DOMAIN line'
      PROVE  /\ line'[i].kind # "stop"
             /\ line'[i].batch = {} \/ Past(line'[i].batch, pos') \/ Within(line'[i].batch, last')
  <2>1. line' \in Seq(Holders) /\ line' # <<>>
    BY <1>3 DEF Typed, TypeInv
  <2>2. line'[i].batch \subseteq Int /\ conn'
    <3>1. line'[i] \in Holders
      BY <2>1
    <3>2. conn'
      BY <1>3, <2>1 DEF Typed, Lock
    <3> QED
      BY <3>1, <3>2 DEF Holders, Ids
  <2>3. Planned(line'[i]) \/ Old(line'[i])
    BY Origins
  <2>4. ~Request("stop")
    BY DEF Request
  <2>5. \A r \in Runs : plan[r] # Nothing => plan[r].kind # "stop"
    BY DEF Typed, Lock, Scanned
  <2>6. line'[i].kind # "stop"
    BY <2>3, <2>4, <2>5 DEF Planned, Old, Kept, Ahead
  <2>7. \/ line'[i].batch \in {{}, Prefix}
        \/ \E j \in DOMAIN line : line'[i].batch = line[j].batch
        \/ \E r \in Runs : line'[i].batch = plan[r].batch
    BY <2>3 DEF Planned, Old, Kept
  <2> QED
    BY <1>5, <2>2, <2>6, <2>7
<1>10. ASSUME NEW r \in Runs
       PROVE  plan'[r].batch = {} \/ Past(plan'[r].batch, pos') \/ Within(plan'[r].batch, last')
  <2>1. plan' \in [Runs -> Holders \cup {Nothing}]
    BY <1>3 DEF Typed, TypeInv
  <2>2. CASE plan'[r] = Nothing
    BY <2>2 DEF Nothing
  <2>3. CASE plan'[r] # Nothing
    <3>1. plan'[r] \in Holders /\ conn'
      BY <1>3, <2>1, <2>3 DEF Typed, Lock
    <3>2. plan'[r].batch \subseteq Int
      BY <3>1 DEF Holders, Ids
    <3>3. plan'[r] = plan[r] \/ plan'[r].batch \in {{}, Prefix}
      BY PlanOrigins
    <3> QED
      BY <1>5, <3>1, <3>2, <3>3
  <2> QED
    BY <2>2, <2>3
<1>6. ASSUME conn', conn, Held, Head(line') = Head(line), pos' = pos
      PROVE  Past(Head(line').batch, pos') /\ Within(Head(line').batch, last')
  <2>1. Past(Head(line).batch, pos) /\ Within(Head(line).batch, last)
    BY <1>6 DEF Ahead
  <2>2. last' >= last
    BY <1>6, CursorMovesOn
  <2>3. Head(line).batch \subseteq Int
    <3>1. line # <<>>
      <4>1. Done(up) => ~NoAck(up)
        BY DEF Done, NoAck, Acks
      <4> QED
        BY <1>6, <4>1 DEF Typed, Lock
    <3> QED
      BY <3>1, HeadInLine DEF Holders, Ids
  <2> QED
    BY <1>2, <1>3, <1>6, <2>1, <2>2, <2>3 DEF Past, Within
<1>7. ASSUME conn', feeding' # {}
      PROVE  Past(Head(line').batch, pos') /\ Within(Head(line').batch, last')
  <2>1. CASE feeding # {}
    <3>1. conn /\ sent = "taken" /\ ~HandleAck
      <4>1. ~Connect
        BY <2>1 DEF Connect
      <4>2. conn
        BY <1>7, <4>1
           DEF Next, Draw, Commit, Ready, Decide, Request, Daemon, Process, Server, Link,
               HandleStart, HandleStop, HandleRestart, HandleWake, Deliver, Feed, EndTurn,
               FailTurn, Exit, Relaunch, Scan, Ask, Send, Skip, HandleAck, WriteStatus, Cut,
               DaemonCrash, ServerRestart, Disconnect
      <4>3. NoAck(up)
        BY <2>1 DEF Typed, Lock
      <4> QED
        BY <2>1, <4>2, <4>3 DEF Typed, Lock, HandleAck, NoAck
    <3>2. Head(line') = Head(line) /\ pos' = pos
      BY <1>7, <3>1, HeldHead, Untouched
    <3> QED
      BY <1>6, <1>7, <2>1, <3>1, <3>2
  <2>2. CASE feeding = {}
    <3>1. Deliver
      BY <1>7, <2>2
         DEF Next, Draw, Commit, Ready, Decide, Request, Daemon, Process, Server, Link,
             HandleStart, HandleStop, HandleRestart, HandleWake, Feed, EndTurn,
             FailTurn, Exit, Relaunch, Scan, Ask, Send, Skip, HandleAck, WriteStatus, Connect, Cut,
             DaemonCrash, ServerRestart, feedVars
    <3> DEFINE b == Head(line).batch
    <3>2. /\ ~(Top(b) <= last) /\ last' = Top(b) /\ feeding' = b
          /\ line' = line /\ pos' = pos
      BY <1>7, <2>2, <3>1 DEF Deliver, rowVars
    <3>3. line # <<>> /\ b \subseteq Ids
      <4>1. line # <<>> /\ Head(line) \in Holders
        BY <3>1, TakeTypes DEF Deliver
      <4> QED
        BY <4>1 DEF Holders
    <3>4. b # {} /\ (b = {} \/ Past(b, pos) \/ Within(b, last))
      BY <1>7, <3>2, <3>3, HeadInLine DEF Ahead
    <3> HIDE DEF b
    <3>5. Top(b) \in b /\ \A k \in b : k <= Top(b)
      BY <3>3, <3>4, TopIsGreatest
    <3>6. ~Within(b, last)
      BY <3>2, <3>5 DEF Within
    <3>7. Past(b, pos') /\ Within(b, last')
      BY <3>2, <3>4, <3>5, <3>6 DEF Past, Within
    <3> QED
      BY <3>2, <3>7 DEF b
  <2> QED
    BY <2>1, <2>2
<1>8. ASSUME conn', Done(up'), Head(line').kind = "deliver"
      PROVE  Past(Head(line').batch, pos') /\ Within(Head(line').batch, last')
  <2>1. CASE Done(up) /\ conn /\ Head(line') = Head(line) /\ ~HandleAck
    BY <1>6, <1>8, <2>1, Untouched
  <2>2. CASE Feed /\ conn /\ line' = line
    <3>1. Held /\ pos' = pos
      BY <2>2 DEF Feed, rowVars
    <3> QED
      BY <1>6, <1>8, <2>2, <3>1
  <2> QED
    BY <1>8, <2>1, <2>2, Answering
<1> QED
  BY <1>7, <1>8, <1>9, <1>10 DEF Ahead

LEMMA OnwardKept ==
  ASSUME DeliveryAssumption, Typed, Onward, Next
  PROVE  Onward'
<1>1. Spent' /\ NewsFresh'
  BY SpentKept, NewsKept DEF Onward
<1>2. ASSUME Unstopped'
      PROVE  Ahead'
  <2>1. left["stop"] = Budget["stop"] /\ ~Spend("stop")
    BY <1>2, SpentKept DEF Onward, Unstopped, Events
  <2> QED
    BY <2>1, AheadKept DEF Onward, Unstopped
<1> QED
  BY <1>1, <1>2 DEF Onward

LEMMA StutterOnward ==
  ASSUME Onward, UNCHANGED vars
  PROVE  Onward'
<1>1. UNCHANGED <<left, line, plan, sent, pos, last, conn, feeding, up>>
  BY DEF vars, serverVars, rowVars, feedVars
<1>2. Spent' /\ NewsFresh'
  BY <1>1 DEF Onward, Spent, NewsFresh, Delivering
<1>3. Unstopped' => Ahead'
  BY <1>1 DEF Onward, Unstopped, Ahead, Past, Within, Done
<1> QED
  BY <1>2, <1>3 DEF Onward

LEMMA InitOnward ==
  ASSUME DeliveryAssumption, Init
  PROVE  Onward
<1>1. /\ left = Budget /\ line = <<>> /\ DOMAIN <<>> = {} /\ sent = "no" /\ conn = FALSE
      /\ \A r \in Runs : plan[r].batch = {}
  BY DEF Init, Nothing
<1>2. Spent
  BY <1>1 DEF Spent, DeliveryAssumption
<1> QED
  BY <1>1, <1>2 DEF Onward, NewsFresh, Delivering, Ahead

\* A step that moves the read position back answers a batch that reconcile()
\* planned, and there has been a stop.
LEMMA MovesOn ==
  ASSUME DeliveryAssumption, Typed, Onward, Next, pos' < pos
  PROVE  ~Unstopped /\ Head(line).kind = "deliver" /\ Head(line).from = "scan"
<1> DEFINE b == Head(line).batch
<1>1. pos \in Int
  BY DEF Typed, TypeInv
<1>2. HandleAck /\ pos' # pos
  BY <1>1, Untouched
<1>3. /\ line # <<>> /\ conn /\ Done(up) /\ Head(line).kind = "deliver" /\ sent = "taken"
      /\ b # {} /\ b \subseteq Ids /\ pos' = Top(b) /\ Top(b) \in b
  BY <1>2, AckMoves
<1>4. Head(line).from \in {"news", "scan"}
  BY <1>3, HeadInLine DEF Typed, Lock, Armed
<1>5. Head(line).from # "news"
  <2>1. pos' \in Int /\ pos' \in b
    BY <1>3 DEF Ids
  <2>2. ~(pos' > pos)
    BY <1>1, <2>1
  <2> QED
    BY <1>3, <2>1, <2>2 DEF Onward, NewsFresh, Delivering
<1>6. ~Unstopped
  <2> SUFFICES ASSUME Unstopped
               PROVE  FALSE
    OBVIOUS
  <2>1. Past(b, pos)
    BY <1>3 DEF Onward, Ahead
  <2> HIDE DEF b
  <2>2. PICK k \in b : k > pos
    BY <2>1 DEF Past
  <2>4. k <= Top(b) /\ k \in Ids /\ Top(b) \in Ids
    BY <1>3, <2>2, TopIsGreatest
  <2>3. k <= Top(b) /\ k \in Int /\ Top(b) \in Int
    BY <2>4 DEF Ids
  <2> QED
    BY <1>1, <1>3, <2>2, <2>3
<1> QED
  BY <1>3, <1>4, <1>5, <1>6

\* Whatever is lost, restarted or fed again, and in whatever order ids become
\* visible: the read position moves back only by a batch that reconcile()
\* planned, and only after the agent has been stopped.
THEOREM ReadOnwardHolds == Spec => ReadOnward
<1> DEFINE IInv == Typed /\ Onward
<1>1. Init => IInv
  BY DeliveryAssumption, InitTyped, InitOnward
<1>2. ASSUME IInv, [Next]_vars
      PROVE  IInv'
  <2>1. CASE Next
    BY <1>2, <2>1, DeliveryAssumption, NextTyped, OnwardKept
  <2>2. CASE UNCHANGED vars
    BY <1>2, <2>2, StutterTyped, StutterOnward
  <2> QED
    BY <1>2, <2>1, <2>2
<1>3. ASSUME IInv, [Next]_vars
      PROVE  [ pos' < pos => ~Unstopped /\ Head(line).kind = "deliver" /\ Head(line).from = "scan" ]_vars
  BY <1>3, DeliveryAssumption, MovesOn
<1> QED
  BY <1>1, <1>2, <1>3, PTL DEF Spec, ReadOnward

-----------------------------------------------------------------------------
(* When a message is fed again *)

\* Before the first loss of a connection nothing is fed without one, and what
\* was fed is covered by the read position, or by an ack that will move it.
Counted ==
  /\ ~conn => feeding = {}
  /\ \A m \in Ids :
       fed[m] # 0 => m <= pos \/ (Delivering /\ Done(up) /\ m \in Head(line).batch)

Again == Unbroken /\ Unstopped => Counted

\* An ack done is on the way until it is handled, or the link is lost.
LEMMA DoneStays ==
  ASSUME Typed, Done(up), Next, ~HandleAck, ~Cut, ~DaemonCrash, ~ServerRestart
  PROVE  Done(up') /\ sent' = sent /\ ~Feed /\ sent = "taken"
<1>1. up \in Seq(Frames)
  BY DEF Typed, TypeInv, Frames
<1>2. ~NoAck(up) /\ OneAck(up) /\ sent = "taken" /\ feeding = {} /\ conn /\ up # <<>>
  <2>1. ~NoAck(up) /\ up # <<>>
    BY DEF Done, NoAck, Acks
  <2> QED
    BY <2>1 DEF Typed, Lock
<1>3. ~Take("start") /\ ~Take("stop") /\ ~Take("restart") /\ ~Take("wake") /\ ~Take("deliver")
  BY <1>2 DEF Take
<1>4. ~HandleStart /\ ~HandleStop /\ ~HandleRestart /\ ~HandleWake /\ ~Deliver /\ ~Feed
      /\ ~Send /\ ~Skip /\ ~Connect
  BY <1>2, <1>3 DEF HandleStart, HandleStop, HandleRestart, HandleWake, Deliver, Feed, Send, Skip,
                    Connect
<1>5. sent' = sent
  BY <1>4 DEF Next, Draw, Commit, Ready, Decide, Request, Daemon, Process, Server, Link,
              EndTurn, FailTurn, Exit, Relaunch, Scan, Ask, WriteStatus, serverVars
<1>6. ASSUME NEW t \in Seq(Frames), Tell(t)
      PROVE  Done(up')
  <2>1. up' = up \o t
    BY <1>2, <1>6 DEF Tell
  <2>2. \A i \in DOMAIN up : i \in DOMAIN up' /\ up'[i] = up[i]
    BY <1>1, <1>6, <2>1, Joined
  <2> QED
    BY <2>2 DEF Done
<1>7. CASE EndTurn \/ FailTurn \/ Relaunch
  <2>1. \E t \in {<<"idle">>, <<"error">>, <<"starting", "idle">>} : Tell(t)
    BY <1>7 DEF EndTurn, FailTurn, Relaunch
  <2>2. \A t \in {<<"idle">>, <<"error">>, <<"starting", "idle">>} : t \in Seq(Frames)
    BY Reports DEF Statuses
  <2> QED
    BY <1>2, <1>4, <1>5, <1>6, <2>1, <2>2
<1>8. CASE WriteStatus
  <2>1. up' = Tail(up) /\ Head(up) \in Statuses
    BY <1>8 DEF WriteStatus
  <2>2. PICK i \in DOMAIN up : up[i] = "done"
    BY DEF Done
  <2>3. Head(up) = up[1] /\ \A j \in DOMAIN up : j # 1 => j - 1 \in DOMAIN up' /\ up'[j - 1] = up[j]
    BY <1>1, <1>2, <2>1, Shortened
  <2>4. i # 1
    BY <2>1, <2>2, <2>3 DEF Statuses
  <2> QED
    BY <1>2, <1>4, <1>5, <2>2, <2>3, <2>4 DEF Done
<1>9. CASE ~EndTurn /\ ~FailTurn /\ ~Relaunch /\ ~WriteStatus
  <2>1. up' = up
    BY <1>4, <1>9 DEF Next, Draw, Commit, Ready, Decide, Request, Daemon, Process, Server, Link,
              Exit, Scan, Ask
  <2> QED
    BY <1>2, <1>4, <1>5, <2>1
<1> QED
  BY <1>2, <1>4, <1>5, <1>7, <1>8, <1>9

\* Steps that feed nothing and answer nothing.
LEMMA CountQuiet ==
  ASSUME DeliveryAssumption, Typed, Counted, Next, ~HandleAck, ~Feed,
         ~Cut, ~DaemonCrash, ~ServerRestart
  PROVE  Counted'
<1>1. pos' = pos /\ fed' = fed
  BY DEF Next, Draw, Commit, Ready, Decide, Request, Daemon, Process, Server, Link,
         HandleStart, HandleStop, HandleRestart, HandleWake, Deliver, EndTurn, FailTurn,
         Exit, Relaunch, Scan, Ask, Send, Skip, WriteStatus, Connect, rowVars, feedVars
<1>2. conn => conn'
  BY DEF Next, Draw, Commit, Ready, Decide, Request, Daemon, Process, Server, Link,
         HandleStart, HandleStop, HandleRestart, HandleWake, Deliver, EndTurn, FailTurn,
         Exit, Relaunch, Scan, Ask, Send, Skip, WriteStatus, Connect
<1>3. ~conn' => feeding' = {}
  <2>1. ~conn => ~Deliver
    BY TakeTypes DEF Deliver
  <2>2. feeding' = feeding \/ feeding' = {} \/ Deliver
    BY DEF Next, Draw, Commit, Ready, Decide, Request, Daemon, Process, Server, Link,
         HandleStart, HandleStop, HandleRestart, HandleWake, EndTurn, FailTurn,
         Exit, Relaunch, Scan, Ask, Send, Skip, WriteStatus, Connect, feedVars
  <2> QED
    BY <1>2, <2>1, <2>2 DEF Counted
<1>4. ASSUME Delivering, Done(up)
      PROVE  Delivering' /\ Done(up') /\ Head(line') = Head(line)
  <2>1. Done(up') /\ sent' = sent
    BY <1>4, DoneStays
  <2>2. conn'
    <3>1. conn
      BY <1>4 DEF Delivering, Typed, Lock
    <3> QED
      BY <1>2, <3>1
  <2>3. Head(line') = Head(line)
    BY <1>4, <2>2, HeldHead DEF Delivering
  <2> QED
    BY <1>4, <2>1, <2>3 DEF Delivering
<1> QED
  BY <1>1, <1>3, <1>4 DEF Counted

\* What is fed is the batch at the head, and its ack goes with it.
LEMMA FeedsHead ==
  ASSUME DeliveryAssumption, Typed, Counted, Feed
  PROVE  /\ conn /\ feeding # {} /\ UNCHANGED <<pos, line, sent, conn>> /\ feeding' = {}
         /\ sent = "taken" /\ line # <<>> /\ Head(line).kind = "deliver"
         /\ Head(line).batch = feeding /\ ~Done(up) /\ Done(up')
         /\ fed' \in {fed, [m \in Ids |-> IF m \in feeding THEN fed[m] + 1 ELSE fed[m]]}
<1>1. /\ conn /\ feeding # {} /\ UNCHANGED <<pos, line, sent, conn>> /\ feeding' = {}
      /\ up' = up \o <<"done">>
      /\ fed' \in {fed, [m \in Ids |-> IF m \in feeding THEN fed[m] + 1 ELSE fed[m]]}
  BY DEF Feed, Tell, Counted, serverVars, rowVars
<1>2. /\ sent = "taken" /\ Head(line).kind = "deliver" /\ Head(line).batch = feeding /\ NoAck(up)
      /\ line # <<>>
  BY <1>1 DEF Typed, Lock
<1>3. ~Done(up)
  BY <1>2 DEF NoAck, Done, Acks
<1>4. Done(up')
  <2>1. up \in Seq(Frames) /\ <<"done">> \in Seq(Frames) /\ 1 \in DOMAIN <<"done">>
        /\ <<"done">>[1] = "done"
    BY Reports DEF Typed, TypeInv, Frames, Acks
  <2>2. Len(up) + 1 \in DOMAIN up' /\ up'[Len(up) + 1] = "done"
    BY <1>1, <2>1, Joined
  <2> QED
    BY <2>2 DEF Done
<1> QED
  BY <1>1, <1>2, <1>3, <1>4

LEMMA CountFeed ==
  ASSUME DeliveryAssumption, Typed, Counted, Feed
  PROVE  Counted'
<1>1. /\ conn /\ UNCHANGED <<pos, line, sent, conn>>
      /\ sent = "taken" /\ Head(line).kind = "deliver"
      /\ Head(line).batch = feeding /\ ~Done(up) /\ Done(up')
      /\ fed' \in {fed, [m \in Ids |-> IF m \in feeding THEN fed[m] + 1 ELSE fed[m]]}
  BY FeedsHead
<1>2. \A m \in Ids : fed[m] # 0 => m <= pos
  BY <1>1 DEF Counted
<1>3. \A m \in Ids : m \notin feeding => fed'[m] = fed[m]
  BY <1>1
<1>4. Delivering' /\ Head(line').batch = feeding
  BY <1>1 DEF Delivering
<1> QED
  BY <1>1, <1>2, <1>3, <1>4 DEF Counted

\* The ack of a batch that was fed moves the read position over it.
LEMMA CountAck ==
  ASSUME DeliveryAssumption, Typed, Ahead, Counted, HandleAck
  PROVE  Counted'
<1>1. PICK i \in DOMAIN up :
        /\ up[i] \in Acks /\ fed' = fed /\ conn' = conn /\ feeding' = feeding
        /\ pos' = IF Head(line).kind = "deliver" /\ up[i] = "done"
                    THEN Top(Head(line).batch) ELSE pos
  BY DEF HandleAck, feedVars
<1>2. ~NoAck(up) /\ up # <<>>
  BY <1>1 DEF NoAck
<1>3. OneAck(up) /\ sent = "taken" /\ line # <<>> /\ conn
  BY <1>2 DEF Typed, Lock
<1>4. Head(line) \in Holders
  BY <1>3, HeadInLine
<1>5. pos \in Int /\ \A m \in Ids : m \in Int
  BY DEF Typed, TypeInv, Ids
<1>6. CASE Head(line).kind = "deliver" /\ up[i] = "done"
  <2> DEFINE b == Head(line).batch
  <2>1. b # {} /\ b \subseteq Ids /\ Past(b, pos)
    BY <1>1, <1>3, <1>4, <1>6 DEF Typed, Lock, Holders, Ahead, Done
  <2>2. pos' = Top(b)
    BY <1>1, <1>6
  <2>3. \A m \in Ids : fed[m] # 0 => m <= pos \/ m \in b
    BY DEF Counted
  <2> HIDE DEF b
  <2>4. Top(b) \in b /\ Top(b) \in Ids /\ \A m \in b : m <= Top(b)
    BY <2>1, TopIsGreatest
  <2>5. PICK k \in b : k > pos
    BY <2>1 DEF Past
  <2>6. k <= Top(b) /\ k \in Int
    BY <1>5, <2>1, <2>4
  <2>7. pos' \in Int /\ pos' > pos /\ \A m \in b : m <= pos'
    BY <1>5, <2>2, <2>4, <2>5, <2>6
  <2>8. \A m \in Ids : fed'[m] # 0 => m <= pos'
    BY <1>1, <1>5, <2>3, <2>7
  <2> QED
    BY <1>1, <2>8 DEF Counted
<1>7. CASE ~(Head(line).kind = "deliver" /\ up[i] = "done")
  <2>1. pos' = pos
    BY <1>1, <1>7
  <2>2. ~(Delivering /\ Done(up))
    <3>1. Done(up) => up[i] = "done"
      BY <1>1, <1>3 DEF Done, OneAck, Acks
    <3> QED
      BY <1>7, <3>1 DEF Delivering
  <2>3. \A m \in Ids : fed[m] # 0 => m <= pos
    BY <2>2 DEF Counted
  <2> QED
    BY <1>1, <2>1, <2>3 DEF Counted
<1> QED
  BY <1>6, <1>7

LEMMA AgainKept ==
  ASSUME DeliveryAssumption, Typed, Onward, Again, Next
  PROVE  Again'
<1> SUFFICES ASSUME Unbroken', Unstopped'
             PROVE  Counted'
  BY DEF Again
<1>1. \A e \in {"cut", "crash", "server", "stop"} : left[e] = Budget[e] /\ ~Spend(e)
  BY SpentKept DEF Onward, Unbroken, Unstopped, Events
<1>2. Unbroken /\ Unstopped /\ ~Cut /\ ~DaemonCrash /\ ~ServerRestart
  BY <1>1 DEF Unbroken, Unstopped, Cut, DaemonCrash, ServerRestart
<1>3. Counted /\ Ahead
  BY <1>2 DEF Again, Onward
<1> QED
  BY <1>2, <1>3, CountQuiet, CountFeed, CountAck

\* What is fed again comes from reconcile(), with something new.
LEMMA FeedsNew ==
  ASSUME DeliveryAssumption, Typed, Onward, Again, Next, fed' # fed, Unbroken, Unstopped
  PROVE  /\ \E m \in Ids : fed[m] = 0 /\ fed'[m] # 0
         /\ \A m \in Ids : fed[m] # 0 /\ fed'[m] # fed[m] => Head(line).from = "scan"
<1>1. Feed
  BY DEF Next, Draw, Commit, Ready, Decide, Request, Daemon, Process, Server, Link,
         HandleStart, HandleStop, HandleRestart, HandleWake, Deliver, EndTurn, FailTurn,
         Exit, Relaunch, Scan, Ask, Send, Skip, HandleAck, WriteStatus, Connect, Cut,
         DaemonCrash, ServerRestart, feedVars
<1>2. Counted /\ Ahead /\ NewsFresh
  BY DEF Again, Onward
<1>3. /\ conn /\ feeding # {} /\ sent = "taken" /\ line # <<>> /\ Head(line).kind = "deliver"
      /\ Head(line).batch = feeding /\ ~Done(up)
      /\ fed' = [m \in Ids |-> IF m \in feeding THEN fed[m] + 1 ELSE fed[m]]
  BY <1>1, <1>2, FeedsHead
<1>4. \A m \in Ids : fed[m] # 0 => m <= pos
  BY <1>2, <1>3 DEF Counted
<1>5. /\ pos \in Int /\ feeding \subseteq Ids /\ \A m \in Ids : m \in Int /\ fed[m] \in Nat
  BY DEF Typed, TypeInv, Ids
<1>6. PICK k \in feeding : k > pos
  BY <1>2, <1>3 DEF Ahead, Past
<1>7. fed[k] = 0 /\ fed'[k] # 0 /\ k \in Ids
  BY <1>3, <1>4, <1>5, <1>6
<1>8. ASSUME NEW m \in Ids, fed[m] # 0, fed'[m] # fed[m]
      PROVE  Head(line).from = "scan"
  <2>1. m \in feeding /\ m <= pos /\ m \in Int
    BY <1>3, <1>4, <1>5, <1>8
  <2>2. ~(m > pos)
    BY <1>5, <2>1
  <2>3. Head(line).from # "news"
    BY <1>2, <1>3, <2>1, <2>2 DEF NewsFresh, Delivering
  <2> QED
    BY <1>3, <2>3, HeadInLine DEF Typed, Lock, Armed
<1> QED
  BY <1>7, <1>8

\* Until the connection is lost or the agent stopped for the first time, for any
\* number of overlapping delivery tasks, runs of reconcile(), requests, exits and
\* failed turns: every batch that is fed carries a new message, and one that
\* repeats a message was planned by reconcile().
THEOREM FedAgainHolds == Spec => FedAgain
<1> DEFINE IInv == Typed /\ Onward /\ Again
<1>1. ASSUME Init
      PROVE  IInv
  <2>1. feeding = {} /\ \A m \in Ids : fed[m] = 0
    BY <1>1 DEF Init
  <2>2. Again
    BY <2>1 DEF Again, Counted
  <2> QED
    BY <1>1, <2>2, DeliveryAssumption, InitTyped, InitOnward
<1>2. ASSUME IInv, [Next]_vars
      PROVE  IInv'
  <2>1. CASE Next
    BY <1>2, <2>1, DeliveryAssumption, NextTyped, OnwardKept, AgainKept
  <2>2. CASE UNCHANGED vars
    <3>1. UNCHANGED <<left, conn, feeding, fed, pos, sent, line, up>>
      BY <2>2 DEF vars, serverVars, rowVars, feedVars
    <3>2. Again'
      BY <1>2, <3>1 DEF Again, Unbroken, Unstopped, Counted, Delivering, Done
    <3> QED
      BY <1>2, <2>2, <3>2, StutterTyped, StutterOnward
  <2> QED
    BY <1>2, <2>1, <2>2
<1>3. ASSUME IInv, [Next]_vars
      PROVE  [ fed' # fed /\ Unbroken /\ Unstopped =>
                 /\ \E m \in Ids : fed[m] = 0 /\ fed'[m] # 0
                 /\ \A m \in Ids : fed[m] # 0 /\ fed'[m] # fed[m] => Head(line).from = "scan" ]_vars
  BY <1>3, DeliveryAssumption, FeedsNew
<1> QED
  BY <1>1, <1>2, <1>3, PTL DEF Spec, FedAgain
=============================================================================
