---------------------------- MODULE PostingProofs ----------------------------
(***************************************************************************)
(* Theorems about Posting for every set of requests, keys and uploads, any *)
(* escalation threshold and any fault budget.                              *)
(***************************************************************************)
EXTENDS Posting, TLAPS

-----------------------------------------------------------------------------
(* How a request moves *)

\* Request r goes to step s; what it has bound, and the other requests, stay.
Moves(r, s) ==
  /\ op' \in [Requests -> Ops]
  /\ op'[r].pc = s /\ op'[r].bound = op[r].bound
  /\ \A q \in Requests \ {r} : op'[q] = op[q]

\* A request that takes a step and new data stays a request.
LEMMA OpsUpdate ==
  ASSUME NEW o \in Ops, NEW s \in Steps, NEW d \in Posts \cup {None},
         NEW n \in Nat, NEW f \in SUBSET Uploads
  PROVE  /\ [o EXCEPT !.files = f, !.pc = s] \in Ops
         /\ [o EXCEPT !.pc = s, !.draft = d, !.seen = n] \in Ops
         /\ [o EXCEPT !.pc = s, !.draft = d, !.files = f] \in Ops
         /\ [o EXCEPT !.bound = f] \in Ops
         /\ [o EXCEPT !.pc = s, !.bound = f] \in Ops
BY DEF Ops

\* Go moves a request.
LEMMA GoMoves ==
  ASSUME op \in [Requests -> Ops], NEW r \in Requests, NEW s \in Steps, Go(r, s)
  PROVE  Moves(r, s)
<1>1. [op[r] EXCEPT !.pc = s] \in Ops
  BY DEF Ops
<1> QED
  BY <1>1 DEF Go, Moves, Ops

\* A live draft is a draft.
LEMMA LiveDraftType ==
  /\ Live \subseteq Posts
  /\ Live # {} => LiveDraft \in Posts
  /\ LiveDraft \in Posts \cup {None}
BY DEF Live, LiveDraft

\* A recorded key answers with an end of the request.
LEMMA AnswerType ==
  ASSUME NEW r, NEW files
  PROVE  Answer(r, files) \in {"refused", "hit", "missing"}
BY DEF Answer

\* lookup chooses the files of the request and answers it or goes to the gate.
LEMMA LookupMoves ==
  ASSUME PostingAssumption, op \in [Requests -> Ops], NEW r \in Requests,
         NEW files \in Bodies, Lookup(r, files)
  PROVE  \E s \in Ended \cup {"gate"} : Moves(r, s) /\ At(r, "new")
<1> DEFINE s == IF Recorded(r) THEN Answer(r, files) ELSE "gate"
<1>1. s \in Ended \cup {"gate"} /\ s \in Steps
  BY AnswerType DEF Ended, Steps
<1>2. files \in SUBSET Uploads
  BY DEF PostingAssumption
<1>3. op' = [op EXCEPT ![r].files = files, ![r].pc = s] /\ At(r, "new")
  BY DEF Lookup
<1> HIDE DEF s
<1>4. [op[r] EXCEPT !.files = files, !.pc = s] \in Ops
  BY <1>1, <1>2, OpsUpdate
<1>5. Moves(r, s)
  BY <1>3, <1>4 DEF Moves, Ops
<1> QED
  BY <1>1, <1>3, <1>5

\* The gate lets the request pass or remembers the draft it found.
LEMMA GateMoves ==
  ASSUME TypeInv, NEW r \in Requests, Gate(r)
  PROVE  \E s \in {"hold", "record"} : Moves(r, s) /\ At(r, "gate")
<1>1. op \in [Requests -> Ops] /\ count \in [Posts -> Nat]
  BY DEF TypeInv, DraftTypes
<1>2. CASE r \in ByAgent /\ unread
  <2> DEFINE n == IF Live = {} THEN 0 ELSE count[LiveDraft]
             d == LiveDraft
  <2>1. n \in Nat /\ d \in Posts \cup {None}
    BY <1>1, LiveDraftType
  <2>2. op' = [op EXCEPT ![r].pc = "hold", ![r].draft = d, ![r].seen = n] /\ At(r, "gate")
    BY <1>2 DEF Gate
  <2> HIDE DEF n, d
  <2>3. [op[r] EXCEPT !.pc = "hold", !.draft = d, !.seen = n] \in Ops
    BY <1>1, <2>1, OpsUpdate DEF Steps
  <2>4. Moves(r, "hold")
    BY <1>1, <2>2, <2>3 DEF Moves, Ops
  <2> QED
    BY <2>2, <2>4
<1>3. CASE ~(r \in ByAgent /\ unread)
  BY <1>1, <1>3, GoMoves DEF Gate, Steps
<1> QED
  BY <1>2, <1>3

\* hold_or_update ends the request.
LEMMA HoldMoves ==
  ASSUME op \in [Requests -> Ops], NEW r \in Requests, Hold(r)
  PROVE  \E s \in Ended : Moves(r, s) /\ At(r, "hold")
<1>1. Go(r, "held") \/ Go(r, "failed")
  BY DEF Hold, Rehold
<1> QED
  BY <1>1, GoMoves DEF Hold, Ended, Steps

\* record lets the request write or answers it.
LEMMA RecordMoves ==
  ASSUME op \in [Requests -> Ops], NEW r \in Requests, Record(r)
  PROVE  \E s \in Ended \cup {"write"} : Moves(r, s) /\ At(r, "record")
<1> DEFINE a == Answer(r, op[r].files)
<1>1. a \in Ended /\ a \in Steps
  BY AnswerType DEF Ended, Steps
<1>2. (Go(r, "write") \/ Go(r, a)) /\ At(r, "record")
  BY DEF Record
<1> HIDE DEF a
<1>3. "write" \in Steps
  BY DEF Steps
<1> QED
  BY <1>1, <1>2, <1>3, GoMoves

\* A button reads the draft and goes to its own step or is refused.
LEMMA CheckMoves ==
  ASSUME PostingAssumption, TypeInv, NEW h \in Humans, NEW d \in Posts,
         NEW step \in {"write", "discard", "reevaluate"}, Check(h, step, d)
  PROVE  \E s \in {"write", "discard", "reevaluate", "refused"} : Moves(h, s) /\ At(h, "new")
<1>1. /\ op \in [Requests -> Ops] /\ payload[d] \in SUBSET Uploads
      /\ h \in Requests /\ step \in Steps /\ "refused" \in Steps
  BY DEF TypeInv, DraftTypes, Requests, Steps, Ended
<1>2. CASE status[d] \in Terminal
  <2>1. Go(h, "refused") /\ At(h, "new")
    BY <1>2 DEF Check, Go
  <2> QED
    BY <1>1, <2>1, GoMoves
<1>3. CASE status[d] \notin Terminal
  <2> DEFINE p == payload[d]
  <2>1. op' = [op EXCEPT ![h].pc = step, ![h].draft = d, ![h].files = p] /\ At(h, "new")
    BY <1>3 DEF Check
  <2>2. [op[h] EXCEPT !.pc = step, !.draft = d, !.files = p] \in Ops
    BY <1>1, OpsUpdate
  <2> HIDE DEF p
  <2>3. Moves(h, step)
    BY <1>1, <2>1, <2>2 DEF Moves, Ops
  <2> QED
    BY <2>1, <2>3
<1> QED
  BY <1>2, <1>3

-----------------------------------------------------------------------------
(* Type correctness *)

\* A part of the type invariant whose variables do not change still holds.
LEMMA Untouched ==
  /\ FileTypes /\ UNCHANGED fileVars => FileTypes'
  /\ MessageTypes /\ UNCHANGED msgVars => MessageTypes'
  /\ DraftTypes /\ UNCHANGED <<draftVars, unread>> => DraftTypes'
  /\ ScanTypes /\ UNCHANGED <<scan, gcVars, left>> => ScanTypes'
<1>1. FileTypes /\ UNCHANGED fileVars => FileTypes'
  BY DEF FileTypes, fileVars
<1>2. MessageTypes /\ UNCHANGED msgVars => MessageTypes'
  BY DEF MessageTypes, msgVars
<1>3. DraftTypes /\ UNCHANGED <<draftVars, unread>> => DraftTypes'
  BY DEF DraftTypes, draftVars
<1>4. ScanTypes /\ UNCHANGED <<scan, gcVars, left>> => ScanTypes'
  BY DEF ScanTypes, gcVars
<1> QED
  BY <1>1, <1>2, <1>3, <1>4

\* The lock stays with its request while another request moves, and a free lock
\* stays free.
LEMMA LockStays ==
  ASSUME LockHeld, NEW r \in Requests, NEW s, Moves(r, s), UNCHANGED lock,
         ~At(r, "bind") \/ s = "bind"
  PROVE  LockHeld'
BY DEF LockHeld, Moves, At

\* Outside the transaction a request moves without the lock.
LEMMA MoveTypes ==
  ASSUME op \in [Requests -> Ops], LockHeld, NEW r \in Requests, NEW s \in Steps,
         Go(r, s), ~At(r, "bind"), UNCHANGED lock
  PROVE  op' \in [Requests -> Ops] /\ LockHeld'
<1>1. Moves(r, s)
  BY GoMoves
<1> QED
  BY <1>1, LockStays DEF Moves

\* A write of drafts keeps their types.
LEMMA ReholdTypes ==
  ASSUME DraftTypes, op \in [Requests -> Ops], NEW r \in Requests,
         NEW d \in Posts, NEW before \in Nat, Rehold(r, d, before)
  PROVE  DraftTypes'
<1>1. CASE Clashes(d)
  BY <1>1, Untouched DEF Rehold
<1>2. CASE ~Clashes(d)
  <2> DEFINE e == before + 1 >= EscalateN /\ raised[d] = 0
             plus == IF e THEN 1 ELSE 0
             f == op[r].files
             n == before + 1
  <2>1. plus \in Nat /\ f \in SUBSET Uploads /\ n \in Nat
    BY DEF Ops
  <2>2. /\ status' = [status EXCEPT ![d] = "held"]
        /\ payload' = [payload EXCEPT ![d] = f]
        /\ count' = [count EXCEPT ![d] = n]
        /\ raised' = [raised EXCEPT ![d] = @ + plus]
        /\ unread' = (unread \/ e)
    BY <1>2 DEF Rehold
  <2> HIDE DEF e, plus, f, n
  <2>3. raised' \in [Posts -> Nat]
    BY <2>1, <2>2 DEF DraftTypes
  <2>4. unread' \in BOOLEAN
    BY <2>2
  <2> QED
    BY <2>1, <2>2, <2>3, <2>4 DEF DraftTypes, Active
<1> QED
  BY <1>1, <1>2

LEMMA HoldTypes ==
  ASSUME PostingAssumption, TypeInv, NEW r \in Requests, Hold(r)
  PROVE  TypeInv'
<1>1. op \in [Requests -> Ops] /\ DraftTypes /\ LockHeld
  BY DEF TypeInv
<1>2. DraftTypes'
  <2>1. CASE op[r].draft # None
    <3>1. op[r].draft \in Posts /\ op[r].seen \in Nat
      BY <1>1, <2>1 DEF Ops
    <3>2. Rehold(r, op[r].draft, op[r].seen)
      BY <2>1 DEF Hold
    <3> QED
      BY <1>1, <3>1, <3>2, ReholdTypes
  <2>2. CASE op[r].draft = None /\ Live # {}
    <3>1. LiveDraft \in Posts /\ count[LiveDraft] \in Nat
      BY <1>1, <2>2, LiveDraftType DEF DraftTypes
    <3>2. Rehold(r, LiveDraft, count[LiveDraft])
      BY <2>2 DEF Hold
    <3> QED
      BY <1>1, <3>1, <3>2, ReholdTypes
  <2>3. CASE op[r].draft = None /\ Live = {}
    <3> DEFINE f == op[r].files
    <3>1. /\ status' = [status EXCEPT ![r] = "held"]
          /\ payload' = [payload EXCEPT ![r] = f]
          /\ count' = [count EXCEPT ![r] = 1]
          /\ UNCHANGED <<raised, unread>>
      BY <2>3 DEF Hold
    <3>2. f \in SUBSET Uploads
      BY <1>1 DEF Ops
    <3> HIDE DEF f
    <3> QED
      BY <1>1, <3>1, <3>2 DEF DraftTypes, Active
  <2> QED
    BY <2>1, <2>2, <2>3
<1>3. op' \in [Requests -> Ops] /\ LockHeld'
  BY <1>1, HoldMoves, LockStays DEF Moves, Hold, At
<1>4. FileTypes' /\ MessageTypes' /\ ScanTypes'
  BY Untouched DEF Hold, TypeInv
<1> QED
  BY <1>2, <1>3, <1>4 DEF TypeInv

\* The other steps of a request before its transaction, and its end.
LEMMA BeforeTypes ==
  ASSUME PostingAssumption, TypeInv, NEW r \in Requests,
         \/ \E files \in Bodies : Lookup(r, files)
         \/ Gate(r)
         \/ r \in Posts /\ Record(r)
         \/ Begin(r)
  PROVE  TypeInv'
<1>1. op \in [Requests -> Ops] /\ LockHeld
  BY DEF TypeInv
<1>2. CASE \E files \in Bodies : Lookup(r, files)
  <2>1. op' \in [Requests -> Ops] /\ LockHeld'
    BY <1>1, <1>2, LookupMoves, LockStays DEF Moves, Lookup, At
  <2> QED
    BY <1>2, <2>1, Untouched DEF Lookup, TypeInv
<1>3. CASE Gate(r)
  <2>1. op' \in [Requests -> Ops] /\ LockHeld'
    BY <1>1, <1>3, GateMoves, LockStays DEF Moves, Gate, At
  <2> QED
    BY <1>3, <2>1, Untouched DEF Gate, TypeInv
<1>4. CASE r \in Posts /\ Record(r)
  <2>1. op' \in [Requests -> Ops] /\ LockHeld'
    BY <1>1, <1>4, RecordMoves, LockStays DEF Moves, Record, At
  <2>2. ledger' = ledger \/ (ledger' = [ledger EXCEPT ![KeyOf[r]] = r] /\ KeyOf[r] # None)
    BY <1>4 DEF Record
  <2>3. MessageTypes'
    BY <1>4, <2>2 DEF Record, MessageTypes, TypeInv
  <2> QED
    BY <1>4, <2>1, <2>3, Untouched DEF Record, TypeInv
<1>5. CASE Begin(r)
  <2>1. Moves(r, "bind")
    BY <1>1, <1>5, GoMoves DEF Begin, Steps
  <2>2. op' \in [Requests -> Ops] /\ LockHeld'
    BY <1>5, <2>1 DEF Moves, Begin, LockHeld, At
  <2> QED
    BY <1>5, <2>2, Untouched DEF Begin, TypeInv
<1> QED
  BY <1>2, <1>3, <1>4, <1>5

\* A new set of bound uploads keeps the type of the requests.
LEMMA BoundTypes ==
  ASSUME op \in [Requests -> Ops], NEW r \in Requests, NEW s \in Steps,
         NEW b \in SUBSET Uploads, op' = [op EXCEPT ![r].pc = s, ![r].bound = b]
  PROVE  /\ op' \in [Requests -> Ops] /\ op'[r].pc = s /\ op'[r].bound = b
         /\ \A q \in Requests \ {r} : op'[q] = op[q]
<1>1. [op[r] EXCEPT !.pc = s, !.bound = b] \in Ops
  BY DEF Ops
<1> QED
  BY <1>1 DEF Ops

\* The transaction and its end.
LEMMA WriteTypes ==
  ASSUME PostingAssumption, TypeInv, NEW r \in Requests,
         \/ \E u \in Uploads : Bind(r, u)
         \/ Abort(r)
         \/ Commit(r)
         \/ Finalize(r)
         \/ Undo(r)
  PROVE  TypeInv'
<1>1. op \in [Requests -> Ops] /\ LockHeld /\ {"bind", "undo", "finalize", "posted", "failed"} \subseteq Steps
  BY DEF TypeInv, Steps, Ended
<1>2. CASE \E u \in Uploads : Bind(r, u)
  <2>1. PICK u \in Uploads : Bind(r, u)
    BY <1>2
  <2>2. CASE body[u] = "staging" /\ u \in sidecar
    <3> DEFINE b == op[r].bound \cup {u}
    <3>1. /\ body' = [body EXCEPT ![u] = "files"] /\ UNCHANGED <<sidecar, old, lock>>
          /\ op' = [op EXCEPT ![r].bound = b] /\ At(r, "bind")
      BY <2>1, <2>2 DEF Bind
    <3>2. b \in SUBSET Uploads
      BY <1>1 DEF Ops
    <3> HIDE DEF b
    <3>3. op' \in [Requests -> Ops] /\ \A q \in Requests : op'[q].pc = op[q].pc
      BY <1>1, <3>1, <3>2 DEF Ops
    <3>4. LockHeld'
      BY <1>1, <3>1, <3>3 DEF LockHeld, At
    <3>5. FileTypes'
      BY <3>1 DEF FileTypes, TypeInv
    <3> QED
      BY <2>1, <3>3, <3>4, <3>5, Untouched DEF Bind, TypeInv
  <2>3. CASE ~(body[u] = "staging" /\ u \in sidecar)
    <3>1. Moves(r, "undo") /\ lock' = None
      BY <1>1, <2>1, <2>3, GoMoves DEF Bind, Fail
    <3>2. op' \in [Requests -> Ops] /\ LockHeld'
      BY <3>1 DEF Moves, LockHeld
    <3>3. UNCHANGED fileVars
      BY <2>1, <2>3 DEF Bind, fileVars
    <3> QED
      BY <2>1, <3>2, <3>3, Untouched DEF Bind, TypeInv
  <2> QED
    BY <2>2, <2>3
<1>3. CASE Abort(r)
  <2>1. Moves(r, "undo") /\ lock' = None
    BY <1>1, <1>3, GoMoves DEF Abort, Fail
  <2>2. op' \in [Requests -> Ops] /\ LockHeld'
    BY <2>1 DEF Moves, LockHeld
  <2>3. ScanTypes'
    BY <1>3 DEF Abort, Spend, ScanTypes, TypeInv, gcVars, Faults
  <2> QED
    BY <1>3, <2>2, <2>3, Untouched DEF Abort, TypeInv
<1>4. CASE Commit(r)
  <2>1. op' \in [Requests -> Ops] /\ LockHeld'
    BY <1>1, <1>4, GoMoves DEF Commit, Moves, LockHeld
  <2>2. MessageTypes'
    BY <1>4 DEF Commit, MessageTypes, TypeInv
  <2>3. status' \in [Posts -> {"none"} \cup Active \cup Terminal] /\ unread' \in BOOLEAN
    <3>1. status \in [Posts -> {"none"} \cup Active \cup Terminal]
      BY DEF TypeInv, DraftTypes
    <3>2. status' = status \/ status' = [status EXCEPT ![op[r].draft] = "released"]
      BY <1>4 DEF Commit, Close
    <3>3. "released" \in Terminal
      BY DEF Terminal
    <3>4. unread' \in BOOLEAN
      BY <1>4 DEF Commit
    <3> QED
      BY <3>1, <3>2, <3>3, <3>4
  <2>4. DraftTypes'
    BY <1>4, <2>3 DEF Commit, DraftTypes, TypeInv
  <2> QED
    BY <1>4, <2>1, <2>2, <2>4, Untouched DEF Commit, TypeInv
<1>5. CASE Finalize(r)
  <2> DEFINE s == "posted"
             b == {}
  <2>1. op' = [op EXCEPT ![r].pc = s, ![r].bound = b] /\ At(r, "finalize")
    BY <1>5 DEF Finalize
  <2>2. b \in SUBSET Uploads /\ s \in Steps
    BY <1>1
  <2> HIDE DEF s, b
  <2>3. op' \in [Requests -> Ops] /\ \A q \in Requests \ {r} : op'[q] = op[q]
    BY <1>1, <2>1, <2>2, BoundTypes
  <2>4. LockHeld'
    BY <1>5, <2>1, <2>3 DEF LockHeld, At, Finalize, TypeInv
  <2>5. FileTypes'
    BY <1>5 DEF Finalize, FileTypes, TypeInv
  <2> QED
    BY <1>5, <2>3, <2>4, <2>5, Untouched DEF Finalize, TypeInv
<1>6. CASE Undo(r)
  <2>1. CASE op[r].bound = {}
    <3>1. Moves(r, "failed") /\ At(r, "undo") /\ UNCHANGED <<lock, fileVars>>
      BY <1>1, <1>6, <2>1, GoMoves DEF Undo, fileVars
    <3>2. op' \in [Requests -> Ops] /\ LockHeld'
      BY <1>1, <3>1, LockStays DEF Moves, At
    <3> QED
      BY <1>6, <3>1, <3>2, Untouched DEF Undo, TypeInv
  <2>2. CASE op[r].bound # {}
    <3>1. PICK u \in op[r].bound : /\ body' = [body EXCEPT ![u] = "staging"]
                                   /\ op' = [op EXCEPT ![r].bound = @ \ {u}]
      BY <1>6, <2>2 DEF Undo
    <3> DEFINE b == op[r].bound \ {u}
    <3>2. b \in SUBSET Uploads /\ u \in Uploads
      BY <1>1 DEF Ops
    <3>3. op' = [op EXCEPT ![r].bound = b]
      BY <3>1
    <3> HIDE DEF b
    <3>4. op' \in [Requests -> Ops] /\ \A q \in Requests : op'[q].pc = op[q].pc
      BY <1>1, <3>2, <3>3 DEF Ops
    <3>5. LockHeld'
      BY <1>1, <1>6, <3>4 DEF LockHeld, At, Undo
    <3>6. FileTypes'
      BY <1>6, <3>1, <3>2 DEF Undo, FileTypes, TypeInv
    <3> QED
      BY <1>6, <3>4, <3>5, <3>6, Untouched DEF Undo, TypeInv
  <2> QED
    BY <2>1, <2>2
<1> QED
  BY <1>2, <1>3, <1>4, <1>5, <1>6

\* The three buttons.
LEMMA ButtonTypes ==
  ASSUME PostingAssumption, TypeInv, NEW h \in Humans, Button(h) \/ Press(h)
  PROVE  TypeInv'
<1>1. /\ op \in [Requests -> Ops] /\ LockHeld /\ h \in Requests
      /\ {"settled", "refused", "combo", "bind"} \subseteq Steps
      /\ status \in [Posts -> {"none"} \cup Active \cup Terminal]
  BY DEF TypeInv, DraftTypes, Steps, Ended, Requests
<1>2. CASE Discard(h)
  <2>1. op' \in [Requests -> Ops] /\ LockHeld'
    BY <1>1, <1>2, MoveTypes DEF Discard, At
  <2>2. status' \in [Posts -> {"none"} \cup Active \cup Terminal]
    BY <1>1, <1>2 DEF Discard, Terminal
  <2>3. DraftTypes'
    BY <1>2, <2>2 DEF Discard, DraftTypes, TypeInv
  <2> QED
    BY <1>2, <2>1, <2>3, Untouched DEF Discard, TypeInv
<1>3. CASE Reevaluate(h)
  <2>1. op' \in [Requests -> Ops] /\ LockHeld'
    BY <1>1, <1>3, MoveTypes DEF Reevaluate, At
  <2>2. status' \in [Posts -> {"none"} \cup Active \cup Terminal]
    BY <1>1, <1>3 DEF Reevaluate, Active
  <2>3. DraftTypes'
    BY <1>3, <2>2 DEF Reevaluate, DraftTypes, TypeInv
  <2> QED
    BY <1>3, <2>1, <2>3, Untouched DEF Reevaluate, TypeInv
<1>4. CASE \E delivered \in BOOLEAN : Combo(h, delivered)
  <2>1. op' \in [Requests -> Ops] /\ LockHeld'
    BY <1>1, <1>4, MoveTypes DEF Combo, At
  <2>2. DraftTypes'
    BY <1>4 DEF Combo, DraftTypes, TypeInv, draftVars
  <2> QED
    BY <1>4, <2>1, <2>2, Untouched DEF Combo, TypeInv
<1>5. CASE Press(h)
  <2>1. PICK d \in Posts, step \in {"write", "discard", "reevaluate"} : Check(h, step, d)
    BY <1>5 DEF Press
  <2>2. op' \in [Requests -> Ops] /\ LockHeld'
    BY <1>1, <2>1, CheckMoves, LockStays DEF Check, Moves, At
  <2> QED
    BY <2>1, <2>2, Untouched DEF Check, TypeInv
<1> QED
  BY <1>2, <1>3, <1>4, <1>5 DEF Button

\* Uploads, the scan of drafts and the collection.
LEMMA BackgroundTypes ==
  ASSUME PostingAssumption, TypeInv,
         \/ \E u \in Uploads : Upload(u) \/ Age(u)
         \/ \E new \in BOOLEAN : Talk(new)
         \/ \E d \in Posts : ScanRead(d)
         \/ ScanFlip
         \/ \E delivered \in BOOLEAN : ScanCombo(delivered)
         \/ Collect
  PROVE  TypeInv'
<1>1. /\ op \in [Requests -> Ops] /\ LockHeld /\ ScanTypes /\ FileTypes /\ DraftTypes
      /\ MessageTypes
  BY DEF TypeInv
<1>2. UNCHANGED <<op, lock, msgVars>>
  BY DEF Upload, Age, Talk, ScanRead, ScanFlip, ScanCombo, Collect, GcList, GcStat,
         GcExempt, GcDelete
<1>3. op' \in [Requests -> Ops] /\ LockHeld' /\ MessageTypes'
  BY <1>1, <1>2, Untouched DEF LockHeld, At
<1>4. CASE \E u \in Uploads : Upload(u) \/ Age(u)
  <2>1. FileTypes'
    BY <1>1, <1>4 DEF FileTypes, Upload, Age
  <2> QED
    BY <1>1, <1>3, <1>4, <2>1, Untouched DEF Upload, Age, TypeInv
<1>5. CASE \E new \in BOOLEAN : Talk(new)
  <2>1. DraftTypes'
    BY <1>1, <1>5 DEF DraftTypes, Talk, draftVars
  <2> QED
    BY <1>1, <1>3, <1>5, <2>1, Untouched DEF Talk, TypeInv
<1>6. CASE \E d \in Posts : ScanRead(d)
  <2>1. ScanTypes'
    BY <1>1, <1>6 DEF ScanTypes, ScanRead, gcVars
  <2> QED
    BY <1>1, <1>3, <1>6, <2>1, Untouched DEF ScanRead, TypeInv
<1>7. CASE ScanFlip
  <2>1. ScanTypes'
    <3>1. scan' = [pc |-> "idle", draft |-> None] \/ scan' = [scan EXCEPT !.pc = "combo"]
      BY <1>7 DEF ScanFlip
    <3> QED
      BY <1>1, <1>7, <3>1 DEF ScanTypes, ScanFlip, gcVars
  <2>2. status' \in [Posts -> {"none"} \cup Active \cup Terminal]
    BY <1>1, <1>7 DEF ScanFlip, DraftTypes, Active
  <2>3. DraftTypes'
    BY <1>1, <1>7, <2>2 DEF DraftTypes, ScanFlip
  <2> QED
    BY <1>1, <1>3, <1>7, <2>1, <2>3, Untouched DEF ScanFlip, TypeInv
<1>8. CASE \E delivered \in BOOLEAN : ScanCombo(delivered)
  <2>1. ScanTypes' /\ DraftTypes'
    BY <1>1, <1>8 DEF ScanTypes, DraftTypes, ScanCombo, gcVars, draftVars
  <2> QED
    BY <1>1, <1>3, <1>8, <2>1, Untouched DEF ScanCombo, TypeInv
<1>9. CASE GcList \/ (\E u \in Uploads : GcStat(u)) \/ GcExempt
  <2>1. ScanTypes'
    BY <1>1, <1>9 DEF ScanTypes, GcList, GcStat, GcExempt
  <2> QED
    BY <1>1, <1>3, <1>9, <2>1, Untouched DEF GcList, GcStat, GcExempt, TypeInv
<1>10. CASE GcDelete
  <2>1. ScanTypes'
    BY <1>1, <1>10 DEF ScanTypes, GcDelete
  <2>2. FileTypes'
    BY <1>1, <1>10 DEF FileTypes, GcDelete
  <2> QED
    BY <1>1, <1>3, <1>10, <2>1, <2>2, Untouched DEF GcDelete, TypeInv
<1> QED
  BY <1>4, <1>5, <1>6, <1>7, <1>8, <1>9, <1>10 DEF Collect

\* A fault that is spent leaves less than there was.
LEMMA SpendTypes ==
  ASSUME left \in [Faults -> Nat], NEW fault \in Faults, Spend(fault)
  PROVE  left' \in [Faults -> Nat] /\ left'[fault] = left[fault] - 1
BY DEF Spend

\* A crash ends the requests in progress.
LEMMA CrashTypes ==
  ASSUME PostingAssumption, TypeInv, Crash
  PROVE  TypeInv'
<1>1. op \in [Requests -> Ops]
  BY DEF TypeInv
<1>2. \A r \in Requests : [op[r] EXCEPT !.pc = "gone", !.bound = {}] \in Ops
  <2> TAKE r \in Requests
  <2> DEFINE s == "gone"
             b == {}
  <2>1. op[r] \in Ops /\ s \in Steps /\ b \in SUBSET Uploads /\ 0 \in Nat /\ None \in {None}
    BY <1>1 DEF Steps, Ended
  <2> HIDE DEF s, b
  <2>2. [op[r] EXCEPT !.pc = s, !.bound = b] \in Ops
    BY <2>1, OpsUpdate
  <2> QED
    BY <2>2 DEF s, b
<1>3. op' \in [Requests -> Ops]
  BY <1>1, <1>2 DEF Crash
<1>4. LockHeld'
  BY DEF Crash, LockHeld
<1>5. ScanTypes'
  <2>1. left' \in [Faults -> Nat]
    BY SpendTypes DEF Crash, ScanTypes, TypeInv, Faults
  <2>2. scan' \in [pc : {"idle", "flip", "combo"}, draft : Posts \cup {None}]
    BY DEF Crash
  <2> QED
    BY <2>1, <2>2 DEF Crash, ScanTypes
<1> QED
  BY <1>3, <1>4, <1>5, Untouched DEF Crash, TypeInv

LEMMA StepTypes ==
  ASSUME PostingAssumption, TypeInv, [Next]_vars
  PROVE  TypeInv'
<1>1. CASE UNCHANGED vars
  <2>1. UNCHANGED <<fileVars, msgVars, draftVars, unread, op, lock, scan, gcVars, left>>
    BY <1>1 DEF vars
  <2>2. op' \in [Requests -> Ops] /\ LockHeld'
    BY <2>1 DEF TypeInv, LockHeld, At
  <2> QED
    BY <2>1, <2>2, Untouched DEF TypeInv
<1>2. ASSUME NEW r \in Requests, Request(r) \/ Abort(r)
      PROVE  TypeInv'
  BY <1>2, HoldTypes, BeforeTypes, WriteTypes, ButtonTypes DEF Request, Post, Write
<1>3. CASE \E h \in Humans : Press(h)
  BY <1>3, ButtonTypes
<1>4. CASE Crash
  BY <1>4, CrashTypes
<1> QED
  BY <1>1, <1>2, <1>3, <1>4, BackgroundTypes DEF Next

LEMMA InitTypes ==
  ASSUME PostingAssumption, Init
  PROVE  TypeInv
<1>1. op \in [Requests -> Ops]
  BY DEF Init, Ops, Steps
<1>2. LockHeld /\ ScanTypes
  BY DEF Init, LockHeld, ScanTypes, PostingAssumption
<1>3. FileTypes /\ MessageTypes /\ DraftTypes
  BY DEF Init, FileTypes, MessageTypes, DraftTypes, PostingAssumption
<1> QED
  BY <1>1, <1>2, <1>3 DEF TypeInv

\* Every variable keeps its type, and only a request in its transaction has the
\* write lock (get_tx), whatever the requests, keys and uploads.
THEOREM TypeCorrect ==
  ASSUME PostingAssumption
  PROVE  Spec => []TypeInv
<1>1. Init => TypeInv
  BY InitTypes
<1>2. TypeInv /\ [Next]_vars => TypeInv'
  BY StepTypes
<1> QED
  BY <1>1, <1>2, PTL DEF Spec

-----------------------------------------------------------------------------
(* What a step does to files and messages *)

\* Bodies in files/, messages and what requests have bound stay; a request
\* changes its step only where it has nothing bound or fails.
Quiet ==
  /\ \A u \in Uploads : body'[u] = "files" <=> body[u] = "files"
  /\ UNCHANGED <<messages, fileOf>> /\ left'["crash"] = left["crash"]
  /\ \A q \in Requests :
       /\ op'[q].bound = op[q].bound
       /\ \/ op'[q].pc = op[q].pc
          \/ op[q].pc \notin {"bind", "undo", "finalize", "posted", "gone"}
          \/ op[q].pc = "bind" /\ op'[q].pc = "undo"
          \/ op[q].pc = "undo" /\ op[q].bound = {}

\* Request r goes on with the uploads b bound; the other requests stay.
Binds(r, s, b) ==
  /\ op'[r].pc = s /\ op'[r].bound = b
  /\ \A q \in Requests \ {r} : op'[q] = op[q]

\* The body of one attachment is moved to files/.
Takes(r, u) ==
  /\ At(r, "bind") /\ body[u] = "staging" /\ body' = [body EXCEPT ![u] = "files"]
  /\ Binds(r, "bind", op[r].bound \cup {u})
  /\ UNCHANGED <<messages, fileOf, left>>

\* The body of one attachment is moved back.
GivesBack(r, u) ==
  /\ At(r, "undo") /\ u \in op[r].bound /\ body' = [body EXCEPT ![u] = "staging"]
  /\ Binds(r, "undo", op[r].bound \ {u})
  /\ UNCHANGED <<messages, fileOf, left>>

\* A move that leaves messages and bodies alone is quiet.
LEMMA QuietMove ==
  ASSUME NEW r \in Requests, NEW s, Moves(r, s),
         \/ op[r].pc \notin {"bind", "undo", "finalize", "posted", "gone"}
         \/ op[r].pc = "bind" /\ s = "undo"
         \/ op[r].pc = "undo" /\ op[r].bound = {},
         UNCHANGED <<body, messages, fileOf>>, left'["crash"] = left["crash"]
  PROVE  Quiet
BY DEF Moves, Quiet

LEMMA QuietBefore ==
  ASSUME PostingAssumption, TypeInv, NEW r \in Requests, Post(r) \/ Begin(r)
  PROVE  Quiet
<1>1. op \in [Requests -> Ops]
  BY DEF TypeInv
<1>2. CASE \E files \in Bodies : Lookup(r, files)
  BY <1>1, <1>2, LookupMoves, QuietMove DEF Lookup, At, fileVars, msgVars
<1>3. CASE Gate(r)
  BY <1>3, GateMoves, QuietMove DEF Gate, At, fileVars, msgVars
<1>4. CASE Hold(r)
  BY <1>1, <1>4, HoldMoves, QuietMove DEF Hold, At, fileVars, msgVars
<1>5. CASE Record(r)
  BY <1>1, <1>5, RecordMoves, QuietMove DEF Record, At, fileVars
<1>6. CASE Begin(r)
  <2>1. Moves(r, "bind")
    BY <1>1, <1>6, GoMoves DEF Begin, Steps
  <2> QED
    BY <1>6, <2>1, QuietMove DEF Begin, At, fileVars, msgVars
<1> QED
  BY <1>2, <1>3, <1>4, <1>5, <1>6 DEF Post

LEMMA QuietButton ==
  ASSUME PostingAssumption, TypeInv, NEW h \in Humans, Button(h) \/ Press(h)
  PROVE  Quiet
<1>1. /\ op \in [Requests -> Ops] /\ h \in Requests
      /\ {"settled", "refused", "combo"} \subseteq Steps
  BY DEF TypeInv, Steps, Ended, Requests
<1>2. CASE Discard(h)
  BY <1>1, <1>2, GoMoves, QuietMove DEF Discard, At, fileVars, msgVars
<1>3. CASE Reevaluate(h)
  BY <1>1, <1>3, GoMoves, QuietMove DEF Reevaluate, At, fileVars, msgVars
<1>4. CASE \E delivered \in BOOLEAN : Combo(h, delivered)
  BY <1>1, <1>4, GoMoves, QuietMove DEF Combo, At, fileVars, msgVars
<1>5. CASE Press(h)
  BY <1>1, <1>5, CheckMoves, QuietMove DEF Press, Check, At, fileVars, msgVars
<1> QED
  BY <1>2, <1>3, <1>4, <1>5 DEF Button

LEMMA QuietBackground ==
  ASSUME TypeInv,
         \/ \E u \in Uploads : Upload(u) \/ Age(u)
         \/ \E new \in BOOLEAN : Talk(new)
         \/ \E d \in Posts : ScanRead(d)
         \/ ScanFlip
         \/ \E delivered \in BOOLEAN : ScanCombo(delivered)
         \/ Collect
  PROVE  Quiet
<1>1. UNCHANGED <<op, messages, fileOf, left>>
  BY DEF Upload, Age, Talk, ScanRead, ScanFlip, ScanCombo, Collect, GcList, GcStat,
         GcExempt, GcDelete, msgVars
<1>2. body \in [Uploads -> {"none", "staging", "files", "deleted"}]
  BY DEF TypeInv, FileTypes
<1>3. \A u \in Uploads : body'[u] = "files" <=> body[u] = "files"
  <2>1. CASE UNCHANGED body
    BY <2>1
  <2>2. CASE \E u \in Uploads : Upload(u)
    BY <1>2, <2>2 DEF Upload
  <2>3. CASE GcDelete
    BY <1>2, <2>3 DEF GcDelete
  <2> QED
    BY <2>1, <2>2, <2>3 DEF Age, Talk, ScanRead, ScanFlip, ScanCombo, Collect, GcList, GcStat,
         GcExempt, fileVars
<1> QED
  BY <1>1, <1>3 DEF Quiet

LEMMA WriteSteps ==
  ASSUME TypeInv, NEW r \in Requests,
         \/ \E u \in Uploads : Bind(r, u)
         \/ Abort(r)
         \/ Undo(r)
  PROVE  Quiet \/ \E u \in Uploads : Takes(r, u) \/ GivesBack(r, u)
<1>1. op \in [Requests -> Ops] /\ {"undo", "failed"} \subseteq Steps
  BY DEF TypeInv, Steps, Ended
<1>2. CASE \E u \in Uploads : Bind(r, u)
  <2>1. PICK u \in Uploads : Bind(r, u)
    BY <1>2
  <2>2. CASE body[u] = "staging" /\ u \in sidecar
    <3> DEFINE b == op[r].bound \cup {u}
    <3>1. op' = [op EXCEPT ![r].bound = b] /\ At(r, "bind")
      BY <2>1, <2>2 DEF Bind
    <3>2. Binds(r, "bind", b)
      <4> HIDE DEF b
      <4> QED
        BY <1>1, <3>1 DEF Binds, Ops, At
    <3>3. Takes(r, u)
      BY <2>1, <2>2, <3>1, <3>2 DEF Takes, Bind, msgVars
    <3> QED
      BY <3>3
  <2>3. CASE ~(body[u] = "staging" /\ u \in sidecar)
    <3>1. Moves(r, "undo") /\ At(r, "bind")
      BY <1>1, <2>1, <2>3, GoMoves DEF Bind, Fail
    <3> QED
      BY <2>1, <2>3, <3>1, QuietMove DEF Bind, At, msgVars
  <2> QED
    BY <2>2, <2>3
<1>3. CASE Abort(r)
  <2>1. Moves(r, "undo") /\ At(r, "bind")
    BY <1>1, <1>3, GoMoves DEF Abort, Fail
  <2>2. left'["crash"] = left["crash"]
    BY <1>3 DEF Abort, Spend, TypeInv, ScanTypes, Faults
  <2> QED
    BY <1>3, <2>1, <2>2, QuietMove DEF Abort, At, fileVars, msgVars
<1>4. CASE Undo(r)
  <2>1. CASE op[r].bound = {}
    <3>1. Moves(r, "failed") /\ At(r, "undo") /\ UNCHANGED body
      BY <1>1, <1>4, <2>1, GoMoves DEF Undo
    <3> QED
      BY <1>4, <2>1, <3>1, QuietMove DEF Undo, At, msgVars
  <2>2. CASE op[r].bound # {}
    <3>1. PICK u \in op[r].bound : /\ body' = [body EXCEPT ![u] = "staging"]
                                   /\ op' = [op EXCEPT ![r].bound = @ \ {u}]
      BY <1>4, <2>2 DEF Undo
    <3> DEFINE b == op[r].bound \ {u}
    <3>2. op' = [op EXCEPT ![r].bound = b] /\ At(r, "undo") /\ u \in Uploads
      BY <1>1, <1>4, <3>1 DEF Undo, Ops
    <3>3. Binds(r, "undo", b)
      <4> HIDE DEF b
      <4> QED
        BY <1>1, <3>2 DEF Binds, Ops, At
    <3>4. GivesBack(r, u)
      BY <1>4, <3>1, <3>2, <3>3 DEF GivesBack, Undo, msgVars
    <3> QED
      BY <3>2, <3>4
  <2> QED
    BY <2>1, <2>2
<1> QED
  BY <1>2, <1>3, <1>4

\* A step is quiet, moves one body, commits, finalizes, or is a crash.
LEMMA StepKinds ==
  ASSUME PostingAssumption, TypeInv, [Next]_vars
  PROVE  \/ Quiet
         \/ \E r \in Requests :
              \/ \E u \in Uploads : Takes(r, u) \/ GivesBack(r, u)
              \/ Commit(r)
              \/ Finalize(r)
         \/ Crash
<1>1. CASE UNCHANGED vars
  BY <1>1 DEF Quiet, vars, fileVars, msgVars
<1>2. ASSUME NEW r \in Requests, Request(r) \/ Abort(r), ~Commit(r), ~Finalize(r)
      PROVE  Quiet \/ \E u \in Uploads : Takes(r, u) \/ GivesBack(r, u)
  BY <1>2, QuietBefore, QuietButton, WriteSteps DEF Request, Write
<1>3. CASE \E h \in Humans : Press(h)
  BY <1>3, QuietButton
<1> QED
  BY <1>1, <1>2, <1>3, QuietBackground DEF Next

-----------------------------------------------------------------------------
(* Who answers for a body in files/ *)

\* What a request has bound is empty outside its transaction and its end.
OnlyThen ==
  \A r \in Requests : op[r].pc \notin {"bind", "undo", "finalize"} => op[r].bound = {}

Pending == {r \in Requests : op[r].pc \in {"bind", "undo"}}

\* Until the commit or the way back, a bound body is in files/ and no message's,
\* and it is bound by one request.
Guarded ==
  \A r \in Pending : \A u \in op[r].bound :
    body[u] = "files" /\ fileOf[u] = None /\ \A q \in Pending : u \in op[q].bound => q = r

\* A message's request is past its commit.
Past == \A r \in messages : op[r].pc \in {"finalize", "posted", "gone"}

\* A file with a message is in files/, and the message is in the channel.
Owned == \A u \in Uploads : fileOf[u] # None => body[u] = "files" /\ fileOf[u] \in messages

\* After the commit every bound upload has its message.
Done == \A r \in Requests : op[r].pc = "finalize" => \A u \in op[r].bound : fileOf[u] # None

FilesInv == OnlyThen /\ Guarded /\ Past /\ Owned /\ Done

\* In a state of FilesInv a quiet step keeps it.
LEMMA QuietFiles ==
  ASSUME TypeInv, FilesInv, Quiet
  PROVE  FilesInv'
<1>1. /\ \A r \in Requests : op[r].bound \subseteq Uploads
      /\ messages \subseteq Requests
  BY DEF TypeInv, Ops, MessageTypes
<1>2. \A q \in Requests : \/ op'[q].pc = op[q].pc
                          \/ op[q].bound = {} /\ op'[q].bound = {}
                          \/ op[q].pc = "bind" /\ op'[q].pc = "undo"
  BY DEF Quiet, FilesInv, OnlyThen
<1>3. OnlyThen'
  BY <1>2 DEF Quiet, OnlyThen, FilesInv
<1>4. \A q \in Pending' : q \in Pending \/ op'[q].bound = {}
  BY <1>2 DEF Pending
<1>5. Guarded'
  <2> SUFFICES ASSUME NEW r \in Pending', NEW u \in op'[r].bound
               PROVE  /\ body'[u] = "files" /\ fileOf'[u] = None
                      /\ \A q \in Pending' : u \in op'[q].bound => q = r
    BY DEF Guarded
  <2>1. \A q \in Pending' : q \in Requests /\ op'[q].bound = op[q].bound
    BY DEF Pending, Quiet
  <2>2. r \in Pending /\ u \in op[r].bound /\ u \in Uploads
    BY <1>1, <1>4, <2>1
  <2>3. \A q \in Pending' : u \in op'[q].bound => q \in Pending /\ u \in op[q].bound
    BY <1>4, <2>1
  <2> QED
    BY <2>2, <2>3 DEF Quiet, Guarded, FilesInv
<1>6. Past'
  BY <1>1 DEF Quiet, Past, FilesInv
<1>7. Owned'
  BY DEF Quiet, Owned, FilesInv
<1>8. Done'
  BY <1>2 DEF Quiet, Done, FilesInv
<1> QED
  BY <1>3, <1>5, <1>6, <1>7, <1>8 DEF FilesInv

LEMMA TakesFiles ==
  ASSUME TypeInv, FilesInv, NEW r \in Requests, NEW u \in Uploads, Takes(r, u)
  PROVE  FilesInv'
<1>1. /\ \A q \in Requests : op[q].bound \subseteq Uploads
      /\ messages \subseteq Requests
      /\ body \in [Uploads -> {"none", "staging", "files", "deleted"}]
  BY DEF TypeInv, Ops, MessageTypes, FileTypes
<1>2. /\ r \in Pending /\ Pending' = Pending /\ op'[r].bound = op[r].bound \cup {u}
      /\ \A q \in Requests : op'[q].pc = op[q].pc
      /\ \A q \in Requests \ {r} : op'[q].bound = op[q].bound
      /\ op[r].pc = "bind"
  BY DEF Takes, Binds, Pending, At
<1>3. body[u] = "staging" /\ fileOf[u] = None /\ \A q \in Pending : u \notin op[q].bound
  BY DEF Takes, FilesInv, Guarded, Owned
<1>4. /\ \A v \in Uploads \ {u} : body'[v] = body[v]
      /\ body'[u] = "files" /\ UNCHANGED <<messages, fileOf>>
  BY <1>1 DEF Takes
<1>5. OnlyThen'
  BY <1>2 DEF OnlyThen, FilesInv
<1>6. Guarded'
  <2> SUFFICES ASSUME NEW q \in Pending, NEW v \in op'[q].bound
               PROVE  /\ body'[v] = "files" /\ fileOf'[v] = None
                      /\ \A p \in Pending : v \in op'[p].bound => p = q
    BY <1>2 DEF Guarded
  <2>1. q \in Requests /\ Pending \subseteq Requests
    BY DEF Pending
  <2>2. CASE v = u
    BY <1>2, <1>3, <1>4, <2>1, <2>2
  <2>3. CASE v # u
    <3>1. v \in op[q].bound /\ v \in Uploads
      BY <1>1, <1>2, <2>1, <2>3
    <3>2. \A p \in Pending : v \in op'[p].bound => v \in op[p].bound
      BY <1>2, <2>1, <2>3
    <3> QED
      BY <1>4, <2>3, <3>1, <3>2 DEF Guarded, FilesInv
  <2> QED
    BY <2>2, <2>3
<1>7. Past' /\ Done'
  BY <1>1, <1>2, <1>4 DEF Past, Done, FilesInv
<1>8. Owned'
  BY <1>4 DEF Owned, FilesInv
<1> QED
  BY <1>5, <1>6, <1>7, <1>8 DEF FilesInv

LEMMA GivesBackFiles ==
  ASSUME TypeInv, FilesInv, NEW r \in Requests, NEW u \in Uploads, GivesBack(r, u)
  PROVE  FilesInv'
<1>1. /\ \A q \in Requests : op[q].bound \subseteq Uploads
      /\ messages \subseteq Requests
      /\ body \in [Uploads -> {"none", "staging", "files", "deleted"}]
  BY DEF TypeInv, Ops, MessageTypes, FileTypes
<1>2. /\ r \in Pending /\ Pending' = Pending /\ op'[r].bound = op[r].bound \ {u}
      /\ \A q \in Requests : op'[q].pc = op[q].pc
      /\ \A q \in Requests \ {r} : op'[q].bound = op[q].bound
      /\ op[r].pc = "undo"
  BY DEF GivesBack, Binds, Pending, At
<1>3. fileOf[u] = None /\ \A q \in Pending : u \notin op'[q].bound
  <2>1. u \in op[r].bound /\ \A q \in Pending : q \in Requests
    BY DEF GivesBack, Pending
  <2> QED
    BY <1>2, <2>1 DEF FilesInv, Guarded
<1>4. /\ \A v \in Uploads \ {u} : body'[v] = body[v]
      /\ UNCHANGED <<messages, fileOf>>
  BY <1>1 DEF GivesBack
<1>5. OnlyThen'
  BY <1>2 DEF OnlyThen, FilesInv
<1>6. Guarded'
  <2> SUFFICES ASSUME NEW q \in Pending, NEW v \in op'[q].bound
               PROVE  /\ body'[v] = "files" /\ fileOf'[v] = None
                      /\ \A p \in Pending : v \in op'[p].bound => p = q
    BY <1>2 DEF Guarded
  <2>1. q \in Requests /\ Pending \subseteq Requests
    BY DEF Pending
  <2>2. v # u /\ v \in op[q].bound /\ v \in Uploads
    BY <1>1, <1>2, <1>3, <2>1
  <2>3. \A p \in Pending : v \in op'[p].bound => v \in op[p].bound
    BY <1>2, <2>1
  <2> QED
    BY <1>4, <2>2, <2>3 DEF Guarded, FilesInv
<1>7. Past' /\ Done'
  BY <1>1, <1>2, <1>4 DEF Past, Done, FilesInv
<1>8. Owned'
  BY <1>3, <1>4 DEF Owned, FilesInv
<1> QED
  BY <1>5, <1>6, <1>7, <1>8 DEF FilesInv

\* What the commit does to files, messages and requests.
LEMMA CommitEffect ==
  ASSUME TypeInv, NEW r \in Requests, Commit(r)
  PROVE  /\ op[r].pc = "bind" /\ op'[r].pc = "finalize" /\ op'[r].bound = op[r].bound
         /\ \A q \in Requests \ {r} : op'[q] = op[q]
         /\ messages' = messages \cup {r} /\ UNCHANGED <<body, left>>
         /\ \A u \in op[r].bound : fileOf'[u] = r
         /\ \A u \in Uploads \ op[r].bound : fileOf'[u] = fileOf[u]
<1>1. op \in [Requests -> Ops] /\ "finalize" \in Steps
  BY DEF TypeInv, Steps
<1>2. Moves(r, "finalize")
  BY <1>1, GoMoves DEF Commit
<1>3. op[r].bound \subseteq Uploads
  BY <1>1 DEF Ops
<1> QED
  BY <1>2, <1>3 DEF Commit, Moves, At, fileVars

LEMMA CommitFiles ==
  ASSUME PostingAssumption, TypeInv, FilesInv, NEW r \in Requests, Commit(r)
  PROVE  FilesInv'
<1>1. /\ \A q \in Requests : op[q].bound \subseteq Uploads
      /\ messages \subseteq Requests /\ r # None
      /\ r \in Pending /\ Pending' = Pending \ {r}
  BY CommitEffect DEF TypeInv, Ops, MessageTypes, PostingAssumption, Pending
<1>2. OnlyThen'
  BY CommitEffect DEF OnlyThen, FilesInv
<1>3. Guarded'
  <2> SUFFICES ASSUME NEW q \in Pending \ {r}, NEW v \in op[q].bound
               PROVE  /\ body'[v] = "files" /\ fileOf'[v] = None
                      /\ \A p \in Pending \ {r} : v \in op[p].bound => p = q
    BY <1>1, CommitEffect DEF Guarded, Pending
  <2>1. v \in Uploads /\ v \notin op[r].bound
    BY <1>1 DEF Pending, Guarded, FilesInv
  <2> QED
    BY <2>1, CommitEffect DEF Guarded, FilesInv
<1>4. Past'
  BY <1>1, CommitEffect DEF Past, FilesInv
<1>5. Owned'
  <2> SUFFICES ASSUME NEW u \in Uploads, fileOf'[u] # None
               PROVE  body'[u] = "files" /\ fileOf'[u] \in messages'
    BY DEF Owned
  <2>1. CASE u \in op[r].bound
    BY <1>1, <2>1, CommitEffect DEF Guarded, FilesInv
  <2>2. CASE u \notin op[r].bound
    BY <2>2, CommitEffect DEF Owned, FilesInv
  <2> QED
    BY <2>1, <2>2
<1>6. Done'
  <2> SUFFICES ASSUME NEW q \in Requests, op'[q].pc = "finalize", NEW u \in op'[q].bound
               PROVE  fileOf'[u] # None
    BY DEF Done
  <2>1. CASE u \in op[r].bound
    BY <1>1, <2>1, CommitEffect
  <2>2. CASE u \notin op[r].bound
    BY <1>1, <2>2, CommitEffect DEF Done, FilesInv
  <2> QED
    BY <2>1, <2>2
<1> QED
  BY <1>2, <1>3, <1>4, <1>5, <1>6 DEF FilesInv

\* What the end of a posted request does.
LEMMA FinalizeEffect ==
  ASSUME TypeInv, NEW r \in Requests, Finalize(r)
  PROVE  /\ UNCHANGED <<body, messages, fileOf, left>>
         /\ op[r].pc = "finalize" /\ Binds(r, "posted", {})
<1> DEFINE s == "posted"
           b == {}
<1>1. /\ op \in [Requests -> Ops] /\ op' = [op EXCEPT ![r].pc = s, ![r].bound = b]
      /\ b \in SUBSET Uploads /\ s \in Steps
  BY DEF Finalize, TypeInv, Steps, Ended
<1> HIDE DEF s, b
<1>2. /\ op'[r].pc = s /\ op'[r].bound = b
      /\ \A q \in Requests \ {r} : op'[q] = op[q]
  BY <1>1 DEF Ops
<1>3. Binds(r, s, b)
  BY <1>2 DEF Binds
<1>4. op[r].pc = "finalize" /\ UNCHANGED <<body, messages, fileOf, left>>
  BY DEF Finalize, At, msgVars
<1> QED
  BY <1>3, <1>4 DEF s, b

LEMMA FinalizeFiles ==
  ASSUME TypeInv, FilesInv, NEW r \in Requests, Finalize(r)
  PROVE  FilesInv'
<1>1. messages \subseteq Requests
  BY DEF TypeInv, MessageTypes
<1>2. Pending' = Pending /\ \A q \in Pending : q \in Requests /\ op'[q] = op[q]
  BY FinalizeEffect DEF Binds, Pending
<1>3. Guarded'
  BY <1>2, FinalizeEffect DEF Guarded, FilesInv
<1>4. OnlyThen' /\ Past' /\ Owned' /\ Done'
  BY <1>1, FinalizeEffect DEF Binds, OnlyThen, Past, Owned, Done, FilesInv
<1> QED
  BY <1>3, <1>4 DEF FilesInv

LEMMA CrashFiles ==
  ASSUME TypeInv, FilesInv, Crash
  PROVE  FilesInv' /\ UNCHANGED <<body, messages, fileOf>> /\ left'["crash"] = left["crash"] - 1
<1>1. op \in [Requests -> Ops] /\ messages \subseteq Requests
  BY DEF TypeInv, MessageTypes
<1>2. \A q \in Requests :
        \/ op[q].pc \in Ended \cup {"new"} /\ op'[q] = op[q]
        \/ op'[q].pc = "gone" /\ op'[q].bound = {}
  BY <1>1 DEF Crash, Ops
<1>3. UNCHANGED <<body, messages, fileOf>>
  BY DEF Crash, fileVars, msgVars
<1>4. left'["crash"] = left["crash"] - 1
  BY SpendTypes DEF Crash, TypeInv, ScanTypes, Faults
<1>5. Pending' = {}
  BY <1>2 DEF Pending, Ended
<1>6. Guarded'
  BY <1>5 DEF Guarded
<1>7. OnlyThen' /\ Done'
  BY <1>2 DEF OnlyThen, Done, FilesInv, Ended
<1>8. Past' /\ Owned'
  BY <1>1, <1>2, <1>3 DEF Past, Owned, FilesInv
<1> QED
  BY <1>3, <1>4, <1>6, <1>7, <1>8 DEF FilesInv

LEMMA StepFiles ==
  ASSUME PostingAssumption, TypeInv, FilesInv, [Next]_vars
  PROVE  FilesInv'
BY StepKinds, QuietFiles, TakesFiles, GivesBackFiles, CommitFiles, FinalizeFiles, CrashFiles

LEMMA InitFiles ==
  ASSUME PostingAssumption, Init
  PROVE  FilesInv
BY DEF Init, FilesInv, OnlyThen, Guarded, Pending, Past, Owned, Done, PostingAssumption

-----------------------------------------------------------------------------
(* No stray file *)

\* Crashes that struck are missing from the budget.
StrayInv == left["crash"] <= Budget["crash"] /\ NoStrayFile

LEMMA StepStray ==
  ASSUME PostingAssumption, TypeInv, FilesInv, StrayInv, [Next]_vars
  PROVE  StrayInv'
<1>1. /\ \A r \in Requests : op[r].bound \subseteq Uploads
      /\ body \in [Uploads -> {"none", "staging", "files", "deleted"}]
      /\ left["crash"] \in Nat /\ Budget["crash"] \in Nat
  BY DEF TypeInv, Ops, FileTypes, ScanTypes, PostingAssumption, Faults
<1>2. CASE Quiet
  BY <1>2 DEF Quiet, StrayInv, NoStrayFile
<1>3. ASSUME NEW r \in Requests, NEW u \in Uploads, Takes(r, u)
      PROVE  StrayInv'
  <2>1. /\ UNCHANGED <<fileOf, left>> /\ \A v \in Uploads \ {u} : body'[v] = body[v]
        /\ \A q \in Requests : op[q].bound \subseteq op'[q].bound
        /\ u \in op'[r].bound
    BY <1>1, <1>3 DEF Takes, Binds
  <2> QED
    BY <2>1 DEF StrayInv, NoStrayFile
<1>4. ASSUME NEW r \in Requests, NEW u \in Uploads, GivesBack(r, u)
      PROVE  StrayInv'
  <2>1. /\ UNCHANGED <<fileOf, left>> /\ \A v \in Uploads \ {u} : body'[v] = body[v]
        /\ \A q \in Requests : op[q].bound \ {u} \subseteq op'[q].bound
        /\ body'[u] = "staging"
    BY <1>1, <1>4 DEF GivesBack, Binds
  <2> QED
    BY <2>1 DEF StrayInv, NoStrayFile
<1>5. ASSUME NEW r \in Requests, Commit(r)
      PROVE  StrayInv'
  <2>1. /\ UNCHANGED <<body, left>> /\ r # None
        /\ \A q \in Requests : op'[q].bound = op[q].bound
        /\ \A u \in Uploads : fileOf'[u] = fileOf[u] \/ fileOf'[u] = r
    BY <1>5, CommitEffect DEF PostingAssumption
  <2> QED
    BY <2>1 DEF StrayInv, NoStrayFile
<1>6. ASSUME NEW r \in Requests, Finalize(r)
      PROVE  StrayInv'
  <2>1. /\ UNCHANGED <<body, fileOf, left>> /\ op[r].pc = "finalize"
        /\ \A q \in Requests \ {r} : op'[q].bound = op[q].bound
    BY <1>6, FinalizeEffect DEF Binds
  <2> QED
    BY <2>1 DEF StrayInv, NoStrayFile, FilesInv, Done
<1>7. CASE Crash
  BY <1>1, <1>7, CrashFiles DEF StrayInv, NoStrayFile
<1> QED
  BY <1>2, <1>3, <1>4, <1>5, <1>6, <1>7, StepKinds

\* While the server does not crash, every body in files/ belongs to a message or
\* to a request that still answers for it (rollback_file_bindings).
THEOREM NoStrayFiles ==
  ASSUME PostingAssumption
  PROVE  Spec => []NoStrayFile
<1> DEFINE Inv == TypeInv /\ FilesInv /\ StrayInv
<1>1. Init => Inv
  <2>1. Init => StrayInv
    BY DEF Init, StrayInv, NoStrayFile, PostingAssumption, Faults
  <2> QED
    BY <2>1, InitTypes, InitFiles
<1>2. Inv /\ [Next]_vars => Inv'
  BY StepTypes, StepFiles, StepStray
<1>3. Inv => NoStrayFile
  BY DEF StrayInv
<1> QED
  BY <1>1, <1>2, <1>3, PTL DEF Spec

-----------------------------------------------------------------------------
(* One message per key *)

\* A post that may still become a message, or is one, owns the row of its key.
OwnsKey ==
  \A r \in Posts :
    KeyOf[r] # None /\ (op[r].pc \in {"write", "bind"} \/ r \in messages)
      => ledger[KeyOf[r]] = r

\* A step that keeps the rows of the ledger and shows no message keeps the
\* owners, if no post starts to write.
LEMMA KeysStay ==
  ASSUME PostingAssumption, OwnsKey, UNCHANGED messages,
         \A key \in Keys : ledger[key] # None => ledger'[key] = ledger[key],
         \A r \in Posts : op'[r].pc \in {"write", "bind"} => op[r].pc \in {"write", "bind"}
  PROVE  OwnsKey'
<1>1. \A r \in Posts : r # None /\ (KeyOf[r] # None => KeyOf[r] \in Keys)
  BY DEF PostingAssumption, Requests
<1> QED
  BY <1>1 DEF OwnsKey

LEMMA RecordKeys ==
  ASSUME PostingAssumption, TypeInv, OwnsKey, NEW r \in Posts, Record(r)
  PROVE  OwnsKey'
<1>1. /\ op \in [Requests -> Ops] /\ ledger \in [Keys -> Posts \cup {None}]
      /\ r \in Requests /\ Posts \subseteq Requests
  BY DEF TypeInv, MessageTypes, Requests
<1>2. PICK s \in Ended \cup {"write"} : Moves(r, s)
  BY <1>1, RecordMoves
<1>3. UNCHANGED messages
  BY DEF Record
<1>4. CASE KeyOf[r] = None \/ Recorded(r)
  <2>1. UNCHANGED ledger
    BY <1>4 DEF Record
  <2>2. op'[r].pc = "write" => KeyOf[r] = None
    <3>1. KeyOf[r] # None => Go(r, Answer(r, op[r].files))
      BY <1>4 DEF Record
    <3>2. Answer(r, op[r].files) \in {"refused", "hit", "missing"}
      BY AnswerType
    <3>3. \A t \in {"refused", "hit", "missing"} : t \in Steps /\ t # "write"
      BY DEF Steps, Ended
    <3>4. \A t \in {"refused", "hit", "missing"} : Go(r, t) => op'[r].pc = t
      BY <1>1, <3>3, GoMoves DEF Moves
    <3> QED
      BY <3>1, <3>2, <3>3, <3>4
  <2> QED
    BY <1>1, <1>2, <1>3, <2>1, <2>2 DEF OwnsKey, Moves, Ended
<1>5. CASE KeyOf[r] # None /\ ~Recorded(r)
  <2>1. /\ ledger' = [ledger EXCEPT ![KeyOf[r]] = r] /\ KeyOf[r] \in Keys
        /\ ledger[KeyOf[r]] = None
    BY <1>5 DEF Record, Recorded, PostingAssumption
  <2>2. \A q \in Posts : q # None /\ (KeyOf[q] # None => KeyOf[q] \in Keys)
    BY DEF PostingAssumption, Requests
  <2>3. ledger'[KeyOf[r]] = r /\ \A key \in Keys \ {KeyOf[r]} : ledger'[key] = ledger[key]
    BY <1>1, <2>1
  <2> QED
    BY <1>1, <1>2, <1>3, <2>1, <2>2, <2>3 DEF OwnsKey, Moves
<1> QED
  BY <1>4, <1>5

LEMMA StepKeys ==
  ASSUME PostingAssumption, TypeInv, OwnsKey, [Next]_vars
  PROVE  OwnsKey'
<1>1. op \in [Requests -> Ops] /\ Posts \subseteq Requests /\ Humans \cap Posts = {}
  BY DEF TypeInv, Requests, PostingAssumption
<1>2. CASE UNCHANGED vars
  BY <1>2, KeysStay DEF vars, msgVars
<1>3. ASSUME NEW r \in Posts, Post(r)
      PROVE  OwnsKey'
  <2>1. r \in Requests
    BY <1>1
  <2>2. CASE \E files \in Bodies : Lookup(r, files)
    BY <1>1, <2>1, <2>2, LookupMoves, KeysStay DEF Lookup, Moves, msgVars, Ended
  <2>3. CASE Gate(r)
    BY <1>1, <2>1, <2>3, GateMoves, KeysStay DEF Gate, Moves, msgVars
  <2>4. CASE Hold(r)
    BY <1>1, <2>1, <2>4, HoldMoves, KeysStay DEF Hold, Moves, msgVars, Ended
  <2>5. CASE Record(r)
    BY <2>5, RecordKeys
  <2> QED
    BY <1>3, <2>2, <2>3, <2>4, <2>5 DEF Post
<1>4. ASSUME NEW r \in Requests, Write(r) \/ Abort(r)
      PROVE  OwnsKey'
  <2>1. CASE Begin(r)
    <3>1. Moves(r, "bind") /\ At(r, "write")
      BY <1>1, <2>1, GoMoves DEF Begin, Steps
    <3> QED
      BY <1>1, <2>1, <3>1, KeysStay DEF Begin, Moves, At, msgVars
  <2>2. CASE (\E u \in Uploads : Bind(r, u)) \/ Abort(r) \/ Undo(r)
    <3>1. \A q \in Posts : op'[q].pc \in {"write", "bind"} => op[q].pc \in {"write", "bind"}
      <4>1. CASE \E s \in {"undo", "failed"} : Go(r, s)
        BY <1>1, <4>1, GoMoves DEF Moves, Steps, Ended
      <4>2. CASE \E b : op' = [op EXCEPT ![r].bound = b]
        BY <1>1, <4>2 DEF Ops
      <4>3. \/ \E s \in {"undo", "failed"} : Go(r, s)
            \/ \E b : op' = [op EXCEPT ![r].bound = b]
        BY <2>2 DEF Bind, Abort, Undo, Fail
      <4> QED
        BY <4>1, <4>2, <4>3
    <3>2. UNCHANGED <<ledger, messages>>
      BY <2>2 DEF Bind, Abort, Undo, msgVars
    <3> QED
      BY <3>1, <3>2, KeysStay
  <2>3. CASE Commit(r)
    <3>1. UNCHANGED ledger
      BY <2>3 DEF Commit
    <3> QED
      BY <1>1, <2>3, <3>1, CommitEffect DEF OwnsKey
  <2>4. CASE Finalize(r)
    <3>1. UNCHANGED <<ledger, messages>>
      BY <2>4 DEF Finalize, msgVars
    <3>2. \A q \in Posts : op'[q].pc = op[q].pc \/ op'[q].pc = "posted"
      BY <1>1, <2>4, FinalizeEffect DEF Binds
    <3> QED
      BY <3>1, <3>2, KeysStay
  <2> QED
    BY <1>4, <2>1, <2>2, <2>3, <2>4 DEF Write
<1>5. ASSUME NEW h \in Humans, Button(h) \/ Press(h)
      PROVE  OwnsKey'
  <2>1. /\ h \in Requests /\ h \notin Posts
        /\ {"settled", "refused", "combo"} \subseteq Steps
    BY <1>1 DEF Requests, Steps, Ended
  <2>2. \E s : Moves(h, s)
    <3>1. CASE Button(h)
      BY <1>1, <2>1, <3>1, GoMoves DEF Button, Discard, Reevaluate, Combo
    <3>2. CASE Press(h)
      BY <2>1, <3>2, CheckMoves DEF Press
    <3> QED
      BY <1>5, <3>1, <3>2
  <2>3. UNCHANGED <<ledger, messages>>
    BY <1>5 DEF Button, Discard, Reevaluate, Combo, Press, Check, msgVars
  <2> QED
    BY <1>1, <2>1, <2>2, <2>3, KeysStay DEF Moves
<1>6. CASE Crash
  <2>1. UNCHANGED <<ledger, messages>>
    BY <1>6 DEF Crash, msgVars
  <2>2. \A q \in Posts : op'[q].pc = op[q].pc \/ op'[q].pc = "gone"
    BY <1>1, <1>6 DEF Crash, Ops
  <2> QED
    BY <2>1, <2>2, KeysStay
<1>7. ASSUME \/ \E u \in Uploads : Upload(u) \/ Age(u)
             \/ \E new \in BOOLEAN : Talk(new)
             \/ \E d \in Posts : ScanRead(d)
             \/ ScanFlip
             \/ \E delivered \in BOOLEAN : ScanCombo(delivered)
             \/ Collect
      PROVE  OwnsKey'
  <2>1. UNCHANGED <<op, ledger, messages>>
    BY <1>7 DEF Upload, Age, Talk, ScanRead, ScanFlip, ScanCombo, Collect, GcList, GcStat,
           GcExempt, GcDelete, msgVars
  <2> QED
    BY <2>1, KeysStay
<1> QED
  BY <1>2, <1>3, <1>4, <1>5, <1>6, <1>7 DEF Next, Request

\* Retries and duplicates of a request put one message in the channel, however
\* many there are and in whatever order they meet the ledger row (record, lookup).
THEOREM KeyIsOnce ==
  ASSUME PostingAssumption
  PROVE  Spec => []KeyOnce
<1> DEFINE Inv == TypeInv /\ OwnsKey
<1>1. Init => Inv
  <2>1. Init => OwnsKey
    BY DEF Init, OwnsKey, Requests
  <2> QED
    BY <2>1, InitTypes
<1>2. Inv /\ [Next]_vars => Inv'
  BY StepTypes, StepKeys
<1>3. Inv => KeyOnce
  BY DEF OwnsKey, KeyOnce
<1> QED
  BY <1>1, <1>2, <1>3, PTL DEF Spec

-----------------------------------------------------------------------------
(* The channel implements the timeline *)

Readable ==
  {<<fileOf[u], u>> : u \in {v \in Uploads : fileOf[v] # None /\ body[v] = "files"}}

\* As long as files/ and the files' messages stay, the readable attachments stay.
LEMMA ReadableStays ==
  ASSUME UNCHANGED fileOf,
         \A u \in Uploads : fileOf[u] # None => (body'[u] = "files" <=> body[u] = "files")
  PROVE  Readable' = Readable
<1>1. {v \in Uploads : fileOf'[v] # None /\ body'[v] = "files"}
        = {v \in Uploads : fileOf[v] # None /\ body[v] = "files"}
  OBVIOUS
<1> QED
  BY <1>1 DEF Readable

\* The commit shows the message together with what it has bound.
LEMMA CommitShows ==
  ASSUME PostingAssumption, TypeInv, FilesInv, NEW r \in Requests, Commit(r)
  PROVE  /\ r \notin messages /\ op[r].bound \in SUBSET Uploads
         /\ \A n \in messages, u \in op[r].bound : <<n, u>> \notin Readable
         /\ messages' = messages \cup {r}
         /\ Readable' = Readable \cup ({r} \X op[r].bound)
<1>1. op[r].bound \in SUBSET Uploads /\ r # None /\ r \in Pending /\ messages \subseteq Requests
  BY CommitEffect DEF TypeInv, Ops, MessageTypes, PostingAssumption, Pending
<1>2. r \notin messages
  BY CommitEffect DEF FilesInv, Past
<1>3. \A u \in op[r].bound : body[u] = "files" /\ fileOf[u] = None
  BY <1>1 DEF FilesInv, Guarded
<1>4. \A n \in messages, u \in op[r].bound : <<n, u>> \notin Readable
  BY <1>3 DEF Readable
<1>5. Readable' = Readable \cup ({r} \X op[r].bound)
  <2>1. ASSUME NEW x \in Readable' PROVE x \in Readable \cup ({r} \X op[r].bound)
    <3>1. PICK u \in Uploads : fileOf'[u] # None /\ body'[u] = "files" /\ x = <<fileOf'[u], u>>
      BY <2>1 DEF Readable
    <3>2. CASE u \in op[r].bound
      BY <3>1, <3>2, CommitEffect
    <3>3. CASE u \notin op[r].bound
      BY <3>1, <3>3, CommitEffect DEF Readable
    <3> QED
      BY <3>2, <3>3
  <2>2. ASSUME NEW x \in Readable PROVE x \in Readable'
    <3>1. PICK u \in Uploads : fileOf[u] # None /\ body[u] = "files" /\ x = <<fileOf[u], u>>
      BY <2>2 DEF Readable
    <3>2. u \notin op[r].bound
      BY <1>3, <3>1
    <3> QED
      BY <3>1, <3>2, CommitEffect DEF Readable
  <2>3. ASSUME NEW u \in op[r].bound PROVE <<r, u>> \in Readable'
    <3>1. u \in Uploads /\ fileOf'[u] = r /\ body'[u] = "files"
      BY <1>1, <1>3, CommitEffect
    <3> QED
      BY <1>1, <3>1 DEF Readable
  <2> QED
    BY <2>1, <2>2, <2>3
<1> QED
  BY <1>1, <1>2, <1>4, <1>5, CommitEffect

\* Every other step stutters for the readers.
LEMMA OtherStutter ==
  ASSUME PostingAssumption, TypeInv, FilesInv, [Next]_vars,
         ~ \E r \in Requests : Commit(r)
  PROVE  UNCHANGED <<messages, Readable>>
<1>1. body \in [Uploads -> {"none", "staging", "files", "deleted"}]
  BY DEF TypeInv, FileTypes
<1>2. CASE Quiet
  BY <1>2, ReadableStays DEF Quiet
<1>3. ASSUME NEW r \in Requests, NEW u \in Uploads, Takes(r, u)
      PROVE  UNCHANGED <<messages, Readable>>
  <2>1. fileOf[u] = None /\ UNCHANGED <<messages, fileOf>>
    BY <1>3 DEF Takes, FilesInv, Owned
  <2> QED
    BY <1>1, <1>3, <2>1, ReadableStays DEF Takes
<1>4. ASSUME NEW r \in Requests, NEW u \in Uploads, GivesBack(r, u)
      PROVE  UNCHANGED <<messages, Readable>>
  <2>1. fileOf[u] = None /\ UNCHANGED <<messages, fileOf>>
    BY <1>4 DEF GivesBack, FilesInv, Guarded, Pending, At
  <2> QED
    BY <1>1, <1>4, <2>1, ReadableStays DEF GivesBack
<1>5. ASSUME NEW r \in Requests, Finalize(r)
      PROVE  UNCHANGED <<messages, Readable>>
  BY <1>5, FinalizeEffect, ReadableStays
<1>6. CASE Crash
  BY <1>6, CrashFiles, ReadableStays
<1> QED
  BY <1>2, <1>3, <1>4, <1>5, <1>6, StepKinds

\* Every behaviour of posting is one of the timeline that readers are promised:
\* a message appears with all its attachments, which then stay readable.
THEOREM PostingImplementsTimeline ==
  ASSUME PostingAssumption
  PROVE  Spec => TimelineSpec
<1> DEFINE Inv == TypeInv /\ FilesInv
<1>1. Init => Inv
  BY InitTypes, InitFiles
<1>2. Inv /\ [Next]_vars => Inv'
  BY StepTypes, StepFiles
<1>3. Init => Readers!Init
  BY DEF Init, Readers!Init
<1>4. Inv /\ [Next]_vars => [Readers!Next]_<<messages, Readable>>
  <2> SUFFICES ASSUME Inv, [Next]_vars
               PROVE  [Readers!Next]_<<messages, Readable>>
    OBVIOUS
  <2>1. CASE \E r \in Requests : Commit(r)
    <3>1. PICK r \in Requests : Commit(r)
      BY <2>1
    <3>2. PICK b \in SUBSET Uploads : b = op[r].bound
      BY <3>1, CommitShows
    <3>3. Readers!Show(r, b)
      BY <3>1, <3>2, CommitShows DEF Readers!Show, Readable
    <3>4. Readers!Next
      BY <3>3 DEF Readers!Next
    <3> QED
      BY <3>4
  <2>2. CASE ~ \E r \in Requests : Commit(r)
    BY <2>2, OtherStutter
  <2> QED
    BY <2>1, <2>2
<1> QED
  BY <1>1, <1>2, <1>3, <1>4, PTL DEF Spec, TimelineSpec, Readers!Spec, Readable
=============================================================================
