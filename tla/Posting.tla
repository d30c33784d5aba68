------------------------------- MODULE Posting -------------------------------
(***************************************************************************)
(* Sending a message to a channel: the Idempotency-Key ledger, the         *)
(* freshness gate that holds an agent's message as a draft, the binding of *)
(* uploaded files inside the database transaction, what humans and the     *)
(* periodic scan do with drafts, and the hourly collection of uploads.     *)
(*                                                                         *)
(* Requests run in a thread pool and SQLite has one writer. A read before  *)
(* the first write of a request sees what is committed at that moment: the *)
(* driver opens a transaction at the first write. For the same reason the  *)
(* SAVEPOINT of record() and of hold_or_update, when it is what opens the  *)
(* transaction, commits when it is released.                               *)
(*                                                                         *)
(* A request that posts is also the id of its message, and of the draft    *)
(* row that it may insert.                                                 *)
(***************************************************************************)
EXTENDS Integers, FiniteSets

CONSTANTS
  Posts, Humans,         \* requests that post; requests of the three buttons
  ByAgent,               \* the posts of the agent
  Keys, KeyOf,           \* Idempotency-Key of a post (None: no header)
  Uploads, Bodies,       \* uploads; the sets of them that a body may name
  None,                  \* no draft, no message, no key
  EscalateN,             \* channels.held_escalate_n
  Budget                 \* fault |-> how often it may strike

Faults == {"crash", "error"}
Requests == Posts \cup Humans

\* With a threshold of one a row would be inserted, and committed, before its
\* escalation.
ASSUME PostingAssumption ==
  /\ Posts \cap Humans = {} /\ ByAgent \subseteq Posts
  /\ None \notin Requests \cup Keys
  /\ KeyOf \in [Posts -> Keys \cup {None}]
  /\ Bodies \subseteq SUBSET Uploads
  /\ EscalateN \in Nat \ {0, 1}
  /\ Budget \in [Faults -> Nat]

VARIABLES
  body, sidecar,         \* where an upload's body is; is its sidecar there?
  old,                   \* uploads whose body is older than 24 h
  ledger,                \* the message recorded for a key
  messages, fileOf,      \* committed messages; files.message_id
  status, payload,       \* held_drafts: status; the attachments of its content
  count, raised,         \* held_count; how often it was escalated
  unread,                \* has the agent unread messages of others?
  op,                    \* requests: where they stand and what they have read
  lock,                  \* the request whose transaction holds the write lock
  scan,                  \* run_held_scan: where it stands, the draft it read
  gc, listed, orphans,   \* run_gc: where it stands, entries to look at, to delete
  left                   \* the remaining fault budget

fileVars  == <<body, sidecar, old>>
msgVars   == <<ledger, messages, fileOf>>
draftVars == <<status, payload, count, raised>>
gcVars    == <<gc, listed, orphans>>
vars == <<fileVars, msgVars, draftVars, unread, op, lock, scan, gcVars, left>>

Active   == {"held", "reevaluating"}
Terminal == {"released", "discarded"}

Ended == {"posted", "held", "hit", "missing", "settled", "refused", "failed", "gone"}
Steps == {"new", "gate", "hold", "record", "write", "bind", "undo", "finalize",
          "discard", "reevaluate", "combo"} \cup Ended
Ops   == [pc : Steps, draft : Posts \cup {None}, seen : Nat,
          files : SUBSET Uploads, bound : SUBSET Uploads]

Spend(fault) ==
  /\ left[fault] > 0
  /\ left' = [left EXCEPT ![fault] = @ - 1]

Init ==
  /\ body = [u \in Uploads |-> "none"] /\ sidecar = {} /\ old = {}
  /\ ledger = [key \in Keys |-> None]
  /\ messages = {} /\ fileOf = [u \in Uploads |-> None]
  /\ status = [d \in Posts |-> "none"] /\ payload = [d \in Posts |-> {}]
  /\ count = [d \in Posts |-> 0] /\ raised = [d \in Posts |-> 0]
  /\ unread = FALSE
  /\ op = [r \in Requests |-> [pc |-> "new", draft |-> None, seen |-> 0,
                               files |-> {}, bound |-> {}]]
  /\ lock = None
  /\ scan = [pc |-> "idle", draft |-> None]
  /\ gc = "asleep" /\ listed = {} /\ orphans = {} /\ left = Budget

At(r, step) == op[r].pc = step
Go(r, step) == op' = [op EXCEPT ![r].pc = step]

-----------------------------------------------------------------------------
(* Uploads, and the agent's read position *)

Upload(u) ==
  /\ body[u] = "none"
  /\ body' = [body EXCEPT ![u] = "staging"] /\ sidecar' = sidecar \cup {u}
  /\ UNCHANGED <<old, msgVars, draftVars, unread, op, lock, scan, gcVars, left>>

Age(u) ==
  /\ body[u] = "staging"
  /\ old' = old \cup {u}
  /\ UNCHANGED <<body, sidecar, msgVars, draftVars, unread, op, lock, scan, gcVars, left>>

\* Somebody else writes; the backlog is delivered to the agent.
Talk(new) ==
  /\ unread' = new
  /\ UNCHANGED <<fileVars, msgVars, draftVars, op, lock, scan, gcVars, left>>

-----------------------------------------------------------------------------
(* post_message *)

\* A recorded key answers with its message, or 409 if the body is not the same.
Recorded(r) == KeyOf[r] # None /\ ledger[KeyOf[r]] # None
Answer(r, files) ==
  LET m == ledger[KeyOf[r]] IN
  IF op[m].files # files THEN "refused" ELSE IF m \in messages THEN "hit" ELSE "missing"

\* lookup: before the gate, without a write.
Lookup(r, files) ==
  /\ At(r, "new")
  /\ op' = [op EXCEPT ![r].files = files,
                      ![r].pc = IF Recorded(r) THEN Answer(r, files) ELSE "gate"]
  /\ UNCHANGED <<fileVars, msgVars, draftVars, unread, lock, scan, gcVars, left>>

Live == {d \in Posts : status[d] \in Active}
LiveDraft == IF Live = {} THEN None ELSE CHOOSE d \in Live : TRUE

\* freshness_hold: unread messages stop an agent; the active draft is looked up.
Gate(r) ==
  /\ At(r, "gate")
  /\ IF r \in ByAgent /\ unread
       THEN op' = [op EXCEPT ![r].pc = "hold", ![r].draft = LiveDraft,
                             ![r].seen = IF Live = {} THEN 0 ELSE count[LiveDraft]]
       ELSE Go(r, "record")
  /\ UNCHANGED <<fileVars, msgVars, draftVars, unread, lock, scan, gcVars, left>>

\* An active row besides d makes the write fail (uq_held_drafts_active).
Clashes(d) == Live \ {d} # {}

\* _apply_rehold, by id, then _escalate at the threshold, once.
Rehold(r, d, before) ==
  IF Clashes(d)
    THEN Go(r, "failed") /\ UNCHANGED <<draftVars, unread>>
    ELSE LET escalates == before + 1 >= EscalateN /\ raised[d] = 0 IN
         /\ status' = [status EXCEPT ![d] = "held"]
         /\ payload' = [payload EXCEPT ![d] = op[r].files]
         /\ count' = [count EXCEPT ![d] = before + 1]
         /\ raised' = [raised EXCEPT ![d] = @ + (IF escalates THEN 1 ELSE 0)]
         /\ unread' = (unread \/ escalates)
         /\ Go(r, "held")

\* hold_or_update: the row that was found, or the one that made the INSERT fail.
Hold(r) ==
  /\ At(r, "hold") /\ lock = None
  /\ IF op[r].draft # None THEN Rehold(r, op[r].draft, op[r].seen)
     ELSE IF Live # {} THEN Rehold(r, LiveDraft, count[LiveDraft])
     ELSE /\ status' = [status EXCEPT ![r] = "held"]
          /\ payload' = [payload EXCEPT ![r] = op[r].files]
          /\ count' = [count EXCEPT ![r] = 1]
          /\ Go(r, "held")
          /\ UNCHANGED <<raised, unread>>
  /\ UNCHANGED <<fileVars, msgVars, lock, scan, gcVars, left>>

\* (mutant) a key that was recorded meanwhile is overwritten
Record_Overwrites(r) ==
  /\ At(r, "record") /\ lock = None
  /\ IF KeyOf[r] = None
       THEN Go(r, "write") /\ UNCHANGED ledger
       ELSE ledger' = [ledger EXCEPT ![KeyOf[r]] = r] /\ Go(r, "write")
  /\ UNCHANGED <<fileVars, messages, fileOf, draftVars, unread, lock, scan, gcVars, left>>

\* record: the SAVEPOINT commits the ledger row by itself.
Record(r) ==
  /\ At(r, "record") /\ lock = None
  /\ IF KeyOf[r] = None
       THEN Go(r, "write") /\ UNCHANGED ledger
     ELSE IF Recorded(r)
       THEN Go(r, Answer(r, op[r].files)) /\ UNCHANGED ledger
     ELSE ledger' = [ledger EXCEPT ![KeyOf[r]] = r] /\ Go(r, "write")
  /\ UNCHANGED <<fileVars, messages, fileOf, draftVars, unread, lock, scan, gcVars, left>>

-----------------------------------------------------------------------------
(* persist_message and the end of the request's transaction *)

\* The INSERT of the message takes the write lock.
Begin(r) ==
  /\ At(r, "write") /\ lock = None
  /\ lock' = r
  /\ Go(r, "bind")
  /\ UNCHANGED <<fileVars, msgVars, draftVars, unread, scan, gcVars, left>>

\* (mutant) the transaction of a failed request stays open
Fail_KeepsLock(r) == Go(r, "undo") /\ UNCHANGED lock

Fail(r) == Go(r, "undo") /\ lock' = None

\* One attachment: its body moves to files/, unless it is not staged (404).
Bind(r, u) ==
  /\ At(r, "bind") /\ u \in op[r].files \ op[r].bound
  /\ IF body[u] = "staging" /\ u \in sidecar
       THEN /\ body' = [body EXCEPT ![u] = "files"]
            /\ op' = [op EXCEPT ![r].bound = @ \cup {u}]
            /\ UNCHANGED lock
       ELSE Fail(r) /\ UNCHANGED body
  /\ UNCHANGED <<sidecar, old, msgVars, draftVars, unread, scan, gcVars, left>>

\* Any later step of the transaction fails: task creation, the commit itself.
Abort(r) ==
  /\ At(r, "bind")
  /\ Spend("error")
  /\ Fail(r)
  /\ UNCHANGED <<fileVars, msgVars, draftVars, unread, scan, gcVars>>

\* A release closes its draft in the transaction of its message, by id.
Close(r) ==
  status' = IF r \in Humans THEN [status EXCEPT ![op[r].draft] = "released"] ELSE status

\* (mutant) the commit does not wait for the last attachment
Commit_Early(r) ==
  /\ At(r, "bind")
  /\ lock' = None
  /\ messages' = messages \cup {r}
  /\ fileOf' = [u \in Uploads |-> IF u \in op[r].files THEN r ELSE fileOf[u]]
  /\ Close(r)
  /\ unread' = (unread \/ r \in Posts \ ByAgent)
  /\ Go(r, "finalize")
  /\ UNCHANGED <<fileVars, ledger, payload, count, raised, scan, gcVars, left>>

\* The commit, once every attachment is bound.
Commit(r) ==
  /\ At(r, "bind") /\ op[r].files = op[r].bound
  /\ lock' = None
  /\ messages' = messages \cup {r}
  /\ fileOf' = [u \in Uploads |-> IF u \in op[r].bound THEN r ELSE fileOf[u]]
  /\ Close(r)
  /\ unread' = (unread \/ r \in Posts \ ByAgent)
  /\ Go(r, "finalize")
  /\ UNCHANGED <<fileVars, ledger, payload, count, raised, scan, gcVars, left>>

\* After the commit: the sidecars go.
Finalize(r) ==
  /\ At(r, "finalize")
  /\ sidecar' = sidecar \ op[r].bound
  /\ op' = [op EXCEPT ![r].pc = "posted", ![r].bound = {}]
  /\ UNCHANGED <<body, old, msgVars, draftVars, unread, lock, scan, gcVars, left>>

\* (mutant) the rollback of the database is all
Undo_NoBodies(r) ==
  /\ At(r, "undo")
  /\ op' = [op EXCEPT ![r].pc = "failed", ![r].bound = {}]
  /\ UNCHANGED <<fileVars, msgVars, draftVars, unread, lock, scan, gcVars, left>>

\* After a rollback: the bodies move back, one by one.
Undo(r) ==
  /\ At(r, "undo")
  /\ IF op[r].bound = {}
       THEN Go(r, "failed") /\ UNCHANGED body
       ELSE \E u \in op[r].bound :
              /\ body' = [body EXCEPT ![u] = "staging"]
              /\ op' = [op EXCEPT ![r].bound = @ \ {u}]
  /\ UNCHANGED <<sidecar, old, msgVars, draftVars, unread, lock, scan, gcVars, left>>

-----------------------------------------------------------------------------
(* The three buttons and the periodic scan *)

\* Each button reads the draft and refuses a closed one (409).
Check(h, step, d) ==
  /\ At(h, "new")
  /\ status[d] # "none"
  /\ op' = IF status[d] \in Terminal THEN [op EXCEPT ![h].pc = "refused"]
           ELSE [op EXCEPT ![h].pc = step, ![h].draft = d, ![h].files = payload[d]]
  /\ UNCHANGED <<fileVars, msgVars, draftVars, unread, lock, scan, gcVars, left>>

Discard(h) ==
  /\ At(h, "discard") /\ lock = None
  /\ status' = [status EXCEPT ![op[h].draft] = "discarded"]
  /\ Go(h, "settled")
  /\ UNCHANGED <<fileVars, msgVars, payload, count, raised, unread, lock, scan, gcVars, left>>

\* reevaluate_held: the UPDATE is limited to active rows.
Reevaluate(h) ==
  /\ At(h, "reevaluate") /\ lock = None
  /\ IF status[op[h].draft] \in Active
       THEN status' = [status EXCEPT ![op[h].draft] = "reevaluating"] /\ Go(h, "combo")
       ELSE Go(h, "refused") /\ UNCHANGED status
  /\ UNCHANGED <<fileVars, msgVars, payload, count, raised, unread, lock, scan, gcVars, left>>

\* wake, deliver, inject: the backlog is delivered if the daemon answers.
Combo(h, delivered) ==
  /\ At(h, "combo")
  /\ unread' = (unread /\ ~delivered)
  /\ Go(h, "settled")
  /\ UNCHANGED <<fileVars, msgVars, draftVars, lock, scan, gcVars, left>>

\* run_held_scan reads the rows that are due, then writes them, by id.
ScanRead(d) ==
  /\ scan.pc = "idle" /\ status[d] = "held" /\ raised[d] = 0
  /\ scan' = [pc |-> "flip", draft |-> d]
  /\ UNCHANGED <<fileVars, msgVars, draftVars, unread, op, lock, gcVars, left>>

ScanFlip ==
  /\ scan.pc = "flip" /\ lock = None
  /\ IF Clashes(scan.draft)
       THEN scan' = [pc |-> "idle", draft |-> None] /\ UNCHANGED status
       ELSE /\ status' = [status EXCEPT ![scan.draft] = "reevaluating"]
            /\ scan' = [scan EXCEPT !.pc = "combo"]
  /\ UNCHANGED <<fileVars, msgVars, payload, count, raised, unread, op, lock, gcVars, left>>

ScanCombo(delivered) ==
  /\ scan.pc = "combo"
  /\ unread' = (unread /\ ~delivered)
  /\ scan' = [pc |-> "idle", draft |-> None]
  /\ UNCHANGED <<fileVars, msgVars, draftVars, op, lock, gcVars, left>>

-----------------------------------------------------------------------------
(* run_gc: at start and every hour, in a thread *)

GcList ==
  /\ gc = "asleep"
  /\ listed' = {u \in Uploads : body[u] = "staging"}
  /\ orphans' = {} /\ gc' = "stat"
  /\ UNCHANGED <<fileVars, msgVars, draftVars, unread, op, lock, scan, left>>

\* is_file and stat of one entry: a body that was moved between the two raises,
\* and the task that would call run_gc again ends.
GcStat(u) ==
  /\ gc = "stat" /\ u \in listed
  /\ listed' = listed \ {u}
  /\ orphans' = IF body[u] = "staging" /\ u \in old THEN orphans \cup {u} ELSE orphans
  /\ gc' \in IF body[u] = "files" THEN {"stat", "dead"} ELSE {"stat"}
  /\ UNCHANGED <<fileVars, msgVars, draftVars, unread, op, lock, scan, left>>

Referenced == UNION {payload[d] : d \in Live}

\* (mutant) closed drafts keep their uploads too
GcExempt_AllDrafts ==
  /\ gc = "stat" /\ listed = {}
  /\ orphans' = orphans \ UNION {payload[d] : d \in {e \in Posts : status[e] # "none"}}
  /\ gc' = "delete"
  /\ UNCHANGED <<listed, fileVars, msgVars, draftVars, unread, op, lock, scan, left>>

GcExempt ==
  /\ gc = "stat" /\ listed = {}
  /\ orphans' = orphans \ Referenced
  /\ gc' = "delete"
  /\ UNCHANGED <<listed, fileVars, msgVars, draftVars, unread, op, lock, scan, left>>

\* delete_staged: the body if it is still staged, and the sidecar; a body that is
\* moved between exists and unlink ends the collection too.
GcDelete ==
  /\ gc = "delete"
  /\ IF orphans = {} THEN gc' = "asleep" /\ UNCHANGED <<orphans, body, sidecar>>
     ELSE \E u \in orphans :
            /\ orphans' = orphans \ {u}
            /\ \/ /\ body' = IF body[u] = "staging" THEN [body EXCEPT ![u] = "deleted"] ELSE body
                  /\ sidecar' = sidecar \ {u}
                  /\ UNCHANGED gc
               \/ /\ body[u] = "files" /\ gc' = "dead"
                  /\ UNCHANGED <<body, sidecar>>
  /\ UNCHANGED <<listed, old, msgVars, draftVars, unread, op, lock, scan, left>>

-----------------------------------------------------------------------------
\* The server dies and starts again: requests in progress are gone, with what
\* they had not committed; files stay where they are.
Crash ==
  /\ Spend("crash")
  /\ op' = [r \in Requests |->
              IF op[r].pc \in Ended \cup {"new"} THEN op[r]
              ELSE [op[r] EXCEPT !.pc = "gone", !.bound = {}]]
  /\ lock' = None
  /\ scan' = [pc |-> "idle", draft |-> None]
  /\ gc' = "asleep" /\ listed' = {} /\ orphans' = {}
  /\ UNCHANGED <<fileVars, msgVars, draftVars, unread>>

Post(r) ==
  (\E files \in Bodies : Lookup(r, files)) \/ Gate(r) \/ Hold(r) \/ Record(r)

Write(r) ==
  Begin(r) \/ (\E u \in Uploads : Bind(r, u)) \/ Commit(r) \/ Finalize(r) \/ Undo(r)

Button(h) ==
  Discard(h) \/ Reevaluate(h) \/ \E delivered \in BOOLEAN : Combo(h, delivered)

Request(r) ==
  \/ r \in Posts /\ Post(r)
  \/ Write(r)
  \/ r \in Humans /\ Button(r)

Press(h) ==
  \E d \in Posts, step \in {"write", "discard", "reevaluate"} : Check(h, step, d)

Collect == GcList \/ (\E u \in Uploads : GcStat(u)) \/ GcExempt \/ GcDelete

Next ==
  \/ \E u \in Uploads : Upload(u) \/ Age(u)
  \/ \E new \in BOOLEAN : Talk(new)
  \/ \E r \in Requests : Request(r) \/ Abort(r)
  \/ \E h \in Humans : Press(h)
  \/ \E d \in Posts : ScanRead(d)
  \/ ScanFlip
  \/ \E delivered \in BOOLEAN : ScanCombo(delivered)
  \/ Collect
  \/ Crash

Spec == Init /\ [][Next]_vars

\* A request that has started goes on, SQLite lets every writer have its turn
\* (busy_timeout), and the collection runs every hour.
Fairness ==
  /\ \A r \in Requests : WF_vars(op[r].pc # "new" /\ Request(r))
  /\ WF_vars(Collect)

FairSpec == Spec /\ Fairness

-----------------------------------------------------------------------------
(* Properties *)

FileTypes ==
  /\ body \in [Uploads -> {"none", "staging", "files", "deleted"}]
  /\ sidecar \subseteq Uploads /\ old \subseteq Uploads

MessageTypes ==
  /\ ledger \in [Keys -> Posts \cup {None}]
  /\ messages \subseteq Requests /\ fileOf \in [Uploads -> Requests \cup {None}]

DraftTypes ==
  /\ status \in [Posts -> {"none"} \cup Active \cup Terminal]
  /\ payload \in [Posts -> SUBSET Uploads]
  /\ count \in [Posts -> Nat] /\ raised \in [Posts -> Nat]
  /\ unread \in BOOLEAN

ScanTypes ==
  /\ scan \in [pc : {"idle", "flip", "combo"}, draft : Posts \cup {None}]
  /\ gc \in {"asleep", "stat", "delete", "dead"}
  /\ listed \subseteq Uploads /\ orphans \subseteq Uploads
  /\ left \in [Faults -> Nat]

\* The write lock belongs to the request that is in its transaction.
LockHeld == lock = None \/ (lock \in Requests /\ At(lock, "bind"))

\* Every variable keeps its type, and only a request in its transaction has the
\* write lock, however requests fail (get_tx).
TypeInv ==
  /\ FileTypes /\ MessageTypes /\ DraftTypes /\ ScanTypes
  /\ op \in [Requests -> Ops] /\ LockHeld

\* Retries and duplicates of a request, in whatever order they meet its ledger
\* row, put one message in the channel (record and lookup, ledger/service.py).
KeyOnce ==
  \A r, s \in messages \cap Posts : KeyOf[r] = KeyOf[s] /\ KeyOf[r] # None => r = s

\* No failure of a request leaves a body in files/ that no message has: until it
\* is moved back, some request still answers for it (rollback_file_bindings). A
\* crash may, for nothing looks at files/ afterwards.
NoStrayFile ==
  left["crash"] = Budget["crash"] =>
    \A u \in Uploads : body[u] = "files" =>
      fileOf[u] # None \/ \E r \in Requests : u \in op[r].bound

\* A message is seen with all its attachments or not at all, whatever fails or
\* collects files meanwhile, and its attachments stay readable (persist_message,
\* get_tx, run_gc).
Readers == INSTANCE Timeline WITH
  Messages <- Requests,
  shown <- messages,
  readable <- {<<fileOf[u], u>> : u \in {v \in Uploads : fileOf[v] # None /\ body[v] = "files"}}
TimelineSpec == Readers!Spec

\* A request that has started ends: no failed transaction keeps the write lock.
RequestsEnd ==
  \A r \in Requests : []<>(op[r].pc \in Ended \cup {"new"})

\* An upload of more than 24 h that no message took and no draft needs is
\* collected, unless the collection has died.
OrphansCollected ==
  \A u \in Uploads :
    []<>(u \notin old \/ body[u] # "staging" \/ u \in Referenced \/ gc = "dead")

\* A draft that was released or discarded stays so.
Settled == \A d \in Posts : status[d] \in Terminal => status'[d] = status[d]
TerminalStays == [][Settled]_vars
=============================================================================
