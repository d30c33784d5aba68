-------------------------------- MODULE Merge --------------------------------
(***************************************************************************)
(* Merging the branches of finished tasks into the main working tree of    *)
(* one project.  The server accepts a request (tasks/merge.py), remembers  *)
(* it in memory and sends it; the daemon's lane runs one git operation at  *)
(* a time (client.ts, git.ts) and has to leave the tree as it was unless   *)
(* it merged, whatever git, a timeout or a crash do.  The outcome goes     *)
(* back as a status, which a broken connection loses, and an ack.          *)
(*                                                                         *)
(* git itself is external: it touches the tree, stages the merge with or   *)
(* without conflicts, and commits.  The bounds are Requests, Cuts,         *)
(* Writes and Stops.                                                       *)
(***************************************************************************)
EXTENDS Naturals, Sequences

CONSTANTS Tasks,    \* tasks that are done and have a worktree
          None,     \* no task
          Requests, \* bound: merges accepted
          Cuts,     \* bound: connections lost, server restarts, frames sent again
          Writes,   \* bound: outcomes the server fails to write
          Stops     \* bound: daemon crashes, git failing to restore the tree

Calls == 1 .. Requests

ASSUME MergeAssumption ==
  /\ Requests \in Nat /\ Cuts \in Nat /\ Writes \in Nat /\ Stops \in Nat /\ None \notin Tasks

VARIABLES
  \* the server: worktree rows, _merge_pending, the last outcome announced,
  \* the requests
  row, pending, told, call,
  \* the connection and what is on it
  conn, down, reports, acks,
  \* the statuses in the hands of writer threads
  writing,
  \* the daemon: its lane, and the main branch when each operation began
  lane, op,
  \* the repository (external): the branches in main, the state of its tree
  main, tree,
  left

server == <<row, pending, told, call>>
net    == <<conn, down, reports, acks>>
daemon == <<lane, op>>
repo   == <<main, tree>>
vars   == <<server, net, writing, daemon, repo, left>>

Outcomes == {"merged", "conflicted"}
Clean    == [is |-> "clean", by |-> None]
Absent   == [at |-> "none", task |-> None]
\* A status in hand: whether its merge was pending when it was read, whether its
\* transaction is over, and whether its connection is.
Writings == [task : Tasks, status : Outcomes, known : BOOLEAN, stored : BOOLEAN,
             late : BOOLEAN]

TypeInv ==
  /\ row \in [Tasks -> Outcomes \union {"active"}]
  /\ pending \in SUBSET Tasks
  /\ told \in [Tasks -> Outcomes \union {"nothing", "failed"}]
  /\ call \in [Calls -> [at : {"none", "accepted", "called", "sent", "lost", "over"},
                         task : Tasks \union {None}]]
  /\ conn \in {"up", "down"}
  /\ down \in Seq(Calls) /\ reports \in Seq([task : Tasks, status : Outcomes])
  /\ acks \in SUBSET [call : Calls, ok : BOOLEAN] /\ writing \in SUBSET Writings
  /\ lane \in Seq(Calls)
  /\ op \in [Calls -> [merging : BOOLEAN, base : SUBSET Tasks]]
  /\ main \in SUBSET Tasks
  /\ tree \in [is : {"clean", "dirty", "staged", "conflict"}, by : Tasks \union {None}]
  /\ left \in [cuts : 0 .. Cuts, writes : 0 .. Writes, stops : 0 .. Stops]

Resting == [merging |-> FALSE, base |-> {}]

Init ==
  /\ row = [t \in Tasks |-> "active"] /\ pending = {}
  /\ told = [t \in Tasks |-> "nothing"] /\ call = [i \in Calls |-> Absent]
  /\ conn = "up" /\ down = <<>> /\ reports = <<>> /\ acks = {} /\ writing = {}
  /\ lane = <<>> /\ op = [i \in Calls |-> Resting]
  /\ main = {} /\ tree = Clean
  /\ left = [cuts |-> Cuts, writes |-> Writes, stops |-> Stops]

Moves(i, step) == call' = [call EXCEPT ![i].at = step]

-----------------------------------------------------------------------------
\* POST /merge: refused while the project has a pending merge or the daemon is
\* offline (a merged row is answered at once).
Ask(i, t) ==
  /\ call[i].at = "none" /\ \A j \in Calls : j < i => call[j].at # "none"
  /\ row[t] # "merged" /\ pending = {} /\ conn = "up"
  /\ call' = [call EXCEPT ![i] = [at |-> "accepted", task |-> t]]
  /\ UNCHANGED <<row, pending, told, net, writing, daemon, repo, left>>

\* After the commit; between the two another request may pass the same gate.
Register(i) ==
  /\ call[i].at = "accepted"
  /\ pending' = pending \union {call[i].task}
  /\ Moves(i, "called")
  /\ UNCHANGED <<row, told, net, writing, daemon, repo, left>>

\* One merge of the project is on the connection at a time.
Send(i) ==
  /\ call[i].at = "called" /\ conn = "up"
  /\ \A j \in Calls : call[j].at # "sent"
  /\ down' = Append(down, i)
  /\ Moves(i, "sent")
  /\ UNCHANGED <<row, pending, told, conn, reports, acks, writing, daemon, repo, left>>

\* Without an ack the same frame is sent again.
Resend(i) ==
  /\ call[i].at = "sent" /\ conn = "up"
  /\ left.cuts > 0 /\ left' = [left EXCEPT !.cuts = @ - 1]
  /\ down' = Append(down, i)
  /\ UNCHANGED <<server, conn, reports, acks, writing, daemon, repo>>

\* An outcome that cannot be written is lost.
NotWritten == left.writes > 0 /\ left' = [left EXCEPT !.writes = @ - 1]

\* The failure is announced and the merge is pending no more, in this order.
FailMerge(i) ==
  /\ Moves(i, "over")
  /\ \/ /\ told' = [told EXCEPT ![call[i].task] = "failed"]
        /\ pending' = pending \ {call[i].task}
        /\ left' = left
     \/ NotWritten /\ UNCHANGED <<told, pending>>

Offline(i) ==
  /\ call[i].at = "lost" \/ (call[i].at = "called" /\ conn = "down")
  /\ FailMerge(i)
  /\ UNCHANGED <<row, net, writing, daemon, repo>>

\* An ack that nobody waits for is dropped.
Acked(a) ==
  /\ a \in acks /\ acks' = acks \ {a}
  /\ IF call[a.call].at # "sent" THEN UNCHANGED <<told, pending, call, left>>
     ELSE IF a.ok THEN Moves(a.call, "over") /\ UNCHANGED <<told, pending, left>>
     ELSE FailMerge(a.call)
  /\ UNCHANGED <<row, conn, down, reports, writing, daemon, repo>>

\* The writer of the connection takes the next status and looks whether its
\* merge is pending.
ReadStatus ==
  /\ reports # <<>> /\ reports' = Tail(reports)
  /\ \A w \in writing : w.late
  /\ writing' = writing \union
       {[task |-> Head(reports).task, status |-> Head(reports).status,
         known |-> Head(reports).task \in pending, stored |-> FALSE, late |-> FALSE]}
  /\ UNCHANGED <<server, conn, down, acks, daemon, repo, left>>

\* The row takes any status; the announcement (for a conflict, with the task to
\* resolve it) is made for a merge that was pending.
Store(w) ==
  /\ w \in writing /\ ~w.stored
  /\ row' = [row EXCEPT ![w.task] = w.status]
  /\ told' = [told EXCEPT ![w.task] = IF w.known THEN w.status ELSE @]
  /\ writing' = (writing \ {w})
                  \union (IF w.known THEN {[w EXCEPT !.stored = TRUE]} ELSE {})
  /\ UNCHANGED <<pending, call, net, daemon, repo, left>>

\* A failed transaction is logged.
WriteFails(w) ==
  /\ w \in writing /\ ~w.stored
  /\ NotWritten
  /\ writing' = writing \ {w}
  /\ UNCHANGED <<server, net, daemon, repo>>

\* What is pending by then is no more.
Pop(w) ==
  /\ w \in writing /\ w.stored
  /\ pending' = pending \ {w.task}
  /\ writing' = writing \ {w}
  /\ UNCHANGED <<row, told, call, net, daemon, repo, left>>

\* (mutant) the hello leaves the merges of the lost connection pending
Connect_KeepsPending ==
  /\ conn = "down" /\ conn' = "up"
  /\ UNCHANGED <<server, down, reports, acks, writing, daemon, repo, left>>

\* The hello forgets the pending merges of the computer.
Connect ==
  /\ conn = "down" /\ conn' = "up" /\ pending' = {}
  /\ UNCHANGED <<row, told, call, down, reports, acks, writing, daemon, repo, left>>

\* The connection goes with what is on it; a thread that writes goes on.
Disconnected == /\ conn' = "down" /\ down' = <<>> /\ reports' = <<>> /\ acks' = {}
                /\ writing' = {[w EXCEPT !.late = TRUE] : w \in writing}

\* The calls that wait on the connection fail with it.
Waiting(i) == call[i].at \in {"called", "sent"}

Cut ==
  /\ conn = "up" /\ left.cuts > 0 /\ left' = [left EXCEPT !.cuts = @ - 1]
  /\ Disconnected
  /\ call' = [i \in Calls |->
                IF Waiting(i) THEN [call[i] EXCEPT !.at = "lost"] ELSE call[i]]
  /\ UNCHANGED <<row, pending, told, daemon, repo>>

\* The server restarts: its memory of the merges is gone, without a word.
Restart ==
  /\ left.cuts > 0 /\ left' = [left EXCEPT !.cuts = @ - 1]
  /\ conn' = "down" /\ down' = <<>> /\ reports' = <<>> /\ acks' = {}
  /\ pending' = {} /\ writing' = {}
  /\ call' = [i \in Calls |->
                IF call[i].at = "none" THEN call[i] ELSE [call[i] EXCEPT !.at = "over"]]
  /\ UNCHANGED <<row, told, daemon, repo>>

\* The daemon dies; git's half-done work stays.
Crash ==
  /\ left.stops > 0 /\ left' = [left EXCEPT !.stops = @ - 1]
  /\ Disconnected
  /\ lane' = <<>> /\ op' = [i \in Calls |-> Resting]
  /\ call' = [i \in Calls |->
                IF Waiting(i) THEN [call[i] EXCEPT !.at = "lost"] ELSE call[i]]
  /\ UNCHANGED <<row, pending, told, repo>>

-----------------------------------------------------------------------------
\* spawnWorktreeInstr: a frame that comes again while its operation waits or runs
\* is dropped; later it runs once more.
Known(i) == op[i].merging \/ \E k \in DOMAIN lane : lane[k] = i

Receive ==
  /\ down # <<>> /\ down' = Tail(down)
  /\ lane' = IF Known(Head(down)) THEN lane ELSE Append(lane, Head(down))
  /\ UNCHANGED <<server, conn, reports, acks, writing, op, repo, left>>

TaskOf(i) == call[i].task

\* The operation is over: the status if there is one, then the ack.
Finish(i, status, ok) ==
  /\ op' = [op EXCEPT ![i] = Resting]
  /\ IF conn = "up"
     THEN /\ acks' = acks \union {[call |-> i, ok |-> ok]}
          /\ reports' = IF status \in Outcomes
                        THEN Append(reports, [task |-> TaskOf(i), status |-> status])
                        ELSE reports
     ELSE UNCHANGED <<acks, reports>>
  /\ UNCHANGED <<server, conn, down, writing>>

Fails(i)   == Finish(i, "nothing", FALSE)

\* The next in the lane, once the one before is over.
Turn(i) == /\ lane # <<>> /\ Head(lane) = i /\ \A j \in Calls : ~op[j].merging
           /\ lane' = Tail(lane)

\* What an unfinished merge of the branch itself leaves to do.
Unfinished(i) == tree.by = TaskOf(i) /\ tree.is \in {"staged", "conflict"}

\* A conflict that a crash left behind is taken back and reported.
RecoverConflict(i) ==
  /\ Turn(i) /\ Unfinished(i) /\ tree.is = "conflict"
  /\ tree' = Clean /\ Finish(i, "conflicted", TRUE)
  /\ UNCHANGED <<main, left>>

\* The branch is in main already: nothing to do but to say so, with its merge
\* commit if that is found.
AlreadyMerged(i) ==
  /\ Turn(i) /\ TaskOf(i) \in main /\ tree.is \in {"clean", "dirty"}
  /\ Finish(i, "merged", TRUE) \/ Fails(i)
  /\ UNCHANGED <<repo, left>>

\* Another's unfinished merge, or changes that are not committed.
Refuse(i) ==
  /\ Turn(i) /\ tree # Clean /\ ~Unfinished(i)
  /\ TaskOf(i) \notin main \/ tree.is # "dirty"
  /\ Fails(i)
  /\ UNCHANGED <<repo, left>>

\* (mutant) no lane: the operations of one project run side by side
Begin_Anytime(i) ==
  /\ lane # <<>> /\ Head(lane) = i /\ TaskOf(i) \notin main
  /\ lane' = Tail(lane)
  /\ op' = [op EXCEPT ![i] = [merging |-> TRUE, base |-> main]]
  /\ UNCHANGED <<server, net, writing, repo, left>>

\* git merge --no-ff is started on a tree that is clean, or made so by taking
\* back what a crash left staged.
Begin(i) ==
  /\ Turn(i) /\ TaskOf(i) \notin main
  /\ tree = Clean \/ (Unfinished(i) /\ tree.is = "staged")
  /\ tree' = Clean
  /\ op' = [op EXCEPT ![i] = [merging |-> TRUE, base |-> main]]
  /\ UNCHANGED <<server, net, writing, main, left>>

-----------------------------------------------------------------------------
\* What git does meanwhile.
Git(i) ==
  /\ op[i].merging /\ TaskOf(i) \notin main
  /\ \/ tree = Clean /\ main' = main /\ tree' = [is |-> "dirty", by |-> TaskOf(i)]
     \/ /\ tree = [is |-> "dirty", by |-> TaskOf(i)] /\ main' = main
        /\ \E state \in {"staged", "conflict"} : tree' = [tree EXCEPT !.is = state]
     \/ /\ tree = [is |-> "staged", by |-> TaskOf(i)]
        /\ main' = main \union {TaskOf(i)} /\ tree' = Clean
  /\ UNCHANGED <<server, net, writing, daemon, left>>

Merged(i) ==
  /\ op[i].merging /\ TaskOf(i) \in main
  /\ Finish(i, "merged", TRUE)
  /\ UNCHANGED <<lane, repo, left>>

\* (mutant) the conflict is reported and left in the tree
Conflicted_NoAbort(i) ==
  /\ op[i].merging /\ tree.is = "conflict"
  /\ Finish(i, "conflicted", TRUE)
  /\ UNCHANGED <<lane, repo, left>>

Conflicted(i) ==
  /\ op[i].merging /\ tree.is = "conflict"
  /\ tree' = Clean /\ Finish(i, "conflicted", TRUE)
  /\ UNCHANGED <<lane, main, left>>

\* git refuses without a conflict (a hook, say), before or after staging.
NotMerged(i) ==
  /\ op[i].merging /\ TaskOf(i) \notin main /\ tree.is \in {"clean", "staged"}
  /\ tree' = Clean /\ Fails(i)
  /\ UNCHANGED <<lane, main, left>>

\* restoreCancelledMerge: merge --abort while there is a merge, otherwise
\* reset --hard to the head of before, which takes back even a commit.
TimedOut(i) ==
  /\ op[i].merging
  /\ tree' = Clean
  /\ main' = IF tree.is \in {"staged", "conflict"} THEN main ELSE op[i].base
  /\ Fails(i)
  /\ UNCHANGED <<lane, left>>

\* The merge --abort or reset of any of these fails, or leaves files behind that
\* git does not track (restoreCancelledMerge looks and throws).
NotRestored(i) ==
  /\ \/ op[i].merging /\ lane' = lane
     \/ Turn(i) /\ Unfinished(i)
  /\ left.stops > 0 /\ left' = [left EXCEPT !.stops = @ - 1]
  /\ Fails(i)
  /\ UNCHANGED repo

-----------------------------------------------------------------------------
Calling(i) == Register(i) \/ Send(i) \/ Offline(i)
Writing(w) == Store(w) \/ Pop(w)
Running(i) == \/ RecoverConflict(i) \/ AlreadyMerged(i) \/ Refuse(i) \/ Begin(i)
              \/ Merged(i) \/ Conflicted(i) \/ NotMerged(i) \/ TimedOut(i)

Next ==
  \/ ReadStatus \/ Connect \/ Cut \/ Restart \/ Crash \/ Receive
  \/ \E a \in acks : Acked(a)
  \/ \E w \in writing : Writing(w) \/ WriteFails(w)
  \/ \E i \in Calls : \/ \E t \in Tasks : Ask(i, t)
                      \/ Calling(i) \/ Resend(i)
                      \/ Running(i) \/ Git(i) \/ NotRestored(i)

\* The tasks of both sides run on, every git command ends or is timed out, and
\* the daemon reconnects.
Fairness ==
  /\ WF_vars(ReadStatus) /\ WF_vars(Connect) /\ WF_vars(Receive)
  /\ WF_vars(\E a \in acks : Acked(a)) /\ WF_vars(\E w \in writing : Writing(w))
  /\ \A i \in Calls : WF_vars(Calling(i)) /\ WF_vars(Running(i))

Spec == Init /\ [][Next]_vars /\ Fairness

-----------------------------------------------------------------------------
\* A row or an announcement that says merged is true of the repository:
\* retries, late statuses, timeouts that reset main and the crash of either
\* side never take back what was reported.
MergedIsTrue ==
  \A t \in Tasks : row[t] = "merged" \/ told[t] = "merged" => t \in main

\* The main working tree is given back as it was: a merge is under way in it
\* only while its operation runs, unless a crash or a failing git left it.
MainRestored ==
  left.stops = Stops /\ tree # Clean =>
    \E i \in Calls : op[i].merging /\ TaskOf(i) = tree.by

\* The project is not locked for ever: whatever is lost, a pending merge is
\* answered or forgotten, unless the server failed to write the answer.
PendingEnds ==
  \A t \in Tasks : t \in pending ~> (t \notin pending \/ left.writes < Writes)

=============================================================================
