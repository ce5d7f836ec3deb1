-------------------------------- MODULE Handoff --------------------------------
(* The handoff of a thread between the local checkout of a project and one of *)
(* its worktrees: the uncommitted edits and the branch move with git, the     *)
(* conversation is forked, and an operation that fails or dies is rolled back *)
(* from a journal.  Both trees share the stash with the rest of the           *)
(* repository.                                                                *)
EXTENDS Integers, SequencesExt

CONSTANTS
  MaxTries,      \* bound: operations on the thread
  MaxTroubles,   \* bound: commands that fail and crashes of the agent, together
  MaxOthers,     \* bound: stashes pushed by somebody else
  SlowAdmission, \* may a handoff start while an admitted turn is not created yet
  Races,         \* may others push between two commands about the same stash
  Meddles        \* may the user edit the trees during an operation

ASSUME HandoffAssumption ==
  /\ {MaxTries, MaxTroubles, MaxOthers} \subseteq Nat
  /\ {SlowAdmission, Races, Meddles} \subseteq BOOLEAN

VARIABLES
  dir,       \* "out": from the local checkout to a worktree, or "back"
  status,    \* thread_handoff_operations.status of the latest operation
  journal,   \* thread_handoff_operations.rollback_journal
  fork,      \* the copy of the thread the operation made: none, hidden or visible
  comments,  \* who has the review comments: source, target or a stray copy
  head,      \* git: the branch or commit each tree is at
  tree,      \* git: the uncommitted edits in each tree
  stash,     \* git: the list of stashes, newest first
  pc,        \* memory: where the operation stands, "off" without one
  ok,        \* memory: no command of the rollback has failed
  at,        \* memory: the position of the stash to drop
  turn,      \* the turn of the source thread
  admitted,  \* memory: a turn has been admitted and is not created yet
  edits,     \* history: all edits anybody has made
  before,    \* history: the trees when the operation began to move them
  count      \* counters of the bounds

record == <<status, journal, fork, comments>>
git == <<head, tree, stash>>
rest == <<dir, admitted, edits>>
vars == <<record, git, pc, ok, at, turn, before, count, rest>>

Counters == {"tries", "troubles", "others", "pushes"}
Trees == {"source", "destination"}
Branches == {"feature", "main", "other"}
Refs == Branches \cup {"commit", "tip"}
Edits == {"work", "mine", "late", "theirs"}

\* Where an operation can stand, beside "off" and "undone".
Checks == {"preflight", "stop", "close", "inspect"}
Moves == {"push source", "note source", "push destination", "note destination", "release",
          "take", "apply source", "apply destination", "fork", "comments", "bind"}
Undoes == {"undo", "undo destination", "undo source", "reapply source", "reapply destination"}
Drops == {"list source", "drop source", "list destination", "drop destination", "clear"}

NoJournal == [prepared |-> FALSE, dest |-> "none",
              oid |-> [t \in Trees |-> 0], applied |-> FALSE]

Init ==
  /\ dir \in {"out", "back"}
  /\ status = "none" /\ journal = NoJournal /\ fork = "none" /\ comments = "source"
  /\ \E r \in {"main", "other", "commit"} :
       head = [t \in Trees |-> IF t = "source" THEN "feature" ELSE r]
  /\ \E D \in {{}, {"mine"}} :
       tree = [t \in Trees |-> IF t = "source" THEN {} ELSE D] /\ edits = D
  /\ stash = <<>> /\ pc = "off" /\ ok = TRUE /\ at = 0
  /\ turn = "none" /\ admitted = FALSE
  /\ before = [head |-> head, tree |-> tree, comments |-> comments]
  /\ count = [c \in Counters |-> 0]

Counted(f) == [count EXCEPT ![f] = @ + 1]
Goes(p, q) == pc = p /\ pc' = q
Trouble == count.troubles < MaxTroubles /\ count' = Counted("troubles")

(******************************* The stash ********************************)

Pushed(mark, E) == <<[id |-> count.pushes + 1, mark |-> mark, has |-> E]>> \o stash

\* What a stash holds, by its object id.
Has(id) == UNION {stash[i].has : i \in {j \in DOMAIN stash : stash[j].id = id}}

\* The stash an operation made of a tree: from the journal, or, when the agent
\* died before it could note it, by the marker in its message.
\* Mutant: only from the journal.
MutStashOf(t) == journal.oid[t]
StashOf(t) ==
  IF journal.oid[t] # 0 THEN journal.oid[t]
  ELSE LET I == {i \in DOMAIN stash : stash[i].mark = <<count.tries, t>>}
       IN  IF I = {} THEN 0 ELSE stash[CHOOSE i \in I : \A j \in I : i <= j].id

\* A branch can be checked out in one tree only.
Free(ref, t) == ref \in Branches => \A u \in Trees \ {t} : head[u] # ref

(********************* Preflight: nothing is moved yet ********************)

Locked == status \in {"running", "await"}

\* The comments stay with a copy that no recovery could remove.
Start ==
  /\ pc = "off" /\ status \in {"none", "failed", "rollback-failed"}
  /\ SlowAdmission \/ ~admitted
  /\ count.tries < MaxTries /\ count' = Counted("tries")
  /\ status' = "running" /\ journal' = NoJournal
  /\ fork' = "none" /\ comments' = IF comments = "target" THEN "stray" ELSE comments
  /\ pc' = "preflight"
  /\ UNCHANGED <<git, ok, at, turn, before, rest>>

Preflight ==
  /\ Goes("preflight", "stop")
  /\ UNCHANGED <<record, git, ok, at, turn, before, count, rest>>

\* The running turn is stopped and has ended.
StopSource ==
  /\ Goes("stop", "close") /\ turn' = "none"
  /\ UNCHANGED <<record, git, ok, at, before, count, rest>>

\* The terminals are closed and the history has no turn at work.
Prepare ==
  /\ Goes("close", "inspect") /\ turn = "none"
  /\ UNCHANGED <<record, git, ok, at, turn, before, count, rest>>

\* The source is on a branch of its own; the intent is on disk before the first
\* command changes anything.
Inspect ==
  /\ Goes("inspect", "push source")
  /\ head["source"] = "feature" /\ (dir = "back" => tree["destination"] = {})
  /\ journal' = [NoJournal EXCEPT !.prepared = TRUE, !.dest = head["destination"]]
  /\ before' = [head |-> head, tree |-> tree, comments |-> comments]
  /\ UNCHANGED <<status, fork, comments, git, ok, at, turn, count, rest>>

\* A pending interaction, a terminal, a dirty tree, a detached head, ...
Refuse ==
  /\ pc \in Checks
  /\ pc' = "off" /\ status' = "failed"
  /\ UNCHANGED <<journal, fork, comments, git, ok, at, turn, before, count, rest>>

(****************************** The transfer ******************************)

\* Edits of a tree go into a stash of their own; what git calls the latest
\* stash is then noted in the journal.
Push(t, p, q, next) ==
  /\ pc = p
  /\ \/ tree[t] = {} /\ pc' = next /\ UNCHANGED <<git, count>>
     \/ /\ tree[t] # {} /\ pc' = q
        /\ stash' = Pushed(<<count.tries, t>>, tree[t])
        /\ tree' = [tree EXCEPT ![t] = {}]
        /\ count' = Counted("pushes") /\ UNCHANGED head
  /\ UNCHANGED <<record, ok, at, turn, before, rest>>

Note(t, p, next) ==
  /\ Goes(p, next)
  /\ journal' = [journal EXCEPT !.oid[t] = Head(stash).id]
  /\ UNCHANGED <<status, fork, comments, git, ok, at, turn, before, count, rest>>

Capture ==
  LET then == IF dir = "out" THEN "push destination" ELSE "release"
  IN  \/ Push("source", "push source", "note source", then)
      \/ Note("source", "note source", then)
      \/ Push("destination", "push destination", "note destination", "release")
      \/ Note("destination", "note destination", "release")

\* The source lets go of the branch, and the destination takes it.
\* Mutant: a repository without a default branch is not refused.
MutFallback == IF dir = "out" THEN "none" ELSE "tip"
Fallback == IF dir = "out" THEN "main" ELSE "tip"

Release ==
  /\ Goes("release", "take")
  /\ Free(Fallback, "source")
  /\ head' = [head EXCEPT !["source"] = Fallback]
  /\ UNCHANGED <<record, tree, stash, ok, at, turn, before, count, rest>>

Take ==
  /\ Goes("take", "apply source")
  /\ Free("feature", "destination")
  /\ head' = [head EXCEPT !["destination"] = "feature"]
  /\ UNCHANGED <<record, tree, stash, ok, at, turn, before, count, rest>>

Applied(t) == [tree EXCEPT !["destination"] = @ \cup Has(journal.oid[t])]

ApplySource ==
  /\ Goes("apply source", "apply destination")
  /\ tree' = IF journal.oid["source"] = 0 THEN tree ELSE Applied("source")
  /\ UNCHANGED <<record, head, stash, ok, at, turn, before, count, rest>>

\* The edits the destination had may not fit any more: then they stay stashed.
ApplyDestination ==
  /\ Goes("apply destination", "fork")
  /\ \/ UNCHANGED <<tree, journal>>
     \/ /\ journal.oid["destination"] # 0
        /\ tree' = Applied("destination")
        /\ journal' = [journal EXCEPT !.applied = TRUE]
  /\ UNCHANGED <<status, fork, comments, head, stash, ok, at, turn, before, count, rest>>

Fork ==
  /\ Goes("fork", "comments") /\ turn = "none"
  /\ fork' = "hidden"
  /\ UNCHANGED <<status, journal, comments, git, ok, at, turn, before, count, rest>>

MoveComments ==
  /\ Goes("comments", "bind")
  /\ comments' = IF comments = "source" THEN "target" ELSE comments
  /\ UNCHANGED <<status, journal, fork, git, ok, at, turn, before, count, rest>>

Bind ==
  /\ Goes("bind", "off")
  /\ status' = "await"
  /\ UNCHANGED <<journal, fork, comments, git, ok, at, turn, before, count, rest>>

\* A command fails, because it cannot work now or for any other reason; the copy
\* of the thread is removed at once, and git is rolled back.
ForkGone ==
  /\ fork' = "none"
  /\ comments' = IF comments = "target" THEN "source" ELSE comments

Throws ==
  /\ pc \in Moves \ {"apply destination"}
  /\ \/ /\ \/ pc = "release" /\ ~Free(Fallback, "source")
           \/ pc = "take" /\ ~Free("feature", "destination")
           \/ pc = "fork" /\ turn # "none"
        /\ UNCHANGED count
     \/ Trouble
  /\ pc' = "undo" /\ ok' = TRUE
  /\ ForkGone
  /\ UNCHANGED <<status, journal, git, at, turn, before, rest>>

(******************************* The rollback *****************************)

\* A command of the rollback that fails does not stop it.
Fails == Trouble /\ ok' = FALSE
Works == UNCHANGED <<count, ok>>

\* What the transfer left in the destination is put aside.
Moved == head["destination"] # journal.dest

PutAside ==
  /\ Goes("undo", "undo destination")
  /\ IF Moved /\ tree["destination"] # {}
     THEN \/ /\ stash' = Pushed(<<count.tries, "rollback">>, tree["destination"])
             /\ tree' = [tree EXCEPT !["destination"] = {}]
             /\ count' = Counted("pushes") /\ UNCHANGED ok
          \/ Fails /\ UNCHANGED <<tree, stash>>
     ELSE Works /\ UNCHANGED <<tree, stash>>
  /\ UNCHANGED <<record, head, at, turn, before, rest>>

Checkout(t, ref, p, q) ==
  /\ Goes(p, q)
  /\ \/ Free(ref, t) /\ head' = [head EXCEPT ![t] = ref] /\ Works
     \/ ~Free(ref, t) /\ ok' = FALSE /\ UNCHANGED <<head, count>>
     \/ Fails /\ UNCHANGED head
  /\ UNCHANGED <<record, tree, stash, at, turn, before, rest>>

\* Edits come back from the stash, unless the tree has edits: then an earlier
\* rollback has brought them back.
Reapply(t, p, q) ==
  /\ Goes(p, q)
  /\ IF StashOf(t) # 0 /\ tree[t] = {}
     THEN \/ tree' = [tree EXCEPT ![t] = Has(StashOf(t))] /\ Works
          \/ Fails /\ UNCHANGED tree
     ELSE Works /\ UNCHANGED tree
  /\ UNCHANGED <<record, head, stash, at, turn, before, rest>>

RollBack ==
  \/ PutAside
  \/ Checkout("destination", journal.dest, "undo destination", "undo source")
  \/ Checkout("source", "feature", "undo source", "reapply source")
  \/ Reapply("source", "reapply source", "reapply destination")
  \/ Reapply("destination", "reapply destination", "undone")

RolledBack ==
  /\ Goes("undone", "off")
  /\ status' = IF ok THEN "failed" ELSE "rollback-failed"
  /\ ForkGone
  /\ UNCHANGED <<journal, git, ok, at, turn, before, count, rest>>

(*************************** Crash and recovery ***************************)

Crash ==
  /\ Trouble
  /\ pc # "off" \/ turn # "none"
  /\ pc' = "off" /\ ok' = TRUE /\ at' = 0
  /\ turn' = "none" /\ admitted' = FALSE
  /\ UNCHANGED <<record, git, before, dir, edits>>

\* Before it serves requests the next agent rolls back what was under way.
\* Mutant: only what has a journal.
MutRecoverable == status = "running" /\ journal.prepared
Recoverable == status = "running"

Recover ==
  /\ pc = "off" /\ Recoverable
  /\ ok' = TRUE /\ pc' = IF journal.prepared THEN "undo" ELSE "undone"
  /\ UNCHANGED <<record, git, at, turn, before, count, rest>>

\* Without its trees it does nothing: the copy of the thread stays, hidden and
\* with the comments.
RecoverNothing ==
  /\ pc = "off" /\ Recoverable /\ Trouble
  /\ status' = "rollback-failed"
  /\ UNCHANGED <<journal, fork, comments, git, pc, ok, at, turn, before, rest>>

(******************************* Completion *******************************)

\* The client has copied its state: source and target change places.
Acknowledge ==
  /\ pc = "off" /\ status = "await"
  /\ status' = "completed" /\ fork' = "visible"
  /\ pc' = "list source"
  /\ UNCHANGED <<journal, comments, git, ok, at, turn, before, count, rest>>

\* A crash while the stashes are dropped: the next agent drops the rest.
Refinalize ==
  /\ pc = "off" /\ status = "completed" /\ journal # NoJournal
  /\ pc' = "list source"
  /\ UNCHANGED <<record, git, ok, at, turn, before, count, rest>>

\* A stash is dropped only when its edits are in the destination.
\* Mutant: whether they are or not.
MutDroppable(t) == journal.oid[t] # 0
Droppable(t) == journal.oid[t] # 0 /\ (t = "destination" => journal.applied)

\* git drops a stash by its position, which is looked up first.
List(t, p, q, next) ==
  LET I == {i \in DOMAIN stash : Droppable(t) /\ stash[i].id = journal.oid[t]}
  IN  /\ pc = p
      /\ IF I = {} THEN pc' = next /\ UNCHANGED at
                   ELSE pc' = q /\ at' \in I
      /\ UNCHANGED <<record, git, ok, turn, before, count, rest>>

Drop(p, q) ==
  /\ Goes(p, q) /\ at' = 0
  /\ \/ /\ stash' = RemoveAt(stash, at) /\ UNCHANGED count
     \/ Trouble /\ UNCHANGED stash
  /\ UNCHANGED <<record, head, tree, ok, turn, before, rest>>

Clear ==
  /\ Goes("clear", "off")
  /\ journal' = NoJournal
  /\ UNCHANGED <<status, fork, comments, git, ok, at, turn, before, count, rest>>

Finalize ==
  \/ List("source", "list source", "drop source", "list destination")
  \/ Drop("drop source", "list destination")
  \/ List("destination", "list destination", "drop destination", "clear")
  \/ Drop("drop destination", "clear")
  \/ Clear

(************************** Turns, users and others ***********************)

\* A handoff closes the admission of turns. Mutant: only while git works.
MutOpen == status # "running"
Open == ~Locked /\ status # "completed"

Admit ==
  /\ turn = "none" /\ ~admitted /\ Open
  /\ admitted' = TRUE
  /\ UNCHANGED <<record, git, pc, ok, at, turn, before, count, dir, edits>>

CreateTurn ==
  /\ admitted /\ turn = "none"
  /\ admitted' = FALSE /\ turn' = "running"
  /\ UNCHANGED <<record, git, pc, ok, at, before, count, dir, edits>>

Edit(t, e) ==
  /\ tree' = [tree EXCEPT ![t] = @ \cup {e}] /\ edits' = edits \cup {e}
  /\ UNCHANGED <<record, head, stash, pc, ok, at, turn, before, count, dir, admitted>>

TurnEdits == turn = "running" /\ "work" \notin edits /\ Edit("source", "work")

TurnEnds ==
  /\ turn = "running" /\ turn' = "none"
  /\ UNCHANGED <<record, git, pc, ok, at, before, count, rest>>

UserEdits ==
  /\ Meddles \/ status # "running"
  /\ "late" \notin edits
  /\ \E t \in Trees : Edit(t, "late")

\* Somebody works in another tree of the repository.
OtherPushes ==
  /\ count.others < MaxOthers
  /\ Races \/ pc \notin {"note source", "note destination", "drop source", "drop destination"}
  /\ stash' = Pushed(<<0, "other">>, {"theirs"})
  /\ edits' = edits \cup {"theirs"}
  /\ count' = [count EXCEPT !.others = @ + 1, !.pushes = @ + 1]
  /\ UNCHANGED <<record, head, tree, pc, ok, at, turn, before, dir, admitted>>

Operation ==
  \/ Preflight \/ StopSource \/ Prepare \/ Inspect \/ Refuse
  \/ Capture \/ Release \/ Take \/ ApplySource \/ ApplyDestination
  \/ Fork \/ MoveComments \/ Bind \/ Throws
  \/ RollBack \/ RolledBack \/ Finalize

Restart == Recover \/ RecoverNothing \/ Refinalize

Next ==
  \/ Start \/ Operation \/ Restart \/ Acknowledge \/ Crash
  \/ Admit \/ CreateTurn \/ TurnEdits \/ TurnEnds \/ UserEdits \/ OtherPushes

Spec == Init /\ [][Next]_vars

\* Commands return, and an agent that has died is started again. Users, clients
\* and turns are free.
FairSpec == Spec /\ WF_vars(Operation) /\ WF_vars(Restart)

(******************************** Properties ******************************)

Stashes == [id : 1..count.pushes, mark : Nat \X (Trees \cup {"rollback", "other"}),
            has : SUBSET edits]

RecordOK ==
  /\ status \in {"none", "running", "await", "completed", "failed", "rollback-failed"}
  /\ journal \in [prepared : BOOLEAN, dest : Refs \cup {"none"},
                  oid : [Trees -> 0..count.pushes], applied : BOOLEAN]
  /\ fork \in {"none", "hidden", "visible"} /\ comments \in {"source", "target", "stray"}

GitOK ==
  /\ head \in [Trees -> Refs] /\ tree \in [Trees -> SUBSET edits] /\ edits \subseteq Edits
  /\ stash \in Seq(Stashes) /\ at \in 0..Len(stash) /\ count \in [Counters -> Nat]
  /\ before \in [head : [Trees -> Refs], tree : [Trees -> SUBSET edits],
                 comments : {"source", "target", "stray"}]

MemoryOK ==
  /\ pc \in {"off", "undone"} \cup Checks \cup Moves \cup Undoes \cup Drops
  /\ ok \in BOOLEAN /\ turn \in {"none", "running"} /\ admitted \in BOOLEAN
  /\ dir \in {"out", "back"}

TypeOK == RecordOK /\ GitOK /\ MemoryOK

\* Everything is at the destination: the branch, the edits, the conversation and
\* its comments; edits the destination had are there or stashed.
HandedOver ==
  /\ head["destination"] = "feature"
  /\ tree["source"] = {} /\ before.tree["source"] \subseteq tree["destination"]
  /\ \/ before.tree["destination"] \subseteq tree["destination"]
     \/ \E i \in DOMAIN stash : stash[i].has = before.tree["destination"]
  /\ fork = "hidden" /\ comments # "source"

\* Everything is as it was.
Restored ==
  /\ head = before.head /\ tree = before.tree
  /\ fork = "none" /\ comments = before.comments

\* A handoff is all or nothing: however commands fail and the agent dies, also
\* while it recovers, it hands over everything, restores everything, or says
\* that its rollback has failed.
AllOrNothing ==
  [][status = "running" => /\ status' = "await" => HandedOver'
                           /\ status' = "failed" /\ journal.prepared => Restored']_vars

\* No edit is lost: it is in a tree or in a stash, whatever fails, and a stash of
\* somebody else stays.
NothingLost ==
  \A e \in edits : \/ \E t \in Trees : e \in tree[t]
                   \/ \E i \in DOMAIN stash : e \in stash[i].has

\* While git moves the edits, and until the client has taken over, no turn of the
\* source works on them.
StillWhileMoved == (status = "running" /\ journal.prepared) \/ status = "await" => turn = "none"

\* An operation comes to its end, so that the thread is not locked for good.
OperationEnds == status = "running" ~> status # "running"
=============================================================================
