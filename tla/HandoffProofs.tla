----------------------------- MODULE HandoffProofs -----------------------------
(* That a handoff loses no edit and that no turn works on moving edits, for any *)
(* number of operations, failures, crashes and stashes of others, and that it  *)
(* is all or nothing for any number of operations and stashes of others.       *)
EXTENDS Handoff, NatLemmas, SequenceTheorems, TLAPS

-----------------------------------------------------------------------------
(* Types.                                                                    *)

\* The journal knows where the destination was.
JournalInv ==
  /\ pc \in Moves \cup Undoes => journal.prepared
  /\ journal.prepared => journal.dest \in Refs

\* A stash was pushed just now, or its position has been looked up.
NoteInv ==
  /\ pc \in {"note source", "note destination"} => stash # <<>>
  /\ pc \in {"drop source", "drop destination"} => at # 0

TypeInv == TypeOK /\ NoteInv

Marks == Nat \X (Trees \cup {"rollback", "other"})

LEMMA WiderRange == ASSUME NEW m \in Nat, NEW n \in 1..m PROVE n \in 0..m /\ n # 0
OBVIOUS

LEMMA ZeroInRange == ASSUME NEW m \in Nat PROVE 0 \in 0..m
OBVIOUS

LEMMA PushedType ==
  ASSUME TypeOK, NEW D, edits \subseteq D, NEW mark \in Marks, NEW E \in SUBSET D
  PROVE  /\ Pushed(mark, E) \in Seq([id : 1..(count.pushes + 1), mark : Marks, has : SUBSET D])
         /\ Len(Pushed(mark, E)) = Len(stash) + 1
         /\ Pushed(mark, E) # <<>>
<1> DEFINE S == [id : 1..(count.pushes + 1), mark : Marks, has : SUBSET D]
           new == [id |-> count.pushes + 1, mark |-> mark, has |-> E]
<1>1. count.pushes \in Nat
  BY DEF TypeOK, GitOK, Counters
<1>2. Stashes \subseteq S
  BY <1>1 DEF Stashes, Marks
<1>3. stash \in Seq(S)
  BY <1>2, SeqMonotonic DEF TypeOK, GitOK
<1>4. new \in S
  BY <1>1
<1>5. <<new>> \in Seq(S) /\ Len(<<new>>) = 1
  BY <1>4
<1> HIDE DEF S, new
<1>6. <<new>> \o stash \in Seq(S) /\ Len(<<new>> \o stash) = 1 + Len(stash)
  BY <1>3, <1>5, ConcatProperties
<1>7. Pushed(mark, E) = <<new>> \o stash
  BY DEF Pushed, new
<1>8. Len(stash) \in Nat
  BY <1>3, LenProperties
<1> QED  BY <1>6, <1>7, <1>8, EmptySeq DEF S

LEMMA InitTypes == Init => TypeInv
<1> SUFFICES ASSUME Init PROVE TypeInv
  OBVIOUS
<1>1. stash \in Seq(Stashes) /\ Len(stash) = 0
  BY EmptySeq DEF Init
<1>2. count \in [Counters -> Nat] /\ count.pushes = 0
  BY DEF Init, Counters
<1>3. journal \in [prepared : BOOLEAN, dest : Refs \cup {"none"},
                   oid : [Trees -> 0..count.pushes], applied : BOOLEAN]
  BY <1>2 DEF Init, NoJournal
<1>4. head \in [Trees -> Refs] /\ tree \in [Trees -> SUBSET edits] /\ edits \subseteq Edits
  BY DEF Init, Refs, Branches, Edits
<1>5. before \in [head : [Trees -> Refs], tree : [Trees -> SUBSET edits],
                  comments : {"source", "target", "stray"}]
  BY <1>4 DEF Init
<1>6. at \in 0..Len(stash)
  BY <1>1 DEF Init
<1>7. pc = "off" /\ dir \in {"out", "back"} /\ status = "none" /\ fork = "none"
      /\ comments = "source" /\ ok = TRUE /\ turn = "none" /\ admitted = FALSE
  BY DEF Init
<1> QED  BY <1>1, <1>2, <1>3, <1>4, <1>5, <1>6, <1>7 DEF TypeInv, TypeOK, RecordOK, GitOK, MemoryOK, NoteInv

LEMMA CountedType ==
  ASSUME TypeOK
  PROVE  /\ Counted("tries") \in [Counters -> Nat] /\ Counted("tries").pushes = count.pushes
         /\ Counted("troubles") \in [Counters -> Nat] /\ Counted("troubles").pushes = count.pushes
         /\ Counted("pushes") \in [Counters -> Nat] /\ Counted("pushes").pushes = count.pushes + 1
BY DEF TypeOK, GitOK, Counters, Counted

\* Steps that change neither trees nor stashes.
LEMMA GitStays ==
  ASSUME GitOK, UNCHANGED <<stash, tree, edits>>, at' \in {0, at},
         count' \in [Counters -> Nat], count'.pushes = count.pushes,
         head' \in [Trees -> Refs],
         before' = before \/ before' = [head |-> head, tree |-> tree, comments |-> comments],
         comments \in {"source", "target", "stray"}
  PROVE  GitOK'
<1>1. Stashes' = Stashes
  BY DEF Stashes
<1>2. Len(stash) \in Nat
  BY LenProperties DEF GitOK
<1> QED  BY <1>1, <1>2 DEF GitOK

JournalType == [prepared : BOOLEAN, dest : Refs \cup {"none"},
                oid : [Trees -> 0..count.pushes], applied : BOOLEAN]

\* The steps that neither edit nor push, apply or drop a stash.
Quiet ==
  \/ Start \/ Preflight \/ StopSource \/ Prepare \/ Inspect \/ Refuse \/ Release \/ Take
  \/ Fork \/ MoveComments \/ Bind \/ Throws \/ RolledBack \/ Recover \/ RecoverNothing
  \/ Acknowledge \/ Refinalize \/ Clear \/ Crash \/ Admit \/ CreateTurn \/ TurnEnds

LEMMA QuietTypes == ASSUME TypeInv, Quiet PROVE TypeInv'
<1>1. count' \in [Counters -> Nat] /\ count'.pushes = count.pushes
  BY CountedType DEF Quiet, Start, Preflight, StopSource, Prepare, Inspect, Refuse, Release, Take, Fork,
         MoveComments, Bind, Throws, RolledBack, Recover, RecoverNothing, Acknowledge, Refinalize,
         Clear, Crash, Admit, CreateTurn, TurnEnds,
         Trouble, TypeInv, TypeOK, GitOK
<1>2. UNCHANGED <<stash, tree, edits>> /\ at' \in {0, at}
  BY DEF Quiet, Start, Preflight, StopSource, Prepare, Inspect, Refuse, Release, Take, Fork,
         MoveComments, Bind, Throws, RolledBack, Recover, RecoverNothing, Acknowledge, Refinalize,
         Clear, Crash, Admit, CreateTurn, TurnEnds,
         git, rest
<1>3. head' \in [Trees -> Refs]
  BY DEF Quiet, Start, Preflight, StopSource, Prepare, Inspect, Refuse, Release, Take, Fork,
         MoveComments, Bind, Throws, RolledBack, Recover, RecoverNothing, Acknowledge, Refinalize,
         Clear, Crash, Admit, CreateTurn, TurnEnds,
         git, TypeInv, TypeOK, GitOK, Trees, Refs, Branches, Fallback
<1>4. before' = before \/ before' = [head |-> head, tree |-> tree, comments |-> comments]
  BY DEF Quiet, Start, Preflight, StopSource, Prepare, Inspect, Refuse, Release, Take, Fork,
         MoveComments, Bind, Throws, RolledBack, Recover, RecoverNothing, Acknowledge, Refinalize,
         Clear, Crash, Admit, CreateTurn, TurnEnds,
         TypeInv
<1>6. MemoryOK'
  BY DEF Quiet, Start, Preflight, StopSource, Prepare, Inspect, Refuse, Release, Take, Fork,
         MoveComments, Bind, Throws, RolledBack, Recover, RecoverNothing, Acknowledge, Refinalize,
         Clear, Crash, Admit, CreateTurn, TurnEnds,
         rest, Goes, TypeInv, TypeOK, MemoryOK, Checks, Moves, Undoes, Drops
<1>7. NoteInv'
  BY DEF Quiet, Start, Preflight, StopSource, Prepare, Inspect, Refuse, Release, Take, Fork,
         MoveComments, Bind, Throws, RolledBack, Recover, RecoverNothing, Acknowledge, Refinalize,
         Clear, Crash, Admit, CreateTurn, TurnEnds,
         git, rest, Goes, TypeInv, TypeOK, MemoryOK, Checks, Moves, Undoes, Drops, NoteInv
<1>5. NoJournal \in JournalType /\ [NoJournal EXCEPT !.prepared = TRUE, !.dest = head["destination"]] \in JournalType
  <2>1. count.pushes \in Nat /\ head["destination"] \in Refs
    BY DEF TypeInv, TypeOK, GitOK, Counters, Trees
  <2>2. NoJournal \in JournalType
    BY <2>1 DEF JournalType, NoJournal
  <2> QED  BY <2>1, <2>2 DEF JournalType
<1>9. RecordOK'
  BY <1>1, <1>5 DEF Quiet, Start, Preflight, StopSource, Prepare, Inspect, Refuse, Release, Take, Fork,
         MoveComments, Bind, Throws, RolledBack, Recover, RecoverNothing, Acknowledge, Refinalize,
         Clear, Crash, Admit, CreateTurn, TurnEnds,
         record, ForkGone, TypeInv, TypeOK, RecordOK, JournalType
<1>8. GitOK'
  BY <1>1, <1>2, <1>3, <1>4, GitStays DEF TypeInv, TypeOK, RecordOK
<1> QED  BY <1>6, <1>7, <1>8, <1>9 DEF TypeInv, TypeOK

\* A stash that is pushed.
LEMMA PushTypes ==
  ASSUME TypeInv, NEW D, edits' = D, edits \subseteq D, D \subseteq Edits,
         NEW mark \in Marks, NEW E \in SUBSET D, stash' = Pushed(mark, E),
         count' \in [Counters -> Nat], count'.pushes = count.pushes + 1,
         tree' \in [Trees -> SUBSET D], UNCHANGED <<record, head, at, before>>
  PROVE  RecordOK' /\ GitOK' /\ stash' # <<>>
<1>1. count.pushes \in Nat
  BY DEF TypeInv, TypeOK, GitOK, Counters
<1>2. /\ stash' \in Seq(Stashes')
      /\ Len(stash') = Len(stash) + 1
      /\ stash' # <<>>
  BY PushedType DEF TypeInv, Stashes, Marks
<1>3. at' \in 0..Len(stash')
  BY <1>2, LenProperties DEF TypeInv, TypeOK, GitOK
<1>4. before' \in [head : [Trees -> Refs], tree : [Trees -> SUBSET edits'],
                   comments : {"source", "target", "stray"}]
  BY DEF TypeInv, TypeOK, GitOK
<1>5. GitOK'
  BY <1>2, <1>3, <1>4 DEF TypeInv, TypeOK, GitOK
<1>6. RecordOK'
  BY <1>1 DEF record, TypeInv, TypeOK, RecordOK
<1> QED  BY <1>2, <1>5, <1>6

LEMMA StashType ==
  ASSUME TypeOK, NEW i \in DOMAIN stash
  PROVE  stash[i] \in Stashes /\ i \in 1..Len(stash)
<1>1. stash \in Seq(Stashes)
  BY DEF TypeOK, GitOK
<1>2. i \in 1..Len(stash)
  BY <1>1, LenProperties
<1> QED  BY <1>1, <1>2, ElementOfSeq

LEMMA HasType == ASSUME TypeOK, NEW n PROVE Has(n) \subseteq edits
<1>1. \A i \in DOMAIN stash : stash[i].has \subseteq edits
  BY StashType DEF Stashes
<1> QED  BY <1>1 DEF Has

LEMMA DropType ==
  ASSUME TypeInv, at # 0
  PROVE  RemoveAt(stash, at) \in Seq(Stashes)
BY LenProperties, SubSeqProperties, ConcatProperties DEF TypeInv, TypeOK, GitOK, RemoveAt

\* Steps that change one tree or both, and neither stashes nor what may be edited.
LEMMA TreeTypes ==
  ASSUME TypeInv, UNCHANGED <<stash, edits, head, at, before, status, fork, comments>>,
         tree' \in [Trees -> SUBSET edits],
         count' \in [Counters -> Nat], count'.pushes = count.pushes,
         journal' \in JournalType
  PROVE  RecordOK' /\ GitOK'
<1>1. Stashes' = Stashes
  BY DEF Stashes
<1> QED  BY <1>1 DEF TypeInv, TypeOK, RecordOK, GitOK, JournalType

LEMMA AppliedType == ASSUME TypeOK, NEW t PROVE Applied(t) \in [Trees -> SUBSET edits]
<1>1. Has(journal.oid[t]) \in SUBSET edits
  BY HasType
<1>2. tree \in [Trees -> SUBSET edits] /\ "destination" \in Trees
  BY DEF TypeOK, GitOK, Trees
<1> DEFINE H == Has(journal.oid[t])
<1> HIDE DEF H
<1>3. [tree EXCEPT !["destination"] = @ \cup H] \in [Trees -> SUBSET edits]
  BY <1>1, <1>2 DEF H
<1> QED  BY <1>3 DEF Applied, H

LEMMA ApplyTypes == ASSUME TypeInv, ApplySource \/ ApplyDestination PROVE TypeInv'
<1>1. tree' \in [Trees -> SUBSET edits]
  <2>1. Applied("source") \in [Trees -> SUBSET edits] /\ Applied("destination") \in [Trees -> SUBSET edits]
    BY AppliedType DEF TypeInv
  <2> QED  BY <2>1 DEF TypeInv, TypeOK, GitOK, ApplySource, ApplyDestination
<1>2. journal' \in JournalType
  BY DEF TypeInv, TypeOK, RecordOK, JournalType, ApplySource, ApplyDestination, record
<1>3. RecordOK' /\ GitOK'
  BY <1>1, <1>2, TreeTypes DEF TypeInv, TypeOK, GitOK, ApplySource, ApplyDestination, record, rest
<1>4. MemoryOK' /\ NoteInv'
  BY DEF TypeInv, TypeOK, MemoryOK, ApplySource, ApplyDestination, rest, Goes, Moves, NoteInv
<1> QED  BY <1>3, <1>4 DEF TypeInv, TypeOK

LEMMA CaptureTypes == ASSUME TypeInv, Capture PROVE TypeInv'
<1>1. ASSUME NEW t \in Trees, NEW p, NEW q \in Moves, NEW next \in Moves \ {"note source", "note destination"},
             Push(t, p, q, next)
      PROVE  TypeInv'
  <2>1. CASE tree[t] = {}
    <3>1. MemoryOK' /\ NoteInv'
      BY <1>1, <2>1 DEF Push, TypeInv, TypeOK, MemoryOK, NoteInv, rest, Moves
    <3>2. tree' \in [Trees -> SUBSET edits] /\ UNCHANGED count /\ journal' \in JournalType
      BY <1>1, <2>1 DEF Push, TypeInv, TypeOK, GitOK, RecordOK, JournalType, git, record
    <3>3. RecordOK' /\ GitOK'
      BY <1>1, <2>1, <3>2, TreeTypes DEF Push, TypeInv, TypeOK, GitOK, git, record, rest
    <3> QED  BY <3>1, <3>3 DEF TypeInv, TypeOK
  <2>2. CASE tree[t] # {}
    <3>1. <<count.tries, t>> \in Marks /\ tree[t] \in SUBSET edits /\ edits \subseteq Edits
      BY DEF TypeInv, TypeOK, GitOK, Marks, Counters
    <3>2. tree' \in [Trees -> SUBSET edits]
      BY <1>1, <2>2 DEF Push, TypeInv, TypeOK, GitOK
    <3>3. /\ stash' = Pushed(<<count.tries, t>>, tree[t])
          /\ count' = Counted("pushes") /\ pc' = q
          /\ UNCHANGED <<record, head, at, before, edits, ok, turn, admitted, dir>>
      BY <1>1, <2>2 DEF Push, rest
    <3>4. count' \in [Counters -> Nat] /\ count'.pushes = count.pushes + 1
      BY <3>3, CountedType DEF TypeInv
    <3>5. RecordOK' /\ GitOK' /\ stash' # <<>>
      BY <3>1, <3>2, <3>3, <3>4, PushTypes
    <3>6. MemoryOK' /\ NoteInv'
      BY <3>3, <3>5 DEF TypeInv, TypeOK, MemoryOK, NoteInv, Moves
    <3> QED  BY <3>5, <3>6 DEF TypeInv, TypeOK
  <2> QED  BY <2>1, <2>2
<1>2. ASSUME NEW t \in Trees, NEW p \in {"note source", "note destination"},
             NEW next \in Moves \ {"note source", "note destination"}, Note(t, p, next)
      PROVE  TypeInv'
  <2>1. stash # <<>>
    BY <1>2 DEF Note, Goes, TypeInv, NoteInv
  <2>2. Head(stash) \in Stashes
    BY <2>1, HeadTailProperties DEF TypeInv, TypeOK, GitOK
  <2>6. count.pushes \in Nat
    BY DEF TypeInv, TypeOK, GitOK, Counters
  <2>8. Head(stash).id \in 1..count.pushes
    BY <2>2 DEF Stashes
  <2>3. Head(stash).id \in 0..count.pushes
    BY <2>6, <2>8, WiderRange
  <2>4. journal' \in JournalType
    BY <1>2, <2>3 DEF Note, TypeInv, TypeOK, RecordOK, JournalType
  <2>5. tree' \in [Trees -> SUBSET edits] /\ UNCHANGED <<count, stash, edits, head, at, before, status, fork, comments>>
    BY <1>2 DEF Note, git, rest, TypeInv, TypeOK, GitOK
  <2>9. RecordOK' /\ GitOK'
    BY <2>4, <2>5, TreeTypes DEF TypeInv, TypeOK, GitOK
  <2>7. MemoryOK' /\ NoteInv'
    BY <1>2 DEF Note, Goes, rest, TypeInv, TypeOK, RecordOK, MemoryOK, NoteInv, Moves, Undoes
  <2> QED  BY <2>7, <2>9 DEF TypeInv, TypeOK
<1>3. /\ {"source", "destination"} \subseteq Trees
      /\ {"push source", "note source", "push destination", "note destination", "release"} \subseteq Moves
  BY DEF Trees, Moves
<1> QED  BY <1>1, <1>2, <1>3 DEF Capture

LEMMA PutAsideTypes == ASSUME TypeInv, PutAside PROVE TypeInv'
<1>1. MemoryOK' /\ NoteInv'
  BY DEF PutAside, Goes, Works, Fails, Trouble, rest, TypeInv, TypeOK, MemoryOK, NoteInv, Undoes
<1>2. UNCHANGED <<record, head, at, before, edits>>
  BY DEF PutAside, rest
<1>3. CASE stash' = Pushed(<<count.tries, "rollback">>, tree["destination"])
           /\ tree' = [tree EXCEPT !["destination"] = {}] /\ count' = Counted("pushes")
  <2>1. /\ <<count.tries, "rollback">> \in Marks /\ tree["destination"] \in SUBSET edits
        /\ edits \subseteq Edits /\ tree' \in [Trees -> SUBSET edits]
    BY <1>3 DEF TypeInv, TypeOK, GitOK, Marks, Counters, Trees
  <2>2. count' \in [Counters -> Nat] /\ count'.pushes = count.pushes + 1
    BY <1>3, CountedType DEF TypeInv
  <2>3. RecordOK' /\ GitOK'
    BY <1>2, <1>3, <2>1, <2>2, PushTypes
  <2> QED  BY <1>1, <2>3 DEF TypeInv, TypeOK
<1>4. CASE UNCHANGED <<tree, stash>> /\ (count' = count \/ count' = Counted("troubles"))
  <2>1. count' \in [Counters -> Nat] /\ count'.pushes = count.pushes
    BY <1>4, CountedType DEF TypeInv, TypeOK, GitOK
  <2>2. tree' \in [Trees -> SUBSET edits] /\ journal' \in JournalType
    BY <1>2, <1>4 DEF record, TypeInv, TypeOK, GitOK, RecordOK, JournalType
  <2>3. RecordOK' /\ GitOK'
    BY <1>2, <1>4, <2>1, <2>2, TreeTypes DEF record
  <2> QED  BY <1>1, <2>3 DEF TypeInv, TypeOK
<1> QED  BY <1>3, <1>4 DEF PutAside, Works, Fails, Trouble

LEMMA CheckoutTypes ==
  ASSUME TypeInv, NEW t \in Trees, NEW ref \in Refs, NEW p, NEW q \in Undoes, Checkout(t, ref, p, q)
  PROVE  TypeInv'
<1>1. MemoryOK' /\ NoteInv'
  BY DEF Checkout, Goes, Works, Fails, Trouble, rest, TypeInv, TypeOK, MemoryOK, NoteInv, Undoes
<1>2. count' \in [Counters -> Nat] /\ count'.pushes = count.pushes
  BY CountedType DEF Checkout, Works, Fails, Trouble, TypeInv, TypeOK, GitOK
<1>3. head' \in [Trees -> Refs]
  BY DEF Checkout, TypeInv, TypeOK, GitOK
<1>4. GitOK'
  BY <1>2, <1>3, GitStays DEF Checkout, rest, TypeInv, TypeOK, RecordOK
<1>5. RecordOK'
  BY <1>2 DEF Checkout, record, TypeInv, TypeOK, RecordOK
<1> QED  BY <1>1, <1>4, <1>5 DEF TypeInv, TypeOK

LEMMA ReapplyTypes ==
  ASSUME TypeInv, NEW t \in Trees, NEW p, NEW q \in Undoes \cup {"undone"}, Reapply(t, p, q)
  PROVE  TypeInv'
<1>1. MemoryOK' /\ NoteInv'
  BY DEF Reapply, Goes, Works, Fails, Trouble, rest, TypeInv, TypeOK, MemoryOK, NoteInv, Undoes
<1>2. count' \in [Counters -> Nat] /\ count'.pushes = count.pushes
  BY CountedType DEF Reapply, Works, Fails, Trouble, TypeInv, TypeOK, GitOK
<1>3. tree' \in [Trees -> SUBSET edits]
  BY HasType DEF Reapply, Works, Fails, TypeInv, TypeOK, GitOK
<1>4. journal' \in JournalType
  BY DEF Reapply, record, TypeInv, TypeOK, RecordOK, JournalType
<1>5. RecordOK' /\ GitOK'
  BY <1>2, <1>3, <1>4, TreeTypes DEF Reapply, record, rest
<1> QED  BY <1>1, <1>5 DEF TypeInv, TypeOK

LEMMA ListTypes ==
  ASSUME TypeInv, NEW t \in Trees, NEW p, NEW q \in Drops, NEW next \in Drops \ {"drop source", "drop destination"},
         List(t, p, q, next)
  PROVE  TypeInv'
<1> DEFINE I == {i \in DOMAIN stash : Droppable(t) /\ stash[i].id = journal.oid[t]}
<1> HIDE DEF I
<1>1. I \subseteq 1..Len(stash)
  BY StashType DEF I, TypeInv
<1>2. /\ \/ pc' = next /\ at' = at
         \/ pc' = q /\ at' \in I
      /\ UNCHANGED <<record, git, ok, turn, before, count, rest>>
  BY DEF List, I
<1>3. Len(stash) \in Nat
  BY LenProperties DEF TypeInv, TypeOK, GitOK
<1>4. at' \in 0..Len(stash') /\ (pc' = q => at' # 0 \/ q = next)
  <2>1. \A i \in I : i \in 0..Len(stash) /\ i # 0
    <3>1. \A i \in 1..Len(stash) : i \in 0..Len(stash) /\ i # 0
      BY <1>3, WiderRange
    <3> QED  BY <1>1, <3>1
  <2>2. stash' = stash /\ at \in 0..Len(stash)
    BY <1>2 DEF git, TypeInv, TypeOK, GitOK
  <2> QED  BY <1>2, <2>1, <2>2
<1>5. Stashes' = Stashes
  BY <1>2 DEF Stashes, rest
<1>6. RecordOK' /\ GitOK'
  BY <1>2, <1>4, <1>5 DEF record, git, rest, TypeInv, TypeOK, RecordOK, GitOK
<1>7. MemoryOK' /\ NoteInv'
  BY <1>2, <1>4 DEF rest, TypeInv, TypeOK, MemoryOK, NoteInv, Drops
<1> QED  BY <1>6, <1>7 DEF TypeInv, TypeOK

LEMMA DropTypes ==
  ASSUME TypeInv, NEW p \in {"drop source", "drop destination"},
         NEW q \in Drops \ {"drop source", "drop destination"}, Drop(p, q)
  PROVE  TypeInv'
<1>1. at # 0
  BY DEF Drop, Goes, TypeInv, NoteInv
<1>2. count' \in [Counters -> Nat] /\ count'.pushes = count.pushes
  BY CountedType DEF Drop, Trouble, TypeInv, TypeOK, GitOK
<1>3. Stashes' = Stashes
  BY <1>2 DEF Drop, Stashes, rest
<1>4. stash' \in Seq(Stashes') /\ at' = 0
  BY <1>1, <1>3, DropType DEF Drop, TypeInv, TypeOK, GitOK
<1>5. at' \in 0..Len(stash')
  <2>1. Len(stash') \in Nat
    BY <1>4, LenProperties
  <2> QED  BY <1>4, <2>1, ZeroInRange
<1>6. RecordOK' /\ GitOK'
  BY <1>2, <1>4, <1>5 DEF Drop, record, rest, TypeInv, TypeOK, RecordOK, GitOK
<1>7. MemoryOK' /\ NoteInv'
  BY DEF Drop, Goes, rest, TypeInv, TypeOK, MemoryOK, NoteInv, Drops
<1> QED  BY <1>6, <1>7 DEF TypeInv, TypeOK

LEMMA EditTypes ==
  ASSUME TypeInv, NEW t \in Trees, NEW e \in Edits, Edit(t, e), UNCHANGED pc
  PROVE  TypeInv'
<1>1. edits \subseteq edits' /\ edits' \subseteq Edits /\ tree' \in [Trees -> SUBSET edits']
  BY DEF Edit, TypeInv, TypeOK, GitOK
<1>2. Stashes \subseteq Stashes'
  BY <1>1 DEF Stashes, Edit
<1>3. stash' \in Seq(Stashes')
  BY <1>2, SeqMonotonic DEF Edit, TypeInv, TypeOK, GitOK
<1>4. RecordOK' /\ GitOK'
  BY <1>1, <1>3 DEF Edit, record, TypeInv, TypeOK, RecordOK, GitOK
<1>5. MemoryOK' /\ NoteInv'
  BY DEF Edit, TypeInv, TypeOK, MemoryOK, NoteInv
<1> QED  BY <1>4, <1>5 DEF TypeInv, TypeOK

LEMMA OtherTypes == ASSUME TypeInv, OtherPushes PROVE TypeInv'
<1>1. /\ edits \subseteq edits' /\ edits' \subseteq Edits /\ {"theirs"} \in SUBSET edits'
      /\ tree' \in [Trees -> SUBSET edits'] /\ <<0, "other">> \in Marks
  BY DEF OtherPushes, TypeInv, TypeOK, GitOK, Edits, Marks
<1>2. count' \in [Counters -> Nat] /\ count'.pushes = count.pushes + 1
  <2>1. count \in [Counters -> Nat] /\ count' = [count EXCEPT !.others = @ + 1, !.pushes = @ + 1]
    BY DEF OtherPushes, TypeInv, TypeOK, GitOK
  <2>2. count.others + 1 \in Nat /\ count.pushes + 1 \in Nat
    BY <2>1 DEF Counters
  <2>3. {"others", "pushes"} \subseteq Counters
    BY DEF Counters
  <2> QED  BY <2>1, <2>2, <2>3
<1>3. RecordOK' /\ GitOK' /\ stash' # <<>>
  BY <1>1, <1>2, PushTypes DEF OtherPushes
<1>4. MemoryOK' /\ NoteInv'
  BY <1>3 DEF OtherPushes, TypeInv, TypeOK, MemoryOK, NoteInv
<1> QED  BY <1>3, <1>4 DEF TypeInv, TypeOK

\* The steps that are not quiet.
Loud ==
  \/ Capture \/ ApplySource \/ ApplyDestination \/ RollBack
  \/ Finalize \/ TurnEdits \/ UserEdits \/ OtherPushes

LEMMA NextIsQuietOrLoud == Next => Quiet \/ Loud
BY DEF Next, Operation, Restart, Finalize, Quiet, Loud

LEMMA LoudTypes == ASSUME TypeInv, JournalInv, Loud PROVE TypeInv'
<1>1. ASSUME RollBack PROVE TypeInv'
  <2>1. CASE PutAside
    BY <2>1, PutAsideTypes
  <2>2. CASE Checkout("destination", journal.dest, "undo destination", "undo source")
    <3>1. journal.dest \in Refs
      BY <2>2 DEF Checkout, Goes, JournalInv, Undoes
    <3> QED  BY <2>2, <3>1, CheckoutTypes DEF Trees, Undoes
  <2>3. CASE Checkout("source", "feature", "undo source", "reapply source")
    BY <2>3, CheckoutTypes DEF Trees, Undoes, Refs, Branches
  <2>4. CASE \/ Reapply("source", "reapply source", "reapply destination")
             \/ Reapply("destination", "reapply destination", "undone")
    BY <2>4, ReapplyTypes DEF Trees, Undoes
  <2> QED  BY <1>1, <2>1, <2>2, <2>3, <2>4 DEF RollBack
<1>2. ASSUME Finalize, ~Clear PROVE TypeInv'
  <2>1. {"source", "destination"} \subseteq Trees
    BY DEF Trees
  <2> QED  BY <1>2, <2>1, ListTypes, DropTypes DEF Finalize, Drops
<1>3. ASSUME TurnEdits \/ UserEdits PROVE TypeInv'
  BY <1>3, EditTypes DEF TurnEdits, UserEdits, Edit, Edits, Trees
<1>4. ASSUME Clear PROVE TypeInv'
  BY <1>4, QuietTypes DEF Quiet
<1> QED  BY <1>1, <1>2, <1>3, <1>4, CaptureTypes, ApplyTypes, OtherTypes DEF Loud

\* The journal is only replaced before the first and after the last command.
LEMMA JournalStep == ASSUME TypeInv, JournalInv, Next PROVE JournalInv'
<1>1. ASSUME Quiet PROVE JournalInv'
  <2>1. head["destination"] \in Refs
    BY DEF TypeInv, TypeOK, GitOK, Trees
  <2> DEFINE begun == [NoJournal EXCEPT !.prepared = TRUE, !.dest = head["destination"]]
  <2>2. /\ ~NoJournal.prepared
        /\ begun.prepared /\ begun.dest \in Refs
    BY <2>1 DEF NoJournal
  <2> HIDE DEF begun
  <2>3. \/ journal' = begun
        \/ journal' = NoJournal /\ pc' \notin Moves \cup Undoes
        \/ /\ journal' = journal
           /\ pc' \in Moves \cup Undoes => pc \in Moves \cup Undoes \/ journal.prepared
    BY <1>1 DEF begun, Quiet, Start, Preflight, StopSource, Prepare, Inspect, Refuse, Release, Take, Fork,
         MoveComments, Bind, Throws, RolledBack, Recover, RecoverNothing, Acknowledge, Refinalize,
         Clear, Crash, Admit, CreateTurn, TurnEnds, record, Goes, Checks, Moves, Undoes
  <2> QED  BY <2>2, <2>3 DEF JournalInv
<1>2. ASSUME Loud, ~Clear PROVE JournalInv'
  <2>1. journal \in JournalType
    BY DEF TypeInv, TypeOK, RecordOK, JournalType
  <2>2. journal'.prepared = journal.prepared /\ journal'.dest = journal.dest
    BY <1>2, <2>1 DEF Loud, Capture, Push, Note, ApplySource, ApplyDestination, RollBack, PutAside, Checkout,
         Reapply, Finalize, List, Drop, TurnEdits, UserEdits, Edit, OtherPushes, record, JournalType
  <2>3. pc' \in Moves \cup Undoes => pc \in Moves \cup Undoes
    BY <1>2 DEF Loud, Capture, Push, Note, ApplySource, ApplyDestination, RollBack, PutAside, Checkout,
         Reapply, Finalize, List, Drop, TurnEdits, UserEdits, Edit, OtherPushes, Goes, Moves, Undoes, rest
  <2>4. pc' \in Moves \cup Undoes => journal'.prepared
    BY <2>2, <2>3 DEF JournalInv
  <2>5. journal'.prepared => journal'.dest \in Refs
    BY <2>2 DEF JournalInv
  <2> QED  BY <2>4, <2>5, Zenon DEF JournalInv
<1> QED  BY <1>1, <1>2, NextIsQuietOrLoud DEF Quiet

-----------------------------------------------------------------------------
(* No turn works on edits that move.                                         *)

\* Where an operation stands tells its status.
StatusInv ==
  /\ pc \in Checks \cup Moves \cup Undoes \cup {"undone"} => status = "running"
  /\ pc \in Drops => status = "completed"

StillInv ==
  /\ StillWhileMoved
  /\ Locked => ~admitted
  /\ pc \in {"close", "inspect"} => turn = "none"

LEMMA StatusStep == ASSUME StatusInv, Next PROVE StatusInv'
<1>1. ASSUME Quiet PROVE StatusInv'
  BY <1>1 DEF Quiet, Start, Preflight, StopSource, Prepare, Inspect, Refuse, Release, Take, Fork,
         MoveComments, Bind, Throws, RolledBack, Recover, RecoverNothing, Acknowledge, Refinalize,
         Clear, Crash, Admit, CreateTurn, TurnEnds,
         record, Goes, Checks, Moves, Undoes, Drops, Recoverable, StatusInv
<1>2. ASSUME Loud, ~Clear PROVE StatusInv'
  <2>1. status' = status
    BY <1>2 DEF Loud, Capture, Push, Note, ApplySource, ApplyDestination, RollBack, PutAside, Checkout,
         Reapply, Finalize, List, Drop, TurnEdits, UserEdits, Edit, OtherPushes, record
  <2>2. \/ pc' = pc
        \/ pc \in Checks \cup Moves \cup Undoes /\ pc' \in Checks \cup Moves \cup Undoes \cup {"undone"}
        \/ pc \in Drops /\ pc' \in Drops
    BY <1>2 DEF Loud, Capture, Push, Note, ApplySource, ApplyDestination, RollBack, PutAside, Checkout,
         Reapply, Finalize, List, Drop, TurnEdits, UserEdits, Edit, OtherPushes,
         Goes, rest, Checks, Moves, Undoes, Drops
  <2>3. \A x : ~(x \in Checks \cup Moves \cup Undoes \cup {"undone"} /\ x \in Drops)
    BY DEF Checks, Moves, Undoes, Drops
  <2> QED  BY <2>1, <2>2, <2>3 DEF StatusInv
<1> QED  BY <1>1, <1>2, NextIsQuietOrLoud DEF Quiet

LEMMA StillStep ==
  ASSUME ~SlowAdmission, TypeInv, JournalInv, StatusInv, StillInv, Next
  PROVE  StillInv'
<1>1. ASSUME Quiet PROVE StillInv'
  <2>1. pc \in Checks \cup Moves => status = "running"
    BY DEF StatusInv
  <2>2. ~NoJournal.prepared
    BY DEF NoJournal
  <2>3. pc = "bind" => journal.prepared
    BY DEF JournalInv, Moves
  <2>4. Locked' => ~admitted'
    BY <1>1, <2>1 DEF Quiet, Start, Preflight, StopSource, Prepare, Inspect, Refuse, Release, Take, Fork,
           MoveComments, Bind, Throws, RolledBack, Recover, RecoverNothing, Acknowledge, Refinalize,
           Clear, Crash, Admit, CreateTurn, TurnEnds,
           record, Goes, rest, Locked, Open, Checks, Moves, StillInv
  <2>5. pc' \in {"close", "inspect"} => turn' = "none"
    BY <1>1, <2>1 DEF Quiet, Start, Preflight, StopSource, Prepare, Inspect, Refuse, Release, Take, Fork,
           MoveComments, Bind, Throws, RolledBack, Recover, RecoverNothing, Acknowledge, Refinalize,
           Clear, Crash, Admit, CreateTurn, TurnEnds,
           record, Goes, rest, Locked, Checks, StillInv
  <2>6. StillWhileMoved'
    <3>1. CASE Inspect \/ Bind \/ Acknowledge
      BY <2>1, <2>3, <3>1 DEF Inspect, Bind, Acknowledge, Goes, StillInv, StillWhileMoved, Moves
    <3>2. CASE Start \/ Clear
      BY <2>2, <3>2 DEF Start, Clear, Goes, StillInv, StillWhileMoved
    <3>3. CASE CreateTurn \/ StopSource \/ TurnEnds \/ Crash
      BY <3>3 DEF CreateTurn, StopSource, TurnEnds, Crash, record, StillInv, StillWhileMoved, Locked
    <3> QED  BY <1>1, <3>1, <3>2, <3>3 DEF Quiet, Start, Preflight, StopSource, Prepare, Inspect, Refuse, Release, Take, Fork,
           MoveComments, Bind, Throws, RolledBack, Recover, RecoverNothing, Acknowledge, Refinalize,
           Clear, Crash, Admit, CreateTurn, TurnEnds,
           record, StillInv, StillWhileMoved
  <2> QED  BY <2>4, <2>5, <2>6 DEF StillInv
<1>2. ASSUME Loud, ~Clear PROVE StillInv'
  <2>1. UNCHANGED <<status, turn, admitted>>
    BY <1>2 DEF Loud, Capture, Push, Note, ApplySource, ApplyDestination, RollBack, PutAside, Checkout,
         Reapply, Finalize, List, Drop, TurnEdits, UserEdits, Edit, OtherPushes,
         record, rest
  <2>2. pc' \in {"close", "inspect"} => pc' = pc
    BY <1>2 DEF Loud, Capture, Push, Note, ApplySource, ApplyDestination, RollBack, PutAside, Checkout,
         Reapply, Finalize, List, Drop, TurnEdits, UserEdits, Edit, OtherPushes,
         Goes, rest
  <2>3. journal \in JournalType
    BY DEF TypeInv, TypeOK, RecordOK, JournalType
  <2>4. journal'.prepared = journal.prepared
    BY <1>2, <2>3 DEF Loud, Capture, Push, Note, ApplySource, ApplyDestination, RollBack, PutAside, Checkout,
         Reapply, Finalize, List, Drop, TurnEdits, UserEdits, Edit, OtherPushes, record, JournalType
  <2> QED  BY <2>1, <2>2, <2>4 DEF StillInv, StillWhileMoved, Locked
<1> QED  BY <1>1, <1>2, NextIsQuietOrLoud DEF Quiet

LEMMA InitInv == Init => TypeInv /\ JournalInv /\ StatusInv
<1>1. Init => JournalInv
  BY DEF Init, JournalInv, NoJournal, Moves, Undoes
<1>2. Init => StatusInv
  BY DEF Init, StatusInv, Checks, Moves, Undoes, Drops
<1> QED  BY <1>1, <1>2, InitTypes

LEMMA CoreStep ==
  ASSUME TypeInv, JournalInv, StatusInv, [Next]_vars
  PROVE  TypeInv' /\ JournalInv' /\ StatusInv'
<1>1. CASE Next
  BY <1>1, NextIsQuietOrLoud, QuietTypes, LoudTypes, JournalStep, StatusStep
<1>2. CASE UNCHANGED vars
  <2>1. Stashes' = Stashes
    BY <1>2 DEF vars, rest, Stashes
  <2>2. RecordOK' /\ MemoryOK'
    BY <1>2 DEF vars, record, rest, TypeInv, TypeOK, RecordOK, MemoryOK
  <2>3. GitOK'
    BY <1>2, <2>1 DEF vars, git, rest, TypeInv, TypeOK, GitOK
  <2>4. NoteInv'
    BY <1>2 DEF vars, git, TypeInv, NoteInv
  <2>5. JournalInv'
    BY <1>2, Zenon DEF vars, record, JournalInv
  <2>6. StatusInv'
    BY <1>2 DEF vars, record, StatusInv
  <2> QED  BY <2>2, <2>3, <2>4, <2>5, <2>6 DEF TypeInv, TypeOK
<1> QED  BY <1>1, <1>2

\* Every variable has its type, in every reachable state.
THEOREM TypeCorrect == Spec => []TypeOK
<1>1. TypeInv => TypeOK
  BY DEF TypeInv
<1> QED  BY <1>1, InitInv, CoreStep, PTL DEF Spec

\* While a handoff moves edits and until the client has taken over, no turn of
\* the source thread works, when no admitted turn is still to be created.
THEOREM NoTurnWhileMoved == ASSUME ~SlowAdmission PROVE Spec => []StillWhileMoved
<1>1. Init => StillInv
  BY DEF Init, StillInv, StillWhileMoved, Locked
<1>2. TypeInv /\ JournalInv /\ StatusInv /\ StillInv /\ [Next]_vars => StillInv'
  <2> SUFFICES ASSUME TypeInv, JournalInv, StatusInv, StillInv, [Next]_vars PROVE StillInv'
    OBVIOUS
  <2>1. CASE Next
    BY <2>1, StillStep
  <2>2. CASE UNCHANGED vars
    BY <2>2 DEF vars, record, rest, StillInv, StillWhileMoved, Locked
  <2> QED  BY <2>1, <2>2
<1>3. StillInv => StillWhileMoved
  BY DEF StillInv
<1> QED  BY <1>1, <1>2, <1>3, InitInv, CoreStep, PTL DEF Spec

-----------------------------------------------------------------------------
(* No edit is lost.                                                          *)

\* What a push keeps and adds.
LEMMA PushedShape ==
  ASSUME TypeOK, NEW mark \in Marks, NEW E
  PROVE  LET new == Pushed(mark, E) IN
         /\ DOMAIN new = 1..(Len(stash) + 1) /\ DOMAIN stash = 1..Len(stash) /\ Len(stash) \in Nat
         /\ new[1] = [id |-> count.pushes + 1, mark |-> mark, has |-> E]
         /\ \A i \in 1..Len(stash) : new[i + 1] = stash[i]
<1> DEFINE S == [id : 1..(count.pushes + 1), mark : Marks, has : SUBSET (edits \cup E)]
           one == <<[id |-> count.pushes + 1, mark |-> mark, has |-> E]>>
<1>1. count.pushes \in Nat
  BY DEF TypeOK, GitOK, Counters
<1>2. Stashes \subseteq S
  BY <1>1 DEF Stashes, Marks
<1>3. stash \in Seq(S)
  BY <1>2, SeqMonotonic DEF TypeOK, GitOK
<1>4. one \in Seq(S) /\ Len(one) = 1 /\ one[1] = [id |-> count.pushes + 1, mark |-> mark, has |-> E]
  BY <1>1
<1>5. Len(stash) \in Nat /\ DOMAIN stash = 1..Len(stash)
  BY <1>3, LenProperties
<1>6. Pushed(mark, E) = one \o stash
  BY DEF Pushed
<1> HIDE DEF S, one
<1>7. /\ one \o stash \in Seq(S) /\ Len(one \o stash) = Len(stash) + 1
      /\ \A i \in 1..(1 + Len(stash)) : (one \o stash)[i] = IF i <= 1 THEN one[i] ELSE stash[i - 1]
  BY <1>3, <1>4, <1>5, ConcatProperties
<1>8. DOMAIN (one \o stash) = 1..(Len(stash) + 1)
  BY <1>7, LenProperties
<1>9. (one \o stash)[1] = one[1] /\ \A i \in 1..Len(stash) : (one \o stash)[i + 1] = stash[i]
  BY <1>5, <1>7
<1> QED  BY <1>4, <1>5, <1>6, <1>8, <1>9

\* What a drop keeps.
LEMMA DropShape ==
  ASSUME TypeOK, at # 0
  PROVE  LET new == RemoveAt(stash, at) IN
         /\ \A j \in DOMAIN stash \ {at} : \E i \in DOMAIN new : new[i] = stash[j]
         /\ \A i \in DOMAIN new : \E j \in DOMAIN stash : new[i] = stash[j]
         /\ at \in DOMAIN stash
<1> DEFINE n == Len(stash)  a == SubSeq(stash, 1, at - 1)  b == SubSeq(stash, at + 1, n)
<1>1. stash \in Seq(Stashes) /\ n \in Nat /\ DOMAIN stash = 1..n /\ at \in 1..n
  BY LenProperties DEF TypeOK, GitOK
<1>2. \A i \in 1..n : stash[i] \in Stashes
  BY <1>1, ElementOfSeq
<1>3. /\ a \in Seq(Stashes) /\ Len(a) = at - 1
      /\ \A i \in 1..(at - 1) : a[i] = stash[i]
  BY <1>1, <1>2, SubSeqProperties
<1>4. /\ b \in Seq(Stashes) /\ Len(b) = n - at
      /\ \A i \in 1..(n - at) : b[i] = stash[at + i]
  <2>1. at + 1 \in Int /\ n \in Int /\ \A i \in (at + 1)..n : stash[i] \in Stashes
    BY <1>1, <1>2
  <2> HIDE DEF n
  <2>2. /\ b \in Seq(Stashes) /\ Len(b) = IF at + 1 <= n THEN n - (at + 1) + 1 ELSE 0
        /\ \A i \in 1..(n - (at + 1) + 1) : b[i] = stash[(at + 1) + i - 1]
    BY <2>1, SubSeqProperties
  <2> HIDE DEF b
  <2>3. n - (at + 1) + 1 = n - at /\ (at + 1 <= n \/ n - at = 0)
    BY <1>1
  <2>4. \A i \in 1..(n - at) : (at + 1) + i - 1 = at + i
    BY <1>1
  <2> QED  BY <1>1, <2>2, <2>3, <2>4
<1> HIDE DEF a, b, n
<1>5. /\ a \o b \in Seq(Stashes) /\ Len(a \o b) = n - 1
      /\ \A i \in 1..(n - 1) : (a \o b)[i] = IF i <= at - 1 THEN a[i] ELSE b[i - (at - 1)]
  BY <1>1, <1>3, <1>4, ConcatProperties
<1>6. DOMAIN (a \o b) = 1..(n - 1)
  BY <1>5, LenProperties
<1>7. \A i \in 1..(n - 1) : (a \o b)[i] = IF i <= at - 1 THEN stash[i] ELSE stash[i + 1]
  BY <1>1, <1>3, <1>4, <1>5
<1>8. RemoveAt(stash, at) = a \o b
  BY DEF RemoveAt, a, b, n
<1>9. \A j \in 1..n \ {at} : \E i \in 1..(n - 1) : (a \o b)[i] = stash[j]
  <2> TAKE j \in 1..n \ {at}
  <2>1. CASE j < at
    <3>1. j \in 1..(n - 1) /\ j <= at - 1
      BY <1>1, <2>1
    <3>2. (a \o b)[j] = stash[j]
      BY <1>7, <3>1
    <3> QED  BY <3>1, <3>2
  <2>2. CASE j > at
    <3>1. j - 1 \in 1..(n - 1) /\ ~(j - 1 <= at - 1) /\ (j - 1) + 1 = j
      BY <1>1, <2>2
    <3>2. (a \o b)[j - 1] = stash[j]
      BY <1>7, <3>1
    <3> QED  BY <3>1, <3>2
  <2>3. j < at \/ j > at
    BY <1>1
  <2> QED  BY <2>1, <2>2, <2>3
<1>10. \A i \in 1..(n - 1) : \E j \in 1..n : (a \o b)[i] = stash[j]
  <2> TAKE i \in 1..(n - 1)
  <2>1. i \in 1..n /\ i + 1 \in 1..n
    BY <1>1
  <2> QED  BY <1>7, <2>1
<1> QED  BY <1>1, <1>6, <1>8, <1>9, <1>10

\* A stash that is pushed has a new id.
LEMMA PushKeepsHas ==
  ASSUME TypeOK, NEW mark \in Marks, NEW E, stash' = Pushed(mark, E),
         NEW n \in 0..count.pushes
  PROVE  Has(n)' = Has(n)
<1>1. count.pushes \in Nat
  BY DEF TypeOK, GitOK, Counters
<1>2. /\ DOMAIN stash' = 1..(Len(stash) + 1) /\ DOMAIN stash = 1..Len(stash) /\ Len(stash) \in Nat
      /\ stash'[1].id = count.pushes + 1
      /\ \A i \in 1..Len(stash) : stash'[i + 1] = stash[i]
  <2> DEFINE new == Pushed(mark, E)
  <2>1. /\ DOMAIN new = 1..(Len(stash) + 1) /\ DOMAIN stash = 1..Len(stash) /\ Len(stash) \in Nat
        /\ new[1] = [id |-> count.pushes + 1, mark |-> mark, has |-> E]
        /\ \A i \in 1..Len(stash) : new[i + 1] = stash[i]
    BY PushedShape
  <2> HIDE DEF new
  <2>2. new[1].id = count.pushes + 1
    BY <2>1
  <2>3. stash' = new
    BY DEF new
  <2> QED  BY <2>1, <2>2, <2>3
<1>3. stash'[1].id # n
  BY <1>1, <1>2
<1>4. \A i \in DOMAIN stash : i + 1 \in DOMAIN stash' /\ stash'[i + 1] = stash[i]
  BY <1>2
<1>5. \A i \in DOMAIN stash' : i = 1 \/ (i - 1 \in DOMAIN stash /\ stash'[i] = stash[i - 1])
  <2> TAKE i \in DOMAIN stash'
  <2>1. i = 1 \/ (i - 1 \in 1..Len(stash) /\ (i - 1) + 1 = i)
    BY <1>2
  <2> QED  BY <1>2, <2>1
<1>6. ASSUME NEW e \in Has(n) PROVE e \in Has(n)'
  <2>1. PICK i \in DOMAIN stash : stash[i].id = n /\ e \in stash[i].has
    BY <1>6 DEF Has
  <2> QED  BY <1>4, <2>1 DEF Has
<1>7. ASSUME NEW e \in Has(n)' PROVE e \in Has(n)
  <2>1. PICK i \in DOMAIN stash' : stash'[i].id = n /\ e \in stash'[i].has
    BY <1>7 DEF Has
  <2> QED  BY <1>3, <1>5, <2>1 DEF Has
<1> QED  BY <1>6, <1>7

\* A stash that is dropped takes its edits only.
LEMMA DropKeepsHas ==
  ASSUME TypeOK, at # 0, stash' = RemoveAt(stash, at), NEW n
  PROVE  Has(n)' \subseteq Has(n)
<1>1. \A i \in DOMAIN stash' : \E j \in DOMAIN stash : stash'[i] = stash[j]
  BY DropShape
<1> QED  BY <1>1 DEF Has

LEMMA HasNothing == ASSUME TypeOK PROVE Has(0) = {}
<1>1. \A i \in DOMAIN stash : stash[i].id # 0
  <2> TAKE i \in DOMAIN stash
  <2>1. stash[i].id \in 1..count.pushes /\ count.pushes \in Nat
    BY StashType DEF Stashes, TypeOK, GitOK, Counters
  <2> QED  BY <2>1, WiderRange
<1> QED  BY <1>1 DEF Has

\* The edits of a tree that the journal names are in the destination: of the
\* source from here on, of the destination if they could be applied.
SourceDue == pc \in {"apply destination", "fork", "comments", "bind"} \/ status \in {"await", "completed"}
DestinationDue == pc \in {"fork", "comments", "bind"} \/ status \in {"await", "completed"}

AppliedInv ==
  /\ SourceDue => Has(journal.oid["source"]) \subseteq tree["destination"]
  /\ DestinationDue /\ journal.applied => Has(journal.oid["destination"]) \subseteq tree["destination"]
  /\ pc \in Moves \ {"fork", "comments", "bind"} => ~journal.applied

\* What is to be dropped is in the destination.
DropInv == pc \in {"drop source", "drop destination"} => stash[at].has \subseteq tree["destination"]

LEMMA AppliedQuiet == ASSUME TypeInv, StatusInv, AppliedInv, Quiet PROVE AppliedInv'
<1> DEFINE begun == [NoJournal EXCEPT !.prepared = TRUE, !.dest = head["destination"]]
<1>1. UNCHANGED <<stash, tree>>
  BY DEF Quiet, Start, Preflight, StopSource, Prepare, Inspect, Refuse, Release, Take, Fork,
         MoveComments, Bind, Throws, RolledBack, Recover, RecoverNothing, Acknowledge, Refinalize,
         Clear, Crash, Admit, CreateTurn, TurnEnds, git
<1>2. \A n : Has(n)' = Has(n)
  BY <1>1 DEF Has
<1>3. /\ \A t \in Trees : NoJournal.oid[t] = 0 /\ begun.oid[t] = 0
      /\ ~NoJournal.applied /\ ~begun.applied
  BY DEF NoJournal
<1>4. ASSUME journal' \in {NoJournal, begun} PROVE AppliedInv'
  <2>1. journal'.oid["source"] = 0 /\ ~journal'.applied
    BY <1>3, <1>4 DEF Trees
  <2>2. Has(journal.oid["source"])' = {}
    BY <1>2, <2>1, HasNothing DEF TypeInv
  <2> QED  BY <2>1, <2>2 DEF AppliedInv
<1> HIDE DEF begun
<1>5. ASSUME journal' = journal, ~Inspect PROVE AppliedInv'
  <2>1. /\ SourceDue' => SourceDue
        /\ DestinationDue' => DestinationDue
        /\ pc' \in Moves \ {"fork", "comments", "bind"} => pc \in Moves \ {"fork", "comments", "bind"}
    BY <1>5 DEF Quiet, Start, Preflight, StopSource, Prepare, Inspect, Refuse, Release, Take, Fork,
         MoveComments, Bind, Throws, RolledBack, Recover, RecoverNothing, Acknowledge, Refinalize,
         Clear, Crash, Admit, CreateTurn, TurnEnds,
         record, Goes, Recoverable, Checks, Moves, StatusInv, SourceDue, DestinationDue
  <2> QED  BY <1>1, <1>2, <1>5, <2>1 DEF AppliedInv
<1>6. journal' \in {journal, NoJournal, begun} /\ (Inspect => journal' = begun)
  BY DEF begun, Quiet, Start, Preflight, StopSource, Prepare, Inspect, Refuse, Release, Take, Fork,
         MoveComments, Bind, Throws, RolledBack, Recover, RecoverNothing, Acknowledge, Refinalize,
         Clear, Crash, Admit, CreateTurn, TurnEnds, record
<1> QED  BY <1>4, <1>5, <1>6

\* Nothing of the journal is due while git has not applied it or is rolled back.
LEMMA NotDue ==
  ASSUME status' = "running", pc' \in {"push source", "note source", "push destination", "note destination",
                                      "release"} \cup Undoes \cup {"undone"},
         pc' \in Moves => ~journal'.applied
  PROVE  AppliedInv'
BY DEF AppliedInv, SourceDue, DestinationDue, Undoes, Moves

\* A step that changes neither the journal nor its place, and takes nothing away.
LEMMA StillDue ==
  ASSUME TypeOK, AppliedInv, UNCHANGED journal,
         \A n \in 0..count.pushes : Has(n)' \subseteq Has(n),
         tree["destination"] \subseteq tree'["destination"],
         SourceDue' => SourceDue, DestinationDue' => DestinationDue,
         pc' \in Moves => pc' = pc
  PROVE  AppliedInv'
<1>1. journal.oid["source"] \in 0..count.pushes /\ journal.oid["destination"] \in 0..count.pushes
  BY DEF TypeOK, RecordOK, Trees
<1> QED  BY <1>1 DEF AppliedInv

LEMMA AppliedLoud == ASSUME TypeInv, StatusInv, AppliedInv, Loud, ~Clear PROVE AppliedInv'
<1>1. journal \in JournalType /\ tree \in [Trees -> SUBSET edits] /\ {"source", "destination"} \subseteq Trees
  BY DEF TypeInv, TypeOK, RecordOK, GitOK, JournalType, Trees
<1>2. CASE Capture
  <2>1. status = "running" /\ ~journal.applied
    BY <1>2 DEF Capture, Push, Note, Goes, StatusInv, AppliedInv, Moves
  <2>2. status' = "running" /\ ~journal'.applied
    BY <1>1, <1>2, <2>1 DEF Capture, Push, Note, record, JournalType
  <2>3. pc' \in {"push source", "note source", "push destination", "note destination", "release"}
    BY <1>2 DEF Capture, Push, Note, Goes
  <2> QED  BY <2>2, <2>3, NotDue
<1>3. CASE RollBack
  <2>1. status' = "running"
    BY <1>3 DEF RollBack, PutAside, Checkout, Reapply, Goes, StatusInv, Undoes, record
  <2>2. pc' \in Undoes \cup {"undone"}
    BY <1>3 DEF RollBack, PutAside, Checkout, Reapply, Goes, Undoes
  <2>3. pc' \notin Moves
    BY <2>2 DEF Undoes, Moves
  <2> QED  BY <2>1, <2>2, <2>3, NotDue
<1>4. CASE ApplySource
  <2>1. status' = "running" /\ pc' = "apply destination" /\ ~journal.applied /\ UNCHANGED <<journal, stash>>
    BY <1>4 DEF ApplySource, Goes, StatusInv, AppliedInv, Moves, record
  <2>2. Has(journal.oid["source"])' = Has(journal.oid["source"])
    BY <2>1 DEF Has
  <2>3. Has(journal.oid["source"]) \subseteq tree'["destination"]
    <3>1. CASE journal.oid["source"] = 0
      BY <3>1, HasNothing DEF TypeInv
    <3>2. CASE journal.oid["source"] # 0
      BY <1>1, <1>4, <3>2 DEF ApplySource, Applied
    <3> QED  BY <3>1, <3>2
  <2> QED  BY <2>1, <2>2, <2>3 DEF AppliedInv, SourceDue, DestinationDue
<1>5. CASE ApplyDestination
  <2>1. /\ status' = "running" /\ pc' = "fork" /\ ~journal.applied /\ UNCHANGED stash
        /\ Has(journal.oid["source"]) \subseteq tree["destination"]
    BY <1>5 DEF ApplyDestination, Goes, StatusInv, AppliedInv, SourceDue, Moves, rest
  <2>2. \A n : Has(n)' = Has(n)
    BY <2>1 DEF Has
  <2>3. CASE UNCHANGED <<tree, journal>>
    BY <2>1, <2>2, <2>3 DEF AppliedInv, SourceDue, DestinationDue, Moves
  <2>4. CASE tree' = Applied("destination") /\ journal' = [journal EXCEPT !.applied = TRUE]
    <3>1. tree'["destination"] = tree["destination"] \cup Has(journal.oid["destination"])
      BY <1>1, <2>4 DEF Applied
    <3>2. journal'.oid = journal.oid
      BY <1>1, <2>4 DEF JournalType
    <3> QED  BY <2>1, <2>2, <3>1, <3>2 DEF AppliedInv, SourceDue, DestinationDue, Moves
  <2> QED  BY <1>5, <2>3, <2>4 DEF ApplyDestination
<1>6. CASE Finalize
  <2>1. UNCHANGED <<journal, status, tree>> /\ pc \in Drops /\ pc' \in Drops
    BY <1>6 DEF Finalize, List, Drop, Goes, Drops, record, git
  <2>2. stash' = stash \/ (at # 0 /\ stash' = RemoveAt(stash, at))
    BY <1>6 DEF Finalize, List, Drop, Goes, git, TypeInv, NoteInv
  <2>3. \A n : Has(n)' \subseteq Has(n)
    <3>1. CASE stash' = stash
      BY <3>1 DEF Has
    <3>2. CASE at # 0 /\ stash' = RemoveAt(stash, at)
      BY <3>2, DropKeepsHas DEF TypeInv
    <3> QED  BY <2>2, <3>1, <3>2
  <2>4. (SourceDue' => SourceDue) /\ (DestinationDue' => DestinationDue) /\ pc' \notin Moves
    BY <2>1 DEF SourceDue, DestinationDue, Drops, Moves
  <2> QED  BY <2>1, <2>3, <2>4, StillDue DEF TypeInv
<1>7. CASE TurnEdits \/ UserEdits
  <2>1. UNCHANGED <<journal, status, pc, stash>>
    BY <1>7 DEF TurnEdits, UserEdits, Edit, record
  <2>2. tree["destination"] \subseteq tree'["destination"]
    BY <1>1, <1>7 DEF TurnEdits, UserEdits, Edit
  <2>3. \A n : Has(n)' = Has(n)
    BY <2>1 DEF Has
  <2> QED  BY <2>1, <2>2, <2>3, StillDue DEF SourceDue, DestinationDue, TypeInv
<1>8. CASE OtherPushes
  <2>1. UNCHANGED <<journal, status, pc, tree>>
    BY <1>8 DEF OtherPushes, record
  <2>2. stash' = Pushed(<<0, "other">>, {"theirs"}) /\ <<0, "other">> \in Marks
    BY <1>8 DEF OtherPushes, Marks
  <2>3. \A n \in 0..count.pushes : Has(n)' = Has(n)
    BY <2>2, PushKeepsHas DEF TypeInv
  <2> QED  BY <2>1, <2>3, StillDue DEF SourceDue, DestinationDue, TypeInv
<1> QED  BY <1>2, <1>3, <1>4, <1>5, <1>6, <1>7, <1>8 DEF Loud

\* A position that has been looked up stays right: nobody pushes meanwhile.
LEMMA DropStep == ASSUME ~Races, TypeInv, StatusInv, AppliedInv, DropInv, Next PROVE DropInv'
<1> DEFINE D == {"drop source", "drop destination"}
<1>1. tree \in [Trees -> SUBSET edits] /\ {"source", "destination"} \subseteq Trees
  BY DEF TypeInv, TypeOK, GitOK, Trees
<1>2. CASE pc' = pc /\ pc \in D
  <2>1. UNCHANGED <<stash, at>> /\ tree["destination"] \subseteq tree'["destination"]
    BY <1>1, <1>2 DEF Next, Operation, Restart, Quiet, Start, Preflight, StopSource, Prepare, Inspect, Refuse, Release, Take, Fork,
         MoveComments, Bind, Throws, RolledBack, Recover, RecoverNothing, Acknowledge, Refinalize,
         Clear, Crash, Admit, CreateTurn, TurnEnds,
         Loud, Capture, Push, Note, ApplySource, ApplyDestination, RollBack, PutAside, Checkout,
         Reapply, Finalize, List, Drop, TurnEdits, UserEdits, Edit, OtherPushes, Goes, git, rest
  <2> QED  BY <1>2, <2>1 DEF DropInv
<1>3. CASE pc' \in D /\ pc' # pc
  <2>1. PICK t \in Trees : /\ pc \in Drops /\ Droppable(t) /\ UNCHANGED <<stash, tree>>
                           /\ at' \in DOMAIN stash /\ stash[at'].id = journal.oid[t]
    <3>1. CASE List("source", "list source", "drop source", "list destination")
      BY <1>1, <1>3, <3>1 DEF List, git, Drops
    <3>2. CASE List("destination", "list destination", "drop destination", "clear")
      BY <1>1, <1>3, <3>2 DEF List, git, Drops
    <3> QED  BY <1>3, <3>1, <3>2 DEF Next, Operation, Restart, Quiet, Start, Preflight, StopSource, Prepare, Inspect, Refuse, Release, Take, Fork,
         MoveComments, Bind, Throws, RolledBack, Recover, RecoverNothing, Acknowledge, Refinalize,
         Clear, Crash, Admit, CreateTurn, TurnEnds,
         Loud, Capture, Push, Note, ApplySource, ApplyDestination, RollBack, PutAside, Checkout,
         Reapply, Finalize, List, Drop, TurnEdits, UserEdits, Edit, OtherPushes, Goes, rest
  <2>2. Has(journal.oid[t]) \subseteq tree["destination"]
    <3>1. SourceDue /\ DestinationDue /\ (t = "destination" => journal.applied)
      BY <2>1 DEF StatusInv, SourceDue, DestinationDue, Droppable
    <3> QED  BY <3>1 DEF AppliedInv, Trees
  <2>3. stash[at'].has \subseteq Has(journal.oid[t])
    BY <2>1 DEF Has
  <2> QED  BY <2>1, <2>2, <2>3 DEF DropInv
<1> QED  BY <1>2, <1>3 DEF DropInv

Stashed == UNION {stash[i].has : i \in DOMAIN stash}

LEMMA LostStep ==
  ASSUME TypeInv, StatusInv, DropInv, NothingLost, Next
  PROVE  NothingLost'
<1> DEFINE everywhere == tree["source"] \cup tree["destination"] \cup Stashed
<1>1. tree \in [Trees -> SUBSET edits] /\ Trees = {"source", "destination"}
  BY DEF TypeInv, TypeOK, GitOK, Trees
<1>2. edits \subseteq everywhere
  BY <1>1 DEF NothingLost, Stashed
<1>3. ASSUME NEW mark \in Marks, NEW E, stash' = Pushed(mark, E)
      PROVE  Stashed' = Stashed \cup E
  <2> DEFINE new == Pushed(mark, E)
  <2>1. /\ DOMAIN new = 1..(Len(stash) + 1) /\ DOMAIN stash = 1..Len(stash) /\ Len(stash) \in Nat
        /\ new[1] = [id |-> count.pushes + 1, mark |-> mark, has |-> E]
        /\ \A i \in 1..Len(stash) : new[i + 1] = stash[i]
    BY PushedShape DEF TypeInv
  <2> HIDE DEF new
  <2>2. new[1].has = E /\ 1 \in DOMAIN new
    BY <2>1
  <2>3. \A i \in DOMAIN stash : i + 1 \in DOMAIN new /\ new[i + 1] = stash[i]
    BY <2>1
  <2>4. \A i \in DOMAIN new : i = 1 \/ \E j \in DOMAIN stash : new[i] = stash[j]
    <3> TAKE i \in DOMAIN new
    <3>1. i = 1 \/ (i - 1 \in 1..Len(stash) /\ (i - 1) + 1 = i)
      BY <2>1
    <3> QED  BY <2>1, <3>1
  <2>5. stash' = new
    BY <1>3 DEF new
  <2> QED  BY <2>2, <2>3, <2>4, <2>5 DEF Stashed
<1>4. edits' \subseteq everywhere'
  <2>1. CASE Quiet
    <3>1. UNCHANGED <<tree, stash, edits>>
      BY <2>1 DEF Quiet, Start, Preflight, StopSource, Prepare, Inspect, Refuse, Release, Take, Fork,
         MoveComments, Bind, Throws, RolledBack, Recover, RecoverNothing, Acknowledge, Refinalize,
         Clear, Crash, Admit, CreateTurn, TurnEnds, git, rest
    <3> QED  BY <1>2, <3>1 DEF Stashed
  <2>2. ASSUME stash' = stash, \A t \in Trees : tree[t] \subseteq tree'[t],
               edits' \subseteq edits \cup tree'["source"] \cup tree'["destination"]
        PROVE  edits' \subseteq everywhere'
    BY <1>1, <1>2, <2>2 DEF Stashed
  <2>3. ASSUME NEW t \in Trees, NEW mark \in Marks, stash' = Pushed(mark, tree[t]),
               tree' = [tree EXCEPT ![t] = {}], edits' = edits
        PROVE  edits' \subseteq everywhere'
    <3>1. Stashed' = Stashed \cup tree[t]
      BY <1>3, <2>3
    <3>2. \A u \in Trees \ {t} : tree'[u] = tree[u]
      BY <1>1, <2>3
    <3> QED  BY <1>1, <1>2, <2>3, <3>1, <3>2
  <2>4. CASE OtherPushes
    <3>1. stash' = Pushed(<<0, "other">>, {"theirs"}) /\ <<0, "other">> \in Marks
          /\ UNCHANGED tree /\ edits' = edits \cup {"theirs"}
      BY <2>4 DEF OtherPushes, Marks
    <3>2. Stashed' = Stashed \cup {"theirs"}
      BY <1>3, <3>1
    <3> QED  BY <1>2, <3>1, <3>2
  <2>5. ASSUME pc \in {"drop source", "drop destination"}, stash' = RemoveAt(stash, at), UNCHANGED <<tree, edits>>
        PROVE  edits' \subseteq everywhere'
    <3>1. at # 0 /\ stash[at].has \subseteq tree["destination"]
      BY <2>5 DEF DropInv, TypeInv, NoteInv
    <3>2. \A j \in DOMAIN stash \ {at} : \E i \in DOMAIN stash' : stash'[i] = stash[j]
      BY <2>5, <3>1, DropShape DEF TypeInv
    <3>3. Stashed \subseteq Stashed' \cup tree["destination"]
      BY <3>1, <3>2 DEF Stashed
    <3> QED  BY <1>2, <2>5, <3>3
  <2>6. CASE Capture
    <3>1. CASE UNCHANGED <<stash, tree, edits>>
      BY <2>2, <3>1
    <3>2. CASE ~UNCHANGED <<stash, tree, edits>>
      <4>1. PICK t \in Trees : /\ stash' = Pushed(<<count.tries, t>>, tree[t])
                               /\ tree' = [tree EXCEPT ![t] = {}] /\ edits' = edits
        BY <1>1, <2>6, <3>2 DEF Capture, Push, Note, git, rest
      <4>2. <<count.tries, t>> \in Marks
        BY DEF TypeInv, TypeOK, GitOK, Marks, Counters
      <4> QED  BY <2>3, <4>1, <4>2
    <3> QED  BY <3>1, <3>2
  <2>7. CASE PutAside
    <3>1. CASE UNCHANGED <<stash, tree, edits>>
      BY <2>2, <3>1
    <3>2. CASE ~UNCHANGED <<stash, tree, edits>>
      <4>1. /\ stash' = Pushed(<<count.tries, "rollback">>, tree["destination"])
            /\ tree' = [tree EXCEPT !["destination"] = {}] /\ edits' = edits
        BY <2>7, <3>2 DEF PutAside, Works, Fails, rest
      <4>2. <<count.tries, "rollback">> \in Marks
        BY DEF TypeInv, TypeOK, GitOK, Marks, Counters
      <4> QED  BY <1>1, <2>3, <4>1, <4>2
    <3> QED  BY <3>1, <3>2
  <2>8. CASE Finalize /\ ~Clear
    <3>1. UNCHANGED <<tree, edits>>
      BY <2>8 DEF Finalize, List, Drop, git, rest
    <3>2. \/ stash' = stash
          \/ pc \in {"drop source", "drop destination"} /\ stash' = RemoveAt(stash, at)
      BY <2>8 DEF Finalize, List, Drop, Goes, git
    <3> QED  BY <2>2, <2>5, <3>1, <3>2
  <2>9. CASE \/ ApplySource \/ ApplyDestination \/ TurnEdits \/ UserEdits
             \/ Checkout("destination", journal.dest, "undo destination", "undo source")
             \/ Checkout("source", "feature", "undo source", "reapply source")
             \/ Reapply("source", "reapply source", "reapply destination")
             \/ Reapply("destination", "reapply destination", "undone")
    <3>1. stash' = stash
      BY <2>9 DEF ApplySource, ApplyDestination, TurnEdits, UserEdits, Edit, Checkout, Reapply
    <3>2. \A t \in Trees : tree[t] \subseteq tree'[t]
      BY <1>1, <2>9 DEF ApplySource, ApplyDestination, Applied, TurnEdits, UserEdits, Edit, Checkout, Reapply
    <3>3. edits' \subseteq edits \cup tree'["source"] \cup tree'["destination"]
      BY <1>1, <2>9 DEF ApplySource, ApplyDestination, TurnEdits, UserEdits, Edit, Checkout, Reapply, rest
    <3> QED  BY <2>2, <3>1, <3>2, <3>3
  <2> QED  BY <2>1, <2>4, <2>6, <2>7, <2>8, <2>9, NextIsQuietOrLoud DEF Loud, RollBack, Quiet
<1> QED  BY <1>1, <1>4 DEF NothingLost, Stashed

\* No edit of the user, of a turn or of somebody else is lost, when nobody pushes
\* a stash between two commands of the handoff about its own.
THEOREM NoEditLost == ASSUME ~Races PROVE Spec => []NothingLost
<1>1. Init => AppliedInv /\ DropInv /\ NothingLost
  <2> SUFFICES ASSUME Init PROVE AppliedInv /\ DropInv /\ NothingLost
    OBVIOUS
  <2>1. pc = "off" /\ status = "none"
    BY DEF Init
  <2>2. AppliedInv /\ DropInv
    BY <2>1 DEF AppliedInv, DropInv, SourceDue, DestinationDue, Moves
  <2>3. \A e \in edits : e \in tree["destination"]
    BY DEF Init, Trees
  <2> QED  BY <2>2, <2>3 DEF NothingLost, Trees
<1>2. /\ TypeInv /\ JournalInv /\ StatusInv /\ AppliedInv /\ DropInv /\ NothingLost /\ [Next]_vars
      => (AppliedInv /\ DropInv /\ NothingLost)'
  <2> SUFFICES ASSUME TypeInv, JournalInv, StatusInv, AppliedInv, DropInv, NothingLost, [Next]_vars
               PROVE  AppliedInv' /\ DropInv' /\ NothingLost'
    OBVIOUS
  <2>1. CASE Next
    BY <2>1, AppliedQuiet, AppliedLoud, DropStep, LostStep, NextIsQuietOrLoud DEF Quiet
  <2>2. CASE UNCHANGED vars
    <3>1. UNCHANGED <<pc, status, journal, stash, tree, at, edits>>
      BY <2>2 DEF vars, record, git, rest
    <3>2. \A n : Has(n)' = Has(n)
      BY <3>1 DEF Has
    <3>3. AppliedInv'
      BY <3>1, <3>2 DEF AppliedInv, SourceDue, DestinationDue
    <3>4. DropInv'
      BY <3>1 DEF DropInv
    <3>5. NothingLost'
      BY <3>1 DEF NothingLost
    <3> QED  BY <3>3, <3>4, <3>5
  <2> QED  BY <2>1, <2>2
<1> QED  BY <1>1, <1>2, InitInv, CoreStep, PTL DEF Spec

-----------------------------------------------------------------------------
(* All or nothing.  The question at every step is where the four things an   *)
(* operation moves are: the branches, the edits of the source, those of the  *)
(* destination, and the comments; and whether a rollback would find them.    *)
UnderWay == status = "running" /\ journal.prepared

\* The checks come before the journal.
ChecksInv == pc \in Checks => ~journal.prepared

\* A branch is checked out in one tree only.
HeadsInv == \A ref \in Branches : head["source"] = ref => head["destination"] # ref

\* The operation has put the edits of a tree away.
Kept(t) == \E i \in DOMAIN stash : stash[i].mark = <<count.tries, t>>

\* What it has put away is what the tree had, and is found by its marker or by the
\* journal; an operation that has not begun has put nothing away.
KeptInv ==
  /\ \A i \in DOMAIN stash : stash[i].mark[1] <= count.tries
  /\ status = "running" /\ ~journal.prepared => \A t \in Trees : ~Kept(t)
  /\ UnderWay => \A t \in Trees :
       /\ \A i \in DOMAIN stash : stash[i].mark = <<count.tries, t>>
            => stash[i].has = before.tree[t] /\ Has(stash[i].id) = before.tree[t]
       /\ Kept(t) => before.tree[t] # {}
       /\ journal.oid[t] # 0 => Kept(t) /\ Has(journal.oid[t]) = before.tree[t]

\* What was there before the operation.
BeforeInv ==
  /\ status = "running" /\ ~journal.prepared => comments # "target"
  /\ UnderWay =>
       /\ before.head["source"] = "feature" /\ before.head["destination"] = journal.dest
       /\ journal.dest # "feature"
       /\ dir = "back" => before.tree["destination"] = {}
       /\ before.comments # "target"
       /\ comments = before.comments \/ (before.comments = "source" /\ comments = "target")
       /\ \A t \in Trees : tree[t] = {} /\ before.tree[t] # {} => Kept(t)

BeforeRelease == {"push source", "note source", "push destination", "note destination", "release"}

\* How far the transfer has come: the branches, the edits, the conversation.
PlaceInv ==
  UnderWay /\ pc \in Moves =>
    /\ pc \in BeforeRelease => head = before.head
    /\ pc \notin BeforeRelease => head["source"] = Fallback
    /\ pc = "take" => head["destination"] = journal.dest
    /\ pc \notin BeforeRelease \cup {"take"} => head["destination"] = "feature"
    /\ tree["source"] = IF pc = "push source" THEN before.tree["source"] ELSE {}
    /\ pc \in {"push source", "note source", "push destination"}
         => tree["destination"] = before.tree["destination"]
    /\ pc \in {"note destination", "release", "take", "apply source"} => tree["destination"] = {}
    /\ pc = "apply destination" => tree["destination"] = before.tree["source"]
    /\ pc \in {"fork", "comments", "bind"} => before.tree["source"] \subseteq tree["destination"]
    /\ pc \notin {"push source", "note source"} /\ before.tree["source"] # {}
         => journal.oid["source"] # 0
    /\ pc \notin {"push source", "note source", "push destination"}
         => before.tree["destination"] = {} \/ Kept("destination")
    /\ pc \in {"note source", "note destination"} =>
         stash[1].mark = <<count.tries, IF pc = "note source" THEN "source" ELSE "destination">>
    /\ pc \in {"comments", "bind"} => fork = "hidden"
    /\ pc = "bind" => comments # "source"

\* The destination has edits of the transfer though its branch is back.
Damaged == ~Moved /\ tree["destination"] \notin {{}, before.tree["destination"]}

\* What a rollback, also one that begins again, can rely on, and what it has done
\* when no command has failed.  Damage is done by a rollback that could not put
\* the edits aside; it knows so, unless the agent dies then: the third trouble.
BackInv ==
  UnderWay /\ pc \notin Moves =>
    /\ head["source"] \in {"feature", Fallback} /\ head["destination"] \in {"feature", journal.dest}
    /\ tree["source"] \in {{}, before.tree["source"]}
    /\ Moved => before.tree["destination"] = {} \/ Kept("destination")
    /\ Moved => count.troubles >= 1
    /\ Damaged => \/ ~ok /\ count.troubles >= 2 /\ pc # "off" /\ pc # "undo"
                  \/ count.troubles >= 3
    /\ pc = "undo" => ok
    /\ pc = "undo destination" /\ ~ok => count.troubles >= 2
    /\ pc = "undo destination" /\ ok => (Moved => tree["destination"] = {})
    /\ pc \in {"undo source", "reapply source", "reapply destination", "undone"} /\ ok => ~Moved
    /\ pc \in {"reapply source", "reapply destination", "undone"} /\ ok => head["source"] = "feature"
    /\ pc \in {"reapply destination", "undone"} /\ ok => tree["source"] = before.tree["source"]
    /\ pc = "undone" /\ ok /\ ~(count.troubles >= 3)
         => tree["destination"] = before.tree["destination"]

AllInv == ChecksInv /\ HeadsInv /\ KeptInv /\ BeforeInv /\ PlaceInv /\ BackInv

\* What a push adds.
LEMMA KeptPushed ==
  ASSUME TypeOK, NEW mark \in Marks, NEW E, stash' = Pushed(mark, E), count'.tries = count.tries
  PROVE  /\ \A t \in Trees : Kept(t)' <=> Kept(t) \/ mark = <<count.tries, t>>
         /\ \A i \in DOMAIN stash' :
              \/ stash'[i].mark = mark /\ stash'[i].has = E /\ stash'[i].id = count.pushes + 1
              \/ \E j \in DOMAIN stash : stash'[i] = stash[j]
         /\ stash'[1].mark = mark
         /\ \A n : n = count.pushes + 1 => Has(n)' = E
         /\ \A n \in 0..count.pushes : Has(n)' = Has(n)
<1>1. /\ DOMAIN stash' = 1..(Len(stash) + 1) /\ DOMAIN stash = 1..Len(stash) /\ Len(stash) \in Nat
      /\ stash'[1] = [id |-> count.pushes + 1, mark |-> mark, has |-> E]
      /\ \A i \in 1..Len(stash) : stash'[i + 1] = stash[i]
  <2> DEFINE new == Pushed(mark, E)
  <2>1. /\ DOMAIN new = 1..(Len(stash) + 1) /\ DOMAIN stash = 1..Len(stash) /\ Len(stash) \in Nat
        /\ new[1] = [id |-> count.pushes + 1, mark |-> mark, has |-> E]
        /\ \A i \in 1..Len(stash) : new[i + 1] = stash[i]
    BY PushedShape
  <2>2. stash' = new
    OBVIOUS
  <2> HIDE DEF new
  <2> QED  BY <2>1, <2>2
<1>2. stash'[1].mark = mark /\ stash'[1].has = E /\ stash'[1].id = count.pushes + 1 /\ 1 \in DOMAIN stash'
  BY <1>1
<1>3. \A j \in DOMAIN stash : \E i \in DOMAIN stash' : stash'[i] = stash[j]
  <2> TAKE j \in DOMAIN stash
  <2>1. j + 1 \in DOMAIN stash' /\ stash'[j + 1] = stash[j]
    BY <1>1
  <2> QED  BY <2>1
<1>4. \A i \in DOMAIN stash' : i = 1 \/ \E j \in DOMAIN stash : stash'[i] = stash[j]
  <2> TAKE i \in DOMAIN stash'
  <2>1. i = 1 \/ (i - 1 \in DOMAIN stash /\ (i - 1) + 1 = i)
    BY <1>1
  <2> QED  BY <1>1, <2>1
<1>5. \A n \in 0..count.pushes : Has(n)' = Has(n)
  BY PushKeepsHas
<1>6. ASSUME NEW n, n = count.pushes + 1 PROVE Has(n)' = E
  <2>1. ASSUME NEW i \in DOMAIN stash PROVE stash[i].id # n
    <3>1. stash[i].id \in 1..count.pushes /\ count.pushes \in Nat
      BY StashType DEF Stashes, TypeOK, GitOK, Counters
    <3> QED  BY <1>6, <3>1
  <2>2. \A i \in DOMAIN stash' : stash'[i].id = n => stash'[i].has = E
    BY <1>2, <1>4, <2>1
  <2> QED  BY <1>2, <1>6, <2>2 DEF Has
<1>7. ASSUME NEW t \in Trees PROVE Kept(t)' <=> Kept(t) \/ mark = <<count.tries, t>>
  <2> DEFINE own == <<count.tries, t>>
  <2>1. Kept(t)' <=> \E i \in DOMAIN stash' : stash'[i].mark = own
    BY DEF Kept
  <2>2. Kept(t) <=> \E i \in DOMAIN stash : stash[i].mark = own
    BY DEF Kept
  <2> HIDE DEF own
  <2>3. Kept(t)' => Kept(t) \/ mark = own
    BY <1>2, <1>4, <2>1, <2>2
  <2>4. Kept(t) \/ mark = own => Kept(t)'
    BY <1>2, <1>3, <2>1, <2>2
  <2> QED  BY <2>3, <2>4 DEF own
<1> QED  BY <1>2, <1>4, <1>5, <1>6, <1>7

\* A rollback finds what was put away, and nothing when nothing was.
LEMMA FoundStash ==
  ASSUME TypeOK, KeptInv, UnderWay, NEW t \in Trees
  PROVE  /\ StashOf(t) # 0 <=> Kept(t)
         /\ Kept(t) => Has(StashOf(t)) = before.tree[t]
<1> DEFINE I == {i \in DOMAIN stash : stash[i].mark = <<count.tries, t>>}
<1>1. CASE journal.oid[t] # 0
  BY <1>1 DEF StashOf, KeptInv
<1>2. CASE journal.oid[t] = 0 /\ I = {}
  BY <1>2 DEF StashOf, KeptInv, Kept
<1>3. CASE journal.oid[t] = 0 /\ I # {}
  <2> DEFINE least == CHOOSE i \in I : \A j \in I : i <= j
  <2>1. I \subseteq Nat
    BY StashType DEF TypeOK, GitOK
  <2>2. \E i \in I : \A j \in I : i <= j
    BY <1>3, <2>1, LeastNat
  <2>3. least \in I
    BY <2>2
  <2>4. StashOf(t) = stash[least].id
    BY <1>3 DEF StashOf
  <2>5. stash[least].id # 0
    <3>1. stash[least].id \in 1..count.pushes /\ count.pushes \in Nat
      BY <2>3, StashType DEF Stashes, TypeOK, GitOK, Counters
    <3> QED  BY <3>1
  <2>6. Kept(t) /\ Has(stash[least].id) = before.tree[t]
    BY <2>3 DEF KeptInv, Kept
  <2> HIDE DEF least
  <2> QED  BY <2>4, <2>5, <2>6
<1> QED  BY <1>1, <1>2, <1>3

\* Steps that put nothing away keep what was put away.
LEMMA KeptStays ==
  ASSUME KeptInv, UNCHANGED <<stash, before>>, count'.tries = count.tries,
         journal'.prepared = journal.prepared, journal'.oid = journal.oid,
         status' = "running" => status = "running"
  PROVE  /\ KeptInv' /\ (\A t \in Trees : Kept(t)' <=> Kept(t))
         /\ \A n : Has(n)' = Has(n)
<1>1. \A t \in Trees : Kept(t)' <=> Kept(t)
  BY DEF Kept
<1>2. \A n : Has(n)' = Has(n)
  BY DEF Has
<1>3. \A i \in DOMAIN stash' : stash'[i].mark[1] <= count'.tries
  BY DEF KeptInv
<1>4. ASSUME status' = "running", ~journal'.prepared, NEW t \in Trees PROVE ~Kept(t)'
  BY <1>1, <1>4 DEF KeptInv
<1>5. ASSUME UnderWay', NEW t \in Trees
      PROVE  /\ \A i \in DOMAIN stash' : stash'[i].mark = <<count'.tries, t>>
                  => stash'[i].has = before'.tree[t] /\ Has(stash[i].id)' = before'.tree[t]
             /\ Kept(t)' => before'.tree[t] # {}
             /\ journal'.oid[t] # 0 => Kept(t)' /\ Has(journal.oid[t])' = before'.tree[t]
  <2>1. UnderWay
    BY <1>5 DEF UnderWay
  <2>2. \A i \in DOMAIN stash : Has(stash[i].id)' = Has(stash[i].id)
    BY DEF Has
  <2>3. Has(journal.oid[t])' = Has(journal.oid[t])
    BY DEF Has
  <2> QED  BY <1>1, <2>1, <2>2, <2>3 DEF KeptInv
<1> QED  BY <1>1, <1>2, <1>3, <1>4, <1>5 DEF KeptInv

\* A push keeps what was put away, and may put the edits of a tree away.
LEMMA KeptPush ==
  ASSUME TypeOK, KeptInv, NEW mark \in Marks, NEW E, stash' = Pushed(mark, E), mark[1] <= count.tries,
         UNCHANGED <<status, journal, before>>, count'.tries = count.tries,
         \A t \in Trees : mark = <<count.tries, t>> => UnderWay /\ E = before.tree[t] /\ E # {}
  PROVE  KeptInv'
<1>1. /\ \A t \in Trees : Kept(t)' <=> Kept(t) \/ mark = <<count.tries, t>>
      /\ \A i \in DOMAIN stash' :
           \/ stash'[i].mark = mark /\ stash'[i].has = E /\ stash'[i].id = count.pushes + 1
           \/ \E j \in DOMAIN stash : stash'[i] = stash[j]
      /\ \A n : n = count.pushes + 1 => Has(n)' = E
      /\ \A n \in 0..count.pushes : Has(n)' = Has(n)
  BY KeptPushed
<1>2. \A i \in DOMAIN stash' : stash'[i].mark[1] <= count'.tries
  BY <1>1 DEF KeptInv
<1>3. ASSUME status' = "running", ~journal'.prepared, NEW t \in Trees PROVE ~Kept(t)'
  BY <1>1, <1>3 DEF KeptInv, UnderWay
<1>4. ASSUME UnderWay', NEW t \in Trees
      PROVE  /\ \A i \in DOMAIN stash' : stash'[i].mark = <<count'.tries, t>>
                  => stash'[i].has = before'.tree[t] /\ Has(stash[i].id)' = before'.tree[t]
             /\ Kept(t)' => before'.tree[t] # {}
             /\ journal'.oid[t] # 0 => Kept(t)' /\ Has(journal.oid[t])' = before'.tree[t]
  <2> DEFINE own == <<count.tries, t>>
  <2>1. UnderWay
    BY <1>4 DEF UnderWay
  <2>2. ASSUME NEW i \in DOMAIN stash', stash'[i].mark = own
        PROVE  stash'[i].has = before.tree[t] /\ Has(stash[i].id)' = before.tree[t]
    <3> DEFINE n == stash'[i].id
    <3>1. Has(stash[i].id)' = UNION {stash'[j].has : j \in {k \in DOMAIN stash' : stash'[k].id = n}}
      BY DEF Has
    <3>2. CASE mark = own /\ stash'[i].has = E /\ n = count.pushes + 1
      BY <1>1, <3>1, <3>2 DEF Has
    <3>3. CASE \E j \in DOMAIN stash : stash'[i] = stash[j]
      <4>1. PICK j \in DOMAIN stash : stash'[i] = stash[j]
        BY <3>3
      <4>2. n = stash[j].id /\ n \in 0..count.pushes
        <5>1. stash[j].id \in 1..count.pushes /\ count.pushes \in Nat
          BY StashType DEF Stashes, TypeOK, GitOK, Counters
        <5> QED  BY <4>1, <5>1
      <4>3. stash[j].has = before.tree[t] /\ Has(stash[j].id) = before.tree[t]
        BY <2>1, <2>2, <4>1 DEF KeptInv
      <4> QED  BY <1>1, <3>1, <4>1, <4>2, <4>3 DEF Has
    <3> HIDE DEF own, n
    <3> QED  BY <1>1, <2>2, <3>2, <3>3 DEF n
  <2>3. Kept(t)' => before.tree[t] # {}
    BY <1>1, <2>1 DEF KeptInv
  <2>4. journal.oid[t] # 0 => Kept(t)' /\ Has(journal.oid[t])' = before.tree[t]
    <3> DEFINE n == journal.oid[t]
    <3>1. n \in 0..count.pushes
      BY DEF TypeOK, RecordOK
    <3>2. Has(journal.oid[t])' = UNION {stash'[j].has : j \in {k \in DOMAIN stash' : stash'[k].id = n}}
      BY DEF Has
    <3>3. Has(journal.oid[t])' = Has(n)
      BY <1>1, <3>1, <3>2 DEF Has
    <3> QED  BY <1>1, <2>1, <3>3 DEF KeptInv
  <2> QED  BY <2>2, <2>3, <2>4
<1> QED  BY <1>2, <1>3, <1>4 DEF KeptInv

\* Steps after which no operation is under way.
LEMMA Idle ==
  ASSUME AllInv, ~UnderWay', UNCHANGED head, count'.tries = count.tries,
         \A i \in DOMAIN stash' : \E j \in DOMAIN stash : stash'[i] = stash[j],
         status' = "running" => status = "running" /\ ~journal.prepared,
         status' = "running" => UNCHANGED comments, pc' \in Checks => ~journal'.prepared
  PROVE  AllInv'
<1>1. \A t \in Trees : Kept(t)' => Kept(t)
  BY DEF Kept
<1>2. KeptInv'
  <2>1. \A i \in DOMAIN stash' : stash'[i].mark[1] <= count'.tries
    BY DEF AllInv, KeptInv
  <2>2. status' = "running" => \A t \in Trees : ~Kept(t)'
    BY <1>1 DEF AllInv, KeptInv
  <2> QED  BY <2>1, <2>2 DEF KeptInv
<1>3. HeadsInv' /\ ChecksInv'
  BY DEF AllInv, HeadsInv, ChecksInv
<1>4. BeforeInv' /\ PlaceInv' /\ BackInv'
  BY DEF AllInv, BeforeInv, PlaceInv, BackInv, UnderWay
<1> QED  BY <1>2, <1>3, <1>4 DEF AllInv

\* The steps of an operation that are not about git, and those after its end.
LEMMA IdleSteps ==
  ASSUME TypeInv, StatusInv, AllInv,
         \/ Preflight \/ StopSource \/ Prepare \/ Refuse \/ Acknowledge \/ Refinalize \/ Bind
         \/ RolledBack \/ RecoverNothing \/ Finalize
  PROVE  AllInv'
<1>1. UNCHANGED head /\ count'.tries = count.tries
  <2>1. Trouble => count'.tries = count.tries
    BY DEF Trouble, Counted, TypeInv, TypeOK, GitOK, Counters
  <2> QED  BY <2>1 DEF Preflight, StopSource, Prepare, Refuse, Acknowledge, Refinalize, Bind,
              RolledBack, RecoverNothing, Finalize, List, Drop, Clear, git
<1>2. \A i \in DOMAIN stash' : \E j \in DOMAIN stash : stash'[i] = stash[j]
  <2>1. CASE stash' = stash
    BY <2>1
  <2>2. CASE at # 0 /\ stash' = RemoveAt(stash, at)
    BY <2>2, DropShape DEF TypeInv
  <2>3. stash' = stash \/ (at # 0 /\ stash' = RemoveAt(stash, at))
    BY DEF Preflight, StopSource, Prepare, Refuse, Acknowledge, Refinalize, Bind,
           RolledBack, RecoverNothing, Finalize, List, Drop, Clear, Goes, git, TypeInv, NoteInv
  <2> QED  BY <2>1, <2>2, <2>3
<1>3. /\ status' = "running" => status = "running" /\ pc \in Checks /\ UNCHANGED <<journal, comments>>
      /\ pc' \in Checks => pc \in Checks /\ UNCHANGED journal
  BY DEF Preflight, StopSource, Prepare, Refuse, Acknowledge, Refinalize, Bind, RolledBack, RecoverNothing,
         Finalize, List, Drop, Clear, Goes, record, StatusInv, Checks, Moves, Undoes, Drops
<1> QED  BY <1>1, <1>2, <1>3, Idle DEF UnderWay, AllInv, ChecksInv

\* What turns, users and others do leaves an operation under way alone.
LEMMA OtherSteps ==
  ASSUME ~Races, ~Meddles, TypeInv, StillInv, AllInv,
         Admit \/ CreateTurn \/ TurnEdits \/ TurnEnds \/ UserEdits \/ OtherPushes
  PROVE  AllInv'
<1>1. /\ UNCHANGED <<record, head, pc, ok, before, dir>> /\ count'.tries = count.tries
      /\ count'.troubles = count.troubles
  BY DEF Admit, CreateTurn, TurnEdits, TurnEnds, UserEdits, Edit, OtherPushes, git, rest,
         TypeInv, TypeOK, GitOK, Counters
<1>2. UnderWay => UNCHANGED tree
  BY DEF Admit, CreateTurn, TurnEdits, TurnEnds, UserEdits, OtherPushes, git, UnderWay, StillInv, StillWhileMoved
<1>3. \/ UNCHANGED stash
      \/ stash' = Pushed(<<0, "other">>, {"theirs"}) /\ pc \notin {"note source", "note destination"}
  BY DEF Admit, CreateTurn, TurnEdits, TurnEnds, UserEdits, Edit, OtherPushes, git
<1>4. KeptInv' /\ \A t \in Trees : Kept(t)' <=> Kept(t)
  <2>1. CASE UNCHANGED stash
    BY <1>1, <2>1, KeptStays DEF AllInv, record
  <2>2. CASE stash' = Pushed(<<0, "other">>, {"theirs"})
    <3>1. <<0, "other">> \in Marks /\ <<0, "other">>[1] <= count.tries
      BY DEF Marks, TypeInv, TypeOK, GitOK, Counters
    <3>2. \A t \in Trees : <<0, "other">> # <<count.tries, t>>
      BY DEF Trees
    <3> QED  BY <1>1, <2>2, <3>1, <3>2, KeptPushed, KeptPush DEF AllInv, TypeInv, record
  <2> QED  BY <1>3, <2>1, <2>2
<1>5. HeadsInv' /\ ChecksInv'
  BY <1>1 DEF AllInv, HeadsInv, ChecksInv, record
<1>6. UnderWay' = UnderWay /\ Moved' = Moved /\ Fallback' = Fallback
  BY <1>1 DEF UnderWay, Moved, Fallback, record
<1>7. BeforeInv'
  BY <1>1, <1>2, <1>4, <1>6 DEF AllInv, BeforeInv, record
<1>8. PlaceInv'
  <2>1. pc \in {"note source", "note destination"} => UNCHANGED stash
    BY <1>3
  <2> QED  BY <1>1, <1>2, <1>4, <1>6, <2>1 DEF AllInv, PlaceInv, record, Trees
<1>9. BackInv'
  BY <1>1, <1>2, <1>4, <1>6 DEF AllInv, BackInv, Damaged, record, Trees
<1> QED  BY <1>4, <1>5, <1>7, <1>8, <1>9 DEF AllInv

\* An operation begins with nothing put away, and its journal comes with the
\* record of what was there.
LEMMA StartStep == ASSUME TypeInv, AllInv, Start PROVE AllInv'
<1>1. /\ status' = "running" /\ ~journal'.prepared /\ comments' # "target" /\ UNCHANGED <<head, stash>>
  BY DEF Start, NoJournal, git
<1>2. count.tries \in Nat /\ count'.tries = count.tries + 1
  BY DEF Start, Counted, TypeInv, TypeOK, GitOK, Counters
<1>3. \A i \in DOMAIN stash' : stash'[i].mark[1] <= count.tries /\ stash'[i].mark[1] \in Nat
  <2> TAKE i \in DOMAIN stash'
  <2>1. stash[i] \in Stashes /\ stash[i].mark[1] <= count.tries
    BY <1>1, StashType DEF AllInv, KeptInv, TypeInv
  <2> QED  BY <1>1, <2>1 DEF Stashes
<1>4. KeptInv'
  <2>1. \A t \in Trees : ~Kept(t)'
    BY <1>2, <1>3 DEF Kept
  <2>2. \A i \in DOMAIN stash' : stash'[i].mark[1] <= count'.tries
    BY <1>2, <1>3
  <2> QED  BY <1>1, <2>1, <2>2 DEF KeptInv, UnderWay
<1> QED  BY <1>1, <1>4 DEF AllInv, HeadsInv, ChecksInv, BeforeInv, PlaceInv, BackInv, UnderWay

LEMMA InspectStep == ASSUME TypeInv, StatusInv, AllInv, Inspect PROVE AllInv'
<1> DEFINE begun == [NoJournal EXCEPT !.prepared = TRUE, !.dest = head["destination"]]
<1>1. /\ begun.prepared /\ begun.dest = head["destination"] /\ \A t \in Trees : begun.oid[t] = 0
  BY DEF NoJournal
<1> HIDE DEF begun
<1>2. /\ journal' = begun /\ UNCHANGED <<status, comments, head, tree, stash, count, dir>>
      /\ before' = [head |-> head, tree |-> tree, comments |-> comments]
      /\ pc = "inspect" /\ pc' = "push source" /\ head["source"] = "feature"
      /\ dir = "back" => tree["destination"] = {}
  BY DEF Inspect, begun, Goes, git, rest
<1>3. status = "running" /\ ~journal.prepared
  BY <1>2 DEF StatusInv, AllInv, ChecksInv, Checks
<1>4. \A t \in Trees : ~Kept(t)' /\ ~Kept(t)
  BY <1>2, <1>3 DEF AllInv, KeptInv, Kept
<1>5. KeptInv'
  <2>1. \A i \in DOMAIN stash' : stash'[i].mark[1] <= count'.tries
    BY <1>2 DEF AllInv, KeptInv
  <2>2. \A t \in Trees : \A i \in DOMAIN stash' : stash'[i].mark # <<count'.tries, t>>
    BY <1>4 DEF Kept
  <2> QED  BY <1>1, <1>2, <1>4, <2>1, <2>2 DEF KeptInv
<1>6. /\ before'.head = head /\ before'.tree = tree /\ before'.comments = comments
      /\ head["destination"] # "feature" /\ comments # "target"
  BY <1>2, <1>3 DEF AllInv, HeadsInv, BeforeInv, Branches
<1>7. HeadsInv' /\ ChecksInv' /\ BeforeInv'
  BY <1>1, <1>2, <1>6 DEF AllInv, HeadsInv, ChecksInv, BeforeInv, Checks, UnderWay
<1>8. PlaceInv' /\ BackInv'
  BY <1>1, <1>2, <1>6 DEF PlaceInv, BackInv, BeforeRelease, Moves, UnderWay
<1> QED  BY <1>5, <1>7, <1>8 DEF AllInv

\* A rollback begins again, or for the first time after a crash.
LEMMA RecoverStep == ASSUME StatusInv, AllInv, Recover PROVE AllInv'
<1>1. /\ UNCHANGED <<status, journal, comments, fork, head, tree, stash, before, count, dir>>
      /\ pc = "off" /\ ok' /\ pc' = IF journal.prepared THEN "undo" ELSE "undone"
  BY DEF Recover, record, git, rest
<1>2. KeptInv' /\ \A t \in Trees : Kept(t)' <=> Kept(t)
  BY <1>1, KeptStays DEF AllInv
<1>3. UnderWay' = UnderWay /\ Moved' = Moved /\ Fallback' = Fallback
  BY <1>1 DEF UnderWay, Moved, Fallback
<1>4. HeadsInv' /\ ChecksInv' /\ BeforeInv'
  BY <1>1, <1>2, <1>3 DEF AllInv, HeadsInv, ChecksInv, BeforeInv, Checks
<1>5. PlaceInv' /\ BackInv'
  BY <1>1, <1>2, <1>3 DEF AllInv, PlaceInv, BackInv, Damaged, Moves, Trees, UnderWay
<1> QED  BY <1>2, <1>4, <1>5 DEF AllInv

\* Wherever the transfer is left, a rollback has what it needs.
LEMMA Returnable ==
  ASSUME AllInv, UnderWay, pc \in Moves
  PROVE  /\ head["source"] \in {"feature", Fallback} /\ head["destination"] \in {"feature", journal.dest}
         /\ tree["source"] \in {{}, before.tree["source"]}
         /\ Moved => before.tree["destination"] = {} \/ Kept("destination")
         /\ Moved => pc \notin BeforeRelease \cup {"take"}
         /\ ~Damaged
BY DEF AllInv, BeforeInv, PlaceInv, BeforeRelease, Moves, Moved, Damaged, Trees

\* A command fails: the rollback begins with everything in its reach.
LEMMA ThrowsStep == ASSUME TypeInv, StatusInv, JournalInv, StillInv, AllInv, Throws PROVE AllInv'
<1>1. /\ UNCHANGED <<status, journal, head, tree, stash, before, dir>>
      /\ pc \in Moves /\ pc' = "undo" /\ ok' /\ ForkGone
      /\ count'.tries = count.tries
  BY DEF Throws, Trouble, Counted, git, rest, TypeInv, TypeOK, GitOK, Counters
<1>2. KeptInv' /\ \A t \in Trees : Kept(t)' <=> Kept(t)
  BY <1>1, KeptStays DEF AllInv
<1>3. UnderWay /\ UnderWay' /\ Moved' = Moved /\ Fallback' = Fallback
  BY <1>1 DEF UnderWay, Moved, Fallback, StatusInv, JournalInv
<1>4. HeadsInv' /\ ChecksInv' /\ BeforeInv'
  BY <1>1, <1>2, <1>3 DEF AllInv, HeadsInv, ChecksInv, BeforeInv, Checks, ForkGone, UnderWay
<1>5. Moved => count'.troubles >= 1
  <2>1. Trouble => count'.troubles >= 1
    BY DEF Trouble, Counted, TypeInv, TypeOK, GitOK, Counters
  <2>2. ASSUME Moved PROVE Trouble
    <3>1. turn = "none" /\ pc # "release" /\ pc # "take"
      BY <1>1, <1>3, <2>2, Returnable DEF StillInv, StillWhileMoved, UnderWay, BeforeRelease
    <3> QED  BY <3>1 DEF Throws
  <2> QED  BY <2>1, <2>2
<1>6. PlaceInv' /\ BackInv'
  BY <1>1, <1>2, <1>3, <1>5, Returnable DEF PlaceInv, BackInv, Damaged, Moves, Trees
<1> QED  BY <1>2, <1>4, <1>6 DEF AllInv

\* So it does when the agent has died, unless the rollback had damaged something.
LEMMA CrashStep == ASSUME TypeInv, StatusInv, AllInv, Crash PROVE AllInv'
<1>1. /\ UNCHANGED <<status, journal, comments, fork, head, tree, stash, before, dir>>
      /\ pc' = "off" /\ ok'
  BY DEF Crash, record, git
<1>2. count.troubles \in Nat /\ count'.tries = count.tries /\ count.troubles < MaxTroubles
      /\ count'.troubles = count.troubles + 1
  BY DEF Crash, Trouble, Counted, TypeInv, TypeOK, GitOK, Counters
<1>3. CASE ~UnderWay
  BY <1>1, <1>2, <1>3, Idle DEF UnderWay, Checks
<1>4. CASE UnderWay
  <2>1. KeptInv' /\ \A t \in Trees : Kept(t)' <=> Kept(t)
    BY <1>1, <1>2, KeptStays DEF AllInv
  <2>2. UnderWay' /\ Moved' = Moved /\ Fallback' = Fallback
    BY <1>1, <1>4 DEF UnderWay, Moved, Fallback
  <2>3. HeadsInv' /\ ChecksInv' /\ BeforeInv'
    BY <1>1, <2>1, <1>4, <2>2 DEF AllInv, HeadsInv, ChecksInv, BeforeInv, Checks, UnderWay
  <2>4. Damaged => count'.troubles >= 3
    <3>1. count.troubles >= 2 => count'.troubles >= 3
      BY <1>2
    <3>2. count.troubles >= 3 => count.troubles >= 2
      BY <1>2
    <3> QED  BY <1>4, <3>1, <3>2, Returnable DEF AllInv, BackInv
  <2>5. PlaceInv' /\ BackInv'
    <3>1. /\ head["source"] \in {"feature", Fallback} /\ head["destination"] \in {"feature", journal.dest}
          /\ tree["source"] \in {{}, before.tree["source"]}
          /\ Moved => before.tree["destination"] = {} \/ Kept("destination")
      BY <1>4, Returnable DEF AllInv, BackInv
    <3>2. count'.troubles >= 1
      BY <1>2
    <3> QED  BY <1>1, <1>2, <2>1, <2>2, <2>4, <3>1, <3>2 DEF PlaceInv, BackInv, Damaged, Moves, Trees
  <2> QED  BY <2>1, <2>3, <2>5 DEF AllInv
<1> QED  BY <1>3, <1>4

\* Facts that the provers find only out of their context.
LEMMA NotAbove == ASSUME NEW n \in Nat PROVE n <= n
OBVIOUS

LEMMA HeadIsFirst ==
  ASSUME NEW S, NEW s \in Seq(S), s # <<>>
  PROVE  1 \in DOMAIN s /\ Head(s) = s[1]
<1>1. Len(s) \in Nat /\ DOMAIN s = 1..Len(s) /\ Len(s) # 0
  BY LenProperties, EmptySeq
<1> QED  BY <1>1

\* The transfer: the edits are put away, one tree after the other.
LEMMA PushStep ==
  ASSUME TypeInv, StatusInv, JournalInv, AllInv,
         NEW t \in Trees, NEW p, NEW q, NEW next, Push(t, p, q, next),
         \/ /\ t = "source" /\ p = "push source" /\ q = "note source"
            /\ next = IF dir = "out" THEN "push destination" ELSE "release"
         \/ t = "destination" /\ p = "push destination" /\ q = "note destination" /\ next = "release"
  PROVE  AllInv'
<1>1. /\ UNCHANGED <<status, journal, comments, fork, head, before, dir>>
      /\ pc = p /\ pc' \in {q, next} /\ pc \in Moves /\ pc' \in Moves /\ count'.tries = count.tries
      /\ \A u \in Trees \ {t} : tree'[u] = tree[u]
  BY DEF Push, record, git, rest, Moves, Counted, TypeInv, TypeOK, GitOK, Counters
<1>2. UnderWay /\ UnderWay' /\ Moved' = Moved /\ Fallback' = Fallback
  BY <1>1 DEF UnderWay, Moved, Fallback, StatusInv, JournalInv
<1>3. tree[t] = before.tree[t] /\ count.tries \in Nat
  BY <1>1, <1>2 DEF AllInv, PlaceInv, TypeInv, TypeOK, GitOK, Counters
<1>4. CASE tree[t] = {} /\ pc' = next /\ UNCHANGED <<git, count>>
  <2>1. KeptInv' /\ \A u \in Trees : Kept(u)' <=> Kept(u)
    BY <1>1, <1>4, KeptStays DEF AllInv, git
  <2>2. HeadsInv' /\ ChecksInv' /\ BeforeInv' /\ BackInv'
    BY <1>1, <1>2, <1>4, <2>1 DEF AllInv, HeadsInv, ChecksInv, BeforeInv, BackInv, git, UnderWay, Checks, Moves
  <2>3. PlaceInv'
    BY <1>1, <1>2, <1>3, <1>4, <2>1 DEF AllInv, BeforeInv, PlaceInv, git, BeforeRelease, Trees, TypeInv, TypeOK, MemoryOK
  <2> QED  BY <2>1, <2>2, <2>3 DEF AllInv
<1>5. CASE /\ tree[t] # {} /\ pc' = q /\ stash' = Pushed(<<count.tries, t>>, tree[t])
           /\ tree' = [tree EXCEPT ![t] = {}]
  <2>1. <<count.tries, t>> \in Marks /\ <<count.tries, t>>[1] <= count.tries
    <3>1. t \in Trees \cup {"rollback", "other"} /\ <<count.tries, t>>[1] = count.tries
      OBVIOUS
    <3>2. <<count.tries, t>> \in Marks
      BY <1>3, <3>1 DEF Marks
    <3>3. count.tries <= count.tries
      BY <1>3, NotAbove
    <3> QED  BY <3>1, <3>2, <3>3
  <2>2. \A u \in Trees : <<count.tries, t>> = <<count.tries, u>> => u = t
    OBVIOUS
  <2>3. KeptInv'
    BY <1>1, <1>2, <1>3, <1>5, <2>1, <2>2, KeptPush DEF AllInv, TypeInv
  <2>4. Kept(t)' /\ (\A u \in Trees : Kept(u) => Kept(u)') /\ stash'[1].mark = <<count.tries, t>>
    BY <1>1, <1>5, <2>1, KeptPushed DEF TypeInv
  <2>5. tree'[t] = {}
    BY <1>5 DEF TypeInv, TypeOK, GitOK
  <2>6. HeadsInv' /\ ChecksInv' /\ BeforeInv' /\ BackInv'
    BY <1>1, <1>2, <1>5, <2>4, <2>5 DEF AllInv, HeadsInv, ChecksInv, BeforeInv, BackInv, UnderWay, Checks, Moves
  <2>7. PlaceInv'
    BY <1>1, <1>2, <1>3, <1>5, <2>4, <2>5 DEF AllInv, PlaceInv, BeforeRelease, Trees
  <2> QED  BY <2>3, <2>6, <2>7 DEF AllInv
<1> QED  BY <1>4, <1>5 DEF Push

\* The latest stash, which the journal notes, is the operation's own.
LEMMA NoteStep ==
  ASSUME TypeInv, StatusInv, JournalInv, AllInv, NEW t \in Trees, NEW p, NEW next, Note(t, p, next),
         \/ /\ t = "source" /\ p = "note source"
            /\ next = IF dir = "out" THEN "push destination" ELSE "release"
         \/ t = "destination" /\ p = "note destination" /\ next = "release"
  PROVE  AllInv'
<1>1. /\ UNCHANGED <<status, comments, fork, head, tree, stash, before, dir, count>>
      /\ pc = p /\ pc' = next /\ pc \in Moves /\ pc' \in Moves
      /\ journal' = [journal EXCEPT !.oid[t] = Head(stash).id]
  BY DEF Note, Goes, git, rest, Moves
<1>2. /\ journal'.prepared = journal.prepared /\ journal'.dest = journal.dest
      /\ journal'.oid[t] = Head(stash).id /\ \A u \in Trees \ {t} : journal'.oid[u] = journal.oid[u]
  BY <1>1 DEF TypeInv, TypeOK, RecordOK
<1>3. UnderWay /\ UnderWay' /\ Moved' = Moved /\ Fallback' = Fallback
  BY <1>1, <1>2 DEF UnderWay, Moved, Fallback, StatusInv, JournalInv
<1>4. (\A u \in Trees : Kept(u)' <=> Kept(u)) /\ \A n : Has(n)' = Has(n)
  BY <1>1 DEF Kept, Has
<1>5. stash # <<>> /\ 1 \in DOMAIN stash /\ Head(stash) = stash[1] /\ stash[1].mark = <<count.tries, t>>
  <2>1. stash # <<>> /\ stash \in Seq(Stashes)
    BY <1>1 DEF TypeInv, NoteInv, TypeOK, GitOK
  <2>2. 1 \in DOMAIN stash /\ Head(stash) = stash[1]
    BY <2>1, HeadIsFirst
  <2>3. stash[1].mark = <<count.tries, t>>
    BY <1>1, <1>3 DEF AllInv, PlaceInv
  <2> QED  BY <2>1, <2>2, <2>3
<1>6. Kept(t) /\ Has(stash[1].id) = before.tree[t] /\ stash[1].id # 0
  <2>1. stash[1].id \in 1..count.pushes /\ count.pushes \in Nat
    BY <1>5, StashType DEF Stashes, TypeInv, TypeOK, GitOK, Counters
  <2>2. stash[1].id # 0
    BY <2>1, WiderRange
  <2> QED  BY <1>3, <1>5, <2>2 DEF AllInv, KeptInv, Kept
<1>7. KeptInv'
  <2>1. ASSUME NEW u \in Trees, journal'.oid[u] # 0 PROVE Kept(u)' /\ Has(journal.oid[u])' = before'.tree[u]
    <3>1. Has(journal.oid[u])' = UNION {stash[i].has : i \in {j \in DOMAIN stash : stash[j].id = journal'.oid[u]}}
      BY <1>1 DEF Has
    <3>2. CASE u = t
      <4>1. Has(stash[1].id) = UNION {stash[i].has : i \in {j \in DOMAIN stash : stash[j].id = stash[1].id}}
        BY DEF Has
      <4> QED  BY <1>1, <1>2, <1>4, <1>5, <1>6, <3>1, <3>2, <4>1
    <3>3. CASE u # t
      <4>1. Has(journal.oid[u]) = UNION {stash[i].has : i \in {j \in DOMAIN stash : stash[j].id = journal.oid[u]}}
        BY DEF Has
      <4>2. journal'.oid[u] = journal.oid[u]
        BY <1>2, <3>3
      <4>3. Kept(u) /\ Has(journal.oid[u]) = before.tree[u]
        BY <1>3, <2>1, <4>2 DEF AllInv, KeptInv
      <4> QED  BY <1>1, <1>4, <3>1, <4>1, <4>2, <4>3
    <3> QED  BY <3>2, <3>3
  <2>2. \A i \in DOMAIN stash : Has(stash[i].id)' = Has(stash[i].id)
    BY <1>1 DEF Has
  <2> QED  BY <1>1, <1>2, <1>3, <1>4, <2>1, <2>2 DEF AllInv, KeptInv, UnderWay
<1>8. HeadsInv' /\ ChecksInv' /\ BeforeInv' /\ BackInv'
  BY <1>1, <1>2, <1>3, <1>4 DEF AllInv, HeadsInv, ChecksInv, BeforeInv, BackInv, UnderWay, Checks, Moves
<1>9. PlaceInv'
  BY <1>1, <1>2, <1>3, <1>4, <1>5, <1>6 DEF AllInv, PlaceInv, BeforeInv, BeforeRelease, Trees, TypeInv, TypeOK, MemoryOK
<1> QED  BY <1>7, <1>8, <1>9 DEF AllInv

\* The transfer: the branch goes over, and the edits, the conversation and its
\* comments after it.
LEMMA MoveSteps ==
  ASSUME TypeInv, StatusInv, JournalInv, AllInv,
         Release \/ Take \/ ApplySource \/ ApplyDestination \/ Fork \/ MoveComments
  PROVE  AllInv'
<1>1. /\ UNCHANGED <<status, stash, before, dir, count>>
      /\ pc \in Moves /\ pc' \in Moves /\ pc \notin Checks /\ pc' \notin Checks
      /\ journal'.prepared = journal.prepared /\ journal'.oid = journal.oid /\ journal'.dest = journal.dest
  BY DEF Release, Take, ApplySource, ApplyDestination, Fork, MoveComments, Goes, record, git, rest,
         Moves, Checks, TypeInv, TypeOK, RecordOK
<1>2. UnderWay /\ UnderWay' /\ Fallback' = Fallback
  BY <1>1 DEF UnderWay, Fallback, StatusInv, JournalInv
<1>3. KeptInv' /\ \A t \in Trees : Kept(t)' <=> Kept(t)
  BY <1>1, KeptStays DEF AllInv
<1>4. ChecksInv' /\ BackInv'
  BY <1>1 DEF ChecksInv, BackInv
<1>5. head \in [Trees -> Refs] /\ tree \in [Trees -> SUBSET edits]
  BY DEF TypeInv, TypeOK, GitOK
<1>6. CASE Release
  <2>1. /\ pc = "release" /\ pc' = "take" /\ UNCHANGED <<comments, fork, tree, journal>>
        /\ head'["source"] = Fallback /\ head'["destination"] = head["destination"]
        /\ Fallback \in Branches => head["destination"] # Fallback
    BY <1>5, <1>6 DEF Release, Goes, record, Free, Trees
  <2>2. HeadsInv' /\ BeforeInv'
    BY <1>1, <1>2, <1>3, <2>1 DEF AllInv, HeadsInv, BeforeInv, UnderWay
  <2>3. PlaceInv'
    BY <1>1, <1>2, <1>3, <2>1 DEF AllInv, BeforeInv, PlaceInv, BeforeRelease, Trees
  <2> QED  BY <1>3, <1>4, <2>2, <2>3 DEF AllInv
<1>7. CASE Take
  <2>1. /\ pc = "take" /\ pc' = "apply source" /\ UNCHANGED <<comments, fork, tree, journal>>
        /\ head'["source"] = head["source"] /\ head'["destination"] = "feature"
        /\ head["source"] # "feature"
    BY <1>5, <1>7 DEF Take, Goes, record, Free, Trees, Branches
  <2>2. HeadsInv' /\ BeforeInv'
    BY <1>1, <1>2, <1>3, <2>1 DEF AllInv, HeadsInv, BeforeInv, UnderWay
  <2>3. PlaceInv'
    BY <1>1, <1>2, <1>3, <2>1 DEF AllInv, PlaceInv, BeforeRelease, Trees
  <2> QED  BY <1>3, <1>4, <2>2, <2>3 DEF AllInv
<1>8. CASE ApplySource
  <2>1. /\ pc = "apply source" /\ pc' = "apply destination" /\ UNCHANGED <<comments, fork, head, journal>>
        /\ tree' = IF journal.oid["source"] = 0 THEN tree ELSE Applied("source")
    BY <1>8 DEF ApplySource, Goes, record
  <2>2. /\ tree["source"] = {} /\ tree["destination"] = {}
        /\ before.tree["source"] # {} => journal.oid["source"] # 0
        /\ journal.oid["source"] # 0 => Has(journal.oid["source"]) = before.tree["source"]
    BY <1>2, <2>1 DEF AllInv, PlaceInv, KeptInv, Moves, Trees
  <2>3. tree'["source"] = {} /\ tree'["destination"] = before.tree["source"]
    BY <1>5, <2>1, <2>2 DEF Applied, Trees
  <2>4. HeadsInv' /\ BeforeInv'
    BY <1>1, <1>2, <1>3, <2>1, <2>2, <2>3 DEF AllInv, HeadsInv, BeforeInv, UnderWay, Trees
  <2>5. PlaceInv'
    BY <1>1, <1>2, <1>3, <2>1, <2>3 DEF AllInv, PlaceInv, BeforeRelease, Trees
  <2> QED  BY <1>3, <1>4, <2>4, <2>5 DEF AllInv
<1>9. CASE ApplyDestination
  <2>1. /\ pc = "apply destination" /\ pc' = "fork" /\ UNCHANGED <<comments, fork, head>>
        /\ tree' = tree \/ tree' = Applied("destination")
    BY <1>9 DEF ApplyDestination, Goes
  <2>2. tree["source"] = {} /\ tree["destination"] = before.tree["source"]
        /\ (before.tree["destination"] = {} \/ Kept("destination"))
    BY <1>2, <2>1 DEF AllInv, PlaceInv, Moves
  <2>3. tree'["source"] = {} /\ before.tree["source"] \subseteq tree'["destination"]
    BY <1>5, <2>1, <2>2 DEF Applied, Trees
  <2>4. HeadsInv' /\ BeforeInv'
    BY <1>1, <1>2, <1>3, <2>1, <2>2, <2>3 DEF AllInv, HeadsInv, BeforeInv, UnderWay, Trees
  <2>5. PlaceInv'
    BY <1>1, <1>2, <1>3, <2>1, <2>3 DEF AllInv, PlaceInv, BeforeRelease, Trees
  <2> QED  BY <1>3, <1>4, <2>4, <2>5 DEF AllInv
<1>10. CASE Fork \/ MoveComments
  <2>1. /\ \/ pc = "fork" /\ pc' = "comments" /\ fork' = "hidden" /\ comments' = comments
           \/ pc = "comments" /\ pc' = "bind" /\ fork' = fork
              /\ comments' = IF comments = "source" THEN "target" ELSE comments
        /\ UNCHANGED <<head, tree, journal>>
    BY <1>10 DEF Fork, MoveComments, Goes, git
  <2>2. HeadsInv' /\ BeforeInv'
    BY <1>1, <1>2, <1>3, <2>1 DEF AllInv, HeadsInv, BeforeInv, UnderWay
  <2>3. PlaceInv'
    BY <1>1, <1>2, <1>3, <2>1 DEF AllInv, PlaceInv, BeforeRelease, Trees
  <2> QED  BY <1>3, <1>4, <2>2, <2>3 DEF AllInv
<1> QED  BY <1>6, <1>7, <1>8, <1>9, <1>10

\* No trouble is forgotten.
NoFewer ==
  /\ count.troubles >= 1 => count'.troubles >= 1
  /\ count.troubles >= 2 => count'.troubles >= 2
  /\ count.troubles >= 3 => count'.troubles >= 3

LEMMA TroubleCounts ==
  ASSUME TypeOK, Trouble
  PROVE  /\ count'.tries = count.tries /\ count'.troubles >= 1 /\ NoFewer
         /\ count.troubles >= 1 => count'.troubles >= 2
BY DEF Trouble, Counted, TypeOK, GitOK, Counters, NoFewer

\* The rollback puts aside what the transfer left in the destination.
LEMMA PutAsideStep == ASSUME TypeInv, StatusInv, JournalInv, AllInv, PutAside PROVE AllInv'
<1>1. /\ UNCHANGED <<status, journal, comments, fork, head, before, dir>>
      /\ pc = "undo" /\ pc' = "undo destination" /\ tree'["source"] = tree["source"]
      /\ count'.tries = count.tries
  <2>1. Trouble => count'.tries = count.tries
    BY TroubleCounts DEF TypeInv
  <2>2. Counted("pushes").tries = count.tries
    BY DEF Counted, TypeInv, TypeOK, GitOK, Counters
  <2>3. [tree EXCEPT !["destination"] = {}]["source"] = tree["source"]
    BY DEF TypeInv, TypeOK, GitOK, Trees
  <2> QED  BY <2>1, <2>2, <2>3 DEF PutAside, Goes, record, rest, Fails, Works
<1>2. UnderWay /\ UnderWay' /\ Moved' = Moved /\ Fallback' = Fallback
  BY <1>1 DEF UnderWay, Moved, Fallback, StatusInv, JournalInv, Undoes
<1>3. /\ ok /\ (Damaged => count.troubles >= 3) /\ (Moved => count.troubles >= 1)
      /\ Moved => before.tree["destination"] = {} \/ Kept("destination")
  BY <1>1, <1>2 DEF AllInv, BackInv, Moves
<1>4. CASE /\ Moved /\ stash' = Pushed(<<count.tries, "rollback">>, tree["destination"])
           /\ tree' = [tree EXCEPT !["destination"] = {}]
           /\ count' = Counted("pushes") /\ UNCHANGED ok
  <2>1. <<count.tries, "rollback">> \in Marks /\ <<count.tries, "rollback">>[1] <= count.tries
    <3>1. count.tries \in Nat
      BY DEF TypeInv, TypeOK, GitOK, Counters
    <3>2. <<count.tries, "rollback">> \in Marks /\ <<count.tries, "rollback">>[1] = count.tries
      BY <3>1 DEF Marks
    <3> QED  BY <3>1, <3>2, NotAbove
  <2>2. \A t \in Trees : <<count.tries, "rollback">> # <<count.tries, t>>
    BY DEF Trees
  <2>3. KeptInv' /\ \A t \in Trees : Kept(t)' <=> Kept(t)
    BY <1>1, <1>4, <2>1, <2>2, KeptPush, KeptPushed DEF AllInv, TypeInv
  <2>4. tree'["destination"] = {} /\ count'.troubles = count.troubles
    BY <1>4 DEF TypeInv, TypeOK, GitOK, Counted, Counters, Trees
  <2>5. HeadsInv' /\ ChecksInv' /\ PlaceInv'
    BY <1>1 DEF AllInv, HeadsInv, ChecksInv, PlaceInv, Checks, Moves
  <2>6. BeforeInv'
    BY <1>1, <1>2, <1>3, <1>4, <2>3, <2>4 DEF AllInv, BeforeInv, UnderWay, Trees
  <2>7. BackInv'
    BY <1>1, <1>2, <1>3, <1>4, <2>3, <2>4 DEF AllInv, BackInv, Damaged, Moves, Trees
  <2> QED  BY <2>3, <2>5, <2>6, <2>7 DEF AllInv
<1>5. CASE /\ UNCHANGED <<tree, stash>>
           /\ \/ Moved /\ Fails
              \/ (Moved => tree["destination"] = {}) /\ Works
  <2>1. KeptInv' /\ \A t \in Trees : Kept(t)' <=> Kept(t)
    BY <1>1, <1>5, KeptStays DEF AllInv
  <2>2. /\ NoFewer
        /\ \/ Moved /\ ~ok' /\ count'.troubles >= 2
           \/ (Moved => tree["destination"] = {}) /\ ok'
    BY <1>3, <1>5, TroubleCounts DEF Fails, Works, TypeInv, NoFewer
  <2>3. HeadsInv' /\ ChecksInv' /\ PlaceInv' /\ BeforeInv'
    BY <1>1, <1>2, <1>5, <2>1 DEF AllInv, HeadsInv, ChecksInv, PlaceInv, BeforeInv, Checks, Moves, UnderWay
  <2>4. BackInv'
    BY <1>1, <1>2, <1>3, <1>5, <2>1, <2>2 DEF AllInv, BackInv, Damaged, Moves, Trees, NoFewer
  <2> QED  BY <2>1, <2>3, <2>4 DEF AllInv
<1> QED  BY <1>4, <1>5 DEF PutAside

\* The branches go back, the destination's first.
LEMMA CheckoutStep ==
  ASSUME TypeInv, StatusInv, JournalInv, AllInv,
         \/ Checkout("destination", journal.dest, "undo destination", "undo source")
         \/ Checkout("source", "feature", "undo source", "reapply source")
  PROVE  AllInv'
<1>1. /\ UNCHANGED <<status, journal, comments, fork, tree, stash, before, dir>>
      /\ \/ pc = "undo destination" /\ pc' = "undo source"
         \/ pc = "undo source" /\ pc' = "reapply source"
      /\ count'.tries = count.tries
      /\ NoFewer
  <2>1. Trouble => count'.tries = count.tries /\ NoFewer
    BY TroubleCounts DEF TypeInv
  <2>2. UNCHANGED count => NoFewer
    BY DEF NoFewer
  <2> QED  BY <2>1, <2>2 DEF Checkout, Goes, record, rest, Fails, Works
<1>2. UnderWay /\ UnderWay' /\ Fallback' = Fallback
  BY <1>1 DEF UnderWay, Fallback, StatusInv, JournalInv, Undoes
<1>3. KeptInv' /\ \A t \in Trees : Kept(t)' <=> Kept(t)
  BY <1>1, KeptStays DEF AllInv
<1>4. ChecksInv' /\ PlaceInv' /\ BeforeInv'
  BY <1>1, <1>2, <1>3 DEF AllInv, ChecksInv, PlaceInv, BeforeInv, Checks, Moves, UnderWay
<1>5. head \in [Trees -> Refs] /\ (Moved <=> head["destination"] # journal.dest)
      /\ (Moved' <=> head'["destination"] # journal.dest)
  BY <1>1 DEF TypeInv, TypeOK, GitOK, Moved
<1>6. CASE Checkout("destination", journal.dest, "undo destination", "undo source")
  <2>1. /\ pc = "undo destination" /\ pc' = "undo source"
        /\ head'["source"] = head["source"]
        /\ \/ head'["destination"] = journal.dest /\ ok' = ok
              /\ (journal.dest \in Branches => head["source"] # journal.dest)
           \/ head' = head /\ ~ok'
    BY <1>5, <1>6 DEF Checkout, Goes, Free, Trees, Fails, Works
  <2>2. HeadsInv'
    BY <2>1 DEF AllInv, HeadsInv
  <2>3. BackInv'
    BY <1>1, <1>2, <1>3, <1>5, <2>1 DEF AllInv, BackInv, Damaged, Moves, Trees, NoFewer
  <2> QED  BY <1>3, <1>4, <2>2, <2>3 DEF AllInv
<1>7. CASE Checkout("source", "feature", "undo source", "reapply source")
  <2>1. /\ pc = "undo source" /\ pc' = "reapply source"
        /\ head'["destination"] = head["destination"]
        /\ \/ head'["source"] = "feature" /\ ok' = ok /\ head["destination"] # "feature"
           \/ head' = head /\ ~ok'
    BY <1>5, <1>7 DEF Checkout, Goes, Free, Trees, Branches, Fails, Works
  <2>2. HeadsInv'
    BY <2>1 DEF AllInv, HeadsInv
  <2>3. BackInv'
    BY <1>1, <1>2, <1>3, <1>5, <2>1 DEF AllInv, BackInv, Damaged, Moves, Trees, NoFewer
  <2> QED  BY <1>3, <1>4, <2>2, <2>3 DEF AllInv
<1> QED  BY <1>6, <1>7

\* What was put away comes back, and is all the tree had.
LEMMA ReapplyStep ==
  ASSUME TypeInv, StatusInv, JournalInv, AllInv, NEW t \in Trees, NEW p, NEW q, Reapply(t, p, q),
         \/ t = "source" /\ p = "reapply source" /\ q = "reapply destination"
         \/ t = "destination" /\ p = "reapply destination" /\ q = "undone"
  PROVE  AllInv'
<1>1. /\ UNCHANGED <<status, journal, comments, fork, head, stash, before, dir>>
      /\ pc = p /\ pc' = q /\ count'.tries = count.tries
      /\ NoFewer /\ (ok' = ok \/ ~ok')
      /\ \A u \in Trees \ {t} : tree'[u] = tree[u]
  <2>1. Trouble => count'.tries = count.tries /\ NoFewer
    BY TroubleCounts DEF TypeInv
  <2>3. UNCHANGED count => NoFewer
    BY DEF NoFewer
  <2>2. \A u \in Trees \ {t} : [tree EXCEPT ![t] = Has(StashOf(t))][u] = tree[u]
    BY DEF TypeInv, TypeOK, GitOK
  <2> QED  BY <2>1, <2>2, <2>3 DEF Reapply, Goes, record, rest, Fails, Works
<1>2. UnderWay /\ UnderWay' /\ Moved' = Moved /\ Fallback' = Fallback
  BY <1>1 DEF UnderWay, Moved, Fallback, StatusInv, JournalInv, Undoes
<1>3. KeptInv' /\ \A u \in Trees : Kept(u)' <=> Kept(u)
  BY <1>1, KeptStays DEF AllInv
<1>4. /\ StashOf(t) # 0 <=> Kept(t)
      /\ Kept(t) => Has(StashOf(t)) = before.tree[t]
  BY <1>2, FoundStash DEF AllInv, TypeInv
<1>5. tree[t] = {} /\ before.tree[t] # {} => Kept(t)
  BY <1>2 DEF AllInv, BeforeInv
<1>6. \/ tree'[t] = before.tree[t] /\ tree[t] = {}
      \/ tree'[t] = tree[t] /\ ~ok'
      \/ tree'[t] = tree[t] /\ (tree[t] # {} \/ before.tree[t] = {})
  <2>1. Kept(t) => [tree EXCEPT ![t] = Has(StashOf(t))][t] = before.tree[t]
    BY <1>4 DEF TypeInv, TypeOK, GitOK
  <2> QED  BY <1>4, <1>5, <2>1 DEF Reapply, Fails
<1>7. HeadsInv' /\ ChecksInv' /\ PlaceInv' /\ BeforeInv'
  BY <1>1, <1>2, <1>3, <1>6 DEF AllInv, HeadsInv, ChecksInv, PlaceInv, BeforeInv, Checks, Moves, UnderWay
<1>8. BackInv'
  <2>1. /\ tree["source"] \in {{}, before.tree["source"]}
        /\ Damaged => (~ok /\ count.troubles >= 2) \/ count.troubles >= 3
        /\ pc = "reapply destination" /\ ok => ~Moved
    BY <1>1, <1>2 DEF AllInv, BackInv, Moves
  <2>2. CASE t = "source"
    BY <1>1, <1>2, <1>3, <1>6, <2>1, <2>2 DEF AllInv, BackInv, Damaged, Moves, Trees, NoFewer
  <2>3. CASE t = "destination"
    BY <1>1, <1>2, <1>3, <1>6, <2>1, <2>3 DEF AllInv, BackInv, Damaged, Moves, Trees, NoFewer
  <2> QED  BY <2>2, <2>3
<1> QED  BY <1>3, <1>7, <1>8 DEF AllInv

LEMMA AllStep ==
  ASSUME ~Races, ~Meddles,
         TypeInv, JournalInv, StatusInv, StillInv, AllInv, [Next]_vars
  PROVE  AllInv'
<1>1. CASE \/ Preflight \/ StopSource \/ Prepare \/ Refuse \/ Acknowledge \/ Refinalize \/ Bind
           \/ RolledBack \/ RecoverNothing \/ Finalize
  BY <1>1, IdleSteps
<1>2. CASE Admit \/ CreateTurn \/ TurnEdits \/ TurnEnds \/ UserEdits \/ OtherPushes
  BY <1>2, OtherSteps
<1>3. CASE Start \/ Inspect \/ Recover \/ Throws \/ Crash
  BY <1>3, StartStep, InspectStep, RecoverStep, ThrowsStep, CrashStep
<1>4. CASE Capture
  <2> DEFINE then == IF dir = "out" THEN "push destination" ELSE "release"
  <2>1. CASE Push("source", "push source", "note source", then)
    BY <2>1, PushStep DEF Trees
  <2>2. CASE Push("destination", "push destination", "note destination", "release")
    BY <2>2, PushStep DEF Trees
  <2>3. CASE Note("source", "note source", then)
    BY <2>3, NoteStep DEF Trees
  <2>4. CASE Note("destination", "note destination", "release")
    BY <2>4, NoteStep DEF Trees
  <2> QED  BY <1>4, <2>1, <2>2, <2>3, <2>4 DEF Capture
<1>5. CASE Release \/ Take \/ ApplySource \/ ApplyDestination \/ Fork \/ MoveComments
  BY <1>5, MoveSteps
<1>6. CASE RollBack
  <2>1. CASE Reapply("source", "reapply source", "reapply destination")
    BY <2>1, ReapplyStep DEF Trees
  <2>2. CASE Reapply("destination", "reapply destination", "undone")
    BY <2>2, ReapplyStep DEF Trees
  <2> QED  BY <1>6, <2>1, <2>2, PutAsideStep, CheckoutStep DEF RollBack
<1>7. CASE UNCHANGED vars
  <2>1. UNCHANGED <<status, journal, fork, comments, head, tree, stash, pc, ok, before, count, dir>>
    BY <1>7 DEF vars, record, git, rest
  <2>2. KeptInv' /\ \A t \in Trees : Kept(t)' <=> Kept(t)
    BY <2>1, KeptStays DEF AllInv
  <2>3. UnderWay' = UnderWay /\ Moved' = Moved /\ Fallback' = Fallback
    BY <2>1 DEF UnderWay, Moved, Fallback
  <2>4. HeadsInv' /\ ChecksInv' /\ BeforeInv'
    BY <2>1, <2>2, <2>3 DEF AllInv, HeadsInv, ChecksInv, BeforeInv
  <2>5. PlaceInv'
    BY <2>1, <2>2, <2>3 DEF AllInv, PlaceInv, Trees
  <2>6. BackInv'
    BY <2>1, <2>2, <2>3 DEF AllInv, BackInv, Damaged, Trees
  <2> QED  BY <2>2, <2>4, <2>5, <2>6 DEF AllInv
<1> QED  BY <1>1, <1>2, <1>3, <1>4, <1>5, <1>6, <1>7 DEF Next, Operation, Restart

AllOrNone ==
  status = "running" =>
    /\ status' = "await" => HandedOver'
    /\ status' = "failed" /\ journal.prepared /\ count.troubles < 3 => Restored'

\* An operation is bound when everything has been handed over, and says that it has
\* failed when everything is back.
LEMMA EndIsWhole ==
  ASSUME TypeInv, JournalInv, StatusInv, AllInv, [Next]_vars
  PROVE  AllOrNone
<1> SUFFICES ASSUME status = "running", status' \in {"await", "failed"},
                    status' = "failed" => journal.prepared /\ count.troubles < 3
             PROVE  /\ status' = "await" => HandedOver'
                    /\ status' = "failed" => Restored'
  BY DEF AllOrNone
<1>1. head \in [Trees -> Refs] /\ before.head \in [Trees -> Refs] /\ tree \in [Trees -> SUBSET edits]
      /\ before.tree \in [Trees -> SUBSET edits]
  BY DEF TypeInv, TypeOK, GitOK
<1>2. \/ Bind /\ pc = "bind"
      \/ Refuse /\ pc \in Checks
      \/ RolledBack /\ pc = "undone"
  <2>1. status' # "running" /\ Next
    BY DEF vars, record
  <2>2. CASE Quiet
    BY <2>1, <2>2 DEF Quiet, Start, Preflight, StopSource, Prepare, Inspect, Refuse, Release, Take,
       Fork, MoveComments, Bind, Throws, RolledBack, Recover, RecoverNothing, Acknowledge, Refinalize,
       Clear, Crash, Admit, CreateTurn, TurnEnds, Goes, record
  <2>3. CASE Loud
    BY <2>1, <2>3 DEF Loud, Capture, Push, Note, ApplySource, ApplyDestination, RollBack, PutAside,
       Checkout, Reapply, Finalize, List, Drop, Clear, TurnEdits, UserEdits, Edit, OtherPushes, Goes, record
  <2> QED  BY <2>1, <2>2, <2>3, NextIsQuietOrLoud
<1>3. CASE Bind /\ pc = "bind"
  <2>1. UnderWay /\ pc \in Moves
    BY <1>3 DEF UnderWay, Moves, JournalInv
  <2>2. status' = "await" /\ UNCHANGED <<head, tree, stash, before, fork, comments>>
    BY <1>3 DEF Bind, git
  <2>3. /\ head["destination"] = "feature" /\ tree["source"] = {}
        /\ before.tree["source"] \subseteq tree["destination"]
        /\ before.tree["destination"] = {} \/ Kept("destination")
        /\ fork = "hidden" /\ comments # "source"
    BY <1>3, <2>1 DEF AllInv, PlaceInv, BeforeRelease
  <2>4. Kept("destination") => \E i \in DOMAIN stash : stash[i].has = before.tree["destination"]
    BY <2>1 DEF AllInv, KeptInv, Kept, Trees
  <2> QED  BY <2>2, <2>3, <2>4 DEF HandedOver
<1>4. CASE Refuse /\ pc \in Checks
  BY <1>4 DEF Refuse, AllInv, ChecksInv
<1>5. CASE RolledBack /\ pc = "undone"
  <2>1. /\ UNCHANGED <<head, tree, before>> /\ fork' = "none"
        /\ comments' = IF comments = "target" THEN "source" ELSE comments
        /\ status' = IF ok THEN "failed" ELSE "rollback-failed"
    BY <1>5 DEF RolledBack, ForkGone, git
  <2>2. UnderWay /\ ok /\ status' = "failed" /\ ~(count.troubles >= 3)
    BY <2>1 DEF UnderWay, TypeInv, TypeOK, GitOK, Counters
  <2>3. /\ head["source"] = before.head["source"] /\ head["destination"] = before.head["destination"]
        /\ tree["source"] = before.tree["source"] /\ tree["destination"] = before.tree["destination"]
        /\ before.comments # "target"
        /\ comments = before.comments \/ (before.comments = "source" /\ comments = "target")
    BY <1>5, <2>2 DEF AllInv, BackInv, BeforeInv, Moved, Moves
  <2>4. head = before.head /\ tree = before.tree
    BY <1>1, <2>3 DEF Trees
  <2> QED  BY <2>1, <2>2, <2>3, <2>4 DEF Restored
<1> QED  BY <1>2, <1>3, <1>4, <1>5

LEMMA InitAll == Init => AllInv
<1> SUFFICES ASSUME Init PROVE AllInv
  OBVIOUS
<1>1. /\ status = "none" /\ pc = "off" /\ head["source"] = "feature" /\ head["destination"] # "feature"
      /\ DOMAIN stash = {}
  BY DEF Init, Trees
<1> QED  BY <1>1 DEF AllInv, ChecksInv, HeadsInv, KeptInv, BeforeInv, PlaceInv, BackInv, UnderWay, Checks

\* However many operations, stashes of others, failures and crashes: what the client
\* is told to take over has been handed over as a whole, and an operation that failed
\* has restored everything, before the third trouble.  The third can break that: the
\* agent dies after a rollback that could not put the edits of the transfer aside,
\* and the next one takes them for the user's.
THEOREM WholeUntilThirdTrouble ==
  ASSUME ~SlowAdmission, ~Races, ~Meddles
  PROVE  Spec => [][status = "running" =>
                      /\ status' = "await" => HandedOver'
                      /\ status' = "failed" /\ journal.prepared /\ count.troubles < 3 => Restored']_vars
<1>1. Init => StillInv
  BY DEF Init, StillInv, StillWhileMoved, Locked
<1>2. TypeInv /\ JournalInv /\ StatusInv /\ StillInv /\ [Next]_vars => StillInv'
  <2>1. CASE Next
    BY <2>1, StillStep
  <2>2. CASE UNCHANGED vars
    BY <2>2 DEF vars, record, rest, StillInv, StillWhileMoved, Locked
  <2> QED  BY <2>1, <2>2
<1>3. TypeInv /\ JournalInv /\ StatusInv /\ StillInv /\ AllInv /\ [Next]_vars => AllInv'
  BY AllStep
<1>4. TypeInv /\ JournalInv /\ StatusInv /\ AllInv /\ [Next]_vars => [AllOrNone]_vars
  BY EndIsWhole
<1>5. Spec => []TypeInv /\ []JournalInv /\ []StatusInv /\ []StillInv /\ []AllInv
  BY <1>1, <1>2, <1>3, InitInv, InitAll, CoreStep, PTL DEF Spec
<1>6. Spec => [][AllOrNone]_vars
  BY <1>4, <1>5, PTL DEF Spec
<1> QED  BY <1>6 DEF AllOrNone

\* So a handoff is all or nothing when there are at most two troubles.
THEOREM WholeOrNotAtAll ==
  ASSUME ~SlowAdmission, ~Races, ~Meddles, MaxTroubles <= 2
  PROVE  Spec => AllOrNothing
<1> DEFINE Few == count.troubles < 3
<1>1. Init => Few
  BY DEF Init, Counters
<1>2. TypeInv /\ Few /\ [Next]_vars => Few'
  <2> SUFFICES ASSUME TypeInv, Few, [Next]_vars PROVE Few'
    OBVIOUS
  <2>1. count \in [Counters -> Nat] /\ MaxTroubles \in Nat
    BY HandoffAssumption DEF TypeInv, TypeOK, GitOK
  <2>2. Trouble => Few'
    BY <2>1 DEF Trouble, Counted, Counters
  <2>3. UNCHANGED count \/ count' = Counted("tries") \/ count' = Counted("pushes") => Few'
    BY <2>1 DEF Counted, Counters
  <2> HIDE DEF Few
  <2>4. CASE Quiet
    BY <2>2, <2>3, <2>4 DEF Quiet, Start, Preflight, StopSource, Prepare, Inspect, Refuse, Release, Take,
       Fork, MoveComments, Bind, Throws, RolledBack, Recover, RecoverNothing, Acknowledge, Refinalize,
       Clear, Crash, Admit, CreateTurn, TurnEnds
  <2>5. CASE OtherPushes
    BY <2>1, <2>5 DEF OtherPushes, Counters, Few
  <2>6. CASE Loud /\ ~OtherPushes
    BY <2>2, <2>3, <2>6 DEF Loud, Capture, Push, Note, ApplySource, ApplyDestination, RollBack, PutAside,
       Checkout, Reapply, Fails, Works, Finalize, List, Drop, Clear, TurnEdits, UserEdits, Edit
  <2>7. CASE UNCHANGED vars
    BY <2>3, <2>7 DEF vars
  <2> QED  BY <2>4, <2>5, <2>6, <2>7, NextIsQuietOrLoud
<1>3. Few /\ [status = "running" =>
              /\ status' = "await" => HandedOver'
              /\ status' = "failed" /\ journal.prepared /\ count.troubles < 3 => Restored']_vars
      => [status = "running" =>
              /\ status' = "await" => HandedOver'
              /\ status' = "failed" /\ journal.prepared => Restored']_vars
  OBVIOUS
<1>4. Spec => []TypeInv
  BY InitInv, CoreStep, PTL DEF Spec
<1>5. Spec => []Few
  <2> HIDE DEF Few
  <2> QED  BY <1>1, <1>2, <1>4, PTL DEF Spec
<1> HIDE DEF Few
<1> QED  BY <1>3, <1>5, WholeUntilThirdTrouble, PTL DEF AllOrNothing
=============================================================================
