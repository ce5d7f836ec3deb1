------------------------------- MODULE LogReader -------------------------------
(* The promise of the event stream to a view of one thread: whatever happens  *)
(* between the log and the view, the view always shows exactly the events of  *)
(* its stream up to some position of the log, and the position only moves     *)
(* forward unless the view forgets everything and starts again.               *)
EXTENDS Integers, Sequences

CONSTANTS
  Kinds,   \* what an event of the log can be about
  Mine     \* the kinds that belong to the stream of the view

VARIABLES
  log,     \* the events table: one kind per sequence number
  pos,     \* the position the view has reached
  shown    \* the sequence numbers whose events the view reflects

vars == <<log, pos, shown>>

(* The events of the stream with a sequence number up to n. *)
UpTo(n) == {i \in 1..n : log[i] \in Mine}

Init == log \in Seq(Kinds) /\ pos = 0 /\ shown = {}

Commit ==
  /\ \E k \in Kinds : log' = Append(log, k)
  /\ UNCHANGED <<pos, shown>>

Advance ==
  /\ pos' \in pos..Len(log)
  /\ shown' = UpTo(pos')
  /\ UNCHANGED log

Forget ==
  /\ pos' = 0
  /\ shown' = {}
  /\ UNCHANGED log

Next == Commit \/ Advance \/ Forget

Spec == Init /\ [][Next]_vars
=============================================================================
