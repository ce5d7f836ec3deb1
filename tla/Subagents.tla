-------------------------------- MODULE Subagents --------------------------------
(* The subagents of one parent turn: SubagentService with the rows of          *)
(* SubagentRepository, the executions the service has under way, and as much of *)
(* the parent turn as waiting for subagents touches.  A subagent (a task) has a *)
(* sequence of runs; a run may be executed several times, after an answer or a  *)
(* message.  The child's own turns and what the overlap of two runs does to the *)
(* parent's gate are left to TurnLifecycle; legacy worktrees are left out.      *)
EXTENDS Integers, FiniteSets, SequencesExt

CONSTANTS
  Tasks,         \* subagents the parent may create
  GlobalLimit,   \* runs that may be active at a time (6 in the code)
  ParentLimit,   \* tasks of one parent that may be active at a time (4)
  Hasty,         \* may a user answer or write to a subagent that has paused but
                 \* whose execution has not been unwound yet?
  MaxRuns,       \* bound: runs of all tasks
  MaxSends,      \* bound: messages to running subagents
  MaxWakes,      \* bound: wake-ups under way, launches under way, runs of the parent
  MaxCrashes     \* bound: crashes of the agent

ASSUME SubagentAssumption ==
  /\ GlobalLimit \in Nat \ {0} /\ ParentLimit \in Nat \ {0}
  /\ Hasty \in BOOLEAN /\ IsFiniteSet(Tasks)
  /\ MaxRuns \in Nat \ {0} /\ MaxWakes \in Nat \ {0}

VARIABLES
  born,      \* the runs in the order of their creation
  row,       \* subagent_runs.status, "none" before the run exists
  task,      \* subagent_tasks.status
  asks,      \* runs with a pending approval
  pend,      \* runs with a pending "send" control
  exec,      \* memory: the executions under way
  parent,    \* turns.status of the parent turn
  ckpt,      \* the parent's agent_checkpoint: the runs it waits for, and how
  atWork,    \* memory: runs of the parent turn at work
  wakes,     \* memory: calls of resumeSatisfiedParents under way
  launches,  \* memory: parents that are marked queued but not started yet
  steered,   \* history: subagents whose run was continued for a message
  sends, crashes   \* counters of the bounds

rows == <<born, row, task, asks, pend>>
par == <<parent, ckpt, atWork>>
wake == <<wakes, launches>>
bounds == <<sends, crashes>>
vars == <<rows, exec, par, wake, steered, bounds>>

Runs == Tasks \X (1..MaxRuns)
Execs == Runs \X {1, 2}   \* bound: two executions of a run under way at a time
Ended == {"completed", "failed", "stopped", "interrupted"}
ActiveStatus == {"running", "steering", "waiting"}
RunStatus == {"none", "queued"} \cup ActiveStatus \cup Ended
Idle == [pc |-> "idle"]
At(pcs) == {e \in Execs : exec[e].pc \in pcs}

Current(t) == <<t, Cardinality({g \in 1..MaxRuns : row[<<t, g>>] # "none"})>>
Exists(t) == row[<<t, 1>>] # "none"
Live(r) == {e \in {<<r, 1>>, <<r, 2>>} : exec[e].pc # "idle"}

Init ==
  /\ born = <<>>
  /\ row = [r \in Runs |-> "none"] /\ task = [t \in Tasks |-> "none"]
  /\ asks = {} /\ pend = {}
  /\ exec = [e \in Execs |-> Idle]
  /\ parent = "running" /\ ckpt = [mode |-> "none", runs |-> {}]
  /\ atWork = 1
  /\ wakes = 0 /\ launches = 0
  /\ steered = {} /\ sends = 0 /\ crashes = 0

-----------------------------------------------------------------------------
(* The scheduler.  A world is what schedule() reads and writes.               *)

(* The controllers map has one entry for a run: an execution is known while the
   entry is its own. *)
Forget(f, r) ==
  [e \in Execs |-> IF e[1] = r /\ f[e].pc # "idle" THEN [f[e] EXCEPT !.known = FALSE]
                   ELSE f[e]]

(* Mutant: the limits are compared with > instead of >=. *)
MutClaimRun(w, r) ==
  LET free == {k \in {1, 2} : w.exec[<<r, k>>].pc = "idle"} IN
  IF w.row[r] # "queued" \/ free = {} THEN w
  ELSE IF \/ Cardinality({q \in Runs : w.row[q] \in ActiveStatus}) > GlobalLimit
          \/ Cardinality({t \in Tasks : w.task[t] \in ActiveStatus}) > ParentLimit
    THEN [w EXCEPT !.task[r[1]] = "queued"]
    ELSE [row  |-> [w.row EXCEPT ![r] = "running"],
          task |-> [w.task EXCEPT ![r[1]] = "running"],
          exec |-> [Forget(w.exec, r) EXCEPT
                      ![<<r, Min(free)>>] = [pc |-> "works", known |-> TRUE, aborted |-> FALSE]]]

(* claim and the synchronous start of execute: the run is claimed unless a
   limit is reached; the limit of the parent counts tasks by their own status. *)
ClaimRun(w, r) ==
  LET free == {k \in {1, 2} : w.exec[<<r, k>>].pc = "idle"} IN
  IF w.row[r] # "queued" \/ free = {} THEN w
  ELSE IF \/ Cardinality({q \in Runs : w.row[q] \in ActiveStatus}) >= GlobalLimit
          \/ Cardinality({t \in Tasks : w.task[t] \in ActiveStatus}) >= ParentLimit
    THEN [w EXCEPT !.task[r[1]] = "queued"]
    ELSE [row  |-> [w.row EXCEPT ![r] = "running"],
          task |-> [w.task EXCEPT ![r[1]] = "running"],
          exec |-> LET new == <<r, Min(free)>> IN
                   [Forget(w.exec, r) EXCEPT
                      ![new] = [pc |-> "works", known |-> TRUE, aborted |-> FALSE]]]

(* schedule: every queued run in the order of creation. *)
Schedule(w, order) ==
  LET after[n \in 0..Len(order)] ==
        IF n = 0 THEN w ELSE ClaimRun(after[n - 1], order[n])
  IN after[Len(order)]

Scheduled(newRow, newTask, newExec, order) ==
  LET w == Schedule([row |-> newRow, task |-> newTask, exec |-> newExec], order)
  IN row' = w.row /\ task' = w.task /\ exec' = w.exec

(* Bound: a wake-up beyond MaxWakes does what one that is under way will do. *)
OneMore(n) == IF n < MaxWakes THEN n + 1 ELSE n

-----------------------------------------------------------------------------
(* The parent turn.                                                           *)

(* spawn creates the rows and schedules. *)
Spawn(t) ==
  /\ parent = "running" /\ atWork > 0
  /\ ~Exists(t) /\ Len(born) < MaxRuns
  /\ born' = Append(born, <<t, 1>>)
  /\ Scheduled([row EXCEPT ![<<t, 1>>] = "queued"], [task EXCEPT ![t] = "queued"],
               exec, born')
  /\ UNCHANGED <<asks, pend, par, wake, steered, bounds>>

Satisfied(c) ==
  CASE c.mode = "all"  -> \A r \in c.runs : row[r] \in Ended
    [] c.mode = "any"  -> \E r \in c.runs : row[r] \in Ended
    [] c.mode = "none" -> FALSE

(* The wait tool and checkpointWait.  The test and the checkpoint are one
   microtask apart, a run's end and its wake-up several: they are one step.
   Bound: the parent waits for the current runs of all its subagents. *)
Wait(mode) ==
  LET targets == {Current(t) : t \in {u \in Tasks : Exists(u)}} IN
  /\ targets # {} /\ parent = "running" /\ atWork > 0
  /\ mode = "all" \/ Cardinality(targets) > 1
  /\ ~Satisfied([mode |-> mode, runs |-> targets])
  /\ ckpt' = [mode |-> mode, runs |-> targets]
  /\ parent' = "waiting" /\ atWork' = atWork - 1
  /\ Scheduled(row, task, exec, born)
  /\ UNCHANGED <<born, asks, pend, wake, steered, bounds>>

(* A run of the parent turn ends ("completed" stands for every way it can), and
   with it the turn unless it had ended. *)
EndParent(status) ==
  IF parent \in Ended THEN UNCHANGED <<parent, ckpt>>
  ELSE parent' = status /\ ckpt' = [mode |-> "none", runs |-> {}]

ParentEnds ==
  /\ atWork > 0 /\ atWork' = atWork - 1
  /\ EndParent("completed")
  /\ UNCHANGED <<rows, exec, wake, steered, bounds>>

(* Mutant: the stop of a waiting parent ends a run of it that is not there. *)
MutStopWaitingParent ==
  /\ parent = "waiting" /\ EndParent("interrupted")
  /\ atWork' = atWork - 1
  /\ UNCHANGED <<rows, exec, wake, steered, bounds>>

(* The user stops the waiting parent.  That it stops its subagents too is among
   the stops of User. *)
StopWaitingParent ==
  /\ parent = "waiting" /\ atWork = 0
  /\ EndParent("interrupted")
  /\ UNCHANGED <<rows, exec, atWork, wake, steered, bounds>>

(* Mutant: the callers of resumeSatisfiedParents do not go on to schedule(). *)
MutWake ==
  /\ wakes > 0
  /\ wakes' = wakes - 1
  /\ IF Satisfied(ckpt)
     THEN parent' = "queued" /\ launches' = OneMore(launches)
     ELSE UNCHANGED <<parent, launches>>
  /\ UNCHANGED <<rows, exec, ckpt, atWork, steered, bounds>>

(* resumeSatisfiedParents: a parent whose wait is satisfied is marked queued,
   whatever its status; without one the caller goes on to schedule(). *)
Wake ==
  /\ wakes > 0
  /\ wakes' = wakes - 1
  /\ IF Satisfied(ckpt)
     THEN /\ parent' = "queued" /\ launches' = OneMore(launches)
          /\ UNCHANGED <<row, task, exec>>
     ELSE /\ Scheduled(row, task, exec, born)
          /\ UNCHANGED <<parent, launches>>
  /\ UNCHANGED <<born, asks, pend, ckpt, atWork, steered, bounds>>

(* parentResumeHandler: executeTurn starts the turn if it is still queued. *)
LaunchParent ==
  /\ launches > 0 /\ launches' = launches - 1
  /\ IF parent = "queued" /\ atWork < MaxWakes
     THEN parent' = "running" /\ atWork' = atWork + 1
     ELSE UNCHANGED <<parent, atWork>>
  /\ Scheduled(row, task, exec, born)
  /\ UNCHANGED <<born, asks, pend, ckpt, wakes, steered, bounds>>

-----------------------------------------------------------------------------
(* An execution of a run.                                                     *)

Moves(e, pc) == [exec EXCEPT ![e].pc = pc]
SetRun(r, status) == [row EXCEPT ![r] = status]
SetTask(r, status) == [task EXCEPT ![r[1]] = status]
RunIs(r, status) == row' = SetRun(r, status) /\ task' = SetTask(r, status)

(* Mutant: setWaiting without its test for a terminal status. *)
MutSetWaiting(r) == RunIs(r, "waiting")

(* setWaiting: nothing when the run has ended. *)
SetWaiting(r) ==
  IF row[r] \in Ended THEN UNCHANGED <<row, task>> ELSE RunIs(r, "waiting")

(* An approval is activated: attachRunState with onApprovalStatus. *)
AsksUser(e) ==
  /\ exec[e].pc = "works" /\ ~exec[e].aborted
  /\ exec' = Moves(e, "asked")
  /\ asks' = asks \cup {e[1]}
  /\ SetWaiting(e[1])
  /\ UNCHANGED <<born, pend, par, wake, steered, bounds>>

(* The orchestrator returns "paused". *)
Paused(e) ==
  /\ exec[e].pc = "asked"
  /\ exec' = Moves(e, "ends")
  /\ SetWaiting(e[1])
  /\ UNCHANGED <<born, asks, pend, par, wake, steered, bounds>>

(* finish, which does not look at the status the run has. *)
Finishes(e, status) ==
  /\ RunIs(e[1], status)
  /\ exec' = Moves(e, "ends")
  /\ UNCHANGED <<pend, steered>>

(* The orchestrator returns a result: with a message pending the run is
   continued (continueTask on the same run) and scheduled, else it is finished. *)
Returns(e) ==
  /\ exec[e].pc = "works" /\ ~exec[e].aborted
  /\ LET r == e[1] IN
     IF r \in pend
     THEN /\ Live(r) = {e}
          /\ Scheduled(SetRun(r, "queued"), task, Moves(e, "ends"), born)
          /\ pend' = pend \ {r} /\ steered' = steered \cup {r[1]}
     ELSE Finishes(e, "completed")
  /\ UNCHANGED <<born, asks, par, wake, bounds>>

(* Mutant: an aborted execution is finished as failed like any other. *)
MutThrows(e) ==
  /\ exec[e].pc = "works"
  /\ Finishes(e, "failed")
  /\ UNCHANGED <<born, asks, par, wake, bounds>>

(* The orchestrator throws, or returns no structured result. *)
Throws(e) ==
  /\ exec[e].pc = "works"
  /\ IF exec[e].aborted
     THEN exec' = Moves(e, "ends") /\ UNCHANGED <<row, task, pend, steered>>
     ELSE Finishes(e, "failed")
  /\ UNCHANGED <<born, asks, par, wake, bounds>>

(* Mutant: the finally block does not look for satisfied parents. *)
MutLeaves(e) ==
  /\ exec[e].pc = "ends"
  /\ exec' = [Forget(exec, e[1]) EXCEPT ![e] = Idle]
  /\ UNCHANGED <<rows, par, wake, steered, bounds>>

(* The finally block: whatever controller the run has is forgotten. *)
Leaves(e) ==
  /\ exec[e].pc = "ends"
  /\ exec' = [Forget(exec, e[1]) EXCEPT ![e] = Idle]
  /\ wakes' = OneMore(wakes)
  /\ UNCHANGED <<rows, par, launches, steered, bounds>>

-----------------------------------------------------------------------------
(* What users and the parent ask of a subagent.                               *)

NewRun(t) ==
  LET next == <<t, Current(t)[2] + 1>> IN
  /\ Len(born) < MaxRuns
  /\ born' = Append(born, next)
  /\ Scheduled([row EXCEPT ![next] = "queued"], [task EXCEPT ![t] = "queued"], exec, born')
  /\ UNCHANGED <<asks, pend>>

(* send: a follow-up run, the same run again, or a message for later. *)
Send(t) ==
  /\ Exists(t)
  /\ LET r == Current(t) IN
     \/ row[r] \in Ended /\ NewRun(t) /\ UNCHANGED sends
     \/ /\ row[r] \in {"queued", "waiting"}
        /\ Hasty \/ Live(r) = {}
        /\ asks' = asks \ {r}
        /\ Scheduled(SetRun(r, "queued"), task, exec, born)
        /\ UNCHANGED <<born, pend, sends>>
     \/ /\ row[r] \in {"running", "steering"}
        /\ r \notin pend /\ sends < MaxSends /\ sends' = sends + 1
        /\ pend' = pend \cup {r}
        /\ RunIs(r, "steering")
        /\ UNCHANGED <<born, asks, exec>>
  /\ UNCHANGED <<par, wake, steered, crashes>>

Retry(t) ==
  /\ Exists(t) /\ row[Current(t)] \in Ended \ {"completed"}
  /\ NewRun(t)
  /\ UNCHANGED <<par, wake, steered, bounds>>

(* Mutant: stop does not abort the execution. *)
MutStop(t) ==
  LET r == Current(t) IN
  /\ Exists(t) /\ row[r] \notin Ended
  /\ asks' = asks \ {r}
  /\ RunIs(r, "stopped")
  /\ wakes' = OneMore(wakes)
  /\ UNCHANGED <<exec, born, pend, par, launches, steered, bounds>>

(* stop: the controller that is known is aborted, the approvals are cancelled and
   the run is finished; the parents are woken. *)
Stop(t) ==
  LET r == Current(t) IN
  /\ Exists(t) /\ row[r] \notin Ended
  /\ exec' = [e \in Execs |-> IF e \in Live(r) /\ exec[e].known
                              THEN [exec[e] EXCEPT !.aborted = TRUE]
                              ELSE exec[e]]
  /\ asks' = asks \ {r}
  /\ RunIs(r, "stopped")
  /\ wakes' = OneMore(wakes)
  /\ UNCHANGED <<born, pend, par, launches, steered, bounds>>

(* A pending approval is answered: resumeTurn queues the run and schedules. *)
Answer(r) ==
  /\ r \in asks
  /\ Hasty \/ Live(r) = {}
  /\ asks' = asks \ {r}
  /\ Scheduled(SetRun(r, "queued"), task, exec, born)
  /\ UNCHANGED <<born, pend, par, wake, steered, bounds>>

-----------------------------------------------------------------------------
(* Mutant: the recovery interrupts running runs only. *)
MutLost(r) == row[r] = "running" \/ (row[r] = "waiting" /\ r \notin asks)

(* The runs the recovery interrupts: nothing is left that could continue them. *)
Lost(r) == row[r] \in {"running", "steering"} \/ (row[r] = "waiting" /\ r \notin asks)

(* A crash and the start after it: interrupted runs, then resumeSatisfiedParents
   and schedule(), and resumeQueuedTurns for the parent. *)
Crash ==
  /\ crashes < MaxCrashes /\ crashes' = crashes + 1
  /\ row' = [r \in Runs |-> IF Lost(r) THEN "interrupted" ELSE row[r]]
  /\ task' = [t \in Tasks |->
       IF ~Exists(t) THEN "none"
       ELSE IF Lost(Current(t)) \/ row[Current(t)] = "interrupted" THEN "interrupted"
       ELSE IF row[Current(t)] = "queued" THEN "queued" ELSE task[t]]
  /\ exec' = [e \in Execs |-> Idle]
  /\ parent' = IF parent = "running" THEN "interrupted" ELSE parent
  /\ launches' = (IF parent = "queued" THEN 1 ELSE 0)
  /\ wakes' = 1 /\ atWork' = 0
  /\ UNCHANGED <<born, asks, pend, ckpt, steered, sends>>

-----------------------------------------------------------------------------
Turn == \/ \E t \in Tasks : Spawn(t)
        \/ \E mode \in {"all", "any"} : Wait(mode)
        \/ ParentEnds \/ StopWaitingParent
Run(e) == Returns(e) \/ Throws(e)
User == \/ \E t \in Tasks : Send(t) \/ Retry(t) \/ Stop(t)
        \/ \E r \in Runs : Answer(r)
Next ==
  \/ Turn \/ User \/ Wake \/ LaunchParent \/ Crash
  \/ \E e \in Execs : AsksUser(e) \/ Paused(e) \/ Run(e) \/ Leaves(e)

Spec == Init /\ [][Next]_vars

(* The service keeps moving: an execution ends or asks, and what it started is
   carried through.  Nothing is assumed of users, of the parent or of crashes. *)
Fairness ==
  /\ \A e \in Execs : WF_vars(Run(e) \/ Paused(e) \/ Leaves(e))
  /\ WF_vars(Wake) /\ WF_vars(LaunchParent)

FairSpec == Spec /\ Fairness

-----------------------------------------------------------------------------
(* Properties.                                                                *)

TypeOK ==
  /\ born \in Seq(Runs) /\ \A r \in Runs : row[r] # "none" <=> r \in Range(born)
  /\ row \in [Runs -> RunStatus] /\ task \in [Tasks -> RunStatus]
  /\ asks \subseteq Runs /\ pend \subseteq Runs
  /\ \A e \in Execs : exec[e] = Idle \/
       exec[e] \in [pc : {"works", "asked", "ends"}, known : BOOLEAN, aborted : BOOLEAN]
  /\ parent \in {"running", "waiting", "queued"} \cup Ended
  /\ ckpt \in [mode : {"none", "all", "any"}, runs : SUBSET Runs]
  /\ atWork \in 0..MaxWakes
  /\ wakes \in 0..MaxWakes /\ launches \in 0..MaxWakes
  /\ steered \subseteq Tasks

(* The limits of claim hold at all times, also for runs that waited for the user,
   were answered, were continued for a message or survived a crash.  The parent's
   limit leaves out subagents whose run was continued for a message: an execution
   of theirs that a stop did not reach ends the task while its next run goes on,
   the next claim does not count it, and a pause makes it active again. *)
WithinLimits ==
  /\ Cardinality({r \in Runs : row[r] \in ActiveStatus}) <= GlobalLimit
  /\ Cardinality({t \in Tasks \ steered : task[t] \in ActiveStatus}) <= ParentLimit

(* Unless its run was continued for a message, a subagent is worked on by one
   execution at a time: a stopped run may still be unwinding when the next run of
   the task starts, but it has been told to. *)
AtWorkOn(t) == {e \in At({"works", "asked"}) : e[1][1] = t /\ ~exec[e].aborted}
OneAtATime == \A t \in Tasks \ steered : Cardinality(AtWorkOn(t)) <= 1

(* Unless its run was continued for a message, the status of a task says whether
   its current run has ended: the stop of the parent and the parent's limit go by
   it.  finish sets the status of the task for any run, also an old one. *)
TaskTellsItsRun ==
  \A t \in Tasks \ steered :
    Exists(t) => (task[t] \in Ended <=> row[Current(t)] \in Ended)

(* What the parent was told of a run that ended stays true, unless the run was
   continued for a message: finish, setWaiting, resumeTurn and the recovery write
   the status without a condition on the one it has. *)
EndedStaysEnded ==
  [][\A r \in Runs : row[r] \in Ended /\ r[1] \notin steered => row'[r] = row[r]]_vars

(* A wait that is satisfied ends: whatever ends the runs, in whatever order and
   across crashes, wakes the parent. *)
ParentWakes ==
  parent = "waiting" /\ Satisfied(ckpt) ~> parent # "waiting" \/ ~Satisfied(ckpt)

(* A queued run is claimed or ended, or subagents that wait for the user hold the
   slots: no end of an execution forgets to schedule. *)
UserHoldsASlot == \E r \in Runs : row[r] = "waiting"
CurrentRow(t) == IF Exists(t) THEN row[Current(t)] ELSE "none"
QueueMoves ==
  \A t \in Tasks :
    CurrentRow(t) = "queued" ~> CurrentRow(t) # "queued" \/ UserHoldsASlot

(* A message for a running subagent is not forgotten while the run goes on: there
   is an execution that will look for it, or there will be one. *)
MessageHasAReader ==
  \A r \in pend : row[r] \in Ended \cup {"queued", "waiting"} \/ Live(r) # {}

(* rpc-v4-contract: subagent/stop returns the terminal state of task and run. *)
StopIsFinal == [][\A r \in Runs : row[r] = "stopped" => row'[r] = "stopped"]_vars
=============================================================================
