---------------------------- MODULE SubagentsProofs ----------------------------
(* The limits, the statuses and the executions of subagents, for any number of *)
(* subagents, runs, messages, wake-ups and crashes and for any limits.         *)
EXTENDS Subagents, NatLemmas, SequenceTheorems, FiniteSetTheorems, TLAPS

-----------------------------------------------------------------------------
(* The scheduler as an induction over the runs in the order of creation.     *)

\* If claiming the n-th run leads from V[n - 1] to V[n], then schedule() leads
\* from V[0] to the last of them.
LEMMA ScheduleReaches ==
  ASSUME NEW w, NEW order, Len(order) \in Nat, NEW V,
         w \in V[0],
         \A n \in 1..Len(order) : \A x \in V[n - 1] : ClaimRun(x, order[n]) \in V[n]
  PROVE  Schedule(w, order) \in V[Len(order)]
<1> DEFINE Step(f, n) == IF n = 0 THEN w ELSE ClaimRun(f[n - 1], order[n])
           Is(f, k) == f = [n \in 0..k |-> Step(f, n)]
           S == {k \in Nat : \E f : Is(f, k)}
<1>1. 0 \in S
  <2>1. Is([n \in 0..0 |-> w], 0)
    OBVIOUS
  <2> QED  BY <2>1
<1>2. ASSUME NEW k \in Nat, NEW f, Is(f, k) PROVE \E g : Is(g, k + 1)
  <2> DEFINE g == [n \in 0..(k + 1) |-> IF n = k + 1 THEN Step(f, n) ELSE f[n]]
  <2>1. ASSUME NEW n \in 0..(k + 1) PROVE g[n] = Step(g, n)
    <3>1. CASE n = k + 1
      <4>1. n - 1 \in 0..(k + 1) /\ n - 1 # k + 1
        BY <3>1
      <4>2. g[n - 1] = f[n - 1]
        BY <4>1
      <4> QED  BY <3>1, <4>2
    <3>2. CASE n = 0
      BY <1>2, <3>2
    <3>3. CASE n # 0 /\ n # k + 1
      <4>1. n \in 0..k /\ n - 1 \in 0..(k + 1) /\ n - 1 # k + 1 /\ n # 0
        BY <3>3
      <4>2. g[n] = f[n] /\ g[n - 1] = f[n - 1]
        BY <4>1
      <4>3. f[n] = Step(f, n)
        BY <1>2, <4>1
      <4> QED  BY <4>1, <4>2, <4>3
    <3> QED  BY <3>1, <3>2, <3>3
  <2>2. g = [n \in 0..(k + 1) |-> g[n]]
    OBVIOUS
  <2> HIDE DEF g
  <2>3. Is(g, k + 1)
    BY <2>1, <2>2
  <2> QED  BY <2>3
<1>3. \A k \in Nat : k \in S => k + 1 \in S
  <2> HIDE DEF Is
  <2> TAKE k \in Nat
  <2> HAVE k \in S
  <2>1. \E f : Is(f, k)
    OBVIOUS
  <2>2. \E g : Is(g, k + 1)
    BY <1>2, <2>1
  <2>3. k + 1 \in Nat
    OBVIOUS
  <2> QED  BY <2>2, <2>3
<1>4. Len(order) \in S
  <2> HIDE DEF S
  <2> QED  BY <1>1, <1>3, SetInduction
<1> DEFINE after == CHOOSE f : Is(f, Len(order))
<1>5. Is(after, Len(order))
  BY <1>4
<1>6. Schedule(w, order) = after[Len(order)]
  BY DEF Schedule
<1> HIDE DEF after
<1> DEFINE T == {n \in Nat : n \in 0..Len(order) => after[n] \in V[n]}
<1>7. 0 \in T
  BY <1>5
<1>8. \A n \in Nat : n \in T => n + 1 \in T
  <2> TAKE n \in Nat
  <2> HAVE n \in T
  <2>1. CASE n + 1 \in 0..Len(order)
    <3>1. n \in 0..Len(order) /\ n + 1 \in 1..Len(order) /\ (n + 1) - 1 = n /\ n + 1 # 0
      BY <2>1
    <3>2. after[n + 1] = ClaimRun(after[n], order[n + 1])
      BY <1>5, <2>1, <3>1
    <3> QED  BY <3>1, <3>2
  <2> QED  BY <2>1
<1>9. Len(order) \in T
  <2> HIDE DEF T
  <2> QED  BY <1>7, <1>8, SetInduction
<1> QED  BY <1>6, <1>9

-----------------------------------------------------------------------------
(* Claiming a run.                                                           *)

\* What an execution can be, and what schedule() reads and writes.
Executions ==
  {Idle} \cup [pc : {"works", "asked", "ends"}, known : BOOLEAN, aborted : BOOLEAN]
Worlds ==
  [row : [Runs -> RunStatus], task : [Tasks -> RunStatus], exec : [Execs -> Executions]]
Fresh == [pc |-> "works", known |-> TRUE, aborted |-> FALSE]

ActiveRuns(w) == {r \in Runs : w.row[r] \in ActiveStatus}
ActiveTasks(w) == {t \in Tasks : w.task[t] \in ActiveStatus}

\* From w to x the run r stays queued because a limit is reached.
Refused(w, x, r) ==
  /\ w.row[r] = "queued"
  /\ x.row = w.row /\ x.exec = w.exec
  /\ x.task = [w.task EXCEPT ![r[1]] = "queued"]

\* From w to x the run r is claimed and the execution e starts.
Claimed(w, x, r, e) ==
  /\ w.row[r] = "queued" /\ e[1] = r /\ w.exec[e].pc = "idle"
  /\ Cardinality(ActiveRuns(w)) < GlobalLimit
  /\ Cardinality(ActiveTasks(w)) < ParentLimit
  /\ x.row = [w.row EXCEPT ![r] = "running"]
  /\ x.task = [w.task EXCEPT ![r[1]] = "running"]
  /\ x.exec[e] = Fresh
  /\ \A f \in Execs : f # e => /\ x.exec[f].pc = w.exec[f].pc
                               /\ x.exec[f] \in Executions
                               /\ w.exec[f].pc # "idle" => x.exec[f].aborted = w.exec[f].aborted
                               /\ f[1] # r => x.exec[f] = w.exec[f]

LEMMA FiniteSets ==
  /\ IsFiniteSet(Runs)
  /\ \A w : IsFiniteSet(ActiveRuns(w)) /\ Cardinality(ActiveRuns(w)) \in Nat
  /\ \A w : IsFiniteSet(ActiveTasks(w)) /\ Cardinality(ActiveTasks(w)) \in Nat
<1>1. IsFiniteSet(Runs)
  <2>1. IsFiniteSet(Tasks) /\ IsFiniteSet(1..MaxRuns)
    BY SubagentAssumption, FS_Interval
  <2>2. IsFiniteSet(Tasks \X (1..MaxRuns))
    BY <2>1, FS_Product
  <2> QED  BY <2>2 DEF Runs
<1>2. \A w : ActiveRuns(w) \in SUBSET Runs /\ ActiveTasks(w) \in SUBSET Tasks
  BY DEF ActiveRuns, ActiveTasks
<1> QED  BY <1>1, <1>2, SubagentAssumption, FS_Subset, FS_CardinalityType

LEMMA ExecOf ==
  /\ \A e \in Execs : e[1] \in Runs /\ e[1][1] \in Tasks /\ e[2] \in {1, 2} /\ e = <<e[1], e[2]>>
  /\ \A r \in Runs : <<r, 1>> \in Execs /\ <<r, 2>> \in Execs
  /\ \A e \in Execs : e = <<e[1], 1>> \/ e = <<e[1], 2>>
  /\ \A r \in Runs : r[1] \in Tasks /\ r[2] \in 1..MaxRuns /\ r = <<r[1], r[2]>>
BY DEF Execs, Runs

LEMMA ExecutionFields ==
  ASSUME NEW x \in Executions
  PROVE  /\ x.pc \in {"idle", "works", "asked", "ends"}
         /\ x.pc # "idle" => x \in [pc : {"works", "asked", "ends"}, known : BOOLEAN, aborted : BOOLEAN]
         /\ x.pc # "idle" => [x EXCEPT !.known = FALSE] \in Executions
         /\ x.pc # "idle" => [x EXCEPT !.known = FALSE].pc = x.pc
         /\ x.pc # "idle" => [x EXCEPT !.known = FALSE].aborted = x.aborted
<1>1. CASE x = Idle
  BY <1>1 DEF Idle
<1>2. CASE x \in [pc : {"works", "asked", "ends"}, known : BOOLEAN, aborted : BOOLEAN]
  <2>1. x.pc \in {"works", "asked", "ends"}
    BY <1>2
  <2>2. [x EXCEPT !.known = FALSE] \in [pc : {"works", "asked", "ends"}, known : BOOLEAN, aborted : BOOLEAN]
    BY <1>2
  <2>3. [x EXCEPT !.known = FALSE].pc = x.pc
    BY <1>2
  <2>4. [x EXCEPT !.known = FALSE].aborted = x.aborted
    BY <1>2
  <2> QED  BY <1>2, <2>1, <2>2, <2>3, <2>4 DEF Executions
<1> QED  BY <1>1, <1>2 DEF Executions

\* The controller of a run is forgotten: nothing else changes.
LEMMA ForgetProperties ==
  ASSUME NEW f \in [Execs -> Executions], NEW r
  PROVE  /\ Forget(f, r) \in [Execs -> Executions]
         /\ \A e \in Execs : /\ Forget(f, r)[e].pc = f[e].pc
                             /\ f[e].pc # "idle" => Forget(f, r)[e].aborted = f[e].aborted
                             /\ e[1] # r => Forget(f, r)[e] = f[e]
<1>1. ASSUME NEW e \in Execs
      PROVE  /\ Forget(f, r)[e] \in Executions
             /\ Forget(f, r)[e].pc = f[e].pc
             /\ f[e].pc # "idle" => Forget(f, r)[e].aborted = f[e].aborted
             /\ e[1] # r => Forget(f, r)[e] = f[e]
  <2>1. Forget(f, r)[e] = IF e[1] = r /\ f[e].pc # "idle" THEN [f[e] EXCEPT !.known = FALSE] ELSE f[e]
    BY DEF Forget
  <2>2. f[e] \in Executions
    OBVIOUS
  <2> QED  BY <2>1, <2>2, ExecutionFields
<1>2. Forget(f, r) \in [Execs -> Executions]
  <2>1. Forget(f, r) = [e \in Execs |-> Forget(f, r)[e]]
    BY DEF Forget
  <2> QED  BY <1>1, <2>1
<1> QED  BY <1>1, <1>2

\* What claiming does to a world.
LEMMA ClaimCases ==
  ASSUME NEW w \in Worlds, NEW r \in Runs
  PROVE  /\ ClaimRun(w, r) \in Worlds
         /\ \/ /\ ClaimRun(w, r) = w
               /\ w.row[r] = "queued" => w.exec[<<r, 1>>].pc # "idle"
            \/ Refused(w, ClaimRun(w, r), r)
            \/ \E e \in Execs : Claimed(w, ClaimRun(w, r), r, e)
<1> DEFINE x == ClaimRun(w, r)
           free == {k \in {1, 2} : w.exec[<<r, k>>].pc = "idle"}
           full == \/ Cardinality(ActiveRuns(w)) >= GlobalLimit
                   \/ Cardinality(ActiveTasks(w)) >= ParentLimit
           e == <<r, Min(free)>>
           f == [Forget(w.exec, r) EXCEPT ![e] = Fresh]
<1>1. w.row \in [Runs -> RunStatus] /\ w.task \in [Tasks -> RunStatus]
      /\ w.exec \in [Execs -> Executions] /\ r[1] \in Tasks
  BY ExecOf DEF Worlds
<1>2. x = IF w.row[r] # "queued" \/ free = {} THEN w
          ELSE IF full THEN [w EXCEPT !.task[r[1]] = "queued"]
          ELSE [row |-> [w.row EXCEPT ![r] = "running"],
                task |-> [w.task EXCEPT ![r[1]] = "running"], exec |-> f]
  BY DEF ClaimRun, ActiveRuns, ActiveTasks, Fresh
<1>3. CASE w.row[r] # "queued" \/ free = {}
  <2>1. x = w
    BY <1>2, <1>3
  <2>2. w.row[r] = "queued" => w.exec[<<r, 1>>].pc # "idle"
    BY <1>3
  <2> QED  BY <2>1, <2>2
<1>4. CASE w.row[r] = "queued" /\ free # {} /\ full
  <2>1. x = [w EXCEPT !.task[r[1]] = "queued"]
    BY <1>2, <1>4
  <2>2. x = [row |-> w.row, task |-> [w.task EXCEPT ![r[1]] = "queued"], exec |-> w.exec]
    BY <2>1 DEF Worlds
  <2>3. "queued" \in RunStatus
    BY DEF RunStatus
  <2>4. x \in Worlds
    BY <1>1, <2>2, <2>3 DEF Worlds
  <2> QED  BY <1>4, <2>2, <2>4 DEF Refused
<1>5. CASE w.row[r] = "queued" /\ free # {} /\ ~full
  <2>1. Min(free) \in free
    <3>1. free \in SUBSET Nat
      OBVIOUS
    <3> QED  BY <1>5, <3>1, MinIsLeast
  <2>2. e \in Execs /\ e[1] = r /\ w.exec[e].pc = "idle"
    BY <2>1 DEF Execs
  <2>3. Cardinality(ActiveRuns(w)) < GlobalLimit /\ Cardinality(ActiveTasks(w)) < ParentLimit
    BY <1>5, FiniteSets, SubagentAssumption
  <2> HIDE DEF free, full, e
  <2>4. /\ Forget(w.exec, r) \in [Execs -> Executions]
        /\ \A g \in Execs : /\ Forget(w.exec, r)[g].pc = w.exec[g].pc
                            /\ w.exec[g].pc # "idle" => Forget(w.exec, r)[g].aborted = w.exec[g].aborted
                            /\ g[1] # r => Forget(w.exec, r)[g] = w.exec[g]
    BY <1>1, ForgetProperties
  <2>5. Fresh \in Executions
    BY DEF Fresh, Executions
  <2>6. f \in [Execs -> Executions] /\ f[e] = Fresh /\ \A g \in Execs : g # e => f[g] = Forget(w.exec, r)[g]
    BY <2>2, <2>4, <2>5
  <2> HIDE DEF f
  <2>7. x = [row |-> [w.row EXCEPT ![r] = "running"],
             task |-> [w.task EXCEPT ![r[1]] = "running"], exec |-> f]
    BY <1>2, <1>5
  <2> HIDE DEF x
  <2>8. x.row = [w.row EXCEPT ![r] = "running"] /\ x.task = [w.task EXCEPT ![r[1]] = "running"]
        /\ x.exec = f
    BY <2>7
  <2>9. "running" \in RunStatus
    BY DEF RunStatus, ActiveStatus
  <2>10. x \in Worlds
    BY <1>1, <2>6, <2>7, <2>9 DEF Worlds
  <2>11. \A g \in Execs : g # e => /\ x.exec[g].pc = w.exec[g].pc
                                   /\ x.exec[g] \in Executions
                                   /\ w.exec[g].pc # "idle" => x.exec[g].aborted = w.exec[g].aborted
                                   /\ g[1] # r => x.exec[g] = w.exec[g]
    BY <2>4, <2>6, <2>8
  <2>12. Claimed(w, x, r, e)
    BY <1>5, <2>2, <2>3, <2>6, <2>8, <2>11 DEF Claimed
  <2> QED  BY <2>2, <2>10, <2>12 DEF x
<1> QED  BY <1>3, <1>4, <1>5

-----------------------------------------------------------------------------
(* What holds of every world.                                                *)

Busy(x) == x.pc \in {"works", "asked"}

\* An execution at work is of a run that is active, or has ended meanwhile;
\* a running run has an execution that will look for messages.
Worked(w) ==
  /\ \A e \in Execs : Busy(w.exec[e]) => w.row[e[1]] \in ActiveStatus \cup Ended
  /\ \A e \in Execs : w.exec[e].pc # "idle" => w.row[e[1]] # "none"
  /\ \A e, f \in Execs : Busy(w.exec[e]) /\ Busy(w.exec[f]) /\ e[1] = f[1] => e = f
  /\ \A e \in Execs : Busy(w.exec[e]) /\ w.exec[e].aborted => w.row[e[1]] \in Ended
  /\ \A r \in Runs : w.row[r] \in {"running", "steering"}
                       => \E e \in Execs : e[1] = r /\ w.exec[e].pc = "works"
  /\ \A t \in Tasks : w.row[<<t, 1>>] = "none" => w.task[t] = "none"
  /\ \A r \in Runs : w.row[r] # "none" => w.row[<<r[1], 1>>] # "none"

\* The limits, without the subagents st in the one of the parent.
Limited(w, st) ==
  /\ Cardinality(ActiveRuns(w)) <= GlobalLimit
  /\ Cardinality(ActiveTasks(w) \ st) <= ParentLimit

\* A subagent outside st has one run that has not ended, its last.
OneOpen(w, st) ==
  \A r, q \in Runs :
    r[1] \notin st /\ r[1] = q[1] /\ r[2] < q[2] /\ w.row[q] # "none" => w.row[r] \in Ended

\* Its task is active with it and ended when it has none.
TaskFollows(w, st) ==
  /\ \A r \in Runs : r[1] \notin st /\ w.row[r] \in ActiveStatus => w.task[r[1]] \in ActiveStatus
  /\ \A t \in Tasks \ st :
       /\ w.row[<<t, 1>>] # "none"
       /\ \A r \in Runs : r[1] = t => w.row[r] \in Ended \cup {"none"}
       => w.task[t] \in Ended

\* Its executions are known until they are aborted, agree with their run and
\* are one at a time, none while the run is queued.
ExecFollows(w, st) ==
  /\ \A e \in Execs : e[1][1] \notin st /\ Busy(w.exec[e]) /\ ~w.exec[e].aborted => w.exec[e].known
  /\ \A e \in Execs : e[1][1] \notin st /\ w.exec[e].pc = "works" /\ ~w.exec[e].aborted
                        => w.row[e[1]] \in {"running", "steering"}
  /\ \A e \in Execs : e[1][1] \notin st /\ w.exec[e].pc = "asked" /\ ~w.exec[e].aborted
                        => w.row[e[1]] = "waiting"
  /\ \A e, f \in Execs : (/\ e[1][1] \notin st /\ e[1] = f[1]
                          /\ w.exec[e].pc # "idle" /\ w.exec[f].pc # "idle") => e = f
  /\ \A e \in Execs : e[1][1] \notin st /\ w.row[e[1]] = "queued" => w.exec[e].pc = "idle"

\* A question is open only as long as its run waits for the answer.
AsksFollow(w, as, st) == \A r \in as : r[1] \notin st => w.row[r] = "waiting"

Good(w, as, st) ==
  /\ w \in Worlds
  /\ Worked(w) /\ Limited(w, st)
  /\ OneOpen(w, st) /\ TaskFollows(w, st) /\ ExecFollows(w, st) /\ AsksFollow(w, as, st)

\* The runs of done that are still queued say so in their task.
Settled(w, st, done) == \A r \in done : r[1] \notin st /\ w.row[r] = "queued" => w.task[r[1]] = "queued"

LEMMA OneOpenUnique ==
  ASSUME NEW w, NEW st, OneOpen(w, st), NEW r \in Runs, NEW q \in Runs,
         r[1] = q[1], r[1] \notin st,
         w.row[r] \notin Ended \cup {"none"}, w.row[q] \notin Ended \cup {"none"}
  PROVE  r = q
<1>1. r[2] \in Int /\ q[2] \in Int /\ r = <<r[1], r[2]>> /\ q = <<q[1], q[2]>>
  BY SubagentAssumption, ExecOf
<1>2. ~(r[2] < q[2]) /\ ~(q[2] < r[2])
  BY DEF OneOpen
<1> QED  BY <1>1, <1>2

LEMMA Statuses ==
  /\ "queued" \notin ActiveStatus \cup Ended \cup {"none"}
  /\ "running" \in ActiveStatus /\ "waiting" \in ActiveStatus /\ "steering" \in ActiveStatus
  /\ "none" \notin ActiveStatus \cup Ended
  /\ ActiveStatus \cap Ended = {}
  /\ RunStatus = {"none", "queued"} \cup ActiveStatus \cup Ended
BY DEF ActiveStatus, Ended, RunStatus

LEMMA RefusedKeeps ==
  ASSUME NEW w, NEW x \in Worlds, NEW as \in SUBSET Runs, NEW st, NEW r \in Runs, Good(w, as, st), Refused(w, x, r)
  PROVE  Good(x, as, st)
<1>1. /\ x.row = w.row /\ x.exec = w.exec /\ w.row[r] = "queued"
      /\ x.task[r[1]] = "queued" /\ \A t \in Tasks : t # r[1] => x.task[t] = w.task[t]
  BY ExecOf DEF Refused, Good, Worlds
<1>2. Worked(x)
  BY <1>1, Statuses DEF Good, Worked
<1>3. Limited(x, st)
  <2>1. ActiveRuns(x) = ActiveRuns(w)
    BY <1>1 DEF ActiveRuns
  <2>2. ActiveTasks(x) \ st \in SUBSET (ActiveTasks(w) \ st)
    BY <1>1, Statuses DEF ActiveTasks
  <2>3. IsFiniteSet(ActiveTasks(w) \ st) /\ IsFiniteSet(ActiveTasks(x) \ st)
    BY FiniteSets, FS_Difference
  <2>4. Cardinality(ActiveTasks(x) \ st) <= Cardinality(ActiveTasks(w) \ st)
        /\ Cardinality(ActiveTasks(w) \ st) \in Nat /\ Cardinality(ActiveTasks(x) \ st) \in Nat
    BY <2>2, <2>3, FS_Subset, FS_CardinalityType
  <2> QED  BY <2>1, <2>4, SubagentAssumption DEF Good, Limited
<1>4. OneOpen(x, st)
  BY <1>1 DEF Good, OneOpen
<1>5. TaskFollows(x, st)
  <2>1. ASSUME NEW q \in Runs, q[1] \notin st, x.row[q] \in ActiveStatus PROVE x.task[q[1]] \in ActiveStatus
    <3>1. w.row[q] \notin Ended \cup {"none"} /\ w.row[r] \notin Ended \cup {"none"} /\ w.row[q] # w.row[r]
      BY <1>1, <2>1, Statuses
    <3>2. q[1] # r[1]
      BY <2>1, <3>1, OneOpenUnique DEF Good
    <3> QED  BY <1>1, <2>1, <3>2, ExecOf DEF Good, TaskFollows
  <2>2. ASSUME NEW t \in Tasks \ st, x.row[<<t, 1>>] # "none",
               \A q \in Runs : q[1] = t => x.row[q] \in Ended \cup {"none"}
        PROVE  x.task[t] \in Ended
    <3>1. t # r[1]
      BY <1>1, <2>2, Statuses
    <3> QED  BY <1>1, <2>2, <3>1 DEF Good, TaskFollows
  <2> QED  BY <2>1, <2>2 DEF TaskFollows
<1>6. ExecFollows(x, st)
  <2>1. x.row = w.row /\ x.exec = w.exec /\ ExecFollows(w, st)
    BY <1>1 DEF Good
  <2> QED  BY ONLY <2>1, Zenon DEF ExecFollows, Busy
<1>7. AsksFollow(x, as, st)
  BY <1>1 DEF Good, AsksFollow
<1> QED  BY <1>2, <1>3, <1>4, <1>5, <1>6, <1>7 DEF Good

LEMMA ClaimedKeeps ==
  ASSUME NEW w, NEW x \in Worlds, NEW as \in SUBSET Runs, NEW st, NEW r \in Runs, NEW e \in Execs,
         Good(w, as, st), Claimed(w, x, r, e)
  PROVE  Good(x, as, st)
<1>1. /\ w.row[r] = "queued" /\ x.row[r] = "running" /\ \A q \in Runs : q # r => x.row[q] = w.row[q]
      /\ x.task[r[1]] = "running" /\ \A t \in Tasks : t # r[1] => x.task[t] = w.task[t]
  BY ExecOf DEF Claimed, Good, Worlds
<1>2. /\ e[1] = r /\ w.exec[e].pc = "idle"
      /\ x.exec[e].pc = "works" /\ x.exec[e].known = TRUE /\ x.exec[e].aborted = FALSE
      /\ \A f \in Execs : f # e => /\ x.exec[f].pc = w.exec[f].pc
                                   /\ w.exec[f].pc # "idle" => x.exec[f].aborted = w.exec[f].aborted
                                   /\ f[1] # r => x.exec[f] = w.exec[f]
  BY DEF Claimed, Fresh
<1>3. \A f \in Execs : f[1] = r => ~Busy(w.exec[f])
  BY <1>1, Statuses DEF Good, Worked
<1>4. \A f \in Execs : f # e => /\ Busy(x.exec[f]) <=> Busy(w.exec[f])
                                /\ Busy(x.exec[f]) => f[1] # r /\ x.exec[f] = w.exec[f]
  BY <1>2, <1>3 DEF Busy
<1>5. \A f \in Execs : f[1] \in Runs /\ f[1][1] \in Tasks
  BY ExecOf
<1>6. Worked(x)
  <2>1. \A f \in Execs : Busy(x.exec[f]) => x.row[f[1]] \in ActiveStatus \cup Ended
    BY <1>1, <1>2, <1>4, <1>5, Statuses DEF Good, Worked
  <2>2. \A f \in Execs : x.exec[f].pc # "idle" => x.row[f[1]] # "none"
    BY <1>1, <1>2, <1>5, Statuses DEF Good, Worked
  <2>3. \A f, g \in Execs : Busy(x.exec[f]) /\ Busy(x.exec[g]) /\ f[1] = g[1] => f = g
    BY <1>2, <1>3, <1>4 DEF Good, Worked
  <2>4. \A f \in Execs : Busy(x.exec[f]) /\ x.exec[f].aborted => x.row[f[1]] \in Ended
    BY <1>1, <1>2, <1>4, <1>5 DEF Good, Worked
  <2>5. ASSUME NEW q \in Runs, x.row[q] \in {"running", "steering"}
        PROVE  \E f \in Execs : f[1] = q /\ x.exec[f].pc = "works"
    <3>1. CASE q = r
      BY <1>2, <3>1
    <3>2. CASE q # r
      <4>1. PICK f \in Execs : f[1] = q /\ w.exec[f].pc = "works"
        BY <1>1, <2>5, <3>2 DEF Good, Worked
      <4> QED  BY <1>2, <3>2, <4>1
    <3> QED  BY <3>1, <3>2
  <2>6. /\ \A t \in Tasks : x.row[<<t, 1>>] = "none" => x.task[t] = "none"
        /\ \A q \in Runs : x.row[q] # "none" => x.row[<<q[1], 1>>] # "none"
    <3>1. \A q \in Runs : x.row[q] = "none" <=> w.row[q] = "none"
      BY <1>1
    <3>2. \A t \in Tasks : <<t, 1>> \in Runs
      BY SubagentAssumption DEF Runs
    <3> QED  BY <1>1, <3>1, <3>2, ExecOf DEF Good, Worked
  <2> QED  BY <2>1, <2>2, <2>3, <2>4, <2>5, <2>6 DEF Worked
<1>7. Limited(x, st)
  <2>1. ActiveRuns(x) = ActiveRuns(w) \cup {r}
    BY <1>1, Statuses DEF ActiveRuns
  <2>2. Cardinality(ActiveRuns(x)) <= GlobalLimit
    <3>1. Cardinality(ActiveRuns(w)) \in Nat /\ Cardinality(ActiveRuns(w)) < GlobalLimit
          /\ IsFiniteSet(ActiveRuns(w))
      BY FiniteSets DEF Claimed
    <3>2. Cardinality(ActiveRuns(x)) \in {Cardinality(ActiveRuns(w)), Cardinality(ActiveRuns(w)) + 1}
      BY <2>1, <3>1, FS_AddElement
    <3> QED  BY <3>1, <3>2, SubagentAssumption
  <2>3. ActiveTasks(x) \ st \in SUBSET (ActiveTasks(w) \cup {r[1]})
    BY <1>1 DEF ActiveTasks
  <2>4. IsFiniteSet(ActiveTasks(w) \cup {r[1]}) /\ Cardinality(ActiveTasks(w) \cup {r[1]}) <= ParentLimit
        /\ Cardinality(ActiveTasks(w) \cup {r[1]}) \in Nat
    <3>1. Cardinality(ActiveTasks(w)) \in Nat /\ Cardinality(ActiveTasks(w)) < ParentLimit
          /\ IsFiniteSet(ActiveTasks(w))
      BY FiniteSets DEF Claimed
    <3>2. IsFiniteSet(ActiveTasks(w) \cup {r[1]})
          /\ Cardinality(ActiveTasks(w) \cup {r[1]})
             \in {Cardinality(ActiveTasks(w)), Cardinality(ActiveTasks(w)) + 1}
      BY <3>1, FS_AddElement
    <3> QED  BY <3>1, <3>2, SubagentAssumption
  <2>5. Cardinality(ActiveTasks(x) \ st) <= Cardinality(ActiveTasks(w) \cup {r[1]})
        /\ Cardinality(ActiveTasks(x) \ st) \in Nat
    BY <2>3, <2>4, FS_Subset, FS_CardinalityType
  <2> QED  BY <2>2, <2>4, <2>5, SubagentAssumption DEF Limited
<1>8. OneOpen(x, st)
  <2> SUFFICES ASSUME NEW q \in Runs, NEW p \in Runs, q[1] \notin st, q[1] = p[1], q[2] < p[2],
                      x.row[p] # "none"
               PROVE  x.row[q] \in Ended
    BY DEF OneOpen
  <2>1. w.row[p] # "none"
    BY <1>1
  <2>2. w.row[q] \in Ended
    BY <2>1 DEF Good, OneOpen
  <2> QED  BY <1>1, <2>2, Statuses
<1>9. TaskFollows(x, st)
  <2>1. ASSUME NEW q \in Runs, q[1] \notin st, x.row[q] \in ActiveStatus PROVE x.task[q[1]] \in ActiveStatus
    BY <1>1, <2>1, ExecOf, Statuses DEF Good, TaskFollows
  <2>2. ASSUME NEW t \in Tasks \ st, x.row[<<t, 1>>] # "none",
               \A q \in Runs : q[1] = t => x.row[q] \in Ended \cup {"none"}
        PROVE  x.task[t] \in Ended
    <3>1. t # r[1]
      BY <1>1, <2>2, Statuses
    <3>2. <<t, 1>> \in Runs /\ <<t, 1>>[1] = t
      BY SubagentAssumption DEF Runs
    <3>3. w.row[<<t, 1>>] # "none" /\ \A q \in Runs : q[1] = t => w.row[q] \in Ended \cup {"none"}
      BY <1>1, <2>2, <3>1, <3>2
    <3> QED  BY <1>1, <2>2, <3>1, <3>3 DEF Good, TaskFollows
  <2> QED  BY <2>1, <2>2 DEF TaskFollows
<1>10. ExecFollows(x, st)
  <2>1. \A f \in Execs : f[1][1] \notin st /\ Busy(x.exec[f]) /\ ~x.exec[f].aborted => x.exec[f].known
    BY <1>2, <1>4 DEF Good, ExecFollows
  <2>2. \A f \in Execs : f[1][1] \notin st /\ x.exec[f].pc = "works" /\ ~x.exec[f].aborted
                           => x.row[f[1]] \in {"running", "steering"}
    BY <1>1, <1>2, <1>4, <1>5 DEF Good, ExecFollows, Busy
  <2>3. \A f \in Execs : f[1][1] \notin st /\ x.exec[f].pc = "asked" /\ ~x.exec[f].aborted
                           => x.row[f[1]] = "waiting"
    BY <1>1, <1>2, <1>4, <1>5 DEF Good, ExecFollows, Busy
  <2>4. \A f, g \in Execs : (/\ f[1][1] \notin st /\ f[1] = g[1]
                             /\ x.exec[f].pc # "idle" /\ x.exec[g].pc # "idle") => f = g
    BY <1>1, <1>2 DEF Good, ExecFollows
  <2>5. \A f \in Execs : f[1][1] \notin st /\ x.row[f[1]] = "queued" => x.exec[f].pc = "idle"
    BY <1>1, <1>2, <1>5 DEF Good, ExecFollows
  <2> QED  BY <2>1, <2>2, <2>3, <2>4, <2>5 DEF ExecFollows
<1>11. AsksFollow(x, as, st)
  BY <1>1 DEF Good, AsksFollow
<1> QED  BY <1>6, <1>7, <1>8, <1>9, <1>10, <1>11 DEF Good

-----------------------------------------------------------------------------
(* What the scheduler does to a world.                                       *)

\* It creates no run and leaves those alone that have ended.
Continues(w, x) ==
  \A q \in Runs : /\ w.row[q] = "none" <=> x.row[q] = "none"
                  /\ w.row[q] \in Ended => x.row[q] = w.row[q]

LEMMA ClaimContinues ==
  ASSUME NEW w \in Worlds, NEW r \in Runs
  PROVE  Continues(w, ClaimRun(w, r))
<1> DEFINE x == ClaimRun(w, r)
<1>1. x = w \/ Refused(w, x, r) \/ \E e \in Execs : Claimed(w, x, r, e)
  BY ClaimCases
<1> HIDE DEF x
<1>2. ASSUME x = w \/ Refused(w, x, r) PROVE Continues(w, x)
  <2>1. x.row = w.row
    BY <1>2 DEF Refused
  <2> QED  BY <2>1 DEF Continues
<1>3. ASSUME NEW e \in Execs, Claimed(w, x, r, e) PROVE Continues(w, x)
  <2>1. w.row[r] = "queued" /\ x.row[r] = "running" /\ \A q \in Runs : q # r => x.row[q] = w.row[q]
    BY <1>3 DEF Claimed, Worlds
  <2> QED  BY <2>1, Statuses DEF Continues
<1>4. Continues(w, x)
  BY <1>1, <1>2, <1>3
<1> QED  BY <1>4 DEF x

LEMMA ClaimGood ==
  ASSUME NEW w \in Worlds, NEW as \in SUBSET Runs, NEW st, NEW r \in Runs, Good(w, as, st)
  PROVE  Good(ClaimRun(w, r), as, st)
BY ClaimCases, RefusedKeeps, ClaimedKeeps

\* After its turn a queued run says so in its task, and no later one undoes that.
LEMMA ClaimSettles ==
  ASSUME NEW w \in Worlds, NEW as \in SUBSET Runs, NEW st, NEW r \in Runs, Good(w, as, st),
         NEW done \in SUBSET Runs, Settled(w, st, done)
  PROVE  Settled(ClaimRun(w, r), st, done \cup {r})
<1> DEFINE x == ClaimRun(w, r)
<1> SUFFICES ASSUME NEW q \in done \cup {r}, q[1] \notin st, x.row[q] = "queued"
             PROVE  x.task[q[1]] = "queued"
  BY DEF Settled
<1>0. q \in Runs /\ q[1] \in Tasks /\ r[1] \in Tasks /\ <<r, 1>> \in Execs
  BY ExecOf
<1>1. CASE x = w /\ (w.row[r] = "queued" => w.exec[<<r, 1>>].pc # "idle")
  <2>1. q # r
    <3> SUFFICES ASSUME q = r PROVE FALSE
      OBVIOUS
    <3>1. <<r, 1>>[1] = r
      OBVIOUS
    <3> QED  BY <1>0, <1>1, <3>1 DEF Good, ExecFollows
  <2> QED  BY <1>1, <2>1 DEF Settled
<1>2. CASE Refused(w, x, r)
  <2>1. x.row = w.row /\ x.task[r[1]] = "queued" /\ \A t \in Tasks : t # r[1] => x.task[t] = w.task[t]
    BY <1>0, <1>2 DEF Refused, Worlds
  <2> HIDE DEF x
  <2> QED  BY <1>0, <2>1 DEF Settled
<1>3. ASSUME NEW e \in Execs, Claimed(w, x, r, e) PROVE x.task[q[1]] = "queued"
  <2>1. /\ w.row[r] = "queued" /\ x.row[r] = "running" /\ \A p \in Runs : p # r => x.row[p] = w.row[p]
        /\ \A t \in Tasks : t # r[1] => x.task[t] = w.task[t]
    BY <1>0, <1>3 DEF Claimed, Worlds
  <2> HIDE DEF x
  <2>2. q # r /\ w.row[q] = "queued"
    BY <1>0, <2>1
  <2>3. q[1] # r[1]
    BY <1>0, <2>1, <2>2, OneOpenUnique, Statuses DEF Good
  <2> QED  BY <1>0, <2>1, <2>2, <2>3 DEF Settled
<1> QED  BY <1>1, <1>2, <1>3, ClaimCases

\* An execution is of a run that exists.
Owned(w) == \A e \in Execs : w.exec[e].pc # "idle" => w.row[e[1]] # "none"

LEMMA ClaimOwned ==
  ASSUME NEW w \in Worlds, NEW r \in Runs, Owned(w)
  PROVE  Owned(ClaimRun(w, r))
<1> DEFINE x == ClaimRun(w, r)
<1>1. x = w \/ Refused(w, x, r) \/ \E e \in Execs : Claimed(w, x, r, e)
  BY ClaimCases
<1>2. Continues(w, x)
  BY ClaimContinues
<1> HIDE DEF x
<1>3. ASSUME x = w \/ Refused(w, x, r) PROVE Owned(x)
  <2>1. x.row = w.row /\ x.exec = w.exec
    BY <1>3 DEF Refused
  <2> QED  BY <2>1 DEF Owned
<1>4. ASSUME NEW e \in Execs, Claimed(w, x, r, e) PROVE Owned(x)
  <2>1. e[1] = r /\ w.row[r] = "queued" /\ \A f \in Execs : f # e => x.exec[f].pc = w.exec[f].pc
    BY <1>4 DEF Claimed
  <2> QED  BY <1>2, <2>1, ExecOf DEF Owned, Continues
<1>5. Owned(x)
  BY <1>1, <1>3, <1>4
<1> QED  BY <1>5 DEF x

LEMMA ScheduleTypes ==
  ASSUME NEW w \in Worlds, NEW order \in Seq(Runs), Owned(w)
  PROVE  /\ Schedule(w, order) \in Worlds /\ Owned(Schedule(w, order))
         /\ Continues(w, Schedule(w, order))
<1> DEFINE V == [n \in 0..Len(order) |-> {x \in Worlds : Owned(x) /\ Continues(w, x)}]
<1>1. Len(order) \in Nat /\ \A i \in 1..Len(order) : order[i] \in Runs
  BY LenProperties, ElementOfSeq
<1>2. w \in V[0]
  BY <1>1 DEF Continues
<1>3. ASSUME NEW n \in 1..Len(order), NEW x \in V[n - 1] PROVE ClaimRun(x, order[n]) \in V[n]
  <2>1. n \in 0..Len(order) /\ n - 1 \in 0..Len(order)
    BY <1>1
  <2>2. x \in Worlds /\ Owned(x) /\ Continues(w, x)
    BY <2>1
  <2> DEFINE y == ClaimRun(x, order[n])
  <2>3. y \in Worlds /\ Owned(y) /\ Continues(x, y)
    BY <1>1, <2>2, ClaimCases, ClaimOwned, ClaimContinues
  <2> HIDE DEF y
  <2>4. Continues(w, y)
    BY <2>2, <2>3, Statuses DEF Continues
  <2>5. y \in V[n]
    BY <2>1, <2>3, <2>4
  <2> QED  BY <2>5 DEF y
<1> HIDE DEF V
<1>4. Schedule(w, order) \in V[Len(order)]
  BY <1>1, <1>2, <1>3, ScheduleReaches
<1>5. Len(order) \in 0..Len(order)
  BY <1>1
<1> QED  BY <1>4, <1>5 DEF V

LEMMA ScheduleKeeps ==
  ASSUME NEW w \in Worlds, NEW as \in SUBSET Runs, NEW st, NEW order \in Seq(Runs), Good(w, as, st)
  PROVE  /\ Good(Schedule(w, order), as, st)
         /\ Settled(Schedule(w, order), st, {order[i] : i \in 1..Len(order)})
<1> DEFINE First(n) == {order[i] : i \in 1..n}
           V == [n \in 0..Len(order) |->
                   {x \in Worlds : Good(x, as, st) /\ Settled(x, st, First(n))}]
<1>1. Len(order) \in Nat /\ \A i \in 1..Len(order) : order[i] \in Runs
  BY LenProperties, ElementOfSeq
<1>2. w \in V[0]
  <2>1. First(0) = {}
    OBVIOUS
  <2> HIDE DEF First
  <2> QED  BY <1>1, <2>1 DEF Settled
<1>3. ASSUME NEW n \in 1..Len(order), NEW x \in V[n - 1] PROVE ClaimRun(x, order[n]) \in V[n]
  <2>1. n \in 0..Len(order) /\ n - 1 \in 0..Len(order)
    BY <1>1
  <2>2. First(n) = First(n - 1) \cup {order[n]} /\ First(n - 1) \in SUBSET Runs
    <3>1. \A i : i \in 1..n <=> i \in 1..(n - 1) \/ i = n
      BY <1>1
    <3>2. \A i \in 1..(n - 1) : i \in 1..Len(order)
      BY <1>1
    <3> QED  BY <1>1, <3>1, <3>2
  <2> HIDE DEF First
  <2>3. x \in Worlds /\ Good(x, as, st) /\ Settled(x, st, First(n - 1))
    BY <2>1
  <2> DEFINE y == ClaimRun(x, order[n])
  <2>4. y \in Worlds /\ Good(y, as, st) /\ Settled(y, st, First(n))
    BY <1>1, <2>2, <2>3, ClaimCases, ClaimGood, ClaimSettles
  <2> HIDE DEF y
  <2>5. y \in V[n]
    BY <2>1, <2>4
  <2> QED  BY <2>5 DEF y
<1> HIDE DEF V
<1>4. Schedule(w, order) \in V[Len(order)]
  BY <1>1, <1>2, <1>3, ScheduleReaches
<1>5. Len(order) \in 0..Len(order)
  BY <1>1
<1> QED  BY <1>4, <1>5 DEF V

-----------------------------------------------------------------------------
(* A step of one run.                                                        *)

\* From w to x nothing changes but the run r, its task and its executions.
OnlyRun(w, x, r) ==
  /\ \A q \in Runs : q # r => x.row[q] = w.row[q]
  /\ \A t \in Tasks : t # r[1] => x.task[t] = w.task[t]
  /\ \A e \in Execs : e[1] # r => x.exec[e] = w.exec[e]

\* No run and no task outside st becomes active.
NoneActivated(w, x, r, st) ==
  /\ x.row[r] \in ActiveStatus => w.row[r] \in ActiveStatus
  /\ r[1] \notin st /\ x.task[r[1]] \in ActiveStatus => w.task[r[1]] \in ActiveStatus

\* What the step has to establish of r: for any subagent, ...
RunWorked(x, r) ==
  /\ x.row[r] # "none" /\ x.row[<<r[1], 1>>] # "none"
  /\ \A e \in Execs : e[1] = r /\ Busy(x.exec[e]) => x.row[r] \in ActiveStatus \cup Ended
  /\ \A e, f \in Execs : e[1] = r /\ f[1] = r /\ Busy(x.exec[e]) /\ Busy(x.exec[f]) => e = f
  /\ \A e \in Execs : e[1] = r /\ Busy(x.exec[e]) /\ x.exec[e].aborted => x.row[r] \in Ended
  /\ x.row[r] \in {"running", "steering"} => \E e \in Execs : e[1] = r /\ x.exec[e].pc = "works"

\* ... and for one whose run was not continued for a message.
RunFollows(x, r, as) ==
  /\ \A q \in Runs : q[1] = r[1] /\ r[2] < q[2] /\ x.row[q] # "none" => x.row[r] \in Ended
  /\ \A q \in Runs : q[1] = r[1] /\ q[2] < r[2] => x.row[q] \in Ended
  /\ \A q \in Runs : q[1] = r[1] /\ x.row[q] \in ActiveStatus => x.task[r[1]] \in ActiveStatus
  /\ (\A q \in Runs : q[1] = r[1] => x.row[q] \in Ended \cup {"none"}) => x.task[r[1]] \in Ended
  /\ \A e \in Execs : e[1] = r /\ Busy(x.exec[e]) /\ ~x.exec[e].aborted => x.exec[e].known
  /\ \A e \in Execs : e[1] = r /\ x.exec[e].pc = "works" /\ ~x.exec[e].aborted
                        => x.row[r] \in {"running", "steering"}
  /\ \A e \in Execs : e[1] = r /\ x.exec[e].pc = "asked" /\ ~x.exec[e].aborted => x.row[r] = "waiting"
  /\ \A e, f \in Execs : (/\ e[1] = r /\ f[1] = r
                          /\ x.exec[e].pc # "idle" /\ x.exec[f].pc # "idle") => e = f
  /\ \A e \in Execs : e[1] = r /\ x.row[r] = "queued" => x.exec[e].pc = "idle"
  /\ r \in as => x.row[r] = "waiting"

LEMMA OneRunStep ==
  ASSUME NEW w, NEW x \in Worlds, NEW r \in Runs, NEW as, NEW as2, NEW st, NEW st2,
         as2 \in SUBSET Runs, as2 \subseteq as \cup {r}, st \subseteq st2,
         Good(w, as, st), OnlyRun(w, x, r), NoneActivated(w, x, r, st2),
         RunWorked(x, r), r[1] \notin st2 => RunFollows(x, r, as2)
  PROVE  Good(x, as2, st2)
<1>1. /\ \A q \in Runs : q # r => x.row[q] = w.row[q]
      /\ \A t \in Tasks : t # r[1] => x.task[t] = w.task[t]
      /\ \A e \in Execs : e[1] # r => x.exec[e] = w.exec[e]
  BY DEF OnlyRun
<1>2. Worked(w) /\ Limited(w, st) /\ OneOpen(w, st) /\ TaskFollows(w, st)
      /\ ExecFollows(w, st) /\ AsksFollow(w, as, st)
  BY DEF Good
<1>3. Worked(x)
  <2>1. \A e \in Execs : Busy(x.exec[e]) => x.row[e[1]] \in ActiveStatus \cup Ended
    BY <1>1, <1>2, ExecOf DEF Worked, RunWorked
  <2>2. \A e \in Execs : x.exec[e].pc # "idle" => x.row[e[1]] # "none"
    BY <1>1, <1>2, ExecOf DEF Worked, RunWorked
  <2>3. \A e, f \in Execs : Busy(x.exec[e]) /\ Busy(x.exec[f]) /\ e[1] = f[1] => e = f
    BY <1>1, <1>2 DEF Worked, RunWorked
  <2>4. \A e \in Execs : Busy(x.exec[e]) /\ x.exec[e].aborted => x.row[e[1]] \in Ended
    BY <1>1, <1>2, ExecOf DEF Worked, RunWorked
  <2>5. ASSUME NEW q \in Runs, x.row[q] \in {"running", "steering"}
        PROVE  \E e \in Execs : e[1] = q /\ x.exec[e].pc = "works"
    <3>1. CASE q = r
      BY <2>5, <3>1 DEF RunWorked
    <3>2. CASE q # r
      <4>1. PICK e \in Execs : e[1] = q /\ w.exec[e].pc = "works"
        BY <1>1, <1>2, <2>5, <3>2 DEF Worked
      <4> QED  BY <1>1, <3>2, <4>1
    <3> QED  BY <3>1, <3>2
  <2>6. ASSUME NEW t \in Tasks, x.row[<<t, 1>>] = "none" PROVE x.task[t] = "none"
    <3>1. t # r[1]
      BY <2>6 DEF RunWorked
    <3>2. <<t, 1>> \in Runs /\ <<t, 1>> # r
      BY <3>1, SubagentAssumption DEF Runs
    <3> QED  BY <1>1, <1>2, <2>6, <3>1, <3>2 DEF Worked
  <2>7. ASSUME NEW q \in Runs, x.row[q] # "none" PROVE x.row[<<q[1], 1>>] # "none"
    <3>1. CASE q[1] = r[1]
      BY <3>1 DEF RunWorked
    <3>2. CASE q[1] # r[1]
      <4>1. <<q[1], 1>> \in Runs /\ <<q[1], 1>> # r /\ q # r
        BY <3>2, ExecOf, SubagentAssumption DEF Runs
      <4> QED  BY <1>1, <1>2, <2>7, <4>1 DEF Worked
    <3> QED  BY <3>1, <3>2
  <2> QED  BY <2>1, <2>2, <2>3, <2>4, <2>5, <2>6, <2>7 DEF Worked
<1>4. Limited(x, st2)
  <2>1. ActiveRuns(x) \in SUBSET ActiveRuns(w)
    BY <1>1 DEF ActiveRuns, NoneActivated
  <2>2. ActiveTasks(x) \ st2 \in SUBSET (ActiveTasks(w) \ st)
    BY <1>1 DEF ActiveTasks, NoneActivated
  <2>3. Cardinality(ActiveRuns(x)) <= Cardinality(ActiveRuns(w))
    BY <2>1, FiniteSets, FS_Subset
  <2>4. IsFiniteSet(ActiveTasks(w) \ st)
    BY FiniteSets, FS_Difference
  <2>5. Cardinality(ActiveTasks(x) \ st2) <= Cardinality(ActiveTasks(w) \ st)
        /\ Cardinality(ActiveTasks(x) \ st2) \in Nat /\ Cardinality(ActiveTasks(w) \ st) \in Nat
    BY <2>2, <2>4, FS_Subset, FS_CardinalityType
  <2> QED  BY <1>2, <2>3, <2>5, FiniteSets, SubagentAssumption DEF Limited
<1>5. OneOpen(x, st2)
  <2> SUFFICES ASSUME NEW q \in Runs, NEW p \in Runs, q[1] \notin st2, q[1] = p[1], q[2] < p[2],
                      x.row[p] # "none"
               PROVE  x.row[q] \in Ended
    BY DEF OneOpen
  <2>1. CASE q = r \/ p = r
    BY <2>1 DEF RunFollows
  <2>2. CASE q # r /\ p # r
    BY <1>1, <1>2, <2>2 DEF OneOpen
  <2> QED  BY <2>1, <2>2
<1>6. TaskFollows(x, st2)
  <2>1. ASSUME NEW q \in Runs, q[1] \notin st2, x.row[q] \in ActiveStatus PROVE x.task[q[1]] \in ActiveStatus
    <3>1. CASE q[1] = r[1]
      BY <2>1, <3>1 DEF RunFollows
    <3>2. CASE q[1] # r[1]
      BY <1>1, <1>2, <2>1, <3>2, ExecOf DEF TaskFollows
    <3> QED  BY <3>1, <3>2
  <2>2. ASSUME NEW t \in Tasks \ st2, x.row[<<t, 1>>] # "none",
               \A q \in Runs : q[1] = t => x.row[q] \in Ended \cup {"none"}
        PROVE  x.task[t] \in Ended
    <3>1. CASE t = r[1]
      BY <2>2, <3>1 DEF RunFollows
    <3>2. CASE t # r[1]
      <4>1. <<t, 1>> \in Runs /\ <<t, 1>> # r
        BY <3>2, SubagentAssumption DEF Runs
      <4> QED  BY <1>1, <1>2, <2>2, <3>2, <4>1 DEF TaskFollows
    <3> QED  BY <3>1, <3>2
  <2> QED  BY <2>1, <2>2 DEF TaskFollows
<1>7. ExecFollows(x, st2)
  <2>1. \A e \in Execs : e[1][1] \notin st2 /\ Busy(x.exec[e]) /\ ~x.exec[e].aborted => x.exec[e].known
    BY <1>1, <1>2 DEF ExecFollows, RunFollows
  <2>2. \A e \in Execs : e[1][1] \notin st2 /\ x.exec[e].pc = "works" /\ ~x.exec[e].aborted
                           => x.row[e[1]] \in {"running", "steering"}
    BY <1>1, <1>2, ExecOf DEF ExecFollows, RunFollows
  <2>3. \A e \in Execs : e[1][1] \notin st2 /\ x.exec[e].pc = "asked" /\ ~x.exec[e].aborted
                           => x.row[e[1]] = "waiting"
    BY <1>1, <1>2, ExecOf DEF ExecFollows, RunFollows
  <2>4. \A e, f \in Execs : (/\ e[1][1] \notin st2 /\ e[1] = f[1]
                             /\ x.exec[e].pc # "idle" /\ x.exec[f].pc # "idle") => e = f
    BY <1>1, <1>2 DEF ExecFollows, RunFollows
  <2>5. \A e \in Execs : e[1][1] \notin st2 /\ x.row[e[1]] = "queued" => x.exec[e].pc = "idle"
    BY <1>1, <1>2, ExecOf DEF ExecFollows, RunFollows
  <2> QED  BY <2>1, <2>2, <2>3, <2>4, <2>5 DEF ExecFollows
<1>8. AsksFollow(x, as2, st2)
  BY <1>1, <1>2 DEF AsksFollow, RunFollows
<1> QED  BY <1>3, <1>4, <1>5, <1>6, <1>7, <1>8 DEF Good

LEMMA OneRunSettled ==
  ASSUME NEW w, NEW x, NEW r \in Runs, NEW st, NEW st2, st \subseteq st2, OnlyRun(w, x, r),
         Settled(w, st, Runs),
         r[1] \notin st2 => \A q \in Runs : q[1] = r[1] /\ x.row[q] = "queued" => x.task[r[1]] = "queued"
  PROVE  Settled(x, st2, Runs)
BY ExecOf DEF Settled, OnlyRun

\* While a run of a subagent outside st has not ended, no other has not.
LEMMA OthersEnded ==
  ASSUME NEW w, NEW st, NEW r \in Runs, OneOpen(w, st), r[1] \notin st,
         w.row[r] \notin Ended \cup {"none"}
  PROVE  /\ \A q \in Runs : q[1] = r[1] /\ q # r => w.row[q] \in Ended \cup {"none"}
         /\ \A q \in Runs : q[1] = r[1] /\ q[2] < r[2] => w.row[q] \in Ended
         /\ \A q \in Runs : q[1] = r[1] /\ r[2] < q[2] => w.row[q] = "none"
<1>1. \A q \in Runs : q[1] = r[1] /\ q # r => w.row[q] \in Ended \cup {"none"}
  BY OneOpenUnique
<1> QED  BY <1>1 DEF OneOpen

-----------------------------------------------------------------------------
(* The invariant.                                                            *)

W(r, t, e) == [row |-> r, task |-> t, exec |-> e]
World == W(row, task, exec)

\* The runs of a subagent are numbered from 1 in the order of their creation.
InOrder ==
  \A t \in Tasks : \E k \in 0..Len(born) :
    \A g \in 1..MaxRuns : row[<<t, g>>] # "none" <=> g <= k

RowsInv ==
  /\ born \in Seq(Runs) /\ Len(born) <= MaxRuns
  /\ World \in Worlds /\ Owned(World)
  /\ \A r \in Runs : row[r] # "none" <=> r \in Range(born)
  /\ InOrder
  /\ asks \subseteq Runs /\ \A r \in asks : row[r] # "none"
  /\ pend \subseteq Runs /\ \A r \in pend : row[r] # "none"

RestInv ==
  /\ parent \in {"running", "waiting", "queued"} \cup Ended
  /\ ckpt \in [mode : {"none", "all", "any"}, runs : SUBSET Runs]
  /\ atWork \in 0..MaxWakes
  /\ wakes \in 0..MaxWakes /\ launches \in 0..MaxWakes
  /\ steered \subseteq Tasks

GoodInv == Good(World, asks, steered) /\ Settled(World, steered, Runs)

LEMMA RowsTypes ==
  ASSUME RowsInv
  PROVE  /\ row \in [Runs -> RunStatus] /\ task \in [Tasks -> RunStatus]
         /\ exec \in [Execs -> Executions]
         /\ World.row = row /\ World.task = task /\ World.exec = exec
         /\ \A e \in Execs : exec[e].pc # "idle" => row[e[1]] # "none"
BY DEF RowsInv, Worlds, World, W, Owned

LEMMA CurrentRun ==
  ASSUME RowsInv, NEW t \in Tasks
  PROVE  \E k \in 0..Len(born) :
           /\ k <= MaxRuns /\ Current(t) = <<t, k>> /\ Current(t)[1] = t /\ Current(t)[2] = k
           /\ \A g \in 1..MaxRuns : row[<<t, g>>] # "none" <=> g <= k
           /\ Exists(t) <=> k >= 1
           /\ Exists(t) => Current(t) \in Runs /\ row[Current(t)] # "none"
<1>1. PICK k \in 0..Len(born) : \A g \in 1..MaxRuns : row[<<t, g>>] # "none" <=> g <= k
  BY DEF RowsInv, InOrder
<1>2. k \in Nat /\ k <= MaxRuns /\ MaxRuns \in Nat /\ 1 \in 1..MaxRuns
  <2>1. Len(born) \in Nat /\ Len(born) <= MaxRuns
    BY LenProperties DEF RowsInv
  <2> QED  BY <2>1, SubagentAssumption
<1>3. {g \in 1..MaxRuns : row[<<t, g>>] # "none"} = 1..k
  BY <1>1, <1>2
<1>4. Cardinality(1..k) = k
  BY <1>2, FS_Interval
<1>5. Current(t) = <<t, k>>
  BY <1>3, <1>4 DEF Current
<1>6. Exists(t) <=> k >= 1
  BY <1>1, <1>2 DEF Exists
<1>7. k >= 1 => <<t, k>> \in Runs /\ row[<<t, k>>] # "none"
  BY <1>1, <1>2 DEF Runs
<1> QED  BY <1>1, <1>2, <1>5, <1>6, <1>7

\* Nothing is created.
LEMMA KeepsRows ==
  ASSUME RowsInv, born' = born, World' \in Worlds, Owned(World)',
         \A q \in Runs : row'[q] = "none" <=> row[q] = "none",
         \A q \in asks' : q \in asks \/ (q \in Runs /\ row[q] # "none"),
         \A q \in pend' : q \in pend \/ (q \in Runs /\ row[q] # "none")
  PROVE  RowsInv'
<1>1. /\ born' \in Seq(Runs) /\ Len(born') <= MaxRuns
      /\ \A r \in Runs : row'[r] # "none" <=> r \in Range(born')
  BY DEF RowsInv
<1>2. InOrder'
  <2> SUFFICES ASSUME NEW t \in Tasks
               PROVE  \E k \in 0..Len(born') : \A g \in 1..MaxRuns : row'[<<t, g>>] # "none" <=> g <= k
    BY DEF InOrder
  <2>1. PICK k \in 0..Len(born) : \A g \in 1..MaxRuns : row[<<t, g>>] # "none" <=> g <= k
    BY DEF RowsInv, InOrder
  <2>2. \A g \in 1..MaxRuns : <<t, g>> \in Runs
    BY DEF Runs
  <2> QED  BY <2>1, <2>2
<1>3. /\ asks' \subseteq Runs /\ \A r \in asks' : row'[r] # "none"
      /\ pend' \subseteq Runs /\ \A r \in pend' : row'[r] # "none"
  BY DEF RowsInv
<1> QED  BY <1>1, <1>2, <1>3 DEF RowsInv

\* The next run of a subagent is created.
LEMMA AddsRun ==
  ASSUME RowsInv, NEW t \in Tasks, NEW k \in Nat, Current(t) = <<t, k>>, Len(born) < MaxRuns,
         born' = Append(born, <<t, k + 1>>), World' \in Worlds, Owned(World)',
         \A q \in Runs : row'[q] = "none" <=> row[q] = "none" /\ q # <<t, k + 1>>,
         asks' = asks, pend' = pend
  PROVE  RowsInv'
<1> DEFINE r == <<t, k + 1>>
<1>1. PICK c \in 0..Len(born) :
        Current(t)[2] = c /\ \A g \in 1..MaxRuns : row[<<t, g>>] # "none" <=> g <= c
  BY CurrentRun
<1>2. c = k /\ Len(born) \in Nat /\ MaxRuns \in Nat /\ k + 1 \in 1..MaxRuns
  BY <1>1, LenProperties, SubagentAssumption DEF RowsInv
<1>3. r \in Runs /\ row[r] = "none"
  BY <1>1, <1>2 DEF Runs
<1>4. born' \in Seq(Runs) /\ Len(born') = Len(born) + 1
  BY <1>3, AppendProperties DEF RowsInv
<1>5. Range(born') = Range(born) \cup {r}
  <2>1. /\ DOMAIN born = 1..Len(born) /\ DOMAIN born' = 1..(Len(born) + 1)
        /\ born'[Len(born) + 1] = r /\ \A i \in 1..Len(born) : born'[i] = born[i]
    BY <1>3, <1>4, AppendProperties, LenProperties DEF RowsInv
  <2>2. \A i : i \in 1..(Len(born) + 1) <=> i \in 1..Len(born) \/ i = Len(born) + 1
    BY <1>2
  <2> QED  BY <2>1, <2>2 DEF Range
<1>6. \A q \in Runs : row'[q] # "none" <=> q \in Range(born')
  BY <1>5 DEF RowsInv
<1>7. InOrder'
  <2> SUFFICES ASSUME NEW u \in Tasks
               PROVE  \E n \in 0..Len(born') : \A g \in 1..MaxRuns : row'[<<u, g>>] # "none" <=> g <= n
    BY DEF InOrder
  <2>1. \A g \in 1..MaxRuns : <<u, g>> \in Runs
    BY DEF Runs
  <2>2. CASE u = t
    <3>1. \A g \in 1..MaxRuns : row'[<<t, g>>] # "none" <=> g <= k \/ g = k + 1
      BY <1>1, <1>2, <2>1, <2>2
    <3>2. \A g \in 1..MaxRuns : row'[<<t, g>>] # "none" <=> g <= k + 1
      BY <1>2, <3>1
    <3>3. k + 1 \in 0..Len(born')
      BY <1>1, <1>2, <1>4
    <3> QED  BY <2>2, <3>2, <3>3
  <2>3. CASE u # t
    <3>1. PICK n \in 0..Len(born) : \A g \in 1..MaxRuns : row[<<u, g>>] # "none" <=> g <= n
      BY DEF RowsInv, InOrder
    <3>2. n \in 0..Len(born')
      BY <1>2, <1>4
    <3> QED  BY <2>1, <2>3, <3>1, <3>2
  <2> QED  BY <2>2, <2>3
<1>8. /\ asks' \subseteq Runs /\ \A q \in asks' : row'[q] # "none"
      /\ pend' \subseteq Runs /\ \A q \in pend' : row'[q] # "none"
  BY DEF RowsInv
<1>9. Len(born') <= MaxRuns
  BY <1>2, <1>4
<1> QED  BY <1>4, <1>6, <1>7, <1>8, <1>9 DEF RowsInv

\* What schedule() leaves behind when it starts from w.
LEMMA ScheduledTypes ==
  ASSUME NEW nr \in [Runs -> RunStatus], NEW nt \in [Tasks -> RunStatus],
         NEW ne \in [Execs -> Executions], NEW order \in Seq(Runs),
         \A e \in Execs : ne[e].pc # "idle" => nr[e[1]] # "none",
         Scheduled(nr, nt, ne, order)
  PROVE  /\ World' = Schedule(W(nr, nt, ne), order) /\ W(nr, nt, ne) \in Worlds
         /\ World' \in Worlds /\ Owned(World)'
         /\ \A q \in Runs : row'[q] = "none" <=> nr[q] = "none"
         /\ \A q \in Runs : nr[q] \in Ended => row'[q] = nr[q]
<1> DEFINE w == W(nr, nt, ne)
           x == Schedule(w, order)
<1>1. w \in Worlds /\ Owned(w) /\ w.row = nr
  BY DEF W, Worlds, Owned
<1>2. x \in Worlds /\ Owned(x) /\ Continues(w, x)
  BY <1>1, ScheduleTypes
<1>3. row' = x.row /\ task' = x.task /\ exec' = x.exec
  BY DEF Scheduled, W
<1> HIDE DEF w, x
<1>4. x = [row |-> x.row, task |-> x.task, exec |-> x.exec]
  BY <1>2 DEF Worlds
<1>5. World' = x
  BY <1>3, <1>4 DEF World, W
<1>6. \A q \in Runs : /\ row'[q] = "none" <=> nr[q] = "none"
                      /\ nr[q] \in Ended => row'[q] = nr[q]
  BY <1>1, <1>2, <1>3 DEF Continues
<1>7. Owned(World)'
  BY <1>2, <1>5 DEF Owned
<1> QED  BY <1>1, <1>2, <1>5, <1>6, <1>7 DEF w, x

LEMMA ScheduledGood ==
  ASSUME NEW nr \in [Runs -> RunStatus], NEW nt \in [Tasks -> RunStatus],
         NEW ne \in [Execs -> Executions],
         \A e \in Execs : ne[e].pc # "idle" => nr[e[1]] # "none",
         RowsInv', Scheduled(nr, nt, ne, born'), Good(W(nr, nt, ne), asks', steered')
  PROVE  GoodInv'
<1>1. born' \in Seq(Runs) /\ asks' \in SUBSET Runs
  BY DEF RowsInv
<1>2. World' = Schedule(W(nr, nt, ne), born') /\ W(nr, nt, ne) \in Worlds
  BY <1>1, ScheduledTypes
<1>3. /\ Good(World', asks', steered')
      /\ Settled(World', steered', {born'[i] : i \in 1..Len(born')})
  BY <1>1, <1>2, ScheduleKeeps
<1>4. Settled(World', steered', Runs)
  <2> SUFFICES ASSUME NEW q \in Runs, q[1] \notin steered', row'[q] = "queued"
               PROVE  task'[q[1]] = "queued"
    BY DEF Settled, World, W
  <2>1. q \in Range(born')
    BY DEF RowsInv
  <2>2. q \in {born'[i] : i \in 1..Len(born')}
    BY <1>1, <2>1, LenProperties DEF Range
  <2> QED  BY <1>3, <2>2 DEF Settled, World, W
<1> QED  BY <1>3, <1>4 DEF GoodInv

-----------------------------------------------------------------------------
(* The parts of the steps.                                                   *)

\* A run that has ended keeps its status, unless it is that of a subagent whose
\* run was continued for a message.
EndedKept == \A r \in Runs : row[r] \in Ended /\ r[1] \notin steered => row'[r] = row[r]

LEMMA RowUpdate ==
  ASSUME RowsInv, NEW r \in Runs, NEW v \in RunStatus
  PROVE  /\ SetRun(r, v) \in [Runs -> RunStatus] /\ SetRun(r, v)[r] = v
         /\ \A q \in Runs : q # r => SetRun(r, v)[q] = row[q]
         /\ SetTask(r, v) \in [Tasks -> RunStatus] /\ SetTask(r, v)[r[1]] = v
         /\ \A t \in Tasks : t # r[1] => SetTask(r, v)[t] = task[t]
BY RowsTypes, ExecOf DEF SetRun, SetTask

LEMMA RunIsFacts ==
  ASSUME RowsInv, NEW r \in Runs, NEW v \in RunStatus, RunIs(r, v)
  PROVE  /\ row' \in [Runs -> RunStatus] /\ task' \in [Tasks -> RunStatus]
         /\ row'[r] = v /\ task'[r[1]] = v
         /\ \A q \in Runs : q # r => row'[q] = row[q]
         /\ \A t \in Tasks : t # r[1] => task'[t] = task[t]
BY RowUpdate DEF RunIs

LEMMA ExecMoves ==
  ASSUME RowsInv, NEW e \in Execs, exec[e].pc # "idle", NEW pc \in {"works", "asked", "ends"}
  PROVE  /\ Moves(e, pc) \in [Execs -> Executions]
         /\ Moves(e, pc)[e].pc = pc
         /\ Moves(e, pc)[e].known = exec[e].known /\ Moves(e, pc)[e].aborted = exec[e].aborted
         /\ \A f \in Execs : f # e => Moves(e, pc)[f] = exec[f]
<1>1. exec \in [Execs -> Executions] /\ exec[e] \in Executions
  BY RowsTypes
<1>2. exec[e] \in [pc : {"works", "asked", "ends"}, known : BOOLEAN, aborted : BOOLEAN]
  BY <1>1, ExecutionFields
<1> DEFINE x == [exec[e] EXCEPT !.pc = pc]
<1>3. /\ x \in [pc : {"works", "asked", "ends"}, known : BOOLEAN, aborted : BOOLEAN]
      /\ x.pc = pc /\ x.known = exec[e].known /\ x.aborted = exec[e].aborted
  BY <1>2
<1>4. Moves(e, pc)[e] = x /\ \A f \in Execs : f # e => Moves(e, pc)[f] = exec[f]
  BY <1>1 DEF Moves
<1>5. Moves(e, pc) = [f \in Execs |-> Moves(e, pc)[f]]
  BY <1>1 DEF Moves
<1> HIDE DEF x
<1>6. \A f \in Execs : Moves(e, pc)[f] \in Executions
  BY <1>1, <1>3, <1>4 DEF Executions
<1> QED  BY <1>3, <1>4, <1>5, <1>6

\* schedule() is called and nothing else happens to the subagents.
LEMMA JustSchedules ==
  ASSUME RowsInv, Scheduled(row, task, exec, born),
         born' = born, asks' = asks, pend' = pend, steered' = steered
  PROVE  RowsInv' /\ (GoodInv => GoodInv') /\ EndedKept
<1>1. /\ row \in [Runs -> RunStatus] /\ task \in [Tasks -> RunStatus]
      /\ exec \in [Execs -> Executions] /\ born \in Seq(Runs)
      /\ \A e \in Execs : exec[e].pc # "idle" => row[e[1]] # "none"
  BY RowsTypes DEF RowsInv
<1>2. /\ World' \in Worlds /\ Owned(World)'
      /\ \A q \in Runs : row'[q] = "none" <=> row[q] = "none"
      /\ \A q \in Runs : row[q] \in Ended => row'[q] = row[q]
  BY <1>1, ScheduledTypes
<1>3. RowsInv'
  BY <1>2, KeepsRows
<1>4. GoodInv => GoodInv'
  BY <1>1, <1>3, ScheduledGood DEF GoodInv, World
<1> QED  BY <1>2, <1>3, <1>4 DEF EndedKept

\* A run is created and schedule() called.
LEMMA CreatesRun ==
  ASSUME RowsInv, NEW t \in Tasks, NEW k \in Nat, Current(t) = <<t, k>>, Len(born) < MaxRuns,
         k = 0 \/ row[<<t, k>>] \in Ended, born' = Append(born, <<t, k + 1>>),
         Scheduled([row EXCEPT ![<<t, k + 1>>] = "queued"], [task EXCEPT ![t] = "queued"],
                   exec, born'),
         asks' = asks, pend' = pend, steered' = steered
  PROVE  RowsInv' /\ (GoodInv => GoodInv') /\ EndedKept
<1> DEFINE r == <<t, k + 1>>
           nr == [row EXCEPT ![r] = "queued"]
           nt == [task EXCEPT ![t] = "queued"]
           x == W(nr, nt, exec)
<1>1. PICK c \in 0..Len(born) :
        Current(t)[2] = c /\ \A g \in 1..MaxRuns : row[<<t, g>>] # "none" <=> g <= c
  BY CurrentRun
<1>2. c = k /\ Len(born) \in Nat /\ MaxRuns \in Nat /\ k + 1 \in 1..MaxRuns
  BY <1>1, LenProperties, SubagentAssumption DEF RowsInv
<1>3. r \in Runs /\ row[r] = "none" /\ r[1] = t /\ r[2] = k + 1
  BY <1>1, <1>2 DEF Runs
<1>4. /\ row \in [Runs -> RunStatus] /\ task \in [Tasks -> RunStatus]
      /\ exec \in [Execs -> Executions] /\ born' \in Seq(Runs)
      /\ \A e \in Execs : exec[e].pc # "idle" => row[e[1]] # "none"
  BY <1>3, RowsTypes, AppendProperties DEF RowsInv
<1>5. "queued" \in RunStatus
  BY Statuses
<1>6. /\ nr \in [Runs -> RunStatus] /\ nr[r] = "queued" /\ \A q \in Runs : q # r => nr[q] = row[q]
      /\ nt \in [Tasks -> RunStatus] /\ nt[t] = "queued" /\ \A u \in Tasks : u # t => nt[u] = task[u]
  BY <1>3, <1>4, <1>5
<1>7. Scheduled(nr, nt, exec, born')
  OBVIOUS
<1>8. born' = Append(born, r)
  OBVIOUS
<1>9. x.row = nr /\ x.task = nt /\ x.exec = exec
  BY DEF W
<1> HIDE DEF nr, nt, x, r
<1>10. \A e \in Execs : exec[e].pc # "idle" => nr[e[1]] # "none" /\ e[1] # r
  BY <1>3, <1>4, <1>6, ExecOf
<1>11. /\ World' \in Worlds /\ Owned(World)' /\ x \in Worlds
       /\ \A q \in Runs : row'[q] = "none" <=> nr[q] = "none"
       /\ \A q \in Runs : nr[q] \in Ended => row'[q] = nr[q]
  BY <1>4, <1>6, <1>7, <1>10, ScheduledTypes DEF x
<1>12. RowsInv'
  <2>1. \A q \in Runs : row'[q] = "none" <=> row[q] = "none" /\ q # r
    BY <1>3, <1>6, <1>11
  <2> QED  BY <1>8, <1>11, <2>1, AddsRun DEF r
<1>13. EndedKept
  BY <1>3, <1>6, <1>11, Statuses DEF EndedKept
<1>14. ASSUME GoodInv PROVE Good(x, asks', steered')
  <2>1. Good(World, asks, steered) /\ World.row = row /\ World.task = task /\ World.exec = exec
    BY <1>14, RowsTypes DEF GoodInv
  <2>2. OnlyRun(World, x, r)
    BY <1>3, <1>6, <1>9, <2>1 DEF OnlyRun
  <2>3. NoneActivated(World, x, r, steered)
    BY <1>3, <1>6, <1>9, <2>1, Statuses DEF NoneActivated
  <2>4. nr[<<t, 1>>] # "none"
    <3>1. <<t, 1>> \in Runs
      BY SubagentAssumption DEF Runs
    <3>2. CASE k = 0
      BY <1>6, <3>2, Statuses DEF r
    <3>3. CASE k # 0
      <4>1. 1 \in 1..MaxRuns /\ 1 <= c
        BY <1>2, <3>3
      <4> QED  BY <1>1, <1>6, <3>1, <4>1, Statuses
    <3> QED  BY <3>2, <3>3
  <2>5. RunWorked(x, r)
    BY <1>3, <1>6, <1>9, <1>10, <2>4, Statuses DEF RunWorked, Busy
  <2>6. ASSUME r[1] \notin steered PROVE RunFollows(x, r, asks)
    <3>1. ASSUME NEW q \in Runs, q[1] = t, r[2] < q[2] PROVE row[q] = "none" /\ q # r
      <4>1. q = <<t, q[2]>> /\ q[2] \in 1..MaxRuns
        BY <3>1, ExecOf
      <4>2. ~(q[2] <= c)
        BY <1>2, <1>3, <3>1, <4>1
      <4> QED  BY <1>1, <1>2, <1>3, <3>1, <4>1, <4>2
    <3>2. ASSUME NEW q \in Runs, q[1] = t, q[2] < r[2] PROVE nr[q] \in Ended
      <4>1. q = <<t, q[2]>> /\ q[2] \in 1..MaxRuns
        BY <3>2, ExecOf
      <4>2. q[2] <= k /\ k # 0 /\ q # r /\ <<t, k>> \in Runs
        BY <1>2, <1>3, <3>2, <4>1 DEF Runs
      <4>3. row[<<t, k>>] \in Ended /\ <<t, k>>[1] = t /\ <<t, k>>[2] = k
        BY <4>2
      <4>4. CASE q[2] = k
        BY <1>6, <4>1, <4>2, <4>3, <4>4
      <4>5. CASE q[2] < k
        <5>1. OneOpen(World, steered)
          BY <2>1 DEF Good
        <5>2. row[q] \in Ended
          BY <1>3, <2>1, <2>6, <3>2, <4>2, <4>3, <4>5, <5>1, Statuses DEF OneOpen
        <5> QED  BY <1>6, <4>2, <5>2
      <4> QED  BY <1>2, <4>1, <4>2, <4>4, <4>5
    <3>3. \A q \in Runs : q[1] = r[1] => nr[q] \in Ended \cup {"none", "queued"}
      <4> SUFFICES ASSUME NEW q \in Runs, q[1] = t PROVE nr[q] \in Ended \cup {"none", "queued"}
        BY <1>3
      <4>1. q = <<t, q[2]>> /\ q[2] \in 1..MaxRuns
        BY ExecOf
      <4>2. q[2] < r[2] \/ q[2] = r[2] \/ r[2] < q[2]
        BY <1>2, <1>3, <4>1
      <4>3. q[2] = r[2] => q = r
        BY <1>3, <4>1 DEF r
      <4> QED  BY <1>6, <3>1, <3>2, <4>2, <4>3
    <3>4. r \notin asks
      BY <1>3 DEF RowsInv
    <3>5. \A q \in Runs : q[1] = r[1] /\ r[2] < q[2] => nr[q] = "none"
      BY <1>3, <1>6, <3>1
    <3>6. \A e \in Execs : e[1] = r => exec[e].pc = "idle"
      BY <1>10
    <3>7. \A q \in Runs : q[1] = r[1] => nr[q] \notin ActiveStatus
      BY <3>3, Statuses
    <3>8. ~ \A q \in Runs : q[1] = r[1] => nr[q] \in Ended \cup {"none"}
      BY <1>3, <1>6, Statuses
    <3>9. \A q \in Runs : q[1] = r[1] /\ q[2] < r[2] => nr[q] \in Ended
      BY <1>3, <3>2
    <3> QED  BY <1>9, <3>4, <3>5, <3>6, <3>7, <3>8, <3>9 DEF RunFollows, Busy
  <2>7. asks \in SUBSET Runs
    BY DEF RowsInv
  <2> QED  BY <1>3, <1>11, <2>1, <2>2, <2>3, <2>5, <2>6, <2>7, OneRunStep
<1>15. GoodInv => GoodInv'
  BY <1>4, <1>6, <1>7, <1>10, <1>12, <1>14, ScheduledGood DEF x
<1> QED  BY <1>12, <1>13, <1>15

\* A run that waits, or any run of a subagent whose run was continued for a
\* message, is queued again and schedule() called.
LEMMA Requeues ==
  ASSUME RowsInv, NEW r \in Runs, row[r] # "none",
         Scheduled(SetRun(r, "queued"), task, exec, born),
         born' = born, asks' = asks \ {r}, pend' = pend, steered' = steered
  PROVE  /\ RowsInv'
         /\ GoodInv /\ Live(r) = {} /\ (r[1] \notin steered => row[r] \in {"queued", "waiting"})
              => GoodInv' /\ EndedKept
<1> DEFINE nr == SetRun(r, "queued")
           x == W(nr, task, exec)
<1>1. /\ row \in [Runs -> RunStatus] /\ task \in [Tasks -> RunStatus]
      /\ exec \in [Execs -> Executions] /\ born \in Seq(Runs)
      /\ \A e \in Execs : exec[e].pc # "idle" => row[e[1]] # "none"
  BY RowsTypes DEF RowsInv
<1>2. nr \in [Runs -> RunStatus] /\ nr[r] = "queued" /\ \A q \in Runs : q # r => nr[q] = row[q]
  BY RowUpdate, Statuses
<1>3. Scheduled(nr, task, exec, born)
  OBVIOUS
<1>4. x.row = nr /\ x.task = task /\ x.exec = exec
  BY DEF W
<1> HIDE DEF nr, x
<1>5. \A e \in Execs : exec[e].pc # "idle" => nr[e[1]] # "none"
  BY <1>1, <1>2, ExecOf
<1>6. /\ World' \in Worlds /\ Owned(World)' /\ x \in Worlds
      /\ \A q \in Runs : row'[q] = "none" <=> nr[q] = "none"
      /\ \A q \in Runs : nr[q] \in Ended => row'[q] = nr[q]
  BY <1>1, <1>2, <1>3, <1>5, ScheduledTypes DEF x
<1>7. RowsInv'
  <2>1. \A q \in Runs : row'[q] = "none" <=> row[q] = "none"
    BY <1>2, <1>6
  <2> QED  BY <1>6, <2>1, KeepsRows
<1>8. ASSUME GoodInv, Live(r) = {}, r[1] \notin steered => row[r] \in {"queued", "waiting"}
      PROVE  Good(x, asks', steered')
  <2>1. Good(World, asks, steered) /\ World.row = row /\ World.task = task /\ World.exec = exec
    BY <1>8, RowsTypes DEF GoodInv
  <2>2. OnlyRun(World, x, r)
    BY <1>2, <1>4, <2>1 DEF OnlyRun
  <2>3. NoneActivated(World, x, r, steered)
    BY <1>2, <1>4, <2>1, Statuses DEF NoneActivated
  <2>4. \A e \in Execs : e[1] = r => exec[e].pc = "idle"
    BY <1>8, ExecOf DEF Live
  <2>5. nr[<<r[1], 1>>] # "none"
    <3>1. <<r[1], 1>> \in Runs
      BY ExecOf, SubagentAssumption DEF Runs
    <3> QED  BY <1>2, <2>1, <3>1 DEF Good, Worked
  <2>6. RunWorked(x, r)
    BY <1>2, <1>4, <2>4, <2>5, Statuses DEF RunWorked, Busy
  <2>7. ASSUME r[1] \notin steered PROVE RunFollows(x, r, asks')
    <3>1. row[r] \notin Ended \cup {"none"} /\ OneOpen(World, steered)
      BY <1>8, <2>1, <2>7, Statuses DEF Good
    <3>2. /\ \A q \in Runs : q[1] = r[1] /\ q # r => row[q] \in Ended \cup {"none"}
          /\ \A q \in Runs : q[1] = r[1] /\ q[2] < r[2] => row[q] \in Ended
          /\ \A q \in Runs : q[1] = r[1] /\ r[2] < q[2] => row[q] = "none"
      BY <2>1, <2>7, <3>1, OthersEnded
    <3>3. r[2] \in Nat
      BY ExecOf
    <3>4. \A q \in Runs : q[1] = r[1] /\ r[2] < q[2] => nr[q] = "none"
      BY <1>2, <3>2, <3>3
    <3>5. \A q \in Runs : q[1] = r[1] /\ q[2] < r[2] => nr[q] \in Ended
      BY <1>2, <3>2, <3>3
    <3>6. \A q \in Runs : q[1] = r[1] => nr[q] \notin ActiveStatus
      BY <1>2, <3>2, Statuses
    <3>7. ~ \A q \in Runs : q[1] = r[1] => nr[q] \in Ended \cup {"none"}
      BY <1>2, Statuses
    <3> QED  BY <1>4, <2>4, <3>4, <3>5, <3>6, <3>7 DEF RunFollows, Busy
  <2>8. asks' \in SUBSET Runs /\ asks' \subseteq asks \cup {r}
    BY DEF RowsInv
  <2> QED  BY <1>6, <2>1, <2>2, <2>3, <2>6, <2>7, <2>8, OneRunStep
<1>9. ASSUME GoodInv, Live(r) = {}, r[1] \notin steered => row[r] \in {"queued", "waiting"}
      PROVE  GoodInv' /\ EndedKept
  <2>1. GoodInv'
    BY <1>1, <1>2, <1>3, <1>5, <1>7, <1>8, <1>9, ScheduledGood DEF x
  <2>2. EndedKept
    BY <1>2, <1>6, <1>9, Statuses DEF EndedKept
  <2> QED  BY <2>1, <2>2
<1> QED  BY <1>7, <1>9

\* A result comes in while a message is pending: the run is queued again by the
\* execution that is about to leave.
LEMMA ContinuesForMessage ==
  ASSUME RowsInv, NEW e \in Execs, exec[e].pc = "works", Live(e[1]) = {e},
         Scheduled(SetRun(e[1], "queued"), task, Moves(e, "ends"), born),
         born' = born, asks' = asks, pend' = pend \ {e[1]}, steered' = steered \cup {e[1][1]}
  PROVE  RowsInv' /\ (GoodInv => GoodInv')
<1> DEFINE r == e[1]
           nr == SetRun(r, "queued")
           ne == Moves(e, "ends")
           x == W(nr, task, ne)
<1>1. /\ row \in [Runs -> RunStatus] /\ task \in [Tasks -> RunStatus]
      /\ exec \in [Execs -> Executions] /\ born \in Seq(Runs) /\ r \in Runs
      /\ \A f \in Execs : exec[f].pc # "idle" => row[f[1]] # "none"
  BY RowsTypes, ExecOf DEF RowsInv
<1>2. nr \in [Runs -> RunStatus] /\ nr[r] = "queued" /\ \A q \in Runs : q # r => nr[q] = row[q]
  BY <1>1, RowUpdate, Statuses
<1>3. ne \in [Execs -> Executions] /\ ne[e].pc = "ends" /\ \A f \in Execs : f # e => ne[f] = exec[f]
  BY ExecMoves
<1>4. Scheduled(nr, task, ne, born)
  OBVIOUS
<1>5. x.row = nr /\ x.task = task /\ x.exec = ne
  BY DEF W
<1>6. \A f \in Execs : f[1] = r /\ f # e => exec[f].pc = "idle"
  BY ExecOf DEF Live
<1>7. steered' = steered \cup {r[1]} /\ r = e[1] /\ pend' = pend \ {r}
  OBVIOUS
<1> HIDE DEF r, nr, ne, x
<1>8. \A f \in Execs : ne[f].pc # "idle" => nr[f[1]] # "none"
  BY <1>1, <1>2, <1>3, <1>6, <1>7, ExecOf
<1>9. /\ World' \in Worlds /\ Owned(World)' /\ x \in Worlds
      /\ \A q \in Runs : row'[q] = "none" <=> nr[q] = "none"
  BY <1>1, <1>2, <1>3, <1>4, <1>8, ScheduledTypes DEF x
<1>10. RowsInv'
  <2>1. \A q \in Runs : row'[q] = "none" <=> row[q] = "none"
    BY <1>1, <1>2, <1>7, <1>9
  <2> QED  BY <1>7, <1>9, <2>1, KeepsRows
<1>11. ASSUME GoodInv PROVE Good(x, asks', steered')
  <2>1. Good(World, asks, steered) /\ World.row = row /\ World.task = task /\ World.exec = exec
    BY <1>11, RowsTypes DEF GoodInv
  <2>2. OnlyRun(World, x, r)
    BY <1>2, <1>3, <1>5, <1>7, <2>1 DEF OnlyRun
  <2>3. NoneActivated(World, x, r, steered')
    BY <1>2, <1>5, <1>7, Statuses DEF NoneActivated
  <2>4. nr[<<r[1], 1>>] # "none"
    <3>1. <<r[1], 1>> \in Runs
      BY <1>1, ExecOf, SubagentAssumption DEF Runs
    <3>2. row[r] # "none"
      BY <1>1, <1>7
    <3> QED  BY <1>1, <1>2, <2>1, <3>1, <3>2 DEF Good, Worked
  <2>5. \A f \in Execs : f[1] = r => ~Busy(ne[f])
    BY <1>3, <1>6 DEF Busy
  <2>6. RunWorked(x, r)
    BY <1>2, <1>5, <2>4, <2>5, Statuses DEF RunWorked
  <2>7. asks' \in SUBSET Runs /\ asks' \subseteq asks \cup {r} /\ r[1] \in steered' /\ steered \subseteq steered'
    BY <1>7 DEF RowsInv
  <2> QED  BY <1>1, <1>9, <2>1, <2>2, <2>3, <2>6, <2>7, OneRunStep
<1>12. GoodInv => GoodInv'
  BY <1>1, <1>2, <1>3, <1>4, <1>8, <1>10, <1>11, ScheduledGood DEF x
<1> QED  BY <1>10, <1>12

\* Only r changes, of the runs, with its task and its executions.
Touches(r) ==
  /\ row[r] # "none" /\ row'[r] # "none" /\ born' = born
  /\ row' \in [Runs -> RunStatus] /\ task' \in [Tasks -> RunStatus] /\ exec' \in [Execs -> Executions]
  /\ \A q \in Runs : q # r => row'[q] = row[q]
  /\ \A t \in Tasks : t # r[1] => task'[t] = task[t]
  /\ \A e \in Execs : e[1] # r => exec'[e] = exec[e]
  /\ asks' \subseteq asks \cup {r} /\ pend' \subseteq pend \cup {r} /\ steered' = steered

LEMMA TouchesRows ==
  ASSUME RowsInv, NEW r \in Runs, Touches(r)
  PROVE  /\ RowsInv' /\ World' \in Worlds
         /\ World'.row = row' /\ World'.task = task' /\ World'.exec = exec'
         /\ OnlyRun(World, World', r) /\ row[<<r[1], 1>>] # "none" /\ row'[<<r[1], 1>>] # "none"
<1>1. /\ World' \in Worlds /\ World'.row = row' /\ World'.task = task' /\ World'.exec = exec'
  BY DEF Touches, World, W, Worlds
<1>2. World.row = row /\ World.task = task /\ World.exec = exec
  BY DEF World, W
<1>3. OnlyRun(World, World', r)
  BY <1>1, <1>2 DEF Touches, OnlyRun
<1>4. \A q \in Runs : row'[q] = "none" <=> row[q] = "none"
  BY DEF Touches
<1>5. Owned(World)'
  <2>1. \A e \in Execs : exec'[e].pc # "idle" => row'[e[1]] # "none"
    BY RowsTypes, ExecOf DEF Touches
  <2> QED  BY <1>1, <2>1 DEF Owned
<1>6. RowsInv'
  BY <1>1, <1>4, <1>5, KeepsRows DEF Touches
<1>7. row[<<r[1], 1>>] # "none"
  <2>1. PICK k \in 0..Len(born) : \A g \in 1..MaxRuns : row[<<r[1], g>>] # "none" <=> g <= k
    BY ExecOf DEF RowsInv, InOrder
  <2>2. r[2] \in 1..MaxRuns /\ r = <<r[1], r[2]>> /\ 1 \in 1..MaxRuns
    BY ExecOf, SubagentAssumption
  <2>3. r[2] <= k /\ k \in Nat
    BY <2>1, <2>2, LenProperties DEF RowsInv, Touches
  <2> QED  BY <2>1, <2>2, <2>3
<1>8. <<r[1], 1>> \in Runs
  BY ExecOf, SubagentAssumption DEF Runs
<1> QED  BY <1>1, <1>3, <1>4, <1>6, <1>7, <1>8

LEMMA TouchesGood ==
  ASSUME RowsInv, GoodInv, NEW r \in Runs, Touches(r),
         NoneActivated(World, World', r, steered), RunWorked(World', r),
         r[1] \notin steered => RunFollows(World', r, asks'),
         r[1] \notin steered =>
           \A q \in Runs : q[1] = r[1] /\ row'[q] = "queued" => task'[r[1]] = "queued"
  PROVE  GoodInv'
<1>1. /\ RowsInv' /\ World' \in Worlds /\ OnlyRun(World, World', r)
      /\ World'.row = row' /\ World'.task = task'
  BY TouchesRows
<1>2. asks' \in SUBSET Runs /\ asks' \subseteq asks \cup {r} /\ steered' = steered
  BY DEF RowsInv, Touches
<1>3. Good(World', asks', steered')
  BY <1>1, <1>2, OneRunStep DEF GoodInv
<1>4. Settled(World', steered', Runs)
  BY <1>1, <1>2, OneRunSettled DEF GoodInv
<1> QED  BY <1>3, <1>4 DEF GoodInv

\* What the invariant says of the variables.
LEMMA GoodFacts ==
  ASSUME RowsInv, GoodInv
  PROVE  /\ \A e \in Execs : Busy(exec[e]) => row[e[1]] \in ActiveStatus \cup Ended
         /\ \A e, f \in Execs : Busy(exec[e]) /\ Busy(exec[f]) /\ e[1] = f[1] => e = f
         /\ \A e \in Execs : Busy(exec[e]) /\ exec[e].aborted => row[e[1]] \in Ended
         /\ \A r \in Runs : row[r] \in {"running", "steering"}
                              => \E e \in Execs : e[1] = r /\ exec[e].pc = "works"
         /\ OneOpen(World, steered) /\ ExecFollows(World, steered)
         /\ World.row = row /\ World.task = task /\ World.exec = exec
         /\ \A r \in Runs : r[1] \notin steered /\ row[r] \in ActiveStatus => task[r[1]] \in ActiveStatus
         /\ \A t \in Tasks \ steered :
              /\ row[<<t, 1>>] # "none"
              /\ \A r \in Runs : r[1] = t => row[r] \in Ended \cup {"none"}
              => task[t] \in Ended
         /\ \A r \in asks : r[1] \notin steered => row[r] = "waiting"
         /\ \A r \in Runs : r[1] \notin steered /\ row[r] = "queued" => task[r[1]] = "queued"
<1>1. World.row = row /\ World.task = task /\ World.exec = exec
  BY RowsTypes
<1>2. /\ Worked(World) /\ OneOpen(World, steered) /\ TaskFollows(World, steered)
      /\ ExecFollows(World, steered) /\ AsksFollow(World, asks, steered)
      /\ Settled(World, steered, Runs)
  BY DEF GoodInv, Good
<1>3. /\ \A e \in Execs : Busy(exec[e]) => row[e[1]] \in ActiveStatus \cup Ended
      /\ \A e, f \in Execs : Busy(exec[e]) /\ Busy(exec[f]) /\ e[1] = f[1] => e = f
      /\ \A e \in Execs : Busy(exec[e]) /\ exec[e].aborted => row[e[1]] \in Ended
      /\ \A r \in Runs : row[r] \in {"running", "steering"}
                           => \E e \in Execs : e[1] = r /\ exec[e].pc = "works"
  BY <1>1, <1>2 DEF Worked
<1>4. /\ \A r \in Runs : r[1] \notin steered /\ row[r] \in ActiveStatus => task[r[1]] \in ActiveStatus
      /\ \A t \in Tasks \ steered :
           /\ row[<<t, 1>>] # "none"
           /\ \A r \in Runs : r[1] = t => row[r] \in Ended \cup {"none"}
           => task[t] \in Ended
  BY <1>1, <1>2 DEF TaskFollows
<1>5. \A r \in asks : r[1] \notin steered => row[r] = "waiting"
  BY <1>1, <1>2 DEF AsksFollow
<1>6. \A r \in Runs : r[1] \notin steered /\ row[r] = "queued" => task[r[1]] = "queued"
  BY <1>1, <1>2 DEF Settled
<1> QED  BY <1>1, <1>2, <1>3, <1>4, <1>5, <1>6

\* The executions of a subagent outside steered.
LEMMA ExecFacts ==
  ASSUME RowsInv, GoodInv, NEW e \in Execs, e[1][1] \notin steered
  PROVE  /\ Busy(exec[e]) /\ ~exec[e].aborted => exec[e].known
         /\ exec[e].pc = "works" /\ ~exec[e].aborted => row[e[1]] \in {"running", "steering"}
         /\ exec[e].pc = "asked" /\ ~exec[e].aborted => row[e[1]] = "waiting"
         /\ \A f \in Execs : e[1] = f[1] /\ exec[e].pc # "idle" /\ exec[f].pc # "idle" => e = f
         /\ row[e[1]] = "queued" => exec[e].pc = "idle"
<1>1. ExecFollows(World, steered) /\ World.row = row /\ World.exec = exec
  BY GoodFacts
<1> QED  BY <1>1 DEF ExecFollows

\* A step of the run of such a subagent that had not ended.
LEMMA OpenFollows ==
  ASSUME RowsInv, GoodInv, NEW r \in Runs, Touches(r), r[1] \notin steered,
         row[r] \notin Ended, row'[r] # "queued",
         row'[r] \in ActiveStatus => task'[r[1]] \in ActiveStatus,
         row'[r] \in Ended => task'[r[1]] \in Ended
  PROVE  /\ \A q \in Runs : q[1] = r[1] /\ r[2] < q[2] /\ row'[q] # "none" => row'[r] \in Ended
         /\ \A q \in Runs : q[1] = r[1] /\ q[2] < r[2] => row'[q] \in Ended
         /\ \A q \in Runs : q[1] = r[1] /\ row'[q] \in ActiveStatus => task'[r[1]] \in ActiveStatus
         /\ (\A q \in Runs : q[1] = r[1] => row'[q] \in Ended \cup {"none"}) => task'[r[1]] \in Ended
         /\ \A q \in Runs : q[1] = r[1] /\ row'[q] = "queued" => task'[r[1]] = "queued"
<1>1. /\ row[r] # "none" /\ row'[r] # "none" /\ \A q \in Runs : q # r => row'[q] = row[q]
  BY DEF Touches
<1>2. /\ \A q \in Runs : q[1] = r[1] /\ q # r => row[q] \in Ended \cup {"none"}
      /\ \A q \in Runs : q[1] = r[1] /\ q[2] < r[2] => row[q] \in Ended
      /\ \A q \in Runs : q[1] = r[1] /\ r[2] < q[2] => row[q] = "none"
  <2>1. OneOpen(World, steered) /\ World.row = row
    BY GoodFacts
  <2> QED  BY <1>1, <2>1, OthersEnded
<1>3. r[2] \in Nat
  BY ExecOf
<1>4. \A q \in Runs : q[1] = r[1] /\ r[2] < q[2] => row'[q] = "none"
  BY <1>1, <1>2, <1>3
<1>5. \A q \in Runs : q[1] = r[1] /\ q[2] < r[2] => row'[q] \in Ended
  BY <1>1, <1>2, <1>3
<1>6. \A q \in Runs : q[1] = r[1] /\ q # r => row'[q] \in Ended \cup {"none"}
  BY <1>1, <1>2
<1> QED  BY <1>1, <1>4, <1>5, <1>6, Statuses

\* A step that leaves the statuses alone.
LEMMA SameFollows ==
  ASSUME RowsInv, GoodInv, NEW r \in Runs, row[<<r[1], 1>>] # "none", r[1] \notin steered,
         row' = row, task' = task, row[r] # "none"
  PROVE  /\ \A q \in Runs : q[1] = r[1] /\ r[2] < q[2] /\ row'[q] # "none" => row'[r] \in Ended
         /\ \A q \in Runs : q[1] = r[1] /\ q[2] < r[2] => row'[q] \in Ended
         /\ \A q \in Runs : q[1] = r[1] /\ row'[q] \in ActiveStatus => task'[r[1]] \in ActiveStatus
         /\ (\A q \in Runs : q[1] = r[1] => row'[q] \in Ended \cup {"none"}) => task'[r[1]] \in Ended
         /\ \A q \in Runs : q[1] = r[1] /\ row'[q] = "queued" => task'[r[1]] = "queued"
<1>1. OneOpen(World, steered) /\ World.row = row /\ r[1] \in Tasks
  BY GoodFacts, ExecOf
<1>2. /\ \A q \in Runs : q[1] = r[1] /\ r[2] < q[2] /\ row'[q] # "none" => row'[r] \in Ended
      /\ \A q \in Runs : q[1] = r[1] /\ q[2] < r[2] => row'[q] \in Ended
  BY <1>1 DEF OneOpen
<1>3. /\ \A q \in Runs : q[1] = r[1] /\ row'[q] \in ActiveStatus => task'[r[1]] \in ActiveStatus
      /\ (\A q \in Runs : q[1] = r[1] => row'[q] \in Ended \cup {"none"}) => task'[r[1]] \in Ended
      /\ \A q \in Runs : q[1] = r[1] /\ row'[q] = "queued" => task'[r[1]] = "queued"
  BY <1>1, GoodFacts
<1> QED  BY <1>2, <1>3

\* An execution that was at work or had asked ends, and with it its run, unless
\* it was aborted or paused.
LEMMA EndsExec ==
  ASSUME RowsInv, NEW e \in Execs, Busy(exec[e]), exec' = Moves(e, "ends"),
         born' = born, asks' = asks, pend' = pend, steered' = steered,
         \/ UNCHANGED <<row, task>> /\ (exec[e].aborted \/ row[e[1]] \in Ended)
         \/ \E v \in {"completed", "failed"} :
              RunIs(e[1], v) /\ exec[e].pc = "works" /\ ~exec[e].aborted
         \/ RunIs(e[1], "waiting") /\ exec[e].pc = "asked" /\ row[e[1]] \notin Ended
  PROVE  RowsInv' /\ (GoodInv => GoodInv' /\ EndedKept)
<1> DEFINE r == e[1]
<1>1. /\ r \in Runs /\ row[r] # "none" /\ exec[e].pc # "idle"
      /\ row \in [Runs -> RunStatus] /\ task \in [Tasks -> RunStatus]
  BY RowsTypes, ExecOf DEF Busy
<1>2. /\ exec' \in [Execs -> Executions] /\ exec'[e].pc = "ends"
      /\ \A f \in Execs : f # e => exec'[f] = exec[f]
  BY <1>1, ExecMoves
<1>10. {"completed", "failed", "waiting"} \subseteq RunStatus
  BY DEF RunStatus, ActiveStatus, Ended
<1>11. \/ row' = row /\ task' = task /\ (exec[e].aborted \/ row[r] \in Ended)
       \/ \E v \in {"completed", "failed"} :
            RunIs(r, v) /\ exec[e].pc = "works" /\ ~exec[e].aborted
       \/ RunIs(r, "waiting") /\ exec[e].pc = "asked" /\ row[r] \notin Ended
  OBVIOUS
<1> HIDE DEF r
<1>3. \/ row' = row /\ task' = task /\ (exec[e].aborted \/ row[r] \in Ended)
      \/ /\ row'[r] \in {"completed", "failed"} /\ task'[r[1]] = row'[r]
         /\ exec[e].pc = "works" /\ ~exec[e].aborted
      \/ row'[r] = "waiting" /\ task'[r[1]] = "waiting" /\ exec[e].pc = "asked" /\ row[r] \notin Ended
  BY <1>1, <1>10, <1>11, RunIsFacts
<1>4. Touches(r)
  <2>1. /\ row' \in [Runs -> RunStatus] /\ task' \in [Tasks -> RunStatus]
        /\ \A q \in Runs : q # r => row'[q] = row[q]
        /\ \A t \in Tasks : t # r[1] => task'[t] = task[t]
    BY <1>1, <1>10, <1>11, RunIsFacts
  <2>2. row'[r] # "none"
    BY <1>1, <1>3
  <2> QED  BY <1>1, <1>2, <2>1, <2>2 DEF Touches, r
<1>5. r = e[1]
  BY DEF r
<1>6. /\ RowsInv' /\ World'.row = row' /\ World'.task = task' /\ World'.exec = exec'
      /\ row[<<r[1], 1>>] # "none" /\ row'[<<r[1], 1>>] # "none"
  BY <1>1, <1>4, TouchesRows
<1>7. ASSUME GoodInv PROVE GoodInv' /\ EndedKept
  <2>1. row[r] \in ActiveStatus \cup Ended /\ (exec[e].aborted => row[r] \in Ended)
    BY <1>5, <1>7, GoodFacts
  <2>2. \A f \in Execs : f[1] = r => ~Busy(exec'[f])
    BY <1>2, <1>5, <1>7, GoodFacts DEF Busy
  <2>3. row'[r] \in ActiveStatus => row[r] \in ActiveStatus
    BY <1>3, <2>1, Statuses DEF Ended
  <2>4. row'[r] \notin {"running", "steering"} /\ row'[r] # "queued"
    BY <1>3, <2>1, Statuses DEF Ended
  <2>5. NoneActivated(World, World', r, steered)
    <3>1. r[1] \notin steered /\ task'[r[1]] \in ActiveStatus => task[r[1]] \in ActiveStatus
      BY <1>1, <1>3, <1>7, <2>1, GoodFacts, Statuses DEF Ended
    <3> QED  BY <1>6, <1>7, <2>3, <3>1, GoodFacts DEF NoneActivated
  <2>6. RunWorked(World', r)
    BY <1>4, <1>6, <2>2, <2>4 DEF RunWorked, Touches
  <2>7. ASSUME r[1] \notin steered
        PROVE  /\ RunFollows(World', r, asks')
               /\ \A q \in Runs : q[1] = r[1] /\ row'[q] = "queued" => task'[r[1]] = "queued"
    <3>1. \A f \in Execs : f[1] = r /\ f # e => exec'[f].pc = "idle"
      BY <1>1, <1>2, <1>5, <1>7, <2>7, ExecFacts
    <3>2. r \in asks' => row'[r] = "waiting"
      <4>1. r \in asks => row[r] = "waiting"
        BY <1>7, <2>7, GoodFacts
      <4>2. exec[e].pc = "works" /\ ~exec[e].aborted => row[r] \in {"running", "steering"}
        BY <1>5, <1>7, <2>7, ExecFacts
      <4> QED  BY <1>3, <4>1, <4>2
    <3>3. /\ \A q \in Runs : q[1] = r[1] /\ r[2] < q[2] /\ row'[q] # "none" => row'[r] \in Ended
          /\ \A q \in Runs : q[1] = r[1] /\ q[2] < r[2] => row'[q] \in Ended
          /\ \A q \in Runs : q[1] = r[1] /\ row'[q] \in ActiveStatus => task'[r[1]] \in ActiveStatus
          /\ (\A q \in Runs : q[1] = r[1] => row'[q] \in Ended \cup {"none"}) => task'[r[1]] \in Ended
          /\ \A q \in Runs : q[1] = r[1] /\ row'[q] = "queued" => task'[r[1]] = "queued"
      <4>1. CASE row' = row /\ task' = task
        BY <1>1, <1>6, <1>7, <2>7, <4>1, SameFollows
      <4>2. CASE /\ row'[r] \in {"completed", "failed"} /\ task'[r[1]] = row'[r]
                 /\ exec[e].pc = "works" /\ ~exec[e].aborted
        <5>1. row[r] \notin Ended
          BY <1>5, <1>7, <2>7, <4>2, ExecFacts DEF Ended
        <5>2. row'[r] \in Ended /\ task'[r[1]] \in Ended /\ row'[r] \notin ActiveStatus
          BY <4>2 DEF Ended, ActiveStatus
        <5> QED  BY <1>1, <1>4, <1>7, <2>4, <2>7, <5>1, <5>2, OpenFollows
      <4>3. CASE row'[r] = "waiting" /\ task'[r[1]] = "waiting" /\ row[r] \notin Ended
        BY <1>1, <1>4, <1>7, <2>4, <2>7, <4>3, OpenFollows, Statuses
      <4> QED  BY <1>3, <4>1, <4>2, <4>3
    <3> QED  BY <1>2, <1>6, <2>2, <2>4, <3>1, <3>2, <3>3 DEF RunFollows
  <2>8. GoodInv'
    BY <1>1, <1>4, <1>7, <2>5, <2>6, <2>7, TouchesGood
  <2>9. EndedKept
    <3> SUFFICES ASSUME NEW q \in Runs, row[q] \in Ended, q[1] \notin steered PROVE row'[q] = row[q]
      BY DEF EndedKept
    <3>1. CASE q # r
      BY <1>4, <3>1 DEF Touches
    <3>2. CASE q = r
      <4>1. exec[e].pc = "works" /\ ~exec[e].aborted => row[r] \in {"running", "steering"}
        BY <1>5, <1>7, <3>2, ExecFacts
      <4> QED  BY <1>3, <3>2, <4>1 DEF Ended
    <3> QED  BY <3>1, <3>2
  <2> QED  BY <2>8, <2>9
<1> QED  BY <1>6, <1>7

LEMMA AsksUserKeeps ==
  ASSUME RowsInv, NEW e \in Execs, AsksUser(e)
  PROVE  RowsInv' /\ (GoodInv => GoodInv' /\ EndedKept)
<1> DEFINE r == e[1]
<1>1. /\ r \in Runs /\ row[r] # "none" /\ exec[e].pc = "works" /\ ~exec[e].aborted
      /\ row \in [Runs -> RunStatus] /\ task \in [Tasks -> RunStatus]
      /\ asks' = asks \cup {r} /\ pend' = pend /\ born' = born /\ steered' = steered
  BY RowsTypes, ExecOf DEF AsksUser
<1>2. /\ exec' \in [Execs -> Executions] /\ exec'[e].pc = "asked"
      /\ exec'[e].known = exec[e].known /\ exec'[e].aborted = exec[e].aborted
      /\ \A f \in Execs : f # e => exec'[f] = exec[f]
  BY <1>1, ExecMoves DEF AsksUser
<1>3. \/ row' = row /\ task' = task /\ row[r] \in Ended
      \/ RunIs(r, "waiting") /\ row[r] \notin Ended
  BY DEF AsksUser, SetWaiting
<1> HIDE DEF r
<1>4. r = e[1]
  BY DEF r
<1>5. "waiting" \in RunStatus
  BY DEF RunStatus, ActiveStatus
<1>6. \/ row' = row /\ task' = task /\ row[r] \in Ended
      \/ row'[r] = "waiting" /\ task'[r[1]] = "waiting" /\ row[r] \notin Ended
  BY <1>1, <1>3, <1>5, RunIsFacts
<1>7. Touches(r)
  <2>1. /\ row' \in [Runs -> RunStatus] /\ task' \in [Tasks -> RunStatus]
        /\ \A q \in Runs : q # r => row'[q] = row[q]
        /\ \A t \in Tasks : t # r[1] => task'[t] = task[t]
    BY <1>1, <1>3, <1>5, RunIsFacts
  <2>2. row'[r] # "none"
    BY <1>1, <1>6
  <2> QED  BY <1>1, <1>2, <1>4, <2>1, <2>2 DEF Touches
<1>8. /\ RowsInv' /\ World'.row = row' /\ World'.task = task' /\ World'.exec = exec'
      /\ row[<<r[1], 1>>] # "none" /\ row'[<<r[1], 1>>] # "none"
  BY <1>1, <1>7, TouchesRows
<1>9. ASSUME GoodInv PROVE GoodInv' /\ EndedKept
  <2>1. row[r] \in ActiveStatus \cup Ended
    BY <1>1, <1>4, <1>9, GoodFacts DEF Busy
  <2>2. \A f \in Execs : f[1] = r /\ Busy(exec'[f]) => f = e
    BY <1>1, <1>2, <1>4, <1>9, GoodFacts DEF Busy
  <2>3. row'[r] \in ActiveStatus => row[r] \in ActiveStatus
    BY <1>6, <2>1
  <2>4. row'[r] \notin {"running", "steering"} /\ row'[r] # "queued" /\ row'[r] \in ActiveStatus \cup Ended
    BY <1>6, Statuses DEF Ended
  <2>5. NoneActivated(World, World', r, steered)
    <3>1. r[1] \notin steered /\ task'[r[1]] \in ActiveStatus => task[r[1]] \in ActiveStatus
      BY <1>1, <1>6, <1>9, <2>1, GoodFacts
    <3> QED  BY <1>8, <1>9, <2>3, <3>1, GoodFacts DEF NoneActivated
  <2>6. RunWorked(World', r)
    <3>1. \A f \in Execs : f[1] = r /\ Busy(exec'[f]) => ~exec'[f].aborted
      BY <1>1, <1>2, <2>2
    <3> QED  BY <1>7, <1>8, <2>2, <2>4, <3>1 DEF RunWorked, Touches
  <2>7. ASSUME r[1] \notin steered
        PROVE  /\ RunFollows(World', r, asks')
               /\ \A q \in Runs : q[1] = r[1] /\ row'[q] = "queued" => task'[r[1]] = "queued"
               /\ row[r] \notin Ended
    <3>1. row[r] \in {"running", "steering"} /\ exec[e].known
      BY <1>1, <1>4, <1>9, <2>7, ExecFacts DEF Busy
    <3>2. \A f \in Execs : f[1] = r /\ exec'[f].pc # "idle" => f = e
      BY <1>1, <1>2, <1>4, <1>9, <2>7, ExecFacts
    <3>3. row'[r] = "waiting" /\ task'[r[1]] = "waiting" /\ row[r] \notin Ended
      BY <1>6, <3>1 DEF Ended
    <3>4. /\ \A q \in Runs : q[1] = r[1] /\ r[2] < q[2] /\ row'[q] # "none" => row'[r] \in Ended
          /\ \A q \in Runs : q[1] = r[1] /\ q[2] < r[2] => row'[q] \in Ended
          /\ \A q \in Runs : q[1] = r[1] /\ row'[q] \in ActiveStatus => task'[r[1]] \in ActiveStatus
          /\ (\A q \in Runs : q[1] = r[1] => row'[q] \in Ended \cup {"none"}) => task'[r[1]] \in Ended
          /\ \A q \in Runs : q[1] = r[1] /\ row'[q] = "queued" => task'[r[1]] = "queued"
      BY <1>1, <1>7, <1>9, <2>4, <2>7, <3>3, OpenFollows, Statuses
    <3>5. \A f \in Execs : f[1] = r /\ Busy(exec'[f]) => exec'[f].known
      BY <1>2, <2>2, <3>1
    <3>6. \A f \in Execs : f[1] = r /\ exec'[f].pc = "works" => FALSE
      BY <1>2, <2>2 DEF Busy
    <3> QED  BY <1>8, <3>2, <3>3, <3>4, <3>5, <3>6 DEF RunFollows
  <2>8. GoodInv'
    BY <1>1, <1>7, <1>9, <2>5, <2>6, <2>7, TouchesGood
  <2>9. EndedKept
    BY <1>6, <1>7, <2>7 DEF EndedKept, Touches
  <2> QED  BY <2>8, <2>9
<1> QED  BY <1>8, <1>9

LEMMA LeavesKeeps ==
  ASSUME RowsInv, NEW e \in Execs, Leaves(e)
  PROVE  RowsInv' /\ (GoodInv => GoodInv' /\ EndedKept)
<1> DEFINE r == e[1]
           f0 == Forget(exec, r)
<1>1. /\ r \in Runs /\ row[r] # "none" /\ exec[e].pc = "ends"
      /\ row \in [Runs -> RunStatus] /\ task \in [Tasks -> RunStatus]
      /\ exec \in [Execs -> Executions]
      /\ row' = row /\ task' = task
      /\ asks' = asks /\ pend' = pend /\ born' = born /\ steered' = steered
  BY RowsTypes, ExecOf DEF Leaves, rows
<1>2. exec' = [f0 EXCEPT ![e] = Idle]
  BY DEF Leaves
<1>3. /\ f0 \in [Execs -> Executions]
      /\ \A f \in Execs : /\ f0[f].pc = exec[f].pc
                          /\ exec[f].pc # "idle" => f0[f].aborted = exec[f].aborted
                          /\ f[1] # r => f0[f] = exec[f]
  BY <1>1, ForgetProperties
<1> HIDE DEF f0, r
<1>4. r = e[1] /\ Idle \in Executions /\ Idle.pc = "idle"
  BY DEF r, Executions, Idle
<1>5. /\ exec' \in [Execs -> Executions] /\ exec'[e].pc = "idle"
      /\ \A f \in Execs : f # e => /\ exec'[f].pc = exec[f].pc
                                   /\ exec[f].pc # "idle" => exec'[f].aborted = exec[f].aborted
      /\ \A f \in Execs : f[1] # r => exec'[f] = exec[f]
  BY <1>2, <1>3, <1>4
<1>6. Touches(r)
  BY <1>1, <1>5 DEF Touches
<1>7. /\ RowsInv' /\ World'.row = row' /\ World'.task = task' /\ World'.exec = exec'
      /\ row[<<r[1], 1>>] # "none" /\ row'[<<r[1], 1>>] # "none"
  BY <1>1, <1>6, TouchesRows
<1>8. ASSUME GoodInv PROVE GoodInv'
  <2>1. \A f \in Execs : Busy(exec'[f]) => f # e /\ Busy(exec[f]) /\ exec'[f].aborted = exec[f].aborted
    BY <1>5 DEF Busy
  <2>2. NoneActivated(World, World', r, steered)
    BY <1>1, <1>7, <1>8, GoodFacts DEF NoneActivated
  <2>3. RunWorked(World', r)
    <3>1. \A f \in Execs : f[1] = r /\ Busy(exec'[f]) => row[r] \in ActiveStatus \cup Ended
      BY <1>8, <2>1, GoodFacts
    <3>2. \A f, g \in Execs : f[1] = r /\ g[1] = r /\ Busy(exec'[f]) /\ Busy(exec'[g]) => f = g
      BY <1>8, <2>1, GoodFacts
    <3>3. \A f \in Execs : f[1] = r /\ Busy(exec'[f]) /\ exec'[f].aborted => row[r] \in Ended
      BY <1>8, <2>1, GoodFacts
    <3>4. row[r] \in {"running", "steering"} => \E f \in Execs : f[1] = r /\ exec'[f].pc = "works"
      <4> SUFFICES ASSUME row[r] \in {"running", "steering"}
                   PROVE  \E f \in Execs : f[1] = r /\ exec'[f].pc = "works"
        OBVIOUS
      <4>1. PICK f \in Execs : f[1] = r /\ exec[f].pc = "works"
        BY <1>1, <1>8, GoodFacts
      <4> QED  BY <1>1, <1>5, <4>1
    <3> QED  BY <1>1, <1>7, <3>1, <3>2, <3>3, <3>4 DEF RunWorked
  <2>4. ASSUME r[1] \notin steered
        PROVE  /\ RunFollows(World', r, asks')
               /\ \A q \in Runs : q[1] = r[1] /\ row'[q] = "queued" => task'[r[1]] = "queued"
    <3>1. \A f \in Execs : f[1] = r => exec'[f].pc = "idle"
      BY <1>1, <1>4, <1>5, <1>8, <2>4, ExecFacts
    <3>2. /\ \A q \in Runs : q[1] = r[1] /\ r[2] < q[2] /\ row'[q] # "none" => row'[r] \in Ended
          /\ \A q \in Runs : q[1] = r[1] /\ q[2] < r[2] => row'[q] \in Ended
          /\ \A q \in Runs : q[1] = r[1] /\ row'[q] \in ActiveStatus => task'[r[1]] \in ActiveStatus
          /\ (\A q \in Runs : q[1] = r[1] => row'[q] \in Ended \cup {"none"}) => task'[r[1]] \in Ended
          /\ \A q \in Runs : q[1] = r[1] /\ row'[q] = "queued" => task'[r[1]] = "queued"
      BY <1>1, <1>7, <1>8, <2>4, SameFollows
    <3>3. r \in asks' => row'[r] = "waiting"
      BY <1>1, <1>8, <2>4, GoodFacts
    <3> QED  BY <1>7, <3>1, <3>2, <3>3 DEF RunFollows, Busy
  <2> QED  BY <1>1, <1>6, <1>8, <2>2, <2>3, <2>4, TouchesGood
<1> QED  BY <1>1, <1>7, <1>8 DEF EndedKept

LEMMA StopKeeps ==
  ASSUME RowsInv, NEW t \in Tasks, Stop(t)
  PROVE  RowsInv' /\ (GoodInv => GoodInv' /\ EndedKept)
<1> DEFINE r == Current(t)
<1>1. /\ r \in Runs /\ row[r] # "none" /\ row[r] \notin Ended
      /\ exec \in [Execs -> Executions] /\ RunIs(r, "stopped")
      /\ asks' = asks \ {r} /\ pend' = pend /\ born' = born /\ steered' = steered
  BY CurrentRun, RowsTypes DEF Stop
<1>2. exec' = [e \in Execs |-> IF e \in Live(r) /\ exec[e].known
                               THEN [exec[e] EXCEPT !.aborted = TRUE] ELSE exec[e]]
  BY DEF Stop
<1> HIDE DEF r
<1>3. ASSUME NEW e \in Execs
      PROVE  /\ exec'[e] \in Executions /\ exec'[e].pc = exec[e].pc
             /\ e[1] # r => exec'[e] = exec[e]
             /\ e[1] = r /\ exec[e].pc # "idle" /\ exec[e].known => exec'[e].aborted
             /\ exec'[e] = exec[e] \/ exec'[e].aborted
  <2>1. exec'[e] = IF e \in Live(r) /\ exec[e].known
                   THEN [exec[e] EXCEPT !.aborted = TRUE] ELSE exec[e]
    BY <1>2
  <2>2. e \in Live(r) <=> e[1] = r /\ exec[e].pc # "idle"
    BY <1>1, ExecOf DEF Live
  <2>3. CASE e \in Live(r) /\ exec[e].known
    <3>1. exec[e] \in [pc : {"works", "asked", "ends"}, known : BOOLEAN, aborted : BOOLEAN]
      BY <1>1, <2>2, <2>3, ExecutionFields
    <3> DEFINE x == [exec[e] EXCEPT !.aborted = TRUE]
    <3>2. /\ x \in [pc : {"works", "asked", "ends"}, known : BOOLEAN, aborted : BOOLEAN]
          /\ x.pc = exec[e].pc /\ x.aborted = TRUE
      BY <3>1
    <3> HIDE DEF x
    <3>3. exec'[e] = x
      BY <2>1, <2>3 DEF x
    <3>4. x \in Executions
      BY <3>2 DEF Executions
    <3> QED  BY <2>2, <2>3, <3>2, <3>3, <3>4
  <2>4. CASE ~(e \in Live(r) /\ exec[e].known)
    BY <1>1, <2>1, <2>2, <2>4
  <2> QED  BY <2>3, <2>4
<1>4. "stopped" \in RunStatus /\ "stopped" \in Ended
  BY DEF RunStatus, Ended
<1>5. /\ row' \in [Runs -> RunStatus] /\ task' \in [Tasks -> RunStatus]
      /\ row'[r] = "stopped" /\ task'[r[1]] = "stopped"
      /\ \A q \in Runs : q # r => row'[q] = row[q]
      /\ \A u \in Tasks : u # r[1] => task'[u] = task[u]
  BY <1>1, <1>4, RunIsFacts
<1>6. Touches(r)
  <2>1. exec' \in [Execs -> Executions]
    <3>1. exec' = [e \in Execs |-> exec'[e]]
      BY <1>2
    <3> QED  BY <1>3, <3>1
  <2> QED  BY <1>1, <1>3, <1>5, <2>1 DEF Touches
<1>7. /\ RowsInv' /\ World'.row = row' /\ World'.task = task' /\ World'.exec = exec'
      /\ row[<<r[1], 1>>] # "none" /\ row'[<<r[1], 1>>] # "none"
  BY <1>1, <1>6, TouchesRows
<1>8. ASSUME GoodInv PROVE GoodInv'
  <2>1. NoneActivated(World, World', r, steered)
    BY <1>4, <1>5, <1>7, Statuses DEF NoneActivated
  <2>2. RunWorked(World', r)
    <3>1. \A f, g \in Execs : f[1] = r /\ g[1] = r /\ Busy(exec'[f]) /\ Busy(exec'[g]) => f = g
      BY <1>3, <1>8, GoodFacts DEF Busy
    <3> QED  BY <1>4, <1>5, <1>7, <3>1 DEF RunWorked
  <2>3. ASSUME r[1] \notin steered
        PROVE  /\ RunFollows(World', r, asks')
               /\ \A q \in Runs : q[1] = r[1] /\ row'[q] = "queued" => task'[r[1]] = "queued"
    <3>1. /\ \A q \in Runs : q[1] = r[1] /\ r[2] < q[2] /\ row'[q] # "none" => row'[r] \in Ended
          /\ \A q \in Runs : q[1] = r[1] /\ q[2] < r[2] => row'[q] \in Ended
          /\ \A q \in Runs : q[1] = r[1] /\ row'[q] \in ActiveStatus => task'[r[1]] \in ActiveStatus
          /\ (\A q \in Runs : q[1] = r[1] => row'[q] \in Ended \cup {"none"}) => task'[r[1]] \in Ended
          /\ \A q \in Runs : q[1] = r[1] /\ row'[q] = "queued" => task'[r[1]] = "queued"
      BY <1>1, <1>4, <1>5, <1>6, <1>8, <2>3, OpenFollows, Statuses
    <3>2. \A e \in Execs : e[1] = r /\ Busy(exec'[e]) => exec'[e].aborted
      BY <1>3, <1>8, <2>3, ExecFacts DEF Busy
    <3>3. \A e, f \in Execs : (/\ e[1] = r /\ f[1] = r
                               /\ exec'[e].pc # "idle" /\ exec'[f].pc # "idle") => e = f
      BY <1>3, <1>8, <2>3, ExecFacts
    <3>4. r \notin asks'
      BY <1>1
    <3> QED  BY <1>5, <1>7, <3>1, <3>2, <3>3, <3>4 DEF RunFollows, Busy
  <2> QED  BY <1>1, <1>6, <1>8, <2>1, <2>2, <2>3, TouchesGood
<1>9. EndedKept
  BY <1>1, <1>5 DEF EndedKept
<1> QED  BY <1>7, <1>8, <1>9

\* A message for a run at work.
LEMMA SteersKeeps ==
  ASSUME RowsInv, NEW r \in Runs, row[r] \in {"running", "steering"}, RunIs(r, "steering"),
         exec' = exec, born' = born, asks' = asks, pend' = pend \cup {r}, steered' = steered
  PROVE  RowsInv' /\ (GoodInv => GoodInv' /\ EndedKept)
<1>1. "steering" \in RunStatus /\ "steering" \in ActiveStatus /\ row[r] \in ActiveStatus
      /\ row[r] \notin Ended /\ row[r] # "none" /\ "steering" \notin Ended /\ row[r] # "queued"
  BY DEF RunStatus, ActiveStatus, Ended
<1>2. /\ row' \in [Runs -> RunStatus] /\ task' \in [Tasks -> RunStatus]
      /\ row'[r] = "steering" /\ task'[r[1]] = "steering"
      /\ \A q \in Runs : q # r => row'[q] = row[q]
      /\ \A u \in Tasks : u # r[1] => task'[u] = task[u]
  BY <1>1, RunIsFacts
<1>3. Touches(r)
  BY <1>1, <1>2, RowsTypes DEF Touches
<1>4. /\ RowsInv' /\ World'.row = row' /\ World'.task = task' /\ World'.exec = exec
      /\ row[<<r[1], 1>>] # "none" /\ row'[<<r[1], 1>>] # "none"
  BY <1>3, TouchesRows
<1>5. ASSUME GoodInv PROVE GoodInv'
  <2>1. NoneActivated(World, World', r, steered)
    BY <1>1, <1>4, <1>5, GoodFacts DEF NoneActivated
  <2>2. RunWorked(World', r)
    <3>1. \A e \in Execs : e[1] = r /\ Busy(exec[e]) => ~exec[e].aborted
      BY <1>1, <1>5, GoodFacts
    <3>2. \A f, g \in Execs : f[1] = r /\ g[1] = r /\ Busy(exec[f]) /\ Busy(exec[g]) => f = g
      BY <1>5, GoodFacts
    <3>3. \E f \in Execs : f[1] = r /\ exec[f].pc = "works"
      BY <1>5, GoodFacts
    <3> QED  BY <1>1, <1>2, <1>4, <3>1, <3>2, <3>3 DEF RunWorked
  <2>3. ASSUME r[1] \notin steered
        PROVE  /\ RunFollows(World', r, asks')
               /\ \A q \in Runs : q[1] = r[1] /\ row'[q] = "queued" => task'[r[1]] = "queued"
    <3>1. /\ \A q \in Runs : q[1] = r[1] /\ r[2] < q[2] /\ row'[q] # "none" => row'[r] \in Ended
          /\ \A q \in Runs : q[1] = r[1] /\ q[2] < r[2] => row'[q] \in Ended
          /\ \A q \in Runs : q[1] = r[1] /\ row'[q] \in ActiveStatus => task'[r[1]] \in ActiveStatus
          /\ (\A q \in Runs : q[1] = r[1] => row'[q] \in Ended \cup {"none"}) => task'[r[1]] \in Ended
          /\ \A q \in Runs : q[1] = r[1] /\ row'[q] = "queued" => task'[r[1]] = "queued"
      BY <1>1, <1>2, <1>3, <1>5, <2>3, OpenFollows, Statuses
    <3>2. \A e \in Execs : e[1] = r /\ Busy(exec[e]) /\ ~exec[e].aborted => exec[e].known
      BY <1>5, <2>3, ExecFacts
    <3>3. \A e \in Execs : e[1] = r /\ exec[e].pc = "asked" /\ ~exec[e].aborted => FALSE
      BY <1>5, <2>3, ExecFacts
    <3>4. \A e, f \in Execs : (/\ e[1] = r /\ f[1] = r
                               /\ exec[e].pc # "idle" /\ exec[f].pc # "idle") => e = f
      BY <1>5, <2>3, ExecFacts
    <3>5. r \notin asks'
      BY <1>5, <2>3, GoodFacts
    <3> QED  BY <1>2, <1>4, <3>1, <3>2, <3>3, <3>4, <3>5 DEF RunFollows
  <2> QED  BY <1>3, <1>5, <2>1, <2>2, <2>3, TouchesGood
<1>6. EndedKept
  BY <1>1, <1>2 DEF EndedKept
<1> QED  BY <1>4, <1>5, <1>6

LEMMA CrashKeeps ==
  ASSUME RowsInv, Crash
  PROVE  RowsInv' /\ (GoodInv => GoodInv' /\ EndedKept)
<1>1. /\ row \in [Runs -> RunStatus] /\ task \in [Tasks -> RunStatus]
      /\ asks' = asks /\ pend' = pend /\ born' = born /\ steered' = steered
      /\ row' = [r \in Runs |-> IF Lost(r) THEN "interrupted" ELSE row[r]]
      /\ exec' = [e \in Execs |-> Idle]
  BY RowsTypes DEF Crash
<1>2. "interrupted" \in RunStatus /\ "interrupted" \in Ended /\ "queued" \in RunStatus
      /\ "none" \in RunStatus /\ Idle \in Executions /\ Idle.pc = "idle"
  BY DEF RunStatus, Ended, Idle, Executions
<1>3. ASSUME NEW r \in Runs
      PROVE  /\ row'[r] = IF Lost(r) THEN "interrupted" ELSE row[r]
             /\ row'[r] \in RunStatus /\ row'[r] = "none" <=> row[r] = "none"
             /\ row[r] \in Ended => row'[r] = row[r]
             /\ row'[r] \notin {"running", "steering"}
             /\ row'[r] \in ActiveStatus => row'[r] = row[r] /\ row[r] = "waiting" /\ ~Lost(r)
             /\ row'[r] = "queued" => row[r] = "queued"
  <2>1. row'[r] = IF Lost(r) THEN "interrupted" ELSE row[r]
    BY <1>1
  <2>2. row[r] \in RunStatus
    BY <1>1
  <2>3. Lost(r) => row[r] \in {"running", "steering", "waiting"}
    BY DEF Lost
  <2>4. row[r] \in {"running", "steering"} => Lost(r)
    BY DEF Lost
  <2> QED  BY <1>2, <2>1, <2>2, <2>3, <2>4 DEF Ended, ActiveStatus
<1>4. ASSUME NEW t \in Tasks
      PROVE  task'[t] = IF ~Exists(t) THEN "none"
                        ELSE IF Lost(Current(t)) \/ row[Current(t)] = "interrupted" THEN "interrupted"
                        ELSE IF row[Current(t)] = "queued" THEN "queued" ELSE task[t]
  BY DEF Crash
<1>5. task' \in [Tasks -> RunStatus]
  <2>1. \A t \in Tasks : task'[t] \in RunStatus
    BY <1>1, <1>2, <1>4
  <2>2. task' = [t \in Tasks |-> task'[t]]
    BY DEF Crash
  <2> QED  BY <2>1, <2>2
<1>6. row' \in [Runs -> RunStatus] /\ exec' \in [Execs -> Executions]
      /\ \A e \in Execs : exec'[e].pc = "idle" /\ ~Busy(exec'[e])
  <2>1. row' = [r \in Runs |-> row'[r]]
    BY <1>1
  <2> QED  BY <1>1, <1>2, <1>3, <2>1 DEF Busy
<1>7. World' \in Worlds /\ World'.row = row' /\ World'.task = task' /\ World'.exec = exec'
  BY <1>5, <1>6 DEF World, W, Worlds
<1>8. RowsInv'
  <2>1. Owned(World)'
    BY <1>6, <1>7 DEF Owned
  <2> QED  BY <1>1, <1>3, <1>7, <2>1, KeepsRows
<1>9. ASSUME NEW r \in Runs, GoodInv, r[1] \notin steered, row[r] \notin Ended \cup {"none"}
      PROVE  r = Current(r[1]) /\ Exists(r[1])
  <2>1. PICK k \in 0..Len(born) :
          /\ k <= MaxRuns /\ Current(r[1]) = <<r[1], k>>
          /\ \A g \in 1..MaxRuns : row[<<r[1], g>>] # "none" <=> g <= k
          /\ Exists(r[1]) <=> k >= 1
    BY ExecOf, CurrentRun
  <2>2. r = <<r[1], r[2]>> /\ r[2] \in 1..MaxRuns /\ k \in Nat
    BY <2>1, ExecOf, LenProperties DEF RowsInv
  <2>3. r[2] <= k
    BY <1>9, <2>1, <2>2
  <2>4. ~(r[2] < k)
    <3> SUFFICES ASSUME r[2] < k PROVE FALSE
      OBVIOUS
    <3>1. k \in 1..MaxRuns
      BY <2>1, <2>2, SubagentAssumption
    <3>2. <<r[1], k>> \in Runs /\ <<r[1], k>>[1] = r[1] /\ <<r[1], k>>[2] = k
      BY <3>1, ExecOf DEF Runs
    <3>3. row[<<r[1], k>>] # "none"
      BY <2>1, <3>1
    <3>4. OneOpen(World, steered) /\ World.row = row
      BY <1>9, GoodFacts
    <3> QED  BY <1>9, <3>2, <3>3, <3>4 DEF OneOpen
  <2> QED  BY <2>1, <2>2, <2>3, <2>4
<1>10. ASSUME GoodInv PROVE GoodInv'
  <2>1. /\ Worked(World) /\ Limited(World, steered) /\ OneOpen(World, steered)
        /\ World.row = row /\ World.task = task
    BY <1>10, RowsTypes DEF GoodInv, Good
  <2>2. ASSUME NEW t \in Tasks \ steered, task'[t] \in ActiveStatus PROVE task[t] \in ActiveStatus
    BY <1>4, <2>2, Statuses DEF Ended
  <2>3. Worked(World')
    <3>1. ASSUME NEW t \in Tasks, row'[<<t, 1>>] = "none" PROVE task'[t] = "none"
      <4>1. <<t, 1>> \in Runs
        BY SubagentAssumption DEF Runs
      <4>2. ~Exists(t)
        BY <1>3, <3>1, <4>1 DEF Exists
      <4> QED  BY <1>4, <4>2
    <3>2. ASSUME NEW r \in Runs, row'[r] # "none" PROVE row'[<<r[1], 1>>] # "none"
      <4>1. <<r[1], 1>> \in Runs
        BY SubagentAssumption, ExecOf DEF Runs
      <4> QED  BY <1>3, <2>1, <3>2, <4>1 DEF Worked
    <3> QED  BY <1>3, <1>6, <1>7, <3>1, <3>2 DEF Worked
  <2>4. Limited(World', steered)
    <3>1. ActiveRuns(World') \in SUBSET ActiveRuns(World)
      BY <1>3, <1>7, <2>1 DEF ActiveRuns
    <3>2. ActiveTasks(World') \ steered \in SUBSET (ActiveTasks(World) \ steered)
      BY <1>7, <2>1, <2>2 DEF ActiveTasks
    <3>3. Cardinality(ActiveRuns(World')) <= Cardinality(ActiveRuns(World))
      BY <3>1, FiniteSets, FS_Subset
    <3>4. IsFiniteSet(ActiveTasks(World) \ steered)
      BY FiniteSets, FS_Difference
    <3>5. Cardinality(ActiveTasks(World') \ steered) <= Cardinality(ActiveTasks(World) \ steered)
          /\ Cardinality(ActiveTasks(World') \ steered) \in Nat
          /\ Cardinality(ActiveTasks(World) \ steered) \in Nat
      BY <3>2, <3>4, FS_Subset, FS_CardinalityType
    <3> QED  BY <2>1, <3>3, <3>5, FiniteSets, SubagentAssumption DEF Limited
  <2>5. OneOpen(World', steered)
    BY <1>3, <1>7, <2>1 DEF OneOpen
  <2>6. TaskFollows(World', steered)
    <3>1. ASSUME NEW r \in Runs, r[1] \notin steered, row'[r] \in ActiveStatus
          PROVE  task'[r[1]] \in ActiveStatus
      <4>1. row[r] = "waiting" /\ ~Lost(r)
        BY <1>3, <3>1
      <4>2. r = Current(r[1]) /\ Exists(r[1])
        BY <1>9, <1>10, <3>1, <4>1 DEF Ended
      <4>3. r[1] \in Tasks
        BY ExecOf
      <4>4. task'[r[1]] = task[r[1]]
        BY <1>4, <4>1, <4>2, <4>3
      <4>5. task[r[1]] \in ActiveStatus
        BY <1>10, <3>1, <4>1, GoodFacts, Statuses
      <4> QED  BY <4>4, <4>5
    <3>2. ASSUME NEW t \in Tasks \ steered, row'[<<t, 1>>] # "none",
                 \A r \in Runs : r[1] = t => row'[r] \in Ended \cup {"none"}
          PROVE  task'[t] \in Ended
      <4>1. <<t, 1>> \in Runs
        BY SubagentAssumption DEF Runs
      <4>2. row[<<t, 1>>] # "none" /\ Exists(t)
        BY <1>3, <3>2, <4>1 DEF Exists
      <4>3. Current(t) \in Runs /\ Current(t)[1] = t
        BY <4>2, CurrentRun
      <4>4. CASE Lost(Current(t)) \/ row[Current(t)] = "interrupted"
        BY <1>2, <1>4, <4>2, <4>4
      <4>5. CASE ~(Lost(Current(t)) \/ row[Current(t)] = "interrupted")
        <5>1. row'[Current(t)] = row[Current(t)] /\ row[Current(t)] \in Ended \cup {"none"}
          BY <1>3, <3>2, <4>3, <4>5
        <5>2. task'[t] = task[t]
          BY <1>4, <4>2, <4>5, <5>1, Statuses
        <5>3. ASSUME NEW r \in Runs, r[1] = t PROVE row[r] \in Ended \cup {"none"}
          <6> SUFFICES ASSUME row[r] \notin Ended \cup {"none"} PROVE FALSE
            OBVIOUS
          <6>1. r = Current(t)
            BY <1>9, <1>10, <5>3
          <6> QED  BY <5>1, <6>1
        <5>4. task[t] \in Ended
          BY <1>10, <4>2, <5>3, GoodFacts
        <5> QED  BY <5>2, <5>4
      <4> QED  BY <4>4, <4>5
    <3> QED  BY <1>7, <3>1, <3>2 DEF TaskFollows
  <2>7. ExecFollows(World', steered)
    BY <1>6, <1>7 DEF ExecFollows
  <2>8. AsksFollow(World', asks, steered)
    <3>1. ASSUME NEW r \in asks, r[1] \notin steered PROVE row'[r] = "waiting"
      <4>1. row[r] = "waiting" /\ r \in Runs
        BY <1>10, <3>1, GoodFacts DEF RowsInv
      <4>2. ~Lost(r)
        BY <3>1, <4>1 DEF Lost
      <4> QED  BY <1>3, <4>1, <4>2
    <3> QED  BY <1>7, <3>1 DEF AsksFollow
  <2>9. Settled(World', steered, Runs)
    <3>1. ASSUME NEW r \in Runs, r[1] \notin steered, row'[r] = "queued" PROVE task'[r[1]] = "queued"
      <4>1. row[r] = "queued" /\ r[1] \in Tasks
        BY <1>3, <3>1, ExecOf
      <4>2. r = Current(r[1]) /\ Exists(r[1])
        BY <1>9, <1>10, <3>1, <4>1, Statuses
      <4>3. ~(Lost(r) \/ row[r] = "interrupted")
        BY <4>1 DEF Lost
      <4> QED  BY <1>4, <4>1, <4>2, <4>3
    <3> QED  BY <1>7, <3>1 DEF Settled
  <2> QED  BY <1>1, <1>7, <2>3, <2>4, <2>5, <2>6, <2>7, <2>8, <2>9 DEF GoodInv, Good
<1>11. EndedKept
  BY <1>3 DEF EndedKept
<1> QED  BY <1>8, <1>10, <1>11

-----------------------------------------------------------------------------
(* Every step.                                                               *)

LEMMA SendKeeps ==
  ASSUME RowsInv, NEW t \in Tasks, Send(t)
  PROVE  RowsInv' /\ (GoodInv /\ ~Hasty => GoodInv' /\ EndedKept)
<1> DEFINE r == Current(t)
<1>1. PICK k \in 0..Len(born) : r = <<t, k>> /\ r[2] = k /\ r[1] = t /\ (Exists(t) => r \in Runs /\ row[r] # "none")
  BY CurrentRun
<1>2. k \in Nat /\ r \in Runs /\ row[r] # "none" /\ steered' = steered
  BY <1>1, LenProperties DEF RowsInv, Send
<1>3. CASE row[r] \in Ended /\ NewRun(t)
  BY <1>1, <1>2, <1>3, CreatesRun DEF NewRun
<1>4. CASE /\ row[r] \in {"queued", "waiting"} /\ (Hasty \/ Live(r) = {})
           /\ asks' = asks \ {r} /\ Scheduled(SetRun(r, "queued"), task, exec, born)
           /\ UNCHANGED <<born, pend>>
  BY <1>2, <1>4, Requeues
<1>5. CASE /\ row[r] \in {"running", "steering"} /\ pend' = pend \cup {r}
           /\ RunIs(r, "steering") /\ UNCHANGED <<born, asks, exec>>
  BY <1>2, <1>5, SteersKeeps
<1> QED  BY <1>3, <1>4, <1>5 DEF Send

LEMMA AnswerKeeps ==
  ASSUME RowsInv, NEW r \in Runs, Answer(r)
  PROVE  RowsInv' /\ (GoodInv /\ ~Hasty => GoodInv' /\ EndedKept)
<1>1. /\ row[r] # "none" /\ r \in asks /\ (Hasty \/ Live(r) = {})
      /\ Scheduled(SetRun(r, "queued"), task, exec, born)
      /\ born' = born /\ asks' = asks \ {r} /\ pend' = pend /\ steered' = steered
  BY DEF Answer, RowsInv
<1>2. GoodInv /\ r[1] \notin steered => row[r] \in {"queued", "waiting"}
  BY <1>1, GoodFacts
<1> QED  BY <1>1, <1>2, Requeues

LEMMA ReturnsKeeps ==
  ASSUME RowsInv, NEW e \in Execs, Returns(e)
  PROVE  RowsInv' /\ (GoodInv => GoodInv' /\ EndedKept)
<1>1. exec[e].pc = "works" /\ ~exec[e].aborted /\ e[1] \in Runs /\ born' = born /\ asks' = asks
  BY ExecOf DEF Returns
<1>2. CASE e[1] \in pend
  <2>1. /\ Live(e[1]) = {e}
        /\ Scheduled(SetRun(e[1], "queued"), task, Moves(e, "ends"), born)
        /\ pend' = pend \ {e[1]} /\ steered' = steered \cup {e[1][1]}
    BY <1>2 DEF Returns
  <2>2. RowsInv' /\ (GoodInv => GoodInv')
    BY <1>1, <2>1, ContinuesForMessage
  <2>3. GoodInv => EndedKept
    <3> SUFFICES ASSUME GoodInv, NEW q \in Runs, row[q] \in Ended, q[1] \notin steered
                 PROVE  row'[q] = row[q]
      BY DEF EndedKept
    <3>1. q # e[1]
      BY <1>1, ExecFacts DEF Ended
    <3>2. SetRun(e[1], "queued")[q] = row[q]
      BY <1>1, <3>1, RowUpdate, Statuses
    <3>3. /\ SetRun(e[1], "queued") \in [Runs -> RunStatus] /\ SetRun(e[1], "queued")[e[1]] = "queued"
          /\ \A p \in Runs : p # e[1] => SetRun(e[1], "queued")[p] = row[p]
      BY <1>1, RowUpdate, Statuses
    <3>4. Moves(e, "ends") \in [Execs -> Executions]
          /\ \A f \in Execs : f # e => Moves(e, "ends")[f] = exec[f]
      BY <1>1, ExecMoves
    <3>5. \A f \in Execs : Moves(e, "ends")[f].pc # "idle" => SetRun(e[1], "queued")[f[1]] # "none"
      BY <1>1, <3>3, <3>4, RowsTypes, ExecOf
    <3>6. task \in [Tasks -> RunStatus] /\ born \in Seq(Runs)
      BY RowsTypes DEF RowsInv
    <3> QED  BY <2>1, <3>2, <3>3, <3>4, <3>5, <3>6, ScheduledTypes
  <2> QED  BY <2>2, <2>3
<1>3. CASE e[1] \notin pend
  <2>1. Finishes(e, "completed")
    BY <1>3 DEF Returns
  <2> QED  BY <1>1, <2>1, EndsExec DEF Finishes, Busy
<1> QED  BY <1>2, <1>3

LEMMA ThrowsKeeps ==
  ASSUME RowsInv, NEW e \in Execs, Throws(e)
  PROVE  RowsInv' /\ (GoodInv => GoodInv' /\ EndedKept)
<1>1. exec[e].pc = "works" /\ born' = born /\ asks' = asks
  BY DEF Throws
<1>2. CASE exec[e].aborted
  <2>1. exec' = Moves(e, "ends") /\ UNCHANGED <<row, task, pend, steered>>
    BY <1>2 DEF Throws
  <2> QED  BY <1>1, <1>2, <2>1, EndsExec DEF Busy
<1>3. CASE ~exec[e].aborted
  <2>1. Finishes(e, "failed")
    BY <1>3 DEF Throws
  <2> QED  BY <1>1, <1>3, <2>1, EndsExec DEF Finishes, Busy
<1> QED  BY <1>2, <1>3

LEMMA PausedKeeps ==
  ASSUME RowsInv, NEW e \in Execs, Paused(e)
  PROVE  RowsInv' /\ (GoodInv => GoodInv' /\ EndedKept)
<1>1. /\ exec[e].pc = "asked" /\ exec' = Moves(e, "ends")
      /\ born' = born /\ asks' = asks /\ pend' = pend /\ steered' = steered
  BY DEF Paused
<1>2. CASE row[e[1]] \in Ended
  <2>1. UNCHANGED <<row, task>>
    BY <1>2 DEF Paused, SetWaiting
  <2> QED  BY <1>1, <1>2, <2>1, EndsExec DEF Busy
<1>3. CASE row[e[1]] \notin Ended
  <2>1. RunIs(e[1], "waiting")
    BY <1>3 DEF Paused, SetWaiting
  <2> QED  BY <1>1, <1>3, <2>1, EndsExec DEF Busy
<1> QED  BY <1>2, <1>3

\* Every step keeps the rows in order and, if nobody is hasty, the rest.
LEMMA StepKeeps ==
  ASSUME RowsInv, [Next]_vars
  PROVE  RowsInv' /\ (GoodInv /\ ~Hasty => GoodInv' /\ EndedKept)
<1>1. ASSUME NEW t \in Tasks, Spawn(t) PROVE RowsInv' /\ (GoodInv => GoodInv' /\ EndedKept)
  <2>1. PICK k \in 0..Len(born) : Current(t) = <<t, k>> /\ (Exists(t) <=> k >= 1)
    BY CurrentRun
  <2>2. k = 0 /\ ~Exists(t)
    BY <1>1, <2>1, LenProperties DEF RowsInv, Spawn
  <2>3. 0 + 1 = 1
    OBVIOUS
  <2>4. /\ Len(born) < MaxRuns /\ born' = Append(born, <<t, 0 + 1>>)
        /\ Scheduled([row EXCEPT ![<<t, 0 + 1>>] = "queued"], [task EXCEPT ![t] = "queued"],
                     exec, born')
        /\ asks' = asks /\ pend' = pend /\ steered' = steered
    BY <1>1, <2>3 DEF Spawn
  <2> QED  BY <2>1, <2>2, <2>4, CreatesRun
<1>2. ASSUME NEW t \in Tasks, Retry(t) PROVE RowsInv' /\ (GoodInv => GoodInv' /\ EndedKept)
  <2>1. PICK k \in 0..Len(born) : Current(t) = <<t, k>> /\ Current(t)[2] = k
    BY CurrentRun
  <2>2. k \in Nat
    BY <2>1, LenProperties DEF RowsInv
  <2> QED  BY <1>2, <2>1, <2>2, CreatesRun DEF Retry, NewRun
<1>3. ASSUME NEW mode, Wait(mode) PROVE RowsInv' /\ (GoodInv => GoodInv' /\ EndedKept)
  BY <1>3, JustSchedules DEF Wait
<1>4. ASSUME LaunchParent PROVE RowsInv' /\ (GoodInv => GoodInv' /\ EndedKept)
  BY <1>4, JustSchedules DEF LaunchParent
<1>5. ASSUME row' = row, task' = task, exec' = exec, born' = born, asks' = asks, pend' = pend,
             steered' = steered
      PROVE  RowsInv' /\ (GoodInv => GoodInv' /\ EndedKept)
  <2>1. World' = World
    BY <1>5 DEF World
  <2>2. RowsInv'
    BY <1>5, <2>1 DEF RowsInv, Owned, InOrder
  <2>3. GoodInv => GoodInv'
    BY <1>5, <2>1 DEF GoodInv
  <2>4. EndedKept
    BY <1>5 DEF EndedKept
  <2> QED  BY <2>2, <2>3, <2>4
<1>6. ASSUME Wake PROVE RowsInv' /\ (GoodInv => GoodInv' /\ EndedKept)
  <2>1. /\ born' = born /\ asks' = asks /\ pend' = pend /\ steered' = steered
        /\ UNCHANGED <<row, task, exec>> \/ Scheduled(row, task, exec, born)
    BY <1>6 DEF Wake
  <2> QED  BY <1>5, <2>1, JustSchedules
<1>7. CASE ParentEnds \/ StopWaitingParent \/ UNCHANGED vars
  BY <1>5, <1>7 DEF ParentEnds, StopWaitingParent, vars, rows
<1> QED
  BY <1>1, <1>2, <1>3, <1>4, <1>6, <1>7, SendKeeps, StopKeeps, AnswerKeeps, CrashKeeps,
     AsksUserKeeps, PausedKeeps, ReturnsKeeps, ThrowsKeeps, LeavesKeeps
  DEF Next, Turn, User, Run

LEMMA RestKeeps ==
  ASSUME RowsInv, RestInv, [Next]_vars
  PROVE  RestInv'
<1>1. MaxWakes \in Nat \ {0}
  BY SubagentAssumption
<1>2. \A n \in 0..MaxWakes : OneMore(n) \in 0..MaxWakes
  BY <1>1 DEF OneMore
<1>3. ASSUME NEW mode \in {"all", "any"}, Wait(mode) PROVE RestInv'
  <2>1. {Current(t) : t \in {u \in Tasks : Exists(u)}} \in SUBSET Runs
    BY CurrentRun
  <2>2. ckpt' \in [mode : {"none", "all", "any"}, runs : SUBSET Runs]
    BY <1>3, <2>1 DEF Wait
  <2>3. atWork' \in 0..MaxWakes
    BY <1>1, <1>3 DEF Wait, RestInv
  <2> QED  BY <1>3, <2>2, <2>3 DEF Wait, RestInv, wake
<1>4. ASSUME EndParent("completed") \/ EndParent("interrupted")
      PROVE  /\ parent' \in {"running", "waiting", "queued"} \cup Ended
             /\ ckpt' \in [mode : {"none", "all", "any"}, runs : SUBSET Runs]
  BY <1>4 DEF EndParent, RestInv, Ended
<1>5. CASE ParentEnds \/ StopWaitingParent
  <2>1. atWork' \in 0..MaxWakes
    BY <1>1, <1>5 DEF ParentEnds, StopWaitingParent, RestInv
  <2> QED  BY <1>4, <1>5, <2>1 DEF ParentEnds, StopWaitingParent, RestInv, wake
<1>6. CASE Wake
  <2>1. wakes' \in 0..MaxWakes /\ launches' \in 0..MaxWakes
    BY <1>1, <1>2, <1>6 DEF Wake, RestInv
  <2>2. parent' \in {"running", "waiting", "queued"} \cup Ended
    BY <1>6 DEF Wake, RestInv
  <2> QED  BY <1>6, <2>1, <2>2 DEF Wake, RestInv
<1>7. CASE LaunchParent
  <2>1. launches' \in 0..MaxWakes /\ atWork' \in 0..MaxWakes
    BY <1>1, <1>7 DEF LaunchParent, RestInv
  <2>2. parent' \in {"running", "waiting", "queued"} \cup Ended
    BY <1>7 DEF LaunchParent, RestInv
  <2> QED  BY <1>7, <2>1, <2>2 DEF LaunchParent, RestInv
<1>8. CASE Crash
  <2>1. launches' \in 0..MaxWakes /\ atWork' \in 0..MaxWakes /\ wakes' \in 0..MaxWakes
    BY <1>1, <1>8 DEF Crash
  <2>2. parent' \in {"running", "waiting", "queued"} \cup Ended
    BY <1>8 DEF Crash, RestInv, Ended
  <2> QED  BY <1>8, <2>1, <2>2 DEF Crash, RestInv
<1>9. ASSUME parent' = parent, ckpt' = ckpt, atWork' = atWork, launches' = launches,
             wakes' = wakes \/ wakes' = OneMore(wakes),
             steered' = steered \/ \E e \in Execs : steered' = steered \cup {e[1][1]}
      PROVE  RestInv'
  BY <1>2, <1>9, ExecOf DEF RestInv
<1>10. ASSUME NEW t \in Tasks, Spawn(t) \/ Send(t) \/ Retry(t) \/ Stop(t) PROVE RestInv'
  BY <1>9, <1>10 DEF Spawn, Send, Retry, Stop, par, wake, bounds
<1>11. ASSUME NEW r \in Runs, Answer(r) PROVE RestInv'
  BY <1>9, <1>11 DEF Answer, par, wake
<1>12. ASSUME NEW e \in Execs, AsksUser(e) \/ Paused(e) \/ Throws(e) \/ Returns(e) \/ Leaves(e)
       PROVE  RestInv'
  <2>1. /\ parent' = parent /\ ckpt' = ckpt /\ atWork' = atWork /\ launches' = launches
        /\ wakes' = wakes \/ wakes' = OneMore(wakes)
    BY <1>12 DEF AsksUser, Paused, Throws, Returns, Leaves, par, wake
  <2>2. steered' = steered \/ \E f \in Execs : steered' = steered \cup {f[1][1]}
    BY <1>12 DEF AsksUser, Paused, Throws, Returns, Leaves, Finishes
  <2> QED  BY <1>9, <2>1, <2>2
<1>13. CASE UNCHANGED vars
  BY <1>9, <1>13 DEF vars, par, wake
<1> QED
  BY <1>3, <1>5, <1>6, <1>7, <1>8, <1>10, <1>11, <1>12, <1>13 DEF Next, Turn, User, Run

LEMMA InitIsGood ==
  ASSUME Init
  PROVE  RowsInv /\ RestInv /\ GoodInv
<1>1. /\ row \in [Runs -> RunStatus] /\ task \in [Tasks -> RunStatus] /\ exec \in [Execs -> Executions]
      /\ \A r \in Runs : row[r] = "none"
      /\ \A t \in Tasks : task[t] = "none"
      /\ \A e \in Execs : exec[e].pc = "idle" /\ ~Busy(exec[e])
      /\ born = <<>> /\ asks = {} /\ pend = {} /\ steered = {}
  BY DEF Init, RunStatus, Executions, Idle, Busy
<1>2. World \in Worlds /\ World.row = row /\ World.task = task /\ World.exec = exec
  BY <1>1 DEF World, W, Worlds
<1>3. RowsInv
  <2>1. born \in Seq(Runs) /\ Len(born) = 0 /\ Range(born) = {}
    BY <1>1, EmptySeq DEF Range
  <2>2. InOrder
    <3>1. \A t \in Tasks, g \in 1..MaxRuns : row[<<t, g>>] = "none" /\ ~(g <= 0)
      BY <1>1 DEF Runs
    <3>2. 0 \in 0..Len(born)
      BY <2>1
    <3> QED  BY <3>1, <3>2 DEF InOrder
  <2>3. Owned(World)
    BY <1>1, <1>2 DEF Owned
  <2> QED  BY <1>1, <1>2, <2>1, <2>2, <2>3, SubagentAssumption DEF RowsInv
<1>4. RestInv
  BY <1>1, SubagentAssumption DEF Init, RestInv
<1>5. GoodInv
  <2>1. \A t \in Tasks : <<t, 1>> \in Runs
    BY SubagentAssumption DEF Runs
  <2>2. Worked(World)
    BY <1>1, <1>2 DEF Worked
  <2>3. Limited(World, steered)
    <3>1. ActiveRuns(World) = {} /\ ActiveTasks(World) = {}
      BY <1>1, <1>2, Statuses DEF ActiveRuns, ActiveTasks
    <3>2. ActiveTasks(World) \ steered = {}
      BY <3>1
    <3>3. Cardinality({}) = 0
      BY FS_EmptySet
    <3> QED  BY <3>1, <3>2, <3>3, SubagentAssumption DEF Limited
  <2>4. OneOpen(World, steered)
    BY <1>1, <1>2 DEF OneOpen
  <2>5. TaskFollows(World, steered)
    BY <1>1, <1>2, <2>1, Statuses DEF TaskFollows
  <2>6. ExecFollows(World, steered)
    BY <1>1, <1>2 DEF ExecFollows
  <2>7. AsksFollow(World, asks, steered) /\ Settled(World, steered, Runs)
    BY <1>1, <1>2 DEF AsksFollow, Settled
  <2> QED  BY <1>2, <2>2, <2>3, <2>4, <2>5, <2>6, <2>7 DEF GoodInv, Good
<1> QED  BY <1>3, <1>4, <1>5

-----------------------------------------------------------------------------
(* The theorems.                                                             *)

LEMMA RowsAlways == Spec => [](RowsInv /\ RestInv)
<1>1. Init => RowsInv /\ RestInv
  BY InitIsGood
<1>2. (RowsInv /\ RestInv) /\ [Next]_vars => (RowsInv /\ RestInv)'
  BY StepKeeps, RestKeeps
<1> QED  BY <1>1, <1>2, PTL DEF Spec

LEMMA GoodAlways ==
  ASSUME ~Hasty
  PROVE  Spec => [](RowsInv /\ GoodInv)
<1>1. Init => RowsInv /\ GoodInv
  BY InitIsGood
<1>2. (RowsInv /\ GoodInv) /\ [Next]_vars => (RowsInv /\ GoodInv)'
  BY StepKeeps
<1> QED  BY <1>1, <1>2, PTL DEF Spec

\* The rows, the executions and the parent stay what the code takes them for,
\* whatever users do: in particular a row exists for exactly the runs that were
\* created, however often the scheduler goes through them.
THEOREM TypeCorrect == Spec => []TypeOK
<1>1. RowsInv /\ RestInv => TypeOK
  <2> SUFFICES ASSUME RowsInv, RestInv PROVE TypeOK
    OBVIOUS
  <2>1. \A e \in Execs : exec[e] = Idle \/
          exec[e] \in [pc : {"works", "asked", "ends"}, known : BOOLEAN, aborted : BOOLEAN]
    BY RowsTypes DEF Executions
  <2> QED  BY <2>1, RowsTypes DEF TypeOK, RowsInv, RestInv
<1> QED  BY <1>1, RowsAlways, PTL

\* The limits of claim (SubagentRepository.ts) hold at all times, for any limits
\* and any number of subagents: pausing, being answered, being continued for a
\* message and surviving a crash never make one too many active.
THEOREM LimitsHold ==
  ASSUME ~Hasty
  PROVE  Spec => []WithinLimits
<1>1. RowsInv /\ GoodInv => WithinLimits
  <2> SUFFICES ASSUME RowsInv, GoodInv PROVE WithinLimits
    OBVIOUS
  <2>1. Limited(World, steered) /\ World.row = row /\ World.task = task
    BY RowsTypes DEF GoodInv, Good
  <2>2. ActiveRuns(World) = {r \in Runs : row[r] \in ActiveStatus}
        /\ ActiveTasks(World) \ steered = {t \in Tasks \ steered : task[t] \in ActiveStatus}
    BY <2>1 DEF ActiveRuns, ActiveTasks
  <2> QED  BY <2>1, <2>2 DEF Limited, WithinLimits
<1> QED  BY <1>1, GoodAlways, PTL

\* A subagent whose run was not continued for a message is worked on by at most
\* one execution that has not been aborted, through stops, retries, follow-ups,
\* answers and crashes.
THEOREM OneWorksAtATime ==
  ASSUME ~Hasty
  PROVE  Spec => []OneAtATime
<1>1. RowsInv /\ GoodInv => OneAtATime
  <2> SUFFICES ASSUME RowsInv, GoodInv, NEW t \in Tasks \ steered
               PROVE  Cardinality(AtWorkOn(t)) <= 1
    BY DEF OneAtATime
  <2>1. ASSUME NEW e \in AtWorkOn(t), NEW f \in AtWorkOn(t) PROVE e = f
    <3>1. /\ e \in Execs /\ f \in Execs /\ e[1] \in Runs /\ f[1] \in Runs
          /\ Busy(exec[e]) /\ Busy(exec[f]) /\ e[1][1] = t /\ f[1][1] = t
          /\ ~exec[e].aborted /\ ~exec[f].aborted
      BY <2>1, ExecOf DEF AtWorkOn, At, Busy
    <3>2. row[e[1]] \in {"running", "steering", "waiting"} /\ row[f[1]] \in {"running", "steering", "waiting"}
      BY <3>1, ExecFacts DEF Busy
    <3>3. row[e[1]] \notin Ended \cup {"none"} /\ row[f[1]] \notin Ended \cup {"none"}
      BY <3>2 DEF Ended
    <3>4. OneOpen(World, steered) /\ World.row = row
      BY GoodFacts
    <3>5. e[1] = f[1]
      BY <3>1, <3>3, <3>4, OneOpenUnique
    <3> QED  BY <3>1, <3>5, GoodFacts
  <2>2. CASE AtWorkOn(t) = {}
    BY <2>2, FS_EmptySet
  <2>3. CASE AtWorkOn(t) # {}
    <3>1. PICK e : e \in AtWorkOn(t)
      BY <2>3
    <3>2. AtWorkOn(t) = {e}
      BY <2>1, <3>1
    <3>3. Cardinality({e}) = 1
      BY FS_Singleton
    <3> QED  BY <3>2, <3>3
  <2> QED  BY <2>2, <2>3
<1> QED  BY <1>1, GoodAlways, PTL

\* Although finish writes the task of any run, also of an old one, a task says
\* whether its current run has ended, unless a run of it was continued for a
\* message.
THEOREM TasksTellTheirRun ==
  ASSUME ~Hasty
  PROVE  Spec => []TaskTellsItsRun
<1>1. RowsInv /\ GoodInv => TaskTellsItsRun
  <2> SUFFICES ASSUME RowsInv, GoodInv, NEW t \in Tasks \ steered, Exists(t)
               PROVE  task[t] \in Ended <=> row[Current(t)] \in Ended
    BY DEF TaskTellsItsRun
  <2> DEFINE r == Current(t)
  <2>1. PICK k \in 0..Len(born) :
          /\ k <= MaxRuns /\ r = <<t, k>> /\ r[1] = t /\ r[2] = k
          /\ \A g \in 1..MaxRuns : row[<<t, g>>] # "none" <=> g <= k
          /\ r \in Runs /\ row[r] # "none"
    BY CurrentRun
  <2> HIDE DEF r
  <2>2. OneOpen(World, steered) /\ World.row = row /\ k \in Nat
    BY <2>1, GoodFacts, LenProperties DEF RowsInv
  <2>3. CASE row[r] \in Ended
    <3>1. ASSUME NEW q \in Runs, q[1] = t PROVE row[q] \in Ended \cup {"none"}
      <4>1. q = <<t, q[2]>> /\ q[2] \in 1..MaxRuns
        BY <3>1, ExecOf
      <4>2. q[2] < k \/ q[2] = k \/ ~(q[2] <= k)
        BY <2>2, <4>1
      <4>3. q[2] < k => row[q] \in Ended
        BY <2>1, <2>2, <3>1 DEF OneOpen
      <4> QED  BY <2>1, <2>3, <4>1, <4>2, <4>3
    <3>2. row[<<t, 1>>] # "none"
      BY DEF Exists
    <3>3. task[t] \in Ended
      BY <3>1, <3>2, GoodFacts
    <3> QED  BY <2>3, <3>3 DEF r
  <2>4. CASE row[r] \in ActiveStatus
    <3>1. task[t] \in ActiveStatus
      BY <2>1, <2>4, GoodFacts
    <3> QED  BY <2>4, <3>1, Statuses DEF r
  <2>5. CASE row[r] = "queued"
    <3>1. task[t] = "queued"
      BY <2>1, <2>5, GoodFacts
    <3> QED  BY <2>5, <3>1, Statuses DEF r
  <2>6. row[r] \in RunStatus
    BY <2>1, RowsTypes
  <2> QED  BY <2>1, <2>3, <2>4, <2>5, <2>6, Statuses
<1> QED  BY <1>1, GoodAlways, PTL

\* A message for a running subagent always has an execution that will look for
\* it, or the run waits for one or has ended.
THEOREM MessagesAreRead ==
  ASSUME ~Hasty
  PROVE  Spec => []MessageHasAReader
<1>1. RowsInv /\ GoodInv => MessageHasAReader
  <2> SUFFICES ASSUME RowsInv, GoodInv, NEW r \in pend, row[r] \notin Ended \cup {"queued", "waiting"}
               PROVE  Live(r) # {}
    BY DEF MessageHasAReader
  <2>1. r \in Runs /\ row[r] # "none" /\ row[r] \in RunStatus
    BY RowsTypes DEF RowsInv
  <2>2. row[r] \in {"running", "steering"}
    BY <2>1 DEF RunStatus, ActiveStatus
  <2>3. PICK e \in Execs : e[1] = r /\ exec[e].pc = "works"
    BY <2>1, <2>2, GoodFacts
  <2> QED  BY <2>3, ExecOf DEF Live
<1> QED  BY <1>1, GoodAlways, PTL

\* What the parent was told of a run that ended stays true: no finish, pause,
\* answer or recovery writes its status again, unless a run of the subagent was
\* continued for a message.
THEOREM EndsAreFinal ==
  ASSUME ~Hasty
  PROVE  Spec => EndedStaysEnded
<1>1. (RowsInv /\ GoodInv) /\ [Next]_vars
        => [\A r \in Runs : row[r] \in Ended /\ r[1] \notin steered => row'[r] = row[r]]_vars
  BY StepKeeps DEF EndedKept
<1> QED  BY <1>1, GoodAlways, PTL DEF Spec, EndedStaysEnded
=============================================================================
