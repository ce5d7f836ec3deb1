------------------------------ MODULE ToolApproval ------------------------------
(* The tool calls of one turn and their approvals: a run asks, is paused,     *)
(* answered and resumed; the agent may crash at any point.  Every call has a  *)
(* row in tool_calls, perhaps an approval with its checkpoint, and a place in *)
(* the Pi session.  An answer that arrives while a run of the turn still      *)
(* works starts a second one: that race is in TurnLifecycle and left out.     *)
EXTENDS Integers, FiniteSets

CONSTANTS
  Calls,       \* tool calls the model may make in this turn
  NoCall,      \* no call
  MaxCrashes   \* bound: crashes of the agent

ASSUME CallsAssumption == NoCall \notin Calls /\ MaxCrashes \in Nat

VARIABLES
  turn,        \* turns.status
  appr,        \* approval_requests.status of each call, "none" without one
  reply,       \* approval_requests.reply
  when,        \* approval_requests.resolved_at
  clock,       \* answers given so far
  row,         \* tool_calls.status of each call, "none" without a row
  durable,     \* calls whose assistant message is in the session table
  effects,     \* how often the call has acted on the world
  made,        \* calls the model has made
  pc,          \* memory: where the run of the turn stands, "off" without one
  resumed,     \* memory: the call this run resumes
  batch,       \* memory: calls of the model's last message
  todo,        \* memory: calls of the batch that are still to be prepared
  asking,      \* memory: the call whose approval is being activated
  ready,       \* memory: calls that may start
  working,     \* memory: calls inside their tool
  acted,       \* memory: calls inside their tool that have acted
  paused,      \* memory: the run has asked the user
  aborted,     \* memory: the run's signal
  crashes      \* counter of the bound

db == <<turn, appr, reply, when, clock, row>>
tools == <<ready, working, acted>>
message == <<batch, todo, asking>>
vars == <<db, durable, effects, made, pc, resumed, message, tools, paused, aborted,
          crashes>>

TurnStatus == {"queued", "running", "waiting", "completed", "failed", "interrupted"}
ApprovalStatus == {"none", "preparing", "pending", "resolved", "claimed", "cancelled"}
RowStatus == {"none", "running", "completed", "error", "interrupted"}
RunPC == {"off", "resume", "model", "prepare", "execute"}

Having(S) == {c \in Calls : appr[c] \in S}
SetAll(f, S, v) == [c \in Calls |-> IF c \in S THEN v ELSE f[c]]

Init ==
  /\ turn = "queued"
  /\ appr = [c \in Calls |-> "none"] /\ reply = [c \in Calls |-> "none"]
  /\ when = [c \in Calls |-> 0] /\ clock = 0
  /\ row = [c \in Calls |-> "none"]
  /\ durable = {}
  /\ effects = [c \in Calls |-> 0] /\ made = {}
  /\ pc = "off" /\ resumed = NoCall /\ batch = {} /\ todo = {} /\ asking = NoCall
  /\ ready = {} /\ working = {} /\ acted = {}
  /\ paused = FALSE /\ aborted = FALSE /\ crashes = 0

\* The run is over: what it held in memory is gone, and with it the entries of
\* the session that were not flushed. Mutant: a call is left behind.
MutRunGone ==
  /\ pc' = "off" /\ resumed' = NoCall /\ batch' = {} /\ todo' = {} /\ asking' = NoCall
  /\ ready' = {} /\ working' = {} /\ acted' = acted /\ paused' = FALSE /\ aborted' = FALSE
RunGone ==
  /\ pc' = "off" /\ resumed' = NoCall /\ batch' = {} /\ todo' = {} /\ asking' = NoCall
  /\ ready' = {} /\ working' = {} /\ acted' = {} /\ paused' = FALSE /\ aborted' = FALSE

\* finalizeTurn of an interruption takes every approval of the turn with it.
Cancelled == SetAll(appr, Having({"preparing", "pending", "resolved", "claimed"}), "cancelled")

(******************************** Running *********************************)

\* Resolved approvals are claimed in the order of their answers.
\* Mutant: the latest answer first.
MutEarliest(c) == \A d \in Having({"resolved"}) : when[d] <= when[c]
Earliest(c) == \A d \in Having({"resolved"}) : when[c] <= when[d]

\* A denied call does not start, and a completed one is answered from its row.
\* Mutant: neither is looked at.
MutMayAct(c) == TRUE
MayAct(c) == reply[c] = "allow" /\ row[c] # "completed"

\* executeTurn claims the turn and the earliest resolved approval of it; one
\* approval is resumed by each run.
StartRun ==
  /\ turn = "queued" /\ pc = "off"
  /\ turn' = "running"
  /\ \/ /\ Having({"resolved"}) = {}
        /\ pc' = "model"
        /\ UNCHANGED <<appr, resumed, batch, ready>>
     \/ \E c \in Having({"resolved"}) :
          /\ Earliest(c)
          /\ appr' = [appr EXCEPT ![c] = "claimed"]
          /\ pc' = "resume" /\ resumed' = c /\ batch' = {c}
          /\ ready' = IF c \in durable /\ MayAct(c) THEN {c} ELSE {}
  /\ UNCHANGED <<reply, when, clock, row, durable, effects, made, todo, asking,
                 working, acted, paused, aborted, crashes>>

\* The message that holds the call was never flushed: the run fails.
ResumeLost ==
  /\ pc = "resume" /\ resumed \notin durable
  /\ turn' = IF aborted THEN "interrupted" ELSE "failed"
  /\ appr' = IF aborted THEN Cancelled ELSE appr
  /\ RunGone
  /\ UNCHANGED <<reply, when, clock, row, durable, effects, made, crashes>>

\* The call has its outcome and the model goes on.
ResumeDone ==
  /\ pc = "resume" /\ resumed \in durable
  /\ ready = {} /\ working = {}
  /\ pc' = "model" /\ resumed' = NoCall /\ batch' = {}
  /\ UNCHANGED <<db, durable, effects, made, todo, asking, tools, paused, aborted, crashes>>

\* The model answers with a batch of new calls.
CallTools ==
  /\ pc = "model" /\ ~aborted
  /\ \E B \in SUBSET (Calls \ made) \ {{}} :
       /\ made' = made \cup B /\ batch' = B /\ todo' = B
  /\ pc' = "prepare"
  /\ UNCHANGED <<db, durable, effects, resumed, asking, tools, paused, aborted, crashes>>

\* The policy, a rule or the reviewer allows the call or refuses it.
Decide(c) ==
  /\ pc = "prepare" /\ c \in todo /\ asking = NoCall /\ ~aborted
  /\ todo' = todo \ {c}
  /\ ready' \in {ready, ready \cup {c}}
  /\ UNCHANGED <<db, durable, effects, made, pc, resumed, batch, asking, working,
                 acted, paused, aborted, crashes>>

\* Or the user has to: the approval is stored before it is made visible.
Ask(c) ==
  /\ pc = "prepare" /\ c \in todo /\ asking = NoCall /\ ~aborted
  /\ appr' = [appr EXCEPT ![c] = "preparing"]
  /\ todo' = todo \ {c} /\ asking' = c /\ paused' = TRUE
  /\ UNCHANGED <<turn, reply, when, clock, row, durable, effects, made, pc, resumed,
                 batch, tools, aborted, crashes>>

Activate ==
  /\ asking # NoCall
  /\ appr' = [appr EXCEPT ![asking] = "pending"]
  /\ turn' = "waiting"
  /\ asking' = NoCall
  /\ UNCHANGED <<reply, when, clock, row, durable, effects, made, pc, resumed, batch,
                 todo, tools, paused, aborted, crashes>>

\* Every call of the batch is prepared before the first one starts; an abort
\* ends the preparation. Mutant: it does not.
MutAllPrepared == todo = {}
AllPrepared == todo = {} \/ aborted

Prepared ==
  /\ pc = "prepare" /\ asking = NoCall
  /\ AllPrepared
  /\ pc' = "execute" /\ todo' = {}
  /\ UNCHANGED <<db, durable, effects, made, resumed, batch, asking, tools, paused,
                 aborted, crashes>>

(******************************** The tools *******************************)

Executing == pc \in {"resume", "execute"}

\* The row is written before the tool starts. Mutant: it is not.
MutBegun(c) == row
Begun(c) == [row EXCEPT ![c] = "running"]

Begin(c) ==
  /\ Executing /\ c \in ready /\ ~aborted
  /\ ready' = ready \ {c} /\ working' = working \cup {c}
  /\ row' = Begun(c)
  /\ UNCHANGED <<turn, appr, reply, when, clock, durable, effects, made, pc, resumed,
                 message, acted, paused, aborted, crashes>>

\* The executor refuses: aborted, a changed scope, a hook, a policy.
Refuse(c) ==
  /\ Executing /\ c \in ready
  /\ ready' = ready \ {c}
  /\ UNCHANGED <<db, durable, effects, made, pc, resumed, message, working, acted,
                 paused, aborted, crashes>>

Act(c) ==
  /\ Executing /\ c \in working \ acted
  /\ acted' = acted \cup {c}
  /\ effects' = [effects EXCEPT ![c] = @ + 1]
  /\ UNCHANGED <<db, durable, made, pc, resumed, message, ready, working, paused,
                 aborted, crashes>>

\* The tool returns; one that fails or is aborted may have acted or not.
Finish(c) ==
  /\ Executing /\ c \in working
  /\ \E s \in {"completed", "error", "interrupted"} :
       /\ s = "completed" => c \in acted
       /\ s = "interrupted" => aborted
       /\ s = "error" => ~aborted
       /\ row' = [row EXCEPT ![c] = s]
  /\ working' = working \ {c} /\ acted' = acted \ {c}
  /\ UNCHANGED <<turn, appr, reply, when, clock, durable, effects, made, pc, resumed,
                 message, ready, paused, aborted, crashes>>

\* The end of a step of the loop flushes the message of the batch.
SavePoint ==
  /\ pc = "execute" /\ ready = {} /\ working = {} /\ ~aborted
  /\ durable' = durable \cup batch
  /\ pc' = "model" /\ batch' = {}
  /\ UNCHANGED <<db, effects, made, resumed, todo, asking, tools, paused,
                 aborted, crashes>>

\* The model gives its last answer: a run that asked leaves the turn as it is.
RunEnds ==
  /\ pc = "model" /\ ~aborted
  /\ turn' = IF paused THEN turn ELSE "completed"
  /\ RunGone
  /\ UNCHANGED <<appr, reply, when, clock, row, durable, effects, made, crashes>>

\* The model cannot be reached: the turn fails, its approvals stay.
RunFails ==
  /\ pc = "model" /\ ~aborted
  /\ turn' = "failed"
  /\ RunGone
  /\ UNCHANGED <<appr, reply, when, clock, row, durable, effects, made, crashes>>

(************************* The user and the process ***********************)

\* An answer is stored with the turn's new status. Mutant: it only waits.
MutAnsweredTurn == turn
AnsweredTurn == "queued"

\* An approval can be answered whatever has become of the turn.
Answer(c) ==
  /\ pc = "off" /\ appr[c] = "pending"
  /\ appr' = [appr EXCEPT ![c] = "resolved"]
  /\ \E d \in {"allow", "deny"} : reply' = [reply EXCEPT ![c] = d]
  /\ clock' = clock + 1 /\ when' = [when EXCEPT ![c] = clock']
  /\ turn' = AnsweredTurn
  /\ UNCHANGED <<row, durable, effects, made, pc, resumed, message, tools, paused,
                 aborted, crashes>>

StopWaiting ==
  /\ pc = "off" /\ turn = "waiting"
  /\ turn' = "interrupted" /\ appr' = Cancelled
  /\ UNCHANGED <<reply, when, clock, row, durable, effects, made, pc, resumed, message,
                 tools, paused, aborted, crashes>>

\* A stop of a run only sets its signal. Mutant: the approvals are cancelled
\* before the tools have returned.
MutStop ==
  /\ pc # "off" /\ turn \in {"running", "waiting"} /\ ~aborted
  /\ aborted' = TRUE /\ appr' = Cancelled
  /\ UNCHANGED <<turn, reply, when, clock, row, durable, effects, made, pc, resumed,
                 message, tools, paused, crashes>>
Stop ==
  /\ pc # "off" /\ turn \in {"running", "waiting"} /\ ~aborted
  /\ aborted' = TRUE
  /\ UNCHANGED <<db, durable, effects, made, pc, resumed, message, tools, paused, crashes>>

\* The run sees the signal when its tools have returned.
RunAborts ==
  /\ aborted /\ pc \in {"model", "execute"}
  /\ ready = {} /\ working = {}
  /\ turn' = "interrupted" /\ appr' = Cancelled
  /\ RunGone
  /\ UNCHANGED <<reply, when, clock, row, durable, effects, made, crashes>>

\* What recovery can resume without repeating anything.
\* Mutant: whatever the state of the call.
MutSafe == {c \in Having({"resolved", "claimed"}) : turn = "running"}
Safe == {c \in Having({"resolved", "claimed"}) :
           turn = "running" /\ (reply[c] = "deny" \/ row[c] \in {"completed", "none"})}

\* Without anything safe a call that was at work is given up.
Ambiguous == {c \in Having({"claimed"}) :
                /\ turn = "running" /\ Safe = {}
                /\ reply[c] = "allow" /\ row[c] \in {"running", "error", "interrupted"}}

\* A turn that waits for nothing cannot go on.
Stuck == turn = "running" \/ (turn = "waiting" /\ Having({"pending"}) = {})

\* The process dies; the next one recovers what it finds.
Crash ==
  /\ crashes < MaxCrashes /\ crashes' = crashes + 1
  /\ RunGone
  /\ turn' = IF Safe # {} THEN "queued" ELSE IF Stuck THEN "interrupted" ELSE turn
  /\ appr' = [c \in Calls |-> IF c \in Safe THEN "resolved"
                              ELSE IF c \in Ambiguous \cup Having({"preparing"}) THEN "cancelled"
                              ELSE appr[c]]
  /\ row' = [c \in Calls |-> IF turn' = "interrupted" /\ row[c] = "running"
                             THEN "interrupted" ELSE row[c]]
  /\ UNCHANGED <<reply, when, clock, durable, effects, made>>

RunStep ==
  \/ ResumeLost \/ ResumeDone \/ CallTools \/ Activate \/ Prepared \/ SavePoint
  \/ RunEnds \/ RunFails \/ RunAborts
  \/ \E c \in Calls : Decide(c) \/ Ask(c) \/ Begin(c) \/ Refuse(c) \/ Act(c) \/ Finish(c)

Next == StartRun \/ RunStep \/ \E c \in Calls : Answer(c)
        \/ StopWaiting \/ Stop \/ Crash

Spec == Init /\ [][Next]_vars

\* A queued turn is launched and its run goes on: model calls and tools have
\* time limits. Users and crashes are free.
FairSpec == Spec /\ WF_vars(StartRun) /\ WF_vars(RunStep)

(******************************** Properties ******************************)

TypeOK ==
  /\ turn \in TurnStatus
  /\ appr \in [Calls -> ApprovalStatus] /\ reply \in [Calls -> {"none", "allow", "deny"}]
  /\ when \in [Calls -> Nat] /\ clock \in Nat
  /\ row \in [Calls -> RowStatus] /\ effects \in [Calls -> Nat]
  /\ durable \subseteq Calls /\ made \subseteq Calls
  /\ pc \in RunPC /\ resumed \in Calls \cup {NoCall} /\ asking \in Calls \cup {NoCall}
  /\ batch \subseteq Calls /\ todo \subseteq Calls
  /\ ready \subseteq Calls /\ working \subseteq Calls /\ acted \subseteq working
  /\ paused \in BOOLEAN /\ aborted \in BOOLEAN /\ crashes \in Nat
  /\ pc = "resume" => resumed \in Calls

\* A tool call acts on the world at most once, whatever is answered, resumed,
\* stopped, or recovered after a crash in the middle of it.
AtMostOnce == \A c \in Calls : effects[c] <= 1

\* A call for which the user was asked acts only when the answer was yes.
OnlyIfAllowed == \A c \in Calls : appr[c] # "none" /\ effects[c] > 0 => reply[c] = "allow"

\* The rows tell recovery the truth: a call without a row has not acted, a
\* completed one has, and the row of a call in its tool says so.
RowsTellTheTruth ==
  \A c \in Calls : /\ row[c] = "none" => effects[c] = 0
                   /\ row[c] = "completed" => effects[c] = 1
                   /\ c \in working => row[c] = "running"

\* A turn never waits for an approval that cannot be answered.
WaitsForAnAnswer == turn = "waiting" => Having({"pending"}) # {}

\* Once an approval is cancelled, by a stop or by recovery, its call is still.
CancelledIsStill ==
  [][\A c \in Calls : appr[c] = "cancelled" => effects'[c] = effects[c]]_vars

\* The earliest answer of a queued turn is taken up, or cancelled by a stop.
FirstInLine(c) == /\ turn = "queued" /\ appr[c] = "resolved"
                  /\ \A d \in Calls : appr[d] = "resolved" => when[c] <= when[d]
AnswerIsTakenUp == \A c \in Calls : FirstInLine(c) ~> appr[c] # "resolved"

\* A run comes to its end: nothing it waits for waits for it.
RunsComeToAnEnd == pc # "off" ~> pc = "off"

\* A claimed call that was in its tool when the agent died is given up, and its
\* turn with it (RECOVERY.md: fail-closed).
FailClosed ==
  [][\A c \in working : crashes' # crashes /\ appr[c] = "claimed" => turn' = "interrupted"]_vars

\* A run finds the message of the call it resumes.
ResumeFinds == pc = "resume" => resumed \in durable
=============================================================================
