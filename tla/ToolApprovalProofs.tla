--------------------------- MODULE ToolApprovalProofs ---------------------------
(* That a tool call acts at most once and only when allowed, for any number of *)
(* calls, answers, stops and crashes.                                          *)
EXTENDS ToolApproval, TLAPS

-----------------------------------------------------------------------------
(* The inductive invariant.                                                  *)

\* The user was not asked about the call, or has allowed the run to make it.
Allowed(c) == appr[c] = "none" \/ (appr[c] = "claimed" /\ reply[c] = "allow")

\* Where calls can be while a run is at a place.
Places ==
  /\ pc \in {"off", "model"} => ready = {} /\ working = {}
  /\ pc = "prepare" => working = {}
  /\ pc # "prepare" => todo = {} /\ asking = NoCall

\* How the row, the approval and the place of a call in the run go together.
CallInv(c) ==
  /\ c \notin made => row[c] = "none" /\ appr[c] = "none"
  /\ c \in todo => c \in made /\ c \notin ready /\ row[c] = "none" /\ appr[c] = "none"
  /\ c \in ready => c \in made /\ row[c] = "none" /\ Allowed(c)
  /\ c \in working => /\ row[c] = "running" /\ Allowed(c)
                      /\ effects[c] = IF c \in acted THEN 1 ELSE 0
  /\ c = asking => appr[c] = "preparing"
  /\ appr[c] \in {"preparing", "pending"} => row[c] = "none"
  /\ appr[c] = "resolved" => row[c] \in {"none", "completed"} \/ reply[c] = "deny"
  /\ row[c] = "none" => effects[c] = 0
  /\ row[c] = "completed" => effects[c] = 1
  /\ effects[c] <= 1
  /\ appr[c] # "none" /\ effects[c] > 0 => reply[c] = "allow"

IInv == TypeOK /\ Places /\ \A c \in Calls : CallInv(c)

-----------------------------------------------------------------------------
(* Types.                                                                    *)

LEMMA InitIInv == Init => IInv
<1> SUFFICES ASSUME Init PROVE IInv
  OBVIOUS
<1>1. TypeOK
  BY DEF Init, TypeOK, TurnStatus, ApprovalStatus, RowStatus, RunPC
<1>2. Places
  BY DEF Init, Places
<1>3. ASSUME NEW c \in Calls PROVE CallInv(c)
  BY CallsAssumption DEF Init, CallInv, Allowed
<1> QED  BY <1>1, <1>2, <1>3 DEF IInv

\* What an interruption leaves of the approvals.
LEMMA CancelledType ==
  ASSUME TypeOK
  PROVE  Cancelled \in [Calls -> ApprovalStatus]
BY DEF TypeOK, Cancelled, SetAll, Having, ApprovalStatus

\* The end of a run leaves a well-typed memory.
LEMMA RunGoneType ==
  RunGone => /\ pc' = "off" /\ resumed' = NoCall /\ asking' = NoCall
             /\ batch' = {} /\ todo' = {} /\ ready' = {} /\ working' = {} /\ acted' = {}
             /\ paused' = FALSE /\ aborted' = FALSE
BY DEF RunGone

LEMMA TypeStep == TypeOK /\ [Next]_vars => TypeOK'
<1> SUFFICES ASSUME TypeOK, [Next]_vars PROVE TypeOK'
  OBVIOUS
<1> USE DEF TurnStatus, ApprovalStatus, RowStatus, RunPC
<1>1. CASE StartRun
  <2>1. CASE Having({"resolved"}) = {} /\ pc' = "model"
             /\ UNCHANGED <<appr, resumed, batch, ready>>
    BY <1>1, <2>1 DEF StartRun, TypeOK
  <2>2. ASSUME NEW c \in Having({"resolved"}),
               appr' = [appr EXCEPT ![c] = "claimed"],
               pc' = "resume", resumed' = c, batch' = {c},
               ready' = IF c \in durable /\ MayAct(c) THEN {c} ELSE {}
        PROVE  TypeOK'
    BY <1>1, <2>2 DEF StartRun, TypeOK, Having
  <2> QED  BY <1>1, <2>1, <2>2 DEF StartRun
<1>2. CASE ResumeLost \/ RunEnds \/ RunFails \/ RunAborts
  BY <1>2, CancelledType, RunGoneType
     DEF ResumeLost, RunEnds, RunFails, RunAborts, TypeOK
<1>3. CASE ResumeDone \/ Prepared \/ SavePoint
  BY <1>3 DEF ResumeDone, Prepared, SavePoint, db, tools, TypeOK
<1>4. CASE CallTools
  BY <1>4 DEF CallTools, db, tools, TypeOK
<1>5. CASE Activate
  BY <1>5 DEF Activate, tools, TypeOK
<1>6. ASSUME NEW c \in Calls, Decide(c) PROVE TypeOK'
  BY <1>6 DEF Decide, db, TypeOK
<1>7. ASSUME NEW c \in Calls, Ask(c) PROVE TypeOK'
  BY <1>7 DEF Ask, tools, TypeOK
<1>8. ASSUME NEW c \in Calls, Begin(c) PROVE TypeOK'
  BY <1>8 DEF Begin, Begun, message, TypeOK
<1>9. ASSUME NEW c \in Calls, Refuse(c) \/ Act(c) PROVE TypeOK'
  BY <1>9 DEF Refuse, Act, db, message, TypeOK
<1>10. ASSUME NEW c \in Calls, Finish(c) PROVE TypeOK'
  BY <1>10 DEF Finish, message, TypeOK
<1>11. ASSUME NEW c \in Calls, Answer(c) PROVE TypeOK'
  BY <1>11 DEF Answer, AnsweredTurn, message, tools, TypeOK
<1>12. CASE StopWaiting
  BY <1>12, CancelledType DEF StopWaiting, message, tools, TypeOK
<1>13. CASE Stop
  BY <1>13 DEF Stop, db, message, tools, TypeOK
<1>14. CASE Crash
  <2>1. appr' \in [Calls -> ApprovalStatus] /\ row' \in [Calls -> RowStatus]
    BY <1>14 DEF Crash, TypeOK
  <2>2. turn' \in TurnStatus /\ crashes' \in Nat
    BY <1>14 DEF Crash, TypeOK
  <2> QED  BY <1>14, <2>1, <2>2, RunGoneType DEF Crash, TypeOK
<1>15. CASE UNCHANGED vars
  BY <1>15 DEF vars, db, message, tools, TypeOK
<1> QED  BY <1>1, <1>2, <1>3, <1>4, <1>5, <1>6, <1>7, <1>8, <1>9, <1>10, <1>11, <1>12,
            <1>13, <1>14, <1>15 DEF Next, RunStep
-----------------------------------------------------------------------------
(* The places.                                                               *)

LEMMA PlacesStep == TypeOK /\ Places /\ [Next]_vars => Places'
<1> SUFFICES ASSUME TypeOK, Places, [Next]_vars PROVE Places'
  OBVIOUS
<1>1. CASE StartRun
  BY <1>1 DEF StartRun, Places
<1>2. CASE ResumeLost \/ RunEnds \/ RunFails \/ RunAborts
  BY <1>2, RunGoneType DEF ResumeLost, RunEnds, RunFails, RunAborts, Places
<1>3. CASE ResumeDone \/ Prepared \/ SavePoint
  BY <1>3 DEF ResumeDone, Prepared, SavePoint, tools, Places
<1>4. CASE CallTools
  BY <1>4 DEF CallTools, tools, Places
<1>5. CASE Activate
  BY <1>5 DEF Activate, tools, Places
<1>6. ASSUME NEW c \in Calls, Decide(c) PROVE Places'
  BY <1>6 DEF Decide, Places
<1>7. ASSUME NEW c \in Calls, Ask(c) PROVE Places'
  BY <1>7 DEF Ask, tools, Places
<1>8. ASSUME NEW c \in Calls, Begin(c) \/ Refuse(c) \/ Act(c) \/ Finish(c) PROVE Places'
  BY <1>8 DEF Begin, Refuse, Act, Finish, Executing, message, Places
<1>9. ASSUME NEW c \in Calls, Answer(c) PROVE Places'
  BY <1>9 DEF Answer, message, tools, Places
<1>10. CASE StopWaiting \/ Stop
  BY <1>10 DEF StopWaiting, Stop, message, tools, Places
<1>11. CASE Crash
  BY <1>11, RunGoneType DEF Crash, Places
<1>12. CASE UNCHANGED vars
  BY <1>12 DEF vars, message, tools, Places
<1> QED  BY <1>1, <1>2, <1>3, <1>4, <1>5, <1>6, <1>7, <1>8, <1>9, <1>10, <1>11, <1>12
            DEF Next, RunStep

-----------------------------------------------------------------------------
(* One call.                                                                 *)

\* The end of a run takes a call out of every place and may cancel its approval.
LEMMA CallAtRest ==
  ASSUME IInv, NEW c \in Calls, RunGone, appr' \in {appr, Cancelled},
         UNCHANGED <<reply, row, effects, made>>
  PROVE  CallInv(c)'
<1>1. appr'[c] \in {appr[c], "cancelled"} /\ (appr[c] = "none" => appr'[c] = "none")
  BY DEF Cancelled, SetAll, Having, IInv, TypeOK
<1>2. CallInv(c) /\ c # NoCall
  BY CallsAssumption DEF IInv
<1>3. c \notin todo' /\ c \notin ready' /\ c \notin working' /\ c # asking'
  BY <1>2, RunGoneType
<1> QED  BY <1>1, <1>2, <1>3 DEF CallInv

\* A step that moves nothing but calls out of places.
LEMMA CallLeftAlone ==
  ASSUME IInv, NEW c \in Calls, UNCHANGED <<appr, reply, row, effects, made, asking>>,
         todo' \subseteq todo, ready' \subseteq ready, working' = working, acted' = acted
  PROVE  CallInv(c)'
BY DEF IInv, CallInv, Allowed

\* An answered approval is claimed, and its call started unless it is done.
LEMMA StartRunCall ==
  ASSUME IInv, NEW c \in Calls, StartRun
  PROVE  CallInv(c)'
<1>1. /\ CallInv(c) /\ ready = {} /\ working = {} /\ todo = {} /\ asking = NoCall /\ c # NoCall
      /\ UNCHANGED <<reply, row, effects, made, todo, asking, working, acted>>
  BY CallsAssumption DEF StartRun, IInv, Places
<1>2. CASE UNCHANGED <<appr, ready>>
  BY <1>2, <1>1, CallLeftAlone
<1>3. ASSUME NEW d \in Having({"resolved"}), appr' = [appr EXCEPT ![d] = "claimed"],
             ready' = IF d \in durable /\ MayAct(d) THEN {d} ELSE {}
      PROVE  CallInv(c)'
  <2>1. CASE c = d
    <3>1. appr[c] = "resolved" /\ appr'[c] = "claimed"
      BY <1>3, <2>1 DEF IInv, TypeOK, Having
    <3>2. c \in ready' => c \in made /\ row[c] = "none" /\ reply[c] = "allow"
      BY <1>1, <1>3, <2>1, <3>1 DEF MayAct, CallInv
    <3> QED  BY <1>1, <3>1, <3>2 DEF CallInv, Allowed
  <2>2. CASE c # d
    <3>1. appr'[c] = appr[c] /\ c \notin ready'
      BY <1>3, <2>2
    <3> QED  BY <1>1, <3>1 DEF CallInv, Allowed
  <2> QED  BY <2>1, <2>2
<1> QED  BY <1>2, <1>3 DEF StartRun

\* New calls have neither a row nor an approval.
LEMMA CallToolsCall ==
  ASSUME IInv, NEW c \in Calls, CallTools
  PROVE  CallInv(c)'
<1>1. PICK B \in SUBSET (Calls \ made) \ {{}} : made' = made \cup B /\ todo' = B
  BY DEF CallTools
<1>2. ready = {} /\ working = {} /\ CallInv(c)
  BY DEF CallTools, IInv, Places
<1> QED  BY <1>1, <1>2 DEF CallTools, db, tools, CallInv, Allowed

LEMMA PrepareCall ==
  ASSUME IInv, NEW c \in Calls, NEW d \in Calls, Decide(d) \/ Ask(d)
  PROVE  CallInv(c)'
<1>1. CallInv(c) /\ CallInv(d) /\ d \in todo /\ c # NoCall /\ asking = NoCall /\ working = {}
  BY CallsAssumption DEF IInv, Places, Decide, Ask
<1>2. CASE Decide(d)
  <2>1. todo' = todo \ {d} /\ (c \in ready' => c \in ready \/ c = d)
    BY <1>2 DEF Decide
  <2>2. UNCHANGED <<appr, reply, row, effects, made, asking, working, acted>>
    BY <1>2 DEF Decide, db
  <2>3. row[d] = "none" /\ appr[d] = "none" /\ d \in made
    BY <1>1 DEF CallInv
  <2> QED  BY <1>1, <2>1, <2>2, <2>3 DEF CallInv, Allowed
<1>3. CASE Ask(d)
  <2>1. appr' = [appr EXCEPT ![d] = "preparing"] /\ appr \in [Calls -> ApprovalStatus]
    BY <1>3 DEF Ask, IInv, TypeOK
  <2> QED  BY <1>1, <1>3, <2>1 DEF Ask, tools, CallInv, Allowed
<1> QED  BY <1>2, <1>3

LEMMA ActivateCall ==
  ASSUME IInv, NEW c \in Calls, Activate
  PROVE  CallInv(c)'
<1>1. asking \in Calls /\ CallInv(c) /\ CallInv(asking) /\ c # NoCall
  BY CallsAssumption DEF IInv, TypeOK, Activate
<1>2. appr'[c] = IF c = asking THEN "pending" ELSE appr[c]
  BY DEF Activate, IInv, TypeOK
<1> QED  BY <1>1, <1>2 DEF Activate, tools, CallInv, Allowed

LEMMA ToolCall ==
  ASSUME IInv, NEW c \in Calls, NEW d \in Calls, Begin(d) \/ Act(d) \/ Finish(d)
  PROVE  CallInv(c)'
<1>1. /\ CallInv(c) /\ CallInv(d) /\ effects \in [Calls -> Nat] /\ row \in [Calls -> RowStatus]
      /\ c # NoCall /\ asking = NoCall /\ todo = {} /\ acted \subseteq working
  BY CallsAssumption DEF IInv, TypeOK, Places, Begin, Act, Finish, Executing
<1>2. CASE Begin(d)
  <2>1. row'[c] = IF c = d THEN "running" ELSE row[c]
    BY <1>1, <1>2 DEF Begin, Begun
  <2>2. d \in made /\ row[d] = "none" /\ Allowed(d) /\ effects[d] = 0 /\ d \notin acted
    BY <1>1, <1>2 DEF Begin, CallInv
  <2> QED  BY <1>1, <1>2, <2>1, <2>2 DEF Begin, message, CallInv, Allowed
<1>3. CASE Act(d)
  <2>1. effects'[c] = IF c = d THEN effects[c] + 1 ELSE effects[c]
    BY <1>1, <1>3 DEF Act
  <2>2. row[d] = "running" /\ Allowed(d) /\ effects[d] = 0
    BY <1>1, <1>3 DEF Act, CallInv
  <2> QED  BY <1>1, <1>3, <2>1, <2>2 DEF Act, db, message, CallInv, Allowed
<1>4. CASE Finish(d)
  <2>1. PICK s \in {"completed", "error", "interrupted"} :
          (s = "completed" => d \in acted) /\ row' = [row EXCEPT ![d] = s]
    BY <1>4 DEF Finish
  <2>2. row'[c] = IF c = d THEN s ELSE row[c]
    BY <1>1, <2>1
  <2>3. row[d] = "running" /\ Allowed(d) /\ (d \in acted => effects[d] = 1) /\ d \in made
        /\ d \notin ready
    BY <1>1, <1>4 DEF Finish, CallInv
  <2> QED  BY <1>1, <1>4, <2>1, <2>2, <2>3 DEF Finish, message, CallInv, Allowed
<1> QED  BY <1>2, <1>3, <1>4

\* An answer finds a call that has not started.
LEMMA AnswerCall ==
  ASSUME IInv, NEW c \in Calls, NEW d \in Calls, Answer(d)
  PROVE  CallInv(c)'
<1>1. CallInv(c) /\ CallInv(d) /\ ready = {} /\ working = {} /\ todo = {}
  BY DEF IInv, Places, Answer
<1>2. appr'[c] = IF c = d THEN "resolved" ELSE appr[c]
  BY DEF Answer, IInv, TypeOK
<1>3. c # d => reply'[c] = reply[c]
  BY DEF Answer, IInv, TypeOK
<1>4. row[d] = "none" /\ effects[d] = 0 /\ d \in made /\ d # asking
  BY <1>1 DEF Answer, CallInv
<1> QED  BY <1>1, <1>2, <1>3, <1>4 DEF Answer, message, tools, CallInv, Allowed

\* Recovery resumes a call whose row is missing or complete.
LEMMA CrashCall ==
  ASSUME IInv, NEW c \in Calls, Crash
  PROVE  CallInv(c)'
<1>1. CallInv(c) /\ c # NoCall
  BY CallsAssumption DEF IInv
<1>2. c \notin todo' /\ c \notin ready' /\ c \notin working' /\ c # asking'
  BY <1>1, RunGoneType DEF Crash
<1>3. row'[c] = row[c] \/ (row[c] = "running" /\ row'[c] = "interrupted")
  BY DEF Crash
<1>4. /\ appr'[c] \in {appr[c], "cancelled", "resolved"}
      /\ appr[c] = "none" => appr'[c] = "none"
      /\ appr'[c] = "resolved" /\ appr[c] # "resolved"
           => appr[c] = "claimed" /\ (reply[c] = "deny" \/ row[c] \in {"completed", "none"})
  BY DEF Crash, Safe, Ambiguous, Having
<1> QED  BY <1>1, <1>2, <1>3, <1>4 DEF Crash, CallInv

LEMMA CallStep == IInv /\ [Next]_vars => \A c \in Calls : CallInv(c)'
<1> SUFFICES ASSUME IInv, [Next]_vars, NEW c \in Calls PROVE CallInv(c)'
  OBVIOUS
<1>1. CASE ResumeLost \/ RunEnds \/ RunFails \/ RunAborts
  BY <1>1, CallAtRest DEF ResumeLost, RunEnds, RunFails, RunAborts
<1>2. CASE ResumeDone \/ Prepared \/ SavePoint
  BY <1>2, CallLeftAlone DEF ResumeDone, Prepared, SavePoint, db, tools
<1>3. ASSUME NEW d \in Calls, Refuse(d) PROVE CallInv(c)'
  BY <1>3, CallLeftAlone DEF Refuse, db, message
<1>4. CASE StopWaiting
  <2>1. ready = {} /\ working = {} /\ todo = {} /\ CallInv(c) /\ asking = NoCall /\ c # NoCall
    BY <1>4, CallsAssumption DEF StopWaiting, IInv, Places
  <2>2. appr'[c] \in {appr[c], "cancelled"} /\ (appr[c] = "none" => appr'[c] = "none")
    BY <1>4 DEF StopWaiting, Cancelled, SetAll, Having, IInv, TypeOK
  <2> QED  BY <1>4, <2>1, <2>2 DEF StopWaiting, message, tools, CallInv
<1>5. CASE Stop \/ UNCHANGED vars
  BY <1>5, CallLeftAlone DEF Stop, vars, db, message, tools
<1> QED  BY <1>1, <1>2, <1>3, <1>4, <1>5, StartRunCall, CallToolsCall, PrepareCall,
            ActivateCall, ToolCall, AnswerCall, CrashCall DEF Next, RunStep

LEMMA IInvStep == IInv /\ [Next]_vars => IInv'
BY TypeStep, PlacesStep, CallStep DEF IInv

-----------------------------------------------------------------------------
(* The theorems.                                                             *)

\* A tool call, its row, its approval and its place in the run always agree.
THEOREM Invariance == Spec => []IInv
<1>1. Init => IInv
  BY InitIInv
<1>2. IInv /\ [Next]_vars => IInv'
  BY IInvStep
<1> QED  BY <1>1, <1>2, PTL DEF Spec

\* Every reachable state is well typed.
THEOREM TypeCorrect == Spec => []TypeOK
<1>1. IInv => TypeOK
  BY DEF IInv
<1> QED  BY <1>1, Invariance, PTL

\* A tool call acts at most once, whatever is answered, stopped or recovered.
THEOREM ActsAtMostOnce == Spec => []AtMostOnce
<1>1. IInv => AtMostOnce
  BY DEF IInv, CallInv, AtMostOnce
<1> QED  BY <1>1, Invariance, PTL

\* A call for which the user was asked acts only when the answer was yes.
THEOREM ActsOnlyIfAllowed == Spec => []OnlyIfAllowed
<1>1. IInv => OnlyIfAllowed
  BY DEF IInv, CallInv, OnlyIfAllowed
<1> QED  BY <1>1, Invariance, PTL

\* The rows tell recovery what the calls have done.
THEOREM RowsAreTrue == Spec => []RowsTellTheTruth
<1>1. IInv => RowsTellTheTruth
  BY DEF IInv, CallInv, RowsTellTheTruth
<1> QED  BY <1>1, Invariance, PTL

\* A cancelled approval stops its call for good: a call inside its tool was
\* never asked about, or its approval is claimed.
THEOREM CancelledCallIsStill == Spec => CancelledIsStill
<1>1. IInv /\ [Next]_vars
        => [\A c \in Calls : appr[c] = "cancelled" => effects'[c] = effects[c]]_vars
  <2> SUFFICES ASSUME IInv, Next, NEW c \in Calls, appr[c] = "cancelled"
               PROVE  effects'[c] = effects[c]
    OBVIOUS
  <2>1. ASSUME NEW d \in Calls, Act(d) PROVE effects'[c] = effects[c]
    <3>1. CallInv(d) /\ d \in working /\ effects \in [Calls -> Nat]
      BY <2>1 DEF IInv, TypeOK, Act
    <3>2. c # d
      BY <3>1 DEF CallInv, Allowed
    <3> QED  BY <2>1, <3>1, <3>2 DEF Act
  <2>2. CASE \A d \in Calls : ~Act(d)
    BY <2>2 DEF Next, RunStep, StartRun, ResumeLost, ResumeDone, CallTools, Activate,
       Prepared, SavePoint, RunEnds, RunFails, RunAborts, Decide, Ask, Begin, Refuse,
       Finish, Answer, StopWaiting, Stop, Crash
  <2> QED  BY <2>1, <2>2
<1> QED  BY <1>1, Invariance, PTL DEF Spec, CancelledIsStill

\* A waiting turn has a pending approval: asking adds one, an answer, a stop and
\* recovery take the turn out of waiting with the last one.
THEOREM WaitingHasPending == Spec => []WaitsForAnAnswer
<1>1. Init => WaitsForAnAnswer
  BY DEF Init, WaitsForAnAnswer
<1>2. IInv /\ WaitsForAnAnswer /\ [Next]_vars => WaitsForAnAnswer'
  <2> SUFFICES ASSUME IInv, WaitsForAnAnswer, [Next]_vars, turn' = "waiting"
               PROVE  \E c \in Calls : appr'[c] = "pending"
    BY DEF WaitsForAnAnswer, Having
  <2>1. CASE Activate
    BY <2>1, CallsAssumption DEF Activate, IInv, TypeOK
  <2>2. ASSUME ~Activate PROVE turn = "waiting"
    BY <2>2 DEF Next, RunStep, StartRun, ResumeLost, ResumeDone, CallTools, Prepared,
       SavePoint, RunEnds, RunFails, RunAborts, Decide, Ask, Begin, Refuse, Act, Finish,
       Answer, AnsweredTurn, StopWaiting, Stop, Crash, vars, db
  <2>3. ASSUME ~Activate, turn = "waiting" PROVE \E c \in Calls : appr'[c] = "pending"
    <3>1. PICK c \in Calls : appr[c] = "pending"
      BY <2>3 DEF WaitsForAnAnswer, Having
    <3>2. CASE Crash
      BY <3>1, <3>2 DEF Crash, Safe, Ambiguous, Having
    <3>3. ASSUME NEW d \in Calls, Ask(d) PROVE \E e \in Calls : appr'[e] = "pending"
      <4>1. d # c
        BY <3>1, <3>3 DEF Ask, IInv, CallInv
      <4> QED  BY <3>1, <3>3, <4>1 DEF Ask, IInv, TypeOK
    <3>4. CASE UNCHANGED appr
      BY <3>1, <3>4
    <3> QED  BY <2>3, <3>2, <3>3, <3>4
             DEF Next, RunStep, StartRun, ResumeLost, ResumeDone, CallTools, Prepared,
                 SavePoint, RunEnds, RunFails, RunAborts, Decide, Begin, Refuse, Act,
                 Finish, Answer, AnsweredTurn, StopWaiting, Stop, vars, db
  <2> QED  BY <2>1, <2>2, <2>3
<1> QED  BY <1>1, <1>2, Invariance, PTL DEF Spec
=============================================================================
