------------------------- MODULE TurnLifecycleProofs -------------------------
EXTENDS TurnLifecycle, FiniteSetTheorems, TLAPS

-----------------------------------------------------------------------------
(* What the helpers return.                                                  *)

\* Positions counted over a set of inputs are numbers.
LEMMA CountIsNat == \A S \in SUBSET Inputs : Cardinality(S) \in Nat
<1>1. IsFiniteSet(Inputs)
  BY BoundsAssumption, FS_Interval DEF Inputs
<1>2. \A S \in SUBSET Inputs : IsFiniteSet(S)
  BY <1>1, FS_Subset
<1> QED  BY <1>2, FS_CardinalityType

LEMMA FreshRecords ==
  /\ NoHandle \in HandleType /\ IdleRun \in RunType /\ IdleStop \in StopType
  /\ \A t \in Inputs : NewHandle(t) \in HandleType /\ NewHandle(t).turn = t
  /\ \A t \in Inputs, a \in BOOLEAN : NewRun(t, a) \in RunType /\ NewRun(t, a).turn = t
<1>1. 0 \in 0..N /\ Inputs \subseteq 0..N
  BY BoundsAssumption DEF Inputs
<1>2. NoHandle \in HandleType /\ IdleRun \in RunType /\ IdleStop \in StopType
  BY <1>1 DEF NoHandle, IdleRun, IdleStop, HandleType, RunType, StopType, RunPC, StopPC,
     Promise
<1>3. \A t \in Inputs : NewHandle(t) \in HandleType /\ NewHandle(t).turn = t
  BY <1>1 DEF NewHandle, NoHandle, HandleType
<1>4. ASSUME NEW t \in Inputs, NEW a \in BOOLEAN
      PROVE  NewRun(t, a) \in RunType /\ NewRun(t, a).turn = t
  BY <1>1 DEF NewRun, IdleRun, RunType, RunPC
<1> QED  BY <1>2, <1>3, <1>4

\* Moving a run to another point of executeTurn keeps its type and its turn.
LEMMA MoveRun ==
  /\ \A x \in RunType, pc \in RunPC :
       [x EXCEPT !.pc = pc] \in RunType /\ [x EXCEPT !.pc = pc].turn = x.turn
  /\ \A x \in RunType, pc \in RunPC, out \in Terminal :
       /\ [x EXCEPT !.pc = pc, !.out = out] \in RunType
       /\ [x EXCEPT !.pc = pc, !.out = out].turn = x.turn
BY DEF RunType

LEMMA GotoType ==
  ASSUME TypeOK, NEW r \in Runs, NEW pc \in RunPC, ~At(r, "idle"), Goto(r, pc)
  PROVE  RunsOK(runs')
<1>1. runs[r] \in RunType /\ runs[r].turn \in Inputs
  BY DEF TypeOK, RunsOK, At
<1>2. /\ [runs[r] EXCEPT !.pc = pc] \in RunType
      /\ [runs[r] EXCEPT !.pc = pc].turn = runs[r].turn
  BY <1>1, MoveRun
<1>3. runs' = [runs EXCEPT ![r] = [runs[r] EXCEPT !.pc = pc]]
  BY DEF Goto
<1> QED  BY <1>1, <1>2, <1>3 DEF TypeOK, RunsOK

LEMMA DetachedType == \A E : RunsOK(E) => RunsOK(Detached(E))
BY DEF Detached, RunType, RunsOK

LEMMA SettleType == \A S : \A v \in Promise \ {"none"} : StopsOK(S) => StopsOK(Settle(S, v))
BY DEF Settle, StopType, StopsOK

\* executeTurn up to its first await keeps the types, whatever turns, runs,
\* entry and stop requests it starts from.
LEMMA ExecuteType ==
  ASSUME TypeOK, NEW t \in Inputs
  PROVE  \A T, E, H, S :
           /\ T \in [Inputs -> TurnStatus] /\ RunsOK(E) /\ H \in HandleType /\ StopsOK(S)
           /\ Execute(t, T, E, H, S)
           => /\ turn' \in [Inputs -> TurnStatus] /\ inp' \in [Inputs -> InputStatus]
              /\ begun' \subseteq Inputs /\ RunsOK(runs') /\ handle' \in HandleType
              /\ StopsOK(stop')
<1> SUFFICES ASSUME NEW T \in [Inputs -> TurnStatus], NEW E, RunsOK(E),
                    NEW H \in HandleType, NEW S, StopsOK(S), Execute(t, T, E, H, S)
             PROVE  /\ turn' \in [Inputs -> TurnStatus] /\ inp' \in [Inputs -> InputStatus]
                    /\ begun' \subseteq Inputs /\ RunsOK(runs') /\ handle' \in HandleType
                    /\ StopsOK(stop')
  OBVIOUS
<1>1. CASE /\ turn' = T /\ runs' = E /\ handle' = H /\ stop' = S
           /\ UNCHANGED <<inp, begun>>
  BY <1>1 DEF TypeOK
<1>2. CASE /\ turn' = T /\ runs' = Detached(E) /\ handle' = NoHandle
           /\ stop' = Settle(S, "lost") /\ UNCHANGED <<inp, begun>>
  BY <1>2, DetachedType, SettleType, FreshRecords DEF TypeOK, Promise, Terminal
<1>3. CASE /\ turn' = [T EXCEPT ![t] = "running"]
           /\ inp' = [inp EXCEPT ![t] = IF @ = "queued" THEN "active" ELSE @]
           /\ begun' = begun \cup {t}
           /\ handle' = IF H.turn = t THEN H ELSE NewHandle(t)
           /\ \E r \in Runs : runs' = [E EXCEPT ![r] = NewRun(t, H.turn = t /\ H.aborted)]
           /\ stop' = S
  <2>1. RunsOK(runs')
    BY <1>3, FreshRecords DEF RunsOK
  <2>2. handle' \in HandleType
    BY <1>3, FreshRecords
  <2> QED  BY <1>3, <2>1, <2>2 DEF TypeOK, TurnStatus, InputStatus, Started
<1> QED  BY <1>1, <1>2, <1>3 DEF Execute

\* So does the terminal transaction.
LEMMA FinalizeType ==
  ASSUME TypeOK, NEW t \in Inputs, NEW status \in Terminal, NEW reason \in PauseReason,
         FinalizeTurn(t, status, reason)
  PROVE  /\ turn' \in [Inputs -> TurnStatus] /\ inp' \in [Inputs -> InputStatus]
         /\ home' \in [Inputs -> Inputs] /\ pos' \in [Inputs -> Nat] /\ pause' \in PauseReason
         /\ pend' \in [Inputs -> Nat]
<1> DEFINE steers == IF status = "interrupted" THEN Mailbox(t) ELSE {}
<1>1. steers \subseteq Inputs
  BY DEF Mailbox
<1>2. /\ Cardinality(steers) \in Nat
      /\ \A u \in Inputs : Cardinality({i \in steers : i <= u}) \in Nat
  BY <1>1, CountIsNat
<1>3. pos' \in [Inputs -> Nat]
  BY <1>2 DEF FinalizeTurn, TypeOK
<1> QED  BY <1>1, <1>3 DEF FinalizeTurn, TypeOK, TurnStatus, InputStatus, Terminal

\* And TurnRunner.terminalize.
LEMMA TerminalizeType ==
  ASSUME TypeOK, NEW r \in Runs, ~At(r, "idle"), NEW status \in Terminal,
         NEW reason \in PauseReason, Terminalize(r, status, reason),
         UNCHANGED <<harness, asks, crashes>>
  PROVE  TypeOK'
<1> DEFINE t   == runs[r].turn
           out == IF turn[t] \in Terminal THEN turn[t] ELSE status
<1>1. t \in Inputs /\ out \in Terminal
  BY DEF TypeOK, RunsOK, At
<1>2. /\ turn' \in [Inputs -> TurnStatus] /\ inp' \in [Inputs -> InputStatus]
      /\ home' \in [Inputs -> Inputs] /\ pos' \in [Inputs -> Nat] /\ pause' \in PauseReason
      /\ pend' \in [Inputs -> Nat]
  BY <1>1, FinalizeType DEF Terminalize, TypeOK
<1>3. handle' \in HandleType
  BY FreshRecords DEF Terminalize, HandleWithout, TypeOK
<1>4. StopsOK(stop')
  BY <1>1, SettleType DEF Terminalize, StopsSettled, TypeOK, Promise, Terminal
<1>5. RunsOK(RunsWithout(t))
  BY DetachedType DEF RunsWithout, TypeOK
<1>6. RunsOK(runs')
  <2>1. runs' = [RunsWithout(t) EXCEPT ![r] = [@ EXCEPT !.pc = "ending", !.out = out]]
    BY DEF Terminalize
  <2>2. RunsWithout(t)[r].turn \in Inputs
    BY <1>1, <1>5 DEF RunsWithout, Detached, TypeOK, RunsOK, RunType
  <2>3. "ending" \in RunPC
    BY DEF RunPC
  <2> DEFINE R == RunsWithout(t)
             x == [R[r] EXCEPT !.pc = "ending", !.out = out]
  <2>4. R[r] \in RunType
    BY <1>5 DEF RunsOK
  <2> HIDE DEF t, out, R
  <2>5. x \in RunType /\ x.turn = R[r].turn
    BY <1>1, <2>3, <2>4, MoveRun
  <2>6. runs' = [R EXCEPT ![r] = x]
    BY <2>1 DEF R
  <2> HIDE DEF x
  <2> QED  BY <1>5, <2>2, <2>5, <2>6 DEF RunsOK, R
<1> QED  BY <1>2, <1>3, <1>4, <1>6 DEF TypeOK, Terminalize, FreeGate

\* A turn that waits for the decision on the hooks.
LEMMA WaitForTrustType ==
  ASSUME TypeOK, NEW t \in Inputs, WaitForTrust(t)
  PROVE  turn' \in [Inputs -> TurnStatus] /\ trust' \in TrustType
BY DEF WaitForTrust, TypeOK, TurnStatus, Started, TrustType

-----------------------------------------------------------------------------
(* Type correctness.                                                         *)

LEMMA InitType == Init => TypeOK
BY FreshRecords, BoundsAssumption DEF Init, TypeOK, RunsOK, StopsOK, IdleRun, IdleStop,
   TurnStatus, InputStatus, PauseReason, FreeGate, NoTrust, TrustType, Inputs

LEMMA NextType == TypeOK /\ [Next]_vars => TypeOK'
<1> SUFFICES ASSUME TypeOK, [Next]_vars PROVE TypeOK'
  OBVIOUS
<1> USE DEF durable, volatile
<1>1. ASSUME NEW i \in Inputs, LaunchNewTurn(i) PROVE TypeOK'
  <2>1. PICK r \in Runs : runs' = [runs EXCEPT ![r] = NewRun(i, FALSE)]
    BY <1>1 DEF LaunchNewTurn
  <2>2. NewRun(i, FALSE) \in RunType /\ NewRun(i, FALSE).turn \in Inputs
    BY FreshRecords
  <2>3. RunsOK(runs')
    BY <2>1, <2>2 DEF TypeOK, RunsOK
  <2> QED  BY <1>1, <2>3, FreshRecords DEF LaunchNewTurn, TypeOK, TurnStatus, InputStatus, Started,
           FreeGate
<1>2. ASSUME NEW i \in Inputs, EnqueueFollowUp(i) PROVE TypeOK'
  <2>1. TailPositions \subseteq Nat
    BY DEF TailPositions, TypeOK, Queued
  <2> QED  BY <1>2, <2>1 DEF EnqueueFollowUp, TypeOK, TurnStatus, InputStatus, FreeGate
<1>3. ASSUME NEW i \in Inputs, NEW t \in Inputs, SteerTurn(i, t) PROVE TypeOK'
  <2>1. [turn |-> t, input |-> i] \in [turn : 0..N, input : 0..N]
    BY BoundsAssumption DEF Inputs
  <2> QED  BY <1>3, <2>1 DEF SteerTurn, TypeOK
<1>4. ASSUME SteerAppended PROVE TypeOK'
  <2> DEFINE t == gate.turn
             i == gate.input
             open == {r \in harness : AtWork(r)}
             fresh == IF handle.turn = t /\ handle.ready /\ handle.accepting /\ open # {}
                      THEN (Mailbox(t) \cup {i}) \ handle.sent ELSE {}
  <2>1. t \in Inputs /\ i \in Inputs
    BY <1>4 DEF SteerAppended, GateFree, TypeOK
  <2>2. fresh \subseteq Inputs
    BY <2>1 DEF Mailbox
  <2>3. RunsOK(runs')
    <3>1. runs' = [r \in Runs |-> IF r \in open THEN [runs[r] EXCEPT !.got = @ \cup fresh]
                                 ELSE runs[r]]
      BY <1>4 DEF SteerAppended
    <3> HIDE DEF fresh, open
    <3> QED  BY <2>2, <3>1 DEF TypeOK, RunsOK, RunType
  <2>4. handle' \in HandleType
    <3>1. handle' = [handle EXCEPT !.sent = @ \cup fresh]
      BY <1>4 DEF SteerAppended
    <3> HIDE DEF fresh
    <3> QED  BY <2>2, <3>1 DEF TypeOK, HandleType
  <2>5. gate' = FreeGate /\ FreeGate \in [turn : 0..N, input : 0..N]
    BY <1>4, BoundsAssumption DEF SteerAppended, FreeGate
  <2> QED  BY <1>4, <2>1, <2>3, <2>4, <2>5 DEF SteerAppended, TypeOK, InputStatus
<1>5. ASSUME NEW i \in Inputs, RemoveQueue(i) PROVE TypeOK'
  BY <1>5 DEF RemoveQueue, TypeOK, TurnStatus, InputStatus, PauseReason, FreeGate
<1>6. ASSUME ResumeQueue PROVE TypeOK'
  <2>1. CASE \E t \in Inputs : Execute(t, turn, runs, handle, stop)
    BY <1>6, <2>1, ExecuteType DEF ResumeQueue, TypeOK, PauseReason, FreeGate
  <2>2. CASE UNCHANGED <<turn, inp, begun, handle, runs, stop>>
    BY <1>6, <2>2 DEF ResumeQueue, TypeOK, PauseReason, FreeGate
  <2> QED  BY <1>6, <2>1, <2>2 DEF ResumeQueue
<1>7. ASSUME NEW t \in Inputs, ResumeTurn(t) PROVE TypeOK'
  BY <1>7, ExecuteType DEF ResumeTurn, TypeOK, FreeGate
<1>8. ASSUME NEW r \in Runs, DisposePrevious(r) PROVE TypeOK'
  <2>1. "build" \in RunPC /\ "thrown" \in RunPC
    BY DEF RunPC
  <2>2. RunsOK(runs')
    <3>1. runs' \in [Runs -> RunType]
      BY <1>8, <2>1, MoveRun DEF DisposePrevious, AtWork, TypeOK, RunsOK
    <3>2. \A q \in Runs : runs'[q].turn = runs[q].turn
      BY <1>8, <2>1, MoveRun DEF DisposePrevious, AtWork, TypeOK, RunsOK
    <3>3. \A q \in Runs : runs[q].pc = "idle" => runs'[q].pc = "idle"
      BY <1>8 DEF DisposePrevious, AtWork, At, TypeOK, RunsOK
    <3> QED  BY <3>1, <3>2, <3>3 DEF TypeOK, RunsOK
  <2> QED  BY <1>8, <2>2 DEF DisposePrevious, AtWork, TypeOK, FreeGate
<1>9. ASSUME NEW r \in Runs, RuntimeReady(r) PROVE TypeOK'
  <2>1. RunsOK(runs')
    BY <1>9, GotoType DEF RuntimeReady, At, RunPC
  <2>2. handle' \in HandleType
    BY <1>9 DEF RuntimeReady, TypeOK, HandleType
  <2> QED  BY <1>9, <2>1, <2>2 DEF RuntimeReady, TypeOK, FreeGate
<1>10. ASSUME NEW r \in Runs, HarnessStart(r) PROVE TypeOK'
  <2>1. RunsOK(runs')
    BY <1>10, GotoType DEF HarnessStart, At, RunPC
  <2> QED  BY <1>10, <2>1 DEF HarnessStart, TypeOK, FreeGate
<1>11. ASSUME NEW r \in Runs, ConsumeSteer(r) PROVE TypeOK'
  BY <1>11 DEF ConsumeSteer, Mailbox, TypeOK, InputStatus, FreeGate
<1>12. ASSUME NEW r \in Runs, HarnessDone(r) PROVE TypeOK'
  <2>1. RunsOK(runs')
    BY <1>12, GotoType DEF HarnessDone, At, RunPC
  <2> QED  BY <1>12, <2>1 DEF HarnessDone, TypeOK, FreeGate
<1>13. ASSUME NEW r \in Runs, PausedReturn(r) PROVE TypeOK'
  <2>1. RunsOK(runs')
    BY <1>13, GotoType DEF PausedReturn, At, RunPC
  <2> QED  BY <1>13, <2>1 DEF PausedReturn, TypeOK, FreeGate
<1>14. ASSUME NEW r \in Runs, AskUser(r) PROVE TypeOK'
  <2>1. RunsOK(runs')
    BY <1>14, GotoType DEF AskUser, AtWork, At, RunPC
  <2>2. turn' \in [Inputs -> TurnStatus]
    BY <1>14 DEF AskUser, AtWork, TypeOK, TurnStatus, Started
  <2>3. asks' \in Nat /\ pend' \in [Inputs -> Nat]
    <3>1. runs[r].turn \in Inputs
      BY <1>14 DEF AskUser, AtWork, TypeOK, RunsOK
    <3> QED  BY <1>14, <3>1 DEF AskUser, AtWork, TypeOK
  <2> QED  BY <1>14, <2>1, <2>2, <2>3 DEF AskUser, AtWork, TypeOK, FreeGate
<1>15. ASSUME NEW r \in Runs, RunThrows(r) PROVE TypeOK'
  <2>1. RunsOK(runs')
    BY <1>15, GotoType DEF RunThrows, At, RunPC
  <2> QED  BY <1>15, <2>1 DEF RunThrows, TypeOK, FreeGate
<1>16. ASSUME NEW r \in Runs, CompleteTurn(r) PROVE TypeOK'
  <2>1. CASE Goto(r, "thrown") /\ UNCHANGED <<durable, handle, gate, stop>>
    <3>1. RunsOK(runs')
      BY <1>16, <2>1, GotoType DEF CompleteTurn, At, RunPC
    <3> QED  BY <1>16, <2>1, <3>1 DEF CompleteTurn, TypeOK, FreeGate
  <2>2. CASE Terminalize(r, "completed", "none")
    BY <1>16, <2>2, TerminalizeType DEF CompleteTurn, At, Terminal, PauseReason
  <2>3. CASE /\ handle' = [handle EXCEPT !.accepting = FALSE]
             /\ turn' = [turn EXCEPT ![runs[r].turn] = IF @ = "running" THEN "queued" ELSE @]
             /\ Goto(r, "ending")
             /\ UNCHANGED <<inp, home, pos, begun, claims, pend, trust, pause, gate, stop>>
    <3>1. RunsOK(runs')
      BY <1>16, <2>3, GotoType DEF CompleteTurn, At, RunPC
    <3>2. handle' \in HandleType
      BY <2>3 DEF TypeOK, HandleType
    <3> QED  BY <1>16, <2>3, <3>1, <3>2 DEF CompleteTurn, TypeOK, TurnStatus, FreeGate
  <2> QED  BY <1>16, <2>1, <2>2, <2>3 DEF CompleteTurn
<1>17. ASSUME NEW r \in Runs, InterruptTurn(r) PROVE TypeOK'
  <2>1. CASE Terminalize(r, "interrupted", "interrupted")
    BY <1>17, <2>1, TerminalizeType DEF InterruptTurn, At, Terminal, PauseReason
  <2>2. CASE Goto(r, "ending") /\ UNCHANGED <<durable, handle, gate, stop>>
    <3>1. RunsOK(runs')
      BY <1>17, <2>2, GotoType DEF InterruptTurn, At, RunPC
    <3> QED  BY <1>17, <2>2, <3>1 DEF InterruptTurn, TypeOK, FreeGate
  <2> QED  BY <1>17, <2>1, <2>2 DEF InterruptTurn
<1>18. ASSUME NEW r \in Runs, FailTurn(r) PROVE TypeOK'
  BY <1>18, TerminalizeType DEF FailTurn, At, Terminal, PauseReason
<1>19. ASSUME NEW r \in Runs, RunEnds(r) PROVE TypeOK'
  <2> DEFINE t == runs[r].turn
             status == IF runs[r].out = "none" THEN "lost" ELSE runs[r].out
             E == [q \in Runs |-> IF q = r THEN IdleRun ELSE RunsWithout(t)[q]]
             H == HandleWithout(t)
             S == StopsSettled(t, status)
  <2>1. RunsOK(E)
    <3>1. RunsOK(RunsWithout(t))
      BY DetachedType DEF RunsWithout, TypeOK
    <3>2. IdleRun.pc = "idle"
      BY DEF IdleRun
    <3> QED  BY <3>1, <3>2, FreshRecords DEF RunsOK
  <2>2. H \in HandleType
    BY FreshRecords DEF HandleWithout, TypeOK
  <2>3. StopsOK(S)
    <3>1. status \in Promise \ {"none"}
      BY DEF TypeOK, RunsOK, RunType, Promise, Terminal
    <3> QED  BY <3>1, SettleType DEF StopsSettled, TypeOK
  <2>4. CASE \E u \in Inputs : Execute(u, turn, E, H, S)
    <3> HIDE DEF E, H, S
    <3>1. /\ turn' \in [Inputs -> TurnStatus] /\ inp' \in [Inputs -> InputStatus]
          /\ begun' \subseteq Inputs /\ RunsOK(runs') /\ handle' \in HandleType
          /\ StopsOK(stop')
      BY <2>1, <2>2, <2>3, <2>4, ExecuteType DEF TypeOK
    <3> QED  BY <1>19, <3>1 DEF RunEnds, TypeOK, FreeGate
  <2>5. CASE handle' = H /\ runs' = E /\ stop' = S /\ UNCHANGED <<turn, inp, begun>>
    <3> HIDE DEF E, H, S
    <3> QED  BY <1>19, <2>1, <2>2, <2>3, <2>5 DEF RunEnds, TypeOK, FreeGate
  <2> QED  BY <1>19, <2>4, <2>5 DEF RunEnds
<1>20. ASSUME NEW t \in Inputs, AnswerInteraction(t) PROVE TypeOK'
  <2> DEFINE T == [turn EXCEPT ![t] = "queued"]
  <2>1. T \in [Inputs -> TurnStatus]
    BY DEF TypeOK, TurnStatus
  <2>4. pend' \in [Inputs -> Nat]
    BY <1>20 DEF AnswerInteraction, TypeOK
  <2>2. CASE Execute(t, T, runs, handle, stop)
    <3> HIDE DEF T
    <3> QED  BY <1>20, <2>1, <2>2, <2>4, ExecuteType DEF AnswerInteraction, TypeOK, FreeGate
  <2>3. CASE turn' = T /\ UNCHANGED <<inp, begun, handle, runs, stop>>
    BY <1>20, <2>1, <2>3, <2>4 DEF AnswerInteraction, TypeOK, FreeGate
  <2> QED  BY <1>20, <2>2, <2>3 DEF AnswerInteraction
<1>21. ASSUME NEW s \in Stops, NEW t \in Inputs, StopTurn(s, t) PROVE TypeOK'
  <2>1. PICK prom \in {"pending", "interrupted"} :
          stop' = [stop EXCEPT ![s] = [pc |-> "abort", turn |-> t, prom |-> prom]]
    BY <1>21 DEF StopTurn
  <2>2. [pc |-> "abort", turn |-> t, prom |-> prom] \in StopType
    BY BoundsAssumption DEF StopType, StopPC, Promise, Terminal, Inputs
  <2>3. StopsOK(stop')
    BY <2>1, <2>2 DEF TypeOK, StopsOK
  <2>4. RunsOK(runs') /\ handle' \in HandleType
    <3>1. CASE UNCHANGED <<handle, runs>>
      BY <3>1 DEF TypeOK, RunsOK
    <3>2. CASE /\ handle' = [handle EXCEPT !.accepting = FALSE, !.aborted = TRUE]
               /\ runs' = [r \in Runs |-> IF runs[r].held
                              THEN [runs[r] EXCEPT !.aborted = TRUE] ELSE runs[r]]
      BY <3>2 DEF TypeOK, RunsOK, RunType, HandleType
    <3> QED  BY <1>21, <3>1, <3>2 DEF StopTurn
  <2>5. CASE UNCHANGED durable
    BY <1>21, <2>3, <2>4, <2>5 DEF StopTurn, TypeOK, FreeGate
  <2>6. CASE FinalizeTurn(t, "interrupted", "interrupted") /\ UNCHANGED <<begun, claims, trust>>
    BY <1>21, <2>3, <2>4, <2>6, FinalizeType DEF StopTurn, TypeOK, Terminal, PauseReason, FreeGate
  <2> QED  BY <1>21, <2>5, <2>6 DEF StopTurn
<1>22. ASSUME NEW s \in Stops, StopAborts(s) PROVE TypeOK'
  <2>1. RunsOK(runs')
    <3>1. "thrown" \in RunPC
      BY DEF RunPC
    <3>2. runs' \in [Runs -> RunType] /\ \A q \in Runs : runs'[q].turn = runs[q].turn
      BY <1>22, <3>1, MoveRun DEF StopAborts, AtWork, TypeOK, RunsOK
    <3>3. \A q \in Runs : runs[q].pc = "idle" => runs'[q].pc = "idle"
      BY <1>22 DEF StopAborts, AtWork, At, TypeOK, RunsOK
    <3> QED  BY <3>2, <3>3 DEF TypeOK, RunsOK
  <2>2. StopsOK(stop')
    BY <1>22 DEF StopAborts, AtWork, TypeOK, StopsOK, StopType, StopPC
  <2> QED  BY <1>22, <2>1, <2>2 DEF StopAborts, AtWork, TypeOK, FreeGate
<1>23. ASSUME NEW s \in Stops, StopReturns(s) PROVE TypeOK'
  <2>1. stop[s].turn \in Inputs /\ StopsOK(stop')
    BY <1>23 DEF StopReturns, TypeOK, StopsOK, StopType, StopPC, Promise, Terminal
  <2>2. turn' \in [Inputs -> TurnStatus] /\ trust' \in TrustType
    BY <1>23, <2>1, WaitForTrustType DEF StopReturns, TypeOK
  <2> QED  BY <1>23, <2>1, <2>2 DEF StopReturns, TypeOK, FreeGate
<1>24. ASSUME NEW keep \in SUBSET Inputs, NEW P \in [Inputs -> 0..MaxAsks], Restart(keep, P)
       PROVE  TypeOK'
  <2> DEFINE running == {t \in Inputs : turn[t] = "running"}
             T == [t \in Inputs |-> IF t \in keep THEN "queued"
                             ELSE IF t \in running THEN "interrupted" ELSE turn[t]]
             E == [r \in Runs |-> IdleRun]
             S == [s \in Stops |-> IF stop[s].pc \in {"idle", "done"} THEN stop[s]
                            ELSE [stop[s] EXCEPT !.pc = "done", !.prom = "gone"]]
  <2>1. T \in [Inputs -> TurnStatus]
    BY DEF TypeOK, TurnStatus, Terminal
  <2>2. RunsOK(E)
    BY FreshRecords DEF RunsOK, IdleRun
  <2>3. StopsOK(S)
    BY DEF TypeOK, StopsOK, StopType, StopPC, Promise
  <2>4. FreeGate \in [turn : 0..N, input : 0..N]
    BY BoundsAssumption DEF FreeGate
  <2>5. pause' \in PauseReason /\ gate' = FreeGate /\ harness' = {} /\ crashes' \in Nat
        /\ pend' \in [Inputs -> Nat] /\ UNCHANGED <<home, pos, claims, trust, asks>>
    <3>1. pause' \in {"interrupted", pause}
      BY <1>24 DEF Restart
    <3>2. /\ gate' = FreeGate /\ harness' = {} /\ crashes' = crashes + 1
          /\ UNCHANGED <<home, pos, claims, trust, asks>>
      BY <1>24 DEF Restart
    <3>3. crashes' \in Nat
      BY <3>2 DEF TypeOK
    <3>4. pend' = P
      BY <1>24 DEF Restart
    <3>5. 0..MaxAsks \subseteq Nat
      BY BoundsAssumption
    <3> QED  BY <3>1, <3>2, <3>3, <3>4, <3>5 DEF TypeOK, PauseReason
  <2>6. CASE \E t \in Inputs : Execute(t, T, E, NoHandle, S)
    <3> HIDE DEF T, E, S
    <3> QED  BY <2>1, <2>2, <2>3, <2>4, <2>5, <2>6, ExecuteType, FreshRecords DEF TypeOK
  <2>7. CASE turn' = T /\ handle' = NoHandle /\ runs' = E /\ stop' = S /\ UNCHANGED <<inp, begun>>
    <3> HIDE DEF T, E, S
    <3> QED  BY <2>1, <2>2, <2>3, <2>4, <2>5, <2>7, FreshRecords DEF TypeOK
  <2> QED  BY <1>24, <2>6, <2>7 DEF Restart
<1>25. ASSUME NEW r \in Runs, AskTrust(r) PROVE TypeOK'
  <2>1. runs[r].turn \in Inputs /\ ~At(r, "idle") /\ runs[r].pc \in RunPC
    BY <1>25 DEF AskTrust, AtWork, TypeOK, RunsOK, RunType, At
  <2>2. RunsOK(runs')
    BY <1>25, <2>1, GotoType DEF AskTrust, AtWork, RunPC
  <2>3. turn' \in [Inputs -> TurnStatus] /\ trust' \in TrustType
    BY <1>25, <2>1, WaitForTrustType DEF AskTrust
  <2> QED  BY <1>25, <2>2, <2>3 DEF AskTrust, AtWork, TypeOK, FreeGate
<1>26. ASSUME AnswerTrust PROVE TypeOK'
  <2> DEFINE T == [u \in Inputs |-> IF u \in trust.waiters THEN "queued" ELSE turn[u]]
  <2>1. T \in [Inputs -> TurnStatus] /\ trust.waiters \subseteq Inputs
    BY DEF TypeOK, TurnStatus, TrustType
  <2>2. trust' \in TrustType
    BY <1>26 DEF AnswerTrust, TrustType
  <2>3. CASE \E t \in trust.waiters : Execute(t, T, runs, handle, stop)
    <3> HIDE DEF T
    <3>1. /\ turn' \in [Inputs -> TurnStatus] /\ inp' \in [Inputs -> InputStatus]
          /\ begun' \subseteq Inputs /\ RunsOK(runs') /\ handle' \in HandleType
          /\ StopsOK(stop')
      BY <2>1, <2>3, ExecuteType DEF TypeOK
    <3> QED  BY <1>26, <2>2, <3>1 DEF AnswerTrust, TypeOK, FreeGate
  <2>4. CASE turn' = T /\ UNCHANGED <<inp, begun, handle, runs, stop>>
    <3> HIDE DEF T
    <3> QED  BY <1>26, <2>1, <2>2, <2>4 DEF AnswerTrust, TypeOK, FreeGate
  <2> QED  BY <1>26, <2>3, <2>4 DEF AnswerTrust
<1>27. CASE UNCHANGED vars
  BY <1>27 DEF vars, TypeOK, FreeGate
<1> QED
  BY <1>1, <1>2, <1>3, <1>4, <1>5, <1>6, <1>7, <1>8, <1>9, <1>10, <1>11, <1>12, <1>13, <1>14,
     <1>15, <1>16, <1>17, <1>18, <1>19, <1>20, <1>21, <1>22, <1>23, <1>24, <1>25, <1>26,
     <1>27
  DEF Next, Step, Admission, QueueRPC, RunStep

\* Type correctness of every behaviour, for any number of inputs, runs and stop
\* requests, with eager clients and slow releases too.
THEOREM TypeCorrect == Spec => []TypeOK
<1> QED  BY InitType, NextType, PTL DEF Spec
=============================================================================
