--------------------------- MODULE TurnSafetyProofs ---------------------------
(*****************************************************************************)
(* The safety of the turns of a thread, for any number of inputs, runs and   *)
(* stop requests, when clients are not eager and releases are not slow: the  *)
(* invariant ThreadInv is inductive, and the safety properties follow.       *)
(*****************************************************************************)
EXTENDS TurnLifecycleProofs

-----------------------------------------------------------------------------
(* The three parts of ThreadInv.                                             *)
RunsInv   == /\ OneActive /\ OneRun /\ WorkingOwnsTurn /\ EndingLetsGo
             /\ EntryHasRun /\ RunningHasRun
InputsInv == SteersAreNoTurns /\ GateHoldsInput
StopsInv  == PromiseKept /\ StopTellsTheTruth

LEMMA Parts == ThreadInv <=> RunsInv /\ InputsInv /\ StopsInv /\ NoStrandedQueue
BY DEF ThreadInv, RunsInv, InputsInv, StopsInv

\* No turn is called 0, so an entry for turn 0 is no entry.
LEMMA ZeroIsNoTurn == 0 \notin Inputs
BY DEF Inputs

LEMMA StatusesDiffer == /\ Terminal \cap Started = {}
                        /\ \A x \in Terminal \cup Started : x \notin {"none", "queued", "cancelled"}
BY DEF Terminal, Started

\* With no untrusted hooks no turn waits for a decision on them.
LEMMA TrustedHooks ==
  ASSUME ~UntrustedHooks
  PROVE  /\ \A r \in Runs : ~AskTrust(r)
         /\ ~AnswerTrust
         /\ \A s \in Stops : StopReturns(s) => UNCHANGED <<turn, trust>>
BY DEF AskTrust, AtWork, WaitForTrust, AnswerTrust, StopReturns, Untrusted

\* Hooks are met by a run at work on its turn, or by a stop that was made.
LEMMA TrustAskers ==
  ASSUME TypeOK
  PROVE  /\ \A r \in Runs : AskTrust(r) => WaitForTrust(runs[r].turn) /\ runs[r].turn \in Inputs
         /\ \A s \in Stops : StopReturns(s) => /\ stop[s].turn \in Inputs
                                              /\ \/ UNCHANGED <<turn, trust>>
                                                 \/ WaitForTrust(stop[s].turn)
<1>1. ASSUME NEW r \in Runs, AskTrust(r)
      PROVE  WaitForTrust(runs[r].turn) /\ runs[r].turn \in Inputs
  BY <1>1 DEF AskTrust, AtWork, At, TypeOK, RunsOK
<1>2. ASSUME NEW s \in Stops, StopReturns(s)
      PROVE  stop[s].turn \in Inputs /\ (UNCHANGED <<turn, trust>> \/ WaitForTrust(stop[s].turn))
  BY <1>2 DEF StopReturns, TypeOK, StopsOK
<1> QED  BY <1>1, <1>2

\* A turn that begins to wait for the decision is the only one that changes.
LEMMA TrustWaiter ==
  ASSUME TypeOK, NEW t \in Inputs, WaitForTrust(t), NEW u \in Inputs
  PROVE  /\ turn'[u] = IF u = t THEN "waiting" ELSE turn[u]
         /\ trust.waiters \subseteq trust'.waiters /\ t \in trust'.waiters
         /\ Untrusted' = Untrusted /\ Untrusted
BY DEF WaitForTrust, TypeOK, TrustType, Untrusted

-----------------------------------------------------------------------------
(* When the thread is at rest.                                               *)

\* Without an entry, and with no run on its way out, nothing runs.
LEMMA NoEntryNoRun ==
  ASSUME TypeOK, RunsInv, ~SlowRelease, ~Releasing, handle.turn = 0
  PROVE  \A r \in Runs : At(r, "idle")
<1> SUFFICES ASSUME NEW r \in Runs, ~At(r, "idle") PROVE FALSE
  OBVIOUS
<1>1. Working(r)
  BY DEF Releasing, Working, At
<1>2. handle.turn = runs[r].turn /\ runs[r].turn \in Inputs
  BY <1>1 DEF RunsInv, WorkingOwnsTurn, TypeOK, RunsOK, At
<1> QED  BY <1>2, ZeroIsNoTurn

\* With no started turn either, the same holds and there is no entry.
LEMMA NoActiveNoRun ==
  ASSUME TypeOK, RunsInv, ~SlowRelease, ~Releasing, ActiveTurns = {}
  PROVE  handle.turn = 0 /\ \A r \in Runs : At(r, "idle")
<1>1. ASSUME NEW r \in Runs, ~At(r, "idle") PROVE FALSE
  <2>1. Working(r) /\ runs[r].turn \in Inputs
    BY <1>1 DEF Releasing, Working, At, TypeOK, RunsOK
  <2>2. turn[runs[r].turn] \in Started
    BY <2>1 DEF RunsInv, WorkingOwnsTurn
  <2> QED  BY <2>1, <2>2 DEF ActiveTurns
<1> QED  BY <1>1 DEF RunsInv, EntryHasRun

\* No caller of stop() waits when there is no entry.
LEMMA NoEntryNoWait ==
  ASSUME TypeOK, StopsInv, handle.turn = 0
  PROVE  \A s \in Stops : stop[s].prom # "pending"
<1> SUFFICES ASSUME NEW s \in Stops, stop[s].prom = "pending" PROVE FALSE
  OBVIOUS
<1>1. stop[s].pc # "idle" /\ stop[s].turn = 0
  BY DEF StopsInv, PromiseKept
<1>2. stop[s].turn \in Inputs
  BY <1>1 DEF TypeOK, StopsOK
<1> QED  BY <1>1, <1>2, ZeroIsNoTurn

-----------------------------------------------------------------------------
(* What the shared pieces of the actions do to the invariant.                *)

\* executeTurn from a thread at rest: one run, one entry, one started turn.
LEMMA ExecuteInv ==
  ASSUME TypeOK, TypeOK', NEW t \in Inputs,
         gate' = FreeGate \/ (gate' = gate /\ GateHoldsInput)
  PROVE  \A T, E, H, S :
           /\ T \in [Inputs -> TurnStatus] /\ T[t] = "queued"
           /\ \A u \in Inputs : T[u] \notin Started
           /\ \A i \in Inputs : inp[i] \in {"none", "mailbox"} => T[i] = "none"
           /\ RunsOK(E) /\ \A r \in Runs : E[r].pc = "idle"
           /\ H.turn = 0
           /\ StopsOK(S)
           /\ \A s \in Stops :
                /\ S[s].prom # "pending"
                /\ S[s].pc = "idle" => S[s].prom = "none"
                /\ S[s].pc = "done" => S[s].prom \in Terminal \cup {"gone"}
                /\ S[s].prom \in Terminal => T[S[s].turn] = S[s].prom
           /\ Execute(t, T, E, H, S)
           => ThreadInv'
<1> SUFFICES ASSUME NEW T, NEW E, NEW H, NEW S,
                    T \in [Inputs -> TurnStatus], T[t] = "queued",
                    \A u \in Inputs : T[u] \notin Started,
                    \A i \in Inputs : inp[i] \in {"none", "mailbox"} => T[i] = "none",
                    RunsOK(E), \A r \in Runs : E[r].pc = "idle",
                    H.turn = 0, StopsOK(S),
                    \A s \in Stops :
                      /\ S[s].prom # "pending"
                      /\ S[s].pc = "idle" => S[s].prom = "none"
                      /\ S[s].pc = "done" => S[s].prom \in Terminal \cup {"gone"}
                      /\ S[s].prom \in Terminal => T[S[s].turn] = S[s].prom,
                    Execute(t, T, E, H, S)
             PROVE  ThreadInv'
  OBVIOUS
<1>1. /\ turn' = [T EXCEPT ![t] = "running"]
      /\ inp' = [inp EXCEPT ![t] = IF @ = "queued" THEN "active" ELSE @]
      /\ handle' = NewHandle(t) /\ stop' = S
      /\ \E r \in Runs, a \in {FALSE, TRUE} : runs' = [E EXCEPT ![r] = NewRun(t, a)]
  BY ZeroIsNoTurn DEF Execute
<1>2. PICK r \in Runs, a \in {FALSE, TRUE} : runs' = [E EXCEPT ![r] = NewRun(t, a)]
  BY <1>1
<1>3. /\ runs'[r].pc = "prep" /\ runs'[r].turn = t /\ runs'[r].out = "none"
      /\ \A q \in Runs \ {r} : runs'[q].pc = "idle"
  BY <1>2 DEF NewRun, IdleRun, RunsOK
<1>4. handle'.turn = t
  BY <1>1, FreshRecords
<1>5. /\ turn'[t] = "running"
      /\ \A u \in Inputs \ {t} : turn'[u] = T[u] /\ turn'[u] \notin Started
  BY <1>1
<1>6. RunsInv'
  <2>1. OneActive'
    BY <1>5 DEF OneActive
  <2>2. OneRun'
    BY <1>3 DEF OneRun, At
  <2>3. WorkingOwnsTurn' /\ EndingLetsGo'
    BY <1>3, <1>4, <1>5 DEF WorkingOwnsTurn, EndingLetsGo, Working, At, Started
  <2>4. EntryHasRun' /\ RunningHasRun'
    BY <1>3, <1>5 DEF EntryHasRun, RunningHasRun, Working, At, Started
  <2> QED  BY <2>1, <2>2, <2>3, <2>4 DEF RunsInv
<1>7. InputsInv'
  <2>1. \A i \in Inputs \ {t} : inp'[i] = inp[i]
    BY <1>1
  <2>2. inp'[t] \notin {"none", "mailbox"} /\ inp[t] # "none"
    BY <1>1 DEF TypeOK, InputStatus
  <2>3. GateHoldsInput'
    BY <2>1, <2>2 DEF GateHoldsInput, GateFree, TypeOK
  <2> QED  BY <1>1, <2>1, <2>2, <2>3 DEF InputsInv, SteersAreNoTurns
<1>8. StopsInv'
  <2>1. ASSUME NEW s \in Stops, S[s].prom \in Terminal PROVE turn'[S[s].turn] = S[s].prom
    <3>1. S[s].turn \in Inputs /\ S[s].turn # t
      BY <2>1, StatusesDiffer DEF StopsOK, Terminal
    <3> QED  BY <1>5, <2>1, <3>1
  <2> QED  BY <1>1, <2>1 DEF StopsInv, PromiseKept, StopTellsTheTruth, Terminal
<1>9. NoStrandedQueue'
  BY <1>5 DEF NoStrandedQueue, Started
<1> QED  BY <1>6, <1>7, <1>8, <1>9 DEF ThreadInv, RunsInv, InputsInv, StopsInv

\* A step that leaves the statuses and the pause alone and only moves the run
\* along executeTurn, or ends a pause.
RunMoves(q) ==
  /\ runs'[q].turn = runs[q].turn /\ runs'[q].out = runs[q].out
  /\ \/ runs'[q].pc = runs[q].pc
     \/ /\ runs[q].pc \notin {"idle", "ending"}
        /\ \/ runs'[q].pc = "thrown"
           \/ /\ runs[q].pc \notin {"pausing", "thrown"}
              /\ runs'[q].pc \in {"build", "ready", "live", "after"}
           \/ runs[q].pc = "pausing" /\ runs'[q].pc = "ending"

LEMMA MovesInv ==
  ASSUME TypeOK, TypeOK', RunsInv, NoStrandedQueue, UNCHANGED <<turn, pause>>,
         handle'.turn = handle.turn, \A q \in Runs : RunMoves(q)
  PROVE  RunsInv' /\ NoStrandedQueue'
<1>1. \A q \in Runs : At(q, "idle")' <=> At(q, "idle")
  BY DEF RunMoves, At
<1>2. OneActive' /\ OneRun' /\ EntryHasRun'
  BY <1>1 DEF RunsInv, OneActive, OneRun, EntryHasRun
<1>3. ASSUME NEW q \in Runs, Working(q)' PROVE Working(q)
  BY <1>3 DEF Working, RunMoves
<1>4. WorkingOwnsTurn'
  BY <1>3 DEF RunsInv, WorkingOwnsTurn, Working, RunMoves
<1>5. EndingLetsGo'
  BY DEF RunsInv, EndingLetsGo, WorkingOwnsTurn, Working, RunMoves, At
<1>6. RunningHasRun'
  <2> SUFFICES ASSUME NEW t \in Inputs, turn[t] = "running"
               PROVE  \E r \in Runs : Working(r)' /\ runs'[r].turn = t
    BY DEF RunningHasRun
  <2>1. PICK r \in Runs : Working(r) /\ runs[r].turn = t
    BY DEF RunsInv, RunningHasRun
  <2>2. runs[r].pc # "pausing"
    BY <2>1 DEF RunsInv, WorkingOwnsTurn
  <2> QED  BY <2>1, <2>2 DEF Working, RunMoves
<1>7. NoStrandedQueue'
  BY <1>1 DEF NoStrandedQueue, Queued
<1> QED  BY <1>2, <1>4, <1>5, <1>6, <1>7 DEF RunsInv

\* The terminal transaction touches the turn, its root input and, on an
\* interruption, its unconsumed steers, which had no turn.
LEMMA FinalizeTouches ==
  ASSUME TypeOK, InputsInv, NEW t \in Inputs, turn[t] \in Started, NEW status \in Terminal,
         NEW reason, FinalizeTurn(t, status, reason)
  PROVE  /\ turn'[t] = status
         /\ \A u \in Inputs \ {t} : turn'[u] = turn[u] \/ (turn[u] = "none" /\ turn'[u] = "queued")
         /\ \A i \in Inputs : \/ inp'[i] = inp[i] /\ turn'[i] = turn[i]
                              \/ inp[i] = "mailbox" /\ inp'[i] = "queued"
                              \/ i = t /\ inp[i] # "none" /\ inp'[i] \notin {"none", "mailbox"}
         /\ reason # "none" /\ (\E u \in Inputs : turn'[u] = "queued") => pause' = reason
<1> DEFINE steers == IF status = "interrupted" THEN Mailbox(t) ELSE {}
<1>1. \A u \in steers : u \in Inputs /\ inp[u] = "mailbox" /\ turn[u] = "none"
  BY DEF Mailbox, InputsInv, SteersAreNoTurns
<1>2. t \notin steers /\ inp[t] \notin {"none", "mailbox"}
  BY <1>1, StatusesDiffer DEF InputsInv, SteersAreNoTurns
<1>3. /\ turn' = [u \in Inputs |-> IF u \in steers THEN "queued"
                                   ELSE IF u = t THEN status ELSE turn[u]]
      /\ inp' = [i \in Inputs |-> IF i \in steers THEN "queued"
                                  ELSE IF i = t /\ inp[i] = "active" THEN "completed"
                                  ELSE inp[i]]
  BY DEF FinalizeTurn
<1>4. reason # "none" /\ (\E u \in Inputs : turn'[u] = "queued") => pause' = reason
  BY DEF FinalizeTurn
<1> HIDE DEF steers
<1> QED  BY <1>1, <1>2, <1>3, <1>4

\* So a finished turn stays, steers still have no turns, and what a stop request
\* was told stays true.
LEMMA FinalizeInv ==
  ASSUME TypeOK, TypeOK', InputsInv, OneActive, NEW t \in Inputs, turn[t] \in Started,
         NEW status \in Terminal, NEW reason, FinalizeTurn(t, status, reason), UNCHANGED gate
  PROVE  /\ InputsInv'
         /\ \A u \in Inputs : turn'[u] \notin Started
         /\ turn'[t] = status
         /\ \A u \in Inputs : turn[u] \in Terminal => turn'[u] = turn[u]
<1>1. /\ turn'[t] = status
      /\ \A u \in Inputs \ {t} : turn'[u] = turn[u] \/ (turn[u] = "none" /\ turn'[u] = "queued")
      /\ \A i \in Inputs : \/ inp'[i] = inp[i] /\ turn'[i] = turn[i]
                           \/ inp[i] = "mailbox" /\ inp'[i] = "queued"
                           \/ i = t /\ inp[i] # "none" /\ inp'[i] \notin {"none", "mailbox"}
  BY FinalizeTouches
<1>2. InputsInv'
  <2>1. SteersAreNoTurns'
    BY <1>1 DEF InputsInv, SteersAreNoTurns
  <2>2. GateHoldsInput'
    BY <1>1 DEF InputsInv, GateHoldsInput, GateFree, TypeOK
  <2> QED  BY <2>1, <2>2 DEF InputsInv
<1>3. \A u \in Inputs : turn'[u] \notin Started
  BY <1>1, StatusesDiffer DEF OneActive, Started
<1>4. \A u \in Inputs : turn[u] \in Terminal => turn'[u] = turn[u]
  BY <1>1, StatusesDiffer DEF Terminal
<1> QED  BY <1>1, <1>2, <1>3, <1>4

\* terminalize by the run that owns the turn.
LEMMA TerminalizeInv ==
  ASSUME TypeOK, TypeOK', ThreadInv, NEW r \in Runs, Working(r), NEW status \in Terminal,
         NEW reason, Terminalize(r, status, reason)
  PROVE  ThreadInv'
<1> DEFINE t == runs[r].turn
<1>1. t \in Inputs /\ turn[t] \in Started /\ handle.turn = t /\ runs[r].out = "none"
  BY DEF ThreadInv, WorkingOwnsTurn, Working, TypeOK, RunsOK
<1>2. turn[t] \notin Terminal
  BY <1>1, StatusesDiffer
<1>3. /\ FinalizeTurn(t, status, reason) /\ UNCHANGED gate
      /\ handle' = NoHandle /\ stop' = Settle(stop, status)
      /\ runs' = [Detached(runs) EXCEPT ![r] = [@ EXCEPT !.pc = "ending", !.out = status]]
  BY <1>1, <1>2 DEF Terminalize, HandleWithout, StopsSettled, RunsWithout
<1>4. /\ InputsInv' /\ turn'[t] = status
      /\ \A u \in Inputs : turn'[u] \notin Started
      /\ \A u \in Inputs : turn[u] \in Terminal => turn'[u] = turn[u]
  BY <1>1, <1>3, FinalizeInv DEF ThreadInv, InputsInv
<1>5. /\ runs'[r].pc = "ending" /\ runs'[r].out = status
      /\ \A q \in Runs \ {r} : runs'[q].pc = "idle"
  <2>1. \A q \in Runs \ {r} : runs[q].pc = "idle"
    BY DEF ThreadInv, OneRun, Working, At
  <2> QED  BY <1>3, <2>1 DEF Detached, TypeOK, RunsOK, RunType
<1>6. handle'.turn = 0
  BY <1>3 DEF NoHandle
<1>7. RunsInv' /\ NoStrandedQueue'
  BY <1>4, <1>5, <1>6 DEF RunsInv, OneActive, OneRun, WorkingOwnsTurn, EndingLetsGo, EntryHasRun,
     RunningHasRun, NoStrandedQueue, Working, At, Started, Terminal
<1>8. StopsInv'
  <2>1. ASSUME NEW s \in Stops
        PROVE  /\ stop'[s].pc = stop[s].pc /\ stop'[s].turn = stop[s].turn
               /\ stop'[s].prom = IF stop[s].prom = "pending" THEN status ELSE stop[s].prom
    BY <1>3 DEF Settle, TypeOK, StopsOK, StopType
  <2>2. \A s \in Stops : stop[s].prom = "pending" => stop[s].turn = t
    BY <1>1 DEF ThreadInv, PromiseKept
  <2>3. \A s \in Stops : stop[s].prom \in Terminal => stop[s].turn \in Inputs
    BY DEF ThreadInv, PromiseKept, TypeOK, StopsOK, Terminal
  <2>4. PromiseKept'
    BY <2>1 DEF ThreadInv, PromiseKept, Terminal
  <2>5. StopTellsTheTruth'
    BY <1>4, <2>1, <2>2, <2>3 DEF ThreadInv, StopTellsTheTruth, Terminal
  <2> QED  BY <2>4, <2>5 DEF StopsInv
<1> QED  BY <1>4, <1>7, <1>8 DEF ThreadInv, RunsInv, InputsInv, StopsInv

-----------------------------------------------------------------------------
(* The invariant is inductive.                                               *)

LEMMA InitInv == Init => ThreadInv
<1> SUFFICES ASSUME Init PROVE ThreadInv
  OBVIOUS
<1>1. /\ \A t \in Inputs : turn[t] = "none"
      /\ \A r \in Runs : runs[r].pc = "idle"
      /\ handle.turn = 0 /\ GateFree
      /\ \A s \in Stops : stop[s].pc = "idle" /\ stop[s].prom = "none"
  BY DEF Init, IdleRun, IdleStop, NoHandle, GateFree
<1>2. OneActive /\ OneRun /\ WorkingOwnsTurn /\ EndingLetsGo /\ EntryHasRun /\ RunningHasRun
  BY <1>1 DEF OneActive, OneRun, WorkingOwnsTurn, EndingLetsGo, EntryHasRun, RunningHasRun,
     Working, At, Started
<1>3. SteersAreNoTurns /\ GateHoldsInput /\ NoStrandedQueue
  BY <1>1 DEF SteersAreNoTurns, GateHoldsInput, NoStrandedQueue, Queued
<1>4. PromiseKept /\ StopTellsTheTruth
  BY <1>1 DEF PromiseKept, StopTellsTheTruth, Terminal
<1> QED  BY <1>2, <1>3, <1>4 DEF ThreadInv

\* The steps that leave every turn's status alone and move the run.
LEMMA MovingSteps ==
  ASSUME ~UntrustedHooks, TypeOK, TypeOK', ThreadInv,
         \/ \E r \in Runs : \/ DisposePrevious(r) \/ RuntimeReady(r) \/ HarnessStart(r)
                            \/ HarnessDone(r) \/ PausedReturn(r) \/ RunThrows(r)
         \/ \E s \in Stops : StopAborts(s) \/ StopReturns(s)
  PROVE  ThreadInv'
<1> USE DEF durable
<1>1. ASSUME NEW r \in Runs, NEW pc \in RunPC, Goto(r, pc), ~At(r, "idle")
      PROVE  /\ runs'[r].pc = pc /\ runs'[r].turn = runs[r].turn /\ runs'[r].out = runs[r].out
             /\ \A q \in Runs \ {r} : runs'[q] = runs[q]
  BY <1>1 DEF Goto, TypeOK, RunsOK, RunType
<1>2. \A q \in Runs : RunMoves(q)
  <2>1. ASSUME NEW r \in Runs, DisposePrevious(r) PROVE \A q \in Runs : RunMoves(q)
    <3>1. runs' = [q \in Runs |-> IF q = r THEN [runs[q] EXCEPT !.pc = "build"]
                                 ELSE IF q \in harness /\ AtWork(q)
                                 THEN [runs[q] EXCEPT !.pc = "thrown"] ELSE runs[q]]
      BY <2>1 DEF DisposePrevious, AtWork
    <3>2. \A q \in Runs : runs'[q].turn = runs[q].turn /\ runs'[q].out = runs[q].out
      BY <3>1 DEF TypeOK, RunsOK, RunType
    <3>3. runs[r].pc = "prep" /\ runs'[r].pc = "build"
      BY <2>1, <3>1 DEF DisposePrevious, AtWork, At, TypeOK, RunsOK, RunType
    <3>4. \A q \in Runs \ {r} : \/ runs'[q].pc = runs[q].pc
                                \/ AtWork(q) /\ runs'[q].pc = "thrown"
      BY <3>1 DEF AtWork, TypeOK, RunsOK, RunType
    <3> QED  BY <3>2, <3>3, <3>4 DEF RunMoves, AtWork
  <2>2. ASSUME NEW r \in Runs, RuntimeReady(r) PROVE \A q \in Runs : RunMoves(q)
    <3>1. (Goto(r, "ready") \/ Goto(r, "thrown")) /\ At(r, "build")
      BY <2>2 DEF RuntimeReady
    <3> QED  BY <3>1, <1>1 DEF RunMoves, At, RunPC
  <2>3. ASSUME NEW r \in Runs, HarnessStart(r) PROVE \A q \in Runs : RunMoves(q)
    <3>1. (Goto(r, "live") \/ Goto(r, "thrown")) /\ At(r, "ready")
      BY <2>3 DEF HarnessStart
    <3> QED  BY <3>1, <1>1 DEF RunMoves, At, RunPC
  <2>4. ASSUME NEW r \in Runs, HarnessDone(r) PROVE \A q \in Runs : RunMoves(q)
    <3>1. (Goto(r, "after") \/ Goto(r, "thrown")) /\ At(r, "live")
      BY <2>4 DEF HarnessDone
    <3> QED  BY <3>1, <1>1 DEF RunMoves, At, RunPC
  <2>5. ASSUME NEW r \in Runs, PausedReturn(r) PROVE \A q \in Runs : RunMoves(q)
    <3>1. (Goto(r, "ending") \/ Goto(r, "thrown")) /\ At(r, "pausing")
      BY <2>5 DEF PausedReturn
    <3> QED  BY <3>1, <1>1 DEF RunMoves, At, RunPC
  <2>6. ASSUME NEW r \in Runs, RunThrows(r) PROVE \A q \in Runs : RunMoves(q)
    <3>1. Goto(r, "thrown") /\ runs[r].pc \in {"prep", "build", "ready", "live", "pausing", "after"}
      BY <2>6 DEF RunThrows
    <3> QED  BY <3>1, <1>1 DEF RunMoves, At, RunPC
  <2>7. ASSUME NEW s \in Stops, StopAborts(s) PROVE \A q \in Runs : RunMoves(q)
    BY <2>7 DEF StopAborts, AtWork, RunMoves, At, TypeOK, RunsOK, RunType
  <2>8. ASSUME NEW s \in Stops, StopReturns(s) PROVE \A q \in Runs : RunMoves(q)
    BY <2>8 DEF StopReturns, RunMoves
  <2> QED  BY <2>1, <2>2, <2>3, <2>4, <2>5, <2>6, <2>7, <2>8
<1>3. UNCHANGED <<turn, inp, pause, gate>> /\ handle'.turn = handle.turn
  BY TrustedHooks DEF DisposePrevious, AtWork, RuntimeReady, HarnessStart, HarnessDone, PausedReturn, RunThrows,
     StopAborts, StopReturns, TypeOK, HandleType
<1>4. RunsInv' /\ NoStrandedQueue'
  BY <1>2, <1>3, MovesInv DEF ThreadInv, RunsInv
<1>5. InputsInv'
  BY <1>3 DEF InputsInv, ThreadInv, SteersAreNoTurns, GateHoldsInput, GateFree
<1>6. StopsInv'
  <2>1. \A s \in Stops :
          /\ stop'[s].prom = stop[s].prom /\ stop'[s].turn = stop[s].turn
          /\ stop'[s].pc = "idle" => stop[s].pc = "idle"
          /\ stop'[s].pc = "done" => stop[s].pc = "done" \/ stop[s].prom \in Terminal
    BY DEF DisposePrevious, AtWork, RuntimeReady, HarnessStart, HarnessDone, PausedReturn, RunThrows,
       StopAborts, StopReturns, TypeOK, StopsOK, StopType
  <2> QED  BY <1>3, <2>1 DEF StopsInv, ThreadInv, PromiseKept, StopTellsTheTruth
<1> QED  BY <1>4, <1>5, <1>6 DEF ThreadInv, RunsInv, InputsInv, StopsInv

\* The steps of clients that admit an input, and of the harness that takes one.
LEMMA InputSteps ==
  ASSUME TypeOK, TypeOK', ThreadInv, ~SlowRelease, ~Releasing,
         \/ \E i \in Inputs : \/ LaunchNewTurn(i) \/ EnqueueFollowUp(i)
                              \/ RemoveQueue(i) \/ \E t \in Inputs : SteerTurn(i, t)
         \/ SteerAppended
         \/ \E r \in Runs : ConsumeSteer(r)
  PROVE  ThreadInv'
<1> USE DEF durable, volatile
<1>1. ASSUME NEW i \in Inputs, LaunchNewTurn(i) PROVE ThreadInv'
  <2>1. /\ turn[i] = "none" /\ handle.turn = 0 /\ GateFree
        /\ \A u \in Inputs : turn[u] \notin Started /\ turn[u] # "queued"
    BY <1>1 DEF LaunchNewTurn, NextInput, ThreadBusy, ActiveTurns, Queued, ThreadInv, SteersAreNoTurns
  <2>2. /\ \A q \in Runs : runs[q].pc = "idle"
        /\ \A s \in Stops : stop[s].prom # "pending"
    BY <2>1, NoEntryNoRun, NoEntryNoWait DEF ThreadInv, RunsInv, StopsInv, At
  <2>3. PICK r \in Runs : runs' = [runs EXCEPT ![r] = NewRun(i, FALSE)]
    BY <1>1 DEF LaunchNewTurn
  <2>4. /\ runs'[r].pc = "prep" /\ runs'[r].turn = i /\ runs'[r].out = "none"
        /\ \A q \in Runs \ {r} : runs'[q].pc = "idle"
    BY <2>2, <2>3 DEF NewRun, IdleRun, TypeOK, RunsOK
  <2>5. /\ turn'[i] = "running" /\ \A u \in Inputs \ {i} : turn'[u] = turn[u]
        /\ inp'[i] = "active" /\ \A u \in Inputs \ {i} : inp'[u] = inp[u]
        /\ handle'.turn = i /\ UNCHANGED <<gate, stop, pause>>
    BY <1>1, FreshRecords DEF LaunchNewTurn, TypeOK
  <2>6. RunsInv' /\ NoStrandedQueue'
    BY <2>1, <2>4, <2>5 DEF RunsInv, OneActive, OneRun, WorkingOwnsTurn, EndingLetsGo, EntryHasRun,
       RunningHasRun, NoStrandedQueue, Working, At, Started
  <2>7. InputsInv'
    BY <2>1, <2>5 DEF InputsInv, ThreadInv, SteersAreNoTurns, GateHoldsInput, GateFree
  <2>8. StopsInv'
    <3>1. \A s \in Stops : stop[s].prom \in Terminal => stop[s].turn \in Inputs \ {i}
      BY <2>1 DEF ThreadInv, PromiseKept, StopTellsTheTruth, TypeOK, StopsOK, Terminal
    <3> QED  BY <2>2, <2>5, <3>1 DEF StopsInv, ThreadInv, PromiseKept, StopTellsTheTruth
  <2> QED  BY <2>6, <2>7, <2>8 DEF ThreadInv, RunsInv, InputsInv, StopsInv
<1>2. ASSUME NEW i \in Inputs, EnqueueFollowUp(i) PROVE ThreadInv'
  <2>1. turn[i] = "none" /\ GateFree
    BY <1>2 DEF EnqueueFollowUp, NextInput, ThreadInv, SteersAreNoTurns
  <2>2. /\ turn'[i] = "queued" /\ \A u \in Inputs \ {i} : turn'[u] = turn[u]
        /\ inp'[i] = "queued" /\ \A u \in Inputs \ {i} : inp'[u] = inp[u]
        /\ UNCHANGED <<handle, runs, gate, stop, pause>>
    BY <1>2 DEF EnqueueFollowUp, TypeOK
  <2>3. RunsInv'
    <3>1. \A u \in Inputs : turn'[u] # turn[u] => turn[u] = "none" /\ turn'[u] = "queued"
      BY <2>1, <2>2
    <3>2. OneActive' /\ OneRun' /\ EntryHasRun'
      BY <2>2, <3>1 DEF ThreadInv, OneActive, OneRun, EntryHasRun, At, Started
    <3>3. \A q \in Runs : ~At(q, "idle") => runs[q].turn \in Inputs
      BY DEF TypeOK, RunsOK, At
    <3>4. WorkingOwnsTurn' /\ EndingLetsGo' /\ RunningHasRun'
      BY <2>2, <3>1, <3>3 DEF ThreadInv, WorkingOwnsTurn, EndingLetsGo, RunningHasRun, Working, At,
         Started
    <3> QED  BY <3>2, <3>4 DEF RunsInv
  <2>4. InputsInv'
    BY <2>1, <2>2 DEF InputsInv, ThreadInv, SteersAreNoTurns, GateHoldsInput, GateFree
  <2>5. StopsInv'
    <3>1. \A s \in Stops : stop[s].prom \in Terminal => stop[s].turn \in Inputs \ {i}
      BY <2>1 DEF ThreadInv, PromiseKept, StopTellsTheTruth, TypeOK, StopsOK, Terminal
    <3> QED  BY <2>2, <3>1 DEF StopsInv, ThreadInv, PromiseKept, StopTellsTheTruth
  <2>6. NoStrandedQueue'
    <3>1. \A u \in Inputs : turn[u] \in Started => turn'[u] \in Started
      BY <2>1, <2>2 DEF Started
    <3>2. ThreadBusy /\ pause = "none" => \/ \E u \in Inputs : turn[u] \in Started
                                         \/ \E q \in Runs : ~At(q, "idle")
      BY DEF ThreadBusy, ActiveTurns, ThreadInv, NoStrandedQueue, EntryHasRun
    <3> QED  BY <1>2, <2>2, <3>1, <3>2 DEF EnqueueFollowUp, NoStrandedQueue, At
  <2> QED  BY <2>3, <2>4, <2>5, <2>6 DEF ThreadInv, RunsInv, InputsInv, StopsInv
<1>3. ASSUME NEW i \in Inputs, RemoveQueue(i) PROVE ThreadInv'
  <2>1. /\ turn[i] = "queued" /\ inp[i] = "queued"
        /\ turn'[i] = "cancelled" /\ \A u \in Inputs \ {i} : turn'[u] = turn[u]
        /\ inp'[i] = "cancelled" /\ \A u \in Inputs \ {i} : inp'[u] = inp[u]
        /\ UNCHANGED <<handle, runs, gate, stop>>
    BY <1>3 DEF RemoveQueue, TypeOK
  <2>2. \A q \in Runs : ~At(q, "idle") => Working(q) /\ runs[q].turn \in Inputs \ {i}
    BY <2>1 DEF Releasing, Working, At, ThreadInv, WorkingOwnsTurn, TypeOK, RunsOK, Started
  <2>3. RunsInv'
    <3>1. OneActive' /\ OneRun' /\ EntryHasRun'
      BY <2>1 DEF ThreadInv, OneActive, OneRun, EntryHasRun, At, Started
    <3>2. WorkingOwnsTurn' /\ EndingLetsGo' /\ RunningHasRun'
      BY <2>1, <2>2 DEF ThreadInv, WorkingOwnsTurn, EndingLetsGo, RunningHasRun, Working, At
    <3> QED  BY <3>1, <3>2 DEF RunsInv
  <2>4. InputsInv'
    BY <2>1 DEF InputsInv, ThreadInv, SteersAreNoTurns, GateHoldsInput, GateFree, TypeOK
  <2>5. StopsInv'
    <3>1. \A s \in Stops : stop[s].prom \in Terminal => stop[s].turn \in Inputs \ {i}
      BY <2>1 DEF ThreadInv, PromiseKept, StopTellsTheTruth, TypeOK, StopsOK, Terminal
    <3> QED  BY <2>1, <3>1 DEF StopsInv, ThreadInv, PromiseKept, StopTellsTheTruth
  <2>6. NoStrandedQueue'
    <3>1. Queued' = Queued \ {i} /\ i \in Queued
      BY <2>1 DEF Queued
    <3>2. \A u \in Inputs : turn[u] \in Started => turn'[u] \in Started
      BY <2>1 DEF Started
    <3>3. Queued' # {} => pause' = pause
      BY <1>3, <3>1 DEF RemoveQueue
    <3> QED  BY <2>1, <3>1, <3>2, <3>3 DEF ThreadInv, NoStrandedQueue, At
  <2> QED  BY <2>3, <2>4, <2>5, <2>6 DEF ThreadInv, RunsInv, InputsInv, StopsInv
<1>4. ASSUME NEW i \in Inputs, NEW t \in Inputs, SteerTurn(i, t) PROVE ThreadInv'
  <2>1. /\ UNCHANGED <<turn, inp, pause, handle, runs, stop>>
        /\ inp[i] = "none" /\ gate' = [turn |-> t, input |-> i]
    BY <1>4 DEF SteerTurn, NextInput
  <2>2. RunsInv' /\ StopsInv' /\ NoStrandedQueue'
    BY <2>1 DEF ThreadInv, RunsInv, StopsInv, OneActive, OneRun, WorkingOwnsTurn, EndingLetsGo,
       EntryHasRun, RunningHasRun, NoStrandedQueue, PromiseKept, StopTellsTheTruth, Working, At, Queued
  <2>3. InputsInv'
    BY <2>1 DEF ThreadInv, InputsInv, SteersAreNoTurns, GateHoldsInput
  <2> QED  BY <2>2, <2>3 DEF ThreadInv, RunsInv, InputsInv, StopsInv
<1>5. ASSUME SteerAppended PROVE ThreadInv'
  <2>1. /\ UNCHANGED <<turn, pause, stop>> /\ gate' = FreeGate /\ ~GateFree
        /\ inp' = [inp EXCEPT ![gate.input] = "mailbox"]
    BY <1>5 DEF SteerAppended
  <2>2. gate.input \in Inputs /\ turn[gate.input] = "none"
    BY <2>1 DEF TypeOK, GateFree, ThreadInv, GateHoldsInput, SteersAreNoTurns
  <2>3. handle'.turn = handle.turn /\ \A q \in Runs : RunMoves(q)
    BY <1>5 DEF SteerAppended, TypeOK, HandleType, RunsOK, RunType, RunMoves
  <2>4. RunsInv' /\ NoStrandedQueue'
    BY <2>1, <2>3, MovesInv DEF ThreadInv, RunsInv
  <2>5. InputsInv'
    BY <2>1, <2>2 DEF InputsInv, ThreadInv, SteersAreNoTurns, GateHoldsInput, GateFree, TypeOK
  <2>6. StopsInv'
    BY <2>1, <2>3 DEF StopsInv, ThreadInv, PromiseKept, StopTellsTheTruth
  <2> QED  BY <2>4, <2>5, <2>6 DEF ThreadInv, RunsInv, InputsInv, StopsInv
<1>6. ASSUME NEW r \in Runs, ConsumeSteer(r) PROVE ThreadInv'
  <2>1. UNCHANGED <<turn, pause, handle, runs, gate, stop>>
    BY <1>6 DEF ConsumeSteer
  <2>2. \E i \in Inputs : inp[i] = "mailbox" /\ inp' = [inp EXCEPT ![i] = "consumed"]
    BY <1>6 DEF ConsumeSteer, Mailbox
  <2>3. RunsInv' /\ StopsInv' /\ NoStrandedQueue'
    BY <2>1 DEF ThreadInv, RunsInv, StopsInv, OneActive, OneRun, WorkingOwnsTurn, EndingLetsGo,
       EntryHasRun, RunningHasRun, NoStrandedQueue, PromiseKept, StopTellsTheTruth, Working, At, Queued
  <2>4. InputsInv'
    BY <2>1, <2>2 DEF InputsInv, ThreadInv, SteersAreNoTurns, GateHoldsInput, GateFree, TypeOK
  <2> QED  BY <2>3, <2>4 DEF ThreadInv, RunsInv, InputsInv, StopsInv
<1> QED  BY <1>1, <1>2, <1>3, <1>4, <1>5, <1>6

\* The steps that write the status of the run's own turn.
LEMMA StatusSteps ==
  ASSUME TypeOK, TypeOK', ThreadInv, NEW r \in Runs,
         AskUser(r) \/ CompleteTurn(r) \/ InterruptTurn(r) \/ FailTurn(r)
  PROVE  ThreadInv'
<1> USE DEF durable
<1> DEFINE t == runs[r].turn
<1>1. Working(r) /\ t \in Inputs /\ turn[t] \in Started /\ handle.turn = t /\ runs[r].out = "none"
  <2>1. Working(r)
    BY DEF AskUser, AtWork, CompleteTurn, InterruptTurn, FailTurn, At, Working
  <2> QED  BY <2>1 DEF ThreadInv, WorkingOwnsTurn, Working, TypeOK, RunsOK
<1>2. \A q \in Runs \ {r} : runs[q].pc = "idle"
  BY <1>1 DEF ThreadInv, OneRun, Working, At
<1>3. \A u \in Inputs \ {t} : turn[u] \notin Started
  BY <1>1 DEF ThreadInv, OneActive
<1>4. \A s \in Stops : stop[s].prom \in Terminal => stop[s].turn \in Inputs \ {t}
  BY <1>1, StatusesDiffer DEF ThreadInv, PromiseKept, StopTellsTheTruth, TypeOK, StopsOK, Terminal
<1>5. inp[t] \notin {"none", "mailbox"}
  BY <1>1, StatusesDiffer DEF ThreadInv, SteersAreNoTurns
<1>6. ASSUME Terminalize(r, "completed", "none") \/ Terminalize(r, "interrupted", "interrupted")
             \/ Terminalize(r, "failed", "turn_failed")
      PROVE  ThreadInv'
  BY <1>1, <1>6, TerminalizeInv DEF Terminal
<1>7. ASSUME NEW status \in {"waiting", "queued"}, NEW pc \in {"pausing", "ending"},
             status = "waiting" <=> pc = "pausing",
             turn' = [turn EXCEPT ![t] = status], Goto(r, pc), handle'.turn = t,
             UNCHANGED <<inp, gate, pause, stop>>
      PROVE  ThreadInv'
  <2>1. /\ runs'[r].pc = pc /\ runs'[r].turn = t /\ runs'[r].out = "none"
        /\ \A q \in Runs \ {r} : runs'[q].pc = "idle"
    BY <1>1, <1>2, <1>7 DEF Goto, TypeOK, RunsOK, RunType
  <2>2. turn'[t] = status /\ \A u \in Inputs \ {t} : turn'[u] = turn[u]
    BY <1>1, <1>7 DEF TypeOK
  <2> HIDE DEF t
  <2>3. OneActive' /\ OneRun' /\ EntryHasRun' /\ RunningHasRun' /\ NoStrandedQueue'
    BY <1>1, <1>3, <1>7, <2>1, <2>2 DEF OneActive, OneRun, EntryHasRun, RunningHasRun,
       NoStrandedQueue, At, Started
  <2>4. WorkingOwnsTurn' /\ EndingLetsGo'
    BY <1>1, <1>7, <2>1, <2>2 DEF WorkingOwnsTurn, EndingLetsGo, Working, At, Started
  <2>5. InputsInv'
    BY <1>1, <1>5, <1>7, <2>2 DEF InputsInv, ThreadInv, SteersAreNoTurns, GateHoldsInput, GateFree
  <2>6. StopsInv'
    BY <1>1, <1>4, <1>7, <2>2 DEF StopsInv, ThreadInv, PromiseKept, StopTellsTheTruth
  <2> QED  BY <2>3, <2>4, <2>5, <2>6 DEF ThreadInv, InputsInv, StopsInv
<1>8. CASE AskUser(r)
  BY <1>1, <1>7, <1>8 DEF AskUser
<1>9. CASE CompleteTurn(r)
  <2>1. turn[t] = "running"
    BY <1>1, <1>9 DEF CompleteTurn, At, ThreadInv, WorkingOwnsTurn
  <2>2. CASE Mailbox(t) # {}
    <3>1. /\ turn' = [turn EXCEPT ![t] = "queued"] /\ Goto(r, "ending")
          /\ handle' = [handle EXCEPT !.accepting = FALSE] /\ UNCHANGED <<inp, gate, pause, stop>>
      BY <1>1, <1>9, <2>1, <2>2 DEF CompleteTurn, TypeOK
    <3>2. handle'.turn = t
      BY <1>1, <3>1 DEF TypeOK, HandleType
    <3> QED  BY <1>7, <3>1, <3>2
  <2>3. CASE Mailbox(t) = {}
    BY <1>1, <1>6, <1>9, <2>3 DEF CompleteTurn
  <2> QED  BY <2>2, <2>3
<1>10. CASE InterruptTurn(r)
  <2>1. IsActiveTurn(t)
    BY <1>1, <1>3 DEF IsActiveTurn, ActiveTurns, Inputs
  <2> QED  BY <1>6, <1>10, <2>1 DEF InterruptTurn
<1>11. CASE FailTurn(r)
  BY <1>6, <1>11 DEF FailTurn
<1> QED  BY <1>8, <1>9, <1>10, <1>11

\* The end of a run: the entry goes, nothing waits for it, and the next queued
\* turn is launched from a thread at rest.
LEMMA EndSteps ==
  ASSUME TypeOK, TypeOK', ThreadInv, NEW r \in Runs, RunEnds(r)
  PROVE  ThreadInv'
<1> DEFINE t == runs[r].turn
           status == IF runs[r].out = "none" THEN "lost" ELSE runs[r].out
           E == [q \in Runs |-> IF q = r THEN IdleRun ELSE RunsWithout(t)[q]]
           H == HandleWithout(t)
           S == StopsSettled(t, status)
<1>1. At(r, "ending") /\ t \in Inputs
  BY DEF RunEnds, At, TypeOK, RunsOK
<1>2. \A q \in Runs \ {r} : runs[q].pc = "idle"
  BY <1>1 DEF ThreadInv, OneRun, At
<1>3. \A u \in Inputs : turn[u] # "running"
  BY <1>1, <1>2 DEF ThreadInv, RunningHasRun, Working, At
<1>4. RunsOK(E) /\ \A q \in Runs : E[q].pc = "idle"
  <2>1. RunsOK(RunsWithout(t))
    BY DetachedType DEF RunsWithout, TypeOK
  <2>2. \A q \in Runs \ {r} : RunsWithout(t)[q].pc = "idle"
    BY <1>2 DEF RunsWithout, Detached, TypeOK, RunsOK, RunType
  <2>3. IdleRun.pc = "idle"
    BY DEF IdleRun
  <2> QED  BY <2>1, <2>2, <2>3, FreshRecords DEF RunsOK
<1>5. H.turn = 0
  BY <1>1, ZeroIsNoTurn DEF HandleWithout, NoHandle, ThreadInv, EndingLetsGo
<1>6. \/ handle.turn = t /\ runs[r].out = "none" /\ S = Settle(stop, "lost")
      \/ handle.turn = 0 /\ S = stop
  BY <1>1, ZeroIsNoTurn DEF ThreadInv, EndingLetsGo, StopsSettled
<1>7. StopsOK(S)
  BY <1>6, SettleType DEF TypeOK, Promise, Terminal
<1>8. \A s \in Stops :
        /\ S[s].prom # "pending"
        /\ S[s].pc = "idle" => S[s].prom = "none"
        /\ S[s].pc = "done" => S[s].prom \in Terminal \cup {"gone"}
        /\ S[s].prom \in Terminal => turn[S[s].turn] = S[s].prom
  <2>1. CASE handle.turn = 0 /\ S = stop
    <3>1. \A s \in Stops : stop[s].prom # "pending"
      BY <2>1, NoEntryNoWait DEF ThreadInv, StopsInv
    <3> QED  BY <2>1, <3>1 DEF ThreadInv, PromiseKept, StopTellsTheTruth
  <2>2. CASE S = Settle(stop, "lost")
    <3>1. \A s \in Stops : /\ S[s].pc = stop[s].pc /\ S[s].turn = stop[s].turn
                           /\ S[s].prom = IF stop[s].prom = "pending" THEN "lost" ELSE stop[s].prom
      BY <2>2 DEF Settle, TypeOK, StopsOK, StopType
    <3> HIDE DEF S
    <3> QED  BY <3>1 DEF ThreadInv, PromiseKept, StopTellsTheTruth, Terminal
  <2> QED  BY <1>6, <2>1, <2>2
<1>9. UNCHANGED <<pause, gate>>
  BY DEF RunEnds
<1>10. CASE ActiveTurns = {} /\ \E u \in Inputs : NextQueuedTurn(u) /\ Execute(u, turn, E, H, S)
  <2>1. PICK u \in Inputs : NextQueuedTurn(u) /\ Execute(u, turn, E, H, S)
    BY <1>10
  <2>2. turn[u] = "queued" /\ \A w \in Inputs : turn[w] \notin Started
    BY <1>10, <2>1 DEF NextQueuedTurn, FirstOf, Queued, ActiveTurns
  <2>3. /\ turn \in [Inputs -> TurnStatus]
        /\ \A i \in Inputs : inp[i] \in {"none", "mailbox"} => turn[i] = "none"
        /\ gate' = gate /\ GateHoldsInput
    BY <1>9 DEF TypeOK, ThreadInv, SteersAreNoTurns
  <2> HIDE DEF E, H, S
  <2> QED  BY <1>4, <1>5, <1>7, <1>8, <2>1, <2>2, <2>3, ExecuteInv
<1>11. CASE /\ ActiveTurns # {} \/ pause # "none" \/ Queued = {}
            /\ handle' = H /\ runs' = E /\ stop' = S
            /\ UNCHANGED <<turn, inp, begun>>
  <2> HIDE DEF E, H, S
  <2>1. RunsInv'
    BY <1>3, <1>4, <1>5, <1>11 DEF ThreadInv, RunsInv, OneActive, OneRun, WorkingOwnsTurn, EndingLetsGo,
       EntryHasRun, RunningHasRun, Working, At
  <2>2. InputsInv'
    BY <1>9, <1>11 DEF InputsInv, ThreadInv, SteersAreNoTurns, GateHoldsInput, GateFree
  <2>3. StopsInv'
    BY <1>8, <1>11 DEF StopsInv, PromiseKept, StopTellsTheTruth
  <2>4. NoStrandedQueue'
    BY <1>9, <1>11 DEF NoStrandedQueue, ActiveTurns, Queued
  <2> QED  BY <2>1, <2>2, <2>3, <2>4 DEF ThreadInv, RunsInv, InputsInv, StopsInv
<1> QED  BY <1>10, <1>11 DEF RunEnds

\* The steps of clients that resume the queue, answer or stop.
LEMMA ClientSteps ==
  ASSUME TypeOK, TypeOK', ThreadInv, Calm, ~Releasing,
         \/ ResumeQueue \/ \E t \in Inputs : AnswerInteraction(t)
         \/ \E s \in Stops, t \in Inputs : StopTurn(s, t)
  PROVE  ThreadInv'
<1> USE DEF durable
<1>0. ~SlowRelease /\ ~EagerClient /\ ~EarlyAnswer /\ ~UntrustedHooks /\ RunsInv /\ StopsInv /\ InputsInv
  BY DEF Calm, ThreadInv, RunsInv, StopsInv, InputsInv
<1>1. CASE ResumeQueue
  <2>1. pause' = "none" /\ UNCHANGED gate
    BY <1>1 DEF ResumeQueue
  <2>2. ASSUME ActiveTurns = {}, NEW t \in Inputs, FirstOf(t, Queued),
               Execute(t, turn, runs, handle, stop)
        PROVE  ThreadInv'
    <3>1. handle.turn = 0 /\ \A r \in Runs : runs[r].pc = "idle"
      BY <1>0, <2>2, NoActiveNoRun DEF At
    <3>2. \A s \in Stops : stop[s].prom # "pending"
      BY <1>0, <3>1, NoEntryNoWait
    <3>3. turn[t] = "queued" /\ \A u \in Inputs : turn[u] \notin Started
      BY <2>2 DEF FirstOf, Queued, ActiveTurns
    <3>4. \A i \in Inputs : inp[i] \in {"none", "mailbox"} => turn[i] = "none"
      BY <1>0 DEF InputsInv, SteersAreNoTurns
    <3>5. \A s \in Stops : /\ stop[s].pc = "idle" => stop[s].prom = "none"
                           /\ stop[s].pc = "done" => stop[s].prom \in Terminal \cup {"gone"}
                           /\ stop[s].prom \in Terminal => turn[stop[s].turn] = stop[s].prom
      BY <1>0 DEF StopsInv, PromiseKept, StopTellsTheTruth
    <3>6. turn \in [Inputs -> TurnStatus] /\ RunsOK(runs) /\ StopsOK(stop) /\ GateHoldsInput
      BY <1>0 DEF TypeOK, InputsInv
    <3> QED  BY <2>1, <2>2, <3>1, <3>2, <3>3, <3>4, <3>5, <3>6, ExecuteInv
  <2>3. CASE /\ ActiveTurns # {} \/ Queued = {}
             /\ UNCHANGED <<turn, inp, begun, handle, runs, stop>>
    <3>1. RunsInv' /\ StopsInv' /\ InputsInv'
      BY <1>0, <2>1, <2>3 DEF RunsInv, StopsInv, InputsInv, OneActive, OneRun, WorkingOwnsTurn,
         EndingLetsGo, EntryHasRun, RunningHasRun, PromiseKept, StopTellsTheTruth, Working, At,
         SteersAreNoTurns, GateHoldsInput, GateFree
    <3>2. NoStrandedQueue'
      BY <2>3 DEF NoStrandedQueue, ActiveTurns, Queued
    <3> QED  BY <3>1, <3>2 DEF ThreadInv, RunsInv, InputsInv, StopsInv
  <2> QED  BY <1>1, <2>2, <2>3 DEF ResumeQueue
<1>2. ASSUME NEW t \in Inputs, AnswerInteraction(t) PROVE ThreadInv'
  <2> DEFINE T == [turn EXCEPT ![t] = "queued"]
  <2>1. turn[t] = "waiting" /\ handle.turn # t /\ UNCHANGED <<pause, gate>>
    BY <1>0, <1>2 DEF AnswerInteraction, Answerable
  <2>2. \A u \in Inputs \ {t} : turn[u] \notin Started
    BY <2>1 DEF ThreadInv, OneActive, Started
  <2>3. \A r \in Runs : runs[r].pc = "idle"
    <3> SUFFICES ASSUME NEW r \in Runs, runs[r].pc # "idle" PROVE FALSE
      OBVIOUS
    <3>1. Working(r) /\ runs[r].turn \in Inputs
      BY <1>0 DEF Releasing, Working, At, TypeOK, RunsOK
    <3>2. turn[runs[r].turn] \in Started /\ handle.turn = runs[r].turn
      BY <1>0, <3>1 DEF RunsInv, WorkingOwnsTurn
    <3> QED  BY <2>1, <2>2, <3>1, <3>2
  <2>4. handle.turn = 0
    BY <1>0, <2>3 DEF RunsInv, EntryHasRun, At
  <2>5. Execute(t, T, runs, handle, stop)
    BY <1>2, <2>2 DEF AnswerInteraction, ActiveTurns
  <2>6. /\ T \in [Inputs -> TurnStatus] /\ T[t] = "queued"
        /\ \A u \in Inputs \ {t} : T[u] = turn[u]
    BY DEF TypeOK, TurnStatus
  <2>7. \A s \in Stops : /\ stop[s].prom # "pending"
                         /\ stop[s].pc = "idle" => stop[s].prom = "none"
                         /\ stop[s].pc = "done" => stop[s].prom \in Terminal \cup {"gone"}
                         /\ stop[s].prom \in Terminal => T[stop[s].turn] = stop[s].prom
    <3>1. \A s \in Stops : stop[s].prom # "pending"
      BY <1>0, <2>4, NoEntryNoWait
    <3>2. \A s \in Stops : stop[s].prom \in Terminal => stop[s].turn \in Inputs \ {t}
      BY <1>0, <2>1 DEF StopsInv, PromiseKept, StopTellsTheTruth, TypeOK, StopsOK, Terminal
    <3> HIDE DEF T
    <3> QED  BY <1>0, <2>6, <3>1, <3>2 DEF StopsInv, PromiseKept, StopTellsTheTruth
  <2>8. \A i \in Inputs : inp[i] \in {"none", "mailbox"} => T[i] = "none"
    BY <1>0, <2>1, <2>6 DEF InputsInv, SteersAreNoTurns
  <2>9. \A u \in Inputs : T[u] \notin Started
    BY <2>2, <2>6 DEF Started
  <2>10. RunsOK(runs) /\ StopsOK(stop) /\ GateHoldsInput
    BY <1>0 DEF TypeOK, InputsInv
  <2> HIDE DEF T
  <2> QED  BY <2>1, <2>3, <2>4, <2>5, <2>6, <2>7, <2>8, <2>9, <2>10, ExecuteInv
<1>3. ASSUME NEW s \in Stops, NEW t \in Inputs, StopTurn(s, t) PROVE ThreadInv'
  <2>1. stop[s].pc = "idle" /\ UNCHANGED gate
    BY <1>3 DEF StopTurn
  <2>2. CASE handle.turn # 0
    <3>1. /\ handle.turn = t /\ UNCHANGED <<turn, inp, pause>>
          /\ stop' = [stop EXCEPT ![s] = [pc |-> "abort", turn |-> t, prom |-> "pending"]]
      BY <1>3, <2>2 DEF StopTurn
    <3>2. handle'.turn = handle.turn /\ \A q \in Runs : RunMoves(q)
      <4>1. CASE UNCHANGED <<handle, runs>>
        BY <4>1 DEF RunMoves
      <4>2. CASE /\ handle' = [handle EXCEPT !.accepting = FALSE, !.aborted = TRUE]
                 /\ runs' = [r \in Runs |-> IF runs[r].held
                                THEN [runs[r] EXCEPT !.aborted = TRUE] ELSE runs[r]]
        BY <4>2 DEF RunMoves, TypeOK, HandleType, RunsOK, RunType
      <4> QED  BY <1>3, <2>2, <4>1, <4>2 DEF StopTurn
    <3>3. RunsInv' /\ NoStrandedQueue'
      BY <1>0, <3>1, <3>2, MovesInv DEF ThreadInv
    <3>4. InputsInv'
      BY <1>0, <2>1, <3>1 DEF InputsInv, SteersAreNoTurns, GateHoldsInput, GateFree
    <3>5. StopsInv'
      <4>1. /\ stop'[s].pc = "abort" /\ stop'[s].turn = t /\ stop'[s].prom = "pending"
            /\ \A z \in Stops \ {s} : stop'[z] = stop[z]
        BY <3>1 DEF TypeOK, StopsOK
      <4> QED  BY <1>0, <3>1, <3>2, <4>1 DEF StopsInv, PromiseKept, StopTellsTheTruth, Terminal
    <3> QED  BY <3>3, <3>4, <3>5 DEF ThreadInv, RunsInv, InputsInv, StopsInv
  <2>3. CASE handle.turn = 0
    <3>1. /\ turn[t] \in Started /\ FinalizeTurn(t, "interrupted", "interrupted")
          /\ stop' = [stop EXCEPT ![s] = [pc |-> "abort", turn |-> t, prom |-> "interrupted"]]
          /\ UNCHANGED <<handle, runs>>
      BY <1>3, <2>3 DEF StopTurn, IsActiveTurn, ActiveTurns
    <3>2. /\ \A r \in Runs : runs[r].pc = "idle"
          /\ \A z \in Stops : stop[z].prom # "pending"
      BY <1>0, <2>3, NoEntryNoRun, NoEntryNoWait DEF At
    <3>3. /\ InputsInv' /\ turn'[t] = "interrupted"
          /\ \A u \in Inputs : turn'[u] \notin Started
          /\ \A u \in Inputs : turn[u] \in Terminal => turn'[u] = turn[u]
      BY <1>0, <2>1, <3>1, FinalizeInv DEF RunsInv, Terminal
    <3>4. (\E u \in Inputs : turn'[u] = "queued") => pause' = "interrupted"
      BY <1>0, <3>1, FinalizeTouches DEF Terminal
    <3>5. RunsInv' /\ NoStrandedQueue'
      BY <2>3, <3>1, <3>2, <3>3, <3>4 DEF RunsInv, OneActive, OneRun, WorkingOwnsTurn, EndingLetsGo,
         EntryHasRun, RunningHasRun, NoStrandedQueue, Queued, Working, At, Started
    <3>6. StopsInv'
      <4>1. /\ stop'[s].pc = "abort" /\ stop'[s].turn = t /\ stop'[s].prom = "interrupted"
            /\ \A z \in Stops \ {s} : stop'[z] = stop[z]
        BY <3>1 DEF TypeOK, StopsOK
      <4>2. \A z \in Stops : stop[z].prom \in Terminal => stop[z].turn \in Inputs
        BY <1>0 DEF StopsInv, PromiseKept, TypeOK, StopsOK, Terminal
      <4> QED  BY <1>0, <3>2, <3>3, <4>1, <4>2 DEF StopsInv, PromiseKept, StopTellsTheTruth, Terminal
    <3> QED  BY <3>3, <3>5, <3>6 DEF ThreadInv, RunsInv, InputsInv, StopsInv
  <2> QED  BY <2>2, <2>3
<1> QED  BY <1>1, <1>2, <1>3

\* Recovery leaves a thread at rest, and launches from it.
LEMMA RestartStep ==
  ASSUME TypeOK, TypeOK', ThreadInv, NEW keep \in SUBSET Inputs, NEW P,
         Restart(keep, P)
  PROVE  ThreadInv'
<1> DEFINE running == {t \in Inputs : turn[t] = "running"}
           T == [t \in Inputs |-> IF t \in keep THEN "queued"
                                  ELSE IF t \in running THEN "interrupted" ELSE turn[t]]
           Q == {t \in Inputs : T[t] = "queued"}
           E == [r \in Runs |-> IdleRun]
           S == [s \in Stops |-> IF stop[s].pc \in {"idle", "done"} THEN stop[s]
                                 ELSE [stop[s] EXCEPT !.pc = "done", !.prom = "gone"]]
<1>1. /\ keep \subseteq running /\ gate' = FreeGate
      /\ pause' = IF Q # {} /\ running # keep THEN "interrupted" ELSE pause
  BY DEF Restart
<1>2. /\ T \in [Inputs -> TurnStatus]
      /\ \A t \in Inputs : T[t] \in Started => T[t] = turn[t] /\ T[t] = "waiting"
      /\ \A t \in Inputs : turn[t] # "running" => T[t] = turn[t]
  BY <1>1 DEF TypeOK, TurnStatus, Terminal, Started
<1>3. RunsOK(E) /\ \A r \in Runs : E[r].pc = "idle"
  BY FreshRecords DEF RunsOK, IdleRun
<1>4. NoHandle.turn = 0
  BY DEF NoHandle
<1>5. StopsOK(S) /\ \A s \in Stops :
        /\ S[s].prom # "pending"
        /\ S[s].pc = "idle" => S[s].prom = "none"
        /\ S[s].pc = "done" => S[s].prom \in Terminal \cup {"gone"}
        /\ S[s].prom \in Terminal => T[S[s].turn] = S[s].prom
  <2>1. StopsOK(S)
    <3>1. \A x \in StopType : [x EXCEPT !.pc = "done", !.prom = "gone"] \in StopType
      BY DEF StopType, StopPC, Promise
    <3>2. S \in [Stops -> StopType]
      BY <3>1 DEF TypeOK, StopsOK
    <3>3. ASSUME NEW s \in Stops, S[s].pc # "idle"
          PROVE  S[s].turn \in Inputs /\ S[s].prom # "none"
      <4>1. stop[s] \in StopType /\ (stop[s].pc # "idle" => stop[s].turn \in Inputs /\ stop[s].prom # "none")
        BY DEF TypeOK, StopsOK
      <4>2. CASE stop[s].pc \in {"idle", "done"}
        <5>1. S[s] = stop[s]
          BY <4>2
        <5> HIDE DEF S
        <5> QED  BY <3>3, <4>1, <5>1
      <4>3. CASE stop[s].pc \notin {"idle", "done"}
        <5>1. S[s] = [stop[s] EXCEPT !.pc = "done", !.prom = "gone"]
          BY <4>3
        <5>2. S[s].turn = stop[s].turn /\ S[s].prom = "gone"
          BY <4>1, <5>1 DEF StopType
        <5> HIDE DEF S
        <5> QED  BY <4>1, <4>3, <5>2
      <4> QED  BY <4>2, <4>3
    <3> HIDE DEF S
    <3> QED  BY <3>2, <3>3 DEF StopsOK
  <2>2. ASSUME NEW s \in Stops
        PROVE  \/ S[s] = stop[s] /\ stop[s].pc \in {"idle", "done"}
               \/ S[s].pc = "done" /\ S[s].prom = "gone"
    BY DEF TypeOK, StopsOK, StopType
  <2>3. \A s \in Stops : stop[s].prom \in Terminal => T[stop[s].turn] = stop[s].prom
    <3>1. \A s \in Stops : stop[s].prom \in Terminal =>
             stop[s].turn \in Inputs /\ turn[stop[s].turn] = stop[s].prom
      BY DEF ThreadInv, PromiseKept, StopTellsTheTruth, TypeOK, StopsOK, Terminal
    <3> HIDE DEF T
    <3> QED  BY <1>2, <3>1 DEF Terminal
  <2> HIDE DEF S, T
  <2> QED  BY <2>1, <2>2, <2>3 DEF ThreadInv, PromiseKept, Terminal
<1>6. \A i \in Inputs : inp[i] \in {"none", "mailbox"} => T[i] = "none"
  <2>1. \A i \in Inputs : inp[i] \in {"none", "mailbox"} => turn[i] = "none"
    BY DEF ThreadInv, SteersAreNoTurns
  <2> HIDE DEF T
  <2> QED  BY <1>2, <2>1
<1>7. CASE /\ \A t \in Inputs : T[t] \notin Started
           /\ \E t \in Inputs : FirstOf(t, Q) /\ Execute(t, T, E, NoHandle, S)
  <2>1. PICK t \in Inputs : FirstOf(t, Q) /\ Execute(t, T, E, NoHandle, S)
    BY <1>7
  <2>2. T[t] = "queued"
    BY <2>1 DEF FirstOf
  <2> HIDE DEF T, E, S
  <2> QED  BY <1>1, <1>2, <1>3, <1>4, <1>5, <1>6, <1>7, <2>1, <2>2, ExecuteInv
<1>8. CASE /\ pause' # "none" \/ Q = {} \/ \E t \in Inputs : T[t] \in Started
           /\ turn' = T /\ handle' = NoHandle /\ runs' = E /\ stop' = S
           /\ UNCHANGED <<inp, begun>>
  <2>1. \A u \in Inputs : T[u] # "running"
    BY <1>2 DEF Started
  <2>2. Queued' = Q
    BY <1>8 DEF Queued
  <2> HIDE DEF T, E, S
  <2>3. OneActive'
    BY <1>2, <1>8 DEF ThreadInv, OneActive
  <2>4. RunsInv'
    BY <1>3, <1>4, <1>8, <2>1, <2>3 DEF RunsInv, OneRun, WorkingOwnsTurn, EndingLetsGo,
       EntryHasRun, RunningHasRun, Working, At
  <2>5. InputsInv'
    BY <1>1, <1>6, <1>8 DEF InputsInv, SteersAreNoTurns, GateHoldsInput, GateFree
  <2>6. StopsInv'
    BY <1>5, <1>8 DEF StopsInv, PromiseKept, StopTellsTheTruth
  <2>7. NoStrandedQueue'
    BY <1>8, <2>2 DEF NoStrandedQueue
  <2> QED  BY <2>4, <2>5, <2>6, <2>7 DEF ThreadInv, RunsInv, InputsInv, StopsInv
<1> QED  BY <1>1, <1>7, <1>8 DEF Restart

LEMMA NextInv == Calm /\ TypeOK /\ TypeOK' /\ ThreadInv /\ [Next]_vars => ThreadInv'
<1> SUFFICES ASSUME Calm, TypeOK, TypeOK', ThreadInv, [Next]_vars PROVE ThreadInv'
  OBVIOUS
<1>0. ~SlowRelease /\ ~EagerClient /\ ~EarlyAnswer /\ ~UntrustedHooks
  BY DEF Calm
<1>1. CASE ~Releasing /\ Step
  <2>1. ASSUME Admission \/ SteerAppended \/ QueueRPC PROVE ThreadInv'
    BY <1>0, <1>1, <2>1, InputSteps, ClientSteps DEF Admission, QueueRPC, ResumeTurn
  <2>2. ASSUME NEW r \in Runs, RunStep(r) \/ AskUser(r) \/ RunThrows(r) PROVE ThreadInv'
    BY <1>0, <1>1, <2>2, MovingSteps, InputSteps, StatusSteps DEF RunStep
  <2>3. ASSUME \/ \E t \in Inputs : AnswerInteraction(t)
               \/ \E s \in Stops, t \in Inputs : StopTurn(s, t)
        PROVE  ThreadInv'
    BY <1>1, <2>3, ClientSteps
  <2> QED  BY <1>0, <1>1, <2>1, <2>2, <2>3, TrustedHooks DEF Step
<1>2. CASE \E r \in Runs : RunEnds(r)
  BY <1>2, EndSteps
<1>3. CASE \E s \in Stops : StopAborts(s) \/ StopReturns(s)
  BY <1>0, <1>3, MovingSteps
<1>4. CASE \E keep \in SUBSET Inputs, P \in [Inputs -> 0..MaxAsks] : Restart(keep, P)
  BY <1>4, RestartStep
<1>5. CASE UNCHANGED vars
  BY <1>5 DEF vars, ThreadInv, OneActive, OneRun, WorkingOwnsTurn, EndingLetsGo, EntryHasRun,
     RunningHasRun, SteersAreNoTurns, GateHoldsInput, GateFree, PromiseKept, StopTellsTheTruth,
     NoStrandedQueue, Working, At, Queued
<1> QED  BY <1>1, <1>2, <1>3, <1>4, <1>5 DEF Next

\* With calm clients and releases the thread invariant holds in every state.
THEOREM ThreadInvariant == Calm => (Spec => []ThreadInv)
<1>1. ASSUME Calm PROVE Spec => []ThreadInv
  BY <1>1, TypeCorrect, InitInv, NextInv, PTL DEF Spec
<1> QED  BY <1>1

-----------------------------------------------------------------------------
(* What follows from it.                                                     *)

\* At most one turn of a thread is started.
THEOREM OneTurnActive == Calm => (Spec => []OneActive)
BY ThreadInvariant, PTL DEF ThreadInv

\* At most one activation of executeTurn works.
THEOREM SerialExecution == Calm => (Spec => []Serial)
<1>1. ThreadInv => Serial
  BY DEF ThreadInv, OneRun, Serial, Executing, At
<1> QED  BY <1>1, ThreadInvariant, PTL

\* stop() reports what the database says.
THEOREM StopIsTruthful == Calm => (Spec => []StopTellsTheTruth)
BY ThreadInvariant, PTL DEF ThreadInv

\* Nothing executes a turn whose stop() has returned.
THEOREM StopIsFinal == Calm => (Spec => []StoppedIsStill)
<1>1. ThreadInv => StoppedIsStill
  <2> SUFFICES ASSUME ThreadInv, NEW s \in Stops, stop[s].pc = "done", stop[s].prom # "gone",
                      NEW r \in Runs, Executing(r), runs[r].turn = stop[s].turn
               PROVE  FALSE
    BY DEF StoppedIsStill
  <2>1. turn[stop[s].turn] \in Terminal
    BY DEF ThreadInv, PromiseKept, StopTellsTheTruth
  <2>2. turn[runs[r].turn] \in Started
    BY DEF ThreadInv, WorkingOwnsTurn, Working, Executing
  <2> QED  BY <2>1, <2>2, StatusesDiffer
<1> QED  BY <1>1, ThreadInvariant, PTL

\* Queued turns that are not paused have something before them.
THEOREM QueueNotStranded == Calm => (Spec => []NoStrandedQueue)
BY ThreadInvariant, PTL DEF ThreadInv

\* What one step may do to a finished turn: nothing.
LEMMA NextFinal ==
  ASSUME Calm, TypeOK, ThreadInv, [Next]_vars, NEW t \in Inputs,
         turn[t] \in Terminal \cup {"cancelled"}
  PROVE  turn'[t] = turn[t]
<1> USE DEF durable, volatile
<1>0. turn[t] \notin Started \cup {"none", "queued"} /\ ~EagerClient /\ ~EarlyAnswer /\ ~UntrustedHooks /\ InputsInv
  BY DEF Terminal, Started, Calm, ThreadInv, InputsInv
<1>1. ASSUME NEW u \in Inputs, turn[u] \in Started, NEW status \in Terminal, NEW reason,
             FinalizeTurn(u, status, reason)
      PROVE  turn'[t] = turn[t]
  BY <1>0, <1>1, FinalizeTouches
<1>2. ASSUME NEW u \in Inputs, NEW T, T \in [Inputs -> TurnStatus], T[t] = turn[t],
             NEW E, NEW H, NEW S, Execute(u, T, E, H, S)
      PROVE  turn'[t] = turn[t]
  BY <1>0, <1>2 DEF Execute
<1>3. ASSUME NEW r \in Runs, NEW status \in Terminal, NEW reason, Working(r),
             Terminalize(r, status, reason)
      PROVE  turn'[t] = turn[t]
  <2>1. runs[r].turn \in Inputs /\ turn[runs[r].turn] \in Started
    BY <1>3 DEF ThreadInv, WorkingOwnsTurn, Working, TypeOK, RunsOK
  <2>2. FinalizeTurn(runs[r].turn, status, reason)
    BY <1>3, <2>1, StatusesDiffer DEF Terminalize
  <2> QED  BY <1>1, <2>1, <2>2
<1>4. ASSUME NEW i \in Inputs, \/ LaunchNewTurn(i) \/ EnqueueFollowUp(i) \/ RemoveQueue(i)
                                \/ \E u \in Inputs : SteerTurn(i, u)
      PROVE  turn'[t] = turn[t]
  <2>1. NextInput(i) => turn[i] = "none"
    BY DEF NextInput, ThreadInv, SteersAreNoTurns
  <2> QED  BY <1>0, <1>4, <2>1 DEF LaunchNewTurn, EnqueueFollowUp, RemoveQueue, SteerTurn, TypeOK
<1>5. ASSUME ResumeQueue PROVE turn'[t] = turn[t]
  BY <1>2, <1>5 DEF ResumeQueue, TypeOK
<1>6. ASSUME NEW r \in Runs, \/ DisposePrevious(r) \/ RuntimeReady(r) \/ HarnessStart(r)
                              \/ ConsumeSteer(r) \/ HarnessDone(r) \/ PausedReturn(r) \/ RunThrows(r)
      PROVE  turn'[t] = turn[t]
  BY <1>6 DEF DisposePrevious, AtWork, RuntimeReady, HarnessStart, ConsumeSteer, HarnessDone, PausedReturn,
     RunThrows
<1>7. ASSUME NEW r \in Runs, AskUser(r) \/ CompleteTurn(r) \/ InterruptTurn(r) \/ FailTurn(r)
      PROVE  turn'[t] = turn[t]
  <2>1. Working(r)
    BY <1>7 DEF AskUser, AtWork, CompleteTurn, InterruptTurn, FailTurn, At, Working
  <2>2. turn[runs[r].turn] \in Started
    BY <2>1 DEF ThreadInv, WorkingOwnsTurn
  <2>3. AskUser(r) => turn'[t] = turn[t]
    BY <1>0, <2>2 DEF AskUser, AtWork, TypeOK
  <2>4. CompleteTurn(r) => turn'[t] = turn[t]
    BY <1>0, <1>3, <2>1, <2>2 DEF CompleteTurn, TypeOK, Terminal
  <2>5. InterruptTurn(r) \/ FailTurn(r) => turn'[t] = turn[t]
    BY <1>3, <2>1 DEF InterruptTurn, FailTurn, Terminal
  <2> QED  BY <1>7, <2>3, <2>4, <2>5
<1>8. ASSUME NEW r \in Runs, RunEnds(r) PROVE turn'[t] = turn[t]
  BY <1>2, <1>8 DEF RunEnds, TypeOK
<1>9. ASSUME NEW u \in Inputs, AnswerInteraction(u) PROVE turn'[t] = turn[t]
  <2> DEFINE T == [turn EXCEPT ![u] = "queued"]
  <2>1. T \in [Inputs -> TurnStatus] /\ T[t] = turn[t]
    BY <1>0, <1>9 DEF AnswerInteraction, Answerable, TypeOK, TurnStatus, Started
  <2>2. turn' = T \/ Execute(u, T, runs, handle, stop)
    BY <1>9 DEF AnswerInteraction
  <2> HIDE DEF T
  <2> QED  BY <1>2, <2>1, <2>2
<1>10. ASSUME NEW s \in Stops, NEW u \in Inputs, StopTurn(s, u) PROVE turn'[t] = turn[t]
  <2>1. UNCHANGED turn \/ (FinalizeTurn(u, "interrupted", "interrupted") /\ turn[u] \in Started)
    BY <1>10 DEF StopTurn, IsActiveTurn, ActiveTurns
  <2> QED  BY <1>1, <2>1 DEF Terminal
<1>11. ASSUME NEW keep \in SUBSET Inputs, NEW P, Restart(keep, P) PROVE turn'[t] = turn[t]
  <2> DEFINE T == [u \in Inputs |-> IF u \in keep THEN "queued"
                     ELSE IF u \in {w \in Inputs : turn[w] = "running"} THEN "interrupted" ELSE turn[u]]
  <2>1. turn[t] # "running" /\ t \notin keep
    BY <1>0, <1>11 DEF Restart, Started
  <2>2. T \in [Inputs -> TurnStatus] /\ T[t] = turn[t]
    BY <2>1 DEF TypeOK, TurnStatus, Terminal
  <2>3. turn' = T \/ \E u \in Inputs : \E E, H, S : Execute(u, T, E, H, S)
    BY <1>11 DEF Restart
  <2> HIDE DEF T
  <2> QED  BY <1>2, <2>2, <2>3
<1>12. SteerAppended \/ (\E s \in Stops : StopAborts(s) \/ StopReturns(s)) \/ UNCHANGED vars
       => turn'[t] = turn[t]
  BY <1>0, TrustedHooks DEF SteerAppended, StopAborts, vars
<1> QED  BY <1>0, <1>4, <1>5, <1>6, <1>7, <1>8, <1>9, <1>10, <1>11, <1>12, TrustedHooks
         DEF Next, Step, Admission, QueueRPC, RunStep, ResumeTurn

\* The transition to a terminal status is one-way.
THEOREM TerminalIsFinal == Calm => (Spec => TerminalFinal)
<1> SUFFICES ASSUME Calm PROVE Spec => TerminalFinal
  OBVIOUS
<1>1. TypeOK /\ ThreadInv /\ [Next]_vars
      => [\A t \in Inputs : turn[t] \in Terminal \cup {"cancelled"} => turn'[t] = turn[t]]_vars
  BY NextFinal
<1>2. Spec => []ThreadInv
  BY ThreadInvariant
<1> QED  BY <1>1, <1>2, TypeCorrect, PTL DEF Spec, TerminalFinal

-----------------------------------------------------------------------------
(* Two properties of single steps that need no invariant but the types.      *)

\* What executeTurn's claim changes: it only takes turns out of the queue.
LEMMA ExecuteQueued ==
  ASSUME NEW t \in Inputs, NEW T, T \in [Inputs -> TurnStatus], NEW E, NEW H, NEW S,
         Execute(t, T, E, H, S), NEW u \in Inputs
  PROVE  /\ turn'[u] = T[u] \/ turn'[u] = "running"
         /\ turn'[u] = "queued" => T[u] = "queued"
BY DEF Execute

\* The terminal transaction of any turn pauses the queue when it is given a
\* reason, and it is given one unless the turn completed.
LEMMA FinalizePauses ==
  ASSUME TypeOK, NEW t \in Inputs, NEW status \in Terminal, NEW reason,
         reason = "none" => status = "completed",
         FinalizeTurn(t, status, reason),
         NEW x \in Inputs, turn[x] \in Started, turn'[x] \in {"failed", "interrupted"},
         NEW u \in Inputs, turn'[u] = "queued"
  PROVE  pause' # "none"
<1>1. turn'[x] \in {"queued", turn[x]} \/ (x = t /\ turn'[x] = status)
  BY DEF FinalizeTurn
<1>2. reason # "none"
  BY <1>1 DEF Started
<1>3. pause' = reason
  BY <1>2 DEF FinalizeTurn
<1> QED  BY <1>2, <1>3

LEMMA NextPauses ==
  ASSUME TypeOK, [Next]_vars, NEW x \in Inputs, turn[x] \in Started,
         turn'[x] \in {"failed", "interrupted"}, NEW u \in Inputs, turn'[u] = "queued"
  PROVE  pause' # "none"
<1> USE DEF durable, volatile
<1>0. turn'[x] # turn[x] /\ turn'[x] \notin Started \cup {"none", "queued", "cancelled", "completed"}
  BY DEF Started
<1>1. ASSUME NEW r \in Runs, NEW status \in Terminal, NEW reason, ~At(r, "idle"),
             reason = "none" => status = "completed", Terminalize(r, status, reason)
      PROVE  pause' # "none"
  BY <1>0, <1>1, FinalizePauses DEF Terminalize, TypeOK, RunsOK, At
<1>2. ASSUME NEW r \in Runs, CompleteTurn(r) \/ InterruptTurn(r) \/ FailTurn(r)
      PROVE  pause' # "none"
  <2>1. ~At(r, "idle")
    BY <1>2 DEF CompleteTurn, InterruptTurn, FailTurn, At
  <2>2. \/ Terminalize(r, "completed", "none") \/ Terminalize(r, "interrupted", "interrupted")
        \/ Terminalize(r, "failed", "turn_failed")
    BY <1>0, <1>2 DEF CompleteTurn, InterruptTurn, FailTurn, TypeOK
  <2> QED  BY <1>1, <2>1, <2>2 DEF Terminal
<1>3. ASSUME NEW s \in Stops, NEW t \in Inputs, StopTurn(s, t) PROVE pause' # "none"
  BY <1>0, <1>3, FinalizePauses DEF StopTurn, Terminal
<1>4. ASSUME NEW keep \in SUBSET Inputs, NEW P, Restart(keep, P) PROVE pause' # "none"
  <2> DEFINE running == {t \in Inputs : turn[t] = "running"}
             T == [t \in Inputs |-> IF t \in keep THEN "queued"
                                    ELSE IF t \in running THEN "interrupted" ELSE turn[t]]
             Q == {t \in Inputs : T[t] = "queued"}
  <2>1. T \in [Inputs -> TurnStatus]
    BY DEF TypeOK, TurnStatus, Terminal
  <2>2. turn' = T \/ \E t \in Inputs : \E E, H, S : Execute(t, T, E, H, S)
    BY <1>4 DEF Restart
  <2>3. pause' = IF Q # {} /\ running # keep THEN "interrupted" ELSE pause
    BY <1>4 DEF Restart
  <2>4. T[u] = "queued" /\ T[x] = turn'[x]
    <3> HIDE DEF T
    <3> QED  BY <1>0, <2>1, <2>2, ExecuteQueued DEF Started
  <2>5. x \in running /\ x \notin keep
    BY <1>0, <2>4
  <2> QED  BY <2>3, <2>4, <2>5
<1>5. ASSUME NEW t \in Inputs, NEW T, T \in [Inputs -> TurnStatus], T[x] \notin {"failed", "interrupted"},
             NEW E, NEW H, NEW S, Execute(t, T, E, H, S)
      PROVE  FALSE
  BY <1>0, <1>5, ExecuteQueued DEF Started
<1>6. turn[x] \notin {"failed", "interrupted"}
  BY DEF Started
<1>7. ASSUME \/ ResumeQueue \/ \E t \in Inputs : ResumeTurn(t) \/ \E r \in Runs : RunEnds(r)
      PROVE  FALSE
  BY <1>0, <1>5, <1>6, <1>7 DEF ResumeQueue, ResumeTurn, RunEnds, TypeOK
<1>8. ASSUME NEW t \in Inputs, AnswerInteraction(t) PROVE FALSE
  <2> DEFINE T == [turn EXCEPT ![t] = "queued"]
  <2>1. T \in [Inputs -> TurnStatus] /\ T[x] \notin {"failed", "interrupted"}
    BY <1>6 DEF TypeOK, TurnStatus
  <2>2. turn' = T \/ Execute(t, T, runs, handle, stop)
    BY <1>8 DEF AnswerInteraction
  <2> HIDE DEF T
  <2> QED  BY <1>5, <2>1, <2>2
<1>9. ASSUME NEW i \in Inputs, \/ LaunchNewTurn(i) \/ EnqueueFollowUp(i) \/ RemoveQueue(i)
                                \/ \E t \in Inputs : SteerTurn(i, t)
      PROVE  FALSE
  BY <1>0, <1>9 DEF LaunchNewTurn, EnqueueFollowUp, RemoveQueue, SteerTurn, TypeOK, Started
<1>10. ASSUME NEW r \in Runs, \/ DisposePrevious(r) \/ RuntimeReady(r) \/ HarnessStart(r)
                               \/ ConsumeSteer(r) \/ HarnessDone(r) \/ PausedReturn(r) \/ RunThrows(r)
                               \/ AskUser(r)
       PROVE  FALSE
  BY <1>0, <1>10 DEF DisposePrevious, AtWork, RuntimeReady, HarnessStart, ConsumeSteer, HarnessDone,
     PausedReturn, RunThrows, AskUser, TypeOK, Started
<1>11. ~(SteerAppended \/ (\E s \in Stops : StopAborts(s)) \/ UNCHANGED vars)
  BY <1>0 DEF SteerAppended, StopAborts, vars
<1>12. ASSUME \/ \E r \in Runs : AskTrust(r)
              \/ \E s \in Stops : StopReturns(s)
       PROVE  FALSE
  <2>1. UNCHANGED turn \/ \E t \in Inputs : WaitForTrust(t)
    BY <1>12, TrustAskers
  <2> QED  BY <1>0, <2>1, TrustWaiter DEF Started
<1>13. ASSUME AnswerTrust PROVE FALSE
  <2> DEFINE T == [t \in Inputs |-> IF t \in trust.waiters THEN "queued" ELSE turn[t]]
  <2>1. T \in [Inputs -> TurnStatus] /\ T[x] \notin {"failed", "interrupted"}
    BY <1>6 DEF TypeOK, TurnStatus
  <2>2. turn' = T \/ \E t \in Inputs : Execute(t, T, runs, handle, stop)
    BY <1>13 DEF AnswerTrust, TypeOK, TrustType
  <2> HIDE DEF T
  <2> QED  BY <1>5, <2>1, <2>2
<1> QED  BY <1>2, <1>3, <1>4, <1>7, <1>8, <1>9, <1>10, <1>11, <1>12, <1>13
         DEF Next, Step, Admission, QueueRPC, RunStep

\* A failure or an interruption pauses what is queued, eager clients and slow
\* releases included.
THEOREM FailurePauses == Spec => FailurePausesQueue
<1>1. TypeOK /\ [Next]_vars =>
        [(\E t \in Inputs : turn[t] \in Started /\ turn'[t] \in {"failed", "interrupted"})
           /\ (\E u \in Inputs : turn'[u] = "queued") => pause' # "none"]_vars
  BY NextPauses
<1> QED  BY <1>1, TypeCorrect, PTL DEF Spec, FailurePausesQueue

LEMMA NextHolds ==
  ASSUME ~EagerClient, ~EarlyAnswer, ~UntrustedHooks, [Next]_vars, NEW t \in Inputs, t \in begun' \ begun, turn[t] = "queued",
         pause # "none"
  PROVE  pause' = "none"
<1> USE DEF durable, volatile
<1>0. ASSUME NEW u \in Inputs, NEW T, NEW E, NEW H, NEW S, Execute(u, T, E, H, S)
      PROVE  t = u
  BY <1>0 DEF Execute
<1>1. ASSUME NEW i \in Inputs, \/ LaunchNewTurn(i) \/ EnqueueFollowUp(i) \/ RemoveQueue(i)
                                \/ \E u \in Inputs : SteerTurn(i, u)
      PROVE  FALSE
  BY <1>1 DEF LaunchNewTurn, ThreadBusy, Queued, EnqueueFollowUp, RemoveQueue, SteerTurn
<1>2. ASSUME NEW r \in Runs, RunStep(r) \/ AskUser(r) \/ RunThrows(r) PROVE FALSE
  BY <1>2 DEF RunStep, DisposePrevious, RuntimeReady, HarnessStart, ConsumeSteer, HarnessDone,
     PausedReturn, RunThrows, AskUser, CompleteTurn, InterruptTurn, FailTurn, Terminalize
<1>3. ASSUME NEW r \in Runs, RunEnds(r) PROVE FALSE
  BY <1>3 DEF RunEnds, NextQueuedTurn
<1>4. ASSUME NEW u \in Inputs, AnswerInteraction(u) PROVE FALSE
  BY <1>0, <1>4 DEF AnswerInteraction, Answerable
<1>5. ASSUME NEW keep \in SUBSET Inputs, NEW P, Restart(keep, P) PROVE pause' = "none"
  BY <1>5 DEF Restart
<1>6. ASSUME \/ SteerAppended \/ \E s \in Stops, u \in Inputs : StopTurn(s, u)
             \/ \E s \in Stops : StopAborts(s) \/ StopReturns(s)
             \/ UNCHANGED vars
      PROVE  FALSE
  BY <1>6 DEF SteerAppended, StopTurn, StopAborts, StopReturns, vars
<1>7. ResumeQueue => pause' = "none"
  BY DEF ResumeQueue
<1> QED  BY <1>1, <1>2, <1>3, <1>4, <1>5, <1>6, <1>7, TrustedHooks
         DEF Next, Step, Admission, QueueRPC, ResumeTurn

\* A paused queue holds, slow releases included, unless a client sends
\* turn/resume for a queued turn or answers early.
THEOREM PausedQueue == ~EagerClient /\ ~EarlyAnswer /\ ~UntrustedHooks => (Spec => PausedQueueHolds)
<1> SUFFICES ASSUME ~EagerClient, ~EarlyAnswer, ~UntrustedHooks PROVE Spec => PausedQueueHolds
  OBVIOUS
<1>1. TypeOK' /\ [Next]_vars =>
        [\A t \in begun' \ begun : turn[t] = "queued" /\ pause # "none" => pause' = "none"]_vars
  <2> SUFFICES ASSUME TypeOK', [Next]_vars, NEW t \in begun' \ begun, turn[t] = "queued", pause # "none"
               PROVE  pause' = "none"
    OBVIOUS
  <2>1. t \in Inputs
    BY DEF TypeOK
  <2> QED  BY <2>1, NextHolds
<1> QED  BY <1>1, TypeCorrect, PTL DEF Spec, PausedQueueHolds

-----------------------------------------------------------------------------
(* A turn that waits can be answered.                                        *)

\* executeTurn's claim never makes a turn wait.
LEMMA ExecuteWaits ==
  ASSUME NEW t \in Inputs, NEW T, T \in [Inputs -> TurnStatus], NEW E, NEW H, NEW S,
         Execute(t, T, E, H, S), NEW u \in Inputs, turn'[u] = "waiting"
  PROVE  T[u] = "waiting"
BY DEF Execute

LEMMA NextWaiting ==
  ASSUME TypeOK, WaitingIsAnswerable, [Next]_vars, NEW t \in Inputs, turn'[t] = "waiting"
  PROVE  Asked(t)'
<1> USE DEF durable, volatile
<1>0. turn[t] = "waiting" /\ pend'[t] = pend[t] /\ UNCHANGED trust => Asked(t)'
  BY DEF WaitingIsAnswerable, Asked, WaitsForTrust, Untrusted
<1>1. ASSUME NEW u \in Inputs, NEW status \in Terminal, NEW reason, FinalizeTurn(u, status, reason),
             UNCHANGED trust
      PROVE  Asked(t)'
  <2>1. t # u /\ turn[t] = "waiting"
    BY <1>1 DEF FinalizeTurn, Terminal
  <2> QED  BY <1>0, <1>1, <2>1 DEF FinalizeTurn, TypeOK
<1>2. ASSUME NEW r \in Runs, NEW status \in Terminal, NEW reason, ~At(r, "idle"),
             Terminalize(r, status, reason)
      PROVE  Asked(t)'
  <2>1. runs[r].turn \in Inputs /\ UNCHANGED trust
    BY <1>2 DEF TypeOK, RunsOK, At, Terminalize
  <2> QED  BY <1>0, <1>1, <1>2, <2>1 DEF Terminalize
<1>3. ASSUME NEW r \in Runs, CompleteTurn(r) \/ InterruptTurn(r) \/ FailTurn(r)
      PROVE  Asked(t)'
  <2>1. ~At(r, "idle")
    BY <1>3 DEF CompleteTurn, InterruptTurn, FailTurn, At
  <2>2. \/ \E status \in Terminal, reason \in PauseReason : Terminalize(r, status, reason)
        \/ turn[t] = "waiting" /\ UNCHANGED <<pend, trust>>
    BY <1>3 DEF CompleteTurn, InterruptTurn, FailTurn, TypeOK, Terminal, PauseReason
  <2> QED  BY <1>0, <1>2, <2>1, <2>2
<1>4. ASSUME NEW r \in Runs, AskUser(r) PROVE Asked(t)'
  <2>1. runs[r].turn \in Inputs
    BY <1>4 DEF AskUser, AtWork, TypeOK, RunsOK
  <2>2. CASE t = runs[r].turn
    <3>1. pend'[t] = pend[t] + 1 /\ pend[t] \in Nat
      BY <1>4, <2>1, <2>2 DEF AskUser, AtWork, TypeOK
    <3> QED  BY <3>1 DEF Asked
  <2>3. CASE t # runs[r].turn
    BY <1>0, <1>4, <2>3 DEF AskUser, AtWork, TypeOK
  <2> QED  BY <2>2, <2>3
<1>5. ASSUME NEW u \in Inputs, AnswerInteraction(u) PROVE Asked(t)'
  <2> DEFINE T == [turn EXCEPT ![u] = "queued"]
  <2>1. T \in [Inputs -> TurnStatus]
    BY DEF TypeOK, TurnStatus
  <2>2. turn' = T \/ Execute(u, T, runs, handle, stop)
    BY <1>5 DEF AnswerInteraction
  <2>3. T[t] = "waiting"
    <3> HIDE DEF T
    <3> QED  BY <2>1, <2>2, ExecuteWaits
  <2>4. t # u /\ turn[t] = "waiting"
    BY <2>3 DEF TypeOK
  <2> QED  BY <1>0, <1>5, <2>4 DEF AnswerInteraction, TypeOK
<1>6. ASSUME \/ ResumeQueue \/ (\E u \in Inputs : ResumeTurn(u)) \/ \E r \in Runs : RunEnds(r)
      PROVE  Asked(t)'
  <2>1. UNCHANGED <<pend, trust>>
    BY <1>6 DEF ResumeQueue, ResumeTurn, RunEnds
  <2>2. turn[t] = "waiting"
    BY <1>6, ExecuteWaits DEF ResumeQueue, ResumeTurn, RunEnds, TypeOK
  <2> QED  BY <1>0, <2>1, <2>2
<1>7. ASSUME NEW s \in Stops, NEW u \in Inputs, StopTurn(s, u) PROVE Asked(t)'
  BY <1>0, <1>1, <1>7 DEF StopTurn, Terminal
<1>8. ASSUME NEW keep \in SUBSET Inputs, NEW P \in [Inputs -> 0..MaxAsks], Restart(keep, P)
      PROVE  Asked(t)'
  <2> DEFINE T == [u \in Inputs |-> IF u \in keep THEN "queued"
                     ELSE IF u \in {w \in Inputs : turn[w] = "running"} THEN "interrupted" ELSE turn[u]]
  <2>1. T \in [Inputs -> TurnStatus]
    BY DEF TypeOK, TurnStatus, Terminal
  <2>2. turn' = T \/ \E u \in Inputs : \E E, H, S : Execute(u, T, E, H, S)
    BY <1>8 DEF Restart
  <2>3. T[t] = "waiting"
    <3> HIDE DEF T
    <3> QED  BY <2>1, <2>2, ExecuteWaits
  <2>4. turn[t] = "waiting" /\ Asked(t)
    BY <2>3 DEF WaitingIsAnswerable
  <2>5. pend' = P /\ P[t] \in KeptPending(t)..pend[t] /\ P[t] \in 0..MaxAsks /\ UNCHANGED trust
    BY <1>8 DEF Restart
  <2>6. CASE WaitsForTrust(t)
    BY <2>5, <2>6 DEF Asked, WaitsForTrust, Untrusted
  <2>7. CASE ~WaitsForTrust(t)
    <3>1. P[t] >= 1
      BY <2>4, <2>5, <2>7, BoundsAssumption DEF KeptPending, TypeOK
    <3> QED  BY <2>5, <3>1, BoundsAssumption DEF Asked
  <2> QED  BY <2>6, <2>7
<1>9. ASSUME NEW i \in Inputs, \/ LaunchNewTurn(i) \/ EnqueueFollowUp(i) \/ RemoveQueue(i)
                                \/ \E u \in Inputs : SteerTurn(i, u)
      PROVE  Asked(t)'
  BY <1>0, <1>9 DEF LaunchNewTurn, EnqueueFollowUp, RemoveQueue, SteerTurn, TypeOK
<1>10. ASSUME NEW r \in Runs, \/ DisposePrevious(r) \/ RuntimeReady(r) \/ HarnessStart(r)
                               \/ ConsumeSteer(r) \/ HarnessDone(r) \/ PausedReturn(r) \/ RunThrows(r)
       PROVE  Asked(t)'
  BY <1>0, <1>10 DEF DisposePrevious, AtWork, RuntimeReady, HarnessStart, ConsumeSteer, HarnessDone,
     PausedReturn, RunThrows
<1>11. ASSUME NEW u \in Inputs, WaitForTrust(u), UNCHANGED pend PROVE Asked(t)'
  <2>1. CASE t = u
    BY <1>11, <2>1, TrustWaiter DEF Asked, WaitsForTrust
  <2>2. CASE t # u
    BY <1>11, <2>2, TrustWaiter DEF Asked, WaitsForTrust, WaitingIsAnswerable
  <2> QED  BY <2>1, <2>2
<1>12. ASSUME \/ SteerAppended \/ \E s \in Stops : StopAborts(s) \/ StopReturns(s)
              \/ \E r \in Runs : AskTrust(r)
              \/ UNCHANGED vars
       PROVE  Asked(t)'
  <2>1. UNCHANGED pend
    BY <1>12 DEF SteerAppended, StopAborts, StopReturns, AskTrust, vars
  <2>2. UNCHANGED <<turn, trust>> \/ \E u \in Inputs : WaitForTrust(u)
    BY <1>12, TrustAskers DEF SteerAppended, StopAborts, vars
  <2> QED  BY <1>0, <1>11, <2>1, <2>2
<1>13. ASSUME AnswerTrust PROVE Asked(t)'
  <2> DEFINE T == [u \in Inputs |-> IF u \in trust.waiters THEN "queued" ELSE turn[u]]
  <2>1. T \in [Inputs -> TurnStatus]
    BY DEF TypeOK, TurnStatus
  <2>2. turn' = T \/ \E u \in Inputs : Execute(u, T, runs, handle, stop)
    BY <1>13 DEF AnswerTrust, TypeOK, TrustType
  <2>3. T[t] = "waiting"
    <3> HIDE DEF T
    <3> QED  BY <2>1, <2>2, ExecuteWaits
  <2>4. turn[t] = "waiting" /\ t \notin trust.waiters
    BY <2>3
  <2>5. pend[t] > 0
    BY <2>4 DEF WaitingIsAnswerable, Asked, WaitsForTrust
  <2> QED  BY <1>13, <2>5 DEF AnswerTrust, Asked
<1> QED  BY <1>3, <1>4, <1>5, <1>6, <1>7, <1>8, <1>9, <1>10, <1>12, <1>13
         DEF Next, Step, Admission, QueueRPC, RunStep

\* No turn waits with nothing to answer, eager clients and slow releases
\* included.
THEOREM WaitingAnswerable == Spec => []WaitingIsAnswerable
<1>1. Init => WaitingIsAnswerable
  BY DEF Init, WaitingIsAnswerable
<1>2. TypeOK /\ WaitingIsAnswerable /\ [Next]_vars => WaitingIsAnswerable'
  BY NextWaiting DEF WaitingIsAnswerable
<1> QED  BY <1>1, <1>2, TypeCorrect, PTL DEF Spec
-----------------------------------------------------------------------------
(* Steers and the promises of stops.  That a promise is lost only for the     *)
(* sake of a steer depends on the signal: a stop that waits has aborted the   *)
(* run that works, so that this run cannot leave its turn waiting, and only   *)
(* the completion block, with something in the mailbox, ends it without an    *)
(* outcome.                                                                   *)
Awaited == \E s \in Stops : stop[s].prom = "pending"

SignalInv ==
  \A r \in Runs :
    /\ Working(r) => runs[r].held /\ (Awaited => runs[r].aborted)
    /\ At(r, "ending") /\ runs[r].out = "none" /\ Awaited => Mailbox(runs[r].turn) # {}

\* A turn a steer is being bound to is neither completed nor interrupted: both
\* wait for the gate, a failure does not.
SteeredTurnGoesOn == ~GateFree => turn[gate.turn] \notin {"completed", "interrupted"}

\* A step without outcome: no run starts, the signals of the working runs stay, and
\* a run leaves only when it was not aborted.
RunsOn ==
  \A q \in Runs :
    /\ runs'[q].turn = runs[q].turn /\ runs'[q].out = runs[q].out
    /\ runs'[q].held = runs[q].held /\ runs'[q].aborted = runs[q].aborted
    /\ runs'[q].pc \notin {"idle", "ending"} => Working(q)
    /\ runs'[q].pc = "ending" => At(q, "ending") \/ (Working(q) /\ ~runs[q].aborted)

LEMMA SignalKept ==
  ASSUME SignalInv, RunsOn, \A s \in Stops : stop'[s].prom = "pending" => stop[s].prom = "pending",
         UNCHANGED <<inp, home>> \/ \A q \in Runs : ~At(q, "ending")
  PROVE  SignalInv'
<1>1. Awaited' => Awaited
  BY DEF Awaited
<1> SUFFICES ASSUME NEW q \in Runs
             PROVE  /\ Working(q)' => runs'[q].held /\ (Awaited' => runs'[q].aborted)
                    /\ At(q, "ending")' /\ runs'[q].out = "none" /\ Awaited' => Mailbox(runs[q].turn)' # {}
  BY DEF SignalInv, RunsOn
<1>2. Working(q)' => runs'[q].held /\ (Awaited' => runs'[q].aborted)
  BY <1>1 DEF SignalInv, RunsOn, Working
<1>3. ASSUME At(q, "ending")', runs'[q].out = "none", Awaited' PROVE Mailbox(runs[q].turn)' # {}
  <2>1. At(q, "ending")
    BY <1>1, <1>3 DEF SignalInv, RunsOn, At
  <2>2. Mailbox(runs[q].turn) # {} /\ UNCHANGED <<inp, home>>
    BY <1>1, <1>3, <2>1 DEF SignalInv, RunsOn
  <2> QED  BY <2>2 DEF Mailbox, RunsOn
<1> QED  BY <1>2, <1>3

\* A launch on a thread at rest starts a run whose signal nobody waits for.
LEMMA SignalLaunched ==
  ASSUME NEW t \in Inputs, NEW T, NEW E, NEW H, NEW S, Execute(t, T, E, H, S),
         H.turn = 0, RunsOK(E), \A r \in Runs : E[r].pc = "idle",
         StopsOK(S), \A s \in Stops : S[s].prom # "pending"
  PROVE  SignalInv' /\ \A s \in Stops : stop'[s].prom = S[s].prom
<1>1. \A s \in Stops : stop'[s].prom = S[s].prom
  BY DEF Execute, Settle
<1>2. ~Awaited'
  BY <1>1 DEF Awaited
<1>3. ASSUME NEW q \in Runs, runs'[q].pc # "idle" PROVE runs'[q].pc = "prep" /\ runs'[q].held
  <2>1. CASE runs' = Detached(E)
    BY <1>3, <2>1 DEF Detached, RunsOK, RunType
  <2>2. CASE \E r \in Runs : E[r].pc = "idle" /\ runs' = [E EXCEPT ![r] = NewRun(t, H.turn = t /\ H.aborted)]
    BY <1>3, <2>2 DEF NewRun, IdleRun, RunsOK
  <2> QED  BY <2>1, <2>2, ZeroIsNoTurn DEF Execute
<1> QED  BY <1>1, <1>2, <1>3 DEF SignalInv, Working, At

\* What a step must do: keep the signals, and lose a promise only for a steer.
LostForSteers == \A s \in Stops : stop[s].prom = "pending" /\ stop'[s].prom = "lost"
                                   => Mailbox(stop[s].turn) # {}

\* The steps that move a run along executeTurn, or leave the runs alone.
LEMMA SignalMoves ==
  ASSUME Calm, TypeOK, ThreadInv, SignalInv,
         \/ ~Releasing /\ \E r \in Runs : \/ DisposePrevious(r) \/ RuntimeReady(r) \/ HarnessStart(r)
                                         \/ HarnessDone(r) \/ PausedReturn(r) \/ RunThrows(r)
                                         \/ ConsumeSteer(r) \/ AskUser(r)
         \/ ~Releasing /\ \/ SteerAppended
                          \/ \E i \in Inputs : \/ EnqueueFollowUp(i) \/ RemoveQueue(i)
                                               \/ \E t \in Inputs : SteerTurn(i, t)
         \/ \E s \in Stops : StopAborts(s) \/ StopReturns(s)
  PROVE  SignalInv' /\ LostForSteers
<1> USE DEF durable, volatile
<1>0. runs \in [Runs -> RunType] /\ stop \in [Stops -> StopType] /\ ~UntrustedHooks /\ ~SlowRelease
  BY DEF TypeOK, RunsOK, StopsOK, Calm
<1>1. \A s \in Stops : stop'[s].prom = stop[s].prom
  <2>1. ASSUME NEW s \in Stops, StopAborts(s) \/ StopReturns(s) PROVE \A z \in Stops : stop'[z].prom = stop[z].prom
    BY <1>0, <2>1 DEF StopAborts, StopReturns, StopType
  <2> QED  BY <2>1 DEF DisposePrevious, AtWork, RuntimeReady, HarnessStart, HarnessDone, PausedReturn,
         RunThrows, ConsumeSteer, AskUser, SteerAppended, EnqueueFollowUp, RemoveQueue, SteerTurn
<1>2. UNCHANGED <<inp, home>> \/ \A q \in Runs : ~At(q, "ending")
  <2>1. ~Releasing => \A q \in Runs : ~At(q, "ending")
    BY <1>0 DEF Releasing
  <2> QED  BY <1>0, <2>1, TrustedHooks DEF StopAborts, StopReturns
<1>3. RunsOn
  <2>1. ASSUME NEW r \in Runs, Working(r), NEW pc \in RunPC \ {"idle"}, Goto(r, pc),
               pc = "ending" => ~runs[r].aborted
        PROVE  RunsOn
    BY <1>0, <2>1 DEF RunsOn, Goto, Working, At, RunType, RunPC
  <2>2. ASSUME NEW r \in Runs, DisposePrevious(r) PROVE RunsOn
    BY <1>0, <2>2 DEF RunsOn, DisposePrevious, AtWork, Working, At, RunType
  <2>3. ASSUME NEW r \in Runs, RuntimeReady(r) PROVE RunsOn
    BY <2>1, <2>3 DEF RuntimeReady, Working, At, RunPC
  <2>4. ASSUME NEW r \in Runs, HarnessStart(r) \/ HarnessDone(r) PROVE RunsOn
    BY <2>1, <2>4 DEF HarnessStart, HarnessDone, Working, At, RunPC
  <2>5. ASSUME NEW r \in Runs, PausedReturn(r) PROVE RunsOn
    BY <2>1, <2>5 DEF PausedReturn, Working, At, RunPC
  <2>6. ASSUME NEW r \in Runs, RunThrows(r) \/ AskUser(r) PROVE RunsOn
    BY <2>1, <2>6 DEF RunThrows, AskUser, AtWork, Working, At, RunPC
  <2>7. ASSUME SteerAppended PROVE RunsOn
    <3>1. \A q \in Runs : /\ runs'[q].turn = runs[q].turn /\ runs'[q].out = runs[q].out
                          /\ runs'[q].held = runs[q].held /\ runs'[q].aborted = runs[q].aborted
                          /\ runs'[q].pc = runs[q].pc
      BY <1>0, <2>7 DEF SteerAppended, RunType
    <3> QED  BY <3>1 DEF RunsOn, Working, At
  <2>8. ASSUME NEW s \in Stops, StopAborts(s) PROVE RunsOn
    BY <1>0, <2>8 DEF RunsOn, StopAborts, AtWork, Working, At, RunType
  <2>9. ASSUME UNCHANGED runs PROVE RunsOn
    BY <2>9 DEF RunsOn, Working, At
  <2> QED  BY <2>2, <2>3, <2>4, <2>5, <2>6, <2>7, <2>8, <2>9
           DEF ConsumeSteer, EnqueueFollowUp, RemoveQueue, SteerTurn, StopReturns
<1> QED  BY <1>1, <1>2, <1>3, SignalKept DEF LostForSteers

\* The steps that end or requeue the turn of a run.
LEMMA SignalEnds ==
  ASSUME TypeOK, ThreadInv, SignalInv, ~Releasing, ~SlowRelease, NEW r \in Runs,
         CompleteTurn(r) \/ InterruptTurn(r) \/ FailTurn(r)
  PROVE  SignalInv' /\ LostForSteers
<1> USE DEF durable
<1> DEFINE t == runs[r].turn
<1>1. Working(r)
  BY DEF CompleteTurn, InterruptTurn, FailTurn, At, Working
<1>2. t \in Inputs /\ turn[t] \in Started /\ handle.turn = t /\ runs[r].out = "none"
  BY <1>1 DEF ThreadInv, WorkingOwnsTurn, Working, TypeOK, RunsOK
<1>3. \A q \in Runs \ {r} : runs[q].pc = "idle"
  BY <1>1 DEF ThreadInv, OneRun, At, Working
<1>4. runs \in [Runs -> RunType] /\ stop \in [Stops -> StopType]
  BY DEF TypeOK, RunsOK, StopsOK
<1>5. ASSUME NEW status \in Terminal, NEW reason, Terminalize(r, status, reason)
      PROVE  SignalInv' /\ LostForSteers
  <2>1. FinalizeTurn(t, status, reason) /\ stop' = Settle(stop, status)
    BY <1>2, <1>5, StatusesDiffer DEF Terminalize, StopsSettled
  <2>2. LostForSteers
    BY <1>4, <1>5, <2>1 DEF LostForSteers, Settle, StopType, Terminal
  <2>3. /\ runs'[r].pc = "ending" /\ runs'[r].out = status
        /\ \A q \in Runs \ {r} : runs'[q].pc = "idle"
    BY <1>2, <1>3, <1>4, <1>5, StatusesDiffer DEF Terminalize, RunsWithout, Detached, RunType
  <2>4. status # "none"
    BY DEF Terminal
  <2> QED  BY <2>2, <2>3, <2>4 DEF SignalInv, Working, At
<1>6. ASSUME CompleteTurn(r), Mailbox(t) # {} PROVE SignalInv' /\ LostForSteers
  <2>1. Goto(r, "ending") /\ UNCHANGED <<inp, home, stop>>
    BY <1>2, <1>6 DEF CompleteTurn
  <2>2. /\ runs'[r].pc = "ending" /\ runs'[r].turn = t
        /\ \A q \in Runs \ {r} : runs'[q].pc = "idle"
    BY <1>3, <1>4, <2>1 DEF Goto, RunType
  <2>3. Mailbox(t)' # {}
    BY <1>6, <2>1, <2>2 DEF Mailbox
  <2> QED  BY <2>1, <2>2, <2>3 DEF SignalInv, LostForSteers, Working, At
<1>7. ASSUME CompleteTurn(r), Mailbox(t) = {} PROVE SignalInv' /\ LostForSteers
  BY <1>2, <1>5, <1>7 DEF CompleteTurn, Terminal
<1>8. ASSUME InterruptTurn(r) PROVE SignalInv' /\ LostForSteers
  <2>1. IsActiveTurn(t)
    BY <1>2, BoundsAssumption DEF IsActiveTurn, ActiveTurns, ThreadInv, OneActive, Inputs
  <2> QED  BY <1>5, <1>8, <2>1 DEF InterruptTurn, Terminal
<1>9. ASSUME FailTurn(r) PROVE SignalInv' /\ LostForSteers
  BY <1>5, <1>9 DEF FailTurn, Terminal
<1> QED  BY <1>6, <1>7, <1>8, <1>9

\* The steps that launch a turn, and the end of a run, which does when it can.
LEMMA SignalLaunches ==
  ASSUME Calm, TypeOK, ThreadInv, SignalInv,
         \/ ~Releasing /\ \/ \E i \in Inputs : LaunchNewTurn(i) \/ AnswerInteraction(i)
                          \/ ResumeQueue
         \/ \E r \in Runs : RunEnds(r)
         \/ \E keep \in SUBSET Inputs, P \in [Inputs -> 0..MaxAsks] : Restart(keep, P)
  PROVE  SignalInv' /\ LostForSteers
<1> USE DEF durable
<1>0. /\ runs \in [Runs -> RunType] /\ stop \in [Stops -> StopType] /\ RunsOK(runs) /\ StopsOK(stop)
      /\ ~EarlyAnswer /\ ~EagerClient /\ ~SlowRelease /\ RunsInv /\ StopsInv
  BY DEF TypeOK, RunsOK, StopsOK, Calm, ThreadInv, RunsInv, StopsInv
<1>1. ASSUME NEW u \in Inputs, NEW T, Execute(u, T, runs, handle, stop), handle.turn = 0,
             \A q \in Runs : At(q, "idle")
      PROVE  SignalInv' /\ LostForSteers
  <2>1. \A s \in Stops : stop[s].prom # "pending"
    BY <1>0, <1>1, NoEntryNoWait
  <2>2. SignalInv'
    BY <1>0, <1>1, <2>1, SignalLaunched DEF At
  <2> QED  BY <2>1, <2>2 DEF LostForSteers
<1>2. ASSUME NEW i \in Inputs, LaunchNewTurn(i), ~Releasing PROVE SignalInv' /\ LostForSteers
  <2>1. handle.turn = 0 /\ UNCHANGED stop
    BY <1>2 DEF LaunchNewTurn, ThreadBusy
  <2>2. (\A q \in Runs : runs[q].pc = "idle") /\ \A s \in Stops : stop[s].prom # "pending"
    BY <1>0, <1>2, <2>1, NoEntryNoRun, NoEntryNoWait DEF At
  <2>3. \A q \in Runs : runs'[q].pc = "idle" \/ (runs'[q].pc = "prep" /\ runs'[q].held)
    BY <1>0, <1>2, <2>2 DEF LaunchNewTurn, NewRun, IdleRun
  <2> QED  BY <2>1, <2>2, <2>3 DEF SignalInv, LostForSteers, Awaited, Working, At
<1>3. ASSUME NEW t \in Inputs, AnswerInteraction(t), ~Releasing PROVE SignalInv' /\ LostForSteers
  <2>1. turn[t] = "waiting" /\ handle.turn # t
    BY <1>0, <1>3 DEF AnswerInteraction, Answerable
  <2>2. \A u \in Inputs \ {t} : turn[u] \notin Started
    BY <2>1 DEF ThreadInv, OneActive, Started
  <2>3. \A q \in Runs : At(q, "idle")
    <3> SUFFICES ASSUME NEW q \in Runs, ~At(q, "idle") PROVE FALSE
      OBVIOUS
    <3>1. Working(q) /\ runs[q].turn \in Inputs
      BY <1>0, <1>3 DEF Releasing, Working, At, RunsOK
    <3>2. turn[runs[q].turn] \in Started /\ handle.turn = runs[q].turn
      BY <1>0, <3>1 DEF RunsInv, WorkingOwnsTurn
    <3> QED  BY <2>1, <2>2, <3>1, <3>2
  <2>4. handle.turn = 0
    BY <1>0, <2>3 DEF RunsInv, EntryHasRun
  <2>5. Execute(t, [turn EXCEPT ![t] = "queued"], runs, handle, stop)
    BY <1>3, <2>2 DEF AnswerInteraction, ActiveTurns
  <2> QED  BY <1>1, <2>3, <2>4, <2>5
<1>4. ASSUME ResumeQueue, ~Releasing PROVE SignalInv' /\ LostForSteers
  <2>1. CASE ActiveTurns = {} /\ \E u \in Inputs : Execute(u, turn, runs, handle, stop)
    BY <1>0, <1>1, <1>4, <2>1, NoActiveNoRun
  <2>2. CASE UNCHANGED <<inp, runs, stop>>
    <3>1. UNCHANGED home
      BY <1>4 DEF ResumeQueue
    <3> QED  BY <2>2, <3>1 DEF SignalInv, LostForSteers, Awaited, Working, At, Mailbox
  <2> QED  BY <1>4, <2>1, <2>2 DEF ResumeQueue
<1>5. ASSUME NEW r \in Runs, RunEnds(r) PROVE SignalInv' /\ LostForSteers
  <2> DEFINE t == runs[r].turn
             status == IF runs[r].out = "none" THEN "lost" ELSE runs[r].out
             E == [q \in Runs |-> IF q = r THEN IdleRun ELSE RunsWithout(t)[q]]
             H == HandleWithout(t)
             S == StopsSettled(t, status)
  <2>1. At(r, "ending") /\ t \in Inputs
    BY <1>0, <1>5 DEF RunEnds, At, RunsOK
  <2>2. \A q \in Runs \ {r} : runs[q].pc = "idle"
    BY <2>1 DEF ThreadInv, OneRun, At
  <2>3. RunsOK(E) /\ \A q \in Runs : E[q].pc = "idle"
    <3>1. RunsOK(RunsWithout(t))
      BY <1>0, DetachedType DEF RunsWithout
    <3>2. \A q \in Runs \ {r} : RunsWithout(t)[q].pc = "idle"
      BY <1>0, <2>2 DEF RunsWithout, Detached, RunType
    <3>3. IdleRun.pc = "idle"
      BY DEF IdleRun
    <3> QED  BY <3>1, <3>2, <3>3, FreshRecords DEF RunsOK
  <2>4. H.turn = 0
    BY <2>1, ZeroIsNoTurn DEF HandleWithout, NoHandle, ThreadInv, EndingLetsGo
  <2>5. \/ handle.turn = t /\ runs[r].out = "none" /\ S = Settle(stop, "lost")
        \/ handle.turn = 0 /\ S = stop
    BY <2>1, ZeroIsNoTurn DEF ThreadInv, EndingLetsGo, StopsSettled
  <2>6. StopsOK(S)
    BY <1>0, <2>5, SettleType DEF Promise, Terminal
  <2>7. \A s \in Stops : S[s].prom # "pending"
    <3>1. CASE handle.turn = 0 /\ S = stop
      BY <1>0, <3>1, NoEntryNoWait
    <3>2. CASE S = Settle(stop, "lost")
      BY <1>0, <3>2 DEF Settle, StopType
    <3> QED  BY <2>5, <3>1, <3>2
  <2>8. ASSUME NEW s \in Stops, stop[s].prom = "pending" PROVE Mailbox(stop[s].turn) # {}
    <3>1. stop[s].turn = handle.turn /\ handle.turn # 0
      BY <1>0, <2>8, NoEntryNoWait DEF StopsInv, PromiseKept
    <3>2. handle.turn = t /\ runs[r].out = "none"
      BY <2>5, <3>1
    <3> QED  BY <2>1, <2>8, <3>1, <3>2 DEF SignalInv, Awaited
  <2>9. LostForSteers
    BY <2>8 DEF LostForSteers
  <2>10. SignalInv'
    <3>1. ASSUME NEW u \in Inputs, Execute(u, turn, E, H, S) PROVE SignalInv'
      <4> HIDE DEF E, H, S
      <4> QED  BY <2>3, <2>4, <2>6, <2>7, <3>1, SignalLaunched
    <3>2. ASSUME runs' = E PROVE SignalInv'
      <4>1. \A q \in Runs : runs'[q].pc = "idle"
        BY <2>3, <3>2
      <4> QED  BY <4>1 DEF SignalInv, Working, At
    <3> QED  BY <1>5, <3>1, <3>2 DEF RunEnds
  <2> QED  BY <2>9, <2>10
<1>6. ASSUME NEW keep \in SUBSET Inputs, NEW P, Restart(keep, P) PROVE SignalInv' /\ LostForSteers
  <2> DEFINE E == [r \in Runs |-> IdleRun]
             S == [s \in Stops |-> IF stop[s].pc \in {"idle", "done"} THEN stop[s]
                                   ELSE [stop[s] EXCEPT !.pc = "done", !.prom = "gone"]]
  <2>1. \A s \in Stops : S[s].prom \in {stop[s].prom, "gone"} /\ S[s].prom # "pending"
    BY <1>0 DEF StopType, StopsInv, PromiseKept, Terminal
  <2>2. StopsOK(S)
    BY <1>0 DEF StopsOK, StopType, StopPC, Promise
  <2>3. RunsOK(E) /\ \A q \in Runs : E[q].pc = "idle"
    BY FreshRecords DEF RunsOK, IdleRun
  <2>4. NoHandle.turn = 0
    BY DEF NoHandle
  <2>5. \/ \E u \in Inputs : \E T : Execute(u, T, E, NoHandle, S)
        \/ runs' = E /\ stop' = S
    BY <1>6 DEF Restart
  <2>6. SignalInv' /\ \A s \in Stops : stop'[s].prom = S[s].prom
    <3> HIDE DEF E, S
    <3>1. ASSUME NEW u \in Inputs, NEW T, Execute(u, T, E, NoHandle, S)
          PROVE  SignalInv' /\ \A s \in Stops : stop'[s].prom = S[s].prom
      BY <2>1, <2>2, <2>3, <2>4, <3>1, SignalLaunched
    <3>2. ASSUME runs' = E, stop' = S PROVE SignalInv' /\ \A s \in Stops : stop'[s].prom = S[s].prom
      BY <2>3, <3>2 DEF SignalInv, Working, At
    <3> QED  BY <2>5, <3>1, <3>2
  <2> QED  BY <2>1, <2>6 DEF LostForSteers
<1> QED  BY <1>2, <1>3, <1>4, <1>5, <1>6

\* A stop aborts the run that works; one that finds no entry finds no run.
LEMMA SignalStops ==
  ASSUME TypeOK, ThreadInv, SignalInv, ~Releasing, ~SlowRelease,
         NEW s \in Stops, NEW t \in Inputs, StopTurn(s, t)
  PROVE  SignalInv' /\ LostForSteers
<1> USE DEF durable
<1>0. runs \in [Runs -> RunType] /\ stop \in [Stops -> StopType] /\ RunsInv
  BY DEF TypeOK, RunsOK, StopsOK, ThreadInv, RunsInv
<1>1. \A z \in Stops : stop'[z].prom # "lost" \/ stop[z].prom = "lost"
  BY <1>0 DEF StopTurn, StopType
<1>2. \A q \in Runs : ~At(q, "ending")
  BY DEF Releasing
<1>3. ASSUME handle.turn # 0 PROVE SignalInv'
  <2>1. PICK r \in Runs : ~At(r, "idle")
    BY <1>0, <1>3 DEF RunsInv, EntryHasRun
  <2>2. Working(r) /\ runs[r].turn \in Inputs
    BY <1>2, <2>1 DEF Working, At, TypeOK, RunsOK
  <2>3. ActiveTurns # {}
    BY <1>0, <2>2 DEF RunsInv, WorkingOwnsTurn, ActiveTurns
  <2>4. runs' = [q \in Runs |-> IF runs[q].held THEN [runs[q] EXCEPT !.aborted = TRUE] ELSE runs[q]]
    BY <1>3, <2>3 DEF StopTurn
  <2>5. \A q \in Runs : /\ runs'[q].pc = runs[q].pc /\ runs'[q].held = runs[q].held
                        /\ runs[q].held => runs'[q].aborted
    BY <1>0, <2>4 DEF RunType
  <2> QED  BY <1>2, <2>5 DEF SignalInv, Working, At
<1>4. ASSUME handle.turn = 0 PROVE SignalInv'
  <2>1. (\A q \in Runs : At(q, "idle")) /\ UNCHANGED runs
    BY <1>0, <1>4, NoEntryNoRun DEF StopTurn
  <2> QED  BY <2>1 DEF SignalInv, Working, At
<1> QED  BY <1>1, <1>3, <1>4 DEF LostForSteers

LEMMA NextSignal ==
  ASSUME Calm, TypeOK, ThreadInv, SignalInv, [Next]_vars
  PROVE  SignalInv' /\ LostForSteers
<1>0. ~EagerClient /\ ~UntrustedHooks /\ ~SlowRelease
  BY DEF Calm
<1>1. CASE ~Releasing /\ Step
  <2>1. ASSUME Admission \/ SteerAppended \/ QueueRPC PROVE SignalInv' /\ LostForSteers
    BY <1>0, <1>1, <2>1, SignalMoves, SignalLaunches DEF Admission, QueueRPC, ResumeTurn
  <2>2. ASSUME NEW r \in Runs, RunStep(r) \/ AskUser(r) \/ RunThrows(r) PROVE SignalInv' /\ LostForSteers
    BY <1>0, <1>1, <2>2, SignalMoves, SignalEnds DEF RunStep
  <2>3. ASSUME NEW t \in Inputs, AnswerInteraction(t) PROVE SignalInv' /\ LostForSteers
    BY <1>1, <2>3, SignalLaunches
  <2>4. ASSUME NEW s \in Stops, NEW t \in Inputs, StopTurn(s, t) PROVE SignalInv' /\ LostForSteers
    BY <1>0, <1>1, <2>4, SignalStops
  <2> QED  BY <1>0, <1>1, <2>1, <2>2, <2>3, <2>4, TrustedHooks DEF Step
<1>2. CASE \E r \in Runs : RunEnds(r)
  BY <1>2, SignalLaunches
<1>3. CASE \E s \in Stops : StopAborts(s) \/ StopReturns(s)
  BY <1>3, SignalMoves
<1>4. CASE \E keep \in SUBSET Inputs, P \in [Inputs -> 0..MaxAsks] : Restart(keep, P)
  BY <1>4, SignalLaunches
<1>5. CASE UNCHANGED vars
  BY <1>5 DEF vars, SignalInv, LostForSteers, Awaited, Working, At, Mailbox
<1> QED  BY <1>1, <1>2, <1>3, <1>4, <1>5 DEF Next

\* A caller of stop() loses its promise only because the turn goes on for the
\* steers in its mailbox.
THEOREM PromiseLostToSteers == Calm => (Spec => LostOnlyToSteers)
<1> SUFFICES ASSUME Calm PROVE Spec => LostOnlyToSteers
  OBVIOUS
<1>1. Init => SignalInv
  BY DEF Init, SignalInv, IdleRun, Working, At
<1>2. TypeOK /\ ThreadInv /\ SignalInv /\ [Next]_vars => SignalInv'
  BY NextSignal
<1>3. TypeOK /\ ThreadInv /\ SignalInv /\ [Next]_vars
      => [\A s \in Stops : stop[s].prom = "pending" /\ stop'[s].prom = "lost"
            => Mailbox(stop[s].turn) # {}]_vars
  BY NextSignal DEF LostForSteers
<1>4. Spec => []ThreadInv
  BY ThreadInvariant
<1> QED  BY <1>1, <1>2, <1>3, <1>4, TypeCorrect, PTL DEF Spec, LostOnlyToSteers

\* What a step must do to the steers: leave none behind that was not, unless the
\* turn fails or the process dies.
KeptOrFailed == \A i \in Inputs : LeftBehind(i)' /\ ~LeftBehind(i)
                                    => turn'[home'[i]] = "failed" \/ crashes' # crashes

\* Steps that end no turn, give no steer a home and take no gate.
LEMMA KeptQuietly ==
  ASSUME SteeredTurnGoesOn, UNCHANGED home, gate' \in {gate, FreeGate},
         \A i \in Inputs : inp'[i] = "mailbox" => inp[i] = "mailbox",
         TypeOK, \A u \in Inputs : turn'[u] \in Terminal => turn'[u] = turn[u]
  PROVE  SteeredTurnGoesOn' /\ KeptOrFailed
<1>1. KeptOrFailed
  BY DEF KeptOrFailed, LeftBehind, TypeOK
<1>2. SteeredTurnGoesOn'
  BY DEF SteeredTurnGoesOn, GateFree, TypeOK, Terminal
<1> QED  BY <1>1, <1>2

\* The terminal transaction leaves no steer behind, except on a failure.
LEMMA FinalizeKeeps ==
  ASSUME TypeOK, SteeredTurnGoesOn, NEW t \in Inputs, NEW status \in Terminal, NEW reason,
         FinalizeTurn(t, status, reason), UNCHANGED gate,
         status # "failed" => GateFree, status = "completed" => Mailbox(t) = {}
  PROVE  SteeredTurnGoesOn' /\ KeptOrFailed
<1> DEFINE steers == IF status = "interrupted" THEN Mailbox(t) ELSE {}
<1>1. \A u \in Inputs : turn'[u] = IF u \in steers THEN "queued" ELSE IF u = t THEN status ELSE turn[u]
  BY DEF FinalizeTurn
<1>2. \A i \in Inputs : inp'[i] = "mailbox" => inp[i] = "mailbox" /\ i \notin steers /\ home'[i] = home[i]
  BY DEF FinalizeTurn
<1>3. ASSUME NEW i \in Inputs, LeftBehind(i)', ~LeftBehind(i) PROVE turn'[home'[i]] = "failed"
  <2>1. inp[i] = "mailbox" /\ i \notin steers /\ home'[i] = home[i] /\ home[i] \in Inputs
    BY <1>2, <1>3 DEF LeftBehind, TypeOK
  <2>2. home[i] = t /\ turn'[home'[i]] = status
    BY <1>1, <1>3, <2>1 DEF LeftBehind, Terminal
  <2>3. i \in Mailbox(t)
    BY <2>1, <2>2 DEF Mailbox
  <2> QED  BY <2>1, <2>2, <2>3 DEF Terminal
<1>4. SteeredTurnGoesOn'
  <2> SUFFICES ASSUME ~GateFree PROVE turn'[gate.turn] \notin {"completed", "interrupted"}
    BY DEF SteeredTurnGoesOn, GateFree
  <2>1. gate.turn \in Inputs /\ status = "failed" /\ turn[gate.turn] \notin {"completed", "interrupted"}
    BY DEF TypeOK, GateFree, SteeredTurnGoesOn, Terminal
  <2> QED  BY <1>1, <2>1
<1> QED  BY <1>3, <1>4 DEF KeptOrFailed

LEMMA NextKept ==
  ASSUME Calm, TypeOK, ThreadInv, SteeredTurnGoesOn, [Next]_vars
  PROVE  SteeredTurnGoesOn' /\ KeptOrFailed
<1> USE DEF durable, volatile
<1>0. ~EagerClient /\ ~EarlyAnswer /\ ~UntrustedHooks /\ ~SlowRelease /\ RunsInv
  BY DEF Calm, ThreadInv, RunsInv
<1>1. ASSUME NEW t \in Inputs, NEW T, T \in [Inputs -> TurnStatus],
             \A u \in Inputs : T[u] \in Terminal => T[u] = turn[u],
             NEW E, NEW H, NEW S, Execute(t, T, E, H, S), UNCHANGED <<home, gate>>
      PROVE  SteeredTurnGoesOn' /\ KeptOrFailed
  <2>1. \A i \in Inputs : inp'[i] = "mailbox" => inp[i] = "mailbox"
    BY <1>1 DEF Execute, TypeOK
  <2>2. \A u \in Inputs : turn'[u] \in Terminal => turn'[u] = turn[u]
    BY <1>1 DEF Execute, Terminal
  <2> QED  BY <1>1, <2>1, <2>2, KeptQuietly
<1>2. ASSUME NEW i \in Inputs, LaunchNewTurn(i) \/ EnqueueFollowUp(i) \/ RemoveQueue(i)
      PROVE  SteeredTurnGoesOn' /\ KeptOrFailed
  <2>1. \A u \in Inputs : turn'[u] \in Terminal => turn'[u] = turn[u]
    BY <1>2 DEF LaunchNewTurn, EnqueueFollowUp, RemoveQueue, TypeOK, Terminal
  <2>2. \A j \in Inputs : inp'[j] = "mailbox" => inp[j] = "mailbox"
    BY <1>2 DEF LaunchNewTurn, EnqueueFollowUp, RemoveQueue, TypeOK
  <2>3. UNCHANGED <<home, gate>>
    BY <1>2 DEF LaunchNewTurn, EnqueueFollowUp, RemoveQueue
  <2> QED  BY <2>1, <2>2, <2>3, KeptQuietly
<1>3. ASSUME NEW i \in Inputs, NEW t \in Inputs, SteerTurn(i, t), ~Releasing
      PROVE  SteeredTurnGoesOn' /\ KeptOrFailed
  <2>1. turn[t] \in Started
    <3>1. CASE handle.turn = 0
      BY <1>3, <3>1 DEF SteerTurn, IsActiveTurn, ActiveTurns
    <3>2. CASE handle.turn # 0
      <4>1. PICK r \in Runs : ~At(r, "idle")
        BY <1>0, <3>2 DEF RunsInv, EntryHasRun
      <4>2. Working(r)
        BY <1>0, <1>3, <4>1 DEF Releasing, Working, At
      <4> QED  BY <1>0, <1>3, <3>2, <4>2 DEF RunsInv, WorkingOwnsTurn, SteerTurn
    <3> QED  BY <3>1, <3>2
  <2>2. gate' = [turn |-> t, input |-> i] /\ UNCHANGED <<turn, inp, home>>
    BY <1>3 DEF SteerTurn
  <2> QED  BY <2>1, <2>2 DEF SteeredTurnGoesOn, KeptOrFailed, LeftBehind, Started
<1>4. ASSUME SteerAppended PROVE SteeredTurnGoesOn' /\ KeptOrFailed
  <2>1. /\ gate.turn \in Inputs /\ gate.input \in Inputs
        /\ turn[gate.turn] \notin {"completed", "interrupted"}
    BY <1>4 DEF SteerAppended, TypeOK, GateFree, SteeredTurnGoesOn
  <2>2. gate' = FreeGate /\ UNCHANGED turn
    BY <1>4 DEF SteerAppended
  <2>3. /\ home'[gate.input] = gate.turn
        /\ \A i \in Inputs \ {gate.input} : home'[i] = home[i] /\ inp'[i] = inp[i]
    BY <1>4, <2>1 DEF SteerAppended, TypeOK
  <2> QED  BY <2>1, <2>2, <2>3 DEF SteeredTurnGoesOn, GateFree, KeptOrFailed, LeftBehind, Terminal
<1>5. ASSUME NEW r \in Runs, \/ DisposePrevious(r) \/ RuntimeReady(r) \/ HarnessStart(r) \/ HarnessDone(r)
                              \/ ConsumeSteer(r) \/ PausedReturn(r) \/ RunThrows(r) \/ AskUser(r)
      PROVE  SteeredTurnGoesOn' /\ KeptOrFailed
  <2>1. \A u \in Inputs : turn'[u] \in Terminal => turn'[u] = turn[u]
    BY <1>5 DEF DisposePrevious, RuntimeReady, HarnessStart, HarnessDone, ConsumeSteer, AtWork,
       PausedReturn, RunThrows, AskUser, TypeOK, Terminal
  <2>2. \A j \in Inputs : inp'[j] = "mailbox" => inp[j] = "mailbox"
    BY <1>5 DEF DisposePrevious, RuntimeReady, HarnessStart, HarnessDone, ConsumeSteer, AtWork,
       PausedReturn, RunThrows, AskUser, TypeOK
  <2>3. UNCHANGED <<home, gate>>
    BY <1>5 DEF DisposePrevious, RuntimeReady, HarnessStart, HarnessDone, ConsumeSteer, AtWork,
       PausedReturn, RunThrows, AskUser
  <2> QED  BY <2>1, <2>2, <2>3, KeptQuietly
<1>6. ASSUME NEW r \in Runs, CompleteTurn(r) \/ InterruptTurn(r) \/ FailTurn(r)
      PROVE  SteeredTurnGoesOn' /\ KeptOrFailed
  <2> DEFINE t == runs[r].turn
  <2>1. Working(r)
    BY <1>6 DEF CompleteTurn, InterruptTurn, FailTurn, At, Working
  <2>2. t \in Inputs /\ turn[t] \in Started /\ turn[t] \notin Terminal /\ handle.turn = t
    BY <2>1, StatusesDiffer DEF ThreadInv, WorkingOwnsTurn, Working, TypeOK, RunsOK
  <2>3. ASSUME NEW status \in Terminal, NEW reason, Terminalize(r, status, reason),
               status # "failed" => GateFree, status = "completed" => Mailbox(t) = {}
        PROVE  SteeredTurnGoesOn' /\ KeptOrFailed
    <3>1. FinalizeTurn(t, status, reason) /\ UNCHANGED gate
      BY <2>2, <2>3 DEF Terminalize
    <3> QED  BY <2>2, <2>3, <3>1, FinalizeKeeps
  <2>4. ASSUME CompleteTurn(r) PROVE SteeredTurnGoesOn' /\ KeptOrFailed
    <3>1. CASE Mailbox(t) = {}
      BY <2>2, <2>3, <2>4, <3>1 DEF CompleteTurn, Terminal
    <3>2. CASE Mailbox(t) # {}
      <4>1. \A u \in Inputs : turn'[u] \in Terminal => turn'[u] = turn[u]
        BY <2>2, <2>4, <3>2 DEF CompleteTurn, TypeOK, Terminal
      <4>2. UNCHANGED <<inp, home, gate>>
        BY <2>2, <2>4, <3>2 DEF CompleteTurn
      <4> QED  BY <4>1, <4>2, KeptQuietly
    <3> QED  BY <3>1, <3>2
  <2>5. ASSUME InterruptTurn(r) PROVE SteeredTurnGoesOn' /\ KeptOrFailed
    <3>1. GateFree /\ (Terminalize(r, "interrupted", "interrupted") \/ UNCHANGED <<turn, inp, home, gate>>)
      BY <2>5 DEF InterruptTurn
    <3>2. CASE Terminalize(r, "interrupted", "interrupted")
      BY <2>3, <3>1, <3>2 DEF Terminal
    <3>3. CASE UNCHANGED <<turn, inp, home, gate>>
      BY <3>3, KeptQuietly
    <3> QED  BY <3>1, <3>2, <3>3
  <2>6. ASSUME FailTurn(r) PROVE SteeredTurnGoesOn' /\ KeptOrFailed
    BY <2>3, <2>6 DEF FailTurn, Terminal
  <2> QED  BY <1>6, <2>4, <2>5, <2>6
<1>7. ASSUME NEW r \in Runs, RunEnds(r) PROVE SteeredTurnGoesOn' /\ KeptOrFailed
  <2>1. turn \in [Inputs -> TurnStatus] /\ UNCHANGED <<home, gate>>
    BY <1>7 DEF RunEnds, TypeOK
  <2>2. CASE UNCHANGED <<turn, inp>>
    BY <2>1, <2>2, KeptQuietly
  <2> QED  BY <1>1, <1>7, <2>1, <2>2 DEF RunEnds
<1>8. ASSUME ResumeQueue PROVE SteeredTurnGoesOn' /\ KeptOrFailed
  <2>1. turn \in [Inputs -> TurnStatus] /\ UNCHANGED <<home, gate>>
    BY <1>8 DEF ResumeQueue, TypeOK
  <2>2. CASE UNCHANGED <<turn, inp>>
    BY <2>1, <2>2, KeptQuietly
  <2> QED  BY <1>1, <1>8, <2>1, <2>2 DEF ResumeQueue
<1>9. ASSUME NEW t \in Inputs, AnswerInteraction(t) PROVE SteeredTurnGoesOn' /\ KeptOrFailed
  <2> DEFINE T == [turn EXCEPT ![t] = "queued"]
  <2>1. T \in [Inputs -> TurnStatus] /\ \A u \in Inputs : T[u] \in Terminal => T[u] = turn[u]
    BY DEF TypeOK, TurnStatus, Terminal
  <2>2. UNCHANGED <<home, gate>>
    BY <1>9 DEF AnswerInteraction
  <2>3. (turn' = T /\ UNCHANGED inp) \/ Execute(t, T, runs, handle, stop)
    BY <1>9 DEF AnswerInteraction
  <2> HIDE DEF T
  <2>4. CASE turn' = T /\ UNCHANGED inp
    BY <2>1, <2>2, <2>4, KeptQuietly
  <2> QED  BY <1>1, <2>1, <2>2, <2>3, <2>4
<1>10. ASSUME NEW s \in Stops, NEW t \in Inputs, StopTurn(s, t) PROVE SteeredTurnGoesOn' /\ KeptOrFailed
  <2>1. GateFree /\ UNCHANGED gate
    BY <1>10 DEF StopTurn
  <2>2. CASE FinalizeTurn(t, "interrupted", "interrupted")
    BY <2>1, <2>2, FinalizeKeeps DEF Terminal
  <2>3. CASE UNCHANGED <<turn, inp, home>>
    BY <2>1, <2>3, KeptQuietly
  <2> QED  BY <1>10, <2>2, <2>3 DEF StopTurn
<1>11. ASSUME NEW keep \in SUBSET Inputs, NEW P, Restart(keep, P) PROVE SteeredTurnGoesOn' /\ KeptOrFailed
  <2>0. crashes' = crashes + 1 /\ gate' = FreeGate
    BY <1>11 DEF Restart
  <2>1. crashes' # crashes /\ gate' = FreeGate
    BY <2>0 DEF TypeOK
  <2> QED  BY <2>1 DEF SteeredTurnGoesOn, GateFree, KeptOrFailed
<1>12. ASSUME (\E s \in Stops : StopAborts(s) \/ StopReturns(s)) \/ UNCHANGED vars
       PROVE  SteeredTurnGoesOn' /\ KeptOrFailed
  <2>1. UNCHANGED <<turn, inp, home, gate>>
    BY <1>0, <1>12, TrustedHooks DEF StopAborts, StopReturns, vars
  <2> QED  BY <2>1, KeptQuietly
<1> QED  BY <1>0, <1>2, <1>3, <1>4, <1>5, <1>6, <1>7, <1>8, <1>9, <1>10, <1>11, <1>12, TrustedHooks
         DEF Next, Step, Admission, QueueRPC, RunStep, ResumeTurn

\* An accepted steer is kept until it is consumed: a stop makes it a follow-up and a
\* completion lets its turn go on; only a failure or a crash leaves it behind.
THEOREM SteersKept == Calm => (Spec => SteersAreKept)
<1> SUFFICES ASSUME Calm PROVE Spec => SteersAreKept
  OBVIOUS
<1>1. Init => SteeredTurnGoesOn
  BY DEF Init, SteeredTurnGoesOn, GateFree
<1>2. TypeOK /\ ThreadInv /\ SteeredTurnGoesOn /\ [Next]_vars => SteeredTurnGoesOn'
  BY NextKept
<1>3. TypeOK /\ ThreadInv /\ SteeredTurnGoesOn /\ [Next]_vars
      => [\A i \in Inputs : LeftBehind(i)' /\ ~LeftBehind(i)
            => turn'[home'[i]] = "failed" \/ crashes' # crashes]_vars
  BY NextKept DEF KeptOrFailed
<1>4. Spec => []ThreadInv
  BY ThreadInvariant
<1> QED  BY <1>1, <1>2, <1>3, <1>4, TypeCorrect, PTL DEF Spec, SteersAreKept
=============================================================================
