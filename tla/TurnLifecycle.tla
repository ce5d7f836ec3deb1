------------------------------ MODULE TurnLifecycle ------------------------------
(*****************************************************************************)
(* The main turns of one thread: admission (startTurn, enqueueFollowUp,      *)
(* steerTurn), the durable queue, the executions of executeTurn, the handle  *)
(* and the gate of TurnCoordinator, stop, interaction answers, queue resume  *)
(* and the recovery at start-up.  session/ThreadService.ts,                  *)
(* session/TurnCoordinator.ts, session/TurnRunner.ts and the turn            *)
(* transactions of storage/repositories/execution-repository.ts.             *)
(*                                                                           *)
(* Inputs are numbered in the order they are admitted (created_at).  An      *)
(* input admitted with startTurn or enqueueFollowUp is the first input of    *)
(* the turn of the same number; a steer belongs to the turn home[i] and only *)
(* becomes a turn of its own when an interruption requeues it.  A turn and   *)
(* its root agent change status in the same transactions, so turn[t] stands  *)
(* for both.                                                                  *)
(*                                                                           *)
(* An await on I/O is a point where other steps may happen.  Publishing an   *)
(* event (EventHub.publish) calls the listeners synchronously, so the code   *)
(* between two I/O awaits, publications included, is one action.             *)
(*****************************************************************************)
EXTENDS Naturals, FiniteSets

CONSTANTS N,           \* bound: inputs admitted over the life of the thread
          Runs,        \* bound: activations of executeTurn alive at once
          Stops,       \* turn/interrupt requests, each made at most once
          MaxAsks,     \* bound: pauses for an approval or a question
          MaxCrashes,  \* bound: crashes of the agent process
          EarlyAnswer, \* may clients answer an interaction before the run that
                       \* asked has left, or after its turn has gone on without it
          EagerClient, \* may clients resume a queue that is not paused, and send
                       \* turn/resume (the desktop client does neither)
          UntrustedHooks, \* has the project hooks the user has neither allowed
                       \* nor blocked
          SlowRelease  \* may other steps happen while the finally block of a run
                       \* awaits mcpLease.release(), which closes the servers of
                       \* a retired configuration

ASSUME BoundsAssumption == /\ N \in Nat /\ MaxAsks \in Nat /\ MaxCrashes \in Nat
                           /\ EarlyAnswer \in BOOLEAN /\ EagerClient \in BOOLEAN
                           /\ UntrustedHooks \in BOOLEAN /\ SlowRelease \in BOOLEAN

Inputs     == 1..N
Terminal   == {"completed", "failed", "interrupted"}
Started    == {"running", "waiting"}
TurnStatus == {"none", "queued", "cancelled"} \cup Started \cup Terminal
InputStatus == {"none", "queued", "active", "mailbox", "consumed", "completed", "cancelled"}
PauseReason == {"none", "interrupted", "turn_failed"}
Promise     == {"none", "pending", "lost", "gone"} \cup Terminal
StopPC      == {"idle", "abort", "await", "done"}

VARIABLES
  turn,     \* turns.status
  inp,      \* inputs.status
  home,     \* inputs.turn_id
  pos,      \* turns.queue_position
  begun,    \* turns with started_at set
  claims,   \* turns with an answered interaction, which recovery may requeue
  pend,     \* how many approvals and questions of the turn are pending
  trust,    \* the hook trust request: decided or not, and the turns that wait for it
  pause,    \* threads.queue_pause_reason
  handle,   \* the TurnCoordinator entry of the thread
  gate,     \* the steer that holds TurnCoordinator.exclusive
  runs,     \* activations of executeTurn
  harness,  \* the run whose runtime is in PiOrchestratorAdapter.active
  stop,     \* turn/interrupt requests
  asks, crashes

durable  == <<turn, inp, home, pos, begun, claims, pend, trust, pause>>
volatile == <<handle, gate, runs, harness, stop>>
vars     == <<turn, inp, home, pos, begun, claims, pend, trust, pause,
              handle, gate, runs, harness, stop, asks, crashes>>

-----------------------------------------------------------------------------
NoHandle == [turn |-> 0, ready |-> FALSE, accepting |-> FALSE,
             aborted |-> FALSE, sent |-> {}]
NewHandle(t) == [NoHandle EXCEPT !.turn = t, !.accepting = TRUE]

IdleRun == [pc |-> "idle", turn |-> 0, held |-> FALSE, aborted |-> FALSE,
            got |-> {}, out |-> "none"]
NewRun(t, a) == [IdleRun EXCEPT !.pc = "prep", !.turn = t, !.held = TRUE, !.aborted = a]
RunPC == {"idle", "prep", "build", "ready", "live", "pausing", "after", "thrown", "ending"}

\* The gate is only held across I/O by a steer whose attachments are bound.
FreeGate == [turn |-> 0, input |-> 0]
GateFree == gate = FreeGate

\* No decision on the project's hooks, and no turn waits for one.
NoTrust   == [decided |-> FALSE, waiters |-> {}]
Untrusted == UntrustedHooks /\ ~trust.decided
WaitsForTrust(t) == Untrusted /\ t \in trust.waiters

IdleStop == [pc |-> "idle", turn |-> 0, prom |-> "none"]

-----------------------------------------------------------------------------
(* Queries of the repositories.                                              *)
Queued         == {t \in Inputs : turn[t] = "queued"}

\* Mutant: a waiting turn is forgotten.
MutActiveTurns == {t \in Inputs : turn[t] = "running"}
ActiveTurns    == {t \in Inputs : turn[t] \in Started}
IsActiveTurn(t) == t \in ActiveTurns /\ \A u \in ActiveTurns : u <= t
\* Mutant: a steer that was sent to a harness counts as consumed.
MutMailbox(t) == {i \in Inputs : home[i] = t /\ inp[i] = "mailbox" /\ i \notin handle.sent}
Mailbox(t)     == {i \in Inputs : home[i] = t /\ inp[i] = "mailbox"}

\* The order of nextQueuedTurn among the turns Q: queue_position, created_at.
FirstOf(t, Q) == /\ t \in Q
                 /\ \A u \in Q : pos[t] < pos[u] \/ (pos[t] = pos[u] /\ t <= u)

\* Mutant: the pause reason is not looked at.
MutNextQueuedTurn(t) == FirstOf(t, Queued)
NextQueuedTurn(t) == pause = "none" /\ FirstOf(t, Queued)

\* COALESCE(MAX(queue_position), 0) + 1 over the queued turns.
TailPositions == IF Queued = {} THEN {1}
                 ELSE {pos[u] + 1 : u \in {w \in Queued : \A v \in Queued : pos[v] <= pos[w]}}

\* What keeps startTurn and enqueueFollowUp from launching a new turn at once.
\* Mutants: started turns are not looked at; nothing is ever launched at once.
MutThreadBusy1 == Queued # {}
MutThreadBusy2 == TRUE
ThreadBusy == handle.turn # 0 \/ ActiveTurns # {} \/ Queued # {}

NextInput(i) == inp[i] = "none" /\ \A j \in Inputs : j < i => inp[j] # "none"

-----------------------------------------------------------------------------
(* The coordinator: what dropping the entry does to the runs that share it   *)
(* and to the callers of stop() that wait for its terminal promise.          *)
Detached(E)  == [r \in Runs |-> [E[r] EXCEPT !.held = FALSE]]

\* Mutant: every caller is told "interrupted".
MutSettle(S, v) == [s \in Stops |-> IF S[s].prom # "pending" THEN S[s]
                      ELSE [S[s] EXCEPT !.prom = IF v = "lost" THEN v ELSE "interrupted"]]
Settle(S, v) == [s \in Stops |-> IF S[s].prom = "pending"
                                 THEN [S[s] EXCEPT !.prom = v] ELSE S[s]]

\* release and finish act only when the entry belongs to the turn; release
\* drops the entry without resolving its promise (v = "lost").
HandleWithout(t)   == IF handle.turn = t THEN NoHandle ELSE handle
RunsWithout(t)     == IF handle.turn = t THEN Detached(runs) ELSE runs

\* Mutants: a missing status is passed on; the promise is never resolved.
MutStopsSettled1(t, v) == IF handle.turn = t
                          THEN Settle(stop, IF v = "lost" THEN "none" ELSE v) ELSE stop
MutStopsSettled2(t, v) == stop
StopsSettled(t, v) == IF handle.turn = t THEN Settle(stop, v) ELSE stop

\* executeTurn up to its first await, from turns T, runs E, entry H and stop
\* requests S: reserve the entry or give up, claim the queued turn or release
\* the entry, and leave a run behind.
Execute(t, T, E, H, S) ==
  \/ /\ H.turn \notin {0, t}
     /\ turn' = T /\ runs' = E /\ handle' = H /\ stop' = S
     /\ UNCHANGED <<inp, begun>>
  \/ /\ H.turn \in {0, t} /\ T[t] # "queued"
     /\ turn' = T /\ runs' = Detached(E) /\ handle' = NoHandle
     /\ stop' = Settle(S, "lost")
     /\ UNCHANGED <<inp, begun>>
  \/ /\ H.turn \in {0, t} /\ T[t] = "queued"
     /\ turn' = [T EXCEPT ![t] = "running"]
     /\ inp' = [inp EXCEPT ![t] = IF @ = "queued" THEN "active" ELSE @]
     /\ begun' = begun \cup {t}
     /\ handle' = IF H.turn = t THEN H ELSE NewHandle(t)
     /\ \E r \in Runs : /\ E[r].pc = "idle"
                        /\ runs' = [E EXCEPT ![r] = NewRun(t, H.turn = t /\ H.aborted)]
     /\ stop' = S

\* finalizeTurn: the terminal status; on an interruption the interactions are
\* cancelled and the unconsumed steers become turns of their own at the head of
\* the queue; the queue is paused when a reason is given and something is queued.
FinalizeTurn(t, status, reason) ==
  LET steers == IF status = "interrupted" THEN Mailbox(t) ELSE {}
      shift  == Cardinality(steers)
      T == [u \in Inputs |-> IF u \in steers THEN "queued"
                             ELSE IF u = t THEN status ELSE turn[u]]
  IN /\ turn' = T
     /\ pos' = [u \in Inputs |->
                  IF u \in steers THEN Cardinality({i \in steers : i <= u})
                  ELSE IF u \in Queued THEN pos[u] + shift ELSE pos[u]]
     /\ home' = [i \in Inputs |-> IF i \in steers THEN i ELSE home[i]]
     /\ pend' = IF status = "interrupted" THEN [pend EXCEPT ![t] = 0] ELSE pend
     /\ inp' = [i \in Inputs |-> IF i \in steers THEN "queued"
                                 ELSE IF i = t /\ inp[i] = "active" THEN "completed"
                                 ELSE inp[i]]
     /\ pause' = IF reason # "none" /\ \E u \in Inputs : T[u] = "queued"
                 THEN reason ELSE pause

-----------------------------------------------------------------------------
Init ==
  /\ turn = [t \in Inputs |-> "none"] /\ inp = [i \in Inputs |-> "none"]
  /\ home = [i \in Inputs |-> i] /\ pos = [t \in Inputs |-> 0]
  /\ begun = {} /\ claims = {} /\ pend = [t \in Inputs |-> 0] /\ pause = "none"
  /\ trust = NoTrust
  /\ handle = NoHandle /\ gate = FreeGate
  /\ runs = [r \in Runs |-> IdleRun] /\ harness = {}
  /\ stop = [s \in Stops |-> IdleStop]
  /\ asks = 0 /\ crashes = 0

At(r, pc) == runs[r].pc = pc
\* A registered harness that works: on the model's answer or, after a call that
\* waits for the user, on the rest of the batch and what the model does next.
AtWork(r) == runs[r].pc \in {"live", "pausing"}
Goto(r, pc) == runs' = [runs EXCEPT ![r] = [@ EXCEPT !.pc = pc]]

(* ------------------------------ admission ------------------------------- *)

\* startTurn on an idle thread, and enqueueFollowUp when it finds the thread idle
\* and its queue not paused: create the turn and launch it.
LaunchNewTurn(i) ==
  /\ GateFree /\ NextInput(i)
  /\ ~ThreadBusy
  /\ pos' = [pos EXCEPT ![i] = 1]
  /\ turn' = [turn EXCEPT ![i] = "running"]
  /\ inp' = [inp EXCEPT ![i] = "active"]
  /\ begun' = begun \cup {i}
  /\ handle' = NewHandle(i)
  /\ \E r \in Runs : At(r, "idle") /\ runs' = [runs EXCEPT ![r] = NewRun(i, FALSE)]
  /\ UNCHANGED <<home, claims, pend, trust, pause, gate, harness, stop, asks, crashes>>

\* enqueueFollowUp when the thread is busy, has queued turns or is paused.
EnqueueFollowUp(i) ==
  /\ GateFree /\ NextInput(i)
  /\ ThreadBusy \/ pause # "none"
  /\ turn' = [turn EXCEPT ![i] = "queued"]
  /\ inp' = [inp EXCEPT ![i] = "queued"]
  /\ \E p \in TailPositions : pos' = [pos EXCEPT ![i] = p]
  /\ UNCHANGED <<home, begun, claims, pend, trust, pause, volatile, asks, crashes>>

\* steerTurn up to the binding of the attachments.
SteerTurn(i, t) ==
  /\ GateFree /\ NextInput(i)
  /\ IF handle.turn # 0 THEN handle.turn = t /\ handle.accepting ELSE IsActiveTurn(t)
  /\ gate' = [turn |-> t, input |-> i]
  /\ UNCHANGED <<durable, handle, runs, harness, stop, asks, crashes>>

\* appendGuide, and deliverPendingSteers when the runtime is ready: everything
\* in the mailbox that this entry has not delivered goes to the live harness.
SteerAppended ==
  LET t == gate.turn
      i == gate.input
      open == {r \in harness : AtWork(r)}
      fresh == IF handle.turn = t /\ handle.ready /\ handle.accepting /\ open # {}
               THEN (Mailbox(t) \cup {i}) \ handle.sent ELSE {}
  IN /\ ~GateFree /\ gate' = FreeGate
     /\ inp' = [inp EXCEPT ![i] = "mailbox"]
     /\ home' = [home EXCEPT ![i] = t]
     /\ handle' = [handle EXCEPT !.sent = @ \cup fresh]
     /\ runs' = [r \in Runs |-> IF r \in open
                                THEN [runs[r] EXCEPT !.got = @ \cup fresh] ELSE runs[r]]
     /\ UNCHANGED <<turn, pos, begun, claims, pend, trust, pause, harness, stop, asks, crashes>>

(* ----------------------------- the queue RPCs --------------------------- *)

\* removeQueuedInput: only an input that has never been started.
RemoveQueue(i) ==
  /\ inp[i] = "queued" /\ turn[i] = "queued"
  /\ turn' = [turn EXCEPT ![i] = "cancelled"]
  /\ inp' = [inp EXCEPT ![i] = "cancelled"]
  /\ pause' = IF Queued = {i} THEN "none" ELSE pause
  /\ UNCHANGED <<home, pos, begun, claims, pend, trust, volatile, asks, crashes>>

\* Mutant: the reason is cleared and nothing is launched.
MutResumeQueue ==
  /\ pause # "none" /\ pause' = "none"
  /\ UNCHANGED <<turn, inp, home, pos, begun, claims, pend, trust, volatile, asks, crashes>>

\* resumeQueue: clear the reason, and launch the next turn when none is active.
ResumeQueue ==
  /\ pause # "none" \/ EagerClient
  /\ pause' = "none"
  /\ \/ /\ ActiveTurns = {}
        /\ \E t \in Inputs : /\ FirstOf(t, Queued)
                             /\ Execute(t, turn, runs, handle, stop)
     \/ /\ ActiveTurns # {} \/ Queued = {}
        /\ pause # "none"
        /\ UNCHANGED <<turn, inp, begun, handle, runs, stop>>
  /\ UNCHANGED <<home, pos, claims, pend, trust, gate, harness, asks, crashes>>

(* --------------------------- an execution ------------------------------- *)

\* orchestrator.run disposes the runtime left by the previous execution: a
\* harness at work is aborted, and its run throws.
DisposePrevious(r) ==
  /\ At(r, "prep")
  /\ runs' = [q \in Runs |-> IF q = r THEN [runs[q] EXCEPT !.pc = "build"]
                             ELSE IF q \in harness /\ AtWork(q)
                             THEN [runs[q] EXCEPT !.pc = "thrown"] ELSE runs[q]]
  /\ UNCHANGED <<durable, handle, gate, harness, stop, asks, crashes>>

\* The runtime enters the orchestrator's map and onRuntimeReady marks the
\* entry, or throws when the entry is another turn's.  No harness is registered
\* yet, so deliverPendingSteers delivers nothing here.
RuntimeReady(r) ==
  /\ At(r, "build") /\ GateFree
  /\ harness' = {r}
  /\ IF handle.turn = runs[r].turn
     THEN handle' = [handle EXCEPT !.ready = TRUE] /\ Goto(r, "ready")
     ELSE UNCHANGED handle /\ Goto(r, "thrown")
  /\ UNCHANGED <<durable, gate, stop, asks, crashes>>

\* PiAgentRuntime.run: refuse an aborted signal, else register the harness.
HarnessStart(r) ==
  /\ At(r, "ready")
  /\ Goto(r, IF runs[r].aborted THEN "thrown" ELSE "live")
  /\ UNCHANGED <<durable, handle, gate, harness, stop, asks, crashes>>

\* queueConsumed and the save point: the harness takes its oldest steer.
ConsumeSteer(r) ==
  LET mine == runs[r].got \cap Mailbox(runs[r].turn)
  IN /\ AtWork(r)
     /\ \E i \in mine : /\ \A j \in mine : i <= j
                       /\ inp' = [inp EXCEPT ![i] = "consumed"]
     /\ UNCHANGED <<turn, home, pos, begun, claims, pend, trust, pause, volatile, asks, crashes>>

\* A tool call needs an approval or asks a question: the waiting status is
\* written while the run goes on with the other calls of the message and, after
\* an approval, with the model, which may ask again.
AskUser(r) ==
  LET t == runs[r].turn
  IN /\ AtWork(r) /\ asks < MaxAsks
     /\ asks' = asks + 1
     /\ turn' = [turn EXCEPT ![t] = "waiting"]
     /\ pend' = [pend EXCEPT ![t] = @ + 1]
     /\ Goto(r, "pausing")
     /\ UNCHANGED <<inp, home, pos, begun, claims, trust, pause, handle, gate, harness, stop,
                    crashes>>

\* ensureHookTrustRequest: the turn becomes a waiter of the request.
WaitForTrust(t) ==
  /\ Untrusted
  /\ turn' = [turn EXCEPT ![t] = "waiting"]
  /\ trust' = [trust EXCEPT !.waiters = @ \cup {t}]

\* A hook of the project is met before the decision: before the harness runs the
\* run returns, around a tool call only the call fails and the run goes on.
AskTrust(r) ==
  /\ At(r, "prep") \/ AtWork(r)
  /\ WaitForTrust(runs[r].turn)
  /\ Goto(r, IF ~At(r, "prep") THEN runs[r].pc
             ELSE IF runs[r].aborted THEN "thrown" ELSE "ending")
  /\ UNCHANGED <<inp, home, pos, begun, claims, pend, pause, handle, gate, harness, stop,
                 asks, crashes>>

\* Mutant: the signal is not looked at.
MutPausedReturn(r) ==
  /\ At(r, "pausing") /\ Goto(r, "ending")
  /\ UNCHANGED <<durable, handle, gate, harness, stop, asks, crashes>>

\* The paused run returns to executeTurn, unless its signal was aborted first.
PausedReturn(r) ==
  /\ At(r, "pausing")
  /\ Goto(r, IF runs[r].aborted THEN "thrown" ELSE "ending")
  /\ UNCHANGED <<durable, handle, gate, harness, stop, asks, crashes>>

\* The model answers: the result passes the last look at the signal.
HarnessDone(r) ==
  /\ At(r, "live")
  /\ Goto(r, IF runs[r].aborted THEN "thrown" ELSE "after")
  /\ UNCHANGED <<durable, handle, gate, harness, stop, asks, crashes>>

\* Any await of the try block can throw.
RunThrows(r) ==
  /\ runs[r].pc \in {"prep", "build", "ready", "live", "pausing", "after"}
  /\ Goto(r, "thrown")
  /\ UNCHANGED <<durable, handle, gate, harness, stop, asks, crashes>>

\* TurnRunner.terminalize for the turn of run r: a turn that is already terminal
\* only finishes its entry, else its status is written first.
Terminalize(r, status, reason) ==
  LET t   == runs[r].turn
      out == IF turn[t] \in Terminal THEN turn[t] ELSE status
  IN /\ IF turn[t] \in Terminal THEN UNCHANGED <<turn, inp, home, pos, pend, pause>>
        ELSE FinalizeTurn(t, status, reason)
     /\ handle' = HandleWithout(t) /\ stop' = StopsSettled(t, out)
     /\ runs' = [RunsWithout(t) EXCEPT ![r] = [@ EXCEPT !.pc = "ending", !.out = out]]
     /\ UNCHANGED <<begun, claims, trust, gate>>

\* The completion block: close the admission, then continue the same turn for
\* the steers left in its mailbox, or complete it.
CompleteTurn(r) ==
  LET t == runs[r].turn
  IN /\ At(r, "after") /\ GateFree
     /\ \/ /\ handle.turn # t
           /\ Goto(r, "thrown")
           /\ UNCHANGED <<durable, handle, gate, stop>>
        \/ /\ handle.turn = t /\ Mailbox(t) # {}
           /\ handle' = [handle EXCEPT !.accepting = FALSE]
           /\ turn' = [turn EXCEPT ![t] = IF @ = "running" THEN "queued" ELSE @]
           /\ Goto(r, "ending")
           /\ UNCHANGED <<inp, home, pos, begun, claims, pend, trust, pause, gate, stop>>
        \/ /\ handle.turn = t /\ Mailbox(t) = {}
           /\ Terminalize(r, "completed", "none")
     /\ UNCHANGED <<harness, asks, crashes>>

\* The catch block of a run whose signal is aborted.
InterruptTurn(r) ==
  /\ At(r, "thrown") /\ runs[r].aborted /\ GateFree
  /\ IF IsActiveTurn(runs[r].turn)
     THEN Terminalize(r, "interrupted", "interrupted")
     ELSE Goto(r, "ending") /\ UNCHANGED <<durable, handle, gate, stop>>
  /\ UNCHANGED <<harness, asks, crashes>>

\* Mutant: no reason to pause the queue is given.
MutFailTurn(r) ==
  /\ At(r, "thrown") /\ ~runs[r].aborted
  /\ Terminalize(r, "failed", "none")
  /\ UNCHANGED <<harness, asks, crashes>>

\* The catch block of any other failure, outside the gate.
FailTurn(r) ==
  /\ At(r, "thrown") /\ ~runs[r].aborted
  /\ Terminalize(r, "failed", "turn_failed")
  /\ UNCHANGED <<harness, asks, crashes>>

\* The finally block, after the MCP lease: finish or release the entry, and
\* launch the next queued turn when none is active.
RunEnds(r) ==
  LET t == runs[r].turn
      status == IF runs[r].out = "none" THEN "lost" ELSE runs[r].out
      E == [q \in Runs |-> IF q = r THEN IdleRun ELSE RunsWithout(t)[q]]
      H == HandleWithout(t)
      S == StopsSettled(t, status)
  IN /\ At(r, "ending")
     /\ \/ /\ ActiveTurns = {}
           /\ \E u \in Inputs : NextQueuedTurn(u) /\ Execute(u, turn, E, H, S)
        \/ /\ ActiveTurns # {} \/ pause # "none" \/ Queued = {}
           /\ handle' = H /\ runs' = E /\ stop' = S
           /\ UNCHANGED <<turn, inp, begun>>
     /\ harness' = harness \ {r}
     /\ UNCHANGED <<home, pos, claims, pend, trust, pause, gate, asks, crashes>>

\* turn/resume: executeTurn for a turn that need not be waiting for it.
ResumeTurn(t) ==
  /\ EagerClient /\ turn[t] # "none"
  /\ ActiveTurns \subseteq {t}
  /\ Execute(t, turn, runs, handle, stop)
  /\ UNCHANGED <<home, pos, claims, pend, trust, pause, gate, harness, asks, crashes>>

(* -------------------------- answers and stops --------------------------- *)

\* An interaction of the turn is pending, whatever has become of the turn.
\* Mutant: or was cancelled with its turn.
MutAnswerable(t) == handle.turn # t /\ turn[t] \in {"waiting", "interrupted"}
Answerable(t)    == pend[t] > 0 /\ (EarlyAnswer \/ (turn[t] = "waiting" /\ handle.turn # t))

\* An approval or a question is answered: the turn is queued with its old
\* position, then resumeTurn launches it unless another is active.
AnswerInteraction(t) ==
  LET T == [turn EXCEPT ![t] = "queued"]
  IN /\ Answerable(t)
     /\ claims' = claims \cup {t}
     /\ pend' = [pend EXCEPT ![t] = IF @ > 0 THEN @ - 1 ELSE 0]
     /\ IF ActiveTurns \subseteq {t}
        THEN Execute(t, T, runs, handle, stop)
        ELSE turn' = T /\ UNCHANGED <<inp, begun, handle, runs, stop>>
     /\ UNCHANGED <<home, pos, trust, pause, gate, harness, asks, crashes>>

\* The hooks are allowed or blocked: every turn that waits for it is queued, also
\* one that was stopped or finished meanwhile, and one of them is launched unless
\* another turn is active.
AnswerTrust ==
  LET W == trust.waiters
      T == [u \in Inputs |-> IF u \in W THEN "queued" ELSE turn[u]]
  IN /\ Untrusted /\ W # {}
     /\ trust' = [decided |-> TRUE, waiters |-> {}]
     /\ \/ /\ ActiveTurns \subseteq W
           /\ \E t \in W : /\ handle.turn \in W => t = handle.turn
                           /\ Execute(t, T, runs, handle, stop)
        \/ /\ ~(ActiveTurns \subseteq W)
           /\ turn' = T /\ UNCHANGED <<inp, begun, handle, runs, stop>>
     /\ UNCHANGED <<home, pos, claims, pend, pause, gate, harness, asks, crashes>>

\* stop() up to the end of its exclusive section.  With an entry the signal is
\* aborted and the caller waits for the entry's promise; without one the turn
\* is terminalized here.
StopTurn(s, t) ==
  /\ stop[s].pc = "idle" /\ GateFree
  /\ IF handle.turn # 0
     THEN /\ handle.turn = t
          /\ stop' = [stop EXCEPT ![s] = [pc |-> "abort", turn |-> t, prom |-> "pending"]]
          /\ IF ~handle.accepting /\ ActiveTurns = {}
             THEN UNCHANGED <<handle, runs>>
             ELSE /\ handle' = [handle EXCEPT !.accepting = FALSE, !.aborted = TRUE]
                  /\ runs' = [r \in Runs |-> IF runs[r].held
                                 THEN [runs[r] EXCEPT !.aborted = TRUE] ELSE runs[r]]
          /\ UNCHANGED durable
     ELSE /\ IsActiveTurn(t)
          /\ FinalizeTurn(t, "interrupted", "interrupted")
          /\ stop' = [stop EXCEPT ![s] = [pc |-> "abort", turn |-> t, prom |-> "interrupted"]]
          /\ UNCHANGED <<begun, claims, trust, handle, runs>>
  /\ UNCHANGED <<gate, harness, asks, crashes>>

\* orchestrator.abort(threadID): whichever runtime is in the map is aborted.
StopAborts(s) ==
  /\ stop[s].pc = "abort"
  /\ stop' = [stop EXCEPT ![s] = [@ EXCEPT !.pc = "await"]]
  /\ runs' = [r \in Runs |-> IF r \in harness /\ AtWork(r)
                            THEN [runs[r] EXCEPT !.pc = "thrown"] ELSE runs[r]]
  /\ UNCHANGED <<durable, handle, gate, harness, asks, crashes>>

\* Mutant: the terminal promise is not awaited.
MutStopReturns(s) ==
  /\ stop[s].pc = "await"
  /\ stop' = [stop EXCEPT ![s] = [@ EXCEPT !.pc = "done"]]
  /\ UNCHANGED <<durable, handle, gate, runs, harness, asks, crashes>>

\* stop() runs the stop hooks of the turn, which the project may have, and
\* returns the status its promise was resolved with.
StopReturns(s) ==
  /\ stop[s].pc = "await" /\ stop[s].prom \in Terminal
  /\ stop' = [stop EXCEPT ![s] = [@ EXCEPT !.pc = "done"]]
  /\ UNCHANGED <<turn, trust>> \/ WaitForTrust(stop[s].turn)
  /\ UNCHANGED <<inp, home, pos, begun, claims, pend, pause, handle, gate, runs, harness,
                 asks, crashes>>

(* ------------------------------- restart -------------------------------- *)

\* The pending interactions recovery may not cancel: the questions of a turn that
\* waits stay pending with it.  Mutant: whether the turn waits is not looked at.
MutKeptPending(t) == 0
KeptPending(t)    == IF turn[t] = "waiting" /\ ~WaitsForTrust(t) THEN 1 ELSE 0

\* The process dies; recoverInterruptedRuns interrupts the running turns, except
\* those (keep) whose answered interaction is safe to resume, and pauses the
\* queue; of the interactions still pending (P) the questions of turns that do
\* not wait for them are cancelled, the approvals are not; resumeQueuedTurns then
\* launches the first queued turn.
Restart(keep, P) ==
  LET running == {t \in Inputs : turn[t] = "running"}
      T == [t \in Inputs |-> IF t \in keep THEN "queued"
                             ELSE IF t \in running THEN "interrupted" ELSE turn[t]]
      Q == {t \in Inputs : T[t] = "queued"}
      paused == IF Q # {} /\ running # keep THEN "interrupted" ELSE pause
      E == [r \in Runs |-> IdleRun]
      S == [s \in Stops |-> IF stop[s].pc \in {"idle", "done"} THEN stop[s]
                            ELSE [stop[s] EXCEPT !.pc = "done", !.prom = "gone"]]
  IN /\ crashes < MaxCrashes /\ crashes' = crashes + 1
     /\ keep \subseteq running \cap claims
     /\ \A t \in Inputs : P[t] \in KeptPending(t)..pend[t]
     /\ pend' = P
     /\ pause' = paused /\ gate' = FreeGate /\ harness' = {}
     /\ \/ /\ paused = "none" /\ \A t \in Inputs : T[t] \notin Started
           /\ \E t \in Inputs : FirstOf(t, Q) /\ Execute(t, T, E, NoHandle, S)
        \/ /\ paused # "none" \/ Q = {} \/ \E t \in Inputs : T[t] \in Started
           /\ turn' = T /\ handle' = NoHandle /\ runs' = E /\ stop' = S
           /\ UNCHANGED <<inp, begun>>
     /\ UNCHANGED <<home, pos, claims, trust, asks>>

-----------------------------------------------------------------------------
Admission == \E i \in Inputs : \/ LaunchNewTurn(i) \/ EnqueueFollowUp(i)
                              \/ \E t \in Inputs : SteerTurn(i, t)
QueueRPC  == ResumeQueue \/ \E i \in Inputs : RemoveQueue(i) \/ ResumeTurn(i)
RunStep(r) == \/ DisposePrevious(r) \/ RuntimeReady(r) \/ HarnessStart(r)
              \/ ConsumeSteer(r) \/ HarnessDone(r) \/ PausedReturn(r)
              \/ CompleteTurn(r) \/ InterruptTurn(r) \/ FailTurn(r)

\* While a run releases its MCP lease nothing happens but its end, the rest of a
\* stop request and the death of the process, unless the release is slow.
Releasing == ~SlowRelease /\ \E r \in Runs : At(r, "ending")

Step ==
  \/ Admission \/ SteerAppended \/ QueueRPC
  \/ \E r \in Runs : RunStep(r) \/ AskUser(r) \/ AskTrust(r) \/ RunThrows(r)
  \/ AnswerTrust \/ \E t \in Inputs : AnswerInteraction(t)
  \/ \E s \in Stops, t \in Inputs : StopTurn(s, t)

Next == \/ ~Releasing /\ Step
        \/ \E r \in Runs : RunEnds(r)
        \/ \E s \in Stops : StopAborts(s) \/ StopReturns(s)
        \/ \E keep \in SUBSET Inputs, P \in [Inputs -> 0..MaxAsks] : Restart(keep, P)

Spec == Init /\ [][Next]_vars

\* A run goes on to its end (every model and tool call has a time limit), the
\* holder of the gate lets it go, and a stop request is carried through.  What
\* users and crashes do is not assumed.
Fairness == /\ WF_vars(~Releasing /\ SteerAppended)
            /\ \A r \in Runs : /\ WF_vars(~Releasing /\ RunStep(r))
                               /\ WF_vars(RunEnds(r))
            /\ \A s \in Stops : WF_vars(StopAborts(s)) /\ WF_vars(StopReturns(s))

FairSpec == Spec /\ Fairness

-----------------------------------------------------------------------------
(* Properties.                                                               *)

HandleType == [turn : 0..N, ready : BOOLEAN, accepting : BOOLEAN,
               aborted : BOOLEAN, sent : SUBSET Inputs]
RunType    == [pc : RunPC, turn : 0..N, held : BOOLEAN, aborted : BOOLEAN,
               got : SUBSET Inputs, out : {"none"} \cup Terminal]
TrustType  == [decided : BOOLEAN, waiters : SUBSET Inputs]
StopType   == [pc : StopPC, turn : 0..N, prom : Promise]

RunsOK(E)  == /\ E \in [Runs -> RunType]
              /\ \A r \in Runs : E[r].pc # "idle" => E[r].turn \in Inputs
StopsOK(S) == /\ S \in [Stops -> StopType]
              /\ \A s \in Stops : S[s].pc # "idle" => S[s].turn \in Inputs /\ S[s].prom # "none"

\* Every variable has its type; a run that is not idle executes a turn, and a
\* stop request that was made names a turn and has a promise to wait for.
TypeOK ==
  /\ turn \in [Inputs -> TurnStatus] /\ inp \in [Inputs -> InputStatus]
  /\ home \in [Inputs -> Inputs] /\ pos \in [Inputs -> Nat]
  /\ begun \subseteq Inputs /\ claims \subseteq Inputs /\ pause \in PauseReason
  /\ pend \in [Inputs -> Nat]
  /\ trust \in TrustType
  /\ handle \in HandleType
  /\ gate \in [turn : 0..N, input : 0..N]
  /\ gate = FreeGate \/ (gate.turn \in Inputs /\ gate.input \in Inputs)
  /\ RunsOK(runs) /\ harness \subseteq Runs /\ StopsOK(stop)
  /\ asks \in Nat /\ crashes \in Nat

\* One thread executes serially: the database never shows two turns of the
\* thread as started, whatever launches overlap (executeTurn, resumeQueue,
\* answers, startTurn, recovery).
OneActive == \A t, u \in Inputs : turn[t] \in Started /\ turn[u] \in Started => t = u

\* Repeated wakes are coalesced: no two activations of executeTurn do the work
\* of a turn at the same time.
Executing(r) == runs[r].pc \notin {"idle", "pausing", "ending"}
Serial == \A r, q \in Runs : Executing(r) /\ Executing(q) => r = q

\* The transition to a terminal state is one-way (TurnRunner.terminalize): no
\* late step of a run, an answer or recovery takes a finished turn back.
TerminalFinal ==
  [][\A t \in Inputs : turn[t] \in Terminal \cup {"cancelled"} => turn'[t] = turn[t]]_vars

\* stop() reports the status that the database has for the turn, also when the
\* run completed or failed while the stop was on its way.
StopTellsTheTruth ==
  \A s \in Stops : stop[s].prom \in Terminal => turn[stop[s].turn] = stop[s].prom

\* When stop() has returned, nothing executes the turn any more: it waited for
\* the real terminal state.
StoppedIsStill ==
  \A s \in Stops : stop[s].pc = "done" /\ stop[s].prom # "gone" =>
    \A r \in Runs : Executing(r) => runs[r].turn # stop[s].turn

\* The queue is never stranded: queued turns that are not paused have a started
\* turn or a run before them, whose end launches the next one.
NoStrandedQueue ==
  pause = "none" /\ Queued # {} => \/ \E t \in Inputs : turn[t] \in Started
                                   \/ \E r \in Runs : ~At(r, "idle")

\* When a turn fails or is interrupted with turns queued behind it, the same
\* step pauses the queue.
FailurePausesQueue ==
  [][(\E t \in Inputs : turn[t] \in Started /\ turn'[t] \in {"failed", "interrupted"})
       /\ (\E u \in Inputs : turn'[u] = "queued")
     => pause' # "none"]_vars

\* While the queue is paused no queued follow-up is started, however the runs
\* of the thread end; only resumeQueue, which clears the reason, starts one.
PausedQueueHolds ==
  [][\A t \in begun' \ begun : turn[t] = "queued" /\ pause # "none" => pause' = "none"]_vars

\* A turn that waits for the user can be answered: whatever answers, stops and
\* restarts overlap, no turn is left waiting with nothing pending, which would
\* block the thread for good.
Asked(t) == pend[t] > 0 \/ WaitsForTrust(t)
WaitingIsAnswerable == \A t \in Inputs : turn[t] = "waiting" => Asked(t)

\* A caller of stop() loses its promise only because the turn goes on for the
\* steers in its mailbox.
LostOnlyToSteers ==
  [][\A s \in Stops : stop[s].prom = "pending" /\ stop'[s].prom = "lost"
       => Mailbox(stop[s].turn) # {}]_vars

\* An accepted steer is kept until it is consumed: only a failure of its turn or
\* a crash leaves it in the mailbox of a finished turn, which nothing reads again.
\* A stop makes it a follow-up, and a completion lets the turn go on for it, also
\* when it was sent to a harness that ended without taking it.
LeftBehind(i) == inp[i] = "mailbox" /\ turn[home[i]] \in Terminal
SteersAreKept ==
  [][\A i \in Inputs : LeftBehind(i)' /\ ~LeftBehind(i)
       => turn'[home'[i]] = "failed" \/ crashes' # crashes]_vars

\* turn/interrupt waits for the terminal state of its turn, and gets it.
StopIsAnswered == \A s \in Stops : stop[s].pc = "abort" ~> stop[s].pc = "done"

\* The same, but for the requests whose promise was lost.
StopIsAnsweredOrLost ==
  \A s \in Stops : stop[s].pc = "abort" ~> stop[s].pc = "done" \/ stop[s].prom = "lost"

\* The queue moves: a queued turn leaves the queue, unless the queue is paused,
\* a turn waits for the user, or steers keep a turn going.
QueueMoves ==
  \A t \in Inputs : turn[t] = "queued" ~>
    \/ turn[t] # "queued" \/ pause # "none"
    \/ \E u \in Inputs : turn[u] = "waiting" \/ Mailbox(u) # {}

-----------------------------------------------------------------------------
(* The inductive invariant behind the safety properties, for clients that are *)
(* not eager and releases that are not slow.                                 *)
Calm == ~EarlyAnswer /\ ~EagerClient /\ ~UntrustedHooks /\ ~SlowRelease

Working(r) == runs[r].pc \notin {"idle", "ending"}

OneRun == \A r, q \in Runs : ~At(r, "idle") /\ ~At(q, "idle") => r = q

WorkingOwnsTurn ==
  \A r \in Runs : Working(r) =>
    /\ handle.turn = runs[r].turn /\ runs[r].out = "none"
    /\ turn[runs[r].turn] \in Started
    /\ runs[r].pc \notin {"pausing", "thrown"} => turn[runs[r].turn] = "running"
    /\ runs[r].pc = "pausing" => turn[runs[r].turn] = "waiting"

EndingLetsGo ==
  \A r \in Runs : At(r, "ending") =>
    \/ /\ runs[r].out = "none" /\ handle.turn = runs[r].turn
       /\ turn[runs[r].turn] \in {"waiting", "queued"}
    \/ runs[r].out # "none" /\ handle.turn = 0

EntryHasRun   == handle.turn # 0 => \E r \in Runs : ~At(r, "idle")
RunningHasRun == \A t \in Inputs : turn[t] = "running" =>
                   \E r \in Runs : Working(r) /\ runs[r].turn = t

SteersAreNoTurns == \A i \in Inputs : inp[i] \in {"none", "mailbox"} => turn[i] = "none"
GateHoldsInput   == ~GateFree => inp[gate.input] = "none"

PromiseKept ==
  \A s \in Stops :
    /\ stop[s].pc = "idle" => stop[s].prom = "none"
    /\ stop[s].pc = "done" => stop[s].prom \in Terminal \cup {"gone"}
    /\ stop[s].prom = "pending" => stop[s].turn = handle.turn

\* What a thread looks like between two steps: one run at most, which owns the
\* entry and the only started turn until it ends; pending stops are for the
\* owner of the entry; steers have no turn of their own.
ThreadInv ==
  /\ OneActive /\ OneRun /\ WorkingOwnsTurn /\ EndingLetsGo /\ EntryHasRun /\ RunningHasRun
  /\ SteersAreNoTurns /\ GateHoldsInput
  /\ PromiseKept /\ StopTellsTheTruth /\ NoStrandedQueue
=============================================================================
