# Verification of CodePilotX

CodePilotX is a desktop workbench for AI coding: an Electron shell and a React
renderer in front of a Bun sidecar (`apps/agent`) that owns sessions, SQLite,
providers, tools, permissions and the RPC v4 protocol. This directory holds TLA+
modules translated from the source, TLC configurations that check them on small
instances, and TLAPS proofs.

## 1. Inventory

| Part | State | Operations | Hard behaviour | What makes it correct |
|---|---|---|---|---|
| Turn lifecycle (`session/ThreadService.ts`, `TurnCoordinator.ts`, `TurnRunner.ts`) | turns, inputs, queue positions, pause reason (SQLite); the entry per thread with its abort signal, terminal promise, admission flag; the per-thread gate; runs of `executeTurn` | startTurn, enqueueFollowUp, steerTurn, removeQueue, resumeQueue, resumeTurn, executeTurn, stop, resumeQueuedTurns | launches from six places, awaits between every check and its use, stop racing completion, crash anywhere | one turn at a time; terminal is final; stop tells the truth; the queue is neither stranded nor started while paused; steers are not lost |
| Interactions (`permission/ApprovalService.ts`, `session/QuestionService.ts`, `storage/repositories/interaction-repository.ts`, `RpcRouter.respondToInteraction`) | checkpoints: preparing, pending, resolved, resuming, terminal; operation ids; grants | persist, activate, attach run state, answer, claim, complete, cancel, recover | duplicate and late answers, crash between answer and resume | first valid answer wins; an approved tool call runs at most once |
| Event log and subscriptions (`storage/events`, `transport/EventSubscriptionRegistry.ts`, `transport/server.ts`) | event rows with a sequence per stream; subscriptions with cursors and acknowledgements; SSE connections with a live buffer | publish, subscribe, connect, replay, flush, acknowledge, unsubscribe, evict | live events during a replay, overflow, reconnection | in order, once, without a gap |
| Orchestrator (`orchestration/PiOrchestratorAdapter.ts`, `pi/PiAgentRuntime.ts`) | one runtime per thread, harness, pending save points | run, steer, abort, dispose | abort before the harness exists, two runtimes of one thread | only the owner's runtime is live |
| Agent core (`packages/pi-agent-core`) | phases and queues of the harness | prompt, steer, followUp, abort | queue drained while an abort waits | every queued message is consumed once |
| Subagents (`subagent/*`) | tasks, runs, controls, the parent's checkpoint (SQLite); executions and their controllers | spawn, wait, send, retry, stop, schedule, execute, resume | a run is executed again while its last execution unwinds; ends, stops and crashes wake the parent | limits hold, one execution at a time, parents wake, a stop is final |
| Handoff, worktrees (`handoff/*`, `worktree/*`) | the operation with its step and rollback journal (SQLite); branches, trees and the shared stash of git | start, transfer, roll back, recover, acknowledge, finalize | commands and crashes between git and database, a rollback that fails, others at work in the repository | all or nothing; no edit is lost; nothing runs on moving edits |
| MCP (`mcp/*`) | connections, leases, OAuth | acquire, release, retire | configuration changed under a lease | a leased server stays open |
| Permissions (`permission/PermissionDecisionEngine.ts`, `PermissionGrantStore.ts`) | grants per tool, turn, session | decide, grant, revoke | grant that outlives its scope | decision table total and monotone |
| Credentials (`auth/*`, `apps/auth-broker`) | encrypted files, lock files, OAuth attempts | read, update, refresh | two processes, stale lock | no lost update |
| Tools and patches (`tool/*`, `patch/*`) | files, turn patches | apply, undo, redo | partial application | undo restores |
| Desktop shell (`apps/desktop/electron/src`) | sidecar process, terminal sessions, buffers | start, probe, restart, attach | exit while starting | one sidecar, bounded restarts |
| Session view (`packages/session-view`) | projection of events | apply, reset | duplicated events | idempotent |
| Configuration, providers, prompts, review, usage, GitHub, memory, hooks, renderer, icon theme | files, rows, UI state | queries, requests, formatting | little of their own | – |

The parts interact as follows. The renderer sends RPC v4 requests;
`RpcRouter` validates them and calls `ThreadService`, which keeps the queue in
SQLite and one entry per thread in `TurnCoordinator`. `executeTurn` calls
`PiOrchestratorAdapter.run`, which builds a `PiAgentRuntime` around the harness
of `pi-agent-core`. A tool call that needs the user persists a checkpoint and
leaves the run; the answer comes back through `RpcRouter`, queues the turn again
and calls `resumeTurn`. Every transaction appends events, which `EventHub`
publishes synchronously and `server.ts` streams to subscribers. A subagent is a
child thread whose turns `SubagentService` runs; its parent turn waits in a
checkpoint that the end of the child's run satisfies. All of them write the same
SQLite database, which start-up recovery repairs before anything else runs.

## 2. Modules

| Module | Models | Composed with |
|---|---|---|
| `TurnLifecycle` | the turns of a thread | `TurnLifecycleProofs`, `TurnSafetyProofs`, `MCTurnLifecycle` |
| `ToolApproval` | the tool calls of a turn, their approvals and crashes | `ToolApprovalProofs`, `MCToolApproval` |
| `Subagents` | the subagents of a turn and its wait for them | `SubagentsProofs`, `MCSubagents` |
| `Handoff` | the move of a thread between the local checkout and a worktree | `HandoffProofs`, `MCHandoff` |
| `EventStream` | the events table, the stream, its client and the view | `LogReader`, `EventStreamProofs`, `MCEventStream` |
| `LogReader` | the abstract specification: a reader of a log | instantiated by `EventStream` |
| `NatLemmas` | nothing: least numbers and induction in a form the provers can use | `EventStreamProofs`, `SubagentsProofs`, `HandoffProofs` |

### TurnLifecycle

The main turns of one thread. Its durable variables are columns of SQLite
(`turn`, `inp`, `home`, `pos`, `begun`, `pause`; `pend` counts the approvals and
questions of a turn that are pending, `claims` stands for the answered ones that
recovery looks for, `trust` is the hook trust request with its waiters), its volatile ones the memory of the agent
process (`handle`, `gate`, `runs`, `harness`, `stop`), which a crash clears.

* One input is one number, in the order of admission. A turn has the number of
  its first input. A steer has a home turn and becomes a turn only when an
  interruption requeues it.
* A run is one activation of `executeTurn`. Its `pc` names the await it stands
  at: `prep` (reading settings, MCP, resuming a tool), `build` (the previous
  runtime is disposed), `ready` (the runtime is registered, its harness is not),
  `live` (the harness runs), `pausing` (a tool call asked the user; the harness
  still works on the rest of the batch and, after an approval, on the model's
  next answer, because a blocked call does not end the agent loop), `after` (the
  last look at the signal is past), `thrown` (in the catch block), `ending` (in
  the finally block, releasing the MCP lease). `held` says that the run shares
  the present entry and hence its abort signal.
* An await on I/O is where other steps may come in. `EventHub.publish` calls its
  listeners synchronously, so code between two I/O awaits is one action; the
  exclusive sections of `TurnCoordinator` are single actions, except a steer,
  whose attachments are bound inside the gate (`SteerTurn`, `SteerAppended`).
  The failure path (`FailTurn`) is outside the gate, as in the code.
* `Execute` is the synchronous prefix of `executeTurn` with its early returns;
  every caller (`ResumeQueue`, `RunEnds`, `ResumeTurn`, `AnswerInteraction`,
  `Restart`) uses it.
* `Restart` is the death of the process, `recoverInterruptedRuns` and
  `resumeQueuedTurns` in one action: nothing else runs between them.

Four constants say what the environment may do.

* `EarlyAnswer`: an interaction is answered while the run that asked still works,
  or after its turn has gone on or ended without it. A user can do this: the
  approval is shown as soon as it is activated.
* `EagerClient`: clients resume a queue that is not paused and send turn/resume.
  The RPC surface allows both; the desktop client does neither.
* `UntrustedHooks`: the project has hooks the user has neither allowed nor
  blocked. A run that meets one before its harness starts returns (`AskTrust`);
  around a tool call only the call fails; the stop hook is met by `StopReturns`.
* `SlowRelease`: other steps happen while the finally block of a run awaits
  `mcpLease.release()`, which takes time only when the lease is the last one of a
  retired configuration.

`Calm` is none of them.

What is abstracted: texts, attachments and settings; the four waiting statuses
are one (`waiting`); a turn and its root agent, which change in the same
transactions, are one; the delivery of several steers in
`deliverPendingSteers` is one step; `interruptForSideEffectRecovery`, which no
code calls, is left out. The adapter never takes a runtime out of its map; the
model takes a run out of `harness` when it ends, because a harness that is not
running refuses a steer and ignores an abort.

`MCTurnLifecycle` adds the symmetry of the runs, which are interchangeable.
`TurnLifecycleProofs` and `TurnSafetyProofs` hold the theorems.

### ToolApproval

What `TurnLifecycle` counts is spelled out here for one turn: every call has a
row in `tool_calls` (`row`), perhaps an approval (`appr`, `reply`, `when`), and
its message is flushed to the session or still in memory (`durable`). `effects`
counts how often the tool has acted, which the code cannot know.

* A run is `pc`: it resumes an answered call (`resume`), asks the model
  (`model`), prepares the calls of a batch one after the other (`prepare`), and
  executes them in parallel (`execute`). `StartRun` claims the earliest answered
  approval; each run resumes one.
* `Begin`, `Act` and `Finish` are the executor: the row says running before the
  tool acts, and gets its outcome afterwards. `Refuse` is every reason for which
  the executor throws before it writes the row.
* `SavePoint` flushes the messages of a step. An approval is visible to the user
  from `Activate`, that is before, which is what `ResumeFinds` is about.
* `Crash` is the death of the process followed by recovery, with its three rules
  for approvals (`Safe`, `Ambiguous`, `Stuck`). The turn that recovery queues is
  started by `StartRun`.

Answers come only when no run of the turn is at work: the race of an early
answer is in `TurnLifecycle` (`turn_early_answer`). Questions and plan reviews as
checkpoints, permission grants, sandbox escalations and tools that are declared
sequential are left out. The answer of a question carries no tool call id, so the
code that would complete a resumed question is never reached. An approval that
is answered but never resumed because its turn completes first stays resolved
for ever.

### Subagents

The variables `born`, `row`, `task`, `asks`, `pend` are tables; `exec` holds the
executions under way, at most two for a run; `parent`, `ckpt` and `atWork` are
the parent turn, the checkpoint with the runs it waits for and the number of its
runs; `wakes` and `launches` count the calls of `resumeSatisfiedParents` and of
the resume handler that are under way.

* An execution is `works`, `asked` (an approval is active, the orchestrator has
  not returned) or `ends` (in its finally block). It is `known` while the entry
  of the map of controllers is its own, and `aborted` when its signal is set.
* `schedule()` runs synchronously over all queued runs; every action that calls
  it ends with `Scheduled`, which folds `ClaimRun` over the runs in the order of
  their creation. `ClaimRun` has both limits, and the bug-compatible detail that
  the parent's limit counts tasks, one of which may be the claimant itself.
* `Send` is a follow-up run, the same run again or a message for a running one,
  by the status of the run; `Returns` continues a run for such a message.
* `Crash` is the death of the process and recovery: runs nothing will continue
  are interrupted, then the constructor wakes parents and schedules.

`Hasty` says that a user may answer or write to a subagent that has paused while
its execution still unwinds. Left out are the isolation of worktrees and its
recovery, attachments, model choice and the permission ceiling, the limits on
batches, a subagent whose project hooks are undecided, and `checkSafeBoundary`,
which the orchestrator never calls. The wait's test and its checkpoint are a
microtask apart and one step here; so are a completion and its look at messages.
The parent waits for the current runs of all its subagents. That stopping a
parent stops its subagents is covered by the stops of users, which may come then.

### Handoff

The two trees of an operation, named by their part: `source` and `destination`;
`dir` says which of them is the local checkout. `head` and `tree` are what git
has checked out in each and the uncommitted edits, `stash` is the list of stashes
the worktrees of a repository share. `status`, `journal` are columns of the
operation, `fork` and `comments` what the operation did to the conversation. `pc`
is the await at which the operation stands.

* Each git command that changes something is a step, and a crash, a turn, the
  user or another worktree may come before the next. The commands that only look
  are part of the step they decide. The row is written in the step of the command
  before it, except that a stash is pushed (`Push`) before its object id is
  known and noted (`Note`); in between only its marker finds it (`StashOf`).
* `Trouble` bounds commands that fail without a reason in the model and crashes.
  A command that fails changes nothing. `Throws` is the catch block of
  `startOwned`: the copy of the thread is removed, then git is rolled back by
  `RollBack`, whose commands go on after a failure and report it at the end.
* `Recover`, `RecoverNothing` and `Refinalize` are the start of the agent, before
  it serves requests.
* `edits` and `before` are history: all edits anybody made, and the trees when
  the operation began to move them.

Edits are names; that they conflict is a failing command. A repository has one
feature branch, a default branch `main` and one other; which names they have does
not matter, only whether another tree has them checked out. Commits do not happen
during an operation. Operation ids, revisions, warnings and environment files are
left out; requests that repeat an operation only read its row, and an
acknowledgement that comes again later is `Refinalize`. One that comes again while
the stashes are being dropped is left out: the desktop sends one. The thread has at
most one turn, so the refusals of `preflight` for queued turns and pending
interactions are a choice (`Refuse`).

Three switches widen the environment. `SlowAdmission`: a handoff starts while an
admitted turn is not created yet. `Races`: others push between two commands about
the same stash. `Meddles`: the user edits the trees during an operation.

### EventStream and LogReader

Three parties in one module, each with its variables: the agent (`log`, `sub`,
and the locals of the SSE handler `pc`, `cursor`, `goal`, `replayed`, `buf`,
`batch`, `over`), the stream `wire`, and the renderer (`phase`, `pending`,
`acked`, `timer` of the RPC client; `queue`, `applied`, `reflected` of the view).

* The loop of the handler is one action per await: each durable or live event
  it writes is a step, and commits, publications, acknowledgements and faults
  may come between. `DeliverLive` has the three cases of `deliverAnchoredLive`.
* The client resumes after the position the agent has confirmed; a reload reads
  the latest page in the transaction that also reads the position of the log.
* `Fault` bounds what goes wrong: a broken stream or restarted agent (`Break`),
  an expired lease (`DropSubscription`), a lost answer (`AckLost`), a full live
  buffer (a choice in `PublishLive`), a page that cannot be read, a reload.
* `reflected` is the set of sequence numbers whose events the view shows,
  `applied` the position it claims.

`LogReader` says what this is for: the view shows exactly the events up to its
position, the position only moves forward, or the view starts again.
`EventStream` instantiates it with `pos <- applied, shown <- reflected`
(`Reader`), and the run `stream` checks `Reader!Spec` as the property
`ReadsTheLog`.

The log has the thread's own events and others, which the stream skips. Its
events concern the turns of the latest page. One subscription has one stream;
Last-Event-ID and heartbeats, which carry positions the stream has passed anyway,
are left out, and so are the subscribers at "latest" that show nothing of the
past. The answer CURSOR_EXPIRED does not occur in the model.
`ScrollsEarly` says that the reader scrolls back while events are under way.

## 3. Runs

All runs allow deadlock: admissions, calls, messages, faults and crashes are
bounded, and a system with nothing to do may stop. Each property of a passing run
has a mutant, an operator `Mut...` before the definition it changes.

| Run | Checks | Shows |
|---|---|---|
| `turn_calm` | type, `OneActive`, `Serial`, `StopTellsTheTruth`, `StoppedIsStill`, `WaitingIsAnswerable`, `TerminalFinal`, `FailurePausesQueue`, `PausedQueueHolds`, `LostOnlyToSteers`, `SteersAreKept`; under fairness `StopIsAnsweredOrLost`, `QueueMoves` | hold for three inputs, a stop, a pause and a crash in every order |
| `turn_any_client` | `NoStrandedQueue` | holds with all four switches on, though runs may overlap |
| `turn_stop_hangs` | `StopIsAnswered` | violated: a stop whose turn continues for a steer loses its promise |
| `turn_early_answer` | `Serial` | violated: an approval answered while its run still works starts a second run |
| `approvals` | type, `AtMostOnce`, `OnlyIfAllowed`, `RowsTellTheTruth`, `WaitsForAnAnswer`, `CancelledIsStill`; under fairness `AnswerIsTakenUp`, `RunsComeToAnEnd` | hold for two calls in any batches and two crashes |
| `approvals_fail_closed` | `FailClosed` | violated: with another answered approval a turn is queued though a claimed call was in its tool |
| `approvals_lost` | `ResumeFinds` | violated: a crash before the save point loses the message of an approval |
| `subagents` | type, `WithinLimits`, `OneAtATime`, `TaskTellsItsRun`, `MessageHasAReader`, `EndedStaysEnded`; under fairness `ParentWakes`, `QueueMoves` | hold for two subagents, a retry or follow-up, a message, pauses, stops and a crash |
| `subagents_stop` | `StopIsFinal` | violated: a continued run cannot be stopped |
| `stream` | type, `LiveOnItsState`, `ResumesAfterWhatItHas`, `ReadsTheLog`; under fairness `EverythingArrives` | hold for three commits, a live event and a fault |
| `stream_paging` | `EverythingArrives` | violated: an older page moves the position past events not shown |
| `handoffs` | type, `NothingLost`, `StillWhileMoved`, `AllOrNothing`; under fairness `OperationEnds` | hold for two operations in either direction with two failures or crashes |

More is known to fail when the constants allow it, and has no run of its own.

* `TurnLifecycle`: `Serial` with `EagerClient` alone, because turn/resume of a
  running turn releases the live run's entry (`Execute`, second disjunct);
  `OneActive` with `SlowRelease`, because a run still releasing its lease can
  relaunch a turn whose own run holds the entry; `TerminalFinal` with
  `UntrustedHooks` or `EarlyAnswer`, because a decision or an answer queues a
  turn whatever its status. After a restart a requeued turn keeps its position
  and can be overtaken by a newer input (`TailPositions`); a turn that fails, or
  is interrupted by recovery, leaves its accepted steers in a mailbox nothing
  reads again (the exceptions `SteersAreKept` names); a steer accepted before the
  harness is registered is not delivered in that run; and the late
  `orchestrator.abort(threadID)` of a stop can hit the next turn's harness.
* `Handoff`: `AllOrNothing` with `MaxTroubles = 3`: a command of a rollback fails
  and the agent dies before the operation is marked; the recovery that follows
  does not know of the failure, finds a destination whose HEAD is back, and
  reports `failed`, as if all were restored, with the moved edits left in both
  trees ("Calling it repeatedly is harmless", `HandoffService.ts:204`; the same
  behaviour needs three faults, which is why the run has two). `StillWhileMoved`
  with `SlowAdmission`: `assertAdmissionOpen` (`thread.ts:100`) comes before the
  awaits of `startTurn`, and nothing asks again when the turn is created.
  `AllOrNothing` and `NothingLost` with `Races`: `capture` takes the latest stash
  for its own, and `finalize` drops by a position another push may have moved.
  `AllOrNothing` with `Meddles`: a recovery that finds edits in the source does
  not reapply the stash and still reports `failed`; `NothingLost` holds, also
  with three faults, because rollbacks never drop a stash. When a destination is
  unavailable at start-up (`RecoverNothing`) the hidden copy of the thread and
  its review comments stay for good, and `git stash list` that fails during a
  rollback (`findStashByMarker`) counts as no stash.
* Resuming an approval moves the session to the message of its call
  (`PiOrchestratorAdapter.ts:805`), which takes what other calls returned since
  off the path the model sees. The path of the session is not in `ToolApproval`.
* `Subagents`: with `Hasty` the properties `OneAtATime`, `TaskTellsItsRun`,
  `WithinLimits` and `EndedStaysEnded` fail, because the pause of the old
  execution overwrites the status of the answered run and its finally block
  forgets the new controller. For tasks in `steered` the same happens without
  haste, which is why the properties except them. `WithinLimits` does so only in
  the limit of the parent: an execution that a stop did not reach ends the task
  while its next run goes on, the next claim does not count that task, and a pause
  makes it active again. A parent keeps its
  checkpoint after it was woken: every later end of a subagent marks it queued
  again, so it may be launched twice, and a parent that recovery has interrupted
  is queued again by the constructor.

Bounds. In `TurnLifecycle` three inputs are a running turn, a follow-up and a
steer or second follow-up, the smallest thread in which a launch can overtake or
strand another; one stop, one pause and one crash meet every step of it. Two runs
are enough to see whether a second ever starts. `turn_any_client` has two inputs,
a turn that waits and one behind it, and no crash: a crash makes it run for some
minutes, and it was checked so beside the listed runs. `WaitingIsAnswerable` is
proved for every client, hook and release (section 4). In `ToolApproval` two calls make one batch of two
or two batches, so that one is at work, answered or safe while the other is not;
the second crash meets what the recovery from the first has set up. The safety
and liveness properties were also checked with three calls and one crash. In
`Subagents` two subagents under a global limit of one compete for the slot, and
the second run is either a second subagent or a retry of the first; the code's
limits are 6 and 4. In `EventStream` three events give the stream one it has
passed, one it must deliver and one that is committed meanwhile; the code flushes
up to 256 envelopes at once, buffers 1024 live events and acknowledges after
100 ms: all three are choices here, not counts. In `Handoff` two faults are one
that starts a rollback or a recovery and one that strikes it; the second operation
meets the leftovers of a failed first; one stash of somebody else can be above or
below those of the operation.

Fairness. In `TurnLifecycle` `RunStep`, `RunEnds`, `SteerAppended`,
`StopAborts` and `StopReturns` are weakly fair; in `ToolApproval` a queued turn
is started and its run goes on; in `Subagents` an execution goes on, wake-ups and
launches happen; in `EventStream` the loop of the stream turns, requests are
served, pages shown, messages read and envelopes flushed; in `Handoff` commands
return and a dead agent is started again. All of these are
awaits that settle and callbacks the event loop runs; model and tool calls have
time limits. Clients, answers, exceptions, acknowledgement timers, commits and
faults are not assumed to happen.

## 4. Proofs

`TurnLifecycleProofs` proves `TypeCorrect`, the type invariant for all constants.

`TurnSafetyProofs` proves, from `Calm`, that `ThreadInv` is inductive
(`ThreadInvariant`). It is needed because none of the safety properties is
inductive: that a second turn is not started depends on the fact that the run
that works owns the entry and the started turn (`WorkingOwnsTurn`), that a run
on its way out has let go of the entry or left its turn waiting or queued
(`EndingLetsGo`), that an entry or a running turn has a run behind it
(`EntryHasRun`, `RunningHasRun`), and that steers are no turns
(`SteersAreNoTurns`, `GateHoldsInput`), so that requeueing them overwrites
nothing. `PromiseKept` ties the stop requests to the entry they wait for. The
argument per launch is `ExecuteInv`: from a thread at rest (`NoEntryNoRun`,
`NoActiveNoRun`) executeTurn leaves one run, one entry and one started turn.
`OneTurnActive`, `SerialExecution`, `StopIsTruthful`, `StopIsFinal`,
`QueueNotStranded` and `TerminalIsFinal` follow.

`FailurePauses` needs only the types and holds for any clients, hooks and
releases. So does `WaitingAnswerable`: every step that makes a turn wait adds
something to answer, and every step that takes the last one away queues or ends
the turn. `PausedQueue` assumes neither early answers, nor eager clients, nor
undecided hooks; releases may be slow.

`PromiseLostToSteers` and `SteersKept` are about single steps, from `Calm`, and
each needs more than `ThreadInv`. For the first `SignalInv` says that a stop that
waits has aborted the run that works. An aborted run does not leave its turn
waiting for an answer, so the promise is only lost where a completed run looks at
the mailbox and lets the turn go on. For the second `SteeredTurnGoesOn` says
that completion and interruption wait for the gate: while a steer is being bound
its turn is neither, so that it finds either a turn that will read it or a
failed one.

The only assumption on the constants is `BoundsAssumption` (numbers are numbers,
switches are Boolean); the sets `Runs` and `Stops` may be any sets.

`ToolApprovalProofs` proves the type invariant, `AtMostOnce`, `OnlyIfAllowed`,
`RowsTellTheTruth`, `CancelledIsStill` and `WaitsForAnAnswer`. Only
`CallsAssumption` is assumed: there may be any number of calls, in batches of
any size, and any number of crashes. None of the safety properties is inductive.
That a tool acts at most once says nothing of the row of a call that has not
acted yet, and `Begin` could start it again. The invariant `IInv` adds what the
code keeps true between the three places that know a call:

* `Places`: calls are prepared, ready or in their tools only in the phase of the
  run that has a place for them;
* `CallInv`, for every call: the row, the approval, the answer and the count of
  effects agree. A call that may still start has no row, and no approval or one
  that was allowed and claimed; a call with a pending approval has no row; a
  resolved approval that allows has a row that is missing or completed.

The hard step is `Crash`: recovery requeues a turn only for approvals that are
safe, that is, denied or with a row that is missing or completed, and only with
`CallInv` does this imply that no later run acts on a call twice. `FailClosed`,
which fails, is not needed.

`HandoffProofs` proves the four safety properties of a handoff. The types,
`StillWhileMoved` and `NothingLost` hold for any number of operations, failures,
crashes and stashes, whether the user edits meanwhile (`Meddles`) or not.
`HandoffAssumption` only types the constants; the theorems name the switches they
need.

* `NoTurnWhileMoved` assumes `~SlowAdmission`. `StillInv` adds that a locked thread
  has no admitted turn left to create, so that `StopSource` is not undone, and that
  the turn is gone before the journal says that something moves. `StatusInv` ties
  the place of an operation to its status: without it a rollback could run beside
  an acknowledged handoff.
* `NoEditLost` assumes `~Races`. Nothing but `Drop` takes edits away, so the
  question is what a dropped stash holds. `AppliedInv` says that from the moment
  the stashes are applied until the operation is over the destination has what the
  journal's stashes hold; pushes by others have new ids (`PushKeepsHas`), and drops
  only take away (`DropKeepsHas`). `DropInv` carries it over to the position that
  was looked up. `PushedShape` and `DropShape` are about sequences.

* `WholeUntilThirdTrouble` assumes `~SlowAdmission`, `~Races` and `~Meddles`, and
  bounds nothing: an operation that is bound has handed over everything, and one that
  failed has restored everything unless there have been three failures or crashes.
  `WholeOrNotAtAll` is its consequence for `MaxTroubles <= 2`, the property
  `AllOrNothing` of the run. `KeptInv` says that what an operation has put away is
  what the tree had and is found, by the journal or by the marker; `BeforeInv` that an
  edit missing from its tree has been put away, and where the comments are;
  `PlaceInv` how far the transfer has come at each command. `BackInv` is what a
  rollback relies on when it begins, again or for the first time, and what it has done
  as long as no command failed. Its hard part is `Damaged`: a rollback that could not
  put the transferred edits aside leaves them in a destination whose branch is back.
  It knows so (`ok`), unless the agent dies; the failure that led to the rollback, the
  one within it and the death are three troubles. More cannot be proved: with the
  third the property is false (section 3).

`EventStreamProofs` proves the types for all constants and, for readers that do not
scroll back early (`~ScrollsEarly`), `ResumesAfterWhatItHas`, `LiveOnItsState` and
the refinement `ReadsTheLog`, for any number of events, live events and faults; the
model bounds the three only to be finite. The invariant `Inv` follows an event from
the log to the view:

* `ViewInv`: the view shows exactly the events of the thread up to its position;
* `HeldInv`: what the client or the agent takes for received (the cursor of the
  subscription, the acknowledged position, the one being acknowledged and its
  answer) is in the view or in its queue;
* `StreamInv`: each message in the queue or on the wire comes after its past
  (`Gapless`), and the handler has passed no event that it has not written;
* `PhaseInv`: a view without a subscription has nothing under way to it.

`ResumesAfterWhatItHas` alone is not inductive: an acknowledgement is late news of a
position that was reached through a queue and a wire it says nothing of. For the
refinement each step of `EventStream` is a commit, an advance or a new start of
`LogReader`, or changes nothing it sees.

`SubagentsProofs` proves the types of `Subagents` whatever users do, and under
`~Hasty` its five safety properties, for any limits, any finite set of subagents and
any number of runs, messages, wake-ups and crashes. `schedule()` goes through all
queued runs in one step, so the proof has an induction within a step:
`ScheduleReaches` says that what each claim preserves, the schedule preserves, by
`SetInduction` over the runs. It is stated with sets where an induction theorem has
an operator (`NatLemmas`). The invariant has two parts.

* `RowsInv` and `RestInv` hold unconditionally: rows exist for the runs that were
  created, numbered in that order.
* `GoodInv` is about rows, tasks, executions and questions. `Worked`: whoever is at
  work belongs to a run that is active or has ended meanwhile, and a running run
  has someone who will look for messages. `OneOpen`: only the last run of a
  subagent has not ended. `TaskFollows` and `ExecFollows`: the task and the
  executions agree with it. `Limited` counts. `Settled`: after a schedule every run
  that is still queued says so in its task. Without `TaskFollows` the limit of the parent, which
  counts tasks and not runs, could be passed.

Subagents that were continued for a message (`steered`) are excepted, as in the
properties; a lemma per action (from `OneRunStep`) shows that they disturb no
other subagent.

Checked by TLC only: what must eventually happen (`StopIsAnsweredOrLost`, both
`QueueMoves`, `EverythingArrives`, `AnswerIsTakenUp`, `RunsComeToAnEnd`,
`ParentWakes`, `OperationEnds`), because the prover has no rules for fairness and
ENABLED. Every other property of the passing runs is the subject of a theorem.

## 5. What is not modelled, and the plan

Not modelled at all, with the reasons in `PROJECT.json`: text and rendering,
schemas, provider adapters, generated data, the permission policy, the set-up and
cleaning of worktrees, MCP connections, credentials, forks at a message, the
desktop shell. The repository has some 320,000 lines; the modules cover the parts
of the agent and its client in which several actors share state, and leave out
what is one request, one transaction or one render.

Within the modelled parts: editing a queued message with its version,
idempotent repeats by operation id, the queues of the harness, the projection of
events into view blocks, several streams in one subscription, the worktrees of
subagents.

Possible next modules, in order of importance:

1. the idempotence ledger of `RpcRouter` (operation ids across crashes);
2. the harness queues of `pi-agent-core` for steering and follow-ups;
3. the supervision of the agent process by the desktop shell;
4. pure algorithms: patch application, permission decisions.

Proofs to add: the limits of `Subagents` for hasty users, without the parts that then
fail, and what a third trouble leaves of a handoff (the edits, by `NoEditLost`, and
which of them where).
