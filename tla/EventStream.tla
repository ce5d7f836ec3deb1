------------------------------ MODULE EventStream ------------------------------
(* The way of an event from the events table to a view of a thread: the       *)
(* subscription registry and the SSE loop of the agent, the envelope          *)
(* subscription of the RPC client, and the canonical view with its history    *)
(* pages.  One view of one thread; the agent and the view keep their state    *)
(* apart and only meet in requests, replies and the stream.                   *)
EXTENDS Integers, Sequences, FiniteSets, FiniteSetsExt

CONSTANTS
  MaxSeq,      \* bound: durable events committed
  MaxLive,     \* bound: live events published
  MaxFaults,   \* bound: breaks, full buffers, expired leases, lost replies, reloads
  ScrollsEarly \* the reader scrolls back while events are under way to the view

ASSUME BoundAssumption ==
  /\ MaxSeq \in Nat /\ MaxLive \in Nat /\ MaxFaults \in Nat
  /\ ScrollsEarly \in BOOLEAN

(* The stream of a thread takes its own events and those of no thread.        *)
Kinds == {"own", "other"}
Mine == {"own"}
None == -1

VARIABLES
  log,         \* agent: the events table, one kind per sequence number
  sub,         \* agent: acknowledged cursor of the subscription, None when gone
  pc,          \* agent: where the loop of the stream stands, "off" without one
  cursor,      \* agent: last sequence number the stream has passed
  goal,        \* agent: sequence number the stream delivers up to
  replayed,    \* agent: the stream has reported replayComplete
  buf,         \* agent: anchors of live events the listener holds
  batch,       \* agent: anchors the loop has taken over for delivery
  over,        \* agent: the listener met a full buffer
  wire,        \* notifications written to the stream and not yet read
  phase,       \* client: what the view and its subscription are doing
  page,        \* position of a latest page that has been read for the view
  older,       \* position of an older page that has been read for the view
  pending,     \* client: position received and not yet acknowledged, 0 if none
  acked,       \* client: position the agent has confirmed, where it resumes
  timer,       \* client: an acknowledgement is scheduled
  reply,       \* an acknowledgement the agent has served, not yet answered
  queue,       \* client: envelopes received and not yet applied
  applied,     \* view: sequence number it claims to have applied
  reflected,   \* view: sequence numbers whose events it shows
  lives, faults \* counters of the bounds

agentVars == <<sub, pc, cursor, goal, replayed, buf, batch, over>>
viewVars == <<queue, applied, reflected>>
counters == <<lives, faults>>
vars == <<log, agentVars, wire, phase, page, older, pending, acked, timer, reply,
          viewVars, counters>>

NoReply == [pos |-> None, current |-> FALSE]
Durable(n) == [kind |-> "durable", pos |-> n]
Live(n) == [kind |-> "live", pos |-> n]
Messages == [kind : {"durable", "live", "replayed", "closed"}, pos : Nat]

High == Len(log)
Larger(m, n) == IF m > n THEN m ELSE n
UpTo(n) == {i \in 1..High : i <= n /\ log[i] \in Mine}

(* A cursor the registry takes, for a subscription or an acknowledgement.     *)
InRange(n) == n <= High /\ n >= Min(UpTo(High)) - 1

(* What the stream still has to pass on its way to n.                         *)
Ahead(n) == {i \in UpTo(n) : i > cursor}

Init ==
  /\ log = <<"own">>            \* thread/created, in the thread's transaction
  /\ sub = None /\ pc = "off" /\ cursor = 0 /\ goal = 0 /\ replayed = FALSE
  /\ buf = <<>> /\ batch = <<>> /\ over = FALSE
  /\ wire = <<>>
  /\ phase = "reload" /\ page = None /\ older = None
  /\ pending = 0 /\ acked = 0 /\ timer = FALSE /\ reply = NoReply
  /\ queue = <<>> /\ applied = 0 /\ reflected = {}
  /\ lives = 0 /\ faults = 0

(****************************** Publication *******************************)

(* insertEvent in a transaction, then the hub's wake-up: the loop polls.      *)
Commit ==
  /\ High < MaxSeq
  /\ \E k \in Kinds : log' = Append(log, k)
  /\ UNCHANGED <<agentVars, wire, phase, page, older, pending, acked, timer, reply,
                 viewVars, counters>>

(* The position a live event carries. Mutant: one too far.                    *)
MutAnchor == High + 1
Anchor == High

Fault == faults < MaxFaults /\ faults' = faults + 1

(* A live event carries the position of the log; the listener of a stream     *)
(* keeps it or notes that its buffer is full: what fills it is not counted.   *)
PublishLive ==
  /\ lives < MaxLive
  /\ lives' = lives + 1
  /\ pc # "off"
  /\ \/ buf' = Append(buf, Anchor) /\ UNCHANGED <<over, faults>>
     \/ Fault /\ over' = TRUE /\ UNCHANGED buf
  /\ UNCHANGED <<log, sub, pc, cursor, goal, replayed, batch, wire, phase, page,
                 older, pending, acked, timer, reply, viewVars>>

(*************************** The loop of the stream ************************)

(* GET /rpc/events: the listener first, then the target of the replay.        *)
OpenStream ==
  /\ phase = "open"
  /\ sub # None
  /\ phase' = "stream"
  /\ pc' = "check" /\ cursor' = sub /\ goal' = High /\ replayed' = FALSE
  /\ buf' = <<>> /\ batch' = <<>> /\ over' = FALSE
  /\ UNCHANGED <<log, sub, wire, page, older, pending, acked, timer, reply, viewVars,
                 counters>>

(* Positions of a closed subscription. Mutant: what was still to come.        *)
MutClosedAt == goal
ClosedAt == cursor

(* A live event is due when the stream has passed its durable state.          *)
(* Mutant: the durable events before it need not be delivered first.          *)
MutDue(anchor) == cursor <= anchor
Due(anchor) == cursor <= anchor /\ Ahead(anchor) = {}

(* How far the loop tails. Mutant: to the target of the replay for good.      *)
MutTailTarget == goal
TailTarget == High

Write(kind, n) == wire' = Append(wire, [kind |-> kind, pos |-> n])

(* The loop has returned and its locals with it. *)
StreamGone ==
  /\ pc' = "off" /\ cursor' = 0 /\ goal' = 0 /\ replayed' = FALSE
  /\ buf' = <<>> /\ batch' = <<>> /\ over' = FALSE

(* Each turn of the loop: closed, still replaying, or taking the live buffer. *)
LoopCloses ==
  /\ pc = "check"
  /\ sub = None \/ over
  /\ Write("closed", ClosedAt)
  /\ StreamGone
  /\ UNCHANGED <<log, sub, phase, page, older, pending, acked, timer, reply, viewVars, counters>>

LoopTurns ==
  /\ pc = "check"
  /\ sub # None /\ ~over
  /\ IF replayed
     THEN pc' = "live" /\ batch' = buf /\ buf' = <<>>
     ELSE pc' = "replay" /\ UNCHANGED <<batch, buf>>
  /\ UNCHANGED <<log, sub, cursor, goal, replayed, over, wire, phase, page, older,
                 pending, acked, timer, reply, viewVars, counters>>

(* One awaited write of deliverDurableThrough. *)
DeliverNext(n) ==
  /\ Ahead(n) # {}
  /\ cursor' = Min(Ahead(n))
  /\ Write("durable", cursor')

DeliverDurable ==
  /\ pc \in {"replay", "tail"}
  /\ DeliverNext(goal)
  /\ UNCHANGED <<log, sub, pc, goal, replayed, buf, batch, over, phase, page, older,
                 pending, acked, timer, reply, viewVars, counters>>

(* Nothing left before the target: the cursor jumps to it. *)
ReplayEnds ==
  /\ pc = "replay"
  /\ Ahead(goal) = {}
  /\ cursor' = Larger(cursor, goal)
  /\ Write("replayed", cursor')
  /\ replayed' = TRUE
  /\ pc' = "live" /\ batch' = buf /\ buf' = <<>>
  /\ UNCHANGED <<log, sub, goal, over, phase, page, older, pending, acked, timer, reply,
                 viewVars, counters>>

(* deliverAnchoredLive: too late, durable events first, or now. *)
DeliverLive ==
  /\ pc = "live"
  /\ batch # <<>>
  /\ LET anchor == Head(batch) IN
       \/ /\ cursor > anchor
          /\ batch' = Tail(batch)
          /\ UNCHANGED <<cursor, wire>>
       \/ /\ cursor <= anchor
          /\ DeliverNext(anchor)
          /\ UNCHANGED batch
       \/ /\ Due(anchor)
          /\ cursor' = anchor
          /\ Write("live", anchor)
          /\ batch' = Tail(batch)
  /\ UNCHANGED <<log, sub, pc, goal, replayed, buf, over, phase, page, older,
                 pending, acked, timer, reply, viewVars, counters>>

LiveEnds ==
  /\ pc = "live"
  /\ batch = <<>>
  /\ pc' = "tail" /\ goal' = TailTarget
  /\ UNCHANGED <<log, sub, cursor, replayed, buf, batch, over, wire, phase, page,
                 older, pending, acked, timer, reply, viewVars, counters>>

TailEnds ==
  /\ pc = "tail"
  /\ Ahead(goal) = {}
  /\ cursor' = Larger(cursor, goal)
  /\ pc' = "check"
  /\ UNCHANGED <<log, sub, goal, replayed, buf, batch, over, wire, phase, page,
                 older, pending, acked, timer, reply, viewVars, counters>>

(****************************** The RPC client ****************************)

(* scheduleReconnect: the source is closed, the subscription is given up, and *)
(* the next attempt resumes after the confirmed position.                     *)
Reconnect ==
  /\ phase' = "subscribe"
  /\ sub' = None
  /\ StreamGone
  /\ wire' = <<>>
  /\ timer' = FALSE
  /\ reply' = [reply EXCEPT !.current = FALSE]

(* event/subscribe after the confirmed position. *)
Subscribe ==
  /\ phase = "subscribe"
  /\ InRange(acked)
  /\ phase' = "open" /\ sub' = acked
  /\ UNCHANGED <<log, pc, cursor, goal, replayed, buf, batch, over, wire, page,
                 older, pending, acked, timer, reply, viewVars, counters>>

(* The subscription was dropped before the stream was opened: 404.            *)
OpenRefused ==
  /\ phase = "open"
  /\ sub = None
  /\ Reconnect
  /\ UNCHANGED <<log, page, older, pending, acked, viewVars, counters>>

ReadNext ==
  /\ phase = "stream"
  /\ wire # <<>>
  /\ pending' = Larger(pending, Head(wire).pos)

ReceiveEvent ==
  /\ ReadNext
  /\ Head(wire).kind \in {"durable", "live"}
  /\ queue' = Append(queue, Head(wire))
  /\ timer' = TRUE
  /\ wire' = Tail(wire)
  /\ UNCHANGED <<log, agentVars, phase, page, older, acked, reply, applied,
                 reflected, counters>>

ReceiveReplayed ==
  /\ ReadNext
  /\ Head(wire).kind = "replayed"
  /\ timer' = TRUE
  /\ wire' = Tail(wire)
  /\ UNCHANGED <<log, agentVars, phase, page, older, acked, reply, viewVars,
                 counters>>

ReceiveClosed ==
  /\ ReadNext
  /\ Head(wire).kind = "closed"
  /\ Reconnect
  /\ UNCHANGED <<log, page, older, acked, viewVars, counters>>

(* flushAck: the agent moves the cursor of a subscription it still has;       *)
(* without one it refuses and the client reconnects.                          *)
SendAck ==
  /\ phase = "stream"
  /\ timer
  /\ reply = NoReply
  /\ IF sub # None /\ InRange(pending)
     THEN /\ sub' = Larger(sub, pending)
          /\ reply' = [pos |-> pending, current |-> TRUE]
          /\ timer' = FALSE
          /\ UNCHANGED <<pc, cursor, goal, replayed, buf, batch, over, wire, phase>>
     ELSE Reconnect
  /\ UNCHANGED <<log, page, older, pending, acked, viewVars, counters>>

(* The answer counts whatever has become of the subscription meanwhile.       *)
AckAnswered ==
  /\ reply # NoReply
  /\ acked' = Larger(acked, reply.pos)
  /\ pending' = IF pending <= reply.pos THEN 0 ELSE pending
  /\ reply' = NoReply
  /\ UNCHANGED <<log, agentVars, wire, phase, page, older, timer, viewVars, counters>>

(************************************ Faults ******************************)

(* The stream breaks and the client hears of it; also a restart of the agent, *)
(* which keeps the log and nothing else of this module.                       *)
Break ==
  /\ Fault
  /\ phase \in {"open", "stream"}
  /\ Reconnect
  /\ UNCHANGED <<log, page, older, pending, acked, viewVars, lives>>

(* The lease of the connection expires: the agent drops its subscriptions.    *)
DropSubscription ==
  /\ Fault
  /\ sub # None
  /\ sub' = None
  /\ UNCHANGED <<log, pc, cursor, goal, replayed, buf, batch, over, wire, phase, page,
                 older, pending, acked, timer, reply, viewVars, lives>>

(* The answer to an acknowledgement is lost. *)
AckLost ==
  /\ Fault
  /\ reply # NoReply
  /\ IF reply.current
     THEN phase' = "subscribe" /\ sub' = None /\ StreamGone /\ wire' = <<>>
          /\ timer' = FALSE
     ELSE UNCHANGED <<agentVars, wire, phase, timer>>
  /\ reply' = NoReply
  /\ UNCHANGED <<log, page, older, pending, acked, viewVars, lives>>

(********************************* The view *******************************)

(* A durable envelope the view has not applied. Mutant: any durable one.      *)
MutNews(e) == e.kind = "durable"
News(e) == e.kind = "durable" /\ e.pos > applied

(* flushPending applies what was received in order, one envelope a step: the  *)
(* code applies up to 256 in one go and nothing sees the states between.      *)
Flush ==
  /\ queue # <<>>
  /\ phase # "failed"
  /\ queue' = Tail(queue)
  /\ LET e == Head(queue) IN
       IF News(e)
       THEN applied' = e.pos /\ reflected' = reflected \cup {e.pos}
       ELSE UNCHANGED <<applied, reflected>>
  /\ UNCHANGED <<log, agentVars, wire, phase, page, older, pending, acked, timer,
                 reply, counters>>

(* The agent reads the latest page in one transaction with its position.      *)
ReadPage ==
  /\ phase = "reload"
  /\ page = None
  /\ page' = High
  /\ UNCHANGED <<log, agentVars, wire, phase, older, pending, acked, timer, reply,
                 viewVars, counters>>

(* The page replaces what the view shows; the subscription starts after it.   *)
ShowPage ==
  /\ page # None
  /\ applied' = page
  /\ reflected' = UpTo(page)
  /\ acked' = page
  /\ page' = None
  /\ phase' = "subscribe"
  /\ UNCHANGED <<log, agentVars, wire, older, pending, timer, reply, queue, counters>>

(* The page cannot be read: the view shows the error until a reload.          *)
PageFails ==
  /\ Fault
  /\ phase = "reload"
  /\ page' = None
  /\ phase' = "failed"
  /\ applied' = 0 /\ reflected' = {}
  /\ UNCHANGED <<log, agentVars, wire, older, pending, acked, timer, reply, queue,
                 lives>>

(* reload, by the user or after an envelope that could not be projected:      *)
(* a new subscription of the client, whose positions start with the page.     *)
Reload ==
  /\ Fault
  /\ phase' = "reload"
  /\ sub' = None /\ StreamGone /\ wire' = <<>>
  /\ page' = None /\ older' = None
  /\ pending' = 0 /\ acked' = 0 /\ timer' = FALSE /\ reply' = NoReply
  /\ queue' = <<>>
  /\ UNCHANGED <<log, applied, reflected, lives>>

(* loadOlder: the agent reads an older page with the position of the log now. *)
ReadOlder ==
  /\ ScrollsEarly \/ UpTo(High) = reflected
  /\ older = None
  /\ phase \in {"subscribe", "open", "stream"}
  /\ older' = High
  /\ UNCHANGED <<log, agentVars, wire, phase, page, pending, acked, timer, reply,
                 viewVars, counters>>

(* prependOlderThreadPage: older turns are added, the position moves too.     *)
ShowOlder ==
  /\ older # None
  /\ applied' = Larger(applied, older)
  /\ older' = None
  /\ UNCHANGED <<log, agentVars, wire, phase, page, pending, acked, timer, reply,
                 queue, reflected, counters>>

Next ==
  \/ Commit \/ PublishLive
  \/ OpenStream \/ LoopCloses \/ LoopTurns \/ DeliverDurable \/ ReplayEnds
  \/ DeliverLive \/ LiveEnds \/ TailEnds
  \/ Subscribe \/ OpenRefused \/ ReceiveEvent \/ ReceiveReplayed \/ ReceiveClosed
  \/ SendAck \/ AckAnswered
  \/ Break \/ DropSubscription \/ AckLost
  \/ Flush \/ ReadPage \/ ShowPage \/ PageFails \/ Reload \/ ReadOlder \/ ShowOlder

Spec == Init /\ [][Next]_vars

(* The loop of the stream keeps turning, requests are served, the event loop  *)
(* of the client reads its messages and runs its timers.                      *)
Fairness ==
  /\ WF_vars(LoopCloses \/ LoopTurns \/ DeliverDurable \/ ReplayEnds \/ DeliverLive
             \/ LiveEnds \/ TailEnds)
  /\ WF_vars(Subscribe \/ OpenStream \/ OpenRefused \/ ReadPage)
  /\ WF_vars(ShowPage)
  /\ WF_vars(ReceiveEvent \/ ReceiveReplayed \/ ReceiveClosed)
  /\ WF_vars(Flush)

FairSpec == Spec /\ Fairness

(******************************** Properties ******************************)

TypeOK ==
  /\ log \in Seq(Kinds)
  /\ sub \in 0..High \cup {None}
  /\ pc \in {"off", "check", "replay", "live", "tail"}
  /\ cursor \in 0..High /\ goal \in 0..High
  /\ replayed \in BOOLEAN /\ over \in BOOLEAN /\ timer \in BOOLEAN
  /\ buf \in Seq(0..High) /\ batch \in Seq(0..High)
  /\ wire \in Seq(Messages)
  /\ phase \in {"reload", "failed", "subscribe", "open", "stream"}
  /\ page \in 0..High \cup {None} /\ older \in 0..High \cup {None}
  /\ pending \in 0..High /\ acked \in 0..High
  /\ reply \in [pos : Nat \cup {None}, current : BOOLEAN]
  /\ queue \in Seq(Messages)
  /\ applied \in 0..High /\ reflected \subseteq 1..High
  /\ lives \in 0..MaxLive /\ faults \in 0..MaxFaults

(* A live event is shown only on the durable state it was published on: every *)
(* durable event before it is shown and none after it.                        *)
LiveOnItsState ==
  queue # <<>> /\ Head(queue).kind = "live" /\ Head(queue).pos >= applied
    => reflected = UpTo(Head(queue).pos)

(* Whatever position the client resumes after, or the agent believes it has   *)
(* seen, the events up to it are shown or wait to be applied.                 *)
Held == reflected \cup {queue[i].pos : i \in {j \in DOMAIN queue : queue[j].kind = "durable"}}
ResumesAfterWhatItHas ==
  phase \in {"subscribe", "open", "stream"}
    => UpTo(Larger(acked, sub)) \subseteq Held

(* The view is a reader of the log: every step of the stream, the client and  *)
(* the history pages is a commit, an advance, a fresh start or nothing.  So   *)
(* it shows exactly the events up to the position it claims, and none is      *)
(* skipped when a stream breaks, overflows, expires or starts over            *)
(* (docs/architecture/rpc-v4.md: no durable event is silently skipped).       *)
Reader == INSTANCE LogReader WITH pos <- applied, shown <- reflected
ReadsTheLog == Reader!Spec

(* What is committed is shown in the end, whatever broke in between, unless   *)
(* the view has given up and waits for the user to reload it.                 *)
EverythingArrives ==
  \A n \in 1..MaxSeq :
    (n <= High /\ log[n] \in Mine) ~> (n \in reflected \/ phase = "failed")
=============================================================================
