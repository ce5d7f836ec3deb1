--------------------------- MODULE EventStreamProofs ---------------------------
(* That no event is skipped on its way to a view, and that the view is a       *)
(* reader of the log, for any number of events, live events and faults.        *)
EXTENDS EventStream, SequenceTheorems, NatLemmas, TLAPS

-----------------------------------------------------------------------------
(* Numbers.                                                                  *)

LEMMA LargerProperties ==
  ASSUME NEW m \in Int, NEW n \in Int
  PROVE  /\ Larger(m, n) \in {m, n}
         /\ m <= Larger(m, n) /\ n <= Larger(m, n)
BY DEF Larger

-----------------------------------------------------------------------------
(* Events of the stream, and the order of sequences of messages.             *)

\* The events of the stream in a log l, up to position n.
Passed(l, n) == {m \in 1..n : l[m] \in Mine}

\* The durable events that arrive with the messages s, and with its first i.
Arriving(s) == {s[i].pos : i \in {j \in DOMAIN s : s[j].kind = "durable"}}
ArrivesBy(s, i, m) == \E j \in 1..i : s[j].kind = "durable" /\ s[j].pos = m

\* Behind no message of s is an event of its past that neither has arrived
\* before nor comes with a message before it.
Gapless(l, s, has) ==
  \A i \in 1..Len(s) : \A m \in Passed(l, s[i].pos) : m \in has \/ ArrivesBy(s, i, m)

\* Messages about positions of the log, the durable ones about events of the stream.
AboutLog(l, s) ==
  \A i \in 1..Len(s) : s[i].pos <= Len(l)
                       /\ (s[i].kind = "durable" => s[i].pos \in Passed(l, Len(l)))

LEMMA UpToIsPassed ==
  ASSUME log \in Seq(Kinds), NEW n \in 0..High \cup {None}
  PROVE  UpTo(n) = Passed(log, n)
<1>1. High \in Nat
  BY LenProperties DEF High
<1> QED  BY <1>1 DEF UpTo, Passed, None

LEMMA PassedGrows ==
  ASSUME NEW l, NEW m \in Int, NEW n \in Int, m <= n
  PROVE  Passed(l, m) \subseteq Passed(l, n)
BY DEF Passed

LEMMA PassedNothing == ASSUME NEW l PROVE Passed(l, 0) = {} /\ Passed(l, None) = {}
BY DEF Passed, None

\* A new event changes nothing about the positions before it.
LEMMA PassedKept ==
  ASSUME NEW l \in Seq(Kinds), NEW k \in Kinds, NEW n \in Int, n <= Len(l)
  PROVE  Passed(Append(l, k), n) = Passed(l, n)
<1>1. Len(l) \in Nat /\ \A i \in 1..Len(l) : Append(l, k)[i] = l[i]
  BY AppendProperties, LenProperties
<1> QED  BY <1>1 DEF Passed

LEMMA ArrivingIsArrivesBy ==
  ASSUME NEW s \in Seq(Messages), NEW m
  PROVE  m \in Arriving(s) <=> ArrivesBy(s, Len(s), m)
BY LenProperties DEF Arriving, ArrivesBy

LEMMA ArrivesByAppend ==
  ASSUME NEW s \in Seq(Messages), NEW e \in Messages, NEW i \in 1..Len(s), NEW m
  PROVE  ArrivesBy(Append(s, e), i, m) <=> ArrivesBy(s, i, m)
<1>1. Len(s) \in Nat /\ \A j \in 1..Len(s) : Append(s, e)[j] = s[j]
  BY AppendProperties, LenProperties
<1> QED  BY <1>1 DEF ArrivesBy

LEMMA ArrivingAppend ==
  ASSUME NEW s \in Seq(Messages), NEW e \in Messages
  PROVE  Arriving(Append(s, e))
         = Arriving(s) \cup (IF e.kind = "durable" THEN {e.pos} ELSE {})
<1> DEFINE t == Append(s, e)
<1>1. t \in Seq(Messages) /\ Len(t) = Len(s) + 1 /\ Len(s) \in Nat
      /\ (\A j \in 1..Len(s) : t[j] = s[j]) /\ t[Len(s) + 1] = e
  BY AppendProperties, LenProperties
<1> HIDE DEF t
<1>2. DOMAIN t = 1..(Len(s) + 1) /\ DOMAIN s = 1..Len(s)
  BY <1>1, LenProperties
<1> SUFFICES ASSUME NEW m
             PROVE  m \in Arriving(t)
                    <=> m \in Arriving(s) \/ (e.kind = "durable" /\ m = e.pos)
  BY DEF t
<1>3. ASSUME m \in Arriving(t) PROVE m \in Arriving(s) \/ (e.kind = "durable" /\ m = e.pos)
  <2>1. PICK j \in 1..(Len(s) + 1) : t[j].kind = "durable" /\ t[j].pos = m
    BY <1>2, <1>3 DEF Arriving
  <2>2. CASE j = Len(s) + 1
    BY <1>1, <2>1, <2>2
  <2>3. CASE j # Len(s) + 1
    <3>1. j \in 1..Len(s)
      BY <1>1, <2>3
    <3> QED  BY <1>1, <1>2, <2>1, <3>1 DEF Arriving
  <2> QED  BY <2>2, <2>3
<1>4. ASSUME m \in Arriving(s) PROVE m \in Arriving(t)
  <2>1. PICK j \in 1..Len(s) : s[j].kind = "durable" /\ s[j].pos = m
    BY <1>2, <1>4 DEF Arriving
  <2>2. j \in 1..(Len(s) + 1)
    BY <1>1
  <2> QED  BY <1>1, <1>2, <2>1, <2>2 DEF Arriving
<1>5. ASSUME e.kind = "durable", m = e.pos PROVE m \in Arriving(t)
  <2>1. Len(s) + 1 \in 1..(Len(s) + 1)
    BY <1>1
  <2> QED  BY <1>1, <1>2, <1>5, <2>1 DEF Arriving
<1> QED  BY <1>3, <1>4, <1>5

LEMMA ArrivingTail ==
  ASSUME NEW s \in Seq(Messages), s # <<>>
  PROVE  Arriving(s) = Arriving(Tail(s))
                       \cup (IF Head(s).kind = "durable" THEN {Head(s).pos} ELSE {})
<1> DEFINE t == Tail(s)
<1>1. t \in Seq(Messages) /\ Len(t) = Len(s) - 1 /\ (\A j \in 1..Len(t) : t[j] = s[j + 1])
      /\ Len(s) \in Nat \ {0}
  BY HeadTailProperties, LenProperties, EmptySeq
<1>2. Head(s) = s[1]
  OBVIOUS
<1> HIDE DEF t
<1>3. DOMAIN t = 1..Len(t) /\ DOMAIN s = 1..Len(s)
  BY <1>1, LenProperties
<1> SUFFICES ASSUME NEW m
             PROVE  m \in Arriving(s)
                    <=> m \in Arriving(t) \/ (s[1].kind = "durable" /\ m = s[1].pos)
  BY <1>2 DEF t
<1>4. ASSUME m \in Arriving(s) PROVE m \in Arriving(t) \/ (s[1].kind = "durable" /\ m = s[1].pos)
  <2>1. PICK j \in 1..Len(s) : s[j].kind = "durable" /\ s[j].pos = m
    BY <1>3, <1>4 DEF Arriving
  <2>2. CASE j # 1
    <3>1. j - 1 \in 1..Len(t) /\ (j - 1) + 1 = j
      BY <1>1, <2>2
    <3>2. t[j - 1] = s[j]
      BY <1>1, <3>1
    <3> QED  BY <1>3, <2>1, <3>1, <3>2 DEF Arriving
  <2> QED  BY <2>1, <2>2
<1>5. ASSUME m \in Arriving(t) PROVE m \in Arriving(s)
  <2>1. PICK j \in 1..Len(t) : t[j].kind = "durable" /\ t[j].pos = m
    BY <1>3, <1>5 DEF Arriving
  <2>2. j + 1 \in 1..Len(s) /\ t[j] = s[j + 1]
    BY <1>1
  <2> QED  BY <1>3, <2>1, <2>2 DEF Arriving
<1>6. ASSUME s[1].kind = "durable", m = s[1].pos PROVE m \in Arriving(s)
  BY <1>1, <1>3, <1>6 DEF Arriving
<1> QED  BY <1>4, <1>5, <1>6

LEMMA GaplessEmpty == ASSUME NEW l, NEW has PROVE Gapless(l, <<>>, has)
BY DEF Gapless

LEMMA GaplessGrows ==
  ASSUME NEW l, NEW s, NEW has, NEW more, has \subseteq more, Gapless(l, s, has)
  PROVE  Gapless(l, s, more)
BY DEF Gapless

LEMMA GaplessAppend ==
  ASSUME NEW l, NEW s \in Seq(Messages), NEW e \in Messages, NEW has,
         Gapless(l, s, has),
         Passed(l, e.pos) \subseteq has \cup Arriving(Append(s, e))
  PROVE  Gapless(l, Append(s, e), has)
<1> DEFINE t == Append(s, e)
<1>1. t \in Seq(Messages) /\ Len(t) = Len(s) + 1 /\ Len(s) \in Nat
      /\ (\A j \in 1..Len(s) : t[j] = s[j]) /\ t[Len(s) + 1] = e
  BY AppendProperties, LenProperties
<1> SUFFICES ASSUME NEW i \in 1..Len(t), NEW m \in Passed(l, t[i].pos)
             PROVE  m \in has \/ ArrivesBy(t, i, m)
  BY DEF Gapless
<1>2. CASE i \in 1..Len(s)
  <2>1. m \in has \/ ArrivesBy(s, i, m)
    BY <1>1, <1>2 DEF Gapless
  <2> QED  BY <1>2, <2>1, ArrivesByAppend
<1>3. CASE i \notin 1..Len(s)
  <2> HIDE DEF t
  <2>1. i = Len(t) /\ t[i] = e
    BY <1>1, <1>3
  <2>2. m \in has \/ m \in Arriving(t)
    BY <2>1 DEF t
  <2> QED  BY <1>1, <2>1, <2>2, ArrivingIsArrivesBy
<1> QED  BY <1>2, <1>3

LEMMA GaplessTail ==
  ASSUME NEW l, NEW s \in Seq(Messages), s # <<>>, NEW has, NEW more,
         Gapless(l, s, has), has \subseteq more,
         Head(s).kind = "durable" => Head(s).pos \in more
  PROVE  Gapless(l, Tail(s), more)
<1> DEFINE t == Tail(s)
<1>1. t \in Seq(Messages) /\ Len(t) = Len(s) - 1 /\ (\A j \in 1..Len(t) : t[j] = s[j + 1])
      /\ Len(s) \in Nat \ {0}
  BY HeadTailProperties, LenProperties, EmptySeq
<1>2. Head(s) = s[1]
  OBVIOUS
<1> HIDE DEF t
<1> SUFFICES ASSUME NEW i \in 1..Len(t), NEW m \in Passed(l, t[i].pos), m \notin more
             PROVE  ArrivesBy(t, i, m)
  BY DEF Gapless, t
<1>3. i + 1 \in 1..Len(s) /\ t[i] = s[i + 1]
  BY <1>1
<1>4. ArrivesBy(s, i + 1, m)
  BY <1>3 DEF Gapless
<1>5. PICK j \in 1..(i + 1) : s[j].kind = "durable" /\ s[j].pos = m
  BY <1>4 DEF ArrivesBy
<1>6. j # 1
  BY <1>2, <1>5
<1>7. j - 1 \in 1..i /\ j - 1 \in 1..Len(t) /\ (j - 1) + 1 = j
  BY <1>1, <1>6
<1>8. t[j - 1] = s[j]
  BY <1>1, <1>7
<1> QED  BY <1>5, <1>7, <1>8 DEF ArrivesBy

\* What the first message is about has arrived, or arrives with it.
LEMMA GaplessHead ==
  ASSUME NEW l, NEW s \in Seq(Messages), s # <<>>, NEW has, Gapless(l, s, has)
  PROVE  Passed(l, Head(s).pos)
         \subseteq has \cup (IF Head(s).kind = "durable" THEN {Head(s).pos} ELSE {})
<1>1. Head(s) = s[1] /\ 1 \in 1..Len(s)
  BY LenProperties, EmptySeq
<1>2. \A m : ArrivesBy(s, 1, m) => s[1].kind = "durable" /\ s[1].pos = m
  BY DEF ArrivesBy
<1> QED  BY <1>1, <1>2 DEF Gapless

\* A new event of the log leaves what is under way as it is.
LEMMA GaplessKept ==
  ASSUME NEW l \in Seq(Kinds), NEW k \in Kinds, NEW s \in Seq(Messages), NEW has,
         AboutLog(l, s), Gapless(l, s, has)
  PROVE  Gapless(Append(l, k), s, has)
<1> SUFFICES ASSUME NEW i \in 1..Len(s), NEW m \in Passed(Append(l, k), s[i].pos)
             PROVE  m \in has \/ ArrivesBy(s, i, m)
  BY DEF Gapless
<1>1. s[i] \in Messages
  BY ElementOfSeq
<1>2. s[i].pos \in Int /\ s[i].pos <= Len(l)
  BY <1>1 DEF AboutLog, Messages
<1> QED  BY <1>2, PassedKept DEF Gapless

LEMMA AboutLogKept ==
  ASSUME NEW l \in Seq(Kinds), NEW k \in Kinds, NEW s \in Seq(Messages), AboutLog(l, s)
  PROVE  AboutLog(Append(l, k), s)
<1>1. Len(l) \in Nat /\ Len(Append(l, k)) = Len(l) + 1
  BY AppendProperties, LenProperties
<1>2. Passed(Append(l, k), Len(l)) = Passed(l, Len(l))
  BY <1>1, PassedKept
<1>3. Passed(Append(l, k), Len(l)) \subseteq Passed(Append(l, k), Len(Append(l, k)))
  BY <1>1, PassedGrows
<1>4. ASSUME NEW i \in 1..Len(s), s[i].pos <= Len(l) PROVE s[i].pos <= Len(Append(l, k))
  <2>1. s[i] \in Messages
    BY ElementOfSeq
  <2>2. s[i].pos \in Nat
    BY <2>1 DEF Messages
  <2> QED  BY <1>1, <1>4, <2>2
<1> QED  BY <1>2, <1>3, <1>4 DEF AboutLog

LEMMA AboutLogAppend ==
  ASSUME NEW l \in Seq(Kinds), NEW s \in Seq(Messages), NEW e \in Messages,
         AboutLog(l, s), e.pos <= Len(l),
         e.kind = "durable" => e.pos \in Passed(l, Len(l))
  PROVE  AboutLog(l, Append(s, e))
<1>1. Len(Append(s, e)) = Len(s) + 1 /\ Len(s) \in Nat
      /\ (\A j \in 1..Len(s) : Append(s, e)[j] = s[j]) /\ Append(s, e)[Len(s) + 1] = e
  BY AppendProperties, LenProperties
<1> QED  BY <1>1 DEF AboutLog

LEMMA AboutLogTail ==
  ASSUME NEW l, NEW s \in Seq(Messages), s # <<>>, AboutLog(l, s)
  PROVE  /\ AboutLog(l, Tail(s))
         /\ Head(s).pos <= Len(l)
         /\ Head(s).kind = "durable" => Head(s).pos \in Passed(l, Len(l))
<1>1. Len(Tail(s)) = Len(s) - 1 /\ (\A j \in 1..Len(Tail(s)) : Tail(s)[j] = s[j + 1])
      /\ Len(s) \in Nat \ {0} /\ Head(s) = s[1]
  BY HeadTailProperties, LenProperties, EmptySeq
<1>2. \A j \in 1..Len(Tail(s)) : j + 1 \in 1..Len(s)
  BY <1>1
<1> QED  BY <1>1, <1>2 DEF AboutLog

LEMMA AboutLogEmpty == ASSUME NEW l PROVE AboutLog(l, <<>>)
BY DEF AboutLog

-----------------------------------------------------------------------------
(* Types.                                                                    *)

\* No position anywhere is beyond the log.
TypeInv ==
  /\ TypeOK
  /\ AboutLog(log, wire) /\ AboutLog(log, queue)
  /\ reply.pos <= High

LEMMA InitTypes == Init => TypeInv
<1> SUFFICES ASSUME Init PROVE TypeInv
  OBVIOUS
<1>1. log \in Seq(Kinds) /\ High = 1
  BY DEF Init, Kinds, High
<1>2. buf \in Seq(0..High) /\ batch \in Seq(0..High) /\ wire \in Seq(Messages) /\ queue \in Seq(Messages)
  BY EmptySeq DEF Init
<1>3. lives \in 0..MaxLive /\ faults \in 0..MaxFaults
  BY BoundAssumption DEF Init
<1>4. AboutLog(log, wire) /\ AboutLog(log, queue)
  BY AboutLogEmpty DEF Init
<1>5. /\ sub = None /\ pc = "off" /\ cursor = 0 /\ goal = 0 /\ page = None /\ older = None
      /\ phase = "reload" /\ pending = 0 /\ acked = 0 /\ applied = 0 /\ reflected = {}
      /\ reply = [pos |-> -1, current |-> FALSE]
  BY DEF Init, NoReply, None
<1>6. replayed \in BOOLEAN /\ over \in BOOLEAN /\ timer \in BOOLEAN
  BY DEF Init
<1>7. TypeOK
  BY <1>1, <1>2, <1>3, <1>5, <1>6 DEF TypeOK, None
<1> QED  BY <1>1, <1>4, <1>5, <1>7 DEF TypeInv

\* A fault and a live event are counted.
LEMMA FaultType == ASSUME TypeOK, Fault PROVE faults' \in 0..MaxFaults
BY BoundAssumption DEF TypeOK, Fault

LEMMA CommitTypes == ASSUME TypeInv, Commit PROVE TypeInv'
<1>1. PICK k \in Kinds : log' = Append(log, k)
  BY DEF Commit
<1>2. log \in Seq(Kinds) /\ wire \in Seq(Messages) /\ queue \in Seq(Messages)
  BY DEF TypeInv, TypeOK
<1>3. log' \in Seq(Kinds) /\ High \in Nat /\ High' = High + 1
  BY <1>1, <1>2, AppendProperties, LenProperties DEF High
<1>4. UNCHANGED <<sub, pc, cursor, goal, replayed, buf, batch, over, wire, phase, page, older,
                  pending, acked, timer, reply, queue, applied, reflected, lives, faults>>
  BY DEF Commit, agentVars, viewVars, counters
<1>5. AboutLog(log, wire)' /\ AboutLog(log, queue)'
  BY <1>1, <1>2, <1>4, AboutLogKept DEF TypeInv
<1>6. 0..High \subseteq 0..High' /\ 1..High \subseteq 1..High'
  BY <1>3
<1>7. buf' \in Seq(0..High') /\ batch' \in Seq(0..High')
  BY <1>4, <1>6, SeqMonotonic DEF TypeInv, TypeOK
<1>8. reply'.pos <= High'
  BY <1>3, <1>4 DEF TypeInv, TypeOK, None
<1>9. TypeOK'
  BY <1>2, <1>3, <1>4, <1>6, <1>7 DEF TypeInv, TypeOK
<1> QED  BY <1>5, <1>8, <1>9 DEF TypeInv

\* The steps that do not append to the log.
Steps ==
  \/ PublishLive
  \/ OpenStream \/ LoopCloses \/ LoopTurns \/ DeliverDurable \/ ReplayEnds
  \/ DeliverLive \/ LiveEnds \/ TailEnds
  \/ Subscribe \/ OpenRefused \/ ReceiveEvent \/ ReceiveReplayed \/ ReceiveClosed
  \/ SendAck \/ AckAnswered
  \/ Break \/ DropSubscription \/ AckLost
  \/ Flush \/ ReadPage \/ ShowPage \/ PageFails \/ Reload \/ ReadOlder \/ ShowOlder

\* What the stream passes next is an event of the log it has not passed.
LEMMA AheadProperties ==
  ASSUME TypeInv, NEW n \in 0..High, Ahead(n) # {}
  PROVE  /\ Min(Ahead(n)) \in Passed(log, n)
         /\ Min(Ahead(n)) > cursor
         /\ Min(Ahead(n)) \in 1..High
         /\ \A m \in Ahead(n) : Min(Ahead(n)) <= m
<1>1. High \in Nat
  BY LenProperties DEF High, TypeInv, TypeOK
<1>2. UpTo(n) = Passed(log, n)
  BY UpToIsPassed DEF TypeInv, TypeOK
<1>3. Ahead(n) \in SUBSET Nat
  BY <1>1 DEF Ahead, UpTo
<1>4. Min(Ahead(n)) \in Ahead(n) /\ \A m \in Ahead(n) : Min(Ahead(n)) <= m
  BY <1>3, MinIsLeast
<1> QED  BY <1>1, <1>2, <1>4 DEF Ahead, UpTo

\* Heads and tails of what is under way.
LEMMA QueuesTypes ==
  ASSUME TypeInv
  PROVE  /\ High \in Nat
         /\ wire # <<>> => /\ Head(wire) \in Messages /\ Head(wire).pos \in 0..High
                           /\ Tail(wire) \in Seq(Messages) /\ AboutLog(log, Tail(wire))
                           /\ Head(wire).kind = "durable" => Head(wire).pos \in Passed(log, High)
         /\ queue # <<>> => /\ Head(queue) \in Messages /\ Head(queue).pos \in 0..High
                            /\ Tail(queue) \in Seq(Messages) /\ AboutLog(log, Tail(queue))
                            /\ Head(queue).kind = "durable" => Head(queue).pos \in Passed(log, High)
         /\ batch # <<>> => Head(batch) \in 0..High /\ Tail(batch) \in Seq(0..High)
         /\ \A n \in 0..High : Append(buf, n) \in Seq(0..High)
<1>1. High \in Nat
  BY LenProperties DEF High, TypeInv, TypeOK
<1>2. ASSUME wire # <<>>
      PROVE  /\ Head(wire) \in Messages /\ Head(wire).pos \in 0..High
             /\ Tail(wire) \in Seq(Messages) /\ AboutLog(log, Tail(wire))
             /\ Head(wire).kind = "durable" => Head(wire).pos \in Passed(log, High)
  <2>1. Head(wire) \in Messages /\ Tail(wire) \in Seq(Messages)
    BY <1>2, HeadTailProperties DEF TypeInv, TypeOK
  <2>2. Head(wire).pos \in Nat
    BY <2>1 DEF Messages
  <2> QED  BY <1>1, <1>2, <2>1, <2>2, AboutLogTail DEF TypeInv, TypeOK, High
<1>3. ASSUME queue # <<>>
      PROVE  /\ Head(queue) \in Messages /\ Head(queue).pos \in 0..High
             /\ Tail(queue) \in Seq(Messages) /\ AboutLog(log, Tail(queue))
             /\ Head(queue).kind = "durable" => Head(queue).pos \in Passed(log, High)
  <2>1. Head(queue) \in Messages /\ Tail(queue) \in Seq(Messages)
    BY <1>3, HeadTailProperties DEF TypeInv, TypeOK
  <2>2. Head(queue).pos \in Nat
    BY <2>1 DEF Messages
  <2> QED  BY <1>1, <1>3, <2>1, <2>2, AboutLogTail DEF TypeInv, TypeOK, High
<1>4. batch # <<>> => Head(batch) \in 0..High /\ Tail(batch) \in Seq(0..High)
  BY HeadTailProperties DEF TypeInv, TypeOK
<1>5. \A n \in 0..High : Append(buf, n) \in Seq(0..High)
  BY AppendProperties DEF TypeInv, TypeOK
<1> QED  BY <1>1, <1>2, <1>3, <1>4, <1>5

LEMMA LargerType ==
  ASSUME NEW h \in Nat, NEW m \in 0..h \cup {None}, NEW n \in 0..h
  PROVE  Larger(m, n) \in 0..h /\ Larger(n, m) \in 0..h
BY DEF Larger, None

\* The loop of the stream has a durable event to write.
Delivers ==
  \E n \in {goal, Head(batch)} :
    Ahead(n) # {} /\ cursor' = Min(Ahead(n)) /\ (batch # <<>> \/ n = goal)

\* What a step writes to the stream: nothing, one more notification, or the
\* client has read one or closed it.
LEMMA WireStep ==
  ASSUME Steps
  PROVE  \/ wire' = wire \/ wire' = <<>>
         \/ wire # <<>> /\ wire' = Tail(wire)
         \/ \E kind \in {"durable", "live", "replayed", "closed"} :
              Write(kind, cursor') /\ (kind = "durable" => Delivers)
         \/ Write("closed", cursor)
<1>1. CASE DeliverDurable
  BY <1>1 DEF DeliverDurable, DeliverNext, Delivers
<1>2. CASE DeliverLive
  BY <1>2 DEF DeliverLive, DeliverNext, Delivers, Write
<1>3. CASE ReplayEnds
  BY <1>3 DEF ReplayEnds
<1>4. CASE LoopCloses
  BY <1>4 DEF LoopCloses, ClosedAt
<1>5. CASE ~(DeliverDurable \/ DeliverLive \/ ReplayEnds \/ LoopCloses)
  BY <1>5 DEF Steps, PublishLive, OpenStream, LoopCloses, LoopTurns, DeliverDurable, ReplayEnds, DeliverLive,
      LiveEnds, TailEnds, Subscribe, OpenRefused, ReceiveEvent, ReceiveReplayed, ReceiveClosed,
      SendAck, AckAnswered, Break, DropSubscription, AckLost, Flush, ReadPage, ShowPage,
      PageFails, Reload, ReadOlder, ShowOlder, Reconnect, StreamGone, agentVars, viewVars, counters, ReadNext
<1> QED  BY <1>1, <1>2, <1>3, <1>4, <1>5

LEMMA CursorStep ==
  ASSUME Steps
  PROVE  \/ cursor' \in {0, cursor}
         \/ cursor' = sub /\ sub # None
         \/ cursor' = Larger(cursor, goal)
         \/ batch # <<>> /\ cursor' = Head(batch)
         \/ Delivers
<1>1. CASE DeliverDurable
  BY <1>1 DEF DeliverDurable, DeliverNext, Delivers
<1>2. CASE DeliverLive
  BY <1>2 DEF DeliverLive, DeliverNext, Delivers
<1>3. CASE ~(DeliverDurable \/ DeliverLive)
  BY <1>3 DEF Steps, PublishLive, OpenStream, LoopCloses, LoopTurns, DeliverDurable, ReplayEnds, DeliverLive,
      LiveEnds, TailEnds, Subscribe, OpenRefused, ReceiveEvent, ReceiveReplayed, ReceiveClosed,
      SendAck, AckAnswered, Break, DropSubscription, AckLost, Flush, ReadPage, ShowPage,
      PageFails, Reload, ReadOlder, ShowOlder, Reconnect, StreamGone, agentVars, viewVars, counters
<1> QED  BY <1>1, <1>2, <1>3

LEMMA StepTypes == ASSUME TypeInv, Steps PROVE TypeInv'
<1>1. log' = log /\ High' = High
  BY DEF Steps, PublishLive, OpenStream, LoopCloses, LoopTurns, DeliverDurable, ReplayEnds, DeliverLive,
      LiveEnds, TailEnds, Subscribe, OpenRefused, ReceiveEvent, ReceiveReplayed, ReceiveClosed,
      SendAck, AckAnswered, Break, DropSubscription, AckLost, Flush, ReadPage, ShowPage,
      PageFails, Reload, ReadOlder, ShowOlder, Reconnect, StreamGone, agentVars, viewVars, counters, High
<1>2. High \in Nat /\ log \in Seq(Kinds)
  BY QueuesTypes DEF TypeInv, TypeOK
<1>3. cursor' \in 0..High
  <2>1. batch # <<>> => Head(batch) \in 0..High
    BY QueuesTypes
  <2>2. cursor \in 0..High /\ goal \in 0..High /\ (sub # None => sub \in 0..High)
    BY DEF TypeInv, TypeOK
  <2>3. Larger(cursor, goal) \in 0..High
    BY <1>2, <2>2, LargerType
  <2>4. ASSUME NEW n \in 0..High, Ahead(n) # {} PROVE Min(Ahead(n)) \in 0..High
    BY <2>4, <1>2, AheadProperties
  <2> QED  BY <1>2, <2>1, <2>2, <2>3, <2>4, CursorStep DEF Delivers
<1>4. sub' \in 0..High \cup {None} /\ goal' \in 0..High
  <2>1. sub' \in {sub, acked, None} \/ (sub # None /\ sub' = Larger(sub, pending))
    BY DEF Steps, PublishLive, OpenStream, LoopCloses, LoopTurns, DeliverDurable, ReplayEnds, DeliverLive,
      LiveEnds, TailEnds, Subscribe, OpenRefused, ReceiveEvent, ReceiveReplayed, ReceiveClosed,
      SendAck, AckAnswered, Break, DropSubscription, AckLost, Flush, ReadPage, ShowPage,
      PageFails, Reload, ReadOlder, ShowOlder, Reconnect, StreamGone, agentVars, viewVars, counters
  <2>2. goal' \in {0, goal, High}
    BY DEF Steps, PublishLive, OpenStream, LoopCloses, LoopTurns, DeliverDurable, ReplayEnds, DeliverLive,
      LiveEnds, TailEnds, Subscribe, OpenRefused, ReceiveEvent, ReceiveReplayed, ReceiveClosed,
      SendAck, AckAnswered, Break, DropSubscription, AckLost, Flush, ReadPage, ShowPage,
      PageFails, Reload, ReadOlder, ShowOlder, Reconnect, StreamGone, agentVars, viewVars, counters, TailTarget
  <2>3. sub \in 0..High \cup {None} /\ acked \in 0..High /\ pending \in 0..High /\ goal \in 0..High
    BY DEF TypeInv, TypeOK
  <2>4. Larger(sub, pending) \in 0..High
    BY <1>2, <2>3, LargerType
  <2> QED  BY <1>2, <2>1, <2>2, <2>3, <2>4
<1>5. pending' \in 0..High /\ acked' \in 0..High /\ reply' \in [pos : 0..High \cup {None}, current : BOOLEAN]
  <2>1. pending' \in {0, pending} \/ (wire # <<>> /\ pending' = Larger(pending, Head(wire).pos))
    BY DEF Steps, PublishLive, OpenStream, LoopCloses, LoopTurns, DeliverDurable, ReplayEnds, DeliverLive,
      LiveEnds, TailEnds, Subscribe, OpenRefused, ReceiveEvent, ReceiveReplayed, ReceiveClosed,
      SendAck, AckAnswered, Break, DropSubscription, AckLost, Flush, ReadPage, ShowPage,
      PageFails, Reload, ReadOlder, ShowOlder, Reconnect, StreamGone, agentVars, viewVars, counters, ReadNext
  <2>2. \/ acked' \in {0, acked} \/ (page # None /\ acked' = page)
        \/ (reply # NoReply /\ acked' = Larger(acked, reply.pos))
    BY DEF Steps, PublishLive, OpenStream, LoopCloses, LoopTurns, DeliverDurable, ReplayEnds, DeliverLive,
      LiveEnds, TailEnds, Subscribe, OpenRefused, ReceiveEvent, ReceiveReplayed, ReceiveClosed,
      SendAck, AckAnswered, Break, DropSubscription, AckLost, Flush, ReadPage, ShowPage,
      PageFails, Reload, ReadOlder, ShowOlder, Reconnect, StreamGone, agentVars, viewVars, counters
  <2>3. \/ reply' \in {reply, NoReply, [pos |-> pending, current |-> TRUE]}
        \/ reply' = [reply EXCEPT !.current = FALSE]
    BY DEF Steps, PublishLive, OpenStream, LoopCloses, LoopTurns, DeliverDurable, ReplayEnds, DeliverLive,
      LiveEnds, TailEnds, Subscribe, OpenRefused, ReceiveEvent, ReceiveReplayed, ReceiveClosed,
      SendAck, AckAnswered, Break, DropSubscription, AckLost, Flush, ReadPage, ShowPage,
      PageFails, Reload, ReadOlder, ShowOlder, Reconnect, StreamGone, agentVars, viewVars, counters
  <2>4. /\ pending \in 0..High /\ acked \in 0..High /\ page \in 0..High \cup {None}
        /\ wire # <<>> => Head(wire).pos \in 0..High
    BY QueuesTypes DEF TypeInv, TypeOK
  <2>5. reply \in [pos : 0..High \cup {None}, current : BOOLEAN]
    BY <1>2 DEF TypeInv, TypeOK, None
  <2>6. reply.pos \in 0..High \cup {None}
    BY <2>5
  <2>7. pending' \in 0..High
    <3>1. wire # <<>> => Larger(pending, Head(wire).pos) \in 0..High
      BY <1>2, <2>4, LargerType
    <3> QED  BY <1>2, <2>1, <2>4, <3>1
  <2>8. acked' \in 0..High
    <3>1. Larger(acked, reply.pos) \in 0..High
      BY <1>2, <2>4, <2>6, LargerType
    <3> QED  BY <1>2, <2>2, <2>4, <3>1
  <2>9. reply' \in [pos : 0..High \cup {None}, current : BOOLEAN]
    <3>1. [reply EXCEPT !.current = FALSE] \in [pos : 0..High \cup {None}, current : BOOLEAN]
      BY <2>5
    <3>2. [pos |-> pending, current |-> TRUE] \in [pos : 0..High \cup {None}, current : BOOLEAN]
      BY <2>4
    <3>3. NoReply \in [pos : 0..High \cup {None}, current : BOOLEAN]
      BY DEF NoReply
    <3> QED  BY <2>3, <2>5, <3>1, <3>2, <3>3
  <2> QED  BY <2>7, <2>8, <2>9
<1>6. applied' \in 0..High /\ reflected' \subseteq 1..High
  <2>1. \/ applied' \in {0, applied} \/ (page # None /\ applied' = page)
        \/ (older # None /\ applied' = Larger(applied, older))
        \/ (queue # <<>> /\ applied' = Head(queue).pos)
    BY DEF Steps, PublishLive, OpenStream, LoopCloses, LoopTurns, DeliverDurable, ReplayEnds, DeliverLive,
      LiveEnds, TailEnds, Subscribe, OpenRefused, ReceiveEvent, ReceiveReplayed, ReceiveClosed,
      SendAck, AckAnswered, Break, DropSubscription, AckLost, Flush, ReadPage, ShowPage,
      PageFails, Reload, ReadOlder, ShowOlder, Reconnect, StreamGone, agentVars, viewVars, counters
  <2>2. \/ reflected' \in {{}, reflected, UpTo(page)}
        \/ /\ queue # <<>> /\ Head(queue).kind = "durable"
           /\ reflected' = reflected \cup {Head(queue).pos}
    BY DEF Steps, PublishLive, OpenStream, LoopCloses, LoopTurns, DeliverDurable, ReplayEnds, DeliverLive,
      LiveEnds, TailEnds, Subscribe, OpenRefused, ReceiveEvent, ReceiveReplayed, ReceiveClosed,
      SendAck, AckAnswered, Break, DropSubscription, AckLost, Flush, ReadPage, ShowPage,
      PageFails, Reload, ReadOlder, ShowOlder, Reconnect, StreamGone, agentVars, viewVars, counters, News
  <2>3. /\ applied \in 0..High /\ page \in 0..High \cup {None} /\ older \in 0..High \cup {None}
        /\ reflected \subseteq 1..High
    BY DEF TypeInv, TypeOK
  <2>4. queue # <<>> => /\ Head(queue).pos \in 0..High
                        /\ Head(queue).kind = "durable" => Head(queue).pos \in 1..High
    BY QueuesTypes DEF Passed
  <2>5. applied' \in 0..High
    <3>1. Larger(applied, older) \in 0..High
      BY <1>2, <2>3, LargerType
    <3> QED  BY <1>2, <2>1, <2>3, <2>4, <3>1
  <2> QED  BY <2>2, <2>3, <2>4, <2>5 DEF UpTo
<1>7. page' \in 0..High \cup {None} /\ older' \in 0..High \cup {None}
  <2>1. page' \in {None, page, High} /\ older' \in {None, older, High}
    BY DEF Steps, PublishLive, OpenStream, LoopCloses, LoopTurns, DeliverDurable, ReplayEnds, DeliverLive,
      LiveEnds, TailEnds, Subscribe, OpenRefused, ReceiveEvent, ReceiveReplayed, ReceiveClosed,
      SendAck, AckAnswered, Break, DropSubscription, AckLost, Flush, ReadPage, ShowPage,
      PageFails, Reload, ReadOlder, ShowOlder, Reconnect, StreamGone, agentVars, viewVars, counters
  <2> QED  BY <1>2, <2>1 DEF TypeInv, TypeOK
<1>8. pc' \in {"off", "check", "replay", "live", "tail"}
      /\ phase' \in {"reload", "failed", "subscribe", "open", "stream"}
  BY DEF Steps, PublishLive, OpenStream, LoopCloses, LoopTurns, DeliverDurable, ReplayEnds, DeliverLive,
      LiveEnds, TailEnds, Subscribe, OpenRefused, ReceiveEvent, ReceiveReplayed, ReceiveClosed,
      SendAck, AckAnswered, Break, DropSubscription, AckLost, Flush, ReadPage, ShowPage,
      PageFails, Reload, ReadOlder, ShowOlder, Reconnect, StreamGone, agentVars, viewVars, counters, TypeInv, TypeOK
<1>9. replayed' \in BOOLEAN /\ over' \in BOOLEAN /\ timer' \in BOOLEAN
  BY DEF Steps, PublishLive, OpenStream, LoopCloses, LoopTurns, DeliverDurable, ReplayEnds, DeliverLive,
      LiveEnds, TailEnds, Subscribe, OpenRefused, ReceiveEvent, ReceiveReplayed, ReceiveClosed,
      SendAck, AckAnswered, Break, DropSubscription, AckLost, Flush, ReadPage, ShowPage,
      PageFails, Reload, ReadOlder, ShowOlder, Reconnect, StreamGone, agentVars, viewVars, counters, TypeInv, TypeOK
<1>10. lives' \in 0..MaxLive /\ faults' \in 0..MaxFaults
  <2>1. (lives' = lives \/ (lives < MaxLive /\ lives' = lives + 1)) /\ (faults' = faults \/ Fault)
    BY DEF Steps, PublishLive, OpenStream, LoopCloses, LoopTurns, DeliverDurable, ReplayEnds, DeliverLive,
      LiveEnds, TailEnds, Subscribe, OpenRefused, ReceiveEvent, ReceiveReplayed, ReceiveClosed,
      SendAck, AckAnswered, Break, DropSubscription, AckLost, Flush, ReadPage, ShowPage,
      PageFails, Reload, ReadOlder, ShowOlder, Reconnect, StreamGone, agentVars, viewVars, counters, Fault
  <2>2. lives \in 0..MaxLive /\ faults \in 0..MaxFaults
    BY DEF TypeInv, TypeOK
  <2>3. lives' \in 0..MaxLive
    BY <2>1, <2>2, BoundAssumption
  <2>4. faults' \in 0..MaxFaults
    BY <2>1, <2>2, FaultType DEF TypeInv
  <2> QED  BY <2>3, <2>4
<1>11. buf' \in Seq(0..High) /\ batch' \in Seq(0..High)
  <2>1. \/ buf' \in {buf, <<>>, Append(buf, High)}
    BY DEF Steps, PublishLive, OpenStream, LoopCloses, LoopTurns, DeliverDurable, ReplayEnds, DeliverLive,
      LiveEnds, TailEnds, Subscribe, OpenRefused, ReceiveEvent, ReceiveReplayed, ReceiveClosed,
      SendAck, AckAnswered, Break, DropSubscription, AckLost, Flush, ReadPage, ShowPage,
      PageFails, Reload, ReadOlder, ShowOlder, Reconnect, StreamGone, agentVars, viewVars, counters, Anchor
  <2>2. \/ batch' \in {batch, buf, <<>>} \/ (batch # <<>> /\ batch' = Tail(batch))
    BY DEF Steps, PublishLive, OpenStream, LoopCloses, LoopTurns, DeliverDurable, ReplayEnds, DeliverLive,
      LiveEnds, TailEnds, Subscribe, OpenRefused, ReceiveEvent, ReceiveReplayed, ReceiveClosed,
      SendAck, AckAnswered, Break, DropSubscription, AckLost, Flush, ReadPage, ShowPage,
      PageFails, Reload, ReadOlder, ShowOlder, Reconnect, StreamGone, agentVars, viewVars, counters
  <2>3. High \in 0..High
    BY <1>2
  <2> QED  BY <2>1, <2>2, <2>3, QueuesTypes, EmptySeq DEF TypeInv, TypeOK
<1>12. queue' \in Seq(Messages) /\ AboutLog(log, queue')
  <2>1. \/ queue' \in {queue, <<>>} \/ (queue # <<>> /\ queue' = Tail(queue))
        \/ (wire # <<>> /\ queue' = Append(queue, Head(wire)))
    BY DEF Steps, PublishLive, OpenStream, LoopCloses, LoopTurns, DeliverDurable, ReplayEnds, DeliverLive,
      LiveEnds, TailEnds, Subscribe, OpenRefused, ReceiveEvent, ReceiveReplayed, ReceiveClosed,
      SendAck, AckAnswered, Break, DropSubscription, AckLost, Flush, ReadPage, ShowPage,
      PageFails, Reload, ReadOlder, ShowOlder, Reconnect, StreamGone, agentVars, viewVars, counters, ReadNext
  <2>2. CASE wire # <<>> /\ queue' = Append(queue, Head(wire))
    <3>1. Head(wire) \in Messages /\ Head(wire).pos <= Len(log)
          /\ (Head(wire).kind = "durable" => Head(wire).pos \in Passed(log, Len(log)))
      BY <2>2, QueuesTypes DEF High
    <3> QED  BY <1>2, <2>2, <3>1, AppendProperties, AboutLogAppend DEF TypeInv, TypeOK
  <2>3. CASE queue # <<>> /\ queue' = Tail(queue)
    BY <2>3, QueuesTypes
  <2>4. CASE queue' \in {queue, <<>>}
    BY <2>4, EmptySeq, AboutLogEmpty DEF TypeInv, TypeOK
  <2> QED  BY <2>1, <2>2, <2>3, <2>4
<1>13. wire' \in Seq(Messages) /\ AboutLog(log, wire')
  <2>1. CASE \E kind \in {"durable", "live", "replayed", "closed"} :
              Write(kind, cursor') /\ (kind = "durable" => Delivers)
    <3>1. PICK kind \in {"durable", "live", "replayed", "closed"} :
              Write(kind, cursor') /\ (kind = "durable" => Delivers)
      BY <2>1
    <3> DEFINE e == [kind |-> kind, pos |-> cursor']
    <3>2. e \in Messages /\ e.pos <= Len(log)
      BY <1>2, <1>3 DEF Messages, High
    <3>3. e.kind = "durable" => e.pos \in Passed(log, Len(log))
      <4>1. goal \in 0..High /\ (batch # <<>> => Head(batch) \in 0..High)
        BY QueuesTypes DEF TypeInv, TypeOK
      <4>2. ASSUME NEW n \in 0..High, Ahead(n) # {}
            PROVE  Min(Ahead(n)) \in Passed(log, High)
        <5>1. Min(Ahead(n)) \in Passed(log, n)
          BY <4>2, AheadProperties
        <5> QED  BY <1>2, <5>1, PassedGrows
      <4> QED  BY <3>1, <4>1, <4>2 DEF High, Delivers
    <3>4. wire' = Append(wire, e)
      BY <3>1 DEF Write
    <3> HIDE DEF e
    <3> QED  BY <1>2, <3>2, <3>3, <3>4, AppendProperties, AboutLogAppend DEF TypeInv, TypeOK
  <2>2. CASE Write("closed", cursor)
    <3> DEFINE e == [kind |-> "closed", pos |-> cursor]
    <3>1. e \in Messages /\ e.pos <= Len(log) /\ e.kind # "durable"
      BY <1>2 DEF Messages, High, TypeInv, TypeOK
    <3>2. wire' = Append(wire, e)
      BY <2>2 DEF Write
    <3> HIDE DEF e
    <3> QED  BY <1>2, <3>1, <3>2, AppendProperties, AboutLogAppend DEF TypeInv, TypeOK
  <2>3. CASE wire # <<>> /\ wire' = Tail(wire)
    BY <2>3, QueuesTypes
  <2>4. CASE wire' \in {wire, <<>>}
    BY <2>4, EmptySeq, AboutLogEmpty DEF TypeInv, TypeOK
  <2> QED  BY <2>1, <2>2, <2>3, <2>4, WireStep
<1>14. TypeOK'
  <2>1. reply' \in [pos : Nat \cup {None}, current : BOOLEAN]
    BY <1>5
  <2> QED  BY <1>1, <1>2, <1>3, <1>4, <1>5, <1>6, <1>7, <1>8, <1>9, <1>10, <1>11, <1>12, <1>13, <2>1
           DEF TypeOK
<1>15. reply'.pos <= High
  BY <1>2, <1>5 DEF None
<1> QED  BY <1>1, <1>12, <1>13, <1>14, <1>15 DEF TypeInv

-----------------------------------------------------------------------------
(* Nothing is skipped.                                                       *)

Subscribed == phase \in {"subscribe", "open", "stream"}

\* A view without a subscription has nothing under way to it.
PhaseInv ==
  /\ ~Subscribed => /\ pending = 0 /\ acked = 0 /\ reply = NoReply /\ queue = <<>>
                    /\ older = None /\ sub = None
  /\ phase # "stream" => wire = <<>> /\ pc = "off"
  /\ page # None => phase = "reload" /\ page >= applied

\* The view shows the events up to its position, an older page brings no others.
ViewInv ==
  /\ reflected = Passed(log, applied)
  /\ older # None => Passed(log, older) \subseteq reflected

\* What the client or the agent takes for received has been received.
HeldInv ==
  Subscribed => \A n \in {sub, acked, pending, reply.pos} : Passed(log, n) \subseteq Held

\* Every message, in the queue or on the wire, comes after its past, and the
\* stream has passed nothing it has not written.
StreamInv ==
  /\ Gapless(log, queue, reflected)
  /\ Gapless(log, wire, Held)
  /\ pc # "off" => Passed(log, cursor) \subseteq Held \cup Arriving(wire)

Inv == TypeInv /\ PhaseInv /\ ViewInv /\ HeldInv /\ StreamInv

LEMMA HeldIs == Held = reflected \cup Arriving(queue)
BY DEF Held, Arriving

LEMMA InitInv == Init => Inv
<1> SUFFICES ASSUME Init PROVE Inv
  OBVIOUS
<1>1. TypeInv
  BY InitTypes
<1>2. PhaseInv
  BY DEF Init, PhaseInv, Subscribed
<1>3. ViewInv
  BY PassedNothing DEF Init, ViewInv
<1>4. HeldInv
  BY DEF Init, HeldInv, Subscribed
<1>5. StreamInv
  BY GaplessEmpty DEF Init, StreamInv
<1> QED  BY <1>1, <1>2, <1>3, <1>4, <1>5 DEF Inv

LEMMA StepPhase == ASSUME TypeInv, PhaseInv, Steps PROVE PhaseInv'
<1>1. CASE PublishLive \/ LoopCloses \/ LoopTurns \/ DeliverDurable \/ ReplayEnds \/ DeliverLive \/ LiveEnds \/ TailEnds
  BY <1>1 DEF PhaseInv, Subscribed, PublishLive, LoopCloses, LoopTurns, DeliverDurable, ReplayEnds,
         DeliverLive, LiveEnds, TailEnds, StreamGone, viewVars
<1>2. CASE OpenStream \/ Subscribe \/ OpenRefused \/ Break \/ DropSubscription \/ AckLost
  BY <1>2 DEF PhaseInv, Subscribed, OpenStream, Subscribe, OpenRefused, Break, DropSubscription,
         AckLost, Reconnect, StreamGone, NoReply, viewVars, agentVars
<1>3. CASE ReceiveEvent \/ ReceiveReplayed \/ ReceiveClosed \/ SendAck \/ AckAnswered
  BY <1>3 DEF PhaseInv, Subscribed, ReceiveEvent, ReceiveReplayed, ReceiveClosed, SendAck,
         AckAnswered, ReadNext, Reconnect, StreamGone, viewVars, agentVars
<1>4. CASE Flush
  BY <1>4 DEF PhaseInv, Subscribed, Flush, agentVars
<1>5. CASE ReadPage
  <2>1. High >= applied /\ High # None
    BY QueuesTypes DEF TypeInv, TypeOK, None
  <2> QED  BY <1>5, <2>1 DEF PhaseInv, Subscribed, ReadPage, agentVars, viewVars
<1>6. CASE ShowPage \/ PageFails \/ Reload \/ ReadOlder \/ ShowOlder
  BY <1>6 DEF PhaseInv, Subscribed, ShowPage, PageFails, Reload, ReadOlder, ShowOlder, StreamGone,
         agentVars, viewVars
<1> QED  BY <1>1, <1>2, <1>3, <1>4, <1>5, <1>6 DEF Steps

\* A new event is beyond every position.
LEMMA CommitInv == ASSUME Inv, Commit PROVE Inv'
<1>1. PICK k \in Kinds : log' = Append(log, k)
  BY DEF Commit
<1>2. log \in Seq(Kinds) /\ wire \in Seq(Messages) /\ queue \in Seq(Messages) /\ High \in Nat
  BY QueuesTypes DEF Inv, TypeInv, TypeOK
<1>3. UNCHANGED <<sub, pc, cursor, goal, replayed, buf, batch, over, wire, phase, page, older,
                  pending, acked, timer, reply, queue, applied, reflected, lives, faults>>
  BY DEF Commit, agentVars, viewVars, counters
<1>4. Held' = Held
  BY <1>3, HeldIs DEF Held
<1>5. ASSUME NEW n \in Int, n <= High PROVE Passed(log', n) = Passed(log, n)
  BY <1>1, <1>2, <1>5, PassedKept DEF High
<1>6. /\ applied \in Int /\ applied <= High /\ cursor \in Int /\ cursor <= High
      /\ sub \in Int /\ sub <= High /\ acked \in Int /\ acked <= High
      /\ pending \in Int /\ pending <= High /\ reply.pos \in Int /\ reply.pos <= High
      /\ older \in Int /\ older <= High
  <2>1. reply.pos \in Int /\ reply.pos <= High
    BY DEF Inv, TypeInv, TypeOK, None
  <2> QED  BY <1>2, <2>1 DEF Inv, TypeInv, TypeOK, None
<1>7. TypeInv'
  BY CommitTypes DEF Inv
<1>8. PhaseInv'
  BY <1>3 DEF Inv, PhaseInv, Subscribed
<1>9. ViewInv'
  BY <1>3, <1>5, <1>6 DEF Inv, ViewInv
<1>10. HeldInv'
  BY <1>3, <1>4, <1>5, <1>6 DEF Inv, HeldInv, Subscribed
<1>11. StreamInv'
  BY <1>1, <1>2, <1>3, <1>4, <1>5, <1>6, GaplessKept DEF Inv, StreamInv, TypeInv
<1> QED  BY <1>7, <1>8, <1>9, <1>10, <1>11 DEF Inv

\* Where the stream stands after it has written the next durable event.
LEMMA Delivering ==
  ASSUME Inv, NEW n \in 0..High, DeliverNext(n), pc # "off"
  PROVE  /\ Passed(log, cursor') \subseteq Held \cup Arriving(wire')
         /\ Gapless(log, wire', Held)
<1> DEFINE c == Min(Ahead(n))
           e == [kind |-> "durable", pos |-> c]
<1>1. cursor' = c /\ wire' = Append(wire, e)
  BY DEF DeliverNext, Write
<1>2. c \in Passed(log, n) /\ c > cursor /\ c \in 1..High /\ \A m \in Ahead(n) : c <= m
  BY AheadProperties DEF DeliverNext, Inv
<1>3. e \in Messages /\ e.kind = "durable" /\ e.pos = c
  BY <1>2 DEF Messages
<1>4. wire \in Seq(Messages) /\ log \in Seq(Kinds) /\ High \in Nat /\ cursor \in Nat
  BY QueuesTypes DEF Inv, TypeInv, TypeOK
<1>5. UpTo(n) = Passed(log, n)
  BY <1>4, UpToIsPassed
<1> HIDE DEF c, e
<1>6. Arriving(wire') = Arriving(wire) \cup {c}
  BY <1>1, <1>3, <1>4, ArrivingAppend
<1>7. ASSUME NEW m \in Passed(log, c), m > cursor PROVE m = c
  <2>1. m \in Passed(log, n)
    BY <1>2 DEF Passed
  <2>2. m \in Ahead(n)
    BY <1>5, <1>7, <2>1 DEF Ahead
  <2> QED  BY <1>2, <2>2 DEF Passed
<1>8. ASSUME NEW m \in Passed(log, c), ~(m > cursor) PROVE m \in Passed(log, cursor)
  BY <1>2, <1>4, <1>8 DEF Passed
<1>9. Passed(log, c) \subseteq Held \cup Arriving(wire')
  BY <1>6, <1>7, <1>8 DEF Inv, StreamInv
<1>10. Gapless(log, wire', Held)
  BY <1>1, <1>3, <1>4, <1>9, GaplessAppend DEF Inv, StreamInv
<1> QED  BY <1>1, <1>9, <1>10

\* With nothing left before n the stream may stand at n.
LEMMA Jumping ==
  ASSUME Inv, NEW n \in 0..High, Ahead(n) = {}, pc # "off"
  PROVE  /\ Passed(log, n) \subseteq Held \cup Arriving(wire)
         /\ Passed(log, Larger(cursor, n)) \subseteq Held \cup Arriving(wire)
<1>1. log \in Seq(Kinds) /\ cursor \in Nat
  BY QueuesTypes DEF Inv, TypeInv, TypeOK
<1>2. UpTo(n) = Passed(log, n)
  BY <1>1, UpToIsPassed
<1>3. Passed(log, n) \subseteq Passed(log, cursor)
  BY <1>1, <1>2 DEF Ahead, Passed
<1> QED  BY <1>1, <1>3 DEF Larger, Inv, StreamInv

\* A message that is no event, or a live one, about where the stream stands.
LEMMA Telling ==
  ASSUME Inv, NEW kind \in {"live", "replayed", "closed"}, NEW n \in 0..High, Write(kind, n),
         Passed(log, n) \subseteq Held \cup Arriving(wire)
  PROVE  /\ Arriving(wire') = Arriving(wire)
         /\ Gapless(log, wire', Held)
<1> DEFINE e == [kind |-> kind, pos |-> n]
<1>1. e \in Messages /\ e.kind # "durable" /\ e.pos = n /\ wire' = Append(wire, e)
  BY QueuesTypes DEF Messages, Write, Inv
<1>2. wire \in Seq(Messages)
  BY DEF Inv, TypeInv, TypeOK
<1> HIDE DEF e
<1>3. Arriving(wire') = Arriving(wire)
  BY <1>1, <1>2, ArrivingAppend
<1> QED  BY <1>1, <1>2, <1>3, GaplessAppend DEF Inv, StreamInv

\* The steps of the agent's stream.
StreamSteps ==
  \/ PublishLive \/ OpenStream \/ LoopCloses \/ LoopTurns \/ DeliverDurable \/ ReplayEnds
  \/ DeliverLive \/ LiveEnds \/ TailEnds

LEMMA StreamStays ==
  ASSUME StreamSteps
  PROVE  UNCHANGED <<log, queue, applied, reflected, older, sub, acked, pending, reply>>
         /\ (Subscribed' => Subscribed)
<1>1. CASE PublishLive \/ OpenStream \/ LoopCloses \/ LoopTurns
  BY <1>1 DEF PublishLive, OpenStream, LoopCloses, LoopTurns, viewVars, counters, Subscribed
<1>2. CASE DeliverDurable \/ ReplayEnds \/ DeliverLive \/ LiveEnds \/ TailEnds
  BY <1>2 DEF DeliverDurable, ReplayEnds, DeliverLive, LiveEnds, TailEnds, viewVars, counters,
         Subscribed
<1> QED  BY <1>1, <1>2 DEF StreamSteps

LEMMA StreamKeeps == ASSUME Inv, StreamSteps PROVE ViewInv' /\ HeldInv' /\ StreamInv'
<1>1. UNCHANGED <<log, queue, applied, reflected, older, sub, acked, pending, reply>>
      /\ (Subscribed' => Subscribed)
  BY StreamStays
<1>2. Held' = Held
  BY <1>1 DEF Held
<1>3. ViewInv' /\ HeldInv'
  BY <1>1, <1>2 DEF ViewInv, HeldInv, Inv
<1>4. cursor \in 0..High /\ goal \in 0..High /\ (batch # <<>> => Head(batch) \in 0..High)
      /\ High \in Nat
  BY QueuesTypes DEF Inv, TypeInv, TypeOK
<1>5. Gapless(log, wire', Held) /\ (pc' # "off" => Passed(log, cursor') \subseteq Held \cup Arriving(wire'))
  <2>1. CASE DeliverDurable
    <3>1. DeliverNext(goal) /\ pc # "off"
      BY <2>1 DEF DeliverDurable
    <3> QED  BY <1>4, <3>1, Delivering
  <2>2. CASE ReplayEnds
    <3>1. /\ Ahead(goal) = {} /\ pc # "off" /\ cursor' = Larger(cursor, goal)
          /\ Write("replayed", cursor')
      BY <2>2 DEF ReplayEnds
    <3>2. Passed(log, cursor') \subseteq Held \cup Arriving(wire)
      BY <1>4, <3>1, Jumping
    <3>3. cursor' \in 0..High
      BY <1>4, <3>1, LargerType
    <3> QED  BY <3>1, <3>2, <3>3, Telling
  <2>3. CASE DeliverLive
    <3>1. batch # <<>> /\ pc # "off" /\ pc' = pc
      BY <2>3 DEF DeliverLive
    <3>2. CASE UNCHANGED <<cursor, wire>>
      BY <3>1, <3>2 DEF Inv, StreamInv
    <3>3. CASE DeliverNext(Head(batch))
      BY <1>4, <3>1, <3>3, Delivering
    <3>4. CASE Ahead(Head(batch)) = {} /\ cursor' = Head(batch) /\ Write("live", Head(batch))
      <4>1. Passed(log, cursor') \subseteq Held \cup Arriving(wire)
        BY <1>4, <3>1, <3>4, Jumping
      <4> QED  BY <1>4, <3>1, <3>4, <4>1, Telling
    <3> QED  BY <2>3, <3>2, <3>3, <3>4 DEF DeliverLive, Due
  <2>4. CASE LoopCloses
    <3>1. Write("closed", cursor) /\ pc' = "off" /\ pc # "off"
      BY <2>4 DEF LoopCloses, StreamGone, ClosedAt
    <3> QED  BY <1>4, <3>1, Telling DEF Inv, StreamInv
  <2>5. CASE TailEnds
    <3>1. Ahead(goal) = {} /\ pc # "off" /\ cursor' = Larger(cursor, goal) /\ wire' = wire
      BY <2>5 DEF TailEnds
    <3> QED  BY <1>4, <3>1, Jumping DEF Inv, StreamInv
  <2>6. CASE OpenStream
    <3>1. phase = "open" /\ cursor' = sub /\ wire' = wire
      BY <2>6 DEF OpenStream
    <3>2. Passed(log, sub) \subseteq Held
      BY <3>1 DEF Inv, HeldInv, Subscribed
    <3> QED  BY <3>1, <3>2 DEF Inv, StreamInv
  <2>7. CASE PublishLive \/ LoopTurns \/ LiveEnds
    <3>1. UNCHANGED <<wire, cursor>> /\ (pc' # "off" => pc # "off")
      BY <2>7 DEF PublishLive, LoopTurns, LiveEnds
    <3> QED  BY <3>1 DEF Inv, StreamInv
  <2> QED  BY <2>1, <2>2, <2>3, <2>4, <2>5, <2>6, <2>7 DEF StreamSteps
<1>6. StreamInv'
  BY <1>1, <1>2, <1>5 DEF Inv, StreamInv
<1> QED  BY <1>3, <1>6

\* The steps of the client that hand no event to the view.
ClientSteps ==
  \/ Subscribe \/ OpenRefused \/ ReceiveReplayed \/ ReceiveClosed \/ SendAck \/ AckAnswered
  \/ Break \/ DropSubscription \/ AckLost

\* Each of them reads a notification, closes the stream or leaves it alone.
LEMMA ClientStays ==
  ASSUME PhaseInv, ClientSteps
  PROVE  /\ UNCHANGED <<log, queue, applied, reflected, older>>
         /\ (Subscribed' /\ Subscribed) \/ (~Subscribed /\ UNCHANGED <<phase, wire, cursor, pc>>)
         /\ \/ wire # <<>> /\ wire' = Tail(wire) /\ Head(wire).kind = "replayed" /\ UNCHANGED <<pc, cursor>>
            \/ wire' = <<>> /\ pc' = "off"
            \/ UNCHANGED <<wire, cursor, pc>>
<1>1. CASE Subscribe \/ OpenRefused \/ ReceiveReplayed \/ ReceiveClosed
  BY <1>1 DEF Subscribe, OpenRefused, ReceiveReplayed, ReceiveClosed, ReadNext, Reconnect, StreamGone,
         viewVars, agentVars, counters, Subscribed
<1>2. CASE SendAck \/ AckAnswered
  BY <1>2 DEF SendAck, AckAnswered, Reconnect, StreamGone, viewVars, agentVars, counters, Subscribed,
         PhaseInv
<1>3. CASE Break \/ DropSubscription \/ AckLost
  BY <1>3 DEF Break, DropSubscription, AckLost, Reconnect, StreamGone, viewVars, agentVars, Subscribed,
         PhaseInv
<1> QED  BY <1>1, <1>2, <1>3 DEF ClientSteps

\* Positions whose past has been received.
LEMMA LargerHeld ==
  ASSUME NEW m \in Int, NEW n \in Int, Passed(log, m) \subseteq Held, Passed(log, n) \subseteq Held
  PROVE  Passed(log, Larger(m, n)) \subseteq Held
BY DEF Larger

\* Where a position of the client or the agent comes from.
LEMMA ClientPositions ==
  ASSUME TypeInv, ClientSteps, NEW n \in {sub', acked', pending', reply'.pos}
  PROVE  \/ n \in {sub, acked, pending, reply.pos, None, 0}
         \/ n \in {Larger(sub, pending), Larger(acked, reply.pos)}
         \/ wire # <<>> /\ Head(wire).kind \in {"replayed", "closed"} /\ n = Larger(pending, Head(wire).pos)
<1> DEFINE R == [reply EXCEPT !.current = FALSE]
<1>0. R.pos = reply.pos
  BY DEF TypeInv, TypeOK
<1> HIDE DEF R
<1>1. CASE Subscribe \/ OpenRefused \/ Break \/ DropSubscription
  <2>1. /\ sub' \in {sub, acked, None} /\ acked' = acked /\ pending' = pending /\ reply' \in {reply, R}
    BY <1>1 DEF Subscribe, OpenRefused, Break, DropSubscription, Reconnect, StreamGone, agentVars, R
  <2> QED  BY <1>0, <2>1
<1>2. CASE ReceiveReplayed \/ ReceiveClosed
  <2>1. /\ sub' \in {sub, None} /\ acked' = acked /\ reply' \in {reply, R}
        /\ wire # <<>> /\ Head(wire).kind \in {"replayed", "closed"}
        /\ pending' = Larger(pending, Head(wire).pos)
    BY <1>2 DEF ReceiveReplayed, ReceiveClosed, ReadNext, Reconnect, StreamGone, agentVars, R
  <2> QED  BY <1>0, <2>1
<1>3. CASE SendAck
  <2>1. /\ acked' = acked /\ pending' = pending
        /\ \/ sub' = Larger(sub, pending) /\ reply' = [pos |-> pending, current |-> TRUE]
           \/ sub' = None /\ reply' = R
    BY <1>3 DEF SendAck, Reconnect, StreamGone, R
  <2> QED  BY <1>0, <2>1
<1>4. CASE AckAnswered \/ AckLost
  BY <1>4 DEF AckAnswered, AckLost, NoReply, StreamGone, agentVars
<1> QED  BY <1>1, <1>2, <1>3, <1>4 DEF ClientSteps

LEMMA ClientKeeps == ASSUME Inv, ClientSteps PROVE ViewInv' /\ HeldInv' /\ StreamInv'
<1>1. /\ UNCHANGED <<log, queue, applied, reflected, older>>
      /\ (Subscribed' /\ Subscribed) \/ (~Subscribed /\ UNCHANGED <<phase, wire, cursor, pc>>)
      /\ \/ wire # <<>> /\ wire' = Tail(wire) /\ Head(wire).kind = "replayed" /\ UNCHANGED <<pc, cursor>>
         \/ wire' = <<>> /\ pc' = "off"
         \/ UNCHANGED <<wire, cursor, pc>>
  BY ClientStays DEF Inv
<1>2. Held' = Held
  BY <1>1 DEF Held
<1>3. ViewInv'
  BY <1>1 DEF Inv, ViewInv
<1>4. wire \in Seq(Messages) /\ Gapless(log, wire, Held)
  BY DEF Inv, TypeInv, TypeOK, StreamInv
<1>5. HeldInv'
  <2> SUFFICES ASSUME Subscribed', NEW n \in {sub', acked', pending', reply'.pos}
               PROVE  Passed(log, n) \subseteq Held
    BY <1>1, <1>2 DEF HeldInv
  <2>1. \A m \in {sub, acked, pending, reply.pos} : Passed(log, m) \subseteq Held
    BY <1>1 DEF Inv, HeldInv, Subscribed
  <2>2. \A m \in {sub, acked, pending, reply.pos} : m \in Int
    BY DEF Inv, TypeInv, TypeOK, None
  <2>3. CASE n \in {sub, acked, pending, reply.pos, None, 0}
    BY <2>1, <2>3, PassedNothing
  <2>4. CASE n \in {Larger(sub, pending), Larger(acked, reply.pos)}
    BY <2>1, <2>2, <2>4, LargerHeld
  <2>5. CASE wire # <<>> /\ Head(wire).kind \in {"replayed", "closed"}
             /\ n = Larger(pending, Head(wire).pos)
    <3>1. Passed(log, Head(wire).pos) \subseteq Held
      BY <1>4, <2>5, GaplessHead
    <3>2. Head(wire).pos \in Int
      BY <2>5, QueuesTypes DEF Inv
    <3> QED  BY <2>1, <2>2, <2>5, <3>1, <3>2, LargerHeld
  <2> QED  BY <2>3, <2>4, <2>5, ClientPositions DEF Inv
<1>6. Gapless(log, wire', Held) /\ (pc' # "off" => Passed(log, cursor') \subseteq Held \cup Arriving(wire'))
  <2>1. CASE wire # <<>> /\ wire' = Tail(wire) /\ Head(wire).kind = "replayed" /\ UNCHANGED <<pc, cursor>>
    <3>1. Gapless(log, Tail(wire), Held)
      BY <1>4, <2>1, GaplessTail
    <3>2. Arriving(Tail(wire)) = Arriving(wire)
      BY <1>4, <2>1, ArrivingTail
    <3> QED  BY <2>1, <3>1, <3>2 DEF Inv, StreamInv
  <2>2. CASE wire' = <<>> /\ pc' = "off"
    BY <2>2, GaplessEmpty
  <2>3. CASE UNCHANGED <<wire, cursor, pc>>
    BY <2>3 DEF Inv, StreamInv
  <2> QED  BY <1>1, <2>1, <2>2, <2>3
<1>7. StreamInv'
  BY <1>1, <1>2, <1>6 DEF Inv, StreamInv
<1> QED  BY <1>3, <1>5, <1>7

\* An event goes from the stream into the queue of the view.
LEMMA ReceiveKeeps == ASSUME Inv, ReceiveEvent PROVE ViewInv' /\ HeldInv' /\ StreamInv'
<1> DEFINE e == Head(wire)
           new == IF e.kind = "durable" THEN {e.pos} ELSE {}
<1>1. /\ wire # <<>> /\ wire' = Tail(wire) /\ queue' = Append(queue, e)
      /\ pending' = Larger(pending, e.pos)
      /\ UNCHANGED <<log, sub, pc, cursor, phase, older, acked, reply, applied, reflected>>
  BY DEF ReceiveEvent, ReadNext, agentVars
<1>2. /\ wire \in Seq(Messages) /\ queue \in Seq(Messages) /\ e \in Messages /\ e.pos \in Int
      /\ pending \in Int
  <2>1. e \in Messages
    BY <1>1, QueuesTypes DEF Inv
  <2> QED  BY <2>1 DEF Inv, TypeInv, TypeOK, Messages
<1>3. Passed(log, e.pos) \subseteq Held \cup new
  BY <1>1, <1>2, GaplessHead DEF Inv, StreamInv
<1> HIDE DEF e
<1>4. Arriving(queue') = Arriving(queue) \cup new
  BY <1>1, <1>2, ArrivingAppend
<1>5. Held' = Held \cup new
  <2>1. Held' = reflected' \cup Arriving(queue')
    BY DEF Held, Arriving
  <2> QED  BY <1>1, <1>4, <2>1, HeldIs
<1>6. ViewInv'
  BY <1>1 DEF Inv, ViewInv
<1>7. HeldInv'
  <2>1. Subscribed
    BY DEF ReceiveEvent, ReadNext, Subscribed
  <2>2. \A m \in {sub, acked, pending, reply.pos} : Passed(log, m) \subseteq Held
    BY <2>1 DEF Inv, HeldInv
  <2>3. Passed(log, pending') \subseteq Held'
    BY <1>1, <1>2, <1>3, <1>5, <2>2 DEF Larger
  <2> QED  BY <1>1, <1>5, <2>2, <2>3 DEF HeldInv
<1>8. Gapless(log, queue', reflected)
  <2>1. Passed(log, e.pos) \subseteq reflected \cup Arriving(Append(queue, e))
    BY <1>1, <1>3, <1>4, HeldIs
  <2> QED  BY <1>1, <1>2, <2>1, GaplessAppend DEF Inv, StreamInv
<1>9. Gapless(log, wire', Held')
  <2>1. e.kind = "durable" => e.pos \in Held'
    BY <1>5
  <2> QED  BY <1>1, <1>2, <1>5, <2>1, GaplessTail DEF e, Inv, StreamInv
<1>10. Arriving(wire) = Arriving(wire') \cup new
  BY <1>1, <1>2, ArrivingTail DEF e
<1>11. StreamInv'
  BY <1>1, <1>5, <1>8, <1>9, <1>10 DEF Inv, StreamInv
<1> QED  BY <1>6, <1>7, <1>11

\* The view has applied an envelope: what it shows is where it claims to be.
LEMMA Applying ==
  ASSUME Inv, queue # <<>>, News(Head(queue))
  PROVE  Passed(log, Head(queue).pos) = reflected \cup {Head(queue).pos}
<1> DEFINE e == Head(queue)
<1>1. queue \in Seq(Messages) /\ applied \in Nat /\ High \in Nat
  BY QueuesTypes DEF Inv, TypeInv, TypeOK
<1>2. e.kind = "durable" /\ e.pos > applied /\ e.pos \in 0..High /\ e.pos \in Passed(log, High)
  BY QueuesTypes DEF Inv, News
<1>3. Passed(log, e.pos) \subseteq reflected \cup {e.pos}
  BY <1>1, <1>2, GaplessHead DEF Inv, StreamInv
<1>4. reflected \subseteq Passed(log, e.pos)
  BY <1>1, <1>2, PassedGrows DEF Inv, ViewInv
<1>5. e.pos \in Passed(log, e.pos)
  BY <1>2 DEF Passed
<1> QED  BY <1>3, <1>4, <1>5

LEMMA FlushKeeps == ASSUME Inv, Flush PROVE ViewInv' /\ HeldInv' /\ StreamInv'
<1> DEFINE e == Head(queue)
<1>1. /\ queue # <<>> /\ queue' = Tail(queue)
      /\ UNCHANGED <<log, sub, pc, cursor, phase, older, acked, pending, reply, wire>>
  BY DEF Flush, agentVars
<1>2. queue \in Seq(Messages) /\ e \in Messages /\ e.pos \in Nat /\ applied \in Nat
      /\ (e.kind = "durable" => e.pos \in Passed(log, High))
  BY <1>1, QueuesTypes DEF Inv, TypeInv, TypeOK, Passed
<1>3. reflected \subseteq reflected' /\ (e.kind = "durable" => e.pos \in reflected')
      /\ reflected' = Passed(log, applied')
      /\ reflected' \subseteq reflected \cup (IF e.kind = "durable" THEN {e.pos} ELSE {})
  <2>1. CASE News(e)
    BY <1>1, <2>1, Applying DEF Flush, News
  <2>2. CASE ~News(e)
    <3>1. applied' = applied /\ reflected' = reflected
      BY <2>2 DEF Flush
    <3>2. e.kind = "durable" => e.pos \in Passed(log, applied)
      BY <1>2, <2>2 DEF News, Passed
    <3> QED  BY <3>1, <3>2 DEF Inv, ViewInv
  <2> QED  BY <2>1, <2>2
<1>4. Arriving(queue) = Arriving(queue') \cup (IF e.kind = "durable" THEN {e.pos} ELSE {})
  BY <1>1, <1>2, ArrivingTail
<1> HIDE DEF e
<1>5. Held' = Held
  <2>1. Held' = reflected' \cup Arriving(queue')
    BY DEF Held, Arriving
  <2> QED  BY <1>3, <1>4, <2>1, HeldIs
<1>6. ViewInv'
  BY <1>1, <1>3 DEF Inv, ViewInv
<1>7. HeldInv'
  BY <1>1, <1>5 DEF Inv, HeldInv, Subscribed
<1>8. Gapless(log, queue', reflected')
  BY <1>1, <1>2, <1>3, GaplessTail DEF e, Inv, StreamInv
<1>9. StreamInv'
  BY <1>1, <1>5, <1>8 DEF Inv, StreamInv
<1> QED  BY <1>6, <1>7, <1>9

\* The other steps of the view.
ViewSteps == ReadPage \/ ShowPage \/ PageFails \/ Reload \/ ReadOlder \/ ShowOlder

\* Without a subscription there is nothing to keep.
LEMMA UnsubscribedKeeps ==
  ASSUME TypeInv', PhaseInv', ~Subscribed', ViewInv' PROVE HeldInv' /\ StreamInv'
<1>1. queue' = <<>> /\ wire' = <<>> /\ pc' = "off"
  BY DEF PhaseInv, Subscribed
<1> QED  BY <1>1, GaplessEmpty DEF HeldInv, StreamInv

LEMMA ViewKeeps ==
  ASSUME Inv, ~ScrollsEarly, ViewSteps, TypeInv', PhaseInv' PROVE ViewInv' /\ HeldInv' /\ StreamInv'
<1>1. log \in Seq(Kinds) /\ High \in Nat /\ applied \in 0..High
      /\ page \in 0..High \cup {None} /\ older \in 0..High \cup {None}
  BY QueuesTypes DEF Inv, TypeInv, TypeOK
<1>2. CASE ReadPage
  <2>1. UNCHANGED <<log, sub, pc, cursor, wire, phase, older, pending, acked, reply, queue, applied, reflected>>
    BY <1>2 DEF ReadPage, agentVars, viewVars
  <2> QED  BY <2>1 DEF Inv, ViewInv, HeldInv, StreamInv, Held, Subscribed
<1>3. CASE ShowPage
  <2>1. /\ page # None /\ applied' = page /\ reflected' = UpTo(page) /\ acked' = page
        /\ UNCHANGED <<log, sub, pc, wire, older, pending, reply, queue>>
        /\ older = None /\ sub = None /\ pending = 0 /\ reply = NoReply /\ queue = <<>>
        /\ wire = <<>> /\ pc = "off"
    BY <1>3 DEF ShowPage, agentVars, Inv, PhaseInv, Subscribed
  <2>2. reflected' = Passed(log, page)
    BY <1>1, <2>1, UpToIsPassed
  <2>3. ViewInv'
    BY <2>1, <2>2 DEF ViewInv
  <2>4. Passed(log, page) \subseteq Held'
    BY <2>1, <2>2 DEF Held
  <2>5. HeldInv'
    BY <2>1, <2>4, PassedNothing DEF HeldInv, NoReply
  <2> QED  BY <2>1, <2>3, <2>5, GaplessEmpty DEF StreamInv
<1>4. CASE PageFails
  <2>1. ~Subscribed' /\ applied' = 0 /\ reflected' = {} /\ older' = None
    BY <1>4 DEF PageFails, Subscribed, Inv, PhaseInv
  <2> QED  BY <2>1, PassedNothing, UnsubscribedKeeps DEF ViewInv
<1>5. CASE Reload
  <2>1. ~Subscribed' /\ older' = None /\ UNCHANGED <<log, applied, reflected>>
    BY <1>5 DEF Reload, Subscribed
  <2>2. ViewInv'
    BY <2>1 DEF Inv, ViewInv
  <2> QED  BY <2>1, <2>2, UnsubscribedKeeps
<1>6. CASE ReadOlder
  <2>1. /\ UpTo(High) = reflected /\ older' = High
        /\ UNCHANGED <<log, sub, pc, cursor, wire, phase, pending, acked, reply, queue, applied, reflected>>
    BY <1>6 DEF ReadOlder, agentVars, viewVars
  <2>2. Passed(log, High) = reflected
    BY <1>1, <2>1, UpToIsPassed
  <2>3. ViewInv'
    BY <2>1, <2>2 DEF Inv, ViewInv
  <2> QED  BY <2>1, <2>3 DEF Inv, HeldInv, StreamInv, Held, Subscribed
<1>7. CASE ShowOlder
  <2>1. /\ older # None /\ applied' = Larger(applied, older) /\ older' = None
        /\ UNCHANGED <<log, sub, pc, cursor, wire, phase, pending, acked, reply, queue, reflected>>
    BY <1>7 DEF ShowOlder, agentVars
  <2>2. Passed(log, applied') = reflected
    <3>1. reflected = Passed(log, applied) /\ Passed(log, older) \subseteq reflected
      BY <2>1 DEF Inv, ViewInv
    <3>2. applied <= older => Passed(log, applied) \subseteq Passed(log, older)
      BY <1>1, PassedGrows DEF None
    <3>3. (applied > older /\ applied' = applied) \/ (applied <= older /\ applied' = older)
      BY <1>1, <2>1 DEF Larger, None
    <3> QED  BY <3>1, <3>2, <3>3
  <2>3. ViewInv'
    BY <2>1, <2>2 DEF ViewInv
  <2> QED  BY <2>1, <2>3 DEF Inv, HeldInv, StreamInv, Held, Subscribed
<1> QED  BY <1>2, <1>3, <1>4, <1>5, <1>6, <1>7 DEF ViewSteps

LEMMA StepInv == ASSUME Inv, ~ScrollsEarly, Steps PROVE Inv'
<1>1. TypeInv'
  BY StepTypes DEF Inv
<1>2. PhaseInv'
  BY StepPhase DEF Inv
<1>3. CASE StreamSteps
  BY <1>1, <1>2, <1>3, StreamKeeps DEF Inv
<1>4. CASE ClientSteps
  BY <1>1, <1>2, <1>4, ClientKeeps DEF Inv
<1>5. CASE ReceiveEvent
  BY <1>1, <1>2, <1>5, ReceiveKeeps DEF Inv
<1>6. CASE Flush
  BY <1>1, <1>2, <1>6, FlushKeeps DEF Inv
<1>7. CASE ViewSteps
  BY <1>1, <1>2, <1>7, ViewKeeps DEF Inv
<1> QED  BY <1>3, <1>4, <1>5, <1>6, <1>7 DEF Steps, StreamSteps, ClientSteps, ViewSteps

LEMMA StutterTypes == ASSUME TypeInv, UNCHANGED vars PROVE TypeInv'
BY DEF vars, agentVars, viewVars, counters, TypeInv, TypeOK, High

LEMMA StutterInv == ASSUME Inv, UNCHANGED vars PROVE Inv'
<1>1. TypeInv'
  BY StutterTypes DEF Inv
<1> QED  BY <1>1 DEF vars, agentVars, viewVars, counters, Inv, PhaseInv, ViewInv, HeldInv, StreamInv,
             Held, Subscribed

LEMMA InvHolds == ASSUME ~ScrollsEarly PROVE Spec => []Inv
<1>1. Inv /\ [Next]_vars => Inv'
  <2> SUFFICES ASSUME Inv, [Next]_vars PROVE Inv'
    OBVIOUS
  <2>1. CASE Commit
    BY <2>1, CommitInv
  <2>2. CASE Steps
    BY <2>2, StepInv
  <2>3. CASE UNCHANGED vars
    BY <2>3, StutterInv
  <2> QED  BY <2>1, <2>2, <2>3 DEF Next, Steps
<1> QED  BY <1>1, InitInv, PTL DEF Spec

(* The positions of the agent, of the client and of everything on its way     *)
(* stay within the log, whatever the reader does: flushAck never moves a      *)
(* cursor past the last event, nor does a page or a live event.               *)
THEOREM TypeCorrect == Spec => []TypeOK
<1>1. TypeInv /\ [Next]_vars => TypeInv'
  <2> SUFFICES ASSUME TypeInv, [Next]_vars PROVE TypeInv'
    OBVIOUS
  <2>1. CASE Commit
    BY <2>1, CommitTypes
  <2>2. CASE Steps
    BY <2>2, StepTypes
  <2>3. CASE UNCHANGED vars
    BY <2>3, StutterTypes
  <2> QED  BY <2>1, <2>2, <2>3 DEF Next, Steps
<1>2. TypeInv => TypeOK
  BY DEF TypeInv
<1> QED  BY <1>1, <1>2, InitTypes, PTL DEF Spec

(* A view that scrolls back only when nothing is on its way resumes, after    *)
(* any break, overflow, expiry or lost answer, at a position whose past it    *)
(* shows or holds: the next subscription skips no event.                      *)
THEOREM ResumingIsSafe == ASSUME ~ScrollsEarly PROVE Spec => []ResumesAfterWhatItHas
<1>1. Inv => ResumesAfterWhatItHas
  <2> SUFFICES ASSUME Inv, Subscribed PROVE UpTo(Larger(acked, sub)) \subseteq Held
    BY DEF ResumesAfterWhatItHas, Subscribed
  <2>1. log \in Seq(Kinds) /\ High \in Nat /\ acked \in 0..High /\ sub \in 0..High \cup {None}
    BY QueuesTypes DEF Inv, TypeInv, TypeOK
  <2>2. Passed(log, acked) \subseteq Held /\ Passed(log, sub) \subseteq Held
    BY DEF Inv, HeldInv
  <2>3. Passed(log, Larger(acked, sub)) \subseteq Held
    BY <2>1, <2>2, LargerHeld DEF None
  <2>4. Larger(acked, sub) \in 0..High
    BY <2>1, LargerType
  <2> QED  BY <2>1, <2>3, <2>4, UpToIsPassed
<1> QED  BY <1>1, InvHolds, PTL

(* A live event that is about to be applied finds in the view every durable   *)
(* event before it and none after it.                                         *)
THEOREM LiveIsInPlace == ASSUME ~ScrollsEarly PROVE Spec => []LiveOnItsState
<1>1. Inv => LiveOnItsState
  <2> SUFFICES ASSUME Inv, queue # <<>>, Head(queue).kind = "live", Head(queue).pos >= applied
               PROVE  reflected = UpTo(Head(queue).pos)
    BY DEF LiveOnItsState
  <2>1. log \in Seq(Kinds) /\ queue \in Seq(Messages) /\ Head(queue).pos \in 0..High /\ applied \in Nat
    BY QueuesTypes DEF Inv, TypeInv, TypeOK
  <2>2. Passed(log, Head(queue).pos) \subseteq reflected
    BY <2>1, GaplessHead DEF Inv, StreamInv
  <2>3. reflected \subseteq Passed(log, Head(queue).pos)
    BY <2>1, PassedGrows DEF Inv, ViewInv
  <2> QED  BY <2>1, <2>2, <2>3, UpToIsPassed
<1> QED  BY <1>1, InvHolds, PTL

-----------------------------------------------------------------------------
(* The view is a reader of the log.                                          *)

LEMMA ReaderUpTo == ASSUME NEW n PROVE Reader!UpTo(n) = Passed(log, n)
BY DEF Reader!UpTo, Passed

\* Moving on: a later position, and the events up to it.
LEMMA Advancing ==
  ASSUME applied' \in applied..High, reflected' = Passed(log, applied'), log' = log
  PROVE  Reader!Next
BY ReaderUpTo DEF Reader!Next, Reader!Advance, High

LEMMA ReadsStep == ASSUME Inv, Inv', Next PROVE [Reader!Next]_(Reader!vars)
<1>1. High \in Nat /\ applied \in 0..High /\ log \in Seq(Kinds)
  BY QueuesTypes DEF Inv, TypeInv, TypeOK
<1>2. reflected' = Passed(log', applied') /\ applied' \in 0..Len(log')
  BY DEF Inv, ViewInv, TypeInv, TypeOK, High
<1>3. CASE Commit
  BY <1>3 DEF Commit, Reader!Next, Reader!Commit, viewVars
<1>4. CASE Flush
  <2>1. log' = log /\ (applied' = applied \/ applied' > applied)
    BY <1>4 DEF Flush, News
  <2>2. applied' \in applied..High
    BY <1>1, <1>2, <2>1 DEF High
  <2> QED  BY <1>2, <2>1, <2>2, Advancing
<1>5. CASE ShowPage
  <2>1. log' = log /\ applied' = page /\ page >= applied
    BY <1>5 DEF ShowPage, Inv, PhaseInv
  <2>2. applied' \in applied..High
    BY <1>1, <1>2, <2>1 DEF High
  <2> QED  BY <1>2, <2>1, <2>2, Advancing
<1>6. CASE ShowOlder
  <2>1. log' = log /\ applied' = Larger(applied, older) /\ older \in 0..High
    BY <1>6 DEF ShowOlder, Inv, TypeInv, TypeOK
  <2>2. applied' \in applied..High
    BY <1>1, <1>2, <2>1, LargerProperties DEF High
  <2> QED  BY <1>2, <2>1, <2>2, Advancing
<1>7. CASE PageFails
  BY <1>7 DEF PageFails, Reader!Next, Reader!Forget
<1>8. CASE Reload \/ ReceiveEvent \/ ReadPage \/ ReadOlder
  BY <1>8 DEF Reload, ReceiveEvent, ReadPage, ReadOlder, viewVars, Reader!vars
<1>9. CASE StreamSteps
  BY <1>9, StreamStays DEF Reader!vars
<1>10. CASE ClientSteps
  BY <1>10, ClientStays DEF Reader!vars, Inv
<1> QED  BY <1>3, <1>4, <1>5, <1>6, <1>7, <1>8, <1>9, <1>10 DEF Next, StreamSteps, ClientSteps

(* docs/architecture/rpc-v4.md, "no durable event is silently skipped":       *)
(* whatever the stream, the client and the pages do, the view shows exactly   *)
(* the events up to the position it claims, and only moves forward or starts  *)
(* over: EventStream implements LogReader.                                    *)
THEOREM ViewReadsTheLog == ASSUME ~ScrollsEarly PROVE Spec => ReadsTheLog
<1>1. Init => Reader!Init
  BY DEF Init, Reader!Init, Kinds
<1>2. Inv /\ Inv' /\ [Next]_vars => [Reader!Next]_(Reader!vars)
  <2>1. CASE UNCHANGED vars
    BY <2>1 DEF vars, viewVars, Reader!vars
  <2> QED  BY <2>1, ReadsStep
<1>3. Spec => []Inv
  BY InvHolds
<1> QED  BY <1>1, <1>2, <1>3, PTL DEF Spec, ReadsTheLog, Reader!Spec
=============================================================================
