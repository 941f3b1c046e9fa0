-------------------------- MODULE ConsumeKafkaProofs --------------------------
(***************************************************************************)
(* Proofs about ConsumeKafka, for every log, number of partitions and      *)
(* number of failures: commits never move back, and, in strict mode, what  *)
(* the group has committed has reached the sink.  The steps of the session *)
(* come first, as in ConsumeDeliveryProofs: the two modules extend the     *)
(* same session with brokers of their own and cannot extend each other.    *)
(***************************************************************************)
EXTENDS ConsumeKafka, TLAPS

\* A failure ends the session.
Dropped ==
    /\ pc \notin {"off", "down"}
    /\ Fault
    /\ pc' = "off"
    /\ cur' = {}
    /\ UNCHANGED <<errored, seen, source, sent, fresh>>

\* A step of the session, without the broker's part.
SessionStep ==
    \/ Begin
    \/ \E m \in Messages : Take(m)
    \/ Internal
    \/ Acked(TRUE)
    \/ Failed
    \/ Dropped
    \/ Stop
    \/ Restart
    \/ \E i \in Ids : Expire(i)
    \/ SourceLost

\* The stage that follows the others.
LEMMA AfterStages ==
    /\ After("compose") = "send"
    /\ After("send") = "record"
    /\ After("record") = "ack"
    /\ After("ack") = "recv"
  BY DEF After

\* Every identified message has its id among Ids.
LEMMA IdsOf ==
    \A m \in Messages : Id[m] # NoId => Id[m] \in Ids
  BY DEF Ids

-----------------------------------------------------------------------------
(* The session *)

\* Every step of the session keeps its variables well typed.
LEMMA SessionTyping ==
    ASSUME SessionTypeOK, SessionStep
    PROVE  SessionTypeOK'
  <1> USE DEF SessionTypeOK, Stages
  <1>f. ASSUME Fault PROVE faults' \in 0 .. MaxFaults
    BY <1>f, SessionAssumption DEF Fault
  <1>1. CASE Begin
    BY <1>1 DEF Begin
  <1>2. ASSUME NEW m \in Messages, Take(m) PROVE SessionTypeOK'
    BY <1>2, SessionAssumption DEF Take, ErrorStages
  <1>3. CASE Compose
    BY <1>3, AfterStages DEF Compose, ErrorStages
  <1>4. CASE SendOk
    <2>1. PICK m \in cur : /\ pc = "send" /\ pc' = "record" /\ sent' = sent \cup {m}
                           /\ fresh' = IF Id[m] = NoId THEN fresh ELSE [fresh EXCEPT ![Id[m]] = @ + 1]
      BY <1>4, AfterStages DEF SendOk
    <2>2. UNCHANGED <<cur, errored, seen, source, faults>>
      BY <1>4 DEF SendOk
    <2>3. fresh' \in [Ids -> Nat]
      BY <2>1, IdsOf
    <2> QED
      BY <2>1, <2>2, <2>3
  <1>5. CASE SendFails
    BY <1>5, <1>f DEF SendFails, ErrorStages
  <1>6. CASE Record
    <2>1. PICK m \in cur : /\ pc = "record" /\ pc' = "ack"
                           /\ seen' = IF Idempotent /\ Id[m] # NoId THEN seen \cup {Id[m]} ELSE seen
      BY <1>6, AfterStages DEF Record
    <2> QED
      BY <1>6, <2>1, IdsOf DEF Record
  <1>7. CASE Acked(TRUE)
    BY <1>7, AfterStages DEF Acked
  <1>8. CASE Dropped
    BY <1>8, <1>f DEF Dropped
  <1>9. CASE Failed
    BY <1>9 DEF Failed
  <1>11. CASE Stop
    BY <1>11, <1>f DEF Stop
  <1>12. CASE Restart
    BY <1>12 DEF Restart
  <1>13. ASSUME NEW i \in Ids, Expire(i) PROVE SessionTypeOK'
    BY <1>13, <1>f DEF Expire
  <1>14. CASE SourceLost
    BY <1>14, <1>f DEF SourceLost
  <1> QED
    BY <1>1, <1>2, <1>3, <1>4, <1>5, <1>6, <1>7, <1>8, <1>9, <1>11, <1>12, <1>13, <1>14
       DEF SessionStep, Internal

\* The cache never holds the id of something that was not sent.
LEMMA SeenSentKept ==
    ASSUME SessionTypeOK, SeenSent, HandJustified, SessionStep
    PROVE  SeenSent'
  <1> USE DEF SeenSent
  <1>1. ASSUME UNCHANGED <<seen, sent>> PROVE SeenSent'
    BY <1>1
  <1>2. CASE SendOk
    BY <1>2 DEF SendOk
  <1>3. CASE Record
    <2>1. PICK m \in cur : /\ pc = "record"
                           /\ seen' = IF Idempotent /\ Id[m] # NoId THEN seen \cup {Id[m]} ELSE seen
                           /\ sent' = sent
      BY <1>3 DEF Record
    <2>2. Delivered(m)
      BY <2>1 DEF HandJustified
    <2>3. Idempotent /\ Id[m] # NoId => \E n \in sent : Id[n] = Id[m]
      BY <2>2 DEF Delivered
    <2> QED
      BY <2>1, <2>3
  <1>4. CASE Restart
    BY <1>4 DEF Restart
  <1>5. ASSUME NEW i \in Ids, Expire(i) PROVE SeenSent'
    BY <1>5 DEF Expire
  <1> QED
    BY <1>1, <1>2, <1>3, <1>4, <1>5
       DEF SessionStep, Internal, Begin, Take, Compose, SendFails, Acked, Failed, Dropped, Stop,
           SourceLost

\* What is in hand stays justified.
LEMMA HandJustifiedKept ==
    ASSUME SessionTypeOK, SeenSent, HandJustified, SessionStep
    PROVE  HandJustified'
  <1> USE DEF HandJustified
  <1>1. ASSUME cur' = {} PROVE HandJustified'
    BY <1>1
  <1>2. ASSUME UNCHANGED <<pc, cur, errored, sent>>, source' => source PROVE HandJustified'
    BY <1>2 DEF Delivered, Unusable
  <1>3. ASSUME NEW m \in Messages, Take(m) PROVE HandJustified'
    <2>1. is_duplicate(m) => Delivered(m)'
      BY <1>3 DEF Take, is_duplicate, SeenSent, Delivered, SessionTypeOK, Ids
    <2>2. pc' = "fail" => Strict \/ Unusable(m)'
      BY <1>3 DEF Take, Unusable
    <2>3. pc' \in {"record", "ack"} => Delivered(m)'
      BY <1>3, <2>1 DEF Take
    <2> QED
      BY <1>3, <2>2, <2>3 DEF Take
  <1>4. CASE Compose
    <2>1. PICK m \in cur : IF source /\ Fate[m] = "ok"
                           THEN pc' = "send" ELSE pc' = "fail"
      BY <1>4, AfterStages DEF Compose
    <2>2. pc' = "fail" => Strict \/ Unusable(m)'
      BY <1>4, <2>1 DEF Compose, Unusable
    <2>3. cur' = cur /\ pc' \in {"send", "fail"} /\ \A n \in cur : n = m
      BY <1>4, <2>1 DEF Compose, SessionTypeOK
    <2> QED
      BY <2>2, <2>3
  <1>5. CASE SendOk
    <2>1. PICK m \in cur : pc' = "record" /\ sent' = sent \cup {m} /\ cur' = cur
      BY <1>5, AfterStages DEF SendOk
    <2>2. \A n \in cur : n = m
      BY DEF SessionTypeOK
    <2> QED
      BY <2>1, <2>2 DEF Delivered
  <1>6. CASE SendFails
    BY <1>6 DEF SendFails
  <1>7. CASE Record
    <2>1. /\ pc = "record" /\ pc' = "ack" /\ UNCHANGED <<cur, sent>>
      BY <1>7, AfterStages DEF Record
    <2> QED
      BY <2>1 DEF Delivered
  <1>8. ASSUME Acked(TRUE) \/ Dropped PROVE cur' = {}
    BY <1>8, AfterStages DEF Acked, Dropped
  <1>9. CASE Begin
    BY <1>9, <1>1 DEF Begin, SessionTypeOK
  <1>10. CASE Restart
    BY <1>10, <1>1 DEF Restart, SessionTypeOK
  <1>12. ASSUME NEW i \in Ids, Expire(i) PROVE HandJustified'
    BY <1>12, <1>2 DEF Expire
  <1>13. CASE SourceLost
    BY <1>13, <1>2 DEF SourceLost
  <1> QED
    BY <1>1, <1>3, <1>4, <1>5, <1>6, <1>7, <1>8, <1>9, <1>10, <1>12, <1>13
       DEF SessionStep, Internal, Failed, Stop

\* A step that only counts a fault leaves the session alone.
LEMMA FaultKept ==
    ASSUME SessionTypeOK, Fault \/ UNCHANGED faults,
           UNCHANGED <<pc, cur, errored, seen, source, sent, fresh>>
    PROVE  /\ SessionTypeOK'
           /\ SeenSent => SeenSent'
           /\ HandJustified => HandJustified'
  <1>1. SessionTypeOK'
    BY SessionAssumption DEF SessionTypeOK, Fault
  <1>2. (SeenSent => SeenSent') /\ (HandJustified => HandJustified')
    BY DEF SeenSent, HandJustified, Delivered, Unusable
  <1> QED
    BY <1>1, <1>2

-----------------------------------------------------------------------------
(* Delivery tags *)

\* An offset that fits its bits is read back from the tag, with its partition.
LEMMA TagDecodes ==
    ASSUME NEW p \in Partitions, NEW o \in 0 .. 2 ^ OffsetBits - 1
    PROVE  kafka_position(Tag(p, o)) = <<p, o>>
  <1> DEFINE B == 2 ^ OffsetBits
  <1>1. B \in Nat \ {0} /\ p \in Nat /\ o \in 0 .. B - 1
    BY KafkaAssumption
  <1>2. BitOr(p * B, o) = p * B + o
    BY KafkaAssumption
  <1> HIDE DEF B
  <1>3. (p * B + o) \div B = p /\ (p * B + o) % B = o
    <2> DEFINE q == (p * B + o) \div B
               r == (p * B + o) % B
    <2>1. p * B \in Nat
      BY <1>1
    <2>2. q \in Int /\ r \in 0 .. B - 1 /\ p * B + o = B * q + r
      BY <1>1, <2>1
    <2> HIDE DEF q, r
    <2>3. CASE q <= p - 1
      <3>1. B * q <= B * (p - 1)
        BY <1>1, <2>2, <2>3
      <3>2. B * (p - 1) = p * B - B
        BY <1>1
      <3> QED
        BY <1>1, <2>1, <2>2, <3>1, <3>2
    <2>4. CASE q >= p + 1
      <3>1. B * q >= B * (p + 1)
        BY <1>1, <2>2, <2>4
      <3>2. B * (p + 1) = p * B + B
        BY <1>1
      <3> QED
        BY <1>1, <2>1, <2>2, <3>1, <3>2
    <2>5. CASE q = p
      <3>1. B * q = p * B
        BY <1>1, <2>5
      <3> QED
        BY <1>1, <2>1, <2>2, <2>5, <3>1 DEF q, r
    <2> QED
      BY <1>1, <2>2, <2>3, <2>4, <2>5
  <1> QED
    BY <1>2, <1>3 DEF kafka_position, Tag, B
-----------------------------------------------------------------------------
(* Offsets and commits *)

\* The broker's part of the type invariant, and of the invariant.
BrokerTypes ==
    /\ produced \in [Partitions -> Nat]
    /\ committed \in [Partitions -> Nat \cup {None}]
    /\ requested \in [Partitions -> Nat \cup {None}]
    /\ position \in [Partitions -> Nat]
    /\ last \in [Partitions -> Nat]
    /\ at \in Nat \X Nat
    /\ joined \in [Partitions -> Nat \cup {None}]
    /\ \A p \in Partitions : position[p] <= produced[p] /\ produced[p] <= Len(Log[p])

BrokerInv == BrokerTypes /\ HandPlaced /\ WithinLog /\ CommitsAhead

\* The invariant is the session's and the broker's, in a state and in the next.
LEMMA OffsetsParts == OffsetsInv <=> SessionTypeOK /\ BrokerInv
  BY DEF OffsetsInv, TypeOK, BrokerTypes, BrokerInv

LEMMA OffsetsPartsNext == SessionTypeOK' /\ BrokerInv' => OffsetsInv'
  BY DEF OffsetsInv, TypeOK, BrokerTypes, BrokerInv

\* The logs and where their messages are.
LEMMA LogTypes ==
    /\ \A p \in Partitions : Len(Log[p]) \in Nat
    /\ \A p \in Partitions : \A o \in Nat : o < Len(Log[p]) => Log[p][o + 1] \in Messages
  <1> SUFFICES ASSUME NEW p \in Partitions
               PROVE  /\ Len(Log[p]) \in Nat
                      /\ \A o \in Nat : o < Len(Log[p]) => Log[p][o + 1] \in Messages
    OBVIOUS
  <1>1. Log[p] \in Seq(Messages)
    BY KafkaAssumption
  <1> QED
    BY <1>1

\* A step inside a session, or outside of all sessions, that the broker does not see.
LEMMA StepKept ==
    ASSUME BrokerInv, UNCHANGED brokerVars, cur' = cur, Live' = Live
    PROVE  BrokerInv'
  BY DEF BrokerInv, BrokerTypes, HandPlaced, WithinLog, CommitsAhead, brokerVars

\* Dropping the consumer.
LEMMA DisconnectKept ==
    ASSUME BrokerInv, Disconnect, cur' = {}, ~Live'
    PROVE  BrokerInv'
  <1>1. BrokerTypes'
    BY DEF BrokerInv, BrokerTypes, Disconnect, None
  <1>2. \A p \in Partitions : requested'[p] = None
    BY DEF Disconnect
  <1>3. HandPlaced' /\ CommitsAhead'
    BY <1>2 DEF HandPlaced, CommitsAhead
  <1>4. WithinLog'
    BY <1>2 DEF BrokerInv, BrokerTypes, WithinLog, Disconnect, None
  <1> QED
    BY <1>1, <1>3, <1>4 DEF BrokerInv

\* A record is appended.
LEMMA ProduceKept ==
    ASSUME OffsetsInv, NEW p \in Partitions, Produce(p)
    PROVE  OffsetsInv'
  <1>0. SessionTypeOK /\ BrokerTypes /\ HandPlaced /\ WithinLog /\ CommitsAhead
    BY OffsetsParts DEF BrokerInv
  <1>1. SessionTypeOK'
    BY <1>0, FaultKept DEF Produce, sessionVars
  <1>2. BrokerTypes'
    BY <1>0, LogTypes DEF BrokerTypes, Produce
  <1>3. \A q \in Partitions : produced[q] \in Nat /\ produced'[q] \in Nat /\ produced[q] <= produced'[q]
    BY <1>0 DEF BrokerTypes, Produce
  <1>4. HandPlaced'
    BY <1>0, <1>3 DEF HandPlaced, Produce, sessionVars, BrokerTypes
  <1>5. WithinLog'
    BY <1>0, <1>3 DEF WithinLog, Produce, BrokerTypes, None, Larger
  <1>6. CommitsAhead'
    BY <1>0 DEF CommitsAhead, Produce, sessionVars, Live
  <1> QED
    BY <1>1, <1>2, <1>4, <1>5, <1>6, OffsetsPartsNext DEF BrokerInv

\* A commit takes effect.
LEMMA CommitArrivesKept ==
    ASSUME OffsetsInv, NEW p \in Partitions, CommitArrives(p)
    PROVE  OffsetsInv' /\ committed'[p] >= committed[p]
  <1>0. SessionTypeOK /\ BrokerTypes /\ HandPlaced /\ WithinLog /\ CommitsAhead
    BY OffsetsParts DEF BrokerInv
  <1>1. SessionTypeOK'
    BY <1>0, FaultKept DEF CommitArrives, sessionVars
  <1>2. /\ requested[p] \in Nat /\ committed'[p] = requested[p] /\ requested'[p] = None
        /\ \A q \in Partitions \ {p} : committed'[q] = committed[q] /\ requested'[q] = requested[q]
        /\ UNCHANGED <<produced, position, last, at, joined, sessionVars>>
    BY <1>0 DEF BrokerTypes, CommitArrives, None
  <1>3. BrokerTypes'
    BY <1>0, <1>2 DEF BrokerTypes, CommitArrives, None
  <1>4. HandPlaced'
    BY <1>0, <1>2 DEF HandPlaced, sessionVars
  <1>5. WithinLog'
    <2>1. \A q \in Partitions : /\ committed[q] <= produced[q] /\ requested[q] <= produced[q]
                                /\ last[q] < Larger(produced[q], 1) /\ produced[q] \in Nat
      BY <1>0 DEF WithinLog, BrokerTypes
    <2>2. \A q \in Partitions : committed'[q] <= produced[q] /\ requested'[q] <= produced[q]
      BY <1>2, <2>1 DEF None
    <2> QED
      BY <1>2, <2>1, <2>2 DEF WithinLog
  <1>6. Live /\ committed[p] <= requested[p] /\ requested[p] <= last[p] + 1
    BY <1>0, <1>2 DEF CommitsAhead, None, BrokerTypes
  <1>7. CommitsAhead'
    <2> SUFFICES ASSUME NEW q \in Partitions
                 PROVE  /\ requested'[q] # None => Live /\ requested'[q] \in committed'[q] .. last[q] + 1
                        /\ committed'[q] <= Larger(position[q], last[q] + 1)
                        /\ cur # {} /\ at[1] = q => committed'[q] <= Larger(at[2], last[q]) + 1
      BY <1>2 DEF CommitsAhead, sessionVars, Live
    <2>1. CASE q = p
      <3>1. committed'[q] <= last[q] + 1 /\ last[q] \in Nat /\ position[q] \in Nat /\ at[2] \in Nat
            /\ committed'[q] \in Nat
        BY <1>0, <1>2, <1>6, <2>1 DEF BrokerTypes
      <3> QED
        BY <3>1, <1>2, <2>1 DEF Larger
    <2>2. CASE q # p
      BY <1>0, <1>2, <1>6, <2>2 DEF CommitsAhead
    <2> QED
      BY <2>1, <2>2
  <1> QED
    BY <1>0, <1>1, <1>2, <1>3, <1>4, <1>5, <1>6, <1>7, OffsetsPartsNext DEF BrokerInv, BrokerTypes, None

\* The partitions are assigned, at the committed offsets.
LEMMA AssignedWithin ==
    ASSUME BrokerTypes, WithinLog, Assign
    PROVE  /\ position' \in [Partitions -> Nat]
           /\ joined' \in [Partitions -> Nat \cup {None}]
           /\ \A p \in Partitions : committed[p] <= position'[p] /\ position'[p] <= produced[p]
  BY DEF BrokerTypes, WithinLog, Assign, Assigned, None

\* A consumer is connected.
LEMMA ConnectKept ==
    ASSUME OffsetsInv, Connect
    PROVE  BrokerInv'
  <1>0. SessionTypeOK /\ BrokerTypes /\ HandPlaced /\ WithinLog /\ CommitsAhead
    BY OffsetsParts DEF BrokerInv
  <1>1. /\ cur' = {} /\ ~Live /\ UNCHANGED <<produced, committed, requested, at>>
        /\ \A p \in Partitions : requested[p] = None /\ last'[p] = 0
    BY <1>0 DEF Connect, Begin, SessionTypeOK, Live, CommitsAhead
  <1>2. /\ position' \in [Partitions -> Nat]
        /\ joined' \in [Partitions -> Nat \cup {None}]
        /\ \A p \in Partitions : committed[p] <= position'[p] /\ position'[p] <= produced[p]
    BY <1>0, AssignedWithin DEF Connect
  <1>3. BrokerTypes'
    BY <1>0, <1>1, <1>2 DEF BrokerTypes, Connect
  <1>4. HandPlaced' /\ WithinLog'
    BY <1>0, <1>1 DEF HandPlaced, WithinLog, BrokerTypes, Larger
  <1>5. CommitsAhead'
    <2> SUFFICES ASSUME NEW q \in Partitions PROVE committed[q] <= Larger(position'[q], 0 + 1)
      BY <1>1 DEF CommitsAhead
    <2>1. committed[q] <= position'[q] /\ position'[q] \in Nat /\ committed[q] \in Int
      BY <1>0, <1>2 DEF BrokerTypes, None
    <2> QED
      BY <2>1 DEF Larger
  <1> QED
    BY <1>3, <1>4, <1>5 DEF BrokerInv

\* The group is rebalanced.
LEMMA RebalanceKept ==
    ASSUME OffsetsInv, Rebalance
    PROVE  OffsetsInv'
  <1>0. SessionTypeOK /\ BrokerTypes /\ HandPlaced /\ WithinLog /\ CommitsAhead
    BY OffsetsParts DEF BrokerInv
  <1>1. UNCHANGED <<produced, committed, requested, last, at, pc, cur>>
    BY DEF Rebalance
  <1>2. /\ position' \in [Partitions -> Nat]
        /\ joined' \in [Partitions -> Nat \cup {None}]
        /\ \A p \in Partitions : committed[p] <= position'[p] /\ position'[p] <= produced[p]
    BY <1>0, AssignedWithin DEF Rebalance
  <1>3. BrokerTypes'
    BY <1>0, <1>1, <1>2 DEF BrokerTypes
  <1>4. HandPlaced' /\ WithinLog'
    BY <1>0, <1>1 DEF HandPlaced, WithinLog
  <1>5. CommitsAhead'
    <2> SUFFICES ASSUME NEW q \in Partitions PROVE committed[q] <= Larger(position'[q], last[q] + 1)
      BY <1>0, <1>1 DEF CommitsAhead, Live
    <2>1. /\ committed[q] <= position'[q] /\ position'[q] \in Nat /\ committed[q] \in Int
          /\ last[q] \in Nat
      BY <1>0, <1>2 DEF BrokerTypes, None
    <2> QED
      BY <2>1 DEF Larger
  <1>6. SessionTypeOK'
    BY <1>0, FaultKept DEF Rebalance
  <1> QED
    BY <1>3, <1>4, <1>5, <1>6, OffsetsPartsNext DEF BrokerInv

\* A record is fetched.
LEMMA ReceiveKept ==
    ASSUME OffsetsInv, Receive
    PROVE  BrokerInv' /\ \E m \in Messages : Take(m)
  <1>0. SessionTypeOK /\ BrokerTypes /\ HandPlaced /\ WithinLog /\ CommitsAhead
    BY OffsetsParts DEF BrokerInv
  <1>1. PICK p \in Partitions : /\ position[p] < produced[p]
                                /\ Take(Log[p][position[p] + 1])
                                /\ at' = <<p, position[p]>>
                                /\ position' = [position EXCEPT ![p] = @ + 1]
                                /\ UNCHANGED <<produced, committed, requested, last, joined>>
    BY DEF Receive
  <1>2. Log[p][position[p] + 1] \in Messages
    BY <1>0, <1>1, LogTypes DEF BrokerTypes
  <1>3. pc = "recv" /\ Live /\ Live' /\ cur' = {Log[p][position[p] + 1]}
    BY <1>1 DEF Take, Live
  <1>4. p \in Nat /\ position[p] \in Nat /\ position'[p] = position[p] + 1
    BY <1>0, <1>1, KafkaAssumption DEF BrokerTypes
  <1>5. BrokerTypes'
    BY <1>0, <1>1, <1>4 DEF BrokerTypes
  <1>6. HandPlaced'
    BY <1>1, <1>3 DEF HandPlaced
  <1>7. WithinLog'
    BY <1>0, <1>1 DEF WithinLog
  <1>8. CommitsAhead'
    <2> SUFFICES ASSUME NEW q \in Partitions
                 PROVE  /\ committed[q] <= Larger(position'[q], last[q] + 1)
                        /\ p = q => committed[q] <= Larger(position[p], last[q]) + 1
      BY <1>0, <1>1, <1>3 DEF CommitsAhead
    <2>1. /\ committed[q] <= Larger(position[q], last[q] + 1)
          /\ committed[q] \in Int /\ position[q] \in Nat /\ last[q] \in Nat
      BY <1>0, <1>3 DEF BrokerTypes, CommitsAhead, None
    <2>2. position'[q] \in Nat /\ position[q] <= position'[q]
      BY <1>0, <1>1, <1>4 DEF BrokerTypes
    <2> QED
      BY <2>1, <2>2 DEF Larger
  <1> QED
    BY <1>1, <1>2, <1>5, <1>6, <1>7, <1>8 DEF BrokerInv

\* The position an ack reads from the tag of the message in hand is its own.
LEMMA RequestIs ==
    ASSUME OffsetsInv, OffsetsFit, cur # {}, RequestCommit
    PROVE  /\ at[1] \in Partitions /\ at[2] \in Nat /\ at[2] < produced[at[1]]
           /\ last' = [last EXCEPT ![at[1]] = Larger(@, at[2])]
           /\ requested' = [requested EXCEPT ![at[1]] = Larger(last[at[1]], at[2]) + 1]
  <1>0. BrokerTypes /\ HandPlaced
    BY OffsetsParts DEF BrokerInv
  <1>1. at[1] \in Partitions /\ at[2] \in Nat /\ at[2] < produced[at[1]]
    BY <1>0 DEF HandPlaced, BrokerTypes
  <1>2. at[2] \in 0 .. 2 ^ OffsetBits - 1
    BY <1>0, <1>1, LogTypes, KafkaAssumption DEF BrokerTypes, OffsetsFit
  <1>3. kafka_position(Tag(at[1], at[2])) = <<at[1], at[2]>>
    BY <1>1, <1>2, TagDecodes
  <1> QED
    BY <1>1, <1>3 DEF RequestCommit, Commit

\* The message in hand is settled.
LEMMA SettleKept ==
    ASSUME OffsetsInv, OffsetsFit, RequestCommit, cur # {}, Live, cur' = {}, Live',
           UNCHANGED <<produced, committed, position, at, joined>>
    PROVE  BrokerInv'
  <1>0. SessionTypeOK /\ BrokerTypes /\ HandPlaced /\ WithinLog /\ CommitsAhead
    BY OffsetsParts DEF BrokerInv
  <1> DEFINE p == at[1]
             h == Larger(last[p], at[2])
  <1>2. /\ p \in Partitions /\ at[2] \in Nat /\ at[2] < produced[p]
        /\ last' = [last EXCEPT ![p] = h]
        /\ requested' = [requested EXCEPT ![p] = h + 1]
        /\ UNCHANGED <<produced, committed, position, at, joined>>
    BY RequestIs
  <1>3. h \in Nat /\ last[p] <= h /\ at[2] <= h /\ h < produced[p] /\ produced[p] \in Nat
    BY <1>0, <1>2 DEF BrokerTypes, WithinLog, Larger
  <1>4. committed[p] <= h + 1
    BY <1>0, <1>2, <1>3 DEF CommitsAhead, BrokerTypes, Larger
  <1> HIDE DEF h
  <1>5. BrokerTypes'
    BY <1>0, <1>2, <1>3 DEF BrokerTypes
  <1>6. HandPlaced'
    BY DEF HandPlaced
  <1>7. WithinLog'
    BY <1>0, <1>2, <1>3 DEF WithinLog, BrokerTypes, Larger
  <1>8. CommitsAhead'
    <2> SUFFICES ASSUME NEW q \in Partitions
                 PROVE  /\ requested'[q] # None => requested'[q] \in committed[q] .. last'[q] + 1
                        /\ committed[q] <= Larger(position[q], last'[q] + 1)
      BY <1>2 DEF CommitsAhead
    <2>1. CASE q = p
      BY <1>0, <1>2, <1>3, <1>4, <2>1 DEF BrokerTypes, Larger, None
    <2>2. CASE q # p
      BY <1>0, <1>2, <2>2 DEF BrokerTypes, CommitsAhead
    <2> QED
      BY <2>1, <2>2
  <1> QED
    BY <1>5, <1>6, <1>7, <1>8 DEF BrokerInv
\* The invariant holds initially.
LEMMA InitOffsets == Init => OffsetsInv
  <1> SUFFICES ASSUME Init PROVE OffsetsInv
    OBVIOUS
  <1>1. SessionTypeOK
    BY SessionAssumption DEF Init, SessionInit, SessionTypeOK, Stages, ErrorStages
  <1>2. \A p \in Partitions : Committed0[p] \in {None} \cup 0 .. Len(Log[p]) /\ Len(Log[p]) \in Nat
    BY KafkaAssumption, LogTypes
  <1>3. \A p \in Partitions : /\ Larger(0, Committed0[p]) \in 0 .. Len(Log[p])
                              /\ Committed0[p] <= Larger(0, Committed0[p])
    BY <1>2 DEF Larger, None
  <1>4. BrokerTypes
    <2>1. committed \in [Partitions -> Nat \cup {None}]
      BY <1>2, KafkaAssumption DEF Init
    <2>2. /\ produced \in [Partitions -> Nat]
          /\ \A p \in Partitions : 0 <= produced[p] /\ produced[p] <= Len(Log[p])
      BY <1>2, <1>3 DEF Init
    <2>3. /\ requested = [p \in Partitions |-> None] /\ joined = [p \in Partitions |-> None]
          /\ position = [p \in Partitions |-> 0] /\ last = [p \in Partitions |-> 0]
          /\ at \in Nat \X Nat
      BY DEF Init
    <2> QED
      BY <2>1, <2>2, <2>3 DEF BrokerTypes
  <1>5. HandPlaced /\ CommitsAhead
    BY DEF Init, SessionInit, HandPlaced, CommitsAhead, Live
  <1>6. WithinLog
    BY <1>3, <1>2 DEF Init, WithinLog, Larger, None
  <1> QED
    BY <1>1, <1>4, <1>5, <1>6, OffsetsParts DEF BrokerInv

\* A message is acknowledged.
LEMMA AckKept ==
    ASSUME OffsetsInv, OffsetsFit, Ack
    PROVE  BrokerInv'
  <1>1. pc = "ack" /\ cur' = {} /\ cur # {} /\ Live /\ Live'
    BY OffsetsParts, AfterStages DEF Ack, Acked, SessionTypeOK, Live
  <1> QED
    BY <1>1, SettleKept DEF Ack

\* A message that failed is settled, or the session aborts.
LEMMA FailKept ==
    ASSUME OffsetsInv, OffsetsFit, Fail
    PROVE  BrokerInv'
  <1>0. SessionTypeOK /\ BrokerTypes /\ HandPlaced /\ WithinLog /\ CommitsAhead /\ BrokerInv
    BY OffsetsParts DEF BrokerInv
  <1>1. pc = "fail" /\ cur' = {} /\ cur # {} /\ Live
    BY <1>0 DEF Fail, Failed, SessionTypeOK, Live
  <1>2. pc' = IF handle(errored) = "Abort" THEN "down" ELSE "recv"
    BY DEF Fail, Failed
  <1>3. CASE Skips(handle(errored))
    <2> SUFFICES BrokerInv'
      OBVIOUS
    <2>1. Live' /\ RequestCommit /\ UNCHANGED <<produced, committed, position, at, joined>>
      BY <1>2, <1>3 DEF Fail, Skips, Live
    <2> QED
      BY <1>0, <1>1, <2>1, SettleKept
  <1>4. CASE handle(errored) = "Abort"
    BY <1>0, <1>1, <1>2, <1>4, DisconnectKept DEF Fail, Skips, Live
  <1>5. CASE ~Skips(handle(errored)) /\ handle(errored) # "Abort"
    <2>1. UNCHANGED brokerVars /\ Live'
      BY <1>2, <1>5 DEF Fail, Live
    <2> QED
      BY <1>0, <1>1, <2>1 DEF BrokerInv, BrokerTypes, HandPlaced, WithinLog, CommitsAhead, brokerVars
  <1> QED
    BY <1>3, <1>4, <1>5

\* Every step preserves the invariant, and moves no committed offset back.
LEMMA NextOffsets ==
    ASSUME OffsetsInv, OffsetsFit, [Next]_vars
    PROVE  OffsetsInv' /\ \A p \in Partitions : committed'[p] >= committed[p]
  <1>0. SessionTypeOK /\ BrokerInv
    BY OffsetsParts
  <1>c. \A p \in Partitions : committed[p] \in Int
    BY <1>0 DEF BrokerInv, BrokerTypes, None
  <1>s. ASSUME SessionStep, BrokerInv', UNCHANGED committed
        PROVE  OffsetsInv' /\ \A p \in Partitions : committed'[p] >= committed[p]
    BY <1>0, <1>c, <1>s, SessionTyping, OffsetsPartsNext
  <1>1. ASSUME NEW p \in Partitions, Produce(p)
        PROVE  OffsetsInv' /\ \A q \in Partitions : committed'[q] >= committed[q]
    <2>1. OffsetsInv' /\ committed' = committed
      BY <1>1, ProduceKept DEF Produce
    <2> QED
      BY <1>c, <2>1
  <1>2. ASSUME NEW p \in Partitions, CommitArrives(p)
        PROVE  OffsetsInv' /\ \A q \in Partitions : committed'[q] >= committed[q]
    <2>1. OffsetsInv' /\ committed'[p] >= committed[p]
      BY <1>2, CommitArrivesKept
    <2>2. \A q \in Partitions : q # p => committed'[q] = committed[q]
      BY <1>0, <1>2 DEF CommitArrives, BrokerInv, BrokerTypes
    <2> QED
      BY <1>c, <2>1, <2>2
  <1>3. CASE Connect
    BY <1>3, <1>s, ConnectKept DEF Connect, SessionStep
  <1>4. CASE Receive
    BY <1>4, <1>s, ReceiveKept DEF Receive, SessionStep
  <1>5. CASE Step
    <2>1. cur' = cur /\ Live' = Live
      BY <1>5, AfterStages DEF Step, Internal, Compose, SendOk, SendFails, Record, Live
    <2> QED
      BY <1>0, <1>5, <1>s, <2>1, StepKept DEF Step, SessionStep, brokerVars
  <1>6. CASE Ack
    BY <1>6, <1>s, AckKept DEF Ack, SessionStep
  <1>7. CASE Fail
    <2>1. UNCHANGED committed
      BY <1>7 DEF Fail, Disconnect, brokerVars
    <2> QED
      BY <1>7, <1>s, <2>1, FailKept DEF Fail, SessionStep
  <1>8. CASE AckFails \/ RecvFails
    <2>1. Dropped /\ Disconnect
      BY <1>0, <1>8 DEF AckFails, RecvFails, Dropped, SessionTypeOK
    <2> QED
      BY <1>0, <1>s, <2>1, DisconnectKept DEF Dropped, Disconnect, SessionStep, Live
  <1>9. CASE Rebalance
    BY <1>9, <1>c, RebalanceKept DEF Rebalance
  <1>10. CASE Exit
    BY <1>0, <1>10, <1>s, DisconnectKept DEF Exit, Stop, Disconnect, SessionStep, Live
  <1>11. CASE Reboot
    BY <1>0, <1>11, <1>s, StepKept DEF Reboot, Restart, SessionStep, Live, brokerVars
  <1>12. CASE Lapse
    BY <1>0, <1>12, <1>s, StepKept DEF Lapse, Expire, SessionStep, Live, brokerVars
  <1>13. CASE Outage
    BY <1>0, <1>13, <1>s, StepKept DEF Outage, SourceLost, SessionStep, Live, brokerVars
  <1>14. CASE UNCHANGED vars
    <2>1. SessionTypeOK' /\ BrokerInv' /\ UNCHANGED committed
      BY <1>0, <1>14, FaultKept, StepKept DEF vars, sessionVars, brokerVars, Live
    <2> QED
      BY <1>c, <2>1, OffsetsPartsNext
  <1> QED
    BY <1>1, <1>2, <1>3, <1>4, <1>5, <1>6, <1>7, <1>8, <1>9, <1>10, <1>11, <1>12, <1>13, <1>14
       DEF Next, Broker, Session

\* The invariant of the offsets holds in every state.
THEOREM OffsetsInvariant == OffsetsFit => (Spec => []OffsetsInv)
  <1> SUFFICES ASSUME OffsetsFit PROVE Spec => []OffsetsInv
    OBVIOUS
  <1>1. OffsetsInv /\ [Next]_vars => OffsetsInv'
    BY NextOffsets
  <1> QED
    BY <1>1, InitOffsets, PTL DEF Spec

\* No step moves the committed offset of a partition back, redelivered messages,
\* reconnects and rebalances included.
THEOREM CommitsNeverBack == OffsetsFit => (Spec => CommitsForward)
  <1> SUFFICES ASSUME OffsetsFit PROVE Spec => CommitsForward
    OBVIOUS
  <1>1. OffsetsInv /\ [Next]_vars => [\A p \in Partitions : committed'[p] >= committed[p]]_vars
    BY NextOffsets
  <1> QED
    BY <1>1, OffsetsInvariant, PTL DEF Spec, CommitsForward
-----------------------------------------------------------------------------
(* Deliveries *)

\* In strict mode nothing is given up, so what is settled stays settled.
LEMMA SettledStays ==
    ASSUME Strict, [Next]_vars, NEW p, NEW o, Settled(p, o)
    PROVE  Settled(p, o)'
  <1>1. sent \subseteq sent'
    BY DEF Next, Broker, Session, Produce, CommitArrives, Connect, Begin, Receive, Take, Step,
       Internal, Compose, SendOk, SendFails, Record, Ack, Acked, AckFails, Fail, Failed, RecvFails,
       Rebalance, Exit, Stop, Reboot, Restart, Lapse, Expire, Outage, SourceLost, vars, sessionVars
  <1> QED
    BY <1>1 DEF Settled, Delivered, Unusable

\* What is being acknowledged has reached the sink.
LEMMA HandSettled ==
    ASSUME DeliveryInv, pc \in {"record", "ack"}, cur # {}
    PROVE  Settled(at[1], at[2])
  <1>1. at[1] \in Partitions /\ at[2] < produced[at[1]] /\ cur = {Log[at[1]][at[2] + 1]}
    BY DEF DeliveryInv, OffsetsInv, HandPlaced
  <1>2. Delivered(Log[at[1]][at[2] + 1])
    BY <1>1 DEF DeliveryInv, HandJustified
  <1>3. at[2] < Len(Log[at[1]])
    BY <1>1, LogTypes DEF DeliveryInv, OffsetsInv, TypeOK
  <1> QED
    BY <1>2, <1>3 DEF Settled

\* One partition's part of ReadSettled, and of CommittedDelivered.
ReadSettledAt(p) ==
    /\ committed[p] # None
    /\ joined[p] # None => SettledTo(p, committed[p])
    /\ Live =>
         /\ joined[p] # None
         /\ \A o \in joined[p] .. position[p] - 1 : Settled(p, o) \/ (cur # {} /\ at = <<p, o>>)
         /\ cur # {} /\ at[1] = p => SettledTo(p, at[2])
         /\ last[p] > 0 => SettledTo(p, last[p] + 1)
         /\ SettledTo(p, requested[p])

LEMMA DeliveryParts ==
    DeliveryInv <=> /\ OffsetsInv /\ SeenSent /\ HandJustified
                    /\ \A p \in Partitions : ReadSettledAt(p)
  BY DEF DeliveryInv, ReadSettled, CommittedDelivered, ReadSettledAt, SettledTo

LEMMA DeliveryPartsNext ==
    OffsetsInv' /\ SeenSent' /\ HandJustified' /\ (\A p \in Partitions : ReadSettledAt(p)')
      => DeliveryInv'
  BY DEF DeliveryInv, ReadSettled, CommittedDelivered, ReadSettledAt, SettledTo

\* What was settled up to an offset stays so, while the group's start is kept.
LEMMA SettledToStays ==
    ASSUME Strict, [Next]_vars, NEW p, NEW o, joined'[p] = joined[p], SettledTo(p, o)
    PROVE  \A k \in joined'[p] .. o - 1 : Settled(p, k)'
  BY SettledStays DEF SettledTo

\* A partition that is not touched, inside or outside of a session.
LEMMA UntouchedKept ==
    ASSUME Strict, [Next]_vars, NEW p, ReadSettledAt(p), Live' => Live,
           joined'[p] = joined[p], committed'[p] = committed[p], position'[p] = position[p],
           last'[p] = last[p], requested'[p] = requested[p],
           cur # {} /\ at[1] = p => cur' # {} /\ at' = at,
           cur' # {} /\ at'[1] = p => cur # {} /\ at' = at
    PROVE  ReadSettledAt(p)'
  <1>1. ASSUME NEW o, SettledTo(p, o)
        PROVE  \A k \in joined'[p] .. o - 1 : Settled(p, k)'
    BY <1>1, SettledToStays
  <1>2. committed'[p] # None /\ (joined'[p] # None => SettledTo(p, committed[p])')
    BY <1>1 DEF ReadSettledAt, SettledTo
  <1>3. ASSUME Live'
        PROVE  /\ joined'[p] # None
               /\ \A o \in joined'[p] .. position'[p] - 1 :
                     Settled(p, o)' \/ (cur' # {} /\ at' = <<p, o>>)
               /\ cur' # {} /\ at'[1] = p => SettledTo(p, at[2])'
               /\ last'[p] > 0 => SettledTo(p, last[p] + 1)'
               /\ SettledTo(p, requested[p])'
    <2>1. \A o \in joined'[p] .. position'[p] - 1 :
             Settled(p, o)' \/ (cur' # {} /\ at' = <<p, o>>)
      BY <1>3, SettledStays DEF ReadSettledAt
    <2> QED
      BY <1>1, <1>3, <2>1 DEF ReadSettledAt, SettledTo
  <1> QED
    BY <1>2, <1>3 DEF ReadSettledAt
\* Outside of a session only the committed offsets matter.
LEMMA OffKept ==
    ASSUME Strict, [Next]_vars, NEW p, ReadSettledAt(p), ~Live', UNCHANGED <<committed, joined>>
    PROVE  ReadSettledAt(p)'
  <1>1. joined[p] # None => \A k \in joined'[p] .. committed[p] - 1 : Settled(p, k)'
    BY SettledToStays DEF ReadSettledAt
  <1> QED
    BY <1>1 DEF ReadSettledAt, SettledTo

\* A step that leaves the broker and the message in hand alone.
LEMMA QuietKept ==
    ASSUME Strict, [Next]_vars, NEW p, ReadSettledAt(p), Live' = Live, cur' = cur,
           UNCHANGED <<committed, requested, position, last, at, joined>>
    PROVE  ReadSettledAt(p)'
  BY UntouchedKept

\* A partition whose request has arrived.
LEMMA ArrivedKept ==
    ASSUME DeliveryInv, Strict, [Next]_vars, NEW p \in Partitions, CommitArrives(p)
    PROVE  \A q \in Partitions : ReadSettledAt(q)'
  <1>0. TypeOK /\ CommitsAhead /\ \A q \in Partitions : ReadSettledAt(q)
    BY DeliveryParts DEF OffsetsInv
  <1>1. /\ committed'[p] = requested[p] /\ requested'[p] = None /\ requested[p] # None
        /\ \A q \in Partitions : q # p => committed'[q] = committed[q] /\ requested'[q] = requested[q]
        /\ UNCHANGED <<position, last, at, joined, cur, pc>>
    BY <1>0 DEF TypeOK, CommitArrives, sessionVars
  <1>2. Live /\ Live' /\ joined[p] \in Nat
    BY <1>0, <1>1 DEF CommitsAhead, Live, ReadSettledAt, TypeOK, None
  <1>3. ASSUME NEW o, SettledTo(p, o)
        PROVE  \A k \in joined'[p] .. o - 1 : Settled(p, k)'
    BY <1>1, <1>3, SettledToStays
  <1>4. ReadSettledAt(p)'
    <2>1. SettledTo(p, committed[p])'
      BY <1>0, <1>1, <1>2, <1>3 DEF ReadSettledAt, SettledTo
    <2>2. SettledTo(p, requested[p])'
      BY <1>1, <1>2 DEF SettledTo, None
    <2>3. \A o \in joined'[p] .. position'[p] - 1 :
             Settled(p, o)' \/ (cur' # {} /\ at' = <<p, o>>)
      BY <1>0, <1>1, <1>2, SettledStays DEF ReadSettledAt
    <2>4. /\ cur' # {} /\ at'[1] = p => SettledTo(p, at[2])'
          /\ last'[p] > 0 => SettledTo(p, last[p] + 1)'
      BY <1>0, <1>1, <1>2, <1>3 DEF ReadSettledAt, SettledTo
    <2> QED
      BY <1>1, <1>2, <2>1, <2>2, <2>3, <2>4 DEF ReadSettledAt, None
  <1>5. ASSUME NEW q \in Partitions, q # p PROVE ReadSettledAt(q)'
    BY <1>0, <1>1, <1>2, <1>5, UntouchedKept
  <1> QED
    BY <1>4, <1>5

\* Where a partition is assigned: at the committed offset, up to which all is settled.
LEMMA AssignedSettled ==
    ASSUME DeliveryInv, Strict, [Next]_vars, Assign, UNCHANGED committed, NEW p \in Partitions
    PROVE  /\ position'[p] = committed[p] /\ committed'[p] # None
           /\ joined'[p] \in Nat
           /\ joined[p] # None => joined'[p] = joined[p]
           /\ SettledTo(p, committed[p])'
           /\ joined[p] = None => joined'[p] = committed[p]
  <1>0. TypeOK /\ ReadSettledAt(p)
    BY DeliveryParts DEF OffsetsInv
  <1>1. committed[p] \in Nat
    BY <1>0 DEF TypeOK, ReadSettledAt
  <1>2. position'[p] = committed[p] /\ joined'[p] = IF joined[p] = None THEN committed[p] ELSE joined[p]
    BY <1>1 DEF Assign, Assigned, None
  <1>3. CASE joined[p] = None
    BY <1>1, <1>2, <1>3 DEF SettledTo, None
  <1>4. CASE joined[p] # None
    <2>1. \A k \in joined'[p] .. committed[p] - 1 : Settled(p, k)'
      BY <1>0, <1>2, <1>4, SettledToStays DEF ReadSettledAt
    <2>2. joined[p] \in Nat
      BY <1>0, <1>4 DEF TypeOK
    <2> QED
      BY <1>1, <1>2, <1>4, <2>1, <2>2 DEF SettledTo, None
  <1> QED
    BY <1>3, <1>4

\* A consumer is connected.
LEMMA ConnectSettled ==
    ASSUME DeliveryInv, Strict, [Next]_vars, Connect, NEW p \in Partitions
    PROVE  ReadSettledAt(p)'
  <1>0. TypeOK /\ CommitsAhead
    BY DEF DeliveryInv, OffsetsInv
  <1>1. cur' = {} /\ last'[p] = 0 /\ requested'[p] = None /\ committed' = committed
    BY <1>0 DEF Connect, Begin, TypeOK, SessionTypeOK, CommitsAhead, Live
  <1>2. /\ position'[p] = committed[p] /\ committed'[p] # None
        /\ joined'[p] \in Nat
        /\ SettledTo(p, committed[p])'
    BY <1>1, AssignedSettled DEF Connect
  <1>3. SettledTo(p, requested[p])'
    BY <1>1, <1>2 DEF SettledTo, None
  <1> QED
    BY <1>1, <1>2, <1>3 DEF ReadSettledAt, SettledTo, None

\* The group is rebalanced.
LEMMA RebalanceSettled ==
    ASSUME DeliveryInv, Strict, [Next]_vars, Rebalance, NEW p \in Partitions
    PROVE  ReadSettledAt(p)'
  <1>0. Live /\ ReadSettledAt(p) /\ joined[p] # None
    BY DeliveryParts DEF Rebalance, Live, ReadSettledAt
  <1>1. UNCHANGED <<committed, requested, last, at, pc, cur>>
    BY DEF Rebalance
  <1>2. /\ position'[p] = committed[p] /\ committed'[p] # None
        /\ joined'[p] = joined[p] /\ SettledTo(p, committed[p])'
    BY <1>0, <1>1, AssignedSettled DEF Rebalance
  <1>3. ASSUME NEW o, SettledTo(p, o)
        PROVE  \A k \in joined'[p] .. o - 1 : Settled(p, k)'
    BY <1>2, <1>3, SettledToStays
  <1>4. /\ cur' # {} /\ at'[1] = p => SettledTo(p, at[2])'
        /\ last'[p] > 0 => SettledTo(p, last[p] + 1)'
        /\ SettledTo(p, requested[p])'
    BY <1>0, <1>1, <1>3 DEF ReadSettledAt, SettledTo
  <1>5. \A o \in joined'[p] .. position'[p] - 1 : Settled(p, o)'
    BY <1>1, <1>2 DEF SettledTo
  <1> QED
    BY <1>0, <1>1, <1>2, <1>4, <1>5 DEF ReadSettledAt

\* A record is fetched; everything before it was settled.
LEMMA ReceiveSettled ==
    ASSUME DeliveryInv, Strict, [Next]_vars, Receive
    PROVE  \A q \in Partitions : ReadSettledAt(q)'
  <1>0. TypeOK /\ \A q \in Partitions : ReadSettledAt(q)
    BY DeliveryParts DEF OffsetsInv
  <1>1. PICK p \in Partitions : /\ Take(Log[p][position[p] + 1])
                                /\ at' = <<p, position[p]>>
                                /\ position' = [position EXCEPT ![p] = @ + 1]
                                /\ UNCHANGED <<produced, committed, requested, last, joined>>
    BY DEF Receive
  <1>2. Live /\ Live' /\ cur = {} /\ cur' # {}
    BY <1>0, <1>1 DEF Take, Live, TypeOK, SessionTypeOK
  <1>3. p \in Nat /\ position[p] \in Nat /\ position'[p] = position[p] + 1 /\ joined[p] \in Nat
    BY <1>0, <1>1, <1>2, KafkaAssumption DEF TypeOK, ReadSettledAt
  <1>4. ReadSettledAt(p)'
    <2>1. \A o \in joined[p] .. position[p] - 1 : Settled(p, o)
      BY <1>0, <1>2 DEF ReadSettledAt
    <2>2. \A o \in joined[p] .. position[p] - 1 : Settled(p, o)'
      BY <2>1, SettledStays
    <2>3. \A o \in joined[p] .. position'[p] - 1 : Settled(p, o)' \/ at' = <<p, o>>
      BY <1>1, <1>3, <2>2
    <2>4. ASSUME NEW o, SettledTo(p, o)
          PROVE  \A k \in joined'[p] .. o - 1 : Settled(p, k)'
      BY <1>1, <2>4, SettledToStays
    <2>5. SettledTo(p, at[2])'
      BY <1>1, <2>2 DEF SettledTo
    <2>6. /\ committed'[p] # None /\ joined'[p] # None
          /\ SettledTo(p, committed[p])'
          /\ last'[p] > 0 => SettledTo(p, last[p] + 1)'
          /\ SettledTo(p, requested[p])'
      BY <1>0, <1>1, <1>2, <2>4 DEF ReadSettledAt, SettledTo
    <2> QED
      BY <1>1, <1>2, <2>3, <2>5, <2>6 DEF ReadSettledAt
  <1>5. ASSUME NEW q \in Partitions, q # p PROVE ReadSettledAt(q)'
    <2>1. position'[q] = position[q] /\ at'[1] # q
      BY <1>0, <1>1, <1>5 DEF TypeOK
    <2> QED
      BY <1>0, <1>1, <1>2, <2>1, UntouchedKept
  <1> QED
    BY <1>4, <1>5

\* The message in hand, which the sink has, is acknowledged.
LEMMA AckSettled ==
    ASSUME DeliveryInv, Strict, OffsetsFit, [Next]_vars, Ack
    PROVE  \A q \in Partitions : ReadSettledAt(q)'
  <1>0. TypeOK /\ OffsetsInv /\ \A q \in Partitions : ReadSettledAt(q)
    BY DeliveryParts DEF OffsetsInv
  <1>1. pc = "ack" /\ cur' = {} /\ cur # {} /\ Live /\ Live'
    BY <1>0, AfterStages DEF Ack, Acked, TypeOK, SessionTypeOK, Live
  <1>r. at[1] \in Partitions
    BY <1>0, <1>1, RequestIs DEF Ack
  <1>p. PICK p \in Partitions : p = at[1]
    BY <1>r
  <1> DEFINE h == Larger(last[p], at[2])
  <1>2. /\ at[2] \in Nat
        /\ last' = [last EXCEPT ![p] = h]
        /\ requested' = [requested EXCEPT ![p] = h + 1]
        /\ UNCHANGED <<committed, position, at, joined>>
    BY <1>0, <1>1, <1>p, RequestIs DEF Ack
  <1>3. h \in {last[p], at[2]} /\ last[p] \in Nat /\ h \in Nat /\ joined[p] \in Nat
    BY <1>0, <1>1, <1>2 DEF TypeOK, ReadSettledAt, Larger
  <1>4. h = at[2] \/ (h = last[p] /\ last[p] > 0)
    BY <1>2, <1>3 DEF Larger
  <1> HIDE DEF h
  <1>5. Settled(p, at[2])
    BY <1>1, <1>p, HandSettled
  <1>6. SettledTo(p, h + 1)
    <2>1. CASE h = at[2]
      <3>1. SettledTo(p, at[2])
        BY <1>0, <1>1, <1>p DEF ReadSettledAt
      <3> QED
        BY <1>2, <1>3, <1>5, <2>1, <3>1 DEF SettledTo
    <2>2. CASE h = last[p] /\ last[p] > 0
      BY <1>0, <1>1, <1>2, <2>2 DEF ReadSettledAt
    <2> QED
      BY <1>4, <2>1, <2>2
  <1>7. ReadSettledAt(p)'
    <2>1. ASSUME NEW o, SettledTo(p, o)
          PROVE  \A k \in joined'[p] .. o - 1 : Settled(p, k)'
      BY <1>2, <2>1, SettledToStays
    <2>2. last'[p] = h /\ requested'[p] = h + 1
      BY <1>0, <1>2 DEF TypeOK
    <2>3. SettledTo(p, last[p] + 1)' /\ SettledTo(p, requested[p])'
      BY <1>2, <1>6, <2>1, <2>2 DEF SettledTo
    <2>4. committed'[p] # None /\ joined'[p] # None /\ SettledTo(p, committed[p])'
      BY <1>0, <1>1, <1>2, <2>1 DEF ReadSettledAt, SettledTo
    <2>5. \A o \in joined[p] .. position[p] - 1 : Settled(p, o)
      BY <1>0, <1>1, <1>2, <1>5, <1>p DEF ReadSettledAt
    <2>6. \A o \in joined'[p] .. position'[p] - 1 : Settled(p, o)'
      BY <1>2, <2>5, SettledStays
    <2> QED
      BY <1>1, <2>3, <2>4, <2>6 DEF ReadSettledAt
  <1>8. ASSUME NEW q \in Partitions, q # p PROVE ReadSettledAt(q)'
    <2>1. last'[q] = last[q] /\ requested'[q] = requested[q]
      BY <1>0, <1>2, <1>8 DEF TypeOK
    <2> QED
      BY <1>0, <1>1, <1>2, <1>8, <1>p, <2>1, UntouchedKept
  <1> QED
    BY <1>7, <1>8
\* Every step preserves what is known of every partition.
LEMMA NextSettled ==
    ASSUME DeliveryInv, Strict, OffsetsFit, [Next]_vars, NEW p \in Partitions
    PROVE  ReadSettledAt(p)'
  <1>0. SessionTypeOK /\ CommitsAhead /\ ReadSettledAt(p)
    BY DeliveryParts DEF OffsetsInv, TypeOK
  <1>1. ASSUME NEW q \in Partitions, Produce(q) PROVE ReadSettledAt(p)'
    BY <1>0, <1>1, QuietKept DEF Produce, sessionVars, Live
  <1>2. ASSUME NEW q \in Partitions, CommitArrives(q) PROVE ReadSettledAt(p)'
    BY <1>2, ArrivedKept
  <1>3. CASE Connect
    BY <1>3, ConnectSettled
  <1>4. CASE Receive
    BY <1>4, ReceiveSettled
  <1>5. CASE Step
    <2>1. cur' = cur /\ Live' = Live /\ UNCHANGED brokerVars
      BY <1>5, AfterStages DEF Step, Internal, Compose, SendOk, SendFails, Record, Live
    <2> QED
      BY <1>0, <2>1, QuietKept DEF brokerVars
  <1>6. CASE Ack
    BY <1>6, AckSettled
  <1>7. CASE Fail
    <2>1. handle(errored) = "Abort"
      BY DEF handle
    <2>2. ~Live' /\ UNCHANGED <<committed, joined>>
      BY <1>7, <2>1 DEF Fail, Failed, Skips, Disconnect, Live
    <2> QED
      BY <1>0, <2>2, OffKept
  <1>8. CASE AckFails \/ RecvFails \/ Exit
    BY <1>0, <1>8, OffKept DEF AckFails, RecvFails, Exit, Stop, Disconnect, Live
  <1>9. CASE Rebalance
    BY <1>9, RebalanceSettled
  <1>10. CASE Reboot
    BY <1>0, <1>10, OffKept DEF Reboot, Restart, brokerVars, Live
  <1>11. CASE Lapse \/ Outage \/ UNCHANGED vars
    BY <1>0, <1>11, QuietKept DEF Lapse, Expire, Outage, SourceLost, vars, sessionVars, brokerVars, Live
  <1> QED
    BY <1>1, <1>2, <1>3, <1>4, <1>5, <1>6, <1>7, <1>8, <1>9, <1>10, <1>11 DEF Next, Broker, Session

\* What the session knows of the message in hand and of the ids it has seen.
LEMMA NextSession ==
    ASSUME SessionTypeOK, SeenSent, HandJustified, OffsetsInv, [Next]_vars
    PROVE  SeenSent' /\ HandJustified'
  <1>s. ASSUME SessionStep PROVE SeenSent' /\ HandJustified'
    BY <1>s, SeenSentKept, HandJustifiedKept
  <1>f. ASSUME Fault \/ UNCHANGED faults, UNCHANGED <<pc, cur, errored, seen, source, sent, fresh>>
        PROVE  SeenSent' /\ HandJustified'
    BY <1>f, FaultKept
  <1>1. CASE Broker \/ Rebalance \/ UNCHANGED vars
    BY <1>1, <1>f DEF Broker, Produce, CommitArrives, Rebalance, vars, sessionVars
  <1>2. CASE Receive
    BY <1>2, <1>s, ReceiveKept DEF SessionStep
  <1>3. CASE AckFails \/ RecvFails
    BY <1>3, <1>s DEF AckFails, RecvFails, Dropped, SessionStep, SessionTypeOK
  <1>4. CASE Connect \/ Step \/ Ack \/ Fail \/ Exit \/ Reboot \/ Lapse \/ Outage
    BY <1>4, <1>s DEF Connect, Step, Ack, Fail, Exit, Reboot, Lapse, Outage, SessionStep
  <1> QED
    BY <1>1, <1>2, <1>3, <1>4 DEF Next, Session

\* The invariant of the deliveries holds initially.
LEMMA InitDelivery == Init /\ GroupKnown => DeliveryInv
  <1> SUFFICES ASSUME Init, GroupKnown PROVE DeliveryInv
    OBVIOUS
  <1>1. SeenSent /\ HandJustified
    BY DEF Init, SessionInit, SeenSent, HandJustified
  <1>2. ASSUME NEW p \in Partitions PROVE ReadSettledAt(p)
    BY DEF Init, SessionInit, GroupKnown, ReadSettledAt, Live
  <1> QED
    BY <1>1, <1>2, InitOffsets, DeliveryParts

\* The invariant of the deliveries holds in every state, in strict mode and when
\* the group has committed offsets before.
THEOREM DeliveryInvariant ==
    Strict /\ OffsetsFit /\ GroupKnown => (Spec => []DeliveryInv)
  <1> SUFFICES ASSUME Strict, OffsetsFit, GroupKnown PROVE Spec => []DeliveryInv
    OBVIOUS
  <1>1. Init => DeliveryInv
    BY InitDelivery
  <1>2. DeliveryInv /\ [Next]_vars => DeliveryInv'
    <2> SUFFICES ASSUME DeliveryInv, [Next]_vars PROVE DeliveryInv'
      OBVIOUS
    <2>1. OffsetsInv /\ SessionTypeOK /\ SeenSent /\ HandJustified
      BY DEF DeliveryInv, OffsetsInv, TypeOK
    <2>2. OffsetsInv' /\ SeenSent' /\ HandJustified'
      BY <2>1, NextOffsets, NextSession
    <2> QED
      BY <2>2, NextSettled, DeliveryPartsNext
  <1> QED
    BY <1>1, <1>2, PTL DEF Spec

\* What the group has committed, and so will not be given again, has reached the
\* sink: across redeliveries, reconnects, rebalances and kills.
THEOREM CommittedReached ==
    Strict /\ OffsetsFit /\ GroupKnown => (Spec => []CommittedDelivered)
  <1>1. DeliveryInv => CommittedDelivered
    BY DEF DeliveryInv
  <1> QED
    BY <1>1, DeliveryInvariant, PTL

\* Wherever a partition is assigned anew, no message that has not reached the
\* sink is skipped.
THEOREM ReassignmentSafe ==
    Strict /\ OffsetsFit /\ GroupKnown => (Spec => ReassignedSkipsNothing)
  <1> DEFINE NoneSkipped(p) ==
           joined[p] # None /\ position'[p] \notin {position[p], position[p] + 1}
             => \A o \in joined[p] .. position'[p] - 1 : Settled(p, o)
  <1> SUFFICES ASSUME Strict, OffsetsFit, GroupKnown PROVE Spec => ReassignedSkipsNothing
    OBVIOUS
  <1>1. DeliveryInv /\ [Next]_vars => [\A p \in Partitions : NoneSkipped(p)]_vars
    <2> SUFFICES ASSUME DeliveryInv, [Next]_vars, NEW p \in Partitions,
                        joined[p] # None, position'[p] \notin {position[p], position[p] + 1}
                 PROVE  \A o \in joined[p] .. position'[p] - 1 : Settled(p, o)
      OBVIOUS
    <2>0. ReadSettledAt(p) /\ position \in [Partitions -> Nat]
      BY DeliveryParts DEF OffsetsInv, TypeOK
    <2>1. CASE Assign /\ UNCHANGED committed
      <3>1. position'[p] = committed[p]
        BY <2>0, <2>1 DEF Assign, Assigned, ReadSettledAt
      <3> QED
        BY <2>0, <3>1 DEF ReadSettledAt, SettledTo
    <2>2. CASE Receive
      BY <2>0, <2>2 DEF Receive
    <2>3. CASE UNCHANGED position
      BY <2>3
    <2>4. (Assign /\ UNCHANGED committed) \/ Receive \/ UNCHANGED position
      BY DEF Next, Broker, Session, Produce, CommitArrives, Connect, Step, Ack, AckFails, Fail,
         RecvFails, Rebalance, Exit, Reboot, Lapse, Outage, Disconnect, vars, brokerVars
    <2> QED
      BY <2>1, <2>2, <2>3, <2>4
  <1> QED
    BY <1>1, DeliveryInvariant, PTL DEF Spec, ReassignedSkipsNothing
-----------------------------------------------------------------------------
(* ConsumeKafka implements AtLeastOnce *)

\* Where a partition was joined it stays joined, and a step that sends commits
\* nothing.
LEMMA BrokerOrSink ==
    ASSUME [Next]_vars
    PROVE  /\ \A p \in Partitions : joined[p] # None => joined'[p] = joined[p]
           /\ sent' = sent \/ (SendOk /\ UNCHANGED brokerVars)
  <1>1. CASE Step
    BY <1>1 DEF Step, Internal, Compose, SendOk, SendFails, Record, brokerVars
  <1>2. CASE Connect \/ Rebalance
    BY <1>2 DEF Connect, Begin, Rebalance, Assign
  <1>3. CASE Broker \/ Receive \/ Ack \/ AckFails \/ Fail \/ RecvFails
    BY <1>3 DEF Broker, Produce, CommitArrives, Receive, Take, Ack, Acked, AckFails, Fail, Failed,
                RecvFails, Disconnect, sessionVars, brokerVars
  <1>4. CASE Exit \/ Reboot \/ Lapse \/ Outage \/ UNCHANGED vars
    BY <1>4 DEF Exit, Stop, Reboot, Restart, Lapse, Expire, Outage, SourceLost, Disconnect, vars,
                sessionVars, brokerVars
  <1> QED
    BY <1>1, <1>2, <1>3, <1>4 DEF Next, Session

\* Every step sends, commits what was settled, or does nothing the promise is
\* about.
LEMMA StepPromise ==
    ASSUME Strict, OffsetsFit, DeliveryInv, DeliveryInv', [Next]_vars
    PROVE  [Promise!Deliver \/ Promise!Release]_<<sent, Passed>>
  <1>0. TypeOK /\ SessionTypeOK
    BY DEF DeliveryInv, OffsetsInv, TypeOK
  <1>1. CASE SendOk /\ UNCHANGED brokerVars
    <2>1. Passed' = Passed
      BY <1>1 DEF Passed, brokerVars
    <2>2. sent \subseteq sent' /\ sent' \subseteq Messages
      BY <1>0, <1>1 DEF SendOk, SessionTypeOK
    <2> QED
      BY <2>1, <2>2 DEF Promise!Deliver
  <1>2. CASE sent' = sent
    <2>1. Passed \subseteq Passed'
      <3> SUFFICES ASSUME NEW m \in Messages, NEW p \in Partitions, joined[p] # None,
                          NEW o \in joined[p] .. committed[p] - 1, Log[p][o + 1] = m
                   PROVE  m \in Passed'
        BY DEF Passed
      <3>1. joined'[p] = joined[p]
        BY BrokerOrSink
      <3>2. committed'[p] >= committed[p]
        BY NextOffsets DEF DeliveryInv, vars, brokerVars
      <3>3. /\ committed[p] \in Nat \cup {None} /\ committed'[p] \in Nat \cup {None}
            /\ joined[p] \in Nat \cup {None}
        BY DEF DeliveryInv, OffsetsInv, TypeOK
      <3>4. o \in joined'[p] .. committed'[p] - 1
        BY <3>1, <3>2, <3>3 DEF None
      <3> QED
        BY <3>1, <3>4 DEF Passed
    <2>2. ASSUME NEW m \in Passed' PROVE Promise!Forgettable(m)
      <3>1. PICK p \in Partitions : /\ joined'[p] # None
                                    /\ \E o \in joined'[p] .. committed'[p] - 1 : Log[p][o + 1] = m
        BY <2>2 DEF Passed
      <3>2. PICK o \in joined'[p] .. committed'[p] - 1 : Log[p][o + 1] = m
        BY <3>1
      <3>3. Settled(p, o)'
        BY <3>1, <3>2 DEF DeliveryInv, CommittedDelivered
      <3>4. m \in Messages /\ Delivered(m)'
        BY <2>2, <3>2, <3>3 DEF Settled, Unusable, Passed
      <3>5. m \in sent \/ (Idempotent /\ Id[m] # NoId /\ \E n \in sent : Id[n] = Id[m])
        BY <1>2, <3>4 DEF Delivered
      <3>6. sent \subseteq Messages
        BY <1>0 DEF SessionTypeOK
      <3> QED
        BY <3>4, <3>5, <3>6 DEF Promise!Forgettable, Standing
    <2>3. Passed' \subseteq Messages
      BY DEF Passed
    <2> QED
      BY <1>2, <2>1, <2>2, <2>3 DEF Promise!Release
  <1> QED
    BY <1>1, <1>2, BrokerOrSink

\* In strict mode consume on Kafka implements at-least-once delivery, across
\* redeliveries, rebalances, lost commits, reconnects and kills.
THEOREM PromiseKept ==
    Strict /\ OffsetsFit /\ GroupKnown => (Spec => KeepsPromise)
  <1> SUFFICES ASSUME Strict, OffsetsFit, GroupKnown PROVE Spec => KeepsPromise
    OBVIOUS
  <1>1. Init => Promise!Init
    BY DEF Init, SessionInit, Passed, Promise!Init
  <1>2. DeliveryInv /\ DeliveryInv' /\ [Next]_vars
          => [Promise!Deliver \/ Promise!Release]_<<sent, Passed>>
    BY StepPromise
  <1> QED
    BY <1>1, <1>2, DeliveryInvariant, PTL DEF Spec, KeepsPromise, Promise!Spec
=============================================================================
