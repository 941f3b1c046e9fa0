------------------------- MODULE ConsumeDeliveryProofs -------------------------
(***************************************************************************)
(* Proofs about Consume and ConsumeDelivery, for every set of messages,    *)
(* prefetch limit and number of failures.  First, the steps of the session *)
(* preserve the session's part of the invariant whatever the broker does;  *)
(* then the broker's part.  Last, with the inside of its sinks in view the *)
(* session is still the session of Consume, and what it acknowledges is    *)
(* with the receiver.                                                      *)
(***************************************************************************)
EXTENDS ConsumeDelivery, FiniteSetTheorems, TLAPS

\* A step of the session, without the broker's part.
SessionStep ==
    \/ Begin
    \/ \E m \in Messages : Take(m)
    \/ Internal
    \/ Acked(TRUE)
    \/ Acked(FALSE)
    \/ Failed
    \/ Closed
    \/ Stop
    \/ Restart
    \/ \E i \in Ids : Expire(i)
    \/ SourceLost

\* The stage that follows the others.
LEMMA AfterStages ==
    /\ After("compose") = "send"
    /\ After("send") = "record"
    /\ After("record") = "ack"
    /\ After("ack") = "recv"
  BY DEF After

\* Every identified message has its id among Ids.
LEMMA IdsOf ==
    \A m \in Messages : Id[m] # NoId => Id[m] \in Ids
  BY DEF Ids

-----------------------------------------------------------------------------
(* The session *)

\* Every step of the session keeps its variables well typed.
LEMMA SessionTyping ==
    ASSUME SessionTypeOK, SessionStep
    PROVE  SessionTypeOK'
  <1> USE DEF SessionTypeOK, Stages
  <1>f. ASSUME Fault PROVE faults' \in 0 .. MaxFaults
    BY <1>f, SessionAssumption DEF Fault
  <1>1. CASE Begin
    BY <1>1 DEF Begin
  <1>2. ASSUME NEW m \in Messages, Take(m) PROVE SessionTypeOK'
    BY <1>2, SessionAssumption DEF Take, ErrorStages
  <1>3. CASE Compose
    BY <1>3, AfterStages DEF Compose, ErrorStages
  <1>4. CASE SendOk
    <2>1. PICK m \in cur : /\ pc = "send" /\ pc' = "record" /\ sent' = sent \cup {m}
                           /\ fresh' = IF Id[m] = NoId THEN fresh ELSE [fresh EXCEPT ![Id[m]] = @ + 1]
      BY <1>4, AfterStages DEF SendOk
    <2>2. UNCHANGED <<cur, errored, seen, source, faults>>
      BY <1>4 DEF SendOk
    <2>3. fresh' \in [Ids -> Nat]
      BY <2>1, IdsOf
    <2> QED
      BY <2>1, <2>2, <2>3
  <1>5. CASE SendFails
    BY <1>5, <1>f DEF SendFails, ErrorStages
  <1>6. CASE Record
    <2>1. PICK m \in cur : /\ pc = "record" /\ pc' = "ack"
                           /\ seen' = IF Idempotent /\ Id[m] # NoId THEN seen \cup {Id[m]} ELSE seen
      BY <1>6, AfterStages DEF Record
    <2> QED
      BY <1>6, <2>1, IdsOf DEF Record
  <1>7. CASE Acked(TRUE)
    BY <1>7, AfterStages DEF Acked
  <1>8. CASE Acked(FALSE)
    BY <1>8 DEF Acked
  <1>9. CASE Failed
    BY <1>9 DEF Failed
  <1>10. CASE Closed
    BY <1>10 DEF Closed
  <1>11. CASE Stop
    BY <1>11, <1>f DEF Stop
  <1>12. CASE Restart
    BY <1>12 DEF Restart
  <1>13. ASSUME NEW i \in Ids, Expire(i) PROVE SessionTypeOK'
    BY <1>13, <1>f DEF Expire
  <1>14. CASE SourceLost
    BY <1>14, <1>f DEF SourceLost
  <1> QED
    BY <1>1, <1>2, <1>3, <1>4, <1>5, <1>6, <1>7, <1>8, <1>9, <1>10, <1>11, <1>12, <1>13, <1>14
       DEF SessionStep, Internal

\* The cache never holds the id of something that was not sent.
LEMMA SeenSentKept ==
    ASSUME SessionTypeOK, SeenSent, HandJustified, SessionStep
    PROVE  SeenSent'
  <1> USE DEF SeenSent
  <1>1. ASSUME UNCHANGED <<seen, sent>> PROVE SeenSent'
    BY <1>1
  <1>2. CASE SendOk
    BY <1>2 DEF SendOk
  <1>3. CASE Record
    <2>1. PICK m \in cur : /\ pc = "record"
                           /\ seen' = IF Idempotent /\ Id[m] # NoId THEN seen \cup {Id[m]} ELSE seen
                           /\ sent' = sent
      BY <1>3 DEF Record
    <2>2. Delivered(m)
      BY <2>1 DEF HandJustified
    <2>3. Idempotent /\ Id[m] # NoId => \E n \in sent : Id[n] = Id[m]
      BY <2>2 DEF Delivered
    <2> QED
      BY <2>1, <2>3
  <1>4. CASE Restart
    BY <1>4 DEF Restart
  <1>5. ASSUME NEW i \in Ids, Expire(i) PROVE SeenSent'
    BY <1>5 DEF Expire
  <1> QED
    BY <1>1, <1>2, <1>3, <1>4, <1>5
       DEF SessionStep, Internal, Begin, Take, Compose, SendFails, Acked, Failed, Closed, Stop,
           SourceLost

\* What is in hand stays justified.
LEMMA HandJustifiedKept ==
    ASSUME SessionTypeOK, SeenSent, HandJustified, SessionStep
    PROVE  HandJustified'
  <1> USE DEF HandJustified
  <1>1. ASSUME cur' = {} PROVE HandJustified'
    BY <1>1
  <1>2. ASSUME UNCHANGED <<pc, cur, errored, sent>>, source' => source PROVE HandJustified'
    BY <1>2 DEF Delivered, Unusable
  <1>3. ASSUME NEW m \in Messages, Take(m) PROVE HandJustified'
    <2>1. is_duplicate(m) => Delivered(m)'
      BY <1>3 DEF Take, is_duplicate, SeenSent, Delivered, SessionTypeOK, Ids
    <2>2. pc' = "fail" => Strict \/ Unusable(m)'
      BY <1>3 DEF Take, Unusable
    <2>3. pc' \in {"record", "ack"} => Delivered(m)'
      BY <1>3, <2>1 DEF Take
    <2> QED
      BY <1>3, <2>2, <2>3 DEF Take
  <1>4. CASE Compose
    <2>1. PICK m \in cur : IF source /\ Fate[m] = "ok"
                           THEN pc' = "send" ELSE pc' = "fail"
      BY <1>4, AfterStages DEF Compose
    <2>2. pc' = "fail" => Strict \/ Unusable(m)'
      BY <1>4, <2>1 DEF Compose, Unusable
    <2>3. cur' = cur /\ pc' \in {"send", "fail"} /\ \A n \in cur : n = m
      BY <1>4, <2>1 DEF Compose, SessionTypeOK
    <2> QED
      BY <2>2, <2>3
  <1>5. CASE SendOk
    <2>1. PICK m \in cur : pc' = "record" /\ sent' = sent \cup {m} /\ cur' = cur
      BY <1>5, AfterStages DEF SendOk
    <2>2. \A n \in cur : n = m
      BY DEF SessionTypeOK
    <2> QED
      BY <2>1, <2>2 DEF Delivered
  <1>6. CASE SendFails
    BY <1>6 DEF SendFails
  <1>7. CASE Record
    <2>1. /\ pc = "record" /\ pc' = "ack" /\ UNCHANGED <<cur, sent>>
      BY <1>7, AfterStages DEF Record
    <2> QED
      BY <2>1 DEF Delivered
  <1>8. ASSUME Acked(TRUE) \/ Acked(FALSE) PROVE cur' = {}
    BY <1>8, AfterStages DEF Acked
  <1>9. CASE Begin
    BY <1>9, <1>1 DEF Begin, SessionTypeOK
  <1>10. CASE Restart
    BY <1>10, <1>1 DEF Restart, SessionTypeOK
  <1>11. CASE Closed
    BY <1>11, <1>1 DEF Closed, SessionTypeOK
  <1>12. ASSUME NEW i \in Ids, Expire(i) PROVE HandJustified'
    BY <1>12, <1>2 DEF Expire
  <1>13. CASE SourceLost
    BY <1>13, <1>2 DEF SourceLost
  <1> QED
    BY <1>1, <1>3, <1>4, <1>5, <1>6, <1>7, <1>8, <1>9, <1>10, <1>11, <1>12, <1>13
       DEF SessionStep, Internal, Failed, Stop

\* No id is counted twice.
LEMMA FreshCountedKept ==
    ASSUME SessionTypeOK, FreshCounted, SessionStep
    PROVE  FreshCounted'
  <1> SUFFICES ASSUME Idempotent, NEW i \in Ids PROVE FreshFor(i)'
    BY DEF FreshCounted
  <1>0. FreshFor(i) /\ fresh[i] \in Nat
    BY DEF FreshCounted, SessionTypeOK
  <1> USE DEF FreshFor
  <1>1. ASSUME NEW m \in Messages, Take(m) PROVE FreshFor(i)'
    <2>1. UNCHANGED <<seen, fresh>> /\ cur = {} /\ cur' = {m} /\ pc = "recv"
      BY <1>1 DEF Take, SessionTypeOK
    <2>2. pc' \in {"compose", "send"} => Id[m] = NoId \/ Id[m] \notin seen
      BY <1>1 DEF Take, is_duplicate
    <2>3. i # NoId
      BY DEF Ids
    <2>4. fresh[i] = 1 => i \in seen
      BY <1>0, <2>1
    <2> QED
      BY <1>0, <2>1, <2>2, <2>3, <2>4
  <1>2. CASE Compose
    BY <1>2, <1>0, AfterStages DEF Compose
  <1>3. CASE SendOk
    <2>1. PICK m \in cur : /\ pc = "send" /\ pc' = "record" /\ UNCHANGED <<cur, seen>>
                           /\ fresh' = IF Id[m] = NoId THEN fresh ELSE [fresh EXCEPT ![Id[m]] = @ + 1]
      BY <1>3, AfterStages DEF SendOk
    <2>2. CASE Id[m] = i
      <3>1. fresh[i] = 0
        BY <1>0, <2>1, <2>2
      <3>2. fresh'[i] = 1
        BY <2>1, <2>2, <3>1 DEF Ids, SessionTypeOK
      <3> QED
        BY <2>1, <2>2, <3>2
    <2>3. CASE Id[m] # i
      <3>1. fresh'[i] = fresh[i]
        BY <2>1, <2>3 DEF SessionTypeOK
      <3> QED
        BY <1>0, <2>1, <3>1
    <2> QED
      BY <2>2, <2>3
  <1>4. CASE SendFails
    BY <1>4, <1>0 DEF SendFails
  <1>5. CASE Record
    <2>1. PICK m \in cur : /\ pc = "record" /\ pc' = "ack" /\ UNCHANGED <<cur, fresh>>
                           /\ seen' = IF Idempotent /\ Id[m] # NoId THEN seen \cup {Id[m]} ELSE seen
      BY <1>5, AfterStages DEF Record
    <2>2. \A n \in cur : n = m
      BY DEF SessionTypeOK
    <2>3. i # NoId
      BY DEF Ids
    <2> QED
      BY <1>0, <2>1, <2>2, <2>3
  <1>6. ASSUME Acked(TRUE) \/ Acked(FALSE) PROVE FreshFor(i)'
    BY <1>6, <1>0, AfterStages DEF Acked
  <1>7. CASE Begin
    BY <1>7, <1>0 DEF Begin
  <1>8. CASE Failed
    BY <1>8, <1>0 DEF Failed
  <1>9. CASE Closed
    BY <1>9, <1>0 DEF Closed
  <1>10. CASE Stop
    BY <1>10, <1>0 DEF Stop
  <1>11. CASE Restart
    BY <1>11, <1>0 DEF Restart
  <1>12. ASSUME NEW k \in Ids, Expire(k) PROVE FreshFor(i)'
    BY <1>12, <1>0 DEF Expire, SessionTypeOK
  <1>13. CASE SourceLost
    BY <1>13, <1>0 DEF SourceLost
  <1> QED
    BY <1>1, <1>2, <1>3, <1>4, <1>5, <1>6, <1>7, <1>8, <1>9, <1>10, <1>11, <1>12, <1>13
       DEF SessionStep, Internal

\* The session's part of the invariant holds whatever the broker does.
LEMMA SessionKept ==
    ASSUME SessionTypeOK, SessionInv, SessionStep
    PROVE  SessionTypeOK' /\ SessionInv'
  BY SessionTyping, SeenSentKept, HandJustifiedKept, FreshCountedKept DEF SessionInv

\* A step that only counts a fault leaves the session's invariant alone.
LEMMA FaultKept ==
    ASSUME SessionTypeOK, SessionInv, Fault \/ UNCHANGED faults,
           UNCHANGED <<pc, cur, errored, seen, source, sent, fresh>>
    PROVE  SessionTypeOK' /\ SessionInv'
  <1>1. SessionTypeOK'
    BY SessionAssumption DEF SessionTypeOK, Fault
  <1>2. SessionInv'
    BY DEF SessionInv, SeenSent, HandJustified, FreshCounted, FreshFor, Delivered, Unusable
  <1> QED
    BY <1>1, <1>2

-----------------------------------------------------------------------------
(* The broker *)

\* The broker's part of the type invariant, and of the invariant.
BrokerTypes ==
    /\ ready \subseteq Messages
    /\ unacked \subseteq Messages
    /\ acked \subseteq Messages
    /\ discarded \subseteq Messages
    /\ channel \in {"none", "open", "broken", "closed"}
    /\ inbox \in Seq(Messages)
    /\ Prefetch > 0 => Cardinality(unacked) <= Prefetch

BrokerInv == BrokerTypes /\ Conserved /\ ChannelHeld /\ HeldOnce /\ NoneForgotten

\* The invariant is the session's and the broker's, in a state and in the next.
LEMMA InvParts == ConsumeInv <=> SessionTypeOK /\ SessionInv /\ BrokerInv
  BY DEF ConsumeInv, TypeOK, BrokerTypes, BrokerInv

LEMMA InvPartsNext == SessionTypeOK' /\ SessionInv' /\ BrokerInv' => ConsumeInv'
  BY DEF ConsumeInv, TypeOK, BrokerTypes, BrokerInv

\* A part of the deliveries respects the limit the whole respects.
LEMMA CreditOfPart ==
    ASSUME BrokerTypes, NEW S, S \subseteq unacked
    PROVE  Prefetch > 0 => Cardinality(S) <= Prefetch
  <1>1. IsFiniteSet(unacked)
    BY SessionAssumption, FS_Subset DEF BrokerTypes
  <1>2. Cardinality(S) <= Cardinality(unacked) /\ Cardinality(S) \in Nat /\ Cardinality(unacked) \in Nat
    BY <1>1, FS_Subset, FS_CardinalityType
  <1> QED
    BY <1>2, PrefetchAssumption DEF BrokerTypes

\* Nothing is delivered on a channel that is gone.
LEMMA CreditOfNone == Prefetch > 0 => Cardinality({}) <= Prefetch
  BY FS_EmptySet, PrefetchAssumption

\* The deliveries of a sequence are those of its tail, and its head.
LEMMA ElementsOf ==
    ASSUME NEW s \in Seq(Messages)
    PROVE  /\ \A m \in Messages : Elements(Append(s, m)) = Elements(s) \cup {m}
           /\ s # <<>> => Elements(s) = {Head(s)} \cup Elements(Tail(s))
           /\ Elements(<<>>) = {}
  <1>1. ASSUME NEW m \in Messages PROVE Elements(Append(s, m)) = Elements(s) \cup {m}
    <2>1. /\ DOMAIN Append(s, m) = 1 .. Len(s) + 1 /\ Len(s) \in Nat /\ DOMAIN s = 1 .. Len(s)
          /\ Append(s, m)[Len(s) + 1] = m
          /\ \A k \in 1 .. Len(s) : Append(s, m)[k] = s[k]
      OBVIOUS
    <2> QED
      BY <2>1 DEF Elements
  <1>2. ASSUME s # <<>> PROVE Elements(s) = {Head(s)} \cup Elements(Tail(s))
    <2>1. /\ Len(s) \in Nat \ {0} /\ DOMAIN s = 1 .. Len(s) /\ DOMAIN Tail(s) = 1 .. Len(s) - 1
          /\ Head(s) = s[1] /\ \A k \in 1 .. Len(s) - 1 : Tail(s)[k] = s[k + 1]
      BY <1>2
    <2>2. ASSUME NEW k \in 1 .. Len(s) PROVE s[k] \in {Head(s)} \cup Elements(Tail(s))
      <3>1. CASE k = 1
        BY <2>1, <3>1
      <3>2. CASE k # 1
        <4>1. k - 1 \in 1 .. Len(s) - 1 /\ Tail(s)[k - 1] = s[k]
          BY <2>1, <3>2
        <4> QED
          BY <2>1, <4>1 DEF Elements
      <3> QED
        BY <3>1, <3>2
    <2>3. \A k \in 1 .. Len(s) - 1 : Tail(s)[k] = s[k + 1] /\ k + 1 \in 1 .. Len(s)
      BY <2>1
    <2> QED
      BY <2>1, <2>2, <2>3 DEF Elements
  <1>3. Elements(<<>>) = {}
    BY DEF Elements
  <1> QED
    BY <1>1, <1>2, <1>3

\* Delivering one more message.
LEMMA DeliverKept ==
    ASSUME ConsumeInv, NEW m \in Messages, Deliver(m)
    PROVE  BrokerInv'
  <1>0. SessionTypeOK /\ BrokerTypes /\ Conserved /\ ChannelHeld /\ HeldOnce /\ NoneForgotten
    BY InvParts DEF BrokerInv
  <1>1. (Prefetch > 0 => Cardinality(unacked) <= Prefetch)'
    <2>1. IsFiniteSet(unacked)
      BY <1>0, SessionAssumption, FS_Subset DEF BrokerTypes
    <2>2. /\ IsFiniteSet(unacked \cup {m})
          /\ Cardinality(unacked \cup {m})
               = IF m \in unacked THEN Cardinality(unacked) ELSE Cardinality(unacked) + 1
      BY <2>1, FS_AddElement
    <2>3. Cardinality(unacked) \in Nat /\ Cardinality(unacked \cup {m}) \in Nat
      BY <2>1, <2>2, FS_CardinalityType
    <2> QED
      BY <2>2, <2>3, PrefetchAssumption DEF Deliver, Credit
  <1>2. BrokerTypes'
    BY <1>0, <1>1 DEF BrokerTypes, Deliver
  <1>3. Conserved'
    BY <1>0 DEF Conserved, Deliver
  <1>4. ChannelHeld'
    BY <1>0 DEF ChannelHeld, Deliver, sessionVars
  <1>5. Elements(inbox') = Elements(inbox) \cup {m}
    BY <1>0, ElementsOf DEF Deliver, BrokerTypes
  <1>6. NoneForgotten'
    BY <1>0, <1>5 DEF NoneForgotten, Deliver, sessionVars
  <1>7. m \notin Elements(inbox) /\ m \notin cur
    BY <1>0 DEF NoneForgotten, Deliver, Conserved
  <1>8. HeldOnce'
    BY <1>0, <1>5, <1>7 DEF HeldOnce, Deliver, sessionVars, BrokerTypes, Elements
  <1> QED
    BY <1>2, <1>3, <1>4, <1>6, <1>8 DEF BrokerInv

\* Settling the message in hand.
LEMMA SettleKept ==
    ASSUME ConsumeInv, NEW m \in cur, NEW into \in {"ready", "acked", "discarded"},
           Settle(m, into), UNCHANGED <<channel, inbox>>, cur' = {}, pc' = "recv",
           pc \notin {"off", "down"}
    PROVE  BrokerInv'
  <1>0. SessionTypeOK /\ BrokerTypes /\ Conserved /\ ChannelHeld /\ HeldOnce /\ NoneForgotten
    BY InvParts DEF BrokerInv
  <1>1. m \in Messages /\ cur = {m}
    BY <1>0 DEF SessionTypeOK
  <1>2. unacked' \subseteq unacked
    BY DEF Settle
  <1>3. BrokerTypes'
    <2>1. (Prefetch > 0 => Cardinality(unacked) <= Prefetch)'
      BY <1>0, <1>2, CreditOfPart
    <2> QED
      BY <1>0, <1>1, <2>1 DEF BrokerTypes, Settle
  <1>4. Conserved'
    <2>1. CASE channel = "open"
      <3>1. m \in unacked
        BY <1>0, <1>1, <2>1 DEF NoneForgotten
      <3> QED
        BY <1>0, <2>1, <3>1 DEF Conserved, Settle
    <2>2. CASE channel # "open"
      BY <1>0, <2>2 DEF Conserved, Settle
    <2> QED
      BY <2>1, <2>2
  <1>5. ChannelHeld'
    BY <1>0 DEF ChannelHeld, Settle
  <1>6. HeldOnce'
    BY <1>0 DEF HeldOnce
  <1>7. NoneForgotten'
    BY <1>0, <1>1 DEF NoneForgotten, HeldOnce, Settle, Elements
  <1> QED
    BY <1>3, <1>4, <1>5, <1>6, <1>7 DEF BrokerInv

\* Dropping the channel.
LEMMA DisconnectKept ==
    ASSUME BrokerInv, Disconnect, pc' \in {"off", "down"}
    PROVE  BrokerInv'
  <1>1. BrokerTypes'
    BY CreditOfNone DEF BrokerInv, BrokerTypes, Disconnect
  <1>2. Conserved'
    BY DEF BrokerInv, BrokerTypes, Conserved, Disconnect
  <1>3. ChannelHeld' /\ HeldOnce' /\ NoneForgotten'
    BY DEF ChannelHeld, HeldOnce, NoneForgotten, Disconnect
  <1> QED
    BY <1>1, <1>2, <1>3 DEF BrokerInv

\* A step inside a session that the broker does not see.
LEMMA StepKept ==
    ASSUME BrokerInv, UNCHANGED brokerVars, cur' = cur,
           (pc' \in {"off", "down"}) <=> (pc \in {"off", "down"})
    PROVE  BrokerInv'
  BY DEF BrokerInv, BrokerTypes, Conserved, ChannelHeld, HeldOnce, NoneForgotten, Elements, brokerVars

\* A new channel starts with nothing in hand.
LEMMA ConnectKept ==
    ASSUME ConsumeInv, Connect
    PROVE  BrokerInv'
  <1>0. SessionTypeOK /\ BrokerTypes /\ Conserved /\ ChannelHeld
    BY InvParts DEF BrokerInv
  <1>1. inbox = <<>> /\ unacked = {} /\ cur' = {} /\ pc' = "recv" /\ channel' = "open"
    BY <1>0 DEF Connect, Begin, SessionTypeOK, ChannelHeld
  <1>2. BrokerTypes' /\ Conserved'
    BY <1>0 DEF BrokerTypes, Conserved, Connect
  <1>3. ChannelHeld' /\ HeldOnce' /\ NoneForgotten'
    BY <1>1, ElementsOf DEF ChannelHeld, HeldOnce, NoneForgotten, Connect, Elements
  <1> QED
    BY <1>2, <1>3 DEF BrokerInv

\* Taking a delivery out of the buffer.
LEMMA ReceiveKept ==
    ASSUME ConsumeInv, Receive
    PROVE  BrokerInv' /\ Head(inbox) \in Messages
  <1>0. SessionTypeOK /\ BrokerTypes /\ Conserved /\ ChannelHeld /\ HeldOnce /\ NoneForgotten
    BY InvParts DEF BrokerInv
  <1>1. inbox # <<>> /\ inbox \in Seq(Messages) /\ inbox' = Tail(inbox)
    BY <1>0 DEF Receive, BrokerTypes
  <1>2. Head(inbox) \in Messages /\ inbox' \in Seq(Messages)
    BY <1>1
  <1>3. cur = {} /\ cur' = {Head(inbox)} /\ pc = "recv" /\ pc' \notin {"off", "down"}
    BY <1>0 DEF Receive, Take, SessionTypeOK
  <1>4. BrokerTypes' /\ Conserved'
    BY <1>0, <1>2 DEF BrokerTypes, Conserved, Receive
  <1>5. ChannelHeld'
    BY <1>0, <1>3 DEF ChannelHeld, Receive
  <1>6. NoneForgotten'
    BY <1>0, <1>1, <1>3, ElementsOf DEF NoneForgotten, Receive
  <1>7. HeldOnce'
    <2>1. /\ Len(inbox) \in Nat \ {0} /\ DOMAIN inbox = 1 .. Len(inbox)
          /\ DOMAIN Tail(inbox) = 1 .. Len(inbox) - 1 /\ Head(inbox) = inbox[1]
          /\ \A k \in 1 .. Len(inbox) - 1 : Tail(inbox)[k] = inbox[k + 1]
      BY <1>1
    <2>2. channel' = channel
      BY DEF Receive
    <2>3. ASSUME channel = "open", NEW k \in 1 .. Len(inbox) - 1
          PROVE  Tail(inbox)[k] # inbox[1]
      BY <1>0, <2>1, <2>3 DEF HeldOnce
    <2>4. ASSUME channel = "open", NEW j \in 1 .. Len(inbox) - 1, NEW k \in 1 .. Len(inbox) - 1, j # k
          PROVE  Tail(inbox)[j] # Tail(inbox)[k]
      BY <1>0, <2>1, <2>4 DEF HeldOnce
    <2> QED
      BY <1>1, <1>3, <2>1, <2>2, <2>3, <2>4 DEF HeldOnce, Elements
  <1> QED
    BY <1>2, <1>4, <1>5, <1>6, <1>7 DEF BrokerInv

\* The broker loses the channel.
LEMMA ChannelLostKept ==
    ASSUME ConsumeInv, ChannelLost
    PROVE  ConsumeInv'
  <1>0. SessionTypeOK /\ SessionInv /\ BrokerTypes /\ Conserved /\ ChannelHeld
    BY InvParts DEF BrokerInv
  <1>1. SessionTypeOK' /\ SessionInv'
    BY <1>0, FaultKept DEF ChannelLost
  <1>2. BrokerTypes' /\ Conserved'
    BY <1>0, CreditOfNone DEF BrokerTypes, Conserved, ChannelLost
  <1>3. ChannelHeld' /\ HeldOnce' /\ NoneForgotten'
    BY <1>0 DEF ChannelHeld, HeldOnce, NoneForgotten, ChannelLost
  <1> QED
    BY <1>1, <1>2, <1>3, InvPartsNext DEF BrokerInv

\* The client library notices.
LEMMA ChannelClosedKept ==
    ASSUME ConsumeInv, ChannelClosed
    PROVE  ConsumeInv'
  <1>0. SessionTypeOK /\ SessionInv /\ BrokerTypes /\ Conserved /\ ChannelHeld
    BY InvParts DEF BrokerInv
  <1>1. SessionTypeOK' /\ SessionInv'
    BY <1>0, FaultKept DEF ChannelClosed, sessionVars
  <1>2. BrokerTypes' /\ Conserved'
    BY <1>0 DEF BrokerTypes, Conserved, ChannelClosed
  <1>3. ChannelHeld' /\ HeldOnce' /\ NoneForgotten'
    BY <1>0 DEF ChannelHeld, HeldOnce, NoneForgotten, ChannelClosed, sessionVars
  <1> QED
    BY <1>1, <1>2, <1>3, InvPartsNext DEF BrokerInv

\* The invariant holds initially.
LEMMA InitInv == Init => ConsumeInv
  <1> SUFFICES ASSUME Init PROVE ConsumeInv
    OBVIOUS
  <1>1. SessionTypeOK
    BY SessionAssumption DEF Init, SessionInit, SessionTypeOK, Stages, ErrorStages
  <1>2. SessionInv
    BY DEF Init, SessionInit, SessionInv, SeenSent, HandJustified, FreshCounted, FreshFor
  <1>3. BrokerTypes /\ Conserved
    BY CreditOfNone DEF Init, BrokerTypes, Conserved
  <1>4. ChannelHeld /\ HeldOnce /\ NoneForgotten
    BY DEF Init, SessionInit, ChannelHeld, HeldOnce, NoneForgotten
  <1> QED
    BY <1>1, <1>2, <1>3, <1>4, InvParts DEF BrokerInv

\* Every step preserves the invariant.
LEMMA NextInv == ConsumeInv /\ [Next]_vars => ConsumeInv'
  <1> SUFFICES ASSUME ConsumeInv, [Next]_vars PROVE ConsumeInv'
    OBVIOUS
  <1>0. SessionTypeOK /\ SessionInv /\ BrokerInv /\ ChannelHeld
    BY InvParts DEF BrokerInv
  <1>s. ASSUME SessionStep, BrokerInv' PROVE ConsumeInv'
    BY <1>0, <1>s, SessionKept, InvPartsNext
  <1>1. ASSUME NEW m \in Messages, Deliver(m) PROVE ConsumeInv'
    BY <1>0, <1>1, DeliverKept, FaultKept, InvPartsNext DEF Deliver, sessionVars
  <1>2. CASE ChannelLost
    BY <1>2, ChannelLostKept
  <1>3. CASE ChannelClosed
    BY <1>3, ChannelClosedKept
  <1>4. CASE Connect
    BY <1>4, <1>s, ConnectKept DEF Connect, SessionStep
  <1>5. CASE Receive
    BY <1>5, <1>s, ReceiveKept DEF Receive, SessionStep
  <1>6. CASE Step
    <2>1. cur' = cur /\ (pc' \in {"off", "down"} <=> pc \in {"off", "down"})
      BY <1>6, AfterStages DEF Step, Internal, Compose, SendOk, SendFails, Record
    <2> QED
      BY <1>0, <1>6, <1>s, <2>1, StepKept DEF Step, SessionStep
  <1>7. CASE Ack
    <2>1. PICK m \in cur : Acked(TRUE) /\ Settle(m, "acked") /\ UNCHANGED <<channel, inbox>>
      BY <1>7 DEF Ack
    <2>2. pc = "ack" /\ pc' = "recv" /\ cur' = {}
      BY <2>1, AfterStages DEF Acked
    <2> QED
      BY <2>1, <2>2, <1>s, SettleKept DEF SessionStep
  <1>8. CASE AckFails
    BY <1>0, <1>8, <1>s, DisconnectKept DEF AckFails, Acked, SessionStep
  <1>9. CASE Fail
    <2>1. PICK m \in cur : /\ Failed
                           /\ CASE handle(errored) = "Discard" -> Settle(m, "discarded") /\ UNCHANGED <<channel, inbox>>
                                [] handle(errored) = "Requeue" -> Settle(m, "ready") /\ UNCHANGED <<channel, inbox>>
                                [] handle(errored) = "Abort" -> Disconnect
      BY <1>9 DEF Fail
    <2>2. pc = "fail" /\ cur' = {} /\ pc' = IF handle(errored) = "Abort" THEN "down" ELSE "recv"
      BY <2>1 DEF Failed
    <2>3. CASE handle(errored) = "Discard"
      BY <2>1, <2>2, <2>3, <1>s, SettleKept DEF SessionStep
    <2>4. CASE handle(errored) = "Requeue"
      BY <2>1, <2>2, <2>4, <1>s, SettleKept DEF SessionStep
    <2>5. CASE handle(errored) = "Abort"
      BY <1>0, <2>1, <2>2, <2>5, <1>s, DisconnectKept DEF SessionStep
    <2>6. handle(errored) \in {"Discard", "Requeue", "Abort"}
      BY DEF handle
    <2> QED
      BY <2>3, <2>4, <2>5, <2>6
  <1>10. CASE StreamEnds
    BY <1>0, <1>10, <1>s, DisconnectKept DEF StreamEnds, Closed, SessionStep
  <1>11. CASE Exit
    BY <1>0, <1>11, <1>s, DisconnectKept DEF Exit, Stop, SessionStep
  <1>12. CASE Reboot
    BY <1>0, <1>12, <1>s, StepKept DEF Reboot, Restart, SessionStep
  <1>13. CASE Lapse
    BY <1>0, <1>13, <1>s, StepKept DEF Lapse, Expire, SessionStep
  <1>14. CASE Outage
    BY <1>0, <1>14, <1>s, StepKept DEF Outage, SourceLost, SessionStep
  <1>15. CASE UNCHANGED vars
    BY <1>0, <1>15, FaultKept, StepKept, InvPartsNext DEF vars, sessionVars
  <1> QED
    BY <1>1, <1>2, <1>3, <1>4, <1>5, <1>6, <1>7, <1>8, <1>9, <1>10, <1>11, <1>12, <1>13, <1>14, <1>15
       DEF Next, Broker, Session

-----------------------------------------------------------------------------
(* The theorems *)

\* The invariant holds in every state.
THEOREM ConsumeInvariant == Spec => []ConsumeInv
  BY InitInv, NextInv, PTL DEF Spec

\* Within one process and one TTL no id reaches the sink twice.
THEOREM NoDoubleSend == Spec => []SentOnce
  <1>1. ConsumeInv => SentOnce
    BY DEF ConsumeInv, SessionInv, FreshCounted, FreshFor, SentOnce
  <1> QED
    BY <1>1, ConsumeInvariant, PTL

\* No delivery is left unsettled on an open channel.
THEOREM NothingForgotten == Spec => []NoneForgotten
  <1>1. ConsumeInv => NoneForgotten
    BY DEF ConsumeInv
  <1> QED
    BY <1>1, ConsumeInvariant, PTL

\* A settled message has reached the sink, or may be dropped.
LEMMA SettledForgettable ==
    ASSUME ConsumeInv, NEW m \in cur,
           (pc = "ack") \/ (pc = "fail" /\ handle(errored) = "Discard")
    PROVE  Promise!Forgettable(m)
  <1>0. m \in Messages /\ sent \subseteq Messages
    BY DEF ConsumeInv, TypeOK, SessionTypeOK
  <1>1. CASE pc = "ack"
    <2>1. Delivered(m)
      BY <1>1 DEF ConsumeInv, SessionInv, HandJustified
    <2>2. Standing[m] \cap sent # {}
      BY <1>0, <2>1 DEF Delivered, Standing
    <2> QED
      BY <2>2 DEF Promise!Forgettable
  <1>2. CASE pc = "fail" /\ handle(errored) = "Discard"
    BY <1>0, <1>2 DEF ConsumeInv, SessionInv, HandJustified, handle, Promise!Forgettable
  <1> QED
    BY <1>1, <1>2

\* Every step of Consume is a step of the promise, or none.
LEMMA StepPromise ==
    ASSUME ConsumeInv, ConsumeInv', [Next]_vars
    PROVE  [Promise!Deliver \/ Promise!Release]_<<sent, acked \cup discarded>>
  <1>0. sent' \subseteq Messages /\ acked' \cup discarded' \subseteq Messages
    BY DEF ConsumeInv, TypeOK, SessionTypeOK
  <1>1. ASSUME UNCHANGED <<acked, discarded>>, sent \subseteq sent'
        PROVE  [Promise!Deliver \/ Promise!Release]_<<sent, acked \cup discarded>>
    BY <1>0, <1>1 DEF Promise!Deliver
  <1>2. ASSUME NEW m \in cur, NEW into \in {"ready", "acked", "discarded"}, Settle(m, into),
               UNCHANGED sent,
               into = "ready" \/ pc = "ack" \/ (pc = "fail" /\ handle(errored) = "Discard")
        PROVE  [Promise!Deliver \/ Promise!Release]_<<sent, acked \cup discarded>>
    <2>1. CASE UNCHANGED <<acked, discarded>>
      BY <2>1, <1>2
    <2>2. CASE ~UNCHANGED <<acked, discarded>>
      <3>1. /\ acked' \cup discarded' = (acked \cup discarded) \cup {m}
            /\ into # "ready"
        BY <1>2, <2>2 DEF Settle
      <3>2. Promise!Forgettable(m)
        BY <1>2, <3>1, SettledForgettable
      <3> QED
        BY <1>0, <1>2, <3>1, <3>2 DEF Promise!Release
    <2> QED
      BY <2>1, <2>2
  <1>3. CASE Ack
    <2>1. PICK m \in cur : Acked(TRUE) /\ Settle(m, "acked")
      BY <1>3 DEF Ack
    <2> QED
      BY <2>1, <1>2 DEF Acked
  <1>4. CASE Fail
    <2>1. PICK m \in cur : /\ Failed
                           /\ CASE handle(errored) = "Discard" -> Settle(m, "discarded") /\ UNCHANGED <<channel, inbox>>
                                [] handle(errored) = "Requeue" -> Settle(m, "ready") /\ UNCHANGED <<channel, inbox>>
                                [] handle(errored) = "Abort" -> Disconnect
      BY <1>4 DEF Fail
    <2>2. handle(errored) \in {"Discard", "Requeue", "Abort"}
      BY DEF handle
    <2>3. CASE handle(errored) = "Discard"
      BY <2>1, <2>3, <1>2 DEF Failed
    <2>4. CASE handle(errored) = "Requeue"
      BY <2>1, <2>4, <1>2 DEF Failed
    <2>5. CASE handle(errored) = "Abort"
      BY <2>1, <2>5, <1>1 DEF Failed, Disconnect
    <2> QED
      BY <2>2, <2>3, <2>4, <2>5
  <1>5. ASSUME ~Ack, ~Fail PROVE UNCHANGED <<acked, discarded>> /\ sent \subseteq sent'
    BY <1>5 DEF Next, Broker, Session, Deliver, ChannelLost, ChannelClosed, Connect, Receive, Step,
       AckFails, StreamEnds, Exit, Reboot, Lapse, Outage, Disconnect, Internal, Begin, Take,
       Compose, SendOk, SendFails, Record, Acked, Closed, Stop, Restart, Expire, SourceLost,
       vars, sessionVars, brokerVars
  <1> QED
    BY <1>1, <1>3, <1>4, <1>5

\* What the broker forgets has reached the sink, or may be dropped: the consume
\* session implements at-least-once delivery.
THEOREM PromiseKept == Spec => KeepsPromise
  <1>1. Init => Promise!Init
    BY DEF Init, SessionInit, Promise!Init
  <1>2. ConsumeInv /\ ConsumeInv' /\ [Next]_vars
          => [Promise!Deliver \/ Promise!Release]_<<sent, acked \cup discarded>>
    BY StepPromise
  <1> QED
    BY <1>1, <1>2, ConsumeInvariant, PTL DEF Spec, KeepsPromise, Promise!Spec

-----------------------------------------------------------------------------
(* The sinks in detail *)

\* Every step of ConsumeDelivery is a step of Consume, or none that it sees.
LEMMA StepMaps == ASSUME [DeliveryNext]_allVars PROVE [Next]_vars
  <1> USE DEF Next, Session, Step, Internal, brokerVars
  <1>1. CASE Quiet
    BY <1>1 DEF Quiet
  <1>2. CASE Ending
    BY <1>2 DEF Ending
  <1>3. CASE PostAccepted \/ SetDone \/ ExpireDone \/ Push
    BY <1>3 DEF PostAccepted, SetDone, ExpireDone, Push, ReturnOk, InCall
  <1>4. CASE PostLost \/ SetLost \/ ExpireLost
    BY <1>4 DEF PostLost, SetLost, ExpireLost, ReturnError
  <1>5. CASE PushFlush \/ PushPost
    BY <1>5 DEF PushFlush, PushPost, ReturnOk, ReturnError, InCall
  <1>6. CASE Tick \/ FlusherPost \/ UNCHANGED allVars
    BY <1>6 DEF Tick, FlusherPost, allVars
  <1> QED
    BY <1>1, <1>2, <1>3, <1>4, <1>5, <1>6 DEF DeliveryNext, Send

\* The delivery in detail implements the session that sends in one step.
THEOREM DeliveryRefines == DeliverySpec => Spec
  <1>1. DeliveryInit => Init
    BY DEF DeliveryInit
  <1>2. [DeliveryNext]_allVars => [Next]_vars
    BY StepMaps
  <1> QED
    BY <1>1, <1>2, PTL DEF DeliverySpec, Spec

-----------------------------------------------------------------------------
(* The buffer forgets nothing *)

Docs == Messages \cup Ids

\* The documents the buffer has seen, wherever they are now.
Places == DOMAIN received \cup DocsOf(lines) \cup InFlight \cup refused

LEMMA BagDomains ==
    ASSUME NEW B, NEW s PROVE DOMAIN (B (+) BagOf(s)) = DOMAIN B \cup DocsOf(s)
  BY DEF (+), BagOf

LEMMA KeyType == ASSUME NEW m \in Messages PROVE Key(m) \in Docs
  BY IdsOf DEF Key, Docs

\* A push adds the document.
LEMMA PushPlaces ==
    ASSUME lines \in Seq(Docs), NEW d \in Docs, PushDoc(d)
    PROVE  /\ Places' = Places \cup {d}
           /\ lines' \in Seq(Docs)
  <1>1. DocsOf(lines') = DocsOf(lines) \cup {d}
    <2>1. /\ DOMAIN Append(lines, d) = 1 .. Len(lines) + 1 /\ Len(lines) \in Nat
          /\ DOMAIN lines = 1 .. Len(lines)
          /\ Append(lines, d)[Len(lines) + 1] = d
          /\ \A k \in 1 .. Len(lines) : Append(lines, d)[k] = lines[k]
      OBVIOUS
    <2> QED
      BY <2>1 DEF DocsOf, PushDoc
  <1> QED
    BY <1>1 DEF Places, InFlight, PushDoc

\* Elasticsearch forgets nothing.
LEMMA ReceivedGrows ==
    ASSUME NEW t, TakeBatch(t) \/ PostOk(t) \/ PostFails(t) \/ BulkExit
    PROVE  DOMAIN received \subseteq DOMAIN received'
  <1>1. \A s : DOMAIN received \subseteq DOMAIN (received (+) BagOf(s))
    BY BagDomains
  <1> QED
    BY <1>1 DEF TakeBatch, PostOk, PostFails, BulkExit

\* The other steps of the buffer lose none.
LEMMA BatchPlaces ==
    ASSUME lines \in Seq(Docs), batch \in [Tasks -> Seq(Docs)], NEW t \in Tasks,
           (TakeBatch(t) /\ batch[t] = <<>>) \/ PostOk(t) \/ PostFails(t)
    PROVE  /\ Places \subseteq Places'
           /\ lines' \in Seq(Docs)
           /\ batch' \in [Tasks -> Seq(Docs)]
           /\ \A u \in Tasks \ {t} : batch'[u] = batch[u]
           /\ PostOk(t) \/ PostFails(t) => batch'[t] = <<>>
  <1>0. DocsOf(<<>>) = {}
    BY DEF DocsOf
  <1>1. CASE TakeBatch(t) /\ batch[t] = <<>>
    <2>1. batch' = [batch EXCEPT ![t] = lines] /\ UNCHANGED <<received, refused>> /\ lines' = <<>>
      BY <1>1 DEF TakeBatch, Kept
    <2>2. InFlight \cup DocsOf(lines) \subseteq InFlight'
      BY <1>0, <1>1, <2>1 DEF InFlight
    <2> QED
      BY <1>1, <2>1, <2>2 DEF Places, TakeBatch, PostOk, PostFails
  <1>2. CASE PostOk(t) \/ PostFails(t)
    <2>1. batch' = [batch EXCEPT ![t] = <<>>] /\ lines' = lines
      BY <1>2 DEF PostOk, PostFails
    <2>2. InFlight \subseteq InFlight' \cup DocsOf(batch[t])
      BY <2>1 DEF InFlight
    <2>3. DOMAIN received \cup refused \cup DocsOf(batch[t]) \subseteq DOMAIN received' \cup refused'
      <3>1. DOMAIN (received (+) BagOf(batch[t])) = DOMAIN received \cup DocsOf(batch[t])
        BY BagDomains
      <3>2. CASE PostOk(t)
        BY <3>1, <3>2 DEF PostOk
      <3>3. CASE PostFails(t)
        BY <3>1, <3>3 DEF PostFails
      <3> QED
        BY <1>2, <3>2, <3>3
    <2> QED
      BY <2>1, <2>2, <2>3 DEF Places
  <1> QED
    BY <1>1, <1>2

LEMMA ExitPlaces ==
    ASSUME BulkExit
    PROVE  Places \subseteq Places' /\ lines' = <<>> /\ batch' = [t \in Tasks |-> <<>>]
  <1>1. DOMAIN received \subseteq DOMAIN received'
    BY BagDomains DEF BulkExit
  <1> QED
    BY <1>1 DEF Places, BulkExit

-----------------------------------------------------------------------------
(* Types, and where a document is *)

\* What every step does to the variables of the delivery, kept apart from what
\* it does to the session.
LEMMA DeliverySteps ==
    ASSUME SessionTypeOK, DeliveryTypeOK, [DeliveryNext]_allVars
    PROVE  /\ DeliveryTypeOK'
           /\ kind' = kind
           /\ stored \subseteq stored'
           /\ Places \subseteq Places'
           /\ DOMAIN received \subseteq DOMAIN received'
  <1> USE DEF DeliveryTypeOK, Docs
  <1>0. /\ lines \in Seq(Docs) /\ batch \in [Tasks -> Seq(Docs)]
        /\ \A m \in cur : m \in Messages /\ Key(m) \in Docs
        /\ "pusher" \in Tasks /\ "flusher" \in Tasks /\ <<>> \in Seq(Docs)
    BY KeyType DEF SessionTypeOK, Tasks
  <1>u. UNCHANGED bulkVars => /\ UNCHANGED <<lines, batch, received>>
                              /\ Places' = Places
    BY DEF bulkVars, Places, InFlight
  <1>1. CASE Quiet
    <2>1. UNCHANGED <<kind, call, stored, lasting>> /\ UNCHANGED bulkVars
      BY <1>1 DEF Quiet, deliveryVars, callVars
    <2>2. pc = "send" => pc' = "send"
      BY <1>1 DEF Quiet, Broker, Deliver, ChannelLost, ChannelClosed, Connect, Begin, Receive, Take,
         Ack, AckFails, Acked, StreamEnds, Closed, Compose, Record, Reboot, Restart, Lapse,
         Expire, Outage, SourceLost, sessionVars
    <2> QED
      BY <1>u, <2>1, <2>2
  <1>2. CASE Ending
    <2>1. UNCHANGED <<kind, stored, lasting>>
      BY <1>2 DEF Ending
    <2>2. CASE pc' = "down"
      <3>1. BulkExit /\ call' = "none"
        BY <1>2, <2>2 DEF Ending, Leaving
      <3>2. Places \subseteq Places' /\ lines' = <<>> /\ batch' = [t \in Tasks |-> <<>>]
        BY <3>1, ExitPlaces
      <3>3. DOMAIN received \subseteq DOMAIN received'
        BY <3>1, ReceivedGrows
      <3> QED
        BY <1>0, <2>1, <3>1, <3>2, <3>3
    <2>3. CASE pc' # "down"
      <3>1. UNCHANGED <<bulkVars, call>>
        BY <1>2, <2>3 DEF Ending, Leaving
      <3>2. pc # "send"
        BY <1>2, <2>3 DEF Ending, Fail, Failed, Exit, Stop
      <3> QED
        BY <1>u, <2>1, <3>1, <3>2
    <2> QED
      BY <2>2, <2>3
  <1>3. CASE PostAccepted \/ PostLost
    BY <1>3, <1>u DEF PostAccepted, PostLost, Sending, ReturnOk, ReturnError
  <1>4. CASE SetDone
    <2>1. pc = "send" /\ kind = "redis" /\ (pc' = "send" \/ call' = "none")
      BY <1>4 DEF SetDone, Sending, ReturnOk, InCall, vars, sessionVars
    <2> QED
      BY <1>4, <1>u, <2>1, DeliveryAssumption DEF SetDone, Sending, ReturnOk, InCall
  <1>5. CASE SetLost \/ ExpireDone \/ ExpireLost
    BY <1>5, <1>u DEF SetLost, ExpireDone, ExpireLost, Sending, ReturnOk, ReturnError
  <1>6. CASE Push
    <2>1. PICK m \in cur : /\ kind = "elasticsearch" /\ Sending(m, "none") /\ PushDoc(Key(m))
                           /\ IF Full' THEN InCall("flush") ELSE ReturnOk
                           /\ UNCHANGED <<stored, lasting>>
      BY <1>6 DEF Push
    <2>2. Places \subseteq Places' /\ lines' \in Seq(Docs)
      BY <1>0, <2>1, PushPlaces
    <2>3. batch' = batch /\ received' = received
      BY <2>1 DEF PushDoc
    <2>4. kind' = kind /\ (call' = "none" \/ (call' = "flush" /\ pc' = "send"))
      BY <2>1 DEF InCall, ReturnOk, Sending, vars, sessionVars
    <2>5. kind = "elasticsearch" /\ call = "none" /\ UNCHANGED <<stored, lasting>>
      BY <2>1 DEF Sending
    <2> QED
      BY <2>2, <2>3, <2>4, <2>5
  <1>7. CASE PushFlush
    <2>1. /\ pc = "send" /\ call = "flush" /\ UNCHANGED <<stored, lasting>>
          /\ \/ TakeBatch("pusher") /\ InCall("post")
             \/ FindNothing /\ ReturnOk
      BY <1>7 DEF PushFlush, Sending
    <2>2. CASE TakeBatch("pusher") /\ InCall("post")
      <3>1. /\ Places \subseteq Places' /\ lines' \in Seq(Docs) /\ batch' \in [Tasks -> Seq(Docs)]
        BY <1>0, <2>1, <2>2, BatchPlaces
      <3>2. received' = received /\ kind' = kind /\ call' = "post" /\ pc' = "send"
        BY <2>1, <2>2 DEF TakeBatch, InCall, vars, sessionVars
      <3> QED
        BY <2>1, <3>1, <3>2
    <2>3. CASE FindNothing /\ ReturnOk
      BY <1>u, <2>1, <2>3 DEF FindNothing, ReturnOk
    <2> QED
      BY <2>1, <2>2, <2>3
  <1>8. CASE PushPost
    <2>1. /\ pc = "send" /\ call = "post" /\ UNCHANGED <<stored, lasting>>
          /\ PostOk("pusher") \/ PostFails("pusher")
          /\ kind' = kind /\ call' = "none"
      BY <1>8 DEF PushPost, Sending, ReturnOk, ReturnError
    <2>2. /\ Places \subseteq Places' /\ lines' \in Seq(Docs) /\ batch' \in [Tasks -> Seq(Docs)]
          /\ batch'["pusher"] = <<>>
      BY <1>0, <2>1, BatchPlaces
    <2>3. DOMAIN received \subseteq DOMAIN received'
      BY <2>1, ReceivedGrows
    <2> QED
      BY <2>1, <2>2, <2>3
  <1>9. CASE Tick \/ FlusherPost
    <2>1. UNCHANGED <<kind, call, stored, lasting, pc>>
      BY <1>9 DEF Tick, FlusherPost, callVars, vars, sessionVars
    <2>2. (TakeBatch("flusher") /\ batch["flusher"] = <<>>) \/ PostOk("flusher") \/ PostFails("flusher")
      BY <1>9 DEF Tick, FlusherPost
    <2>3. /\ Places \subseteq Places' /\ lines' \in Seq(Docs) /\ batch' \in [Tasks -> Seq(Docs)]
          /\ \A u \in Tasks \ {"flusher"} : batch'[u] = batch[u]
      BY <1>0, <2>2, BatchPlaces
    <2>4. batch'["pusher"] = batch["pusher"]
      BY <1>0, <2>3
    <2>5. DOMAIN received \subseteq DOMAIN received'
      BY <2>2, ReceivedGrows
    <2> QED
      BY <2>1, <2>3, <2>4, <2>5
  <1>10. CASE UNCHANGED allVars
    BY <1>10, <1>u DEF allVars, deliveryVars, callVars, vars, sessionVars
  <1> QED
    BY <1>1, <1>2, <1>3, <1>4, <1>5, <1>6, <1>7, <1>8, <1>9, <1>10 DEF DeliveryNext, Send

\* What is with the receiver, or may have been lost with the buffer, stays so.
LEMMA HeldStays ==
    ASSUME SessionTypeOK, DeliveryTypeOK, [DeliveryNext]_allVars, NEW k, Held(k)
    PROVE  Held(k)'
  <1>1. /\ kind' = kind /\ stored \subseteq stored' /\ Places \subseteq Places'
        /\ DOMAIN received \subseteq DOMAIN received'
    BY DeliverySteps
  <1> QED
    BY <1>1 DEF Held, Stored, AtRisk, Places

-----------------------------------------------------------------------------
(* What is in hand, and what is acknowledged *)

\* The document of a message the call goes on with, or that the sink accepted, is
\* with the receiver or in the buffer.
LEMMA CallHeld ==
    ASSUME SessionTypeOK, DeliveryTypeOK, HeldInHand, [DeliveryNext]_allVars,
           NEW m \in cur, pc = "send", m \in cur',
           pc' \in {"record", "ack"} \/ call' # "none"
    PROVE  Held(Key(m))'
  <1> USE DEF Held, Stored, AtRisk
  <1>0. /\ \A n \in cur : n = m
        /\ Key(m) \in Docs
    BY KeyType DEF SessionTypeOK
  <1>1. CASE call # "none"
    BY <1>1, HeldStays DEF HeldInHand
  <1>2. CASE PostAccepted \/ SetDone
    <2>1. stored' = stored \cup {Key(m)}
      BY <1>0, <1>2 DEF PostAccepted, SetDone
    <2> QED
      BY <2>1
  <1>3. CASE Push
    <2>1. kind = "elasticsearch" /\ PushDoc(Key(m))
      BY <1>0, <1>3 DEF Push
    <2>2. Key(m) \in Places'
      BY <1>0, <2>1, PushPlaces DEF DeliveryTypeOK, Docs
    <2>3. kind' = kind
      BY DeliverySteps
    <2> QED
      BY <2>1, <2>2, <2>3 DEF Places
  <1>4. ASSUME call = "none", ~(PostAccepted \/ SetDone \/ Push)
        PROVE  FALSE
    <2>1. CASE PostLost \/ SetLost
      BY <2>1 DEF PostLost, SetLost, ReturnError, SendFails
    <2>2. CASE ExpireDone \/ ExpireLost \/ PushFlush \/ PushPost
      BY <1>4, <2>2 DEF ExpireDone, ExpireLost, PushFlush, PushPost, Sending
    <2>3. CASE Quiet
      BY <1>4, <2>3 DEF Quiet, Broker, Deliver, ChannelLost, ChannelClosed, Connect, Begin, Receive,
         Take, Ack, AckFails, Acked, StreamEnds, Closed, Compose, Record, Reboot, Restart, Lapse,
         Expire, Outage, SourceLost, sessionVars, deliveryVars, callVars
    <2>4. CASE Ending
      BY <2>4 DEF Ending, Fail, Failed, Exit, Stop
    <2>5. CASE Tick \/ FlusherPost \/ UNCHANGED allVars
      BY <1>4, <2>5 DEF Tick, FlusherPost, callVars, vars, sessionVars, allVars, deliveryVars
    <2> QED
      BY <1>4, <2>1, <2>2, <2>3, <2>4, <2>5 DEF DeliveryNext, Send
  <1> QED
    BY <1>1, <1>2, <1>3, <1>4

\* Outside a call the sinks do not move.
LEMMA OutsideCall ==
    ASSUME DeliveryTypeOK, [DeliveryNext]_allVars, pc # "send"
    PROVE  call' = "none" /\ UNCHANGED <<stored, lasting>>
  <1>1. CASE Quiet
    BY <1>1 DEF Quiet, deliveryVars, callVars, DeliveryTypeOK
  <1>2. CASE Ending
    BY <1>2 DEF Ending, Leaving, DeliveryTypeOK
  <1>3. CASE Send
    BY <1>3 DEF Send, PostAccepted, PostLost, SetDone, SetLost, ExpireDone, ExpireLost,
       Push, PushFlush, PushPost, Sending
  <1>4. CASE Tick \/ FlusherPost \/ UNCHANGED allVars
    BY <1>4 DEF Tick, FlusherPost, allVars, deliveryVars, callVars, DeliveryTypeOK
  <1> QED
    BY <1>1, <1>2, <1>3, <1>4 DEF DeliveryNext

\* A message that comes into hand has an id the cache knows, or goes on to compose.
LEMMA TakenHeld ==
    ASSUME SessionTypeOK, HeldInHand, NEW m \in Messages, is_duplicate(m)
    PROVE  Held(Key(m))
  BY DEF SessionTypeOK, HeldInHand, is_duplicate, Key, Ids

\* The message in hand of a step that keeps it.
LEMMA HandKept ==
    ASSUME SessionTypeOK, [DeliveryNext]_allVars
    PROVE  \/ cur' \subseteq cur
           \/ Receive /\ UNCHANGED deliveryVars
  <1>1. [Next]_vars
    BY StepMaps
  <1>2. CASE Receive
    <2>1. pc = "recv" /\ pc' # "recv"
      BY <1>2 DEF Receive, Take
    <2>2. CASE Quiet
      BY <1>2, <2>2 DEF Quiet
    <2>3. CASE Ending
      BY <2>1, <2>3 DEF Ending, Fail, Failed, Exit, Stop, SessionTypeOK
    <2>4. CASE Send
      BY <2>1, <2>4 DEF Send, PostAccepted, PostLost, SetDone, SetLost, ExpireDone, ExpireLost,
         Push, PushFlush, PushPost, Sending
    <2>5. CASE Tick \/ FlusherPost \/ UNCHANGED allVars
      BY <2>1, <2>5 DEF Tick, FlusherPost, vars, sessionVars, allVars
    <2> QED
      BY <2>2, <2>3, <2>4, <2>5 DEF DeliveryNext
  <1>3. ASSUME ~Receive PROVE cur' \subseteq cur
    BY <1>1, <1>3 DEF Next, Broker, Session, Deliver, ChannelLost, ChannelClosed, Connect, Step,
       Ack, AckFails, Fail, StreamEnds, Exit, Reboot, Lapse, Outage, Internal, Begin,
       Compose, SendOk, SendFails, Record, Acked, Failed, Closed, Stop, Restart, Expire, SourceLost,
       vars, sessionVars
  <1> QED
    BY <1>2, <1>3

\* What the cache knows, and what is about to be recorded, stays with the receiver.
LEMMA HeldInHandKept ==
    ASSUME ConsumeInv, DeliveryTypeOK, HeldInHand, [DeliveryNext]_allVars
    PROVE  HeldInHand'
  <1>0. SessionTypeOK
    BY InvParts
  <1>1. ASSUME NEW i \in seen' PROVE Held(i)'
    <2>1. CASE i \in seen
      BY <1>0, <2>1, HeldStays DEF HeldInHand
    <2>2. CASE i \notin seen
      <3>1. Record
        BY <1>1, <2>2, StepMaps DEF Next, Broker, Session, Deliver, ChannelLost, ChannelClosed,
           Connect, Step, Receive, Take, Ack, AckFails, Fail, StreamEnds, Exit, Reboot, Lapse,
           Outage, Internal, Begin, Compose, SendOk, SendFails, Acked, Failed, Closed, Stop,
           Restart, Expire, SourceLost, vars, sessionVars
      <3>2. PICK m \in cur : pc = "record" /\ i = Id[m] /\ Idempotent /\ Id[m] # NoId
        BY <1>1, <2>2, <3>1 DEF Record
      <3>3. Held(Key(m)) /\ Key(m) = i
        BY <3>2 DEF HeldInHand, Key
      <3> QED
        BY <1>0, <3>3, HeldStays
    <2> QED
      BY <2>1, <2>2
  <1>2. ASSUME NEW m \in cur', pc' \in {"record", "ack"} \/ call' # "none"
        PROVE  Held(Key(m))'
    <2>1. CASE Receive /\ UNCHANGED deliveryVars
      <3>1. pc' \in {"ack", "fail", "compose"} /\ call' = call /\ pc = "recv" /\ cur' = {Head(inbox)}
        BY <2>1 DEF Receive, Take, deliveryVars, callVars
      <3>2. pc' = "ack" /\ is_duplicate(m)
        BY <1>2, <2>1, <3>1 DEF Receive, Take, DeliveryTypeOK
      <3>3. m \in Messages
        BY <2>1, <3>1, ReceiveKept
      <3> QED
        BY <1>0, <3>2, <3>3, TakenHeld, HeldStays
    <2>2. CASE m \in cur /\ pc = "send"
      BY <1>0, <1>2, <2>2, CallHeld
    <2>3. CASE m \in cur /\ pc # "send"
      <3>1. pc' \in {"record", "ack"}
        BY <1>2, <2>3, OutsideCall
      <3>2. pc \in {"record", "ack"} \/ cur = {}
        BY <1>0, <2>3, <3>1, StepMaps, AfterStages DEF Next, Broker, Session, Deliver, ChannelLost,
           ChannelClosed, Connect, Step, Receive, Take, Ack, AckFails, Fail, StreamEnds, Exit,
           Reboot, Lapse, Outage, Internal, Begin, Compose, SendOk, SendFails, Record, Acked, Failed,
           Closed, Stop, Restart, Expire, SourceLost, vars, sessionVars, SessionTypeOK
      <3> QED
        BY <1>0, <2>3, <3>2, HeldStays DEF HeldInHand
    <2> QED
      BY <1>0, <1>2, <2>1, <2>2, <2>3, HandKept
  <1> QED
    BY <1>1, <1>2 DEF HeldInHand

\* Only a message that is in hand, at its ack, becomes acknowledged.
LEMMA AckedFromHand ==
    ASSUME [Next]_vars
    PROVE  \/ acked' = acked
           \/ \E m \in cur : /\ Ack
                             /\ pc = "ack"
                             /\ channel = "open"
                             /\ acked' = acked \cup {m}
                             /\ cur' = {}
                             /\ UNCHANGED <<inbox, seen>>
  <1>1. CASE Ack
    BY <1>1, AfterStages DEF Ack, Acked, Settle
  <1>2. CASE Fail
    <2>1. PICK m \in cur :
            CASE handle(errored) = "Discard" -> Settle(m, "discarded") /\ UNCHANGED <<channel, inbox>>
              [] handle(errored) = "Requeue" -> Settle(m, "ready") /\ UNCHANGED <<channel, inbox>>
              [] handle(errored) = "Abort" -> Disconnect
      BY <1>2 DEF Fail
    <2>2. handle(errored) \in {"Discard", "Requeue", "Abort"}
      BY DEF handle
    <2> QED
      BY <2>1, <2>2 DEF Settle, Disconnect
  <1>3. ASSUME ~Ack, ~Fail PROVE acked' = acked
    BY <1>3 DEF Next, Broker, Session, Deliver, ChannelLost, ChannelClosed, Connect, Step, Receive,
       AckFails, StreamEnds, Exit, Reboot, Lapse, Outage, Disconnect, vars, brokerVars
  <1> QED
    BY <1>1, <1>2, <1>3

LEMMA HandUnackedKept ==
    ASSUME ConsumeInv, HandUnacked, [Next]_vars
    PROVE  HandUnacked'
  <1>0. SessionTypeOK /\ BrokerTypes /\ Conserved /\ HeldOnce /\ NoneForgotten
    BY InvParts DEF BrokerInv
  <1>1. CASE acked' # acked
    <2>1. PICK m \in cur : channel = "open" /\ acked' = acked \cup {m} /\ cur' = {} /\ inbox' = inbox
      BY <1>1, AckedFromHand
    <2> QED
      BY <1>0, <2>1 DEF HandUnacked, HeldOnce, Elements
  <1>2. ASSUME acked' = acked, cur' \cup Elements(inbox') \subseteq cur \cup Elements(inbox)
        PROVE  HandUnacked'
    BY <1>2 DEF HandUnacked
  <1>3. ASSUME NEW m \in Messages, Deliver(m) PROVE HandUnacked'
    <2>1. Elements(inbox') = Elements(inbox) \cup {m} /\ cur' = cur /\ acked' = acked
      BY <1>0, <1>3, ElementsOf DEF Deliver, BrokerTypes, sessionVars
    <2>2. m \notin acked
      BY <1>0, <1>3 DEF Deliver, Conserved
    <2> QED
      BY <2>1, <2>2 DEF HandUnacked
  <1>4. CASE Receive
    <2>1. /\ inbox # <<>> /\ inbox' = Tail(inbox) /\ cur' = {Head(inbox)} /\ acked' = acked
      BY <1>4 DEF Receive, Take
    <2>2. Elements(inbox) = {Head(inbox)} \cup Elements(Tail(inbox))
      BY <1>0, <2>1, ElementsOf DEF BrokerTypes
    <2> QED
      BY <1>2, <2>1, <2>2
  <1>5. CASE Ack \/ Fail \/ AckFails \/ StreamEnds \/ Exit
    <2>1. cur' \subseteq cur
      BY <1>5 DEF Ack, Fail, Failed, AckFails, Acked, StreamEnds, Closed, Exit, Stop
    <2>2. inbox' = inbox \/ inbox' = <<>>
      BY <1>5 DEF Ack, Fail, AckFails, StreamEnds, Exit, Disconnect, handle
    <2>3. Elements(inbox') \subseteq Elements(inbox)
      BY <2>2 DEF Elements
    <2> QED
      BY <1>1, <1>2, <2>1, <2>3
  <1>6. ASSUME ~(\E m \in Messages : Deliver(m)), ~Receive, ~(Ack \/ Fail \/ AckFails \/ StreamEnds \/ Exit)
        PROVE  cur' = cur /\ inbox' = inbox
    BY <1>6 DEF Next, Broker, Session, ChannelLost, ChannelClosed, Connect, Step, Reboot, Lapse,
       Outage, Internal, Begin, Compose, SendOk, SendFails, Record, Restart, Expire, SourceLost,
       vars, brokerVars, sessionVars
  <1> QED
    BY <1>1, <1>2, <1>3, <1>4, <1>5, <1>6

LEMMA AckedStoredKept ==
    ASSUME SessionTypeOK, DeliveryTypeOK, HeldInHand, AckedStored, [DeliveryNext]_allVars
    PROVE  AckedStored'
  <1> SUFFICES ASSUME NEW m \in acked' PROVE Held(Key(m))'
    BY DEF AckedStored, Held
  <1>1. CASE m \in acked
    BY <1>1, HeldStays DEF AckedStored, Held
  <1>2. CASE m \notin acked
    <2>1. m \in cur /\ pc = "ack"
      BY <1>2, StepMaps, AckedFromHand
    <2> QED
      BY <2>1, HeldStays DEF HeldInHand
  <1> QED
    BY <1>1, <1>2

-----------------------------------------------------------------------------
(* Entries without an expiry *)

\* A set of Redis entries without expiry only grows by the key being sent.
LEMMA LastingFromHand ==
    ASSUME SessionTypeOK, DeliveryTypeOK, ExpiryInHand, Ttl > 0, [DeliveryNext]_allVars
    PROVE  \/ lasting' \subseteq lasting
           \/ \E m \in cur : /\ pc = "send" /\ pc' \notin {"record", "ack"} /\ cur' = cur
                             /\ lasting' = lasting \cup {Key(m)}
                             /\ UNCHANGED <<seen, acked>>
  <1>1. CASE SetDone
    <2>1. PICK m \in cur : pc = "send" /\ lasting' = lasting \cup {Key(m)} /\ InCall("expire")
      BY <1>1 DEF SetDone, Sending
    <2> QED
      BY <2>1 DEF InCall, vars, sessionVars, brokerVars
  <1>2. CASE SetLost
    BY <1>2 DEF SetLost, Sending, ReturnError, SendFails, brokerVars
  <1>3. CASE ExpireDone \/ ExpireLost
    BY <1>3 DEF ExpireDone, ExpireLost
  <1>4. CASE PostAccepted \/ PostLost \/ Push \/ PushFlush \/ PushPost
    BY <1>4 DEF PostAccepted, PostLost, Push, PushFlush, PushPost
  <1>5. CASE Quiet \/ Ending \/ Tick \/ FlusherPost \/ UNCHANGED allVars
    BY <1>5 DEF Quiet, Ending, Tick, FlusherPost, allVars, deliveryVars, callVars
  <1> QED
    BY <1>1, <1>2, <1>3, <1>4, <1>5 DEF DeliveryNext, Send

LEMMA EntriesExpireKept ==
    ASSUME ConsumeInv, DeliveryTypeOK, HandUnacked, EntriesExpire, ExpiryInHand, [DeliveryNext]_allVars
    PROVE  EntriesExpire'
  <1> SUFFICES ASSUME Ttl > 0, NEW k \in lasting', k \in Ids
               PROVE  \E m \in Messages \ acked' : Key(m) = k
    BY DEF EntriesExpire
  <1>0. SessionTypeOK
    BY InvParts
  <1>1. CASE acked' = acked
    <2>1. CASE k \in lasting
      BY <1>1, <2>1 DEF EntriesExpire
    <2>2. CASE k \notin lasting
      <3>1. PICK m \in cur : k = Key(m)
        BY <1>0, <2>2, LastingFromHand
      <3> QED
        BY <1>0, <1>1, <3>1 DEF HandUnacked, SessionTypeOK
    <2> QED
      BY <2>1, <2>2
  <1>2. CASE acked' # acked
    <2>1. PICK m \in cur : pc = "ack" /\ acked' = acked \cup {m}
      BY <1>2, StepMaps, AckedFromHand
    <2>2. lasting' = lasting
      BY <2>1, OutsideCall
    <2>3. Key(m) \notin lasting
      BY <2>1 DEF ExpiryInHand
    <2> QED
      BY <2>1, <2>2, <2>3 DEF EntriesExpire
  <1> QED
    BY <1>1, <1>2

\* A message the sink has accepted has its expiry.
LEMMA SentExpires ==
    ASSUME SessionTypeOK, DeliveryTypeOK, Ttl > 0, [DeliveryNext]_allVars, NEW m \in cur,
           pc = "send", pc' \in {"record", "ack"}
    PROVE  Key(m) \notin lasting'
  <1>0. \A n \in cur : n = m
    BY DEF SessionTypeOK
  <1>1. CASE SetDone
    BY <1>1 DEF SetDone, InCall, vars, sessionVars
  <1>2. CASE ExpireDone
    BY <1>0, <1>2 DEF ExpireDone
  <1>3. CASE PostAccepted
    BY <1>3 DEF PostAccepted, DeliveryTypeOK
  <1>4. CASE Push \/ PushFlush \/ PushPost
    BY <1>4 DEF Push, PushFlush, PushPost, Sending, DeliveryTypeOK
  <1>5. CASE PostLost \/ SetLost \/ ExpireLost
    BY <1>5 DEF PostLost, SetLost, ExpireLost, ReturnError, SendFails
  <1>6. CASE Quiet
    BY <1>6 DEF Quiet, Broker, Deliver, ChannelLost, ChannelClosed, Connect, Begin, Receive, Take,
       Ack, AckFails, Acked, StreamEnds, Closed, Compose, Record, Reboot, Restart, Lapse,
       Expire, Outage, SourceLost, sessionVars
  <1>7. CASE Ending
    BY <1>7 DEF Ending, Fail, Failed, Exit, Stop
  <1>8. CASE Tick \/ FlusherPost \/ UNCHANGED allVars
    BY <1>8 DEF Tick, FlusherPost, vars, sessionVars, allVars
  <1> QED
    BY <1>1, <1>2, <1>3, <1>4, <1>5, <1>6, <1>7, <1>8 DEF DeliveryNext, Send

\* What a session step does to the cache: it records the id of what is in hand.
LEMMA SeenGrows ==
    ASSUME [Next]_vars
    PROVE  \/ seen' \subseteq seen
           \/ \E m \in cur : /\ pc = "record" /\ pc' = "ack" /\ cur' = cur
                             /\ seen' = seen \cup {Id[m]} /\ Key(m) = Id[m]
  <1>1. CASE Record
    BY <1>1, AfterStages DEF Record, Key
  <1>2. ASSUME ~Record PROVE seen' \subseteq seen
    BY <1>2 DEF Next, Broker, Session, Deliver, ChannelLost, ChannelClosed,
       Connect, Step, Receive, Take, Ack, AckFails, Fail, StreamEnds, Exit, Reboot, Lapse,
       Outage, Internal, Begin, Compose, SendOk, SendFails, Acked, Failed, Closed, Stop,
       Restart, Expire, SourceLost, vars, sessionVars
  <1> QED
    BY <1>1, <1>2

\* The stages of a message that stays in hand.
LEMMA StageOrder ==
    ASSUME SessionTypeOK, [Next]_vars, cur' \subseteq cur, NEW m \in cur'
    PROVE  /\ pc' \in {"compose", "send"} => pc \in {"compose", "send"}
           /\ pc' \in {"record", "ack"} => pc \in {"send", "record", "ack"}
  <1> USE AfterStages DEF SessionTypeOK
  <1>1. CASE Receive \/ Connect \/ Ack \/ AckFails \/ Fail \/ StreamEnds \/ Exit \/ Reboot
    BY <1>1 DEF Receive, Take, Connect, Begin, Ack, AckFails, Acked, Fail, Failed, StreamEnds, Closed,
       Exit, Stop, Reboot, Restart
  <1>2. CASE Step
    BY <1>2 DEF Step, Internal, Compose, SendOk, SendFails, Record
  <1>3. CASE Broker \/ Lapse \/ Outage \/ UNCHANGED vars
    BY <1>3 DEF Broker, Deliver, ChannelLost, ChannelClosed, Lapse, Expire, Outage, SourceLost,
       vars, sessionVars
  <1> QED
    BY <1>1, <1>2, <1>3 DEF Next, Session

\* The key of a message the cache takes for new is in no cache.
LEMMA NewKey ==
    ASSUME SessionTypeOK, SeenSent, NEW m \in Messages, ~is_duplicate(m)
    PROVE  Key(m) \notin seen
  <1>1. m \notin seen
    BY DeliveryAssumption DEF SessionTypeOK
  <1> QED
    BY <1>1 DEF is_duplicate, Key, SeenSent

LEMMA ExpiryInHandKept ==
    ASSUME ConsumeInv, DeliveryTypeOK, ExpiryInHand, [DeliveryNext]_allVars
    PROVE  ExpiryInHand'
  <1> SUFFICES ASSUME Ttl > 0
               PROVE  /\ seen' \cap lasting' = {}
                      /\ \A m \in cur' :
                           /\ pc' \in {"compose", "send"} => Key(m) \notin seen'
                           /\ pc' \in {"record", "ack"} => Key(m) \notin lasting'
    BY DEF ExpiryInHand, Key
  <1>0. SessionTypeOK /\ SeenSent /\ \A m, n \in cur : m = n
    BY InvParts DEF SessionInv, SessionTypeOK
  <1>n. [Next]_vars
    BY StepMaps
  <1>1. CASE Receive /\ UNCHANGED deliveryVars
    <2>1. /\ cur' = {Head(inbox)} /\ Head(inbox) \in Messages
          /\ UNCHANGED <<seen, lasting>>
      BY <1>1, ReceiveKept DEF Receive, Take, deliveryVars, callVars
    <2>2. IF is_duplicate(Head(inbox)) THEN pc' = "ack" ELSE pc' \in {"fail", "compose"}
      BY <1>1 DEF Receive, Take
    <2>3. CASE is_duplicate(Head(inbox))
      <3>1. Key(Head(inbox)) \in seen
        BY <1>0, <2>1, <2>3 DEF is_duplicate, Key, SessionTypeOK, Ids
      <3> QED
        BY <2>1, <2>2, <2>3, <3>1 DEF ExpiryInHand
    <2>4. CASE ~is_duplicate(Head(inbox))
      BY <1>0, <2>1, <2>2, <2>4, NewKey DEF ExpiryInHand
    <2> QED
      BY <2>3, <2>4
  <1>2. CASE cur' \subseteq cur
    <2>1. CASE \E m \in cur : /\ pc = "send" /\ pc' \notin {"record", "ack"} /\ cur' = cur
                              /\ lasting' = lasting \cup {Key(m)} /\ UNCHANGED <<seen, acked>>
      BY <1>0, <2>1 DEF ExpiryInHand
    <2>2. CASE lasting' \subseteq lasting
      <3>1. CASE \E m \in cur : /\ pc = "record" /\ pc' = "ack" /\ cur' = cur
                                /\ seen' = seen \cup {Id[m]} /\ Key(m) = Id[m]
        BY <1>0, <2>2, <3>1 DEF ExpiryInHand
      <3>2. CASE seen' \subseteq seen
        <4>1. seen' \cap lasting' = {}
          BY <2>2, <3>2 DEF ExpiryInHand
        <4>2. ASSUME NEW m \in cur', pc' \in {"compose", "send"} PROVE Key(m) \notin seen'
          BY <1>0, <1>2, <1>n, <3>2, <4>2, StageOrder DEF ExpiryInHand
        <4>3. ASSUME NEW m \in cur', pc' \in {"record", "ack"} PROVE Key(m) \notin lasting'
          <5>1. CASE pc \in {"record", "ack"}
            BY <1>2, <2>2, <5>1 DEF ExpiryInHand
          <5>2. CASE pc = "send"
            BY <1>0, <1>2, <2>2, <4>3, <5>2, SentExpires
          <5> QED
            BY <1>0, <1>2, <1>n, <4>3, <5>1, <5>2, StageOrder
        <4> QED
          BY <4>1, <4>2, <4>3
      <3> QED
        BY <1>n, <3>1, <3>2, SeenGrows
    <2> QED
      BY <1>0, <2>1, <2>2, LastingFromHand
  <1> QED
    BY <1>0, <1>1, <1>2, HandKept

-----------------------------------------------------------------------------
(* The theorems *)

LEMMA DeliveryInitInv == DeliveryInit => DeliveryInv
  <1> SUFFICES ASSUME DeliveryInit PROVE DeliveryInv
    OBVIOUS
  <1>1. ConsumeInv
    BY InitInv DEF DeliveryInit
  <1>2. acked = {} /\ seen = {} /\ cur = {} /\ pc = "off" /\ call = "none" /\ lasting = {}
    BY DEF DeliveryInit, Init, SessionInit
  <1>3. DeliveryTypeOK
    BY <1>2 DEF DeliveryTypeOK, DeliveryInit, BulkInit, Tasks
  <1> QED
    BY <1>1, <1>2, <1>3 DEF DeliveryInv, AckedStored, HeldInHand, HandUnacked, EntriesExpire, ExpiryInHand

LEMMA DeliveryNextInv == DeliveryInv /\ [DeliveryNext]_allVars => DeliveryInv'
  <1> SUFFICES ASSUME DeliveryInv, [DeliveryNext]_allVars PROVE DeliveryInv'
    OBVIOUS
  <1>1. /\ ConsumeInv /\ DeliveryTypeOK /\ AckedStored /\ HeldInHand /\ HandUnacked /\ EntriesExpire
        /\ ExpiryInHand /\ SessionTypeOK
    BY InvParts DEF DeliveryInv
  <1>2. ConsumeInv'
    BY <1>1, StepMaps, NextInv
  <1>3. DeliveryTypeOK'
    BY <1>1, DeliverySteps
  <1>4. AckedStored' /\ HeldInHand'
    BY <1>1, AckedStoredKept, HeldInHandKept
  <1>5. HandUnacked'
    BY <1>1, StepMaps, HandUnackedKept
  <1>6. EntriesExpire' /\ ExpiryInHand'
    BY <1>1, EntriesExpireKept, ExpiryInHandKept
  <1> QED
    BY <1>2, <1>3, <1>4, <1>5, <1>6 DEF DeliveryInv

\* The invariant holds in every state.
THEOREM DeliveryInvariant == DeliverySpec => []DeliveryInv
  BY DeliveryInitInv, DeliveryNextInv, PTL DEF DeliverySpec

\* What is acknowledged is with the receiver, or was left to the bulk buffer.
THEOREM AcknowledgedIsStored == DeliverySpec => []AckedStored
  <1>1. DeliveryInv => AckedStored
    BY DEF DeliveryInv
  <1> QED
    BY <1>1, DeliveryInvariant, PTL

\* An entry left without its expiry will be written again.
THEOREM EveryEntryExpires == DeliverySpec => []EntriesExpire
  <1>1. DeliveryInv => EntriesExpire
    BY DEF DeliveryInv
  <1> QED
    BY <1>1, DeliveryInvariant, PTL
=============================================================================
