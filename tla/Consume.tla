-------------------------------- MODULE Consume --------------------------------
(***************************************************************************)
(* `pgx consume` from RabbitMQ: the consume session on a queue whose       *)
(* deliveries belong to a channel and return to the queue with it.         *)
(*                                                                         *)
(* The queue is a set: the order of deliveries plays no part.  A delivery  *)
(* waits in the client library's buffer, which outlives the channel: the   *)
(* library yields what it buffered and only then reports the end.          *)
(***************************************************************************)
EXTENDS ConsumeSession

CONSTANT Prefetch   \* prefetch_count, 0 = unlimited

ASSUME PrefetchAssumption == Prefetch \in Nat

VARIABLES
    ready,      \* broker: messages waiting on the queue
    unacked,    \* broker: messages delivered on the channel, not settled
    acked,      \* broker: messages acknowledged
    discarded,  \* broker: messages rejected without requeue
    channel,    \* "none", "open", "broken" (the client has not noticed) or "closed"
    inbox       \* deliveries the client library has buffered

brokerVars == <<ready, unacked, acked, discarded, channel, inbox>>
vars == <<sessionVars, brokerVars>>

Elements(s) == {s[k] : k \in DOMAIN s}

-----------------------------------------------------------------------------
(* The broker *)

\* basic_qos: the limit on unacknowledged deliveries.
Credit == Prefetch = 0 \/ Cardinality(unacked) < Prefetch

Deliver(m) ==
    /\ m \in ready
    /\ channel = "open"
    /\ Credit
    /\ ready' = ready \ {m}
    /\ unacked' = unacked \cup {m}
    /\ inbox' = Append(inbox, m)
    /\ UNCHANGED <<acked, discarded, channel, sessionVars>>

\* The channel or its connection is lost: the broker requeues what it delivered.
ChannelLost ==
    /\ channel = "open"
    /\ Fault
    /\ channel' = "broken"
    /\ ready' = ready \cup unacked
    /\ unacked' = {}
    /\ UNCHANGED <<acked, discarded, inbox, pc, cur, errored, seen, source, sent, fresh>>

\* The client library learns of the loss.
ChannelClosed ==
    /\ channel = "broken"
    /\ channel' = "closed"
    /\ UNCHANGED <<ready, unacked, acked, discarded, inbox, sessionVars>>

\* basic_ack / basic_nack of m: on a broken channel the frame is lost.
MutantSettle(m, into) ==   \* a discarded message is dropped without a nack
    IF channel = "open" /\ into # "discarded"
    THEN /\ unacked' = unacked \ {m}
         /\ ready' = IF into = "ready" THEN ready \cup {m} ELSE ready
         /\ acked' = IF into = "acked" THEN acked \cup {m} ELSE acked
         /\ UNCHANGED discarded
    ELSE UNCHANGED <<ready, unacked, acked, discarded>>
Settle(m, into) ==
    IF channel = "open"
    THEN /\ unacked' = unacked \ {m}
         /\ ready' = IF into = "ready" THEN ready \cup {m} ELSE ready
         /\ acked' = IF into = "acked" THEN acked \cup {m} ELSE acked
         /\ discarded' = IF into = "discarded" THEN discarded \cup {m} ELSE discarded
    ELSE UNCHANGED <<ready, unacked, acked, discarded>>

\* The client drops the consumer, or dies: nothing delivered stays with it.
Disconnect ==
    /\ channel' = "none"
    /\ inbox' = <<>>
    /\ ready' = ready \cup unacked
    /\ unacked' = {}
    /\ UNCHANGED <<acked, discarded>>

-----------------------------------------------------------------------------
(* The session on RabbitMQ *)

Connect ==
    /\ Begin
    /\ channel' = "open"
    /\ UNCHANGED <<ready, unacked, acked, discarded, inbox>>

Receive ==
    /\ inbox # <<>>
    /\ Take(Head(inbox))
    /\ inbox' = Tail(inbox)
    /\ UNCHANGED <<ready, unacked, acked, discarded, channel>>

Step == Internal /\ UNCHANGED brokerVars

Ack ==
    \E m \in cur :
      /\ channel # "closed"
      /\ Acked(TRUE)
      /\ Settle(m, "acked")
      /\ UNCHANGED <<channel, inbox>>

\* The failed ack ends the session; a message acked on the way is not redelivered.
AckFails ==
    /\ channel = "closed"
    /\ Acked(FALSE)
    /\ Disconnect

Fail ==
    \E m \in cur :
      /\ Failed
      /\ CASE handle(errored) = "Discard" -> Settle(m, "discarded") /\ UNCHANGED <<channel, inbox>>
           [] handle(errored) = "Requeue" -> Settle(m, "ready") /\ UNCHANGED <<channel, inbox>>
           [] handle(errored) = "Abort" -> Disconnect

\* The buffer is drained and the library reports the closed channel.
StreamEnds ==
    /\ channel = "closed"
    /\ inbox = <<>>
    /\ Closed
    /\ Disconnect

Exit    == Stop /\ Disconnect
Reboot  == Restart /\ UNCHANGED brokerVars
Lapse   == (\E i \in Ids : Expire(i)) /\ UNCHANGED brokerVars
Outage  == SourceLost /\ UNCHANGED brokerVars

-----------------------------------------------------------------------------
Init ==
    /\ SessionInit
    /\ ready = Messages
    /\ unacked = {}
    /\ acked = {}
    /\ discarded = {}
    /\ channel = "none"
    /\ inbox = <<>>

Broker  == (\E m \in Messages : Deliver(m)) \/ ChannelLost \/ ChannelClosed
Session == Connect \/ Receive \/ Step \/ Ack \/ AckFails \/ Fail \/ StreamEnds

Next == Broker \/ Session \/ Exit \/ Reboot \/ Lapse \/ Outage

Spec == Init /\ [][Next]_vars

-----------------------------------------------------------------------------
(* Properties *)

\* Every variable keeps its type, and the prefetch limit holds.
TypeOK ==
    /\ SessionTypeOK
    /\ ready \subseteq Messages
    /\ unacked \subseteq Messages
    /\ acked \subseteq Messages
    /\ discarded \subseteq Messages
    /\ channel \in {"none", "open", "broken", "closed"}
    /\ inbox \in Seq(Messages)
    /\ Prefetch > 0 => Cardinality(unacked) <= Prefetch

\* The broker waits only for messages the session still has in hand: none is
\* left unsettled, where it would hold its prefetch credit for ever.
NoneForgotten == channel = "open" => unacked = Elements(inbox) \cup cur

\* In lenient mode every message is settled in the end.
EventuallySettled ==
    ~Strict => <>(Messages = acked \cup discarded)

-----------------------------------------------------------------------------
(* Consume implements AtLeastOnce *)

Standing == [m \in Messages |->
    {n \in Messages : n = m \/ (Idempotent /\ Id[m] # NoId /\ Id[n] = Id[m])}]

Promise == INSTANCE AtLeastOnce WITH
    Items <- Messages, StandsFor <- Standing, delivered <- sent,
    released <- acked \cup discarded, droppable <- {m \in Messages : Unusable(m)}

\* What the broker forgets has reached the sink first, and stays forgotten;
\* dropped is only what cannot be composed, by itself or while the connection
\* of compose is broken, never what the sink refused, and nothing in strict mode.
KeepsPromise == Promise!Spec

-----------------------------------------------------------------------------
(* The inductive invariant behind KeepsPromise, SentOnce and NoneForgotten *)

\* A message is in one place at a time.
Conserved ==
    /\ ready \cup unacked \cup acked \cup discarded = Messages
    /\ ready \cap unacked = {}
    /\ (ready \cup unacked) \cap (acked \cup discarded) = {}

\* A session has a channel, and a channel that is gone holds nothing.
ChannelHeld ==
    /\ (channel = "none") <=> (pc \in {"off", "down"})
    /\ channel = "none" => inbox = <<>>
    /\ channel # "open" => unacked = {}

\* What is in hand on an open channel was delivered once.
HeldOnce ==
    channel = "open" =>
        /\ \A j, k \in DOMAIN inbox : j # k => inbox[j] # inbox[k]
        /\ cur \cap Elements(inbox) = {}

ConsumeInv ==
    /\ TypeOK
    /\ SessionInv
    /\ Conserved
    /\ ChannelHeld
    /\ HeldOnce
    /\ NoneForgotten
=============================================================================
