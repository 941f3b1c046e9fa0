----------------------------- MODULE ListenDelivery -----------------------------
(***************************************************************************)
(* `pgx listen` down to what the receiver gets: the event loop of Listen   *)
(* with the inside of sink.send for each of its sinks.                     *)
(*                                                                         *)
(*   webhook         a POST, retried without an idempotency key            *)
(*   shell           a command, run once                                   *)
(*   kafka           a record, its delivery report awaited                 *)
(*   rabbitmq        a publish on one channel that never asks for confirms *)
(*   elasticsearch   a composed document into the BulkBuffer, posted later *)
(*                                                                         *)
(* A call that fails may have taken effect.                                *)
(***************************************************************************)
EXTENDS Listen, BulkBuffer

CONSTANTS
    SinkKinds,   \* the sinks a run may have
    Retries,     \* Webhook::new(): attempts after the first
    Payload      \* of each notification: "plain", "contract" or "hinted"

ASSUME ListenDeliveryAssumption ==
    /\ SinkKinds \subseteq {"webhook", "shell", "kafka", "rabbitmq", "elasticsearch"}
    /\ Retries \in Nat
    /\ Payload \in [1 .. MaxNotifications -> {"plain", "contract", "hinted"}]

VARIABLES
    kind,       \* the sink of this run
    mode,       \* its forward mode: "simple" or "contract"
    exchanges,  \* RabbitMQ: which of the destinations have their exchange
    push,       \* sink.send: "none", "call", "flush", "post" or "done"
    attempt,    \* retries made for the event in hand
    amqp,       \* the RabbitMQ channel, opened once: "open" or "closed"
    pipe,       \* published on it and not yet seen by the broker
    gone,       \* history: messages the channel took with it
    reached,    \* what the receivers processed: <<notification, destination>>, in order
    accepted    \* history: notifications whose send returned Ok

setupVars == <<kind, mode, exchanges>>
sendVars  == <<push, attempt, accepted>>
chanVars  == <<amqp, pipe, gone>>
farVars   == <<chanVars, reached>>
vars      == <<listenVars, bulkVars, setupVars, sendVars, farVars>>

InHand == offered[Len(offered)]

\* The hints of a contract move its message; everything else goes where the run says.
Destination(n) == IF mode = "contract" /\ Payload[n] = "hinted" THEN "hint" ELSE "default"

Deliver(n, copies) == reached' = reached \o [k \in 1 .. copies |-> <<n, Destination(n)>>]

ReturnOk    == push' = "done" /\ accepted' = accepted \cup {InHand} /\ UNCHANGED attempt
ReturnError == push' = "done" /\ UNCHANGED <<attempt, accepted>>

\* The sink is called for the notification just taken.
Offer ==
    /\ Recv
    /\ push' = "call"
    /\ attempt' = 0
    /\ UNCHANGED <<bulkVars, setupVars, farVars, accepted>>

Calling(k) == kind = k /\ push = "call"

\* What a call leaves alone, when it succeeds and when it fails.
Quiet == UNCHANGED <<listenVars, bulkVars, setupVars, chanVars>>
Trouble == Fault /\ UNCHANGED <<behavior, connVars, drainVars, loopVars, bulkVars, setupVars,
                                chanVars>>

-----------------------------------------------------------------------------
(* Webhook::post *)

WebhookAccepts ==
    /\ Calling("webhook")
    /\ Deliver(InHand, 1)
    /\ ReturnOk
    /\ Quiet

\* An error or an answer that is not 2xx: wait and try again, or give up.
MutantMayRetry == attempt <= Retries   \* one retry too many
MayRetry == attempt < Retries
WebhookFails ==
    /\ Calling("webhook")
    /\ \E copies \in {0, 1} : Deliver(InHand, copies)
    /\ IF MayRetry
       THEN attempt' = attempt + 1 /\ UNCHANGED <<push, accepted>>
       ELSE ReturnError
    /\ Trouble

-----------------------------------------------------------------------------
(* Shell::run *)

ShellSucceeds ==
    /\ Calling("shell")
    /\ Deliver(InHand, 1)
    /\ ReturnOk
    /\ Quiet

\* It cannot be spawned, or exits with an error after it did its work or not.
ShellFails ==
    /\ Calling("shell")
    /\ \E copies \in {0, 1} : Deliver(InHand, copies)
    /\ ReturnError
    /\ Trouble

-----------------------------------------------------------------------------
(* Kafka::send *)

\* The producer retries inside: a report that was lost makes a second copy.
KafkaDelivers ==
    /\ Calling("kafka")
    /\ \E copies \in {1, 2} : Deliver(InHand, copies)
    /\ ReturnOk
    /\ Quiet

KafkaFails ==
    /\ Calling("kafka")
    /\ \E copies \in {0, 1} : Deliver(InHand, copies)
    /\ ReturnError
    /\ Trouble

-----------------------------------------------------------------------------
(* Rabbitmq::publish: Ok as soon as the message is written to the channel *)

Publishes ==
    /\ Calling("rabbitmq")
    /\ amqp = "open"
    /\ pipe' = Append(pipe, InHand)
    /\ ReturnOk
    /\ UNCHANGED <<listenVars, bulkVars, setupVars, amqp, gone, reached>>

MutantRefused == ReturnOk   \* the error of the channel is dropped
Refused == ReturnError
CannotPublish ==
    /\ Calling("rabbitmq")
    /\ amqp = "closed"
    /\ Refused
    /\ Quiet
    /\ UNCHANGED reached

CloseChannel == amqp' = "closed" /\ pipe' = <<>> /\ gone' = gone \cup Elems(pipe)

\* The broker routes a message, or closes the channel for want of its exchange.
BrokerTakes ==
    /\ pipe # <<>>
    /\ IF Destination(Head(pipe)) \in exchanges
       THEN Deliver(Head(pipe), 1) /\ pipe' = Tail(pipe) /\ UNCHANGED <<amqp, gone>>
       ELSE CloseChannel /\ UNCHANGED reached
    /\ UNCHANGED <<listenVars, bulkVars, setupVars, sendVars>>

\* Nothing opens the channel again.
AmqpBreaks ==
    /\ kind = "rabbitmq"
    /\ amqp = "open"
    /\ Fault
    /\ CloseChannel
    /\ UNCHANGED <<behavior, connVars, drainVars, loopVars, bulkVars, setupVars, sendVars, reached>>

-----------------------------------------------------------------------------
(* ElasticsearchDownstream::send *)

\* A payload that is no contract; a query that is unknown or fails.
ComposeFails ==
    /\ Calling("elasticsearch")
    /\ \/ Payload[InHand] = "plain" /\ UNCHANGED listenVars
       \/ Payload[InHand] # "plain" /\ Fault
                                    /\ UNCHANGED <<behavior, connVars, drainVars, loopVars>>
    /\ ReturnError
    /\ UNCHANGED <<bulkVars, setupVars, farVars>>

Push ==
    /\ Calling("elasticsearch")
    /\ Payload[InHand] # "plain"
    /\ PushDoc(InHand)
    /\ IF Full' THEN push' = "flush" /\ UNCHANGED <<attempt, accepted>> ELSE ReturnOk
    /\ UNCHANGED <<listenVars, setupVars, farVars>>

\* The push that filled the buffer flushes it, unless the flusher came first.
PushFlush ==
    /\ push = "flush"
    /\ \/ TakeBatch("pusher") /\ push' = "post" /\ UNCHANGED <<attempt, accepted>>
       \/ FindNothing /\ ReturnOk
    /\ UNCHANGED <<listenVars, setupVars, farVars>>

PushPost ==
    /\ push = "post"
    /\ \/ PostOk("pusher") /\ ReturnOk /\ UNCHANGED faults
       \/ PostFails("pusher") /\ (ReturnError \/ ReturnOk) /\ Fault
    /\ UNCHANGED <<behavior, connVars, drainVars, loopVars, setupVars, farVars>>

\* The flusher task, at each tick of its interval.
MutantMayTick == refused = {} /\ batch["flusher"] = <<>>   \* it ends at a failure
MayTick == batch["flusher"] = <<>>
Tick ==
    /\ phase # "ended"
    /\ MayTick
    /\ TakeBatch("flusher")
    /\ UNCHANGED <<listenVars, setupVars, sendVars, farVars>>
FlusherPost ==
    /\ \/ PostOk("flusher") /\ UNCHANGED faults
       \/ PostFails("flusher") /\ Fault
    /\ UNCHANGED <<behavior, connVars, drainVars, loopVars, setupVars, sendVars, farVars>>

-----------------------------------------------------------------------------
(* The loop around the call *)

\* sink.send returns; the loop logs an error and goes on.
Return ==
    /\ push = "done"
    /\ Sent
    /\ push' = "none"
    /\ UNCHANGED <<bulkVars, setupVars, attempt, accepted, farVars>>

\* The end of the run drops the sink: its buffer, and what its channel still held.
Exit ==
    /\ Shutdown
    /\ BulkExit
    /\ CloseChannel
    /\ UNCHANGED <<setupVars, sendVars, reached>>

Other == /\ \/ ServerNext \/ DrainNext
            \/ Connect \/ Subscribe \/ SubscribeFails \/ RecvNone \/ Signal
         /\ UNCHANGED <<bulkVars, setupVars, sendVars, farVars>>

-----------------------------------------------------------------------------
\* build_downstream.  The simple RabbitMQ sink declares its exchange, the contract
\* one declares none; only there do hints name others.
Init ==
    /\ ListenInit
    /\ BulkInit
    /\ kind \in SinkKinds
    /\ mode \in IF kind = "elasticsearch" THEN {"contract"} ELSE {"simple", "contract"}
    /\ exchanges \in IF kind # "rabbitmq" THEN {{}}
                     ELSE IF mode = "simple" THEN {{"default"}}
                     ELSE SUBSET {"default", "hint"}
    /\ push = "none"
    /\ attempt = 0
    /\ amqp = "open"
    /\ pipe = <<>>
    /\ gone = {}
    /\ reached = <<>>
    /\ accepted = {}

Indexing  == ComposeFails \/ Push \/ PushFlush \/ PushPost
Patient   == WebhookAccepts \/ WebhookFails \/ ShellSucceeds \/ ShellFails
Limited   == KafkaDelivers \/ KafkaFails \/ Publishes \/ CannotPublish

Next == \/ Other \/ Offer \/ Return \/ Exit
        \/ Indexing \/ Patient \/ Limited
        \/ BrokerTakes \/ AmqpBreaks \/ Tick \/ FlusherPost

Spec == Init /\ [][Next]_vars

\* The runtime polls every task that has been woken, POSTs to Elasticsearch time
\* out after 30 s and Kafka sends after 5 s, and the flusher's interval goes on.
\* No time limit ends a webhook's POST or a shell command.
Fairness ==
    /\ WF_vars(DrainNext /\ Other)
    /\ WF_vars((Connect \/ Subscribe \/ RecvNone) /\ Other)
    /\ WF_vars(drainer = "done" /\ SubscribeFails /\ Other)
    /\ WF_vars(Offer)
    /\ WF_vars(Indexing)
    /\ WF_vars(Limited)
    /\ WF_vars(Return)
    /\ WF_vars(Tick)
    /\ WF_vars(FlusherPost)
    /\ WF_vars(Exit)

FairSpec == Spec /\ Fairness

-----------------------------------------------------------------------------
(* Properties *)

\* Receivers see the notifications in the order of their commits, each where its
\* mode and payload send it.  Copies come one behind the other, at most one per
\* attempt: retries without a key never deliver an old event behind a new one.
DeliveredInOrder ==
    /\ \A j, k \in DOMAIN reached : j < k => reached[j][1] <= reached[k][1]
    /\ \A n \in Elems(offered) :
         LET copies == {k \in DOMAIN reached : reached[k][1] = n}
         IN  /\ Cardinality(copies) <= CASE kind = "webhook" -> Retries + 1
                                         [] kind = "kafka" -> 2
                                         [] OTHER -> 1
             /\ \A k \in copies :
                  (reached[k][2] = "hint") <=> (mode = "contract" /\ Payload[n] = "hinted")

\* A send that returned Ok has delivered, with two exceptions: Elasticsearch's
\* document may be in the buffer or have gone with a POST, and RabbitMQ's message
\* on its way or have gone with the channel, written to it while it was open.
AcceptedReached ==
    \A n \in accepted :
        \/ \E k \in DOMAIN reached : reached[k][1] = n
        \/ kind = "elasticsearch"
             /\ n \in DOMAIN received \cup DocsOf(lines) \cup InFlight \cup refused
        \/ kind = "rabbitmq" /\ n \in Elems(pipe) \cup gone

\* The receivers of a sink without a time limit answer now and then.
ReceiversAnswer == []<>(kind \in {"webhook", "shell"} => push # "call")

\* A lost connection always ends its session, behind the events it still holds,
\* and a later session listens again.  (A Drainer parked by `block` does not see
\* the loss, and no session ends while a receiver keeps the loop waiting.)
LossNoticed ==
    ReceiversAnswer => (behavior # "block" => (link = "broken" ~> link # "broken"))

\* What the channel holds is offered to the sink, unless a signal ends the run,
\* the LISTEN that is still under way fails or a receiver does not answer.
Offered ==
    ReceiversAnswer =>
        \A n \in 1 .. MaxNotifications :
            (phase \in {"loop", "sending"} /\ n \in Elems(chan)) ~> (n \in Elems(offered) \/ signal)

\* A signal ends the run, after the event in hand -- which has no time limit.
SignalEndsListen ==
    ReceiversAnswer => (behavior # "block" => (signal ~> phase = "ended"))

\* A document that entered the buffer leaves it for a POST, although the buffer
\* never fills again, POSTs fail and sessions come and go.
EventuallyPosted ==
    \A n \in 1 .. MaxNotifications : n \in DocsOf(lines) ~> n \notin DocsOf(lines)
=============================================================================
