---------------------------- MODULE ConsumeDelivery ----------------------------
(***************************************************************************)
(* `pgx consume` from RabbitMQ down to what the receiver stores: the       *)
(* session of Consume with the inside of sink.send for each of its sinks.  *)
(*                                                                         *)
(*   webhook         one POST, never retried here                          *)
(*   redis           SET, then EXPIRE when there is a TTL                  *)
(*   elasticsearch   a push into the BulkBuffer, posted later              *)
(*                                                                         *)
(* A call that fails may have taken effect.  The call is a stage of its    *)
(* own beside pc = "send", so that channel losses, kills and the flusher   *)
(* fall between its steps.                                                 *)
(***************************************************************************)
EXTENDS Consume, BulkBuffer

CONSTANTS
    SinkKinds,   \* the sinks a run may have
    Ttl          \* --ttl, 0 = no expiry

ASSUME DeliveryAssumption ==
    /\ SinkKinds \subseteq {"webhook", "redis", "elasticsearch"}
    /\ Ttl \in Nat
    /\ Messages \cap Ids = {}   \* a generated key is no message's id

VARIABLES
    kind,     \* the sink of this run
    call,     \* what sink.send is doing: "none", "expire", "flush" or "post"
    stored,   \* webhook and Redis: keys the receiver has processed
    lasting   \* Redis: keys stored without an expiry

callVars     == <<kind, call, stored, lasting>>
deliveryVars == <<callVars, bulkVars>>
allVars      == <<vars, deliveryVars>>

\* The key of the message's document: its id when the session is idempotent.
\* (A message without an id gets a new key every time; one stands for them all.)
MutantKey(m) == m   \* the id is not passed to the sink
Key(m) == IF Idempotent /\ Id[m] # NoId THEN Id[m] ELSE m

\* A message in hand for which sink.send has been called.
Sending(m, stage) == m \in cur /\ pc = "send" /\ call = stage

\* sink.send returns.
ReturnOk    == SendOk /\ call' = "none" /\ UNCHANGED <<kind, brokerVars>>
ReturnError == SendFails /\ call' = "none" /\ UNCHANGED <<kind, brokerVars>>
InCall(stage) == call' = stage /\ UNCHANGED <<kind, vars>>

-----------------------------------------------------------------------------
(* Webhook: Webhook::post with no retries *)

PostAccepted ==
    \E m \in cur :
      /\ kind = "webhook"
      /\ Sending(m, "none")
      /\ stored' = stored \cup {Key(m)}
      /\ ReturnOk
      /\ UNCHANGED <<lasting, bulkVars>>

PostLost ==
    \E m \in cur :
      /\ kind = "webhook"
      /\ Sending(m, "none")
      /\ stored' \in {stored, stored \cup {Key(m)}}
      /\ ReturnError
      /\ UNCHANGED <<lasting, bulkVars>>

-----------------------------------------------------------------------------
(* Redis: KvConsumeSink::send *)

\* SET replaces the value and any expiry it had.
SetDone ==
    \E m \in cur :
      /\ kind = "redis"
      /\ Sending(m, "none")
      /\ stored' = stored \cup {Key(m)}
      /\ lasting' = lasting \cup {Key(m)}
      /\ IF Ttl > 0 THEN InCall("expire") ELSE ReturnOk
      /\ UNCHANGED bulkVars

SetLost ==
    \E m \in cur :
      /\ kind = "redis"
      /\ Sending(m, "none")
      /\ \/ UNCHANGED <<stored, lasting>>
         \/ stored' = stored \cup {Key(m)} /\ lasting' = lasting \cup {Key(m)}
      /\ ReturnError
      /\ UNCHANGED bulkVars

ExpireDone ==
    \E m \in cur :
      /\ Sending(m, "expire")
      /\ lasting' = lasting \ {Key(m)}
      /\ ReturnOk
      /\ UNCHANGED <<stored, bulkVars>>

MutantExpireLost ==   \* a failed EXPIRE counts as delivered
    /\ \E m \in cur : Sending(m, "expire")
    /\ ReturnOk
    /\ UNCHANGED <<stored, lasting, bulkVars>>
ExpireLost ==
    \E m \in cur :
      /\ Sending(m, "expire")
      /\ lasting' \in {lasting, lasting \ {Key(m)}}
      /\ ReturnError
      /\ UNCHANGED <<stored, bulkVars>>

-----------------------------------------------------------------------------
(* Elasticsearch: push into the BulkBuffer *)

\* A push below the threshold is a success at once: the POST comes later.
Push ==
    \E m \in cur :
      /\ kind = "elasticsearch"
      /\ Sending(m, "none")
      /\ PushDoc(Key(m))
      /\ IF Full' THEN InCall("flush") ELSE ReturnOk
      /\ UNCHANGED <<stored, lasting>>

\* The push that filled the buffer flushes it, unless the flusher came first.
PushFlush ==
    \E m \in cur :
      /\ Sending(m, "flush")
      /\ \/ TakeBatch("pusher") /\ InCall("post")
         \/ FindNothing /\ ReturnOk
      /\ UNCHANGED <<stored, lasting>>

\* The error of the POST is the error of this one send, whoever's documents it
\* carried.
PushPost ==
    \E m \in cur :
      /\ Sending(m, "post")
      /\ \/ PostOk("pusher") /\ ReturnOk
         \/ PostFails("pusher") /\ (ReturnError \/ ReturnOk)
      /\ UNCHANGED <<stored, lasting>>

\* The flusher task of the process.
Tick ==
    /\ pc # "down"
    /\ batch["flusher"] = <<>>
    /\ TakeBatch("flusher")
    /\ UNCHANGED <<callVars, vars>>

\* (A bound: it fails until MaxFaults documents were refused.)
FlusherPost ==
    /\ \/ PostOk("flusher")
       \/ PostFails("flusher") /\ Cardinality(refused) < MaxFaults
    /\ UNCHANGED <<callVars, vars>>

-----------------------------------------------------------------------------
(* The steps of Consume that do not send *)

\* A step that may end the process and its buffer with it.
Leaving == IF pc' = "down" THEN BulkExit /\ call' = "none" ELSE UNCHANGED <<bulkVars, call>>

Quiet ==
    /\ \/ Broker \/ Connect \/ Receive \/ Ack \/ AckFails \/ StreamEnds
       \/ (Compose \/ Record) /\ UNCHANGED brokerVars
       \/ Reboot \/ Lapse \/ Outage
    /\ UNCHANGED deliveryVars

Ending == (Fail \/ Exit) /\ Leaving /\ UNCHANGED <<kind, stored, lasting>>

-----------------------------------------------------------------------------
DeliveryInit ==
    /\ Init
    /\ BulkInit
    /\ kind \in SinkKinds
    /\ call = "none"
    /\ stored = {}
    /\ lasting = {}

Send == PostAccepted \/ PostLost \/ SetDone \/ SetLost \/ ExpireDone \/ ExpireLost
        \/ Push \/ PushFlush \/ PushPost

DeliveryNext == Quiet \/ Ending \/ Send \/ Tick \/ FlusherPost

DeliverySpec == DeliveryInit /\ [][DeliveryNext]_allVars

\* As in Consume; the calls of a sink return, and the flusher's interval goes on.
DeliveryFairness ==
    /\ SF_allVars((\E m \in Messages : Deliver(m)) /\ UNCHANGED deliveryVars)
    /\ WF_allVars((ChannelClosed \/ Reboot) /\ UNCHANGED deliveryVars)
    /\ WF_allVars((Connect \/ Receive \/ Ack \/ AckFails \/ StreamEnds)
                  /\ UNCHANGED deliveryVars)
    /\ WF_allVars((Compose \/ Record) /\ UNCHANGED <<brokerVars, deliveryVars>>)
    /\ WF_allVars(Fail /\ Leaving /\ UNCHANGED <<kind, stored, lasting>>)
    /\ WF_allVars(Send)
    /\ WF_allVars(Tick)
    /\ WF_allVars(FlusherPost)

FairDelivery == DeliverySpec /\ DeliveryFairness

-----------------------------------------------------------------------------
(* Properties *)

\* The document with key k is with the receiver.
Stored(k) == k \in stored \cup DOMAIN received

\* Only Elasticsearch: it is in memory, or went with a POST that failed or a
\* process that ended.
AtRisk(k) == kind = "elasticsearch" /\ k \in DocsOf(lines) \cup InFlight \cup refused

\* What is acknowledged is with the receiver.  The sink of Elasticsearch answers
\* before the POST: there it may be lost, but only with its POST or its process.
AckedStored == \A m \in acked : Stored(Key(m)) \/ AtRisk(Key(m))

\* A Redis entry with a stable key and no expiry, though the run has a TTL, is
\* not the end of the matter: a message that will write it again is still with
\* the broker, unless it was discarded on the way.
EntriesExpire ==
    Ttl > 0 => \A k \in lasting \cap Ids : \E m \in Messages \ acked : Key(m) = k

-----------------------------------------------------------------------------
(* The inductive invariant behind AckedStored and EntriesExpire *)

\* Types, and which sink may be at which step of a call.
DeliveryTypeOK ==
    /\ kind \in SinkKinds
    /\ call \in {"none", "expire", "flush", "post"}
    /\ call # "none" => pc = "send"
    /\ call = "expire" => kind = "redis" /\ Ttl > 0
    /\ call \in {"flush", "post"} => kind = "elasticsearch"
    /\ kind # "redis" => lasting = {}
    /\ lines \in Seq(Messages \cup Ids)
    /\ batch \in [Tasks -> Seq(Messages \cup Ids)]
    /\ call # "post" => batch["pusher"] = <<>>

Held(k) == Stored(k) \/ AtRisk(k)

\* What the cache knows, and what is about to be recorded or acknowledged, the
\* receiver has.
HeldInHand ==
    /\ \A i \in seen : Held(i)
    /\ \A m \in cur : pc \in {"record", "ack"} \/ call # "none" => Held(Key(m))

\* Nothing with the client was acknowledged before.
HandUnacked == (cur \cup Elements(inbox)) \cap acked = {}

\* A message is sent while the cache does not know its id, and its entry has its
\* expiry by the time it is recorded.
ExpiryInHand ==
    Ttl > 0 =>
        /\ seen \cap lasting = {}
        /\ \A m \in cur :
             /\ pc \in {"compose", "send"} => Key(m) \notin seen
             /\ pc \in {"record", "ack"} => Key(m) \notin lasting

DeliveryInv ==
    /\ ConsumeInv
    /\ DeliveryTypeOK
    /\ AckedStored
    /\ HeldInHand
    /\ HandUnacked
    /\ EntriesExpire
    /\ ExpiryInHand
=============================================================================
