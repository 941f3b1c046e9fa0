---------------------------- MODULE ConsumeSession ----------------------------
(***************************************************************************)
(* The session of `pgx consume`: take a message from the broker, skip it   *)
(* if its id was processed, compose a document, send it to the sink,       *)
(* record the id, settle the message.  The module holds what is common to  *)
(* every broker; Consume (RabbitMQ) and ConsumeKafka extend it with the    *)
(* broker's state and conjoin their part of every step.                    *)
(***************************************************************************)
EXTENDS Integers, FiniteSets, Sequences

CONSTANTS
    Messages,    \* the messages on the broker
    Id,          \* the identity the broker gives each message, or NoId
    NoId,
    Fate,        \* "ok", or the stage that always fails for the message
    Strict,      \* --on-error strict
    Idempotent,  \* --idempotent
    SinkFails,   \* the sink may return errors
    SourceFails, \* the PostgreSQL connection that composes may break
    MaxFaults    \* bound on the failures the environment injects

ErrorStages == {"parse", "lookup", "compose", "sink"}

ASSUME SessionAssumption ==
    /\ IsFiniteSet(Messages)
    /\ DOMAIN Id = Messages
    /\ Fate \in [Messages -> (ErrorStages \ {"sink"}) \cup {"ok"}]
    /\ Strict \in BOOLEAN
    /\ Idempotent \in BOOLEAN
    /\ SinkFails \in BOOLEAN
    /\ SourceFails \in BOOLEAN
    /\ MaxFaults \in Nat

VARIABLES
    pc,         \* the stage of the session, "off" between sessions
    cur,        \* the messages being handled: none, or one
    errored,    \* the stage that failed for it
    seen,       \* DedupCache: ids recorded and not expired
    source,     \* the GraphQL query connection works
    sent,       \* history: messages the sink has accepted
    fresh,      \* history: accepted sends of an id since it could last be forgotten
    faults      \* failures injected so far

sessionVars == <<pc, cur, errored, seen, source, sent, fresh, faults>>

Ids == {Id[m] : m \in Messages} \ {NoId}

Stages == {"off", "recv", "compose", "send", "record", "ack", "fail", "down"}

\* The cache knows the message: with no cache, or no id, it is never a duplicate.
is_duplicate(m) == Idempotent /\ Id[m] \in seen

Fault == faults < MaxFaults /\ faults' = faults + 1

\* The order of a message's stages.  The id is recorded before the ack, so that
\* a failed ack still lets the redelivered message be skipped.
MutantRecordLast(stage) ==
    CASE stage = "compose" -> "send" [] stage = "send" -> "ack"
      [] stage = "ack" -> "record"   [] stage = "record" -> "recv"
MutantRecordFirst(stage) ==
    CASE stage = "compose" -> "record" [] stage = "record" -> "send"
      [] stage = "send" -> "ack"       [] stage = "ack" -> "recv"
After(stage) ==
    CASE stage = "compose" -> "send" [] stage = "send" -> "record"
      [] stage = "record" -> "ack"   [] stage = "ack" -> "recv"

\* ConsumeErrorMode::handle.
MutantDiscards(stage) == "Discard"                             \* the mode is ignored
handle(stage) ==
    IF Strict THEN "Abort" ELSE IF stage = "sink" THEN "Requeue" ELSE "Discard"

-----------------------------------------------------------------------------
(* The session's part of each step *)

\* A consumer is connected: the session starts.
Begin ==
    /\ pc = "off"
    /\ pc' = "recv"
    /\ UNCHANGED <<cur, errored, seen, source, sent, fresh, faults>>

\* A message arrives: a duplicate is only settled; the rest is parsed and its
\* query looked up.
Take(m) ==
    /\ pc = "recv"
    /\ cur' = {m}
    /\ IF is_duplicate(m) THEN pc' = "ack" /\ UNCHANGED errored
       ELSE IF Fate[m] \in {"parse", "lookup"}
            THEN pc' = "fail" /\ errored' = Fate[m]
            ELSE pc' = "compose" /\ UNCHANGED errored
    /\ UNCHANGED <<seen, source, sent, fresh, faults>>

\* Composition runs queries on a connection opened once per process.
Compose ==
    \E m \in cur :
      /\ pc = "compose"
      /\ IF source /\ Fate[m] = "ok"
         THEN pc' = After(pc) /\ UNCHANGED errored
         ELSE pc' = "fail" /\ errored' = "compose"
      /\ UNCHANGED <<cur, seen, source, sent, fresh, faults>>

SendOk ==
    \E m \in cur :
      /\ pc = "send"
      /\ pc' = After(pc)
      /\ sent' = sent \cup {m}
      /\ fresh' = IF Id[m] = NoId THEN fresh ELSE [fresh EXCEPT ![Id[m]] = @ + 1]
      /\ UNCHANGED <<cur, errored, seen, source, faults>>

\* The sink returns an error (what it may have received does not count).
SendFails ==
    /\ pc = "send"
    /\ SinkFails
    /\ Fault
    /\ pc' = "fail"
    /\ errored' = "sink"
    /\ UNCHANGED <<cur, seen, source, sent, fresh>>

Record ==
    \E m \in cur :
      /\ pc = "record"
      /\ pc' = After(pc)
      /\ seen' = IF Idempotent /\ Id[m] # NoId THEN seen \cup {Id[m]} ELSE seen
      /\ UNCHANGED <<cur, errored, source, sent, fresh, faults>>

\* consumer.ack returned: on to the next message, or out of the session.
Acked(ok) ==
    /\ pc = "ack"
    /\ pc' = IF ok THEN After(pc) ELSE "off"
    /\ cur' = IF pc' \in {"off", "recv"} THEN {} ELSE cur
    /\ UNCHANGED <<errored, seen, source, sent, fresh, faults>>

\* fail: after the nack, whose result is ignored, the session goes on or, on
\* Abort, ends the run.
Failed ==
    /\ pc = "fail"
    /\ pc' = IF handle(errored) = "Abort" THEN "down" ELSE "recv"
    /\ cur' = {}
    /\ UNCHANGED <<errored, seen, source, sent, fresh, faults>>

\* recv reports the end of the consumer, or an error.
Closed ==
    /\ pc = "recv"
    /\ pc' = "off"
    /\ UNCHANGED <<cur, errored, seen, source, sent, fresh, faults>>

\* The signal is only looked at between messages and between sessions; a kill
\* comes anywhere.
Stop ==
    /\ pc # "down"
    /\ Fault
    /\ pc' = "down"
    /\ cur' = {}
    /\ UNCHANGED <<errored, seen, source, sent, fresh>>

\* A new process: an empty cache and a new query connection.
Restart ==
    /\ pc = "down"
    /\ pc' = "off"
    /\ seen' = {}
    /\ source' = TRUE
    /\ fresh' = [i \in Ids |-> 0]
    /\ UNCHANGED <<cur, errored, sent, faults>>

\* An id's TTL elapses; contains or the sweeper drops it.
Expire(i) ==
    /\ i \in seen
    /\ Fault
    /\ seen' = seen \ {i}
    /\ fresh' = [fresh EXCEPT ![i] = 0]
    /\ UNCHANGED <<pc, cur, errored, source, sent>>

\* The query connection breaks; nothing reopens it in this process.
SourceLost ==
    /\ SourceFails
    /\ source
    /\ pc # "down"
    /\ Fault
    /\ source' = FALSE
    /\ UNCHANGED <<pc, cur, errored, seen, sent, fresh>>

SessionInit ==
    /\ pc = "off"
    /\ cur = {}
    /\ errored = "parse"
    /\ seen = {}
    /\ source = TRUE
    /\ sent = {}
    /\ fresh = [i \in Ids |-> 0]
    /\ faults = 0

\* Steps that do not involve the broker.
Internal == Compose \/ SendOk \/ SendFails \/ Record

-----------------------------------------------------------------------------
SessionTypeOK ==
    /\ pc \in Stages
    /\ cur \subseteq Messages
    /\ (pc \in {"off", "recv", "down"}) <=> (cur = {})
    /\ \A m, n \in cur : m = n
    /\ errored \in ErrorStages
    /\ seen \subseteq Ids
    /\ source \in BOOLEAN
    /\ sent \subseteq Messages
    /\ fresh \in [Ids -> Nat]
    /\ faults \in 0 .. MaxFaults

\* The sink accepted the message or, the cache having taken it for a repeat,
\* one with its id.
Delivered(m) ==
    m \in sent \/ (Idempotent /\ Id[m] # NoId /\ \E n \in sent : Id[n] = Id[m])

\* What may be forgotten undelivered: in lenient mode, a message that cannot be
\* used, or that meets a broken query connection and is taken for one.
Unusable(m) == ~Strict /\ (Fate[m] # "ok" \/ ~source)

\* Within one process and one TTL an id reaches the sink at most once, lost
\* acks, redeliveries and reconnects included.
SentOnce == Idempotent => \A i \in Ids : fresh[i] <= 1

\* An id in the cache was sent.
SeenSent == \A i \in seen : Idempotent /\ \E n \in sent : Id[n] = i

\* A message about to be acknowledged was delivered; one that failed before the
\* sink is unusable, or the mode is strict.
HandJustified ==
    \A m \in cur :
      /\ pc \in {"record", "ack"} => Delivered(m)
      /\ pc = "fail" /\ errored # "sink" => Strict \/ Unusable(m)

\* An id that was sent is in the cache or about to be; one on its way to the
\* sink was not sent.
FreshFor(i) ==
    /\ fresh[i] <= 1
    /\ pc # "down" /\ fresh[i] = 1 =>
          i \in seen \/ (pc = "record" /\ \E m \in cur : Id[m] = i)
    /\ pc \in {"compose", "send"} /\ (\E m \in cur : Id[m] = i) => fresh[i] = 0
FreshCounted == Idempotent => \A i \in Ids : FreshFor(i)

SessionInv == SeenSent /\ HandJustified /\ FreshCounted
=============================================================================
