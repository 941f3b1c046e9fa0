----------------------------- MODULE ConsumeKafka -----------------------------
(***************************************************************************)
(* `pgx consume` from Kafka: the consume session on partition logs, where  *)
(* settling a message means asking for an offset to be committed and a     *)
(* message is redelivered only to a consumer that is assigned the          *)
(* partition anew.  One consumer in the group; a rebalance takes every     *)
(* partition away and assigns it back at the committed offset.             *)
(***************************************************************************)
EXTENDS ConsumeSession

CONSTANTS
    Partitions,  \* partition numbers
    Log,         \* the messages of each partition, offsets from 0
    Committed0,  \* offsets the group has committed when the run begins, or None
    OffsetBits,  \* bits a delivery tag leaves to the offset (32 in the code)
    BitOr(_, _)  \* the bitwise or of two integers

None == -1

ASSUME KafkaAssumption ==
    /\ Partitions \subseteq Nat
    /\ Log \in [Partitions -> Seq(Messages)]
    /\ \A m \in Messages : \E p \in Partitions : \E k \in DOMAIN Log[p] : Log[p][k] = m
    /\ Committed0 \in [Partitions -> Nat \cup {None}]
    /\ \A p \in Partitions : Committed0[p] <= Len(Log[p])
    /\ 2 ^ OffsetBits \in Nat \ {0}
    /\ \A p \in Partitions : \A o \in 0 .. 2 ^ OffsetBits - 1 :   \* no bit in common
          BitOr(p * 2 ^ OffsetBits, o) = p * 2 ^ OffsetBits + o

VARIABLES
    produced,   \* broker: records in each partition so far
    committed,  \* broker: committed offset of the group, or None
    requested,  \* offset of the commit request under way, or None
    position,   \* next offset the consumer fetches
    last,       \* KafkaConsumer.last_offsets, created with each consumer
    at,         \* partition and offset of the message in hand
    joined      \* history: where the group first began to read

brokerVars == <<produced, committed, requested, position, last, at, joined>>
vars == <<sessionVars, brokerVars>>

Larger(x, y) == IF x >= y THEN x ELSE y

\* DeliveryTag::kafka and DeliveryTag::kafka_position.
Tag(p, o) == BitOr(p * 2 ^ OffsetBits, o)
kafka_position(tag) == <<tag \div 2 ^ OffsetBits, tag % 2 ^ OffsetBits>>

-----------------------------------------------------------------------------
(* The broker *)

Produce(p) ==
    /\ produced[p] < Len(Log[p])
    /\ produced' = [produced EXCEPT ![p] = @ + 1]
    /\ UNCHANGED <<committed, requested, position, last, at, joined, sessionVars>>

\* The commit is asynchronous: it takes effect later, or never.
CommitArrives(p) ==
    /\ requested[p] # None
    /\ committed' = [committed EXCEPT ![p] = requested[p]]
    /\ requested' = [requested EXCEPT ![p] = None]
    /\ UNCHANGED <<produced, position, last, at, joined, sessionVars>>

\* Where an assigned partition is read from: auto.offset.reset = latest.
MutantAssigned(p) == produced[p]   \* the committed offset is ignored
Assigned(p) == IF committed[p] = None THEN produced[p] ELSE committed[p]

Assign ==
    /\ position' = [p \in Partitions |-> Assigned(p)]
    /\ joined' = [p \in Partitions |-> IF joined[p] = None THEN Assigned(p) ELSE joined[p]]

\* The consumer is dropped; its commit requests die with it.
Disconnect ==
    /\ requested' = [p \in Partitions |-> None]
    /\ UNCHANGED <<produced, committed, position, last, at, joined>>

-----------------------------------------------------------------------------
(* KafkaConsumer *)

Connect ==
    /\ Begin
    /\ Assign
    /\ last' = [p \in Partitions |-> 0]
    /\ UNCHANGED <<produced, committed, requested, at>>

Receive ==
    \E p \in Partitions :
      /\ position[p] < produced[p]
      /\ Take(Log[p][position[p] + 1])
      /\ at' = <<p, position[p]>>
      /\ position' = [position EXCEPT ![p] = @ + 1]
      /\ UNCHANGED <<produced, committed, requested, last, joined>>

\* The group is rebalanced, for instance because a message took longer than
\* max.poll.interval.ms.  The consumer object, and last_offsets, survive.
Rebalance ==
    /\ pc \notin {"off", "down"}
    /\ Fault
    /\ Assign
    /\ UNCHANGED <<produced, committed, requested, last, at>>
    /\ UNCHANGED <<pc, cur, errored, seen, source, sent, fresh>>

MutantCommitLast(offset, p) ==   \* not the highest
    requested' = [requested EXCEPT ![p] = offset + 1]
Commit(offset, p) == requested' = [requested EXCEPT ![p] = Larger(last[p], offset) + 1]

\* KafkaConsumer::ack of the message in hand.  A commit for a partition that does
\* not exist is refused later, unseen.
RequestCommit ==
    LET tag    == Tag(at[1], at[2])
        p      == kafka_position(tag)[1]
        offset == kafka_position(tag)[2]
    IN  IF p \in Partitions
        THEN /\ last' = [last EXCEPT ![p] = Larger(@, offset)]
             /\ Commit(offset, p)
        ELSE UNCHANGED <<last, requested>>

Ack ==
    /\ Acked(TRUE)
    /\ RequestCommit
    /\ UNCHANGED <<produced, committed, position, at, joined>>

AckFails ==
    /\ pc = "ack"
    /\ Fault
    /\ pc' = "off"
    /\ cur' = {}
    /\ Disconnect
    /\ UNCHANGED <<errored, seen, source, sent, fresh>>

\* KafkaConsumer::nack: requeue does nothing, no requeue is an ack.
Skips(action) == action = "Discard"

Fail ==
    /\ Failed
    /\ IF Skips(handle(errored))
       THEN RequestCommit /\ UNCHANGED <<produced, committed, position, at, joined>>
       ELSE IF handle(errored) = "Abort" THEN Disconnect ELSE UNCHANGED brokerVars

\* recv returns an error.
RecvFails ==
    /\ pc = "recv"
    /\ Fault
    /\ pc' = "off"
    /\ Disconnect
    /\ UNCHANGED <<cur, errored, seen, source, sent, fresh>>

Step    == Internal /\ UNCHANGED brokerVars
Exit    == Stop /\ Disconnect
Reboot  == Restart /\ UNCHANGED brokerVars
Lapse   == (\E i \in Ids : Expire(i)) /\ UNCHANGED brokerVars
Outage  == SourceLost /\ UNCHANGED brokerVars

-----------------------------------------------------------------------------
Init ==
    /\ SessionInit
    /\ produced = [p \in Partitions |-> Larger(0, Committed0[p])]
    /\ committed = Committed0
    /\ requested = [p \in Partitions |-> None]
    /\ position = [p \in Partitions |-> 0]
    /\ last = [p \in Partitions |-> 0]
    /\ at = <<0, 0>>
    /\ joined = [p \in Partitions |-> None]

Broker  == \E p \in Partitions : Produce(p) \/ CommitArrives(p)
Session == Connect \/ Receive \/ Step \/ Ack \/ AckFails \/ Fail \/ RecvFails \/ Rebalance

Next == Broker \/ Session \/ Exit \/ Reboot \/ Lapse \/ Outage

Spec == Init /\ [][Next]_vars

\* Records are produced, fetched and their commits arrive; the runtime polls
\* the session; the session-loop reconnects for ever and a supervisor restarts
\* the process.  Failures are finite.
Fairness ==
    /\ \A p \in Partitions : WF_vars(Produce(p)) /\ SF_vars(CommitArrives(p))
    /\ WF_vars(Connect)
    /\ WF_vars(Receive \/ Ack \/ Fail)
    /\ WF_vars((Compose \/ SendOk \/ Record) /\ UNCHANGED brokerVars)
    /\ WF_vars(Reboot)

FairSpec == Spec /\ Fairness

-----------------------------------------------------------------------------
(* Properties *)

\* Every variable keeps its type, and no partition is read beyond its end.
TypeOK ==
    /\ SessionTypeOK
    /\ produced \in [Partitions -> Nat]
    /\ committed \in [Partitions -> Nat \cup {None}]
    /\ requested \in [Partitions -> Nat \cup {None}]
    /\ position \in [Partitions -> Nat]
    /\ last \in [Partitions -> Nat]
    /\ at \in Nat \X Nat
    /\ joined \in [Partitions -> Nat \cup {None}]
    /\ \A p \in Partitions : position[p] <= produced[p] /\ produced[p] <= Len(Log[p])

\* Offset o of p needs no further delivery.
Settled(p, o) ==
    o < Len(Log[p]) /\ (Delivered(Log[p][o + 1]) \/ Unusable(Log[p][o + 1]))

\* At-least-once (README.md:607): an offset the group has committed, which Kafka
\* delivers to it no more, belongs to a message that has reached the sink.  Where
\* consume.rs:166 has lenient mode requeue what the sink refused, it does not hold,
\* nor for an offset that does not fit the 32 bits of trait.rs:45.
CommittedDelivered ==
    \A p \in Partitions :
        joined[p] # None => \A o \in joined[p] .. committed[p] - 1 : Settled(p, o)

\* Where a partition is assigned anew, the consumer starts no later than the first
\* message that has not reached the sink: README.md:608, "Kafka redelivers any
\* message whose offset was not committed before a crash".  A group that has not
\* committed at all starts behind what it had received.
ReassignedSkipsNothing ==
    [][\A p \in Partitions : joined[p] # None /\ position'[p] \notin {position[p], position[p] + 1}
         => \A o \in joined[p] .. position'[p] - 1 : Settled(p, o)]_vars

\* A redelivered message never moves the committed offset back.
CommitsForward == [][\A p \in Partitions : committed'[p] >= committed[p]]_vars

\* A usable message that is produced once the group reads the partition reaches
\* the sink, if need be after an abort and a restart.
EventuallyDelivered ==
    \A p \in Partitions : \A o \in 0 .. Len(Log[p]) - 1 :
        (joined[p] # None /\ o >= joined[p]) ~> Settled(p, o)

-----------------------------------------------------------------------------
(* The inductive invariants *)

Live == pc \notin {"off", "down"}

\* The message in hand is the one `at` points to.
HandPlaced ==
    cur # {} => /\ at[1] \in Partitions
                /\ at[2] < produced[at[1]]
                /\ cur = {Log[at[1]][at[2] + 1]}

\* Nothing is committed, requested or acknowledged beyond the end of a partition.
WithinLog ==
    \A p \in Partitions :
      /\ committed[p] <= produced[p]
      /\ requested[p] <= produced[p]
      /\ last[p] < Larger(produced[p], 1)

\* What the session may still commit is not behind what is committed: a session
\* starts reading there, and remembers the highest offset it acknowledged.
CommitsAhead ==
    \A p \in Partitions :
      /\ requested[p] # None => Live /\ requested[p] \in committed[p] .. last[p] + 1
      /\ Live => committed[p] <= Larger(position[p], last[p] + 1)
      /\ cur # {} /\ at[1] = p => committed[p] <= Larger(at[2], last[p]) + 1

OffsetsInv == TypeOK /\ HandPlaced /\ WithinLog /\ CommitsAhead

\* The delivery tag keeps every offset apart from the partition.
OffsetsFit == \A p \in Partitions : Len(Log[p]) <= 2 ^ OffsetBits

\* The group has committed an offset in every partition before the run.
GroupKnown == \A p \in Partitions : Committed0[p] # None

\* Everything between where the group joined and offset o is settled.
SettledTo(p, o) == \A k \in joined[p] .. o - 1 : Settled(p, k)

\* In a session that reads p, what was read is settled or in hand; what was
\* read before the message in hand, and what was acknowledged, is settled.
ReadSettled ==
    \A p \in Partitions :
      /\ committed[p] # None
      /\ Live =>
           /\ joined[p] # None
           /\ \A o \in joined[p] .. position[p] - 1 : Settled(p, o) \/ (cur # {} /\ at = <<p, o>>)
           /\ cur # {} /\ at[1] = p => SettledTo(p, at[2])
           /\ last[p] > 0 => SettledTo(p, last[p] + 1)
           /\ SettledTo(p, requested[p])

DeliveryInv == OffsetsInv /\ SeenSent /\ HandJustified /\ ReadSettled /\ CommittedDelivered
-----------------------------------------------------------------------------
(* ConsumeKafka implements AtLeastOnce *)

Standing == [m \in Messages |->
    {n \in Messages : n = m \/ (Idempotent /\ Id[m] # NoId /\ Id[n] = Id[m])}]

\* What Kafka gives to the group no more.
Passed == {m \in Messages :
              \E p \in Partitions :
                 /\ joined[p] # None
                 /\ \E o \in joined[p] .. committed[p] - 1 : Log[p][o + 1] = m}

Promise == INSTANCE AtLeastOnce WITH
    Items <- Messages, StandsFor <- Standing, delivered <- sent, released <- Passed,
    droppable <- {m \in Messages : Unusable(m)}

\* The group goes past a message only after it has reached the sink, or when it
\* cannot be used; and never back, so that it stays past it.
KeepsPromise == Promise!Spec
=============================================================================
