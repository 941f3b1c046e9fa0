------------------------------- MODULE BulkBuffer -------------------------------
(***************************************************************************)
(* The Elasticsearch bulk buffer: `push` appends a document and, when the  *)
(* buffer is full, posts what it holds; a flusher task posts it every few  *)
(* seconds.  The lock is released between the append and the flush and     *)
(* again before the POST, so two POSTs may be under way at once.           *)
(*                                                                         *)
(* The module has the buffer's state and steps; who pushes is left to the  *)
(* module that extends it.                                                 *)
(***************************************************************************)
EXTENDS Integers, Sequences, Bags, FiniteSets

CONSTANT MaxItems   \* max_items

ASSUME BulkAssumption == MaxItems \in Nat \ {0}

VARIABLES
    lines,     \* documents in the buffer
    batch,     \* the documents of the POST each task has under way
    received,  \* bag of the documents Elasticsearch has indexed
    refused    \* history: documents of POSTs that failed, or lost with the process

bulkVars == <<lines, batch, received, refused>>

\* The tasks that flush.
Tasks == {"pusher", "flusher"}

DocsOf(s) == {s[k] : k \in DOMAIN s}

\* The bag of the documents of a batch.
BagOf(s) == [d \in DocsOf(s) |-> Cardinality({k \in DOMAIN s : s[k] = d})]

\* The documents of the POSTs under way.
InFlight == UNION {DocsOf(batch[t]) : t \in Tasks}

BulkInit ==
    /\ lines = <<>>
    /\ batch = [t \in Tasks |-> <<>>]
    /\ received = EmptyBag
    /\ refused = {}

\* push, under the lock.
PushDoc(d) ==
    /\ lines' = Append(lines, d)
    /\ UNCHANGED <<batch, received, refused>>

Full == Len(lines) >= MaxItems

\* flush_inner, under the lock: take everything, or find nothing.
MutantKept(t) == lines   \* the buffer is not cleared
Kept(t) == <<>>
TakeBatch(t) ==
    /\ lines # <<>>
    /\ batch' = [batch EXCEPT ![t] = lines]
    /\ lines' = Kept(t)
    /\ UNCHANGED <<received, refused>>
FindNothing == lines = <<>> /\ UNCHANGED bulkVars

\* The POST succeeds.
PostOk(t) ==
    /\ batch[t] # <<>>
    /\ received' = received (+) BagOf(batch[t])
    /\ batch' = [batch EXCEPT ![t] = <<>>]
    /\ UNCHANGED <<lines, refused>>

\* The POST fails, its answer is lost, or it is answered with 200 although its
\* items were refused, which nothing reads.  The documents are gone from the
\* buffer.  (All of them were indexed or none: the properties take one at a time.)
PostFails(t) ==
    /\ batch[t] # <<>>
    /\ received' \in {received, received (+) BagOf(batch[t])}
    /\ refused' = refused \cup DocsOf(batch[t])
    /\ batch' = [batch EXCEPT ![t] = <<>>]
    /\ UNCHANGED lines

\* The process exits: the final flush may or may not get through.
BulkExit ==
    /\ received' \in {received, received (+) BagOf(lines)}
    /\ lines' = <<>>
    /\ refused' = refused \cup DocsOf(lines) \cup InFlight
    /\ batch' = [t \in Tasks |-> <<>>]

-----------------------------------------------------------------------------
(* Properties *)

\* Every copy of every document: indexed, under way and in the buffer.
Copies == received (+) BagOf(lines) (+) BagOf(batch["pusher"]) (+) BagOf(batch["flusher"])

\* No document is posted twice, although two tasks flush one buffer.
PostedOnce == \A d \in DOMAIN Copies : Copies[d] = 1
=============================================================================
