------------------------------- MODULE WalBuffers -------------------------------
(***************************************************************************)
(* The file sinks of `pgx replicate`, Parquet and Iceberg: rows gather in  *)
(* one buffer per table and go to files when a buffer is full, when the    *)
(* interval has passed, or when the run ends.  send_wal answers Ok as soon *)
(* as a row is buffered, so the session lets the slot move past rows that  *)
(* are in no file yet.                                                     *)
(*                                                                         *)
(* Events are the positions of Stream: the table of the row, or NoRow for  *)
(* a boundary, a RELATION or a TRUNCATE, which the sink ignores.  What the *)
(* slot resends is decided by transactions (Replicate has the details).    *)
(***************************************************************************)
EXTENDS Integers, Sequences, FiniteSets

CONSTANTS
    Tables,     \* the tables the stream has rows of
    NoRow,      \* an event without a row
    Stream,     \* the WAL: tables and NoRow
    TxnStarts,  \* the positions at which a transaction begins
    MaxRows,    \* --max-rows
    Kinds,      \* "parquet" and "iceberg", those a run may use
    MaxFaults,  \* bound on failed writes, failing siblings, kills and give-ups
    MaxDrops    \* bound on lost replication connections

ASSUME BuffersAssumption ==
    /\ NoRow \notin Tables
    /\ Stream \in Seq(Tables \cup {NoRow})
    /\ TxnStarts \subseteq 1 .. Len(Stream)
    /\ Stream # <<>> => 1 \in TxnStarts
    /\ MaxRows \in Nat \ {0}
    /\ Kinds \subseteq {"parquet", "iceberg"}
    /\ MaxFaults \in Nat
    /\ MaxDrops \in Nat

VARIABLES
    kind,       \* the sink
    fanout,     \* the sink is one of a FanOutSink's
    phase,      \* "streaming", "flushing" in send_wal, "closing", "stopped"
    next,       \* the next event of the stream
    applied,    \* the applied LSN of the process, as a position
    confirmed,  \* the slot's confirmed position
    buffers,    \* rows in memory, by table
    pending,    \* rows taken out of the buffers for the flush under way
    files,      \* rows a reader of the table finds, in the order of the files
    signal,     \* the shutdown signal was received
    lost,       \* history: rows of failed flushes, and of files they wrote over
    resent,     \* history: events the stream delivered again
    restarts,   \* history: processes after the first
    faults,     \* failures so far
    drops       \* lost connections so far

memory == <<next, applied, buffers, pending>>
history == <<lost, resent, restarts>>
vars == <<kind, fanout, phase, memory, confirmed, files, signal, history, faults, drops>>

Events == 1 .. Len(Stream)
RowsOf(t) == {e \in Events : Stream[e] = t}
InSeq(s) == {s[k] : k \in DOMAIN s}
Empty == [t \in Tables |-> <<>>]
Holding(b) == {t \in Tables : b[t] # <<>>}

Fault == faults < MaxFaults /\ faults' = faults + 1

\* The walsender resumes after position p with the whole of the transaction that
\* has not ended there.
NextFrom(p) ==
    IF p = Len(Stream) THEN p + 1
    ELSE CHOOSE s \in TxnStarts :
            s <= p + 1 /\ \A u \in TxnStarts : u <= p + 1 => u <= s

-----------------------------------------------------------------------------
(* Streaming *)

\* accumulate: the row joins the buffer of its table.
Accumulated(e) ==
    IF Stream[e] = NoRow THEN buffers
    ELSE [buffers EXCEPT ![Stream[e]] = Append(@, e)]

\* maybe_flush, do_flush: is a flush due?
MutantDue(b, elapsed) ==
    Holding(b) # {} /\ (elapsed \/ \E t \in Tables : Len(b[t]) > MaxRows)
Due(b, elapsed) ==
    Holding(b) # {} /\ (elapsed \/ \E t \in Tables : Len(b[t]) >= MaxRows)

\* std::mem::take leaves no row behind.
MutantTaken(b) == b
Taken(b) == Empty

\* send_wal answers and the applied LSN follows, unless another sink of the fan-out
\* failed on the event.
Answer(e) ==
    \/ applied' = (IF e > applied THEN e ELSE applied) /\ UNCHANGED faults
    \/ fanout /\ Fault /\ UNCHANGED applied

\* send_wal: buffer the event, and begin a flush if one is due.
Send(elapsed) ==
    /\ phase = "streaming"
    /\ ~signal
    /\ next \in Events
    /\ LET b == Accumulated(next)
       IN IF Due(b, elapsed)
          THEN /\ phase' = "flushing"
               /\ pending' = b
               /\ buffers' = Taken(b)
               /\ UNCHANGED <<applied, faults>>
          ELSE /\ buffers' = b
               /\ Answer(next)
               /\ UNCHANGED <<phase, pending>>
    /\ next' = next + 1
    /\ UNCHANGED <<kind, fanout, confirmed, files, signal, history, drops>>

\* flush_table_to_iceberg, like Parquet's flush_table: the rows of one table go to
\* a new file, and a commit appends it to those of the table.
Written(t) == [files EXCEPT ![t] = @ \o pending[t]]

\* The tables come in the order of a hash map.  The last one ends the flush.
MutantRest(t) == Empty   \* the loop ends after one table
Rest(t) == [pending EXCEPT ![t] = <<>>]
WriteTable(t) ==
    /\ phase \in {"flushing", "closing"}
    /\ pending[t] # <<>>
    /\ files' = Written(t)
    /\ pending' = Rest(t)
    /\ IF phase = "flushing" /\ pending' = Empty
       THEN phase' = "streaming" /\ Answer(next - 1)
       ELSE UNCHANGED <<phase, applied, faults>>
    /\ UNCHANGED <<kind, fanout, next, buffers, confirmed, signal, history, drops>>

\* Iceberg: every flush of a table names its files from a fresh counter, so a later
\* flush writes to the path of an earlier one, and the library may refuse the commit
\* as a duplicate.  What a reader then finds there is the old file or the new one.
CommitRefused(t) ==
    /\ phase \in {"flushing", "closing"}
    /\ kind = "iceberg"
    /\ pending[t] # <<>>
    /\ files[t] # <<>>
    /\ files' \in {files, [files EXCEPT ![t] = pending[t]]}
    /\ lost' = lost \cup InSeq(files[t]) \cup UNION {InSeq(pending[u]) : u \in Tables}
    /\ pending' = Empty
    /\ phase' = IF phase = "flushing" THEN "streaming" ELSE "closing"
    /\ UNCHANGED <<kind, fanout, next, applied, buffers, confirmed, signal, resent, restarts,
                   faults, drops>>

\* flush_table fails: its rows and those of the tables after it are gone.  The
\* session logs the error and goes on with the next event.
WriteFails ==
    /\ phase \in {"flushing", "closing"}
    /\ pending # Empty
    /\ Fault
    /\ lost' = lost \cup UNION {InSeq(pending[t]) : t \in Tables}
    /\ pending' = Empty
    /\ phase' = IF phase = "flushing" THEN "streaming" ELSE "closing"
    /\ UNCHANGED <<kind, fanout, next, applied, buffers, confirmed, files, signal, resent,
                   restarts, drops>>

\* The replication worker confirms the applied position.
Confirm ==
    /\ phase \in {"streaming", "flushing"}
    /\ confirmed # applied
    /\ confirmed' = applied
    /\ UNCHANGED <<kind, fanout, phase, memory, files, signal, history, faults, drops>>

\* The connection is lost between two events; the sink outlives the session.
Drop ==
    /\ phase = "streaming"
    /\ drops < MaxDrops
    /\ drops' = drops + 1
    /\ next' = NextFrom(applied)
    /\ resent' = resent \cup (NextFrom(applied) .. next - 1)
    /\ UNCHANGED <<kind, fanout, phase, applied, buffers, pending, confirmed, files, signal,
                   lost, restarts, faults>>

-----------------------------------------------------------------------------
(* The end of the run *)

Signal ==
    /\ ~signal
    /\ phase \in {"streaming", "flushing"}
    /\ signal' = TRUE
    /\ UNCHANGED <<kind, fanout, phase, memory, confirmed, files, history, faults, drops>>

\* sink.flush after the session-loop ended well.  FanOutSink has the default
\* flush, which does nothing, and its sinks are dropped with their rows.
Close ==
    /\ phase = "streaming"
    /\ signal
    /\ phase' = "closing"
    /\ pending' = IF fanout THEN Empty ELSE buffers
    /\ buffers' = Empty
    /\ UNCHANGED <<kind, fanout, next, applied, confirmed, files, signal, history, faults, drops>>

MutantClosed == phase = "closing" /\ pending = Empty /\ lost = {}   \* waits for a good flush
Closed == phase = "closing" /\ pending = Empty
Stop ==
    /\ Closed
    /\ phase' = "stopped"
    /\ pending' = Empty
    /\ UNCHANGED <<kind, fanout, next, applied, buffers, confirmed, files, signal, history,
                   faults, drops>>

\* The process is killed, or the session-loop gives up and `run` returns its
\* error before sink.flush.
Kill ==
    /\ phase # "stopped"
    /\ Fault
    /\ phase' = "stopped"
    /\ buffers' = Empty
    /\ pending' = Empty
    /\ UNCHANGED <<kind, fanout, next, applied, confirmed, files, signal, history, drops>>

\* A new process resumes where the slot stands.  An Iceberg table is known to the
\* in-memory catalog of its process only.
Restart ==
    /\ phase = "stopped"
    /\ restarts = 0
    /\ phase' = "streaming"
    /\ applied' = confirmed
    /\ next' = NextFrom(confirmed)
    /\ resent' = resent \cup (NextFrom(confirmed) .. next - 1)
    /\ files' = IF kind = "iceberg" THEN Empty ELSE files
    /\ signal' = FALSE
    /\ restarts' = restarts + 1
    /\ UNCHANGED <<kind, fanout, buffers, pending, confirmed, lost, faults, drops>>

-----------------------------------------------------------------------------
Init ==
    /\ kind \in Kinds
    /\ fanout \in BOOLEAN
    /\ phase = "streaming"
    /\ next = 1
    /\ applied = 0
    /\ confirmed = 0
    /\ buffers = Empty
    /\ pending = Empty
    /\ files = Empty
    /\ signal = FALSE
    /\ lost = {}
    /\ resent = {}
    /\ restarts = 0
    /\ faults = 0
    /\ drops = 0

Next ==
    \/ \E elapsed \in BOOLEAN : Send(elapsed)
    \/ \E t \in Tables : WriteTable(t) \/ CommitRefused(t)
    \/ WriteFails
    \/ Confirm
    \/ Drop
    \/ Signal
    \/ Close
    \/ Stop
    \/ Kill
    \/ Restart

Spec == Init /\ [][Next]_vars

\* A flush is ordinary code that runs to its end, and so is the end of the run.
Fairness == WF_vars(\E t \in Tables : WriteTable(t)) /\ WF_vars(Close) /\ WF_vars(Stop)

FairSpec == Spec /\ Fairness

-----------------------------------------------------------------------------
(* Properties *)

\* The rows of table t a process has: in files, in the flush under way, in memory.
Rows(t) == files[t] \o pending[t] \o buffers[t]

\* Every variable keeps its type, buffers hold only rows of their table, and a
\* flush has something to write.
TypeOK ==
    /\ kind \in Kinds
    /\ fanout \in BOOLEAN
    /\ phase \in {"streaming", "flushing", "closing", "stopped"}
    /\ next \in 1 .. Len(Stream) + 1
    /\ applied \in 0 .. Len(Stream)
    /\ confirmed \in 0 .. Len(Stream)
    /\ \A t \in Tables : InSeq(Rows(t)) \subseteq RowsOf(t)
    /\ phase = "flushing" => pending # Empty /\ buffers = Empty
    /\ signal \in BOOLEAN
    /\ lost \subseteq Events
    /\ resent \subseteq Events
    /\ restarts \in 0 .. 1
    /\ faults \in 0 .. MaxFaults
    /\ drops \in 0 .. MaxDrops

\* The sink alone and no failure: every row the stream delivered is in a file, in
\* the flush under way or in memory, and the end of the run leaves none in memory.
\* (Iceberg: as long as the process lives and no commit is refused.)
Accounted ==
    ~fanout /\ faults = 0 /\ (kind = "parquet" \/ (restarts = 0 /\ lost = {})) =>
        \A t \in Tables :
          /\ \A e \in RowsOf(t) : e < next => e \in InSeq(Rows(t))
          /\ phase = "stopped" => Rows(t) = files[t]

\* However flushes fail, the rows of a table keep the order of the stream and no
\* row is written twice, except what the stream itself delivered again.
InOrder ==
    \A t \in Tables : LET s == Rows(t) IN
        \A j, k \in DOMAIN s : j < k /\ s[j] >= s[k] => s[k] \in resent

\* The rows the slot has let go that are in no file and in no failed flush: what a
\* kill would lose is at most max_rows rows of each table.
AtRisk(t) ==
    {e \in RowsOf(t) : e <= confirmed /\ e \notin InSeq(files[t]) \cup lost}
RiskBounded ==
    restarts = 0 /\ phase \in {"streaming", "flushing"} =>
        \A t \in Tables : Cardinality(AtRisk(t)) < MaxRows

\* The signal ends the run, behind the flush under way and the last flush, failed
\* or not.
SignalStops == signal ~> phase = "stopped"
=============================================================================
