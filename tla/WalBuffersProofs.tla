---------------------------- MODULE WalBuffersProofs ----------------------------
(***************************************************************************)
(* Proofs about WalBuffers: the file sinks lose no row while nothing       *)
(* fails, keep the order of the stream, and what a kill would lose stays   *)
(* below max_rows for each table.                                          *)
(***************************************************************************)
EXTENDS WalBuffers, FiniteSetTheorems, TLAPS

-----------------------------------------------------------------------------
(* The inductive invariant *)

\* The rows of table t a process has, wherever they are.
Here(t) == InSeq(files[t]) \cup InSeq(pending[t]) \cup InSeq(buffers[t])

Types ==
    /\ kind \in Kinds
    /\ phase \in {"streaming", "flushing", "closing", "stopped"}
    /\ next \in 1 .. Len(Stream) + 1
    /\ applied \in 0 .. Len(Stream)
    /\ confirmed \in 0 .. Len(Stream)
    /\ buffers \in [Tables -> Seq(Events)]
    /\ pending \in [Tables -> Seq(Events)]
    /\ files \in [Tables -> Seq(Events)]
    /\ restarts \in Nat
    /\ faults \in Nat
    /\ lost \subseteq Events

\* What each phase has in memory, and that the slot stays behind the process.
Phases ==
    /\ phase = "streaming" => pending = Empty /\ \A t \in Tables : Len(buffers[t]) < MaxRows
    /\ phase = "flushing" => pending # Empty
    /\ phase # "streaming" => buffers = Empty
    /\ phase = "stopped" => pending = Empty
    /\ confirmed <= applied

\* The stream has passed every row it delivered, or delivers it again.
Repeats == \A t \in Tables : \A e \in Here(t) : \A n \in next .. e : n \in resent

\* The order of the rows within a part of Rows(t), and from one part to another:
\* rows of R aside, they come in the order of the stream.
Ordered(s, R) == \A j, k \in DOMAIN s : j < k /\ s[j] >= s[k] => s[k] \in R
Behind(s, u, R) == \A j \in DOMAIN s, k \in DOMAIN u : s[j] >= u[k] => u[k] \in R
InStreamOrder(f, p, b, R) ==
    /\ Ordered(f, R) /\ Ordered(p, R) /\ Ordered(b, R)
    /\ Behind(f, p, R) /\ Behind(f, b, R) /\ Behind(p, b, R)
PartsInOrder ==
    \A t \in Tables : InStreamOrder(files[t], pending[t], buffers[t], resent)

\* The events the process has behind it: read, or answered before a reconnect.
Past(e) == e < next \/ e <= applied

Sound == ~fanout /\ faults = 0 /\ (kind = "parquet" \/ (restarts = 0 /\ lost = {}))
PastHere == Sound => \A t \in Tables : \A e \in RowsOf(t) : Past(e) => e \in Here(t)

\* However flushes fail: the first process has each row it read, or counts it lost,
\* and what it answered but has in no file is less than a full buffer.  (Between
\* flushes the buffers alone show it.)
Alive == restarts = 0 /\ phase \in {"streaming", "flushing"}
PastKnown ==
    Alive => \A t \in Tables : \A e \in RowsOf(t) : Past(e) => e \in Here(t) \cup lost
Unsafe(t) == {e \in RowsOf(t) : e <= applied /\ e \notin InSeq(files[t]) \cup lost}
UnsafeBounded ==
    restarts = 0 /\ phase = "flushing" => \A t \in Tables : Cardinality(Unsafe(t)) < MaxRows

IInv == /\ Types /\ Phases /\ Repeats /\ PartsInOrder
        /\ PastHere /\ PastKnown /\ UnsafeBounded

-----------------------------------------------------------------------------
(* Numbers, and the resume position *)

\* A set of natural numbers that is not empty has a least element.
LEMMA LeastNat ==
    ASSUME NEW T, T \subseteq Nat, T # {}
    PROVE  \E x \in T : \A y \in T : x <= y
  <1> DEFINE R == OpToRel(<, Nat)
  <1>1. IsWellFoundedOn(R, Nat)
    BY NatLessThanWellFounded
  <1>2. \A x, y \in Nat : y < x => <<y, x>> \in R
    BY DEF OpToRel
  <1> HIDE DEF R
  <1>3. PICK x \in T : \A y \in T : ~ (<<y, x>> \in R)
    BY <1>1, WFMin, Zenon
  <1>4. \A y \in T : ~ (y < x)
    BY <1>2, <1>3, Zenon
  <1>5. \A y \in T : y \in Nat /\ x \in Nat
    OBVIOUS
  <1> QED
    BY <1>4, <1>5

\* One that is bounded has a greatest.
LEMMA GreatestNat ==
    ASSUME NEW T, T \subseteq Nat, T # {}, NEW n \in Nat, \A x \in T : x <= n
    PROVE  \E x \in T : \A y \in T : y <= x
  <1> DEFINE U == {m \in Nat : \E x \in T : m = n - x}
  <1>1. \A x \in T : n - x \in U
    OBVIOUS
  <1>2. U \subseteq Nat /\ U # {}
    BY <1>1
  <1>3. PICK m \in U : \A k \in U : m <= k
    BY <1>2, LeastNat
  <1>4. PICK x \in T : m = n - x
    OBVIOUS
  <1>5. \A y \in T : n - x <= n - y
    BY <1>1, <1>3, <1>4
  <1>6. \A y \in T : y \in Nat /\ x \in Nat
    OBVIOUS
  <1> QED
    BY <1>5, <1>6

\* The walsender resumes at or before the event after p.
LEMMA NextFromFacts ==
    ASSUME NEW p \in 0 .. Len(Stream)
    PROVE  NextFrom(p) \in 1 .. p + 1
  <1>0. Len(Stream) \in Nat /\ TxnStarts \subseteq 1 .. Len(Stream)
    BY BuffersAssumption
  <1>1. CASE p = Len(Stream)
    BY <1>0, <1>1 DEF NextFrom
  <1>2. CASE p # Len(Stream)
    <2> DEFINE T == {s \in TxnStarts : s <= p + 1}
    <2>1. Stream # <<>> /\ p + 1 \in Nat
      BY <1>0, <1>2
    <2>2. 1 \in T /\ T \subseteq Nat
      <3>1. 1 \in TxnStarts /\ 1 <= p + 1
        BY <2>1, BuffersAssumption
      <3>2. TxnStarts \subseteq Nat
        BY <1>0
      <3> QED
        BY <3>1, <3>2
    <2>3. \E x \in T : \A y \in T : y <= x
      BY <2>1, <2>2, GreatestNat
    <2>4. \E s \in TxnStarts : s <= p + 1 /\ \A u \in TxnStarts : u <= p + 1 => u <= s
      BY <2>3
    <2>5. NextFrom(p) \in TxnStarts /\ NextFrom(p) <= p + 1
      BY <1>2, <2>4 DEF NextFrom
    <2>6. NextFrom(p) \in 1 .. Len(Stream)
      BY <1>0, <2>5
    <2> QED
      BY <2>5, <2>6
  <1> QED
    BY <1>1, <1>2

-----------------------------------------------------------------------------
(* Rows in sequences *)

LEMMA InSeqEmpty == InSeq(<<>>) = {}
  BY DEF InSeq

\* The order survives when a part goes, or takes the place of one that was empty,
\* and when the stream delivers more again.
LEMMA OrderFacts ==
    ASSUME NEW f, NEW p, NEW b, NEW R, InStreamOrder(f, p, b, R)
    PROVE  /\ InStreamOrder(f, p, <<>>, R) /\ InStreamOrder(f, <<>>, b, R)
           /\ InStreamOrder(<<>>, p, b, R) /\ InStreamOrder(f, <<>>, <<>>, R)
           /\ InStreamOrder(f, b, <<>>, R) /\ InStreamOrder(p, <<>>, b, R)
           /\ \A S : R \subseteq S => InStreamOrder(f, p, b, S)
  <1>1. \A s : Ordered(<<>>, R) /\ Behind(<<>>, s, R) /\ Behind(s, <<>>, R)
    BY DEF Ordered, Behind
  <1>2. ASSUME NEW S, R \subseteq S PROVE InStreamOrder(f, p, b, S)
    BY <1>2 DEF InStreamOrder, Ordered, Behind
  <1> QED
    BY <1>1, <1>2 DEF InStreamOrder

LEMMA ConcatFacts ==
    ASSUME NEW S, NEW s \in Seq(S), NEW u \in Seq(S)
    PROVE  /\ s \o u \in Seq(S)
           /\ Len(s) \in Nat /\ Len(u) \in Nat
           /\ DOMAIN s = 1 .. Len(s) /\ DOMAIN u = 1 .. Len(u)
           /\ DOMAIN (s \o u) = 1 .. Len(s) + Len(u)
           /\ \A k \in DOMAIN s : (s \o u)[k] = s[k]
           /\ \A k \in DOMAIN u : (s \o u)[Len(s) + k] = u[k]
           /\ \A k \in DOMAIN (s \o u) :
                k \in DOMAIN s \/ (k - Len(s) \in DOMAIN u /\ (s \o u)[k] = u[k - Len(s)])
           /\ InSeq(s \o u) = InSeq(s) \cup InSeq(u)
  <1>1. /\ s \o u \in Seq(S)
        /\ Len(s) \in Nat /\ Len(u) \in Nat
        /\ DOMAIN s = 1 .. Len(s) /\ DOMAIN u = 1 .. Len(u)
        /\ DOMAIN (s \o u) = 1 .. Len(s) + Len(u)
        /\ \A k \in 1 .. Len(s) : (s \o u)[k] = s[k]
        /\ \A k \in 1 .. Len(s) + Len(u) : k > Len(s) => (s \o u)[k] = u[k - Len(s)]
    OBVIOUS
  <1>2. ASSUME NEW k \in DOMAIN u
        PROVE  (s \o u)[Len(s) + k] = u[k] /\ Len(s) + k \in DOMAIN (s \o u)
    <2>1. Len(s) + k \in 1 .. Len(s) + Len(u) /\ Len(s) + k > Len(s) /\ (Len(s) + k) - Len(s) = k
      BY <1>1, <1>2
    <2> QED
      BY <1>1, <2>1
  <1>3. ASSUME NEW k \in DOMAIN (s \o u), k \notin DOMAIN s
        PROVE  k - Len(s) \in DOMAIN u /\ (s \o u)[k] = u[k - Len(s)]
    <2>1. k - Len(s) \in 1 .. Len(u) /\ k > Len(s) /\ k \in 1 .. Len(s) + Len(u)
      BY <1>1, <1>3
    <2> QED
      BY <1>1, <2>1
  <1>4. DOMAIN s \subseteq DOMAIN (s \o u)
    BY <1>1
  <1>5. \A k \in DOMAIN s : (s \o u)[k] = s[k]
    BY <1>1
  <1>6. InSeq(s \o u) = InSeq(s) \cup InSeq(u)
    <2>1. InSeq(s) \subseteq InSeq(s \o u)
      BY <1>4, <1>5 DEF InSeq
    <2>2. InSeq(u) \subseteq InSeq(s \o u)
      <3> SUFFICES ASSUME NEW k \in DOMAIN u PROVE u[k] \in InSeq(s \o u)
        BY DEF InSeq
      <3> QED
        BY <1>2 DEF InSeq
    <2>3. InSeq(s \o u) \subseteq InSeq(s) \cup InSeq(u)
      <3> SUFFICES ASSUME NEW k \in DOMAIN (s \o u) PROVE (s \o u)[k] \in InSeq(s) \cup InSeq(u)
        BY DEF InSeq
      <3> QED
        BY <1>3, <1>5 DEF InSeq
    <2> QED
      BY <2>1, <2>2, <2>3
  <1> QED
    BY <1>1, <1>2, <1>3, <1>5, <1>6

\* A concatenation is in order when its parts are and the second is behind the first.
LEMMA ConcatOrdered ==
    ASSUME NEW R, NEW s \in Seq(Nat), NEW u \in Seq(Nat),
           Ordered(s, R), Ordered(u, R), Behind(s, u, R)
    PROVE  /\ Ordered(s \o u, R)
           /\ \A v : Behind(s, v, R) /\ Behind(u, v, R) => Behind(s \o u, v, R)
  <1>1. /\ Len(s) \in Nat /\ Len(u) \in Nat
        /\ DOMAIN s = 1 .. Len(s) /\ DOMAIN u = 1 .. Len(u)
        /\ \A k \in DOMAIN s : (s \o u)[k] = s[k]
        /\ \A k \in DOMAIN (s \o u) :
                k \in DOMAIN s \/ (k - Len(s) \in DOMAIN u /\ (s \o u)[k] = u[k - Len(s)])
        /\ DOMAIN (s \o u) = 1 .. Len(s) + Len(u)
    BY ConcatFacts
  <1>2. Ordered(s \o u, R)
    <2> SUFFICES ASSUME NEW j \in DOMAIN (s \o u), NEW k \in DOMAIN (s \o u),
                        j < k, (s \o u)[j] >= (s \o u)[k]
                 PROVE  (s \o u)[k] \in R
      BY DEF Ordered
    <2>1. CASE k \in DOMAIN s
      <3>1. j \in DOMAIN s
        BY <1>1, <2>1
      <3> QED
        BY <1>1, <2>1, <3>1 DEF Ordered
    <2>2. CASE k \notin DOMAIN s /\ j \in DOMAIN s
      BY <1>1, <2>2 DEF Behind
    <2>3. CASE k \notin DOMAIN s /\ j \notin DOMAIN s
      <3>1. /\ j - Len(s) \in DOMAIN u /\ (s \o u)[j] = u[j - Len(s)]
            /\ k - Len(s) \in DOMAIN u /\ (s \o u)[k] = u[k - Len(s)]
        BY <1>1, <2>3
      <3>2. j - Len(s) < k - Len(s)
        BY <1>1
      <3> QED
        BY <3>1, <3>2 DEF Ordered
    <2> QED
      BY <2>1, <2>2, <2>3
  <1>3. ASSUME NEW v, Behind(s, v, R), Behind(u, v, R) PROVE Behind(s \o u, v, R)
    BY <1>1, <1>3 DEF Behind
  <1> QED
    BY <1>2, <1>3

\* A sequence has at most as many elements as places.
LEMMA InSeqCard ==
    ASSUME NEW S, NEW s \in Seq(S)
    PROVE  IsFiniteSet(InSeq(s)) /\ Cardinality(InSeq(s)) <= Len(s)
  <1>1. /\ Len(s) \in Nat /\ DOMAIN s = 1 .. Len(s) /\ s \in [1 .. Len(s) -> InSeq(s)]
        /\ \A x \in InSeq(s) : \E k \in 1 .. Len(s) : s[k] = x
    BY DEF InSeq
  <1>2. s \in Surjection(1 .. Len(s), InSeq(s))
    BY <1>1 DEF Surjection
  <1>3. IsFiniteSet(1 .. Len(s)) /\ Cardinality(1 .. Len(s)) = Len(s)
    <2>1. 1 \in Int /\ Len(s) \in Int /\ Len(s) = IF 1 > Len(s) THEN 0 ELSE Len(s) - 1 + 1
      BY <1>1
    <2> QED
      BY <2>1, FS_Interval
  <1> QED
    BY <1>2, <1>3, FS_Surjection

-----------------------------------------------------------------------------
(* Types, and what each phase has in memory *)

LEMMA StreamFacts ==
    /\ Len(Stream) \in Nat /\ Events = 1 .. Len(Stream) /\ Events \subseteq Nat
    /\ Empty \in [Tables -> Seq(Events)] /\ \A t \in Tables : Empty[t] = <<>>
    /\ \A t \in Tables : Len(Empty[t]) = 0
    /\ MaxRows \in Nat \ {0} /\ 0 < MaxRows
  BY BuffersAssumption DEF Events, Empty

LEMMA NoCard == \A S : S = {} => Cardinality(S) = 0
  BY FS_EmptySet

LEMMA EmptyUnique ==
    ASSUME NEW b \in [Tables -> Seq(Events)]
    PROVE  b = Empty <=> \A t \in Tables : b[t] = <<>>
  BY DEF Empty

\* What an event adds to the buffers.
LEMMA AccumulatedFacts ==
    ASSUME Types, next \in Events
    PROVE  /\ Accumulated(next) \in [Tables -> Seq(Events)]
           /\ \A t \in Tables :
                Accumulated(next)[t] = IF Stream[next] = t THEN Append(buffers[t], next)
                                                           ELSE buffers[t]
  <1>1. Stream[next] \in Tables \cup {NoRow} /\ NoRow \notin Tables
    BY BuffersAssumption DEF Events
  <1>2. \A t \in Tables : Append(buffers[t], next) \in Seq(Events)
    BY DEF Types
  <1> QED
    BY <1>1, <1>2 DEF Accumulated, Types

\* An answer moves the applied position up, at most to the event.
LEMMA AnswerFacts ==
    ASSUME Types, NEW e \in 0 .. Len(Stream), Answer(e)
    PROVE  /\ applied' \in 0 .. Len(Stream) /\ applied' >= applied /\ faults' \in Nat
           /\ applied' \in {applied, e}
           /\ ~fanout => applied' >= e
           /\ faults' >= faults
           /\ faults' = 0 => faults = 0
  BY StreamFacts DEF Answer, Fault, Types

LEMMA InitInvariant == Init => IInv
  <1> SUFFICES ASSUME Init PROVE IInv
    OBVIOUS
  <1>1. Types
    BY StreamFacts DEF Init, Types
  <1>e. \A t \in Tables : files[t] = <<>> /\ pending[t] = <<>> /\ buffers[t] = <<>>
    BY StreamFacts DEF Init
  <1>h. \A t \in Tables : Here(t) = {}
    BY <1>e, InSeqEmpty DEF Here
  <1>n. \A t \in Tables : \A e \in RowsOf(t) : ~Past(e)
    BY StreamFacts DEF Init, RowsOf, Past
  <1>2. Phases
    BY <1>e, StreamFacts DEF Init, Phases
  <1>3. Repeats
    BY <1>h DEF Repeats
  <1>4. PartsInOrder
    BY <1>e DEF PartsInOrder, InStreamOrder, Ordered, Behind
  <1>5. PastHere /\ PastKnown
    BY <1>n DEF PastHere, PastKnown
  <1>6. UnsafeBounded
    BY DEF Init, UnsafeBounded
  <1> QED
    BY <1>1, <1>2, <1>3, <1>4, <1>5, <1>6 DEF IInv

LEMMA TypesKept == ASSUME Types, Phases, [Next]_vars PROVE Types'
  <1> USE StreamFacts
  <1>1. ASSUME NEW elapsed \in BOOLEAN, Send(elapsed) PROVE Types'
    <2>1. next \in Events /\ next' = next + 1
      BY <1>1 DEF Send
    <2>2. Accumulated(next) \in [Tables -> Seq(Events)]
      BY <2>1, AccumulatedFacts
    <2>3. /\ buffers' \in [Tables -> Seq(Events)] /\ pending' \in [Tables -> Seq(Events)]
          /\ phase' \in {"streaming", "flushing"}
          /\ applied' \in 0 .. Len(Stream) /\ faults' \in Nat
      <3>1. CASE Due(Accumulated(next), elapsed)
        BY <1>1, <2>2, <3>1 DEF Send, Taken, Types
      <3>2. CASE ~Due(Accumulated(next), elapsed)
        BY <1>1, <2>1, <2>2, <3>2, AnswerFacts DEF Send, Types
      <3> QED
        BY <3>1, <3>2
    <2>4. UNCHANGED <<kind, confirmed, files, lost, restarts>>
      BY <1>1 DEF Send, history
    <2> QED
      BY <2>1, <2>3, <2>4 DEF Types
  <1>2. ASSUME NEW t \in Tables, WriteTable(t) PROVE Types'
    <2>1. files' = [files EXCEPT ![t] = files[t] \o pending[t]]
          /\ pending' = [pending EXCEPT ![t] = <<>>]
      BY <1>2 DEF WriteTable, Written, Rest
    <2>2. files[t] \o pending[t] \in Seq(Events)
      BY DEF Types
    <2>3. /\ phase' \in {"streaming", phase} /\ applied' \in 0 .. Len(Stream) /\ faults' \in Nat
      <3>1. CASE phase = "flushing" /\ pending' = Empty
        <4>1. Answer(next - 1) /\ phase' = "streaming"
          BY <1>2, <3>1 DEF WriteTable
        <4>2. applied' \in 0 .. Len(Stream) /\ faults' \in Nat
          BY <4>1 DEF Answer, Fault, Types
        <4> QED
          BY <4>1, <4>2
      <3>2. CASE ~(phase = "flushing" /\ pending' = Empty)
        BY <1>2, <3>2 DEF WriteTable, Types
      <3> QED
        BY <3>1, <3>2
    <2>4. UNCHANGED <<kind, next, buffers, confirmed, lost, restarts>>
      BY <1>2 DEF WriteTable, history
    <2> QED
      BY <2>1, <2>2, <2>3, <2>4 DEF Types
  <1>3. ASSUME NEW t \in Tables, CommitRefused(t) \/ WriteFails PROVE Types'
    <2>1. /\ files' \in {files, [files EXCEPT ![t] = pending[t]]} /\ pending' = Empty
          /\ phase' \in {"streaming", "closing"} /\ faults' \in Nat
          /\ UNCHANGED <<kind, next, applied, buffers, confirmed, restarts>>
      <3>1. CASE CommitRefused(t)
        BY <3>1 DEF CommitRefused, Types
      <3>2. CASE WriteFails
        BY <3>2 DEF WriteFails, Fault, Types
      <3> QED
        BY <1>3, <3>1, <3>2
    <2>2. \A u \in Tables : InSeq(files[u]) \subseteq Events /\ InSeq(pending[u]) \subseteq Events
      <3>1. \A u \in Tables : files[u] \in Seq(Events) /\ pending[u] \in Seq(Events)
        BY DEF Types
      <3>2. \A q \in Seq(Events) : InSeq(q) \subseteq Events
        BY DEF InSeq
      <3> QED
        BY <3>1, <3>2
    <2>3. lost' \subseteq Events
      BY <1>3, <2>2 DEF CommitRefused, WriteFails, Types
    <2>4. files' \in [Tables -> Seq(Events)]
      BY <2>1 DEF Types
    <2> QED
      BY <2>1, <2>3, <2>4 DEF Types
  <1>w. CASE WriteFails
    <2>1. Tables # {}
      BY <1>w DEF WriteFails, Types, Empty
    <2> QED
      BY <1>3, <1>w, <2>1
  <1>4. CASE Drop \/ Restart
    <2>1. NextFrom(applied) \in 1 .. applied + 1 /\ NextFrom(confirmed) \in 1 .. confirmed + 1
      BY NextFromFacts DEF Types
    <2>2. next' \in 1 .. Len(Stream) + 1
      BY <1>4, <2>1 DEF Drop, Restart, Types
    <2>3. /\ applied' \in {applied, confirmed} /\ files' \in {files, Empty}
          /\ phase' = "streaming" /\ restarts' \in {restarts, restarts + 1}
          /\ UNCHANGED <<kind, buffers, pending, confirmed, lost, faults>>
      BY <1>4 DEF Drop, Restart
    <2>4. applied' \in 0 .. Len(Stream)
      BY <2>3 DEF Types
    <2>5. restarts' \in Nat
      BY <2>3 DEF Types
    <2>6. files' \in [Tables -> Seq(Events)]
      BY <2>3 DEF Types
    <2> QED
      BY <2>2, <2>3, <2>4, <2>5, <2>6 DEF Types
  <1>5. CASE Confirm \/ Signal \/ Close \/ Stop \/ UNCHANGED vars
    BY <1>5 DEF Confirm, Signal, Close, Stop, vars, memory, history, Types
  <1>6. CASE Kill
    BY <1>6 DEF Kill, Fault, history, Types
  <1> QED
    BY <1>1, <1>2, <1>3, <1>w, <1>4, <1>5, <1>6 DEF Next

LEMMA PhasesKept == ASSUME Types, Phases, [Next]_vars PROVE Phases'
  <1> USE StreamFacts
  <1>1. ASSUME NEW elapsed \in BOOLEAN, Send(elapsed) PROVE Phases'
    <2> DEFINE b == Accumulated(next)
    <2>1. next \in Events /\ b \in [Tables -> Seq(Events)] /\ phase = "streaming"
          /\ confirmed' = confirmed
      BY <1>1, AccumulatedFacts DEF Send
    <2> HIDE DEF b
    <2>2. CASE Due(b, elapsed)
      <3>1. b # Empty
        BY <2>2 DEF Due, Holding
      <3> QED
        BY <1>1, <2>1, <2>2, <3>1 DEF Send, Taken, Phases, b
    <2>3. CASE ~Due(b, elapsed)
      <3>1. \A t \in Tables : Len(b[t]) \in Nat /\ (Len(b[t]) >= MaxRows => b[t] # <<>>)
        BY <2>1
      <3>2. \A t \in Tables : Len(b[t]) < MaxRows
        BY <2>3, <3>1 DEF Due, Holding
      <3>3. /\ buffers' = b /\ UNCHANGED <<phase, pending>> /\ applied' >= applied
            /\ applied' \in 0 .. Len(Stream)
        BY <1>1, <2>1, <2>3, AnswerFacts DEF Send, b
      <3> QED
        BY <2>1, <3>2, <3>3 DEF Phases, Types
    <2> QED
      BY <2>2, <2>3
  <1>2. ASSUME NEW t \in Tables, WriteTable(t) PROVE Phases'
    <2>1. UNCHANGED <<buffers, confirmed>> /\ phase \in {"flushing", "closing"}
      BY <1>2 DEF WriteTable
    <2>2. buffers = Empty
      BY <2>1 DEF Phases
    <2>3. CASE phase = "flushing" /\ pending' = Empty
      <3>1. phase' = "streaming" /\ Answer(next - 1)
        BY <1>2, <2>3 DEF WriteTable
      <3>2. applied' >= applied /\ applied' \in Int
        BY <3>1 DEF Answer, Types
      <3> QED
        <4>1. confirmed' <= applied'
          BY <2>1, <3>2 DEF Phases, Types
        <4> QED
          BY <2>1, <2>2, <2>3, <3>1, <4>1 DEF Phases
    <2>4. CASE ~(phase = "flushing" /\ pending' = Empty)
      BY <1>2, <2>1, <2>2, <2>4 DEF WriteTable, Phases
    <2> QED
      BY <2>3, <2>4
  <1>3. CASE WriteFails \/ \E t \in Tables : CommitRefused(t)
    BY <1>3 DEF WriteFails, CommitRefused, Phases
  <1>4. CASE Confirm \/ Signal \/ Drop \/ UNCHANGED vars
    <2>1. /\ UNCHANGED <<phase, applied, buffers, pending>> /\ confirmed' \in {confirmed, applied}
      BY <1>4 DEF Confirm, Signal, Drop, vars, memory
    <2> QED
      BY <2>1 DEF Phases, Types
  <1>5. CASE Close \/ Stop \/ Kill
    BY <1>5 DEF Close, Stop, Kill, Closed, Phases
  <1>6. CASE Restart
    BY <1>6 DEF Restart, Phases, Types
  <1> QED
    BY <1>1, <1>2, <1>3, <1>4, <1>5, <1>6 DEF Next
-----------------------------------------------------------------------------
(* What each kind of step does to the rows *)

\* send_wal adds the event to the rows of its table, in memory.
LEMMA SendFacts ==
    ASSUME Types, Phases, NEW elapsed \in BOOLEAN, Send(elapsed)
    PROVE  /\ next \in Events /\ next' = next + 1 /\ phase = "streaming"
           /\ UNCHANGED <<kind, fanout, confirmed, files, lost, resent, restarts>>
           /\ \A t \in Tables : pending[t] = <<>>
           /\ \A t \in Tables :
                \/ pending'[t] = Accumulated(next)[t] /\ buffers'[t] = <<>>
                \/ pending'[t] = <<>> /\ buffers'[t] = Accumulated(next)[t]
           /\ applied' \in {applied, next} /\ faults' >= faults /\ faults' \in Nat
           /\ phase' = "flushing" => applied' = applied
           /\ phase' \in {"streaming", "flushing"}
  <1> DEFINE b == Accumulated(next)
  <1>1. /\ next \in Events /\ next' = next + 1 /\ phase = "streaming"
        /\ UNCHANGED <<kind, fanout, confirmed, files, lost, resent, restarts>>
    BY DEF Send, history
  <1>2. \A t \in Tables : pending[t] = <<>> /\ Empty[t] = <<>>
    BY <1>1, StreamFacts DEF Phases
  <1> HIDE DEF b
  <1>3. CASE Due(b, elapsed)
    <2>1. /\ pending' = b /\ buffers' = Empty /\ UNCHANGED <<applied, faults>>
          /\ phase' = "flushing"
      BY <1>3 DEF Send, Taken, b
    <2> QED
      BY <1>1, <1>2, <2>1 DEF b, Types
  <1>4. CASE ~Due(b, elapsed)
    <2>1. buffers' = b /\ Answer(next) /\ UNCHANGED <<phase, pending>>
      BY <1>4 DEF Send, b
    <2>2. next \in 0 .. Len(Stream)
      BY <1>1, StreamFacts
    <2>3. applied' \in {applied, next} /\ faults' >= faults /\ faults' \in Nat
      BY <2>1, <2>2, AnswerFacts
    <2> QED
      BY <1>1, <1>2, <2>1, <2>3 DEF b
  <1> QED
    BY <1>3, <1>4

LEMMA SendHere ==
    ASSUME Types, Phases, NEW elapsed \in BOOLEAN, Send(elapsed), NEW t \in Tables
    PROVE  Here(t)' = Here(t) \cup (IF Stream[next] = t THEN {next} ELSE {})
  <1> DEFINE b == Accumulated(next)
  <1>1. /\ next \in Events /\ files' = files /\ pending[t] = <<>>
        /\ \/ pending'[t] = b[t] /\ buffers'[t] = <<>>
           \/ pending'[t] = <<>> /\ buffers'[t] = b[t]
    BY SendFacts
  <1>2. b[t] = IF Stream[next] = t THEN Append(buffers[t], next) ELSE buffers[t]
    BY <1>1, AccumulatedFacts
  <1>3. buffers[t] \in Seq(Events) /\ <<next>> \in Seq(Events)
    BY <1>1 DEF Types
  <1>4. /\ Append(buffers[t], next) = buffers[t] \o <<next>>
        /\ InSeq(buffers[t] \o <<next>>) = InSeq(buffers[t]) \cup InSeq(<<next>>)
        /\ InSeq(<<next>>) = {next}
    <2>1. Append(buffers[t], next) = buffers[t] \o <<next>>
      BY <1>1, <1>3
    <2>2. InSeq(buffers[t] \o <<next>>) = InSeq(buffers[t]) \cup InSeq(<<next>>)
      <3>1. \A s, u \in Seq(Events) : InSeq(s \o u) = InSeq(s) \cup InSeq(u)
        BY ConcatFacts
      <3> QED
        BY <1>3, <3>1, Zenon
    <2>3. InSeq(<<next>>) = {next}
      BY DEF InSeq
    <2> QED
      BY <2>1, <2>2, <2>3
  <1>5. InSeq(b[t]) = InSeq(buffers[t]) \cup (IF Stream[next] = t THEN {next} ELSE {})
    BY <1>2, <1>4
  <1>6. Here(t)' = InSeq(files[t]) \cup InSeq(b[t])
    BY <1>1, InSeqEmpty DEF Here
  <1>7. Here(t) = InSeq(files[t]) \cup InSeq(buffers[t])
    BY <1>1, InSeqEmpty DEF Here
  <1> QED
    BY <1>5, <1>6, <1>7

\* A written table's rows move from the flush to the files.
LEMMA WriteFacts ==
    ASSUME Types, Phases, NEW t \in Tables, WriteTable(t)
    PROVE  /\ UNCHANGED <<kind, fanout, next, buffers, confirmed, lost, resent, restarts>>
           /\ files'[t] = files[t] \o pending[t] /\ pending'[t] = <<>>
           /\ \A u \in Tables : u # t => files'[u] = files[u] /\ pending'[u] = pending[u]
           /\ \A u \in Tables :
                Here(u)' = Here(u) /\ InSeq(files[u]) \subseteq InSeq(files'[u])
           /\ applied' \in {applied, next - 1} /\ faults' >= faults /\ faults' \in Nat
           /\ phase \in {"flushing", "closing"} /\ phase' \in {"streaming", phase}
           /\ phase = "closing" => phase' = "closing"
           /\ phase' = "flushing" => applied' = applied
  <1>1. /\ UNCHANGED <<kind, fanout, next, buffers, confirmed, lost, resent, restarts>>
        /\ phase \in {"flushing", "closing"}
        /\ files' = [files EXCEPT ![t] = files[t] \o pending[t]]
        /\ pending' = [pending EXCEPT ![t] = <<>>]
    BY DEF WriteTable, Written, Rest, history
  <1>2. /\ files[t] \in Seq(Events) /\ pending[t] \in Seq(Events)
        /\ files'[t] = files[t] \o pending[t] /\ pending'[t] = <<>>
        /\ \A u \in Tables : u # t => files'[u] = files[u] /\ pending'[u] = pending[u]
    BY <1>1 DEF Types
  <1>3. InSeq(files[t] \o pending[t]) = InSeq(files[t]) \cup InSeq(pending[t])
    BY <1>2, ConcatFacts
  <1>4. ASSUME NEW u \in Tables
        PROVE  Here(u)' = Here(u) /\ InSeq(files[u]) \subseteq InSeq(files'[u])
    BY <1>1, <1>2, <1>3, InSeqEmpty DEF Here
  <1>5. CASE phase = "flushing" /\ pending' = Empty
    <2>1. Answer(next - 1) /\ phase' = "streaming"
      BY <1>5 DEF WriteTable
    <2>2. next - 1 \in 0 .. Len(Stream)
      BY StreamFacts DEF Types
    <2>3. applied' \in {applied, next - 1} /\ faults' >= faults /\ faults' \in Nat
      BY <2>1, <2>2, AnswerFacts
    <2> QED
      BY <1>1, <1>2, <1>4, <1>5, <2>1, <2>3
  <1>6. CASE ~(phase = "flushing" /\ pending' = Empty)
    <2>1. UNCHANGED <<phase, applied, faults>>
      BY <1>6 DEF WriteTable
    <2>2. faults' >= faults /\ faults' \in Nat
      BY <2>1 DEF Types
    <2> QED
      BY <1>1, <1>2, <1>4, <2>1, <2>2
  <1> QED
    BY <1>5, <1>6

\* The steps that neither take an event nor write a file.
Quiet ==
    \/ WriteFails \/ \E t \in Tables : CommitRefused(t)
    \/ Confirm \/ Drop \/ Signal \/ Close \/ Stop \/ Kill \/ Restart
    \/ UNCHANGED vars

\* What none of them does: bring rows up, mix them, move ahead in the stream, or
\* lose rows without a trace.
QuietStep ==
    /\ UNCHANGED <<kind, fanout>> /\ resent \subseteq resent' /\ lost \subseteq lost'
    /\ faults' = 0 => faults = 0
    /\ restarts' = 0 => restarts = 0
    /\ \A e \in Nat : Past(e)' => Past(e)
    /\ (next' .. next - 1) \subseteq resent'
    /\ \A t \in Tables : \A R :
         InStreamOrder(files[t], pending[t], buffers[t], R)
           => InStreamOrder(files'[t], pending'[t], buffers'[t], R)
    /\ \A t \in Tables : Here(t)' \subseteq Here(t)
    /\ Sound' => \A t \in Tables : Here(t) \subseteq Here(t)'
    /\ Alive' => Alive /\ \A t \in Tables : Here(t) \subseteq Here(t)' \cup lost'
    /\ phase' = "flushing" => phase = "flushing" /\ UNCHANGED <<applied, files, lost>>

\* A step that leaves the position alone.
LEMMA SamePosition ==
    ASSUME Types, UNCHANGED <<next, applied>>
    PROVE  (\A e \in Nat : Past(e)' => Past(e)) /\ next' .. next - 1 = {}
  BY DEF Types, Past

\* One that resumes from p, which the process or the slot reached.
LEMMA ResumedPosition ==
    ASSUME Types, Phases, NEW p \in {applied, confirmed},
           applied' = p, next' = NextFrom(p),
           resent' = resent \cup (NextFrom(p) .. next - 1)
    PROVE  (\A e \in Nat : Past(e)' => Past(e)) /\ (next' .. next - 1) \subseteq resent'
  <1>1. p \in 0 .. Len(Stream) /\ p <= applied /\ applied \in Nat
    BY StreamFacts DEF Types, Phases
  <1>2. NextFrom(p) \in 1 .. p + 1
    BY <1>1, NextFromFacts
  <1>3. ASSUME NEW e \in Nat, e < NextFrom(p) \/ e <= p PROVE e <= applied
    BY <1>1, <1>2, <1>3
  <1> QED
    BY <1>3 DEF Past
LEMMA QuietFacts == ASSUME Types, Phases, Quiet PROVE QuietStep
  <1>e. \A t \in Tables : Empty[t] = <<>>
    BY StreamFacts
  <1>1. CASE WriteFails \/ \E t \in Tables : CommitRefused(t)
    <2>1. /\ UNCHANGED <<kind, fanout, next, applied, buffers, confirmed, resent, restarts>>
          /\ pending' = Empty /\ phase \in {"flushing", "closing"}
          /\ phase' \in {"streaming", "closing"}
          /\ phase = "closing" => phase' = "closing"
          /\ lost \subseteq lost'
      BY <1>1 DEF WriteFails, CommitRefused
    <2>2. faults' = 0 => faults = 0
      <3>1. faults' = faults \/ faults' = faults + 1
        BY <1>1 DEF WriteFails, CommitRefused, Fault
      <3> QED
        BY <3>1 DEF Types
    <2>3. \A t \in Tables : buffers'[t] = <<>> /\ buffers[t] = <<>> /\ pending'[t] = <<>>
      BY <1>e, <2>1 DEF Phases
    <2>4. \A t \in Tables : files'[t] = files[t] \/ files'[t] = pending[t]
      <3>1. \/ files' = files
            \/ \E t \in Tables : files' = [files EXCEPT ![t] = pending[t]]
        BY <1>1 DEF WriteFails, CommitRefused
      <3> QED
        BY <3>1 DEF Types
    <2>5. \A t \in Tables : \A R :
             InStreamOrder(files[t], pending[t], buffers[t], R)
               => InStreamOrder(files'[t], pending'[t], buffers'[t], R)
      <3> SUFFICES ASSUME NEW t \in Tables, NEW R,
                          InStreamOrder(files[t], pending[t], buffers[t], R)
                   PROVE  InStreamOrder(files'[t], pending'[t], buffers'[t], R)
        OBVIOUS
      <3>1. /\ InStreamOrder(files[t], <<>>, buffers[t], R)
            /\ InStreamOrder(pending[t], <<>>, buffers[t], R)
        BY OrderFacts
      <3> QED
        BY <2>3, <2>4, <3>1
    <2>6. \A t \in Tables : Here(t)' \subseteq Here(t)
      BY <2>3, <2>4, InSeqEmpty DEF Here
    <2>7. \A t \in Tables : Here(t) \subseteq Here(t)' \cup lost'
      <3>1. CASE WriteFails
        <4>1. /\ files' = files
              /\ lost' = lost \cup UNION {InSeq(pending[t]) : t \in Tables}
          BY <3>1 DEF WriteFails
        <4>2. \A t \in Tables : InSeq(pending[t]) \subseteq lost'
          BY <4>1
        <4> QED
          BY <2>1, <4>1, <4>2 DEF Here
      <3>2. ASSUME NEW u \in Tables, CommitRefused(u)
            PROVE  \A t \in Tables : Here(t) \subseteq Here(t)' \cup lost'
        <4>1. lost' = lost \cup InSeq(files[u]) \cup UNION {InSeq(pending[t]) : t \in Tables}
          BY <3>2 DEF CommitRefused
        <4>2. InSeq(files[u]) \subseteq lost' /\ \A t \in Tables : InSeq(pending[t]) \subseteq lost'
          BY <4>1
        <4>3. \A t \in Tables : t # u => files'[t] = files[t]
          BY <3>2 DEF CommitRefused, Types
        <4> QED
          BY <2>1, <4>2, <4>3 DEF Here
      <3> QED
        BY <1>1, <3>1, <3>2
    <2>8. ~Sound'
      <3>1. CASE WriteFails
        <4>1. faults' # 0
          BY <3>1 DEF WriteFails, Fault, Types
        <4> QED
          BY <4>1 DEF Sound
      <3>2. ASSUME NEW u \in Tables, CommitRefused(u) PROVE ~Sound'
        <4>1. /\ kind' = "iceberg" /\ InSeq(files[u]) \subseteq lost'
              /\ files[u] # <<>> /\ files[u] \in Seq(Events)
          BY <3>2 DEF CommitRefused, Types
        <4>2. files[u][1] \in InSeq(files[u])
          BY <4>1 DEF InSeq
        <4> QED
          BY <4>1, <4>2 DEF Sound
      <3> QED
        BY <1>1, <3>1, <3>2
    <2>9. /\ \A e \in Nat : Past(e)' => Past(e)
          /\ (next' .. next - 1) \subseteq resent'
      BY <2>1, SamePosition
    <2>10. Alive' => Alive
      BY <2>1 DEF Alive
    <2> QED
      BY <2>1, <2>2, <2>5, <2>6, <2>7, <2>8, <2>9, <2>10 DEF QuietStep
  <1>2. CASE Confirm \/ Signal \/ Stop \/ UNCHANGED vars
    <2>1. /\ UNCHANGED <<kind, fanout, next, applied, buffers, files, lost, resent, restarts, faults>>
          /\ phase' = "flushing" => phase = "flushing"
          /\ phase' \in {"streaming", "flushing"} => phase \in {"streaming", "flushing"}
          /\ pending' \in {pending, Empty}
          /\ pending' # pending => phase = "closing" /\ pending = Empty
      BY <1>2 DEF Confirm, Signal, Stop, Closed, vars, memory, history
    <2>2. pending' = pending
      BY <2>1
    <2>3. \A t \in Tables : Here(t)' = Here(t)
      BY <2>1, <2>2 DEF Here
    <2>4. /\ \A e \in Nat : Past(e)' => Past(e)
          /\ (next' .. next - 1) \subseteq resent'
      BY <2>1, SamePosition
    <2>5. Alive' => Alive
      BY <2>1 DEF Alive
    <2> QED
      BY <2>1, <2>2, <2>3, <2>4, <2>5 DEF QuietStep
  <1>3. CASE Close
    <2>1. /\ UNCHANGED <<kind, fanout, next, applied, files, lost, resent, restarts, faults>>
          /\ phase = "streaming" /\ phase' = "closing"
          /\ pending' = (IF fanout THEN Empty ELSE buffers) /\ buffers' = Empty
      BY <1>3 DEF Close, history
    <2>2. pending = Empty
      BY <2>1 DEF Phases
    <2>3. \A t \in Tables : /\ pending[t] = <<>> /\ buffers'[t] = <<>>
                            /\ pending'[t] = <<>> \/ pending'[t] = buffers[t]
      BY <1>e, <2>1, <2>2
    <2>4. \A t \in Tables : \A R :
             InStreamOrder(files[t], pending[t], buffers[t], R)
               => InStreamOrder(files'[t], pending'[t], buffers'[t], R)
      <3> SUFFICES ASSUME NEW t \in Tables, NEW R,
                          InStreamOrder(files[t], pending[t], buffers[t], R)
                   PROVE  InStreamOrder(files'[t], pending'[t], buffers'[t], R)
        OBVIOUS
      <3>1. /\ InStreamOrder(files[t], <<>>, <<>>, R)
            /\ InStreamOrder(files[t], buffers[t], <<>>, R)
        BY OrderFacts
      <3> QED
        BY <2>1, <2>3, <3>1
    <2>5. \A t \in Tables : Here(t)' \subseteq Here(t)
      BY <2>1, <2>3, InSeqEmpty DEF Here
    <2>6. ~fanout => \A t \in Tables : Here(t) \subseteq Here(t)'
      <3>1. ~fanout => \A t \in Tables : pending'[t] = buffers[t]
        BY <2>1
      <3> QED
        BY <2>1, <2>3, <3>1, InSeqEmpty DEF Here
    <2>7. Sound' => ~fanout
      BY <2>1 DEF Sound
    <2>8. /\ \A e \in Nat : Past(e)' => Past(e)
          /\ (next' .. next - 1) \subseteq resent'
      BY <2>1, SamePosition
    <2>9. ~Alive'
      BY <2>1 DEF Alive
    <2> QED
      BY <2>1, <2>4, <2>5, <2>6, <2>7, <2>8, <2>9 DEF QuietStep
  <1>4. CASE Kill
    <2>1. /\ UNCHANGED <<kind, fanout, next, applied, files, lost, resent, restarts>>
          /\ phase' = "stopped" /\ pending' = Empty /\ buffers' = Empty
          /\ faults' = faults + 1
      BY <1>4 DEF Kill, Fault, history
    <2>2. faults' # 0
      BY <2>1 DEF Types
    <2>3. \A t \in Tables : pending'[t] = <<>> /\ buffers'[t] = <<>>
      BY <1>e, <2>1
    <2>4. \A t \in Tables : \A R :
             InStreamOrder(files[t], pending[t], buffers[t], R)
               => InStreamOrder(files'[t], pending'[t], buffers'[t], R)
      <3> SUFFICES ASSUME NEW t \in Tables, NEW R,
                          InStreamOrder(files[t], pending[t], buffers[t], R)
                   PROVE  InStreamOrder(files'[t], pending'[t], buffers'[t], R)
        OBVIOUS
      <3>1. InStreamOrder(files[t], <<>>, <<>>, R)
        BY OrderFacts
      <3> QED
        BY <2>1, <2>3, <3>1
    <2>5. \A t \in Tables : Here(t)' \subseteq Here(t)
      BY <2>1, <2>3, InSeqEmpty DEF Here
    <2>6. /\ \A e \in Nat : Past(e)' => Past(e)
          /\ (next' .. next - 1) \subseteq resent'
      BY <2>1, SamePosition
    <2>7. ~Alive' /\ ~Sound'
      BY <2>1, <2>2 DEF Alive, Sound
    <2> QED
      BY <2>1, <2>2, <2>4, <2>5, <2>6, <2>7 DEF QuietStep
  <1>5. CASE Drop
    <2>1. /\ UNCHANGED <<kind, fanout, applied, buffers, pending, files, lost, restarts, faults>>
          /\ phase = "streaming" /\ phase' = "streaming" /\ next' = NextFrom(applied)
          /\ resent' = resent \cup (NextFrom(applied) .. next - 1)
      BY <1>5 DEF Drop
    <2>2. /\ \A e \in Nat : Past(e)' => Past(e)
          /\ (next' .. next - 1) \subseteq resent'
      BY <2>1, ResumedPosition
    <2>3. \A t \in Tables : Here(t)' = Here(t)
      BY <2>1 DEF Here
    <2>4. Alive' => Alive
      BY <2>1 DEF Alive
    <2> QED
      BY <2>1, <2>2, <2>3, <2>4 DEF QuietStep
  <1>6. CASE Restart
    <2>1. /\ UNCHANGED <<kind, fanout, buffers, pending, lost, faults>>
          /\ phase' = "streaming" /\ next' = NextFrom(confirmed) /\ applied' = confirmed
          /\ resent' = resent \cup (NextFrom(confirmed) .. next - 1)
          /\ files' = (IF kind = "iceberg" THEN Empty ELSE files)
          /\ restarts' = restarts + 1
      BY <1>6 DEF Restart
    <2>2. restarts' # 0 /\ kind \in {"iceberg", "parquet"}
      BY <2>1, BuffersAssumption DEF Types
    <2>3. /\ \A e \in Nat : Past(e)' => Past(e)
          /\ (next' .. next - 1) \subseteq resent'
      BY <2>1, ResumedPosition
    <2>4. \A t \in Tables : files'[t] = <<>> \/ files'[t] = files[t]
      BY <1>e, <2>1
    <2>5. \A t \in Tables : \A R :
             InStreamOrder(files[t], pending[t], buffers[t], R)
               => InStreamOrder(files'[t], pending'[t], buffers'[t], R)
      <3> SUFFICES ASSUME NEW t \in Tables, NEW R,
                          InStreamOrder(files[t], pending[t], buffers[t], R)
                   PROVE  InStreamOrder(files'[t], pending'[t], buffers'[t], R)
        OBVIOUS
      <3>1. InStreamOrder(<<>>, pending[t], buffers[t], R)
        BY OrderFacts
      <3> QED
        BY <2>1, <2>4, <3>1
    <2>6. \A t \in Tables : Here(t)' \subseteq Here(t)
      BY <2>1, <2>4, InSeqEmpty DEF Here
    <2>7. Sound' => \A t \in Tables : Here(t) \subseteq Here(t)'
      <3>1. Sound' => files' = files
        BY <2>1, <2>2 DEF Sound
      <3> QED
        BY <2>1, <3>1 DEF Here
    <2>8. ~Alive'
      BY <2>2 DEF Alive
    <2>9. restarts' = 0 => restarts = 0
      BY <2>2
    <2> QED
      BY <2>1, <2>3, <2>5, <2>6, <2>7, <2>8, <2>9 DEF QuietStep
  <1> QED
    BY <1>1, <1>2, <1>3, <1>4, <1>5, <1>6 DEF Quiet
-----------------------------------------------------------------------------
(* Every step keeps the invariant *)

LEMMA NextKinds ==
    ASSUME [Next]_vars
    PROVE  \/ \E elapsed \in BOOLEAN : Send(elapsed)
           \/ \E t \in Tables : WriteTable(t)
           \/ Quiet
  BY DEF Next, Quiet

LEMMA HereEvents ==
    ASSUME Types, NEW t \in Tables
    PROVE  Here(t) \subseteq Events
  <1>1. \A q \in Seq(Events) : InSeq(q) \subseteq Events
    BY DEF InSeq
  <1>2. files[t] \in Seq(Events) /\ pending[t] \in Seq(Events) /\ buffers[t] \in Seq(Events)
    BY DEF Types
  <1> QED
    BY <1>1, <1>2 DEF Here

LEMMA RepeatsKept == ASSUME Types, Phases, Repeats, [Next]_vars PROVE Repeats'
  <1> SUFFICES ASSUME NEW t \in Tables, NEW e \in Here(t)', NEW n \in next' .. e
               PROVE  n \in resent'
    BY DEF Repeats
  <1>1. ASSUME NEW elapsed \in BOOLEAN, Send(elapsed) PROVE n \in resent'
    <2>1. next \in Events /\ next' = next + 1 /\ resent' = resent
      BY <1>1, SendFacts
    <2>2. e \in Here(t) \/ e = next
      BY <1>1, SendHere
    <2>3. e # next /\ e \in Here(t) => n \in next .. e
      BY <2>1, HereEvents, StreamFacts
    <2>4. e # next
      BY <2>1, StreamFacts
    <2> QED
      BY <2>1, <2>2, <2>3, <2>4 DEF Repeats
  <1>2. ASSUME NEW u \in Tables, WriteTable(u) PROVE n \in resent'
    BY <1>2, WriteFacts DEF Repeats
  <1>3. CASE Quiet
    <2>1. e \in Here(t) /\ resent \subseteq resent' /\ (next' .. next - 1) \subseteq resent'
      BY <1>3, QuietFacts DEF QuietStep
    <2>2. e \in Nat /\ next \in Nat
      BY <2>1, HereEvents, StreamFacts DEF Types
    <2>3. n \in next .. e \/ n \in next' .. next - 1
      BY <2>2
    <2> QED
      BY <2>1, <2>3 DEF Repeats
  <1> QED
    BY <1>1, <1>2, <1>3, NextKinds

\* The next event is behind every row, or it was there before.
LEMMA NextBehind ==
    ASSUME Types, Repeats, next \in Events, NEW t \in Tables
    PROVE  /\ Ordered(<<next>>, resent)
           /\ Behind(files[t], <<next>>, resent) /\ Behind(pending[t], <<next>>, resent)
           /\ Behind(buffers[t], <<next>>, resent)
  <1>1. \A e \in Here(t) : e >= next => next \in resent
    <2> SUFFICES ASSUME NEW e \in Here(t), e >= next PROVE next \in resent
      OBVIOUS
    <2>1. e \in Nat /\ next \in Nat
      BY HereEvents, StreamFacts
    <2>2. next \in next .. e
      BY <2>1
    <2> QED
      BY <2>2 DEF Repeats
  <1>2. DOMAIN <<next>> = {1} /\ <<next>>[1] = next
    OBVIOUS
  <1>3. Ordered(<<next>>, resent)
    BY <1>2 DEF Ordered
  <1>4. ASSUME NEW s, InSeq(s) \subseteq Here(t) PROVE Behind(s, <<next>>, resent)
    <2>1. \A k \in DOMAIN s : s[k] \in Here(t)
      BY <1>4 DEF InSeq
    <2> QED
      BY <1>1, <1>2, <2>1 DEF Behind
  <1> QED
    BY <1>3, <1>4 DEF Here

LEMMA PartsInOrderKept ==
    ASSUME Types, Phases, Repeats, PartsInOrder, [Next]_vars PROVE PartsInOrder'
  <1> SUFFICES ASSUME NEW t \in Tables
               PROVE  InStreamOrder(files'[t], pending'[t], buffers'[t], resent')
    BY DEF PartsInOrder
  <1>0. InStreamOrder(files[t], pending[t], buffers[t], resent)
    BY DEF PartsInOrder
  <1>t. /\ files[t] \in Seq(Nat) /\ pending[t] \in Seq(Nat) /\ buffers[t] \in Seq(Nat)
    <2>1. Seq(Events) \subseteq Seq(Nat)
      BY StreamFacts
    <2> QED
      BY <2>1 DEF Types
  <1>1. ASSUME NEW elapsed \in BOOLEAN, Send(elapsed)
        PROVE  InStreamOrder(files'[t], pending'[t], buffers'[t], resent')
    <2> DEFINE b == Accumulated(next)[t]
    <2>1. /\ next \in Events /\ files' = files /\ resent' = resent /\ pending[t] = <<>>
          /\ \/ pending'[t] = b /\ buffers'[t] = <<>>
             \/ pending'[t] = <<>> /\ buffers'[t] = b
      BY <1>1, SendFacts
    <2>2. b \in {buffers[t], Append(buffers[t], next)}
      BY <2>1, AccumulatedFacts
    <2> HIDE DEF b
    <2>3. InStreamOrder(files[t], <<>>, b, resent)
      <3>1. Ordered(<<next>>, resent) /\ Behind(files[t], <<next>>, resent)
            /\ Behind(buffers[t], <<next>>, resent)
        BY <2>1, NextBehind
      <3>2. <<next>> \in Seq(Nat) /\ Append(buffers[t], next) = buffers[t] \o <<next>>
        BY <1>t, <2>1, StreamFacts
      <3>3. /\ Ordered(files[t], resent) /\ Ordered(<<>>, resent) /\ Ordered(buffers[t], resent)
            /\ Behind(files[t], <<>>, resent) /\ Behind(files[t], buffers[t], resent)
            /\ \A s : Behind(<<>>, s, resent)
        BY <1>0, <2>1 DEF InStreamOrder, Behind
      <3>4. Ordered(buffers[t] \o <<next>>, resent)
        BY <1>t, <3>1, <3>2, <3>3, ConcatOrdered
      <3>5. Behind(files[t], buffers[t] \o <<next>>, resent)
        <4>1. /\ \A k \in DOMAIN (buffers[t] \o <<next>>) :
                   \/ k \in DOMAIN buffers[t] /\ (buffers[t] \o <<next>>)[k] = buffers[t][k]
                   \/ (buffers[t] \o <<next>>)[k] = next
          <5>1. \A s, u \in Seq(Nat) : \A k \in DOMAIN (s \o u) :
                   \/ k \in DOMAIN s /\ (s \o u)[k] = s[k]
                   \/ k - Len(s) \in DOMAIN u /\ (s \o u)[k] = u[k - Len(s)]
            BY ConcatFacts
          <5>2. \A k \in DOMAIN <<next>> : <<next>>[k] = next
            OBVIOUS
          <5> QED
            BY <1>t, <3>2, <5>1, <5>2
        <4>2. \A j \in DOMAIN files[t] : files[t][j] >= next => next \in resent
          <5>1. 1 \in DOMAIN <<next>> /\ <<next>>[1] = next
            OBVIOUS
          <5> QED
            BY <3>1, <5>1 DEF Behind
        <4> QED
          BY <3>3, <4>1, <4>2 DEF Behind
      <3> QED
        BY <2>2, <3>2, <3>3, <3>4, <3>5 DEF InStreamOrder
    <2>4. InStreamOrder(files[t], b, <<>>, resent)
      BY <2>3, OrderFacts
    <2> QED
      BY <2>1, <2>3, <2>4
  <1>2. ASSUME NEW u \in Tables, WriteTable(u)
        PROVE  InStreamOrder(files'[t], pending'[t], buffers'[t], resent')
    <2>1. /\ buffers' = buffers /\ resent' = resent
          /\ files'[u] = files[u] \o pending[u] /\ pending'[u] = <<>>
          /\ t # u => files'[t] = files[t] /\ pending'[t] = pending[t]
      BY <1>2, WriteFacts
    <2>2. InStreamOrder(files[t] \o pending[t], <<>>, buffers[t], resent)
      <3>1. /\ Ordered(files[t], resent) /\ Ordered(pending[t], resent)
            /\ Ordered(buffers[t], resent)
            /\ Behind(files[t], pending[t], resent) /\ Behind(files[t], buffers[t], resent)
            /\ Behind(pending[t], buffers[t], resent)
        BY <1>0 DEF InStreamOrder
      <3>2. /\ Ordered(files[t] \o pending[t], resent)
            /\ Behind(files[t] \o pending[t], buffers[t], resent)
        BY <1>t, <3>1, ConcatOrdered
      <3>3. Ordered(<<>>, resent) /\ \A s : Behind(s, <<>>, resent) /\ Behind(<<>>, s, resent)
        BY DEF Ordered, Behind
      <3> QED
        BY <3>1, <3>2, <3>3 DEF InStreamOrder
    <2> QED
      BY <1>0, <2>1, <2>2
  <1>3. CASE Quiet
    <2>1. resent \subseteq resent'
      BY <1>3, QuietFacts DEF QuietStep
    <2>2. InStreamOrder(files[t], pending[t], buffers[t], resent')
      BY <1>0, <2>1, OrderFacts
    <2> QED
      BY <1>3, <2>2, QuietFacts DEF QuietStep
  <1> QED
    BY <1>1, <1>2, <1>3, NextKinds

LEMMA PastHereKept == ASSUME Types, Phases, PastHere, [Next]_vars PROVE PastHere'
  <1> SUFFICES ASSUME Sound', NEW t \in Tables, NEW e \in RowsOf(t), Past(e)'
               PROVE  e \in Here(t)'
    BY DEF PastHere, RowsOf, Events
  <1>e. e \in Nat /\ Stream[e] = t
    BY StreamFacts DEF RowsOf
  <1>1. ASSUME NEW elapsed \in BOOLEAN, Send(elapsed) PROVE e \in Here(t)'
    <2>1. /\ next \in Nat /\ next' = next + 1 /\ applied' \in {applied, next}
          /\ faults' = 0 => faults = 0
          /\ UNCHANGED <<kind, fanout, lost, restarts>>
      <3>1. faults' >= faults /\ faults \in Nat
        BY <1>1, SendFacts DEF Types
      <3> QED
        BY <1>1, <3>1, SendFacts, StreamFacts
    <2>2. Sound
      BY <2>1 DEF Sound
    <2>3. e = next \/ Past(e)
      BY <1>e, <2>1 DEF Past, Types
    <2>4. e = next \/ e \in Here(t)
      BY <2>2, <2>3 DEF PastHere
    <2> QED
      BY <1>e, <1>1, <2>4, SendHere
  <1>2. ASSUME NEW u \in Tables, WriteTable(u) PROVE e \in Here(t)'
    <2>1. /\ next' = next /\ applied' \in {applied, next - 1}
          /\ faults' = 0 => faults = 0
          /\ UNCHANGED <<kind, fanout, lost, restarts>>
          /\ Here(t)' = Here(t)
      <3>1. faults' >= faults /\ faults' \in Nat /\ faults \in Nat
        BY <1>2, WriteFacts DEF Types
      <3>2. faults' = 0 => faults = 0
        BY <3>1
      <3>3. next' = next /\ applied' \in {applied, next - 1} /\ Here(t)' = Here(t)
        BY <1>2, WriteFacts
      <3>4. UNCHANGED <<kind, fanout, lost, restarts>>
        BY <1>2, WriteFacts
      <3> QED
        BY <3>2, <3>3, <3>4
    <2>2. Sound
      BY <2>1 DEF Sound
    <2>3. Past(e)
      BY <1>e, <2>1 DEF Past, Types
    <2> QED
      BY <2>1, <2>2, <2>3 DEF PastHere
  <1>3. CASE Quiet
    <2>1. Past(e) /\ Here(t) \subseteq Here(t)'
      BY <1>e, <1>3, QuietFacts DEF QuietStep
    <2>2. /\ UNCHANGED <<kind, fanout>> /\ lost \subseteq lost'
          /\ faults' = 0 => faults = 0
          /\ restarts' = 0 => restarts = 0
      BY <1>3, QuietFacts DEF QuietStep
    <2>3. Sound
      BY <2>2 DEF Sound
    <2> QED
      BY <2>1, <2>3 DEF PastHere
  <1> QED
    BY <1>1, <1>2, <1>3, NextKinds

LEMMA PastKnownKept == ASSUME Types, Phases, PastKnown, [Next]_vars PROVE PastKnown'
  <1> SUFFICES ASSUME Alive', NEW t \in Tables, NEW e \in RowsOf(t), Past(e)'
               PROVE  e \in Here(t)' \cup lost'
    BY DEF PastKnown, RowsOf, Events
  <1>e. e \in Nat /\ Stream[e] = t
    BY StreamFacts DEF RowsOf
  <1>1. ASSUME NEW elapsed \in BOOLEAN, Send(elapsed) PROVE e \in Here(t)' \cup lost'
    <2>1. /\ next \in Nat /\ next' = next + 1 /\ applied' \in {applied, next}
          /\ UNCHANGED <<lost, restarts>> /\ phase = "streaming"
      BY <1>1, SendFacts, StreamFacts
    <2>2. Alive
      BY <2>1 DEF Alive
    <2>3. e = next \/ Past(e)
      BY <1>e, <2>1 DEF Past, Types
    <2>4. e = next \/ e \in Here(t) \cup lost
      BY <2>2, <2>3 DEF PastKnown
    <2> QED
      BY <1>e, <1>1, <2>1, <2>4, SendHere
  <1>2. ASSUME NEW u \in Tables, WriteTable(u) PROVE e \in Here(t)' \cup lost'
    <2>1. /\ next' = next /\ applied' \in {applied, next - 1}
          /\ UNCHANGED <<lost, restarts>>
          /\ Here(t)' = Here(t)
          /\ phase = "closing" => phase' = "closing"
          /\ phase \in {"flushing", "closing"}
      BY <1>2, WriteFacts
    <2>2. Alive
      BY <2>1 DEF Alive
    <2>3. Past(e)
      BY <1>e, <2>1 DEF Past, Types
    <2> QED
      BY <2>1, <2>2, <2>3 DEF PastKnown
  <1>3. CASE Quiet
    <2>1. Past(e) /\ Alive /\ Here(t) \subseteq Here(t)' \cup lost' /\ lost \subseteq lost'
      BY <1>e, <1>3, QuietFacts DEF QuietStep
    <2> QED
      BY <2>1 DEF PastKnown
  <1> QED
    BY <1>1, <1>2, <1>3, NextKinds
\* Between flushes, what the process answered and no file has is in the buffers.
LEMMA StreamingBound ==
    ASSUME Types, Phases, PastKnown, restarts = 0, phase = "streaming", NEW t \in Tables
    PROVE  Cardinality(Unsafe(t)) < MaxRows
  <1>1. pending[t] = <<>> /\ Len(buffers[t]) < MaxRows /\ buffers[t] \in Seq(Events)
    BY StreamFacts DEF Phases, Types
  <1>2. Unsafe(t) \subseteq InSeq(buffers[t])
    <2> SUFFICES ASSUME NEW e \in Unsafe(t) PROVE e \in InSeq(buffers[t])
      OBVIOUS
    <2>1. e \in RowsOf(t) /\ Past(e) /\ e \notin InSeq(files[t]) \cup lost
      BY DEF Unsafe, Past
    <2>2. e \in Here(t)
      BY <2>1 DEF PastKnown, Alive
    <2> QED
      BY <1>1, <2>1, <2>2, InSeqEmpty DEF Here
  <1>3. IsFiniteSet(InSeq(buffers[t])) /\ Cardinality(InSeq(buffers[t])) <= Len(buffers[t])
    BY <1>1, InSeqCard
  <1>4. /\ IsFiniteSet(Unsafe(t))
        /\ Cardinality(Unsafe(t)) <= Cardinality(InSeq(buffers[t]))
    BY <1>2, <1>3, FS_Subset
  <1>5. Cardinality(Unsafe(t)) \in Nat /\ Cardinality(InSeq(buffers[t])) \in Nat
    BY <1>3, <1>4, FS_CardinalityType
  <1>6. Len(buffers[t]) \in Nat /\ MaxRows \in Nat
    BY <1>1, StreamFacts
  <1> QED
    BY <1>1, <1>3, <1>4, <1>5, <1>6

\* A subset of the rows of a table is no larger.
LEMMA RowsCard ==
    ASSUME NEW t \in Tables, NEW A, A \subseteq RowsOf(t), NEW B, B \subseteq A
    PROVE  Cardinality(B) <= Cardinality(A) /\ Cardinality(A) \in Nat /\ Cardinality(B) \in Nat
  <1>1. IsFiniteSet(Events)
    BY FS_Interval, StreamFacts
  <1>2. A \subseteq Events
    BY DEF RowsOf
  <1>3. IsFiniteSet(A)
    BY <1>1, <1>2, FS_Subset
  <1>4. IsFiniteSet(B) /\ Cardinality(B) <= Cardinality(A)
    BY <1>3, FS_Subset
  <1> QED
    BY <1>3, <1>4, FS_CardinalityType

LEMMA UnsafeBoundedKept ==
    ASSUME Types, Phases, PastKnown, UnsafeBounded, [Next]_vars PROVE UnsafeBounded'
  <1> SUFFICES ASSUME restarts' = 0, phase' = "flushing", NEW t \in Tables
               PROVE  Cardinality(Unsafe(t)') < MaxRows
    BY DEF UnsafeBounded
  <1>1. ASSUME NEW elapsed \in BOOLEAN, Send(elapsed)
        PROVE  Cardinality(Unsafe(t)') < MaxRows
    <2>1. UNCHANGED <<applied, files, lost, restarts>> /\ phase = "streaming"
      BY <1>1, SendFacts
    <2>2. Unsafe(t)' = Unsafe(t)
      BY <2>1 DEF Unsafe
    <2>3. Cardinality(Unsafe(t)) < MaxRows
      BY <2>1, StreamingBound
    <2> QED
      BY <2>2, <2>3
  <1>2. ASSUME phase = "flushing", restarts = 0, applied' = applied,
               InSeq(files[t]) \subseteq InSeq(files'[t]), lost \subseteq lost'
        PROVE  Cardinality(Unsafe(t)') < MaxRows
    <2>1. Unsafe(t)' \subseteq Unsafe(t) /\ Unsafe(t) \subseteq RowsOf(t)
      BY <1>2 DEF Unsafe
    <2>2. /\ Cardinality(Unsafe(t)') <= Cardinality(Unsafe(t))
          /\ Cardinality(Unsafe(t)) \in Nat /\ Cardinality(Unsafe(t)') \in Nat
      BY <2>1, RowsCard
    <2>3. Cardinality(Unsafe(t)) < MaxRows
      BY <1>2 DEF UnsafeBounded
    <2> QED
      BY <2>2, <2>3, StreamFacts
  <1>3. ASSUME NEW u \in Tables, WriteTable(u) PROVE Cardinality(Unsafe(t)') < MaxRows
    <2>1. /\ applied' = applied /\ lost' = lost /\ restarts' = restarts
          /\ phase = "flushing"
      BY <1>3, WriteFacts
    <2>2. InSeq(files[t]) \subseteq InSeq(files'[t])
      BY <1>3, WriteFacts
    <2> QED
      BY <1>2, <2>1, <2>2
  <1>4. CASE Quiet
    <2>1. /\ phase = "flushing" /\ UNCHANGED <<applied, files, lost>> /\ restarts = 0
      BY <1>4, QuietFacts DEF QuietStep
    <2> QED
      BY <1>2, <2>1
  <1> QED
    BY <1>1, <1>3, <1>4, NextKinds

-----------------------------------------------------------------------------
(* Theorems *)

\* The inductive invariant holds throughout: types, what each phase has in memory,
\* the order of the rows from the files to the buffers, and which rows are where.
THEOREM BuffersInvariant == Spec => []IInv
  <1>1. Init => IInv
    BY InitInvariant
  <1>2. IInv /\ [Next]_vars => IInv'
    <2> SUFFICES ASSUME IInv, [Next]_vars PROVE IInv'
      OBVIOUS
    <2>1. /\ Types /\ Phases /\ Repeats /\ PartsInOrder
          /\ PastHere /\ PastKnown /\ UnsafeBounded
      BY DEF IInv
    <2>2. Types' /\ Phases' /\ Repeats' /\ PartsInOrder'
      BY <2>1, TypesKept, PhasesKept, RepeatsKept, PartsInOrderKept
    <2>3. PastHere' /\ PastKnown' /\ UnsafeBounded'
      BY <2>1, PastHereKept, PastKnownKept, UnsafeBoundedKept
    <2> QED
      BY <2>2, <2>3 DEF IInv
  <1> QED
    BY <1>1, <1>2, PTL DEF Spec

\* The rows of a table are those of its files, its flush and its buffer.
LEMMA RowsFacts ==
    ASSUME Types, NEW t \in Tables
    PROVE  /\ files[t] \o pending[t] \in Seq(Events)
           /\ InSeq(Rows(t)) = Here(t)
  <1>1. files[t] \in Seq(Events) /\ pending[t] \in Seq(Events) /\ buffers[t] \in Seq(Events)
    BY DEF Types
  <1>2. \A s, u \in Seq(Events) :
          s \o u \in Seq(Events) /\ InSeq(s \o u) = InSeq(s) \cup InSeq(u)
    BY ConcatFacts
  <1>3. files[t] \o pending[t] \in Seq(Events)
    BY <1>1, <1>2
  <1>4. InSeq((files[t] \o pending[t]) \o buffers[t])
          = (InSeq(files[t]) \cup InSeq(pending[t])) \cup InSeq(buffers[t])
    BY <1>1, <1>2, <1>3
  <1> QED
    BY <1>3, <1>4 DEF Rows, Here

\* With the sink alone and no failure no row that the stream delivered is
\* missing, and a run that has ended leaves none in memory (flush at the end of
\* `run`, and the std::mem::take of each flush).
THEOREM BuffersLoseNothing == Spec => []Accounted
  <1>1. IInv => Accounted
    <2> SUFFICES ASSUME IInv, Sound, NEW t \in Tables
                 PROVE  /\ \A e \in RowsOf(t) : e < next => e \in InSeq(Rows(t))
                        /\ phase = "stopped" => Rows(t) = files[t]
      BY DEF Accounted, Sound
    <2>1. Types /\ Phases /\ PastHere
      BY DEF IInv
    <2>2. \A e \in RowsOf(t) : e < next => e \in InSeq(Rows(t))
      BY <2>1, RowsFacts DEF PastHere, Past
    <2>3. ASSUME phase = "stopped" PROVE Rows(t) = files[t]
      <3>1. pending[t] = <<>> /\ buffers[t] = <<>>
        BY <2>1, <2>3, StreamFacts DEF Phases
      <3>2. files[t] \in Seq(Events) /\ files[t] \o <<>> = files[t]
        BY <2>1 DEF Types
      <3> QED
        BY <3>1, <3>2 DEF Rows
    <2> QED
      BY <2>2, <2>3
  <1> QED
    BY <1>1, BuffersInvariant, PTL

\* Whatever fails, the rows of a table keep the order of the stream from the first
\* file to the buffer, and none is there twice that the stream did not resend.
THEOREM BuffersInOrder == Spec => []InOrder
  <1>1. IInv => InOrder
    <2> SUFFICES ASSUME IInv, NEW t \in Tables PROVE Ordered(Rows(t), resent)
      BY DEF InOrder, Ordered
    <2>1. /\ Types /\ InStreamOrder(files[t], pending[t], buffers[t], resent)
      BY DEF IInv, PartsInOrder
    <2>2. /\ files[t] \in Seq(Nat) /\ pending[t] \in Seq(Nat) /\ buffers[t] \in Seq(Nat)
          /\ files[t] \o pending[t] \in Seq(Nat)
      <3>1. Seq(Events) \subseteq Seq(Nat)
        BY StreamFacts
      <3> QED
        BY <2>1, <3>1, RowsFacts DEF Types
    <2>3. /\ Ordered(files[t] \o pending[t], resent)
          /\ Behind(files[t] \o pending[t], buffers[t], resent)
      BY <2>1, <2>2, ConcatOrdered DEF InStreamOrder
    <2>4. Ordered((files[t] \o pending[t]) \o buffers[t], resent)
      BY <2>1, <2>2, <2>3, ConcatOrdered DEF InStreamOrder
    <2> QED
      BY <2>4 DEF Rows
  <1> QED
    BY <1>1, BuffersInvariant, PTL

\* The slot may pass rows that are in memory only, but fewer than max_rows of each
\* table: that much, and no more, is lost with the process.
THEOREM BuffersRiskBounded == Spec => []RiskBounded
  <1>1. IInv => RiskBounded
    <2> SUFFICES ASSUME IInv, restarts = 0, phase \in {"streaming", "flushing"},
                        NEW t \in Tables
                 PROVE  Cardinality(AtRisk(t)) < MaxRows
      BY DEF RiskBounded
    <2>1. Types /\ Phases /\ PastKnown /\ UnsafeBounded
      BY DEF IInv
    <2>2. AtRisk(t) \subseteq Unsafe(t) /\ Unsafe(t) \subseteq RowsOf(t)
      <3>1. \A e \in RowsOf(t) : e <= confirmed => e <= applied
        BY <2>1, StreamFacts DEF RowsOf, Types, Phases
      <3> QED
        BY <3>1 DEF AtRisk, Unsafe
    <2>3. Cardinality(Unsafe(t)) < MaxRows
      BY <2>1, StreamingBound DEF UnsafeBounded
    <2>4. /\ Cardinality(AtRisk(t)) <= Cardinality(Unsafe(t))
          /\ Cardinality(Unsafe(t)) \in Nat /\ Cardinality(AtRisk(t)) \in Nat
      BY <2>2, RowsCard
    <2> QED
      BY <2>3, <2>4, StreamFacts
  <1> QED
    BY <1>1, BuffersInvariant, PTL
=============================================================================
