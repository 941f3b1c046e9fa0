---------------------------- MODULE DataLoaderProofs ----------------------------
(***************************************************************************)
(* What holds of the data loader for any keys, any parents, any number of  *)
(* overlapping loads and writes, and any ttl.                              *)
(***************************************************************************)
EXTENDS DataLoader, SequenceTheorems, TLAPS

-----------------------------------------------------------------------------
(* Types *)

State == [children : [Keys -> Nat], since : Nat]

\* The database had a state from the start, and has one now.
LEMMA PastTypes ==
    ASSUME TypeOK
    PROVE  /\ past \in Seq(State)
           /\ Len(past) \in Nat \ {0}
           /\ Len(past) \in DOMAIN past
           /\ DOMAIN past = 1 .. Len(past)
           /\ \A i \in DOMAIN past : past[i].children \in [Keys -> Nat] /\ past[i].since \in 0 .. now
           /\ db \in [Keys -> Nat]
           /\ now \in Nat
  <1>1. now \in Nat
    BY LoaderAssumption DEF TypeOK
  <1>2. past \in Seq([children : [Keys -> Nat], since : 0 .. now]) /\ past # <<>>
    BY DEF TypeOK
  <1>3. Len(past) \in Nat \ {0} /\ DOMAIN past = 1 .. Len(past) /\ Len(past) \in DOMAIN past
    BY <1>2
  <1>4. \A i \in DOMAIN past : past[i] \in [children : [Keys -> Nat], since : 0 .. now]
    BY <1>2, <1>3, ElementOfSeq
  <1>5. [children : [Keys -> Nat], since : 0 .. now] \subseteq State
    BY <1>1 DEF State
  <1>6. past \in Seq(State)
    BY <1>2, <1>5, SeqMonotonic
  <1> QED
    BY <1>1, <1>3, <1>4, <1>6 DEF db

\* The parents of a load are rows with a key, or without.
LEMMA ParentsTyped ==
    ASSUME NEW parents \in Parents \cup {<<>>}
    PROVE  parents \in Seq(Keys \cup {Absent}) /\ unique_keys(parents) \subseteq Keys
  <1>1. parents \in Seq(Keys \cup {Absent})
    <2>1. <<>> \in Seq(Keys \cup {Absent})
      OBVIOUS
    <2>2. CASE parents \in Parents
      BY <2>2, LoaderAssumption
    <2> QED
      BY <2>1, <2>2
  <1>2. \A p \in DOMAIN parents : parents[p] \in Keys \cup {Absent}
    BY <1>1
  <1> QED
    BY <1>1, <1>2 DEF unique_keys, Range

\* The record of a load.
LEMMA LoadShape ==
    ASSUME TypeOK, NEW l \in Loads
    PROVE  /\ loader[l] = Load(loader[l].phase, loader[l].parents, loader[l].cached, loader[l].at)
           /\ loader[l].phase \in {"idle", "querying", "answered", "resolved", "failed"}
           /\ loader[l].parents \in Parents \cup {<<>>}
           /\ DOMAIN loader[l].cached \subseteq unique_keys(loader[l].parents)
           /\ loader[l].at \in 0 .. now
           /\ loader[l].at \in Nat
           /\ unique_keys(loader[l].parents) \subseteq Keys
  <1>1. loader = [m \in Loads |-> Load(loader[m].phase, loader[m].parents,
                                      loader[m].cached, loader[m].at)]
    BY DEF TypeOK
  <1>2. loader[l] = Load(loader[l].phase, loader[l].parents, loader[l].cached, loader[l].at)
    BY <1>1
  <1>3. /\ loader[l].phase \in {"idle", "querying", "answered", "resolved", "failed"}
        /\ loader[l].parents \in Parents \cup {<<>>}
        /\ DOMAIN loader[l].cached \subseteq unique_keys(loader[l].parents)
        /\ loader[l].at \in 0 .. now
    BY DEF TypeOK
  <1>4. loader[l].at \in Nat
    BY <1>3, PastTypes
  <1> QED
    BY <1>2, <1>3, <1>4, ParentsTyped

\* What a step makes of one load.
LoadStep(l, phase, parents, cached, at) ==
    loader' = [loader EXCEPT ![l] = Load(phase, parents, cached, at)]

\* A step of one load gives it a new record and leaves the others alone.
LEMMA LoadChanges ==
    ASSUME TypeOK, NEW l \in Loads, NEW phase, NEW parents, NEW cached, NEW at,
           LoadStep(l, phase, parents, cached, at)
    PROVE  /\ loader'[l].phase = phase
           /\ loader'[l].parents = parents
           /\ loader'[l].cached = cached
           /\ loader'[l].at = at
           /\ \A m \in Loads : m # l => loader'[m] = loader[m]
           /\ loader' = [m \in Loads |-> Load(loader'[m].phase, loader'[m].parents,
                                              loader'[m].cached, loader'[m].at)]
  <1>1. loader = [m \in Loads |-> Load(loader[m].phase, loader[m].parents,
                                      loader[m].cached, loader[m].at)]
    BY DEF TypeOK
  <1>2. DOMAIN loader = Loads
    BY <1>1
  <1>3. loader' = [m \in Loads |-> IF m = l THEN Load(phase, parents, cached, at) ELSE loader[m]]
    BY <1>2 DEF LoadStep
  <1>4. loader'[l] = Load(phase, parents, cached, at)
    BY <1>3
  <1>5. \A m \in Loads : m # l => loader'[m] = loader[m]
    BY <1>3
  <1>6. \A m \in Loads :
          loader'[m] = Load(loader'[m].phase, loader'[m].parents, loader'[m].cached, loader'[m].at)
    <2>1. loader'[l] = Load(loader'[l].phase, loader'[l].parents, loader'[l].cached, loader'[l].at)
      BY <1>4 DEF Load
    <2> QED
      BY <1>5, <2>1, LoadShape
  <1>7. loader' = [m \in Loads |-> loader'[m]]
    BY <1>3
  <1>8. loader' = [m \in Loads |-> Load(loader'[m].phase, loader'[m].parents,
                                       loader'[m].cached, loader'[m].at)]
    BY <1>6, <1>7
  <1> QED
    BY <1>4, <1>5, <1>8 DEF Load
\* A step of one load, of the loader's type, keeps types.
LEMMA LoadStepTyped ==
    ASSUME TypeOK, UNCHANGED <<now, past>>,
           NEW l \in Loads, NEW phase \in {"idle", "querying", "answered", "resolved", "failed"},
           NEW parents \in Parents \cup {<<>>}, NEW cached, NEW at \in 0 .. now,
           DOMAIN cached \subseteq unique_keys(parents),
           LoadStep(l, phase, parents, cached, at),
           DOMAIN entry'.children \subseteq Keys, entry'.inserted_at \in -1 .. now
    PROVE  TypeOK'
  <1>1. loader' = [m \in Loads |-> Load(loader'[m].phase, loader'[m].parents,
                                      loader'[m].cached, loader'[m].at)]
    BY LoadChanges
  <1>2. ASSUME NEW m \in Loads
        PROVE  /\ loader'[m].phase \in {"idle", "querying", "answered", "resolved", "failed"}
               /\ loader'[m].parents \in Parents \cup {<<>>}
               /\ DOMAIN loader'[m].cached \subseteq unique_keys(loader'[m].parents)
               /\ loader'[m].at \in 0 .. now
    <2>1. CASE m = l
      BY <2>1, LoadChanges
    <2>2. CASE m # l
      BY <2>2, LoadChanges, LoadShape
    <2> QED
      BY <2>1, <2>2
  <1>3. now' \in 0 .. MaxNow /\ past' \in Seq([children : [Keys -> Nat], since : 0 .. now'])
        /\ past' # <<>>
    BY DEF TypeOK
  <1>4. \A m \in Loads : unique_keys(loader'[m].parents) = unique_keys(loader[m].parents)'
    BY DEF unique_keys
  <1> QED
    BY <1>1, <1>2, <1>3, <1>4 DEF TypeOK

\* The empty sequence has no keys.
LEMMA NoChildren == ASSUME NEW keys PROVE DOMAIN <<>> \subseteq keys
  OBVIOUS

\* What the cache and the database return is about the keys asked for.
LEMMA AnswersAsked ==
    ASSUME TypeOK, NEW keys \in SUBSET Keys
    PROVE  DOMAIN Found(keys) \subseteq keys /\ DOMAIN Grouped(keys) \subseteq keys
  BY DEF Found, Grouped, Restrict

\* A write appends a state of the database.
LEMMA WriteAppends ==
    ASSUME TypeOK, NEW k \in Keys, NEW lost, Write(k, lost)
    PROVE  \E children \in [Keys -> Nat] :
             past' = Append(past, [children |-> children, since |-> now])
  <1> DEFINE version  == IF lost THEN 0 ELSE Len(past)
             children == [db EXCEPT ![k] = version]
  <1>1. version \in Nat
    BY PastTypes
  <1> HIDE DEF version
  <1>2. children \in [Keys -> Nat]
    BY <1>1, PastTypes
  <1>3. past' = Append(past, [children |-> children, since |-> now])
    BY DEF Write, version
  <1> QED
    BY <1>2, <1>3

\* Every step keeps types.
LEMMA NextTypeOK == TypeOK /\ [Next]_vars => TypeOK'
  <1> SUFFICES ASSUME TypeOK, [Next]_vars PROVE TypeOK'
    OBVIOUS
  <1>0. now \in Nat /\ now \in 0 .. now /\ 0 \in 0 .. now /\ now \in -1 .. now
    BY PastTypes
  <1>e. DOMAIN entry.children \subseteq Keys /\ entry.inserted_at \in -1 .. now
    BY DEF TypeOK
  <1>1. ASSUME NEW l \in Loads, NEW parents \in Parents, Begin(l, parents) PROVE TypeOK'
    <2> DEFINE keys == unique_keys(parents)
    <2>1. keys \subseteq Keys
      BY ParentsTyped
    <2>2. UNCHANGED <<now, past, entry>>
      BY <1>1 DEF Begin
    <2>3. \/ LoadStep(l, "resolved", parents, <<>>, now)
          \/ LoadStep(l, "resolved", parents, Found(keys), now)
          \/ LoadStep(l, "querying", parents, <<>>, now)
      BY <1>1 DEF Begin, LoadStep
    <2>4. DOMAIN <<>> \subseteq keys /\ DOMAIN Found(keys) \subseteq keys
      BY <2>1, NoChildren, AnswersAsked
    <2> HIDE DEF keys
    <2>5. DOMAIN entry'.children \subseteq Keys /\ entry'.inserted_at \in -1 .. now
      BY <1>e, <2>2
    <2>6. CASE LoadStep(l, "resolved", parents, <<>>, now)
      BY <1>0, <2>2, <2>4, <2>5, <2>6, LoadStepTyped DEF keys
    <2>7. CASE LoadStep(l, "resolved", parents, Found(keys), now)
      BY <1>0, <2>2, <2>4, <2>5, <2>7, LoadStepTyped DEF keys
    <2>8. CASE LoadStep(l, "querying", parents, <<>>, now)
      BY <1>0, <2>2, <2>4, <2>5, <2>8, LoadStepTyped DEF keys
    <2> QED
      BY <2>3, <2>6, <2>7, <2>8
  <1>2. ASSUME NEW l \in Loads, Answer(l) PROVE TypeOK'
    <2> DEFINE keys == unique_keys(loader[l].parents)
    <2>1. LoadStep(l, "answered", loader[l].parents, Grouped(keys), loader[l].at)
      BY <1>2 DEF Answer, LoadStep
    <2>2. keys \subseteq Keys /\ DOMAIN Grouped(keys) \subseteq keys
      BY LoadShape, AnswersAsked
    <2>3. UNCHANGED <<now, past, entry>>
      BY <1>2 DEF Answer
    <2>4. DOMAIN entry'.children \subseteq Keys /\ entry'.inserted_at \in -1 .. now
      BY <1>e, <2>3
    <2> QED
      BY <2>1, <2>2, <2>3, <2>4, LoadShape, LoadStepTyped
  <1>3. ASSUME NEW l \in Loads, Receive(l) PROVE TypeOK'
    <2>1. LoadStep(l, "resolved", loader[l].parents, loader[l].cached, now)
      BY <1>3 DEF Receive, LoadStep
    <2>2. entry' = [children |-> loader[l].cached, inserted_at |-> now]
      BY <1>3 DEF Receive, Inserted
    <2>3. UNCHANGED <<now, past>>
      BY <1>3 DEF Receive
    <2>4. DOMAIN entry'.children \subseteq Keys /\ entry'.inserted_at \in -1 .. now
      BY <1>0, <2>2, LoadShape
    <2> QED
      BY <1>0, <2>1, <2>3, <2>4, LoadShape, LoadStepTyped
  <1>4. ASSUME NEW l \in Loads, Fail(l) PROVE TypeOK'
    <2>1. LoadStep(l, "failed", <<>>, <<>>, 0) /\ UNCHANGED <<now, past, entry>>
      BY <1>4 DEF Fail, LoadStep
    <2>2. DOMAIN entry'.children \subseteq Keys /\ entry'.inserted_at \in -1 .. now
      BY <1>e, <2>1
    <2>3. DOMAIN <<>> \subseteq unique_keys(<<>>)
      BY NoChildren
    <2> QED
      BY <1>0, <2>1, <2>2, <2>3, LoadStepTyped
  <1>5. ASSUME NEW k \in Keys, NEW lost \in BOOLEAN, Write(k, lost) PROVE TypeOK'
    <2>1. PICK children \in [Keys -> Nat] :
            past' = Append(past, [children |-> children, since |-> now])
      BY <1>5, WriteAppends
    <2>2. [children |-> children, since |-> now] \in [children : [Keys -> Nat], since : 0 .. now]
      BY <1>0
    <2> DEFINE S == [children : [Keys -> Nat], since : 0 .. now]
    <2>3. past \in Seq(S)
      BY DEF TypeOK
    <2> HIDE DEF S
    <2>4. \A x \in S : Append(past, x) \in Seq(S) /\ Append(past, x) # <<>>
      BY <2>3, AppendProperties
    <2>5. past' \in Seq(S) /\ past' # <<>>
      BY <2>1, <2>2, <2>4 DEF S
    <2> QED
      BY <1>5, <2>5 DEF S, Write, TypeOK, unique_keys
  <1>6. CASE Tick
    <2>1. now' = now + 1 /\ now' \in 0 .. MaxNow /\ UNCHANGED <<past, entry, loader>>
      BY <1>0, <1>6, LoaderAssumption DEF Tick, TypeOK
    <2>2. [children : [Keys -> Nat], since : 0 .. now]
          \subseteq [children : [Keys -> Nat], since : 0 .. now']
      BY <1>0, <2>1
    <2>3. past' \in Seq([children : [Keys -> Nat], since : 0 .. now']) /\ past' # <<>>
      <3>1. past \in Seq([children : [Keys -> Nat], since : 0 .. now]) /\ past # <<>>
        BY DEF TypeOK
      <3>2. past \in Seq([children : [Keys -> Nat], since : 0 .. now'])
        BY <2>2, <3>1, SeqMonotonic
      <3> QED
        BY <2>1, <3>1, <3>2
    <2>4. entry'.inserted_at \in -1 .. now'
      BY <1>0, <1>e, <2>1
    <2>5. \A l \in Loads : loader'[l].at \in 0 .. now'
      BY <1>0, <2>1, LoadShape
    <2> QED
      BY <2>1, <2>3, <2>4, <2>5 DEF TypeOK, unique_keys
  <1>7. CASE UNCHANGED vars
    BY <1>7 DEF vars, TypeOK, unique_keys
  <1> QED
    BY <1>1, <1>2, <1>3, <1>4, <1>5, <1>6, <1>7 DEF Next

-----------------------------------------------------------------------------
(* States of the database *)

\* HeldWithin and Answers in the next state, of numbers and keys of this one.
HeldNext(i, from, to) ==
    /\ past'[i].since <= to
    /\ i = Len(past') \/ past'[i + 1].since >= from

AnswersNext(children, keys, i) ==
    \A k \in keys :
        past'[i].children[k] = IF k \in DOMAIN children THEN children[k] ELSE 0

\* A state that held from a moment on held from any earlier one.
LEMMA HeldLonger ==
    ASSUME TypeOK, NEW i \in DOMAIN past, NEW from \in Int, NEW to \in Int,
           NEW from2 \in Int, NEW to2 \in Int,
           HeldWithin(i, from, to), from2 <= from, to <= to2
    PROVE  HeldWithin(i, from2, to2)
  <1>1. past[i].since \in Int /\ (i # Len(past) => past[i + 1].since \in Int)
    BY PastTypes
  <1> QED
    BY <1>1 DEF HeldWithin

\* The state the database is in held up to now, from whenever.
LEMMA HeldNow ==
    ASSUME TypeOK, NEW from PROVE Len(past) \in DOMAIN past /\ HeldWithin(Len(past), from, now)
  BY PastTypes DEF HeldWithin

\* Nothing changes about the states while the database does not.
LEMMA PastKept ==
    ASSUME UNCHANGED past, NEW i \in DOMAIN past
    PROVE  /\ i \in DOMAIN past'
           /\ \A from, to : HeldWithin(i, from, to) => HeldNext(i, from, to)
           /\ \A children, keys : Answers(children, keys, i) => AnswersNext(children, keys, i)
  BY DEF HeldWithin, HeldNext, Answers, AnswersNext

\* Whatever held, and was answered, as of a state still was when the database
\* has changed once more.
LEMMA PastGrows ==
    ASSUME TypeOK, NEW k \in Keys, NEW lost, Write(k, lost), NEW i \in DOMAIN past
    PROVE  /\ i \in DOMAIN past'
           /\ \A children, keys : Answers(children, keys, i) => AnswersNext(children, keys, i)
           /\ \A from \in Int : \A to :
                HeldWithin(i, from, to) /\ from <= now => HeldNext(i, from, to)
  <1>0. PICK c \in [Keys -> Nat] : past' = Append(past, [children |-> c, since |-> now])
    BY WriteAppends
  <1> DEFINE x == [children |-> c, since |-> now]
  <1>1. x \in State /\ x.since = now
    BY PastTypes DEF State
  <1> HIDE DEF x
  <1>2. /\ Len(past') = Len(past) + 1
        /\ \A j \in 1 .. Len(past) : past'[j] = past[j]
        /\ past'[Len(past) + 1] = x
        /\ DOMAIN past' = 1 .. Len(past) + 1
    BY <1>0, <1>1, PastTypes DEF x
  <1>3. i \in DOMAIN past' /\ past'[i] = past[i] /\ i \in 1 .. Len(past)
    BY <1>2, PastTypes
  <1>4. i = Len(past) \/ (past'[i + 1] = past[i + 1] /\ i # Len(past))
    BY <1>2, <1>3, PastTypes
  <1>5. ASSUME NEW from \in Int, NEW to, HeldWithin(i, from, to), from <= now
        PROVE  HeldNext(i, from, to)
    <2>1. past'[i + 1].since >= from
      <3>1. CASE i = Len(past)
        BY <1>1, <1>2, <1>5, <3>1, PastTypes
      <3>2. CASE i # Len(past)
        BY <1>4, <1>5, <3>2 DEF HeldWithin
      <3> QED
        BY <3>1, <3>2
    <2> QED
      BY <1>3, <1>5, <2>1 DEF HeldWithin, HeldNext
  <1> QED
    BY <1>3, <1>5 DEF Answers, AnswersNext

-----------------------------------------------------------------------------
(* Loads and the entry *)

AnsweredLoad(l) ==
    \E i \in DOMAIN past :
        /\ HeldWithin(i, loader[l].at, now)
        /\ Answers(loader[l].cached, unique_keys(loader[l].parents), i)

ResolvedLoad(l) ==
    \E i \in DOMAIN past :
        /\ HeldWithin(i, loader[l].at - Ttl - MaxLatency, loader[l].at)
        /\ Answers(loader[l].cached, unique_keys(loader[l].parents), i)

AnsweredNext(l) ==
    \E i \in DOMAIN past' :
        /\ HeldNext(i, loader'[l].at, now')
        /\ AnswersNext(loader'[l].cached, unique_keys(loader'[l].parents), i)

ResolvedNext(l) ==
    \E i \in DOMAIN past' :
        /\ HeldNext(i, loader'[l].at - Ttl - MaxLatency, loader'[l].at)
        /\ AnswersNext(loader'[l].cached, unique_keys(loader'[l].parents), i)

\* The invariant of one load.
LoadInv(l) ==
    /\ loader[l].phase \in {"querying", "answered"} => now - loader[l].at <= MaxLatency
    /\ loader[l].phase = "answered" => AnsweredLoad(l)
    /\ loader[l].phase = "resolved" => ResolvedLoad(l)

LoadNext(l) ==
    /\ loader'[l].phase \in {"querying", "answered"} => now' - loader'[l].at <= MaxLatency
    /\ loader'[l].phase = "answered" => AnsweredNext(l)
    /\ loader'[l].phase = "resolved" => ResolvedNext(l)

LEMMA LoadInvs ==
    /\ (\A l \in Loads : LoadInv(l)) <=> InFlight /\ AnsweredAsOf /\ ResolvedAsOf
    /\ (\A l \in Loads : LoadNext(l)) => InFlight' /\ AnsweredAsOf' /\ ResolvedAsOf'
  <1>1. (\A l \in Loads : LoadInv(l)) <=> InFlight /\ AnsweredAsOf /\ ResolvedAsOf
    BY DEF LoadInv, AnsweredLoad, ResolvedLoad, InFlight, AnsweredAsOf, ResolvedAsOf
  <1>2. (\A l \in Loads : LoadNext(l)) => InFlight'
    BY DEF LoadNext, InFlight
  <1>3. (\A l \in Loads : LoadNext(l)) => AnsweredAsOf'
    BY DEF LoadNext, AnsweredNext, HeldNext, AnswersNext, AnsweredAsOf, HeldWithin, Answers,
           unique_keys
  <1>4. (\A l \in Loads : LoadNext(l)) => ResolvedAsOf'
    BY DEF LoadNext, ResolvedNext, HeldNext, AnswersNext, ResolvedAsOf, HeldWithin, Answers,
           unique_keys
  <1> QED
    BY <1>1, <1>2, <1>3, <1>4

\* The numbers the proofs calculate with.
LEMMA Numbers ==
    ASSUME TypeOK, NEW l \in Loads
    PROVE  /\ now \in Nat /\ loader[l].at \in Nat /\ loader[l].at <= now
           /\ Ttl \in Nat /\ MaxLatency \in Nat
           /\ loader[l].at - Ttl - MaxLatency \in Int
           /\ loader[l].at - Ttl - MaxLatency <= now
  <1>1. now \in Nat /\ loader[l].at \in Nat /\ loader[l].at <= now
    BY PastTypes, LoadShape
  <1>2. Ttl \in Nat /\ MaxLatency \in Nat
    BY LoaderAssumption
  <1> QED
    BY <1>1, <1>2

\* A load that takes no step keeps its invariant, whatever the others, the
\* database and the clock do.
LEMMA LoadKept ==
    ASSUME TypeOK, NEW l \in Loads, LoadInv(l), loader'[l] = loader[l],
           \/ UNCHANGED <<now, past>>
           \/ UNCHANGED now /\ \E k \in Keys, lost \in BOOLEAN : Write(k, lost)
    PROVE  LoadNext(l)
  <1>0. /\ now \in Nat /\ loader[l].at \in Nat /\ loader[l].at <= now
        /\ loader[l].at - Ttl - MaxLatency \in Int /\ loader[l].at - Ttl - MaxLatency <= now
    BY Numbers
  <1>1. ASSUME NEW i \in DOMAIN past
        PROVE  /\ i \in DOMAIN past'
               /\ \A children, keys : Answers(children, keys, i) => AnswersNext(children, keys, i)
               /\ \A from \in Int : \A to :
                    HeldWithin(i, from, to) /\ from <= now => HeldNext(i, from, to)
    BY PastKept, PastGrows
  <1>2. now' = now
    OBVIOUS
  <1>3. loader[l].phase = "answered" => AnsweredNext(l)
    BY <1>0, <1>1, <1>2 DEF LoadInv, AnsweredLoad, AnsweredNext
  <1>4. loader[l].phase = "resolved" => ResolvedNext(l)
    BY <1>0, <1>1, <1>2 DEF LoadInv, ResolvedLoad, ResolvedNext
  <1> QED
    BY <1>2, <1>3, <1>4 DEF LoadInv, LoadNext
\* Time passes only while every query in flight still has some.
LEMMA TickLoad ==
    ASSUME TypeOK, NEW l \in Loads, LoadInv(l), Tick PROVE LoadNext(l)
  <1>0. /\ now \in Nat /\ loader[l].at \in Nat /\ loader[l].at <= now /\ MaxLatency \in Nat
    BY Numbers
  <1>1. UNCHANGED <<past, loader>> /\ now' = now + 1
    BY DEF Tick
  <1>2. loader[l].phase \in {"querying", "answered"} => now' - loader[l].at <= MaxLatency
    BY <1>0, <1>1 DEF Tick
  <1>3. ASSUME loader[l].phase = "answered" PROVE AnsweredNext(l)
    <2>1. PICK i \in DOMAIN past : /\ HeldWithin(i, loader[l].at, now)
                                   /\ Answers(loader[l].cached, unique_keys(loader[l].parents), i)
      BY <1>3 DEF LoadInv, AnsweredLoad
    <2>2. HeldWithin(i, loader[l].at, now + 1)
      BY <1>0, <2>1, HeldLonger
    <2> QED
      BY <1>1, <2>1, <2>2, PastKept DEF AnsweredNext
  <1>4. ASSUME loader[l].phase = "resolved" PROVE ResolvedNext(l)
    BY <1>1, <1>4, PastKept DEF LoadInv, ResolvedLoad, ResolvedNext
  <1> QED
    BY <1>1, <1>2, <1>3, <1>4 DEF LoadNext

\* A load that misses the cache sets out for the database at once.
LEMMA MissLoad ==
    ASSUME TypeOK, NEW l \in Loads, NEW parents, UNCHANGED <<now, past>>,
           LoadStep(l, "querying", parents, <<>>, now)
    PROVE  LoadNext(l)
  <1>1. now - now <= MaxLatency
    BY Numbers
  <1> QED
    BY <1>1, LoadChanges DEF LoadNext

\* A load that ends has the answer of a state of the database that held while
\* the query ran.
LEMMA EndLoad ==
    ASSUME TypeOK, NEW l \in Loads, UNCHANGED <<now, past>>,
           NEW i \in DOMAIN past, NEW from \in Int, NEW to \in Int,
           HeldWithin(i, from, to), now - Ttl - MaxLatency <= from, to <= now,
           NEW parents, NEW cached, Answers(cached, unique_keys(parents), i),
           LoadStep(l, "resolved", parents, cached, now)
    PROVE  LoadNext(l)
  <1>1. now - Ttl - MaxLatency \in Int /\ now \in Int
    BY Numbers
  <1>2. HeldWithin(i, now - Ttl - MaxLatency, now)
    BY <1>1, HeldLonger
  <1>3. /\ loader'[l].phase = "resolved" /\ loader'[l].parents = parents
        /\ loader'[l].cached = cached /\ loader'[l].at = now
    BY LoadChanges
  <1>4. ResolvedNext(l)
    BY <1>2, <1>3, PastKept DEF ResolvedNext
  <1> QED
    BY <1>3, <1>4 DEF LoadNext

\* The answer of the database is that of the state it is in.
LEMMA GroupedAnswers ==
    ASSUME TypeOK, NEW keys \in SUBSET Keys
    PROVE  Answers(Grouped(keys), keys, Len(past))
  <1>1. db = past[Len(past)].children /\ db \in [Keys -> Nat]
    BY PastTypes DEF db
  <1>2. \A k \in keys : k \in DOMAIN Grouped(keys) <=> db[k] > 0
    BY DEF Grouped, Restrict
  <1>3. \A k \in DOMAIN Grouped(keys) : Grouped(keys)[k] = db[k]
    BY DEF Grouped, Restrict
  <1>4. \A k \in keys : ~(db[k] > 0) => db[k] = 0
    BY <1>1
  <1> QED
    BY <1>1, <1>2, <1>3, <1>4 DEF Answers

\* A load that begins: nothing to ask, a hit, or a miss.
LEMMA BeginLoad ==
    ASSUME TypeOK, EntryAsOf, NEW l \in Loads, NEW parents \in Parents, Begin(l, parents)
    PROVE  LoadNext(l)
  <1> DEFINE keys == unique_keys(parents)
  <1>0. now \in Nat /\ Ttl \in Nat /\ MaxLatency \in Nat
    BY Numbers
  <1>1. UNCHANGED <<now, past>>
    BY DEF Begin
  <1>2. CASE keys = {}
    <2>1. LoadStep(l, "resolved", parents, <<>>, now)
      BY <1>2 DEF Begin, LoadStep
    <2>2. Answers(<<>>, keys, Len(past))
      BY <1>2 DEF Answers
    <2>3. Len(past) \in DOMAIN past /\ HeldWithin(Len(past), now, now)
      BY HeldNow
    <2>4. now - Ttl - MaxLatency <= now /\ now \in Int /\ now <= now
      BY <1>0
    <2> QED
      BY <1>1, <2>1, <2>2, <2>3, <2>4, EndLoad
  <1>3. CASE keys # {} /\ Hit(keys)
    <2>1. LoadStep(l, "resolved", parents, Found(keys), now)
      BY <1>3 DEF Begin, LoadStep
    <2>2. /\ entry # NoEntry /\ ~(now - entry.inserted_at > Ttl)
          /\ keys \subseteq DOMAIN entry.children
      BY <1>3 DEF Hit, Expired
    <2>3. PICK i \in DOMAIN past :
             /\ HeldWithin(i, entry.inserted_at - MaxLatency, entry.inserted_at)
             /\ Answers(entry.children, DOMAIN entry.children, i)
      BY <2>2 DEF EntryAsOf
    <2>4. DOMAIN Found(keys) = keys /\ \A k \in keys : Found(keys)[k] = entry.children[k]
      BY <2>2 DEF Found, Restrict
    <2>5. Answers(Found(keys), keys, i)
      BY <2>2, <2>3, <2>4 DEF Answers
    <2>6. entry.inserted_at \in Int /\ entry.inserted_at <= now
      BY <1>0 DEF TypeOK
    <2>7. /\ entry.inserted_at - MaxLatency \in Int
          /\ now - Ttl - MaxLatency <= entry.inserted_at - MaxLatency
      <3> SUFFICES ASSUME NEW t \in Int, ~(now - t > Ttl)
                   PROVE  t - MaxLatency \in Int /\ now - Ttl - MaxLatency <= t - MaxLatency
        BY <2>2, <2>6
      <3> QED
        BY <1>0
    <2> QED
      BY <1>1, <2>1, <2>3, <2>5, <2>6, <2>7, EndLoad
  <1>4. CASE keys # {} /\ ~Hit(keys)
    <2>1. LoadStep(l, "querying", parents, <<>>, now)
      BY <1>4 DEF Begin, LoadStep
    <2> QED
      BY <1>1, <2>1, MissLoad
  <1> QED
    BY <1>2, <1>3, <1>4

\* The database answers.
LEMMA AnswerLoad ==
    ASSUME TypeOK, NEW l \in Loads, LoadInv(l), Answer(l) PROVE LoadNext(l)
  <1> DEFINE keys == unique_keys(loader[l].parents)
  <1>1. LoadStep(l, "answered", loader[l].parents, Grouped(keys), loader[l].at)
    BY DEF Answer, LoadStep
  <1>2. UNCHANGED <<now, past>> /\ loader[l].phase = "querying"
    BY DEF Answer
  <1>3. /\ loader'[l].phase = "answered" /\ loader'[l].parents = loader[l].parents
        /\ loader'[l].cached = Grouped(keys) /\ loader'[l].at = loader[l].at
    BY <1>1, LoadChanges
  <1>4. Answers(Grouped(keys), keys, Len(past))
    BY GroupedAnswers, LoadShape
  <1>5. Len(past) \in DOMAIN past /\ HeldWithin(Len(past), loader[l].at, now)
    BY HeldNow
  <1>6. AnsweredNext(l)
    BY <1>2, <1>3, <1>4, <1>5, PastKept DEF AnsweredNext
  <1> QED
    BY <1>2, <1>3, <1>6 DEF LoadInv, LoadNext

\* What is on its way when a load is to receive it.
LEMMA OnItsWay ==
    ASSUME TypeOK, NEW l \in Loads, LoadInv(l), loader[l].phase = "answered"
    PROVE  \E i \in DOMAIN past :
             /\ HeldWithin(i, now - MaxLatency, now)
             /\ Answers(loader[l].cached, unique_keys(loader[l].parents), i)
  <1>1. PICK i \in DOMAIN past : /\ HeldWithin(i, loader[l].at, now)
                                 /\ Answers(loader[l].cached, unique_keys(loader[l].parents), i)
    BY DEF LoadInv, AnsweredLoad
  <1>2. /\ now - MaxLatency <= loader[l].at /\ now \in Int /\ now <= now
        /\ loader[l].at \in Int /\ now - MaxLatency \in Int
    <2> SUFFICES ASSUME NEW t \in Nat, now - t <= MaxLatency
                 PROVE  now - MaxLatency <= t /\ now - MaxLatency \in Int /\ now \in Int
      BY Numbers DEF LoadInv
    <2> QED
      BY Numbers
  <1>3. HeldWithin(i, now - MaxLatency, now)
    BY <1>1, <1>2, HeldLonger
  <1> QED
    BY <1>1, <1>3

\* The answer arrives.
LEMMA ReceiveLoad ==
    ASSUME TypeOK, NEW l \in Loads, LoadInv(l), Receive(l) PROVE LoadNext(l)
  <1>1. LoadStep(l, "resolved", loader[l].parents, loader[l].cached, now)
    BY DEF Receive, LoadStep
  <1>2. UNCHANGED <<now, past>> /\ loader[l].phase = "answered"
    BY DEF Receive
  <1>3. PICK i \in DOMAIN past :
             /\ HeldWithin(i, now - MaxLatency, now)
             /\ Answers(loader[l].cached, unique_keys(loader[l].parents), i)
    BY <1>2, OnItsWay
  <1>4. now - MaxLatency \in Int /\ now \in Int /\ now - Ttl - MaxLatency <= now - MaxLatency
        /\ now <= now
    BY Numbers
  <1> QED
    BY <1>1, <1>2, <1>3, <1>4, EndLoad

\* Every step keeps the invariant of every load.
LEMMA NextLoads ==
    TypeOK /\ EntryAsOf /\ (\A l \in Loads : LoadInv(l)) /\ [Next]_vars
    => \A l \in Loads : LoadNext(l)
  <1> SUFFICES ASSUME TypeOK, EntryAsOf, \A l \in Loads : LoadInv(l), [Next]_vars,
                      NEW m \in Loads
               PROVE  LoadNext(m)
    OBVIOUS
  <1>a. ASSUME NEW l \in Loads, l # m, NEW phase, NEW parents, NEW cached, NEW at,
               LoadStep(l, phase, parents, cached, at), UNCHANGED <<now, past>>
        PROVE  LoadNext(m)
    <2>1. loader'[m] = loader[m]
      BY <1>a, LoadChanges
    <2> QED
      BY <1>a, <2>1, LoadKept
  <1>1. ASSUME NEW l \in Loads, NEW parents \in Parents, Begin(l, parents) PROVE LoadNext(m)
    <2>1. \E phase, cached : LoadStep(l, phase, parents, cached, now)
      <3>1. \/ LoadStep(l, "resolved", parents, <<>>, now)
            \/ LoadStep(l, "resolved", parents, Found(unique_keys(parents)), now)
            \/ LoadStep(l, "querying", parents, <<>>, now)
        BY <1>1 DEF Begin, LoadStep
      <3> QED
        BY <3>1
    <2>2. UNCHANGED <<now, past>>
      BY <1>1 DEF Begin
    <2>3. CASE l = m
      BY <1>1, <2>3, BeginLoad
    <2> QED
      BY <1>a, <2>1, <2>2, <2>3
  <1>2. ASSUME NEW l \in Loads, Answer(l) PROVE LoadNext(m)
    <2>1. LoadStep(l, "answered", loader[l].parents, Grouped(unique_keys(loader[l].parents)),
                   loader[l].at)
      BY <1>2 DEF Answer, LoadStep
    <2>2. UNCHANGED <<now, past>>
      BY <1>2 DEF Answer
    <2>3. CASE l = m
      BY <1>2, <2>3, AnswerLoad
    <2> QED
      BY <1>a, <2>1, <2>2, <2>3
  <1>3. ASSUME NEW l \in Loads, Receive(l) PROVE LoadNext(m)
    <2>1. LoadStep(l, "resolved", loader[l].parents, loader[l].cached, now)
      BY <1>3 DEF Receive, LoadStep
    <2>2. UNCHANGED <<now, past>>
      BY <1>3 DEF Receive
    <2>3. CASE l = m
      BY <1>3, <2>3, ReceiveLoad
    <2> QED
      BY <1>a, <2>1, <2>2, <2>3
  <1>4. ASSUME NEW l \in Loads, Fail(l) PROVE LoadNext(m)
    <2>1. LoadStep(l, "failed", <<>>, <<>>, 0)
      BY <1>4 DEF Fail, LoadStep
    <2>2. UNCHANGED <<now, past>>
      BY <1>4 DEF Fail
    <2>3. CASE l = m
      <3>1. loader'[m].phase = "failed"
        BY <2>1, <2>3, LoadChanges
      <3> QED
        BY <3>1 DEF LoadNext
    <2> QED
      BY <1>a, <2>1, <2>2, <2>3
  <1>5. ASSUME NEW k \in Keys, NEW lost \in BOOLEAN, Write(k, lost) PROVE LoadNext(m)
    BY <1>5, LoadKept DEF Write
  <1>6. CASE Tick
    BY <1>6, TickLoad
  <1>7. CASE UNCHANGED vars
    BY <1>7, LoadKept DEF vars
  <1> QED
    BY <1>1, <1>2, <1>3, <1>4, <1>5, <1>6, <1>7 DEF Next

\* Every step keeps the entry the answer of one state.
LEMMA NextEntry ==
    TypeOK /\ EntryAsOf /\ (\A l \in Loads : LoadInv(l)) /\ [Next]_vars => EntryAsOf'
  <1> SUFFICES ASSUME TypeOK, EntryAsOf, \A l \in Loads : LoadInv(l), [Next]_vars
               PROVE  EntryAsOf'
    OBVIOUS
  <1>0. NoEntry' = NoEntry
    BY DEF NoEntry
  <1>a. ASSUME entry' # NoEntry =>
                 \E i \in DOMAIN past' :
                   /\ HeldNext(i, entry'.inserted_at - MaxLatency, entry'.inserted_at)
                   /\ AnswersNext(entry'.children, DOMAIN entry'.children, i)
        PROVE  EntryAsOf'
    BY <1>0, <1>a DEF EntryAsOf, HeldWithin, HeldNext, Answers, AnswersNext
  <1>1. CASE UNCHANGED <<past, entry>>
    BY <1>1, <1>a, PastKept DEF EntryAsOf
  <1>2. ASSUME NEW l \in Loads, Receive(l) PROVE EntryAsOf'
    <2>1. entry' = [children |-> loader[l].cached, inserted_at |-> now]
      BY <1>2 DEF Receive, Inserted
    <2>2. entry'.children = loader[l].cached /\ entry'.inserted_at = now
      BY <2>1
    <2>3. PICK i \in DOMAIN past :
             /\ HeldWithin(i, now - MaxLatency, now)
             /\ Answers(loader[l].cached, unique_keys(loader[l].parents), i)
      BY <1>2, OnItsWay DEF Receive
    <2>4. Answers(loader[l].cached, DOMAIN loader[l].cached, i)
      BY <2>3, LoadShape DEF Answers
    <2>5. UNCHANGED past
      BY <1>2 DEF Receive
    <2> QED
      BY <1>a, <2>2, <2>3, <2>4, <2>5, PastKept
  <1>3. ASSUME NEW k \in Keys, NEW lost \in BOOLEAN, Write(k, lost) PROVE EntryAsOf'
    <2>1. SUFFICES ASSUME entry # NoEntry
                   PROVE  \E i \in DOMAIN past' :
                            /\ HeldNext(i, entry.inserted_at - MaxLatency, entry.inserted_at)
                            /\ AnswersNext(entry.children, DOMAIN entry.children, i)
      BY <1>3, <1>a DEF Write
    <2>2. PICK i \in DOMAIN past :
             /\ HeldWithin(i, entry.inserted_at - MaxLatency, entry.inserted_at)
             /\ Answers(entry.children, DOMAIN entry.children, i)
      BY <2>1 DEF EntryAsOf
    <2>3. entry.inserted_at - MaxLatency \in Int /\ entry.inserted_at - MaxLatency <= now
      <3>1. entry.inserted_at \in -1 .. now /\ now \in Nat /\ MaxLatency \in Nat
        BY PastTypes, LoaderAssumption DEF TypeOK
      <3> QED
        BY <3>1
    <2> QED
      BY <1>3, <2>2, <2>3, PastGrows
  <1> QED
    BY <1>1, <1>2, <1>3 DEF Next, vars, Begin, Answer, Fail, Tick

-----------------------------------------------------------------------------
(* The theorems *)

\* The inductive invariant of the data loader.
THEOREM LoaderInvariant == Spec => []LoaderInv
  <1>1. Init => LoaderInv
    <2> SUFFICES ASSUME Init PROVE LoaderInv
      OBVIOUS
    <2> DEFINE first == [children |-> [k \in Keys |-> 0], since |-> 0]
    <2>1. now = 0 /\ past = <<first>> /\ entry = NoEntry
          /\ loader = [l \in Loads |-> Load("idle", <<>>, <<>>, 0)]
      BY DEF Init, Idle
    <2>2. first \in [children : [Keys -> Nat], since : 0 .. now]
      BY <2>1
    <2> HIDE DEF first
    <2>3. past \in Seq([children : [Keys -> Nat], since : 0 .. now]) /\ past # <<>>
      BY <2>1, <2>2
    <2>4. now \in 0 .. MaxNow /\ 0 \in 0 .. now
      BY <2>1, LoaderAssumption
    <2>5. DOMAIN entry.children \subseteq Keys /\ entry.inserted_at \in -1 .. now
      BY <2>1, NoChildren DEF NoEntry
    <2>6. \A l \in Loads : /\ loader[l].phase = "idle" /\ loader[l].parents = <<>>
                           /\ loader[l].cached = <<>> /\ loader[l].at = 0
                           /\ loader[l] = Load("idle", <<>>, <<>>, 0)
      BY <2>1 DEF Load
    <2>7. loader = [l \in Loads |-> Load(loader[l].phase, loader[l].parents,
                                        loader[l].cached, loader[l].at)]
      BY <2>1, <2>6
    <2>8. TypeOK
      BY <2>3, <2>4, <2>5, <2>6, <2>7, NoChildren DEF TypeOK
    <2> QED
      BY <2>1, <2>6, <2>8 DEF LoaderInv, EntryAsOf, InFlight, AnsweredAsOf, ResolvedAsOf
  <1>2. LoaderInv /\ [Next]_vars => LoaderInv'
    <2> SUFFICES ASSUME LoaderInv, [Next]_vars PROVE LoaderInv'
      OBVIOUS
    <2>1. TypeOK /\ EntryAsOf /\ \A l \in Loads : LoadInv(l)
      BY LoadInvs DEF LoaderInv
    <2>2. \A l \in Loads : LoadNext(l)
      BY <2>1, NextLoads
    <2> QED
      BY <2>1, <2>2, NextTypeOK, NextEntry, LoadInvs DEF LoaderInv
  <1> QED
    BY <1>1, <1>2, PTL DEF Spec

\* Every parent of every load gets the children of its own key, all as of one
\* recent state of the database.
THEOREM LoadsOneRecentState == Spec => []OneRecentState
  <1>1. LoaderInv => OneRecentState
    <2> SUFFICES ASSUME LoaderInv, NEW l \in Loads, loader[l].phase = "resolved"
                 PROVE  \E i \in DOMAIN past :
                          /\ HeldWithin(i, loader[l].at - Ttl - MaxLatency, loader[l].at)
                          /\ \A p \in DOMAIN loader[l].parents :
                               per_parent(l)[p] = IF loader[l].parents[p] = Absent THEN 0
                                                  ELSE past[i].children[loader[l].parents[p]]
      BY DEF OneRecentState
    <2>1. PICK i \in DOMAIN past :
             /\ HeldWithin(i, loader[l].at - Ttl - MaxLatency, loader[l].at)
             /\ Answers(loader[l].cached, unique_keys(loader[l].parents), i)
      BY DEF LoaderInv, ResolvedAsOf
    <2>2. ASSUME NEW p \in DOMAIN loader[l].parents
          PROVE  per_parent(l)[p] = IF loader[l].parents[p] = Absent THEN 0
                                    ELSE past[i].children[loader[l].parents[p]]
      <3> DEFINE k == loader[l].parents[p]
      <3>1. per_parent(l)[p] = IF k \in DOMAIN loader[l].cached THEN loader[l].cached[k] ELSE 0
        BY DEF per_parent
      <3>2. CASE k = Absent
        <4>1. k \notin DOMAIN loader[l].cached
          BY <3>2, LoadShape DEF LoaderInv, unique_keys
        <4> QED
          BY <3>1, <3>2, <4>1
      <3>3. CASE k # Absent
        <4>1. k \in unique_keys(loader[l].parents)
          BY <3>3 DEF unique_keys, Range
        <4> QED
          BY <2>1, <3>1, <3>3, <4>1 DEF Answers
      <3> QED
        BY <3>2, <3>3
    <2> QED
      BY <2>1, <2>2
  <1> QED
    BY <1>1, LoaderInvariant, PTL
=============================================================================
