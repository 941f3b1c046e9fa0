------------------------------ MODULE DataLoader ------------------------------
(***************************************************************************)
(* The resolution of one field of a document for many parent rows: the     *)
(* DataLoader asks once for the children of all parents, and shares what   *)
(* it got with later and concurrent documents through a cache in which an  *)
(* answer lives for the time `ttl`.  Siblings of a document are resolved   *)
(* concurrently, so loads of one (sql, batch_by) overlap.                  *)
(*                                                                         *)
(* The children of a key are a version number, 0 when it has none; the     *)
(* database changes at any moment.                                         *)
(***************************************************************************)
EXTENDS Integers, Sequences, Functions

CONSTANTS
    Keys,        \* the values of the batch parameter
    Absent,      \* a parent row without that column
    Loads,       \* the loads of one (sql, batch_by)
    Parents,     \* the lists of parent rows, each by its key
    Ttl,         \* how long an entry counts, in ticks
    MaxLatency,  \* the longest a query takes, in ticks
    MaxNow,      \* bound on the clock
    MaxWrites    \* bound on the changes in the database

ASSUME LoaderAssumption ==
    /\ Absent \notin Keys
    /\ Parents \subseteq Seq(Keys \cup {Absent})
    /\ Ttl \in Nat
    /\ MaxLatency \in Nat
    /\ MaxNow \in Nat
    /\ MaxWrites \in Nat

VARIABLES
    now,    \* the clock
    past,   \* every state the database had: its children, and since when
    entry,  \* the entry of GlobalDataCache.inner
    loader  \* for each load: phase, parents, children so far, and when the load
            \* began or, once resolved, ended

vars == <<now, past, entry, loader>>

NoEntry == [children |-> <<>>, inserted_at |-> -1]
Load(phase, parents, cached, at) ==
    [phase |-> phase, parents |-> parents, cached |-> cached, at |-> at]

Idle == Load("idle", <<>>, <<>>, 0)

db == past[Len(past)].children

\* execute: each key once; a parent without the column adds none.
unique_keys(parents) == Range(parents) \ {Absent}

-----------------------------------------------------------------------------
(* The cache *)

Expired == entry = NoEntry \/ now - entry.inserted_at > Ttl

\* GlobalDataCache::get: all the keys or nothing.
Hit(keys) == ~Expired /\ keys \subseteq DOMAIN entry.children

Found(keys) == Restrict(entry.children, keys \cap DOMAIN entry.children)

\* GlobalDataCache::insert: the new entry replaces the old one.
MutantInserted(children) ==
    [children |-> [k \in DOMAIN entry.children \cup DOMAIN children |->
                     IF k \in DOMAIN children THEN children[k] ELSE entry.children[k]],
     inserted_at |-> now]
Inserted(children) == [children |-> children, inserted_at |-> now]

-----------------------------------------------------------------------------
(* The loads *)

\* DataLoader::execute up to the query.  A key without children is in no answer,
\* and so in no entry: a load that asks for it always misses.
Begin(l, parents) ==
    LET keys == unique_keys(parents)
    IN /\ loader[l].phase = "idle"
       /\ loader' = [loader EXCEPT ![l] =
            IF keys = {} THEN Load("resolved", parents, <<>>, now)
            ELSE IF Hit(keys) THEN Load("resolved", parents, Found(keys), now)
            ELSE Load("querying", parents, <<>>, now)]
       /\ UNCHANGED <<now, past, entry>>

\* The database reads the rows of all the keys in one statement.
Grouped(keys) == Restrict(db, {k \in keys : db[k] > 0})

Answer(l) ==
    /\ loader[l].phase = "querying"
    /\ loader' = [loader EXCEPT ![l] =
         Load("answered", @.parents, Grouped(unique_keys(@.parents)), @.at)]
    /\ UNCHANGED <<now, past, entry>>

\* The rows arrive; grouping them and storing the groups takes no await.
Receive(l) ==
    /\ loader[l].phase = "answered"
    /\ entry' = Inserted(loader[l].cached)
    /\ loader' = [loader EXCEPT ![l] = Load("resolved", @.parents, @.cached, now)]
    /\ UNCHANGED <<now, past>>

\* `run_rows_array(..).await?`: the loader is dropped, the cache not touched.
Fail(l) ==
    /\ loader[l].phase \in {"querying", "answered"}
    /\ loader' = [loader EXCEPT ![l] = Load("failed", <<>>, <<>>, 0)]
    /\ UNCHANGED <<now, past, entry>>

\* resolve_field_for_parents: get_children of each parent's key.
per_parent(l) ==
    [p \in DOMAIN loader[l].parents |->
       LET k == loader[l].parents[p]
       IN IF k \in DOMAIN loader[l].cached THEN loader[l].cached[k] ELSE 0]

-----------------------------------------------------------------------------
(* The database and the clock *)

\* The children of a key change, or it loses them.
Write(k, lost) ==
    /\ Len(past) <= MaxWrites
    /\ lost => db[k] > 0
    /\ past' = Append(past, [children |-> [db EXCEPT ![k] = IF lost THEN 0 ELSE Len(past)],
                             since |-> now])
    /\ UNCHANGED <<now, entry, loader>>

Tick ==
    /\ now < MaxNow
    /\ \A l \in Loads :
         loader[l].phase \in {"querying", "answered"} => now - loader[l].at < MaxLatency
    /\ now' = now + 1
    /\ UNCHANGED <<past, entry, loader>>

-----------------------------------------------------------------------------
Init ==
    /\ now = 0
    /\ past = <<[children |-> [k \in Keys |-> 0], since |-> 0]>>
    /\ entry = NoEntry
    /\ loader = [l \in Loads |-> Idle]

Next ==
    \/ \E l \in Loads, parents \in Parents : Begin(l, parents)
    \/ \E l \in Loads : Answer(l) \/ Receive(l) \/ Fail(l)
    \/ \E k \in Keys, lost \in BOOLEAN : Write(k, lost)
    \/ Tick

Spec == Init /\ [][Next]_vars

-----------------------------------------------------------------------------
(* Properties *)

\* Every variable keeps its type, and no entry or load is of a time to come.
TypeOK ==
    /\ now \in 0 .. MaxNow
    /\ past \in Seq([children : [Keys -> Nat], since : 0 .. now])
    /\ past # <<>>
    /\ DOMAIN entry.children \subseteq Keys
    /\ entry.inserted_at \in -1 .. now
    /\ loader = [l \in Loads |-> Load(loader[l].phase, loader[l].parents,
                                      loader[l].cached, loader[l].at)]
    /\ \A l \in Loads :
         /\ loader[l].phase \in {"idle", "querying", "answered", "resolved", "failed"}
         /\ loader[l].parents \in Parents \cup {<<>>}
         /\ DOMAIN loader[l].cached \subseteq unique_keys(loader[l].parents)
         /\ loader[l].at \in 0 .. now

\* Database state i held at some moment between `from` and `to`.
HeldWithin(i, from, to) ==
    /\ past[i].since <= to
    /\ i = Len(past) \/ past[i + 1].since >= from

\* What one query for each parent would have given: every parent of a load gets
\* exactly the children of its own key, all as of one state of the database,
\* however the loads and the writes interleave; and that state is not older than
\* the entry's life and the query that filled it.
OneRecentState ==
    \A l \in Loads :
      loader[l].phase = "resolved" =>
        \E i \in DOMAIN past :
          /\ HeldWithin(i, loader[l].at - Ttl - MaxLatency, loader[l].at)
          /\ \A p \in DOMAIN loader[l].parents :
               per_parent(l)[p] = IF loader[l].parents[p] = Absent THEN 0
                                  ELSE past[i].children[loader[l].parents[p]]

-----------------------------------------------------------------------------
(* The inductive invariant: what was read, stored or handed out is what one    *)
(* state of the database has for each of its keys.                             *)

\* The children are those of state i for every key, none counting as zero.
Answers(children, keys, i) ==
    \A k \in keys :
        past[i].children[k] = IF k \in DOMAIN children THEN children[k] ELSE 0

\* The entry is an answer that held while the query that filled it ran.
EntryAsOf ==
    entry # NoEntry =>
        \E i \in DOMAIN past :
            /\ HeldWithin(i, entry.inserted_at - MaxLatency, entry.inserted_at)
            /\ Answers(entry.children, DOMAIN entry.children, i)

\* A load in flight has begun no longer ago than a query takes.
InFlight ==
    \A l \in Loads :
        loader[l].phase \in {"querying", "answered"} => now - loader[l].at <= MaxLatency

\* An answer on its way is as of a state that held since the load began.
AnsweredAsOf ==
    \A l \in Loads :
        loader[l].phase = "answered" =>
            \E i \in DOMAIN past :
                /\ HeldWithin(i, loader[l].at, now)
                /\ Answers(loader[l].cached, unique_keys(loader[l].parents), i)

\* A resolved load has the answer of one state, recent when it ended.
ResolvedAsOf ==
    \A l \in Loads :
        loader[l].phase = "resolved" =>
            \E i \in DOMAIN past :
                /\ HeldWithin(i, loader[l].at - Ttl - MaxLatency, loader[l].at)
                /\ Answers(loader[l].cached, unique_keys(loader[l].parents), i)

LoaderInv == TypeOK /\ EntryAsOf /\ InFlight /\ AnsweredAsOf /\ ResolvedAsOf
=============================================================================
