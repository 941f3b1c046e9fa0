------------------------------ MODULE RowPipeline ------------------------------
(***************************************************************************)
(* The way of a row through a replicate session: the walsender describes   *)
(* a table before the first change it sends of it and after each ALTER     *)
(* TABLE; the session keeps the descriptions in its relation cache,        *)
(* decodes a change by them, decides by --table, --op and --where whether  *)
(* it goes on, and drops and renames columns.  A TRUNCATE is one change of *)
(* several tables; no rule on rows concerns it.                            *)
(*                                                                         *)
(*   ALTER TABLE, changes --> WAL --> walsender --wire--> session --> sink *)
(***************************************************************************)
EXTENDS Integers, FiniteSets, SequencesExt

CONSTANTS
    parse_rule(_),  \* the expression the parser makes of a --where
    passes(_, _),   \* that expression is true of a row
    SqlTrue(_, _),  \* a --where is true of a row in SQL
    Tables,      \* the tables of the publication
    Shapes,      \* for each table, the column lists it may have, the first at first
    Cells,       \* for each operation, the old and new tuples a change may carry
    Truncates,   \* the sets of tables that are truncated together
    Configs,     \* the command lines; a --table names its table bare or qualified
    MaxChanges,  \* bound on the changes
    MaxDrops     \* bound on the lost connections

NoTuple == <<>>
Global == "*"

\* The columns of a table have names of their own; a table without any is left out.
ASSUME PipelineAssumption ==
    /\ IsFiniteSet(Tables)
    /\ Shapes \in [Tables -> Seq(Seq(STRING) \ {<<>>}) \ {<<>>}]
    /\ \A t \in Tables : \A cols \in Range(Shapes[t]) : IsInjective(cols)
    /\ DOMAIN Cells \subseteq {"insert", "update", "delete"}
    /\ \A c \in Configs : c.tables \subseteq Tables \X {"bare", "qualified"}
    /\ \A ts \in Truncates : ts # {} /\ ts \subseteq Tables
    /\ MaxChanges \in Nat
    /\ MaxDrops \in Nat

VARIABLES
    config,     \* the command line: tables, ops, schema, where, drops, renames
    rules,      \* RowFilter.filters
    entries,    \* ColumnTransforms.entries
    shape,      \* for each table, the index of its column list
    wal,        \* the changes, each with the columns its tables had then
    sent,       \* how many of them the walsender has sent
    described,  \* for each table, the columns the walsender last described
    wire,       \* messages on the way
    rel_cache,  \* the session's descriptions of the tables it knows
    handled,    \* how many changes the session has handled
    delivered,  \* what the sink was given: descriptions, and events with their LSNs
    drops       \* lost connections so far

configVars == <<config, rules, entries>>
serverVars == <<shape, wal, sent, described>>
sessionVars == <<wire, rel_cache, handled, delivered>>
pipelineVars == <<configVars, serverVars, sessionVars, drops>>

NotDescribed == <<>>
Unknown == "unknown"

-----------------------------------------------------------------------------
(* The command line *)

\* RowFilter::from_sources: one rule for each --where.
ParsedRules(where) ==
    [k \in DOMAIN where |-> <<where[k][1], parse_rule(where[k][2])>>]

\* ColumnTransforms::merge: the rules of a table, or of all, accumulate in the
\* entry that the first of them made.
Merged(es, key, dropped, renames) ==
    IF \E k \in DOMAIN es : es[k][1] = key
    THEN [k \in DOMAIN es |->
            IF es[k][1] = key THEN <<key, es[k][2] \o dropped, es[k][3] \o renames>> ELSE es[k]]
    ELSE Append(es, <<key, dropped, renames>>)

\* ColumnTransforms::from_sources: drops first, then renames.
from_sources(c) ==
    LET drop(es, d) == Merged(es, d[1], d[2], <<>>)
        rename(es, r) == Merged(es, r[1], <<>>, r[2])
    IN FoldLeft(rename, FoldLeft(drop, <<>>, c.drops), c.renames)

-----------------------------------------------------------------------------
(* Decoding *)

\* decode_tuple: a cell beyond the known columns is called "?".
Names(cols, k) == IF k \in DOMAIN cols THEN cols[k] ELSE "?"
decode_tuple(tuple, cols) ==
    LET names == {Names(cols, k) : k \in DOMAIN tuple}
        last(n) == CHOOSE k \in DOMAIN tuple :
                     /\ Names(cols, k) = n
                     /\ \A j \in DOMAIN tuple : Names(cols, j) = n => j <= k
    IN [n \in names |-> tuple[last(n)]]

\* decode_relation: the newest description of a table counts.
Remembered(m) == m.cols

\* unknown_rel: a table that was not described has no name, and no columns.
Named(t) == IF rel_cache[t] = NotDescribed THEN Unknown ELSE t

Decoded(m) ==
    [op |-> m.op, table |-> Named(m.rel),
     old |-> IF m.old = NoTuple THEN NoTuple ELSE decode_tuple(m.old, rel_cache[m.rel]),
     new |-> IF m.new = NoTuple THEN NoTuple ELSE decode_tuple(m.new, rel_cache[m.rel])]

decode_truncate(m) == [op |-> "truncate", tables |-> {Named(t) : t \in m.rels}]

-----------------------------------------------------------------------------
(* Filtering *)

table_matches(t) == config.tables = {} \/ \E f \in config.tables : f[1] = t
op_matches(op) == config.ops = {} \/ op \in config.ops

\* RowFilter::should_forward: every rule of the table, on the new row or else the
\* old one.
RowOf(e) == IF e.op = "delete" THEN e.old ELSE e.new
RulesHold(e) ==
    \A k \in DOMAIN rules : rules[k][1] \in {Global, e.table} => passes(rules[k][2], RowOf(e))

should_forward(e) == table_matches(e.table) /\ op_matches(e.op) /\ RulesHold(e)

\* The names of a TRUNCATE are compared with the options as they stand.
forward_truncate(e) ==
    /\ op_matches("truncate")
    /\ config.tables = {} \/ \E t \in e.tables : <<t, "qualified">> \in config.tables

-----------------------------------------------------------------------------
(* Transforming *)

Without(row, c) == [n \in DOMAIN row \ {c} |-> row[n]]
With(row, c, v) == [n \in DOMAIN row \cup {c} |-> IF n = c THEN v ELSE row[n]]

MutantRenamed(row, renames) ==   \* each column goes back before the next is taken out
    LET move(r, p) ==
          IF p[1] \in DOMAIN r THEN With(Without(r, p[1]), p[2], r[p[1]]) ELSE r
    IN FoldLeft(move, row, renames)

\* apply_transforms on one row: drop; then take every renamed column out; then put
\* them back under their new names.
Renamed(row, renames) ==
    LET take(acc, p) ==
          IF p[1] \in DOMAIN acc[1]
          THEN <<Without(acc[1], p[1]), Append(acc[2], <<p[2], acc[1][p[1]]>>)>>
          ELSE acc
        taken == FoldLeft(take, <<row, <<>>>>, renames)
        put(r, nv) == With(r, nv[1], nv[2])
    IN FoldLeft(put, taken[1], taken[2])

apply_transforms(row, dropped, renames) ==
    IF row = NoTuple THEN NoTuple ELSE Renamed(FoldLeft(Without, row, dropped), renames)

\* ColumnTransforms::apply: the entries of the table and the global ones, in order.
Transformed(e) ==
    LET one(v, en) ==
          IF en[1] \notin {Global, v.table} THEN v
          ELSE [v EXCEPT !.old = apply_transforms(@, en[2], en[3]),
                         !.new = apply_transforms(@, en[2], en[3])]
    IN FoldLeft(one, e, entries)

-----------------------------------------------------------------------------
(* The server *)

Columns(t) == Shapes[t][shape[t]]

\* A tuple has a cell for each column its table has.
Fits(tuple, cols) == tuple = NoTuple \/ DOMAIN tuple = DOMAIN cols

Tuples(op, cols) == {c \in Cells[op] : Fits(c.old, cols) /\ Fits(c.new, cols)}

RowChange(t, op, cols, c) ==
    [op |-> op, rel |-> t, cols |-> [r \in {t} |-> cols], old |-> c.old, new |-> c.new]

Change(t, op) ==
    /\ Len(wal) < MaxChanges
    /\ \E c \in Tuples(op, Columns(t)) : wal' = Append(wal, RowChange(t, op, Columns(t), c))
    /\ UNCHANGED <<configVars, shape, sent, described, sessionVars, drops>>

Truncate(ts) ==
    /\ Len(wal) < MaxChanges
    /\ wal' = Append(wal, [op |-> "truncate", cols |-> [r \in ts |-> Columns(r)]])
    /\ UNCHANGED <<configVars, shape, sent, described, sessionVars, drops>>

AlterTable(t) ==
    /\ shape[t] < Len(Shapes[t])
    /\ shape' = [shape EXCEPT ![t] = @ + 1]
    /\ UNCHANGED <<configVars, wal, sent, described, sessionVars, drops>>

\* What travels: a description of a table, or the change at position p.
Relation(t, cols) == [tag |-> "R", rel |-> t, cols |-> cols]
Message(p) ==
    LET c == wal[p] IN
    IF c.op = "truncate" THEN [tag |-> "T", at |-> p, rels |-> DOMAIN c.cols]
    ELSE [tag |-> "row", at |-> p, rel |-> c.rel, op |-> c.op, old |-> c.old, new |-> c.new]

\* The orders in which tables may be described.
Orders(ts) == {f \in [1 .. Cardinality(ts) -> ts] : Range(f) = ts /\ IsInjective(f)}

\* The walsender decodes a change with the columns its table had at the time.
SendChange ==
    /\ sent < Len(wal)
    /\ LET cols == wal[sent + 1].cols IN
       /\ \E news \in Orders({t \in DOMAIN cols : described[t] # cols[t]}) :
            wire' = wire \o [k \in DOMAIN news |-> Relation(news[k], cols[news[k]])]
                         \o <<Message(sent + 1)>>
       /\ described' = [t \in Tables |-> IF t \in DOMAIN cols THEN cols[t] ELSE described[t]]
    /\ sent' = sent + 1
    /\ UNCHANGED <<configVars, shape, wal, rel_cache, handled, delivered, drops>>

-----------------------------------------------------------------------------
(* The session *)

\* What a sink is given.
Told(t, cols) == [type |-> "relation", table |-> t, cols |-> cols]
Given(p, e)   == [type |-> "change", at |-> p, event |-> e]

MutantAnnounced(m) ==   \* a table that is known already is no news
    IF config.schema /\ rel_cache[m.rel] = NotDescribed THEN <<Told(m.rel, m.cols)>> ELSE <<>>

\* --emit-schema forwards descriptions.
Announced(m) == IF config.schema THEN <<Told(m.rel, m.cols)>> ELSE <<>>

HandleRelation ==
    /\ wire # <<>>
    /\ Head(wire).tag = "R"
    /\ LET m == Head(wire)
       IN /\ rel_cache' = [rel_cache EXCEPT ![m.rel] = Remembered(m)]
          /\ delivered' = delivered \o Announced(m)
    /\ wire' = Tail(wire)
    /\ UNCHANGED <<configVars, serverVars, handled, drops>>

\* The XLogData arm: the gate looks at the event before its columns are changed.
MutantOutcome(p, e) ==
    IF should_forward(Transformed(e)) THEN <<Given(p, Transformed(e))>> ELSE <<>>
Outcome(p, e) == IF should_forward(e) THEN <<Given(p, Transformed(e))>> ELSE <<>>

HandleRow ==
    /\ wire # <<>>
    /\ Head(wire).tag = "row"
    /\ delivered' = delivered \o Outcome(Head(wire).at, Decoded(Head(wire)))
    /\ wire' = Tail(wire)
    /\ handled' = handled + 1
    /\ UNCHANGED <<configVars, serverVars, rel_cache, drops>>

\* No transform has a table of a TRUNCATE to apply to.
HandleTruncate ==
    /\ wire # <<>>
    /\ Head(wire).tag = "T"
    /\ LET e == decode_truncate(Head(wire))
       IN delivered' = IF forward_truncate(e)
                       THEN Append(delivered, Given(Head(wire).at, e)) ELSE delivered
    /\ wire' = Tail(wire)
    /\ handled' = handled + 1
    /\ UNCHANGED <<configVars, serverVars, rel_cache, drops>>

\* A lost connection: the next session has an empty cache, and the walsender,
\* which is a new one, too, begins with the changes that were not handled.
NewSession ==
    /\ drops < MaxDrops
    /\ drops' = drops + 1
    /\ wire' = <<>>
    /\ rel_cache' = [t \in Tables |-> NotDescribed]
    /\ sent' = handled
    /\ described' = [t \in Tables |-> NotDescribed]
    /\ UNCHANGED <<configVars, shape, wal, handled, delivered>>

-----------------------------------------------------------------------------
PipelineInit ==
    /\ config \in Configs
    /\ rules = ParsedRules(config.where)
    /\ entries = from_sources(config)
    /\ shape = [t \in Tables |-> 1]
    /\ wal = <<>>
    /\ sent = 0
    /\ described = [t \in Tables |-> NotDescribed]
    /\ wire = <<>>
    /\ rel_cache = [t \in Tables |-> NotDescribed]
    /\ handled = 0
    /\ delivered = <<>>
    /\ drops = 0

PipelineNext ==
    \/ \E t \in Tables, op \in DOMAIN Cells : Change(t, op)
    \/ \E ts \in Truncates : Truncate(ts)
    \/ \E t \in Tables : AlterTable(t)
    \/ SendChange
    \/ HandleRelation
    \/ HandleTruncate
    \/ HandleRow
    \/ NewSession

PipelineSpec == PipelineInit /\ [][PipelineNext]_pipelineVars

-----------------------------------------------------------------------------
(* Properties *)

RowOfTuple(tuple, cols) ==
    IF tuple = NoTuple THEN NoTuple
    ELSE [n \in Range(cols) |-> tuple[CHOOSE k \in DOMAIN cols : cols[k] = n]]

\* The change as the server made it, with its columns.
Original(c) ==
    [op |-> c.op, table |-> c.rel,
     old |-> RowOfTuple(c.old, c.cols[c.rel]), new |-> RowOfTuple(c.new, c.cols[c.rel])]

\* The row a --where is about.
Subject(c) == RowOf(Original(c))

\* The command line selects a change of its operations and of its tables, whether
\* they are named bare or qualified, if SQL finds every --where of the table true.
Selected(c) ==
    /\ config.ops = {} \/ c.op \in config.ops
    /\ config.tables = {} \/ \E f \in config.tables : f[1] \in DOMAIN c.cols
    /\ c.op # "truncate" =>
       \A k \in DOMAIN config.where :
         config.where[k][1] \in {Global, c.rel} =>
             SqlTrue(config.where[k][2], Subject(c))

\* Column n of a row after the rules of one key of a command line: the last rename to n that found
\* its column gives the value; else the row's own n, if no rule took it away.
Ruled(line, row, key) ==
    LET dropped == UNION {Range(line.drops[k][2]) :
                            k \in {j \in DOMAIN line.drops : line.drops[j][1] = key}}
        pairs == FlattenSeq([k \in DOMAIN line.renames |->
                               IF line.renames[k][1] = key THEN line.renames[k][2] ELSE <<>>])
        kept == DOMAIN row \ dropped
        found == {k \in DOMAIN pairs :
                    /\ pairs[k][1] \in kept
                    /\ \A j \in 1 .. k - 1 : pairs[j][1] # pairs[k][1]}
        to(n) == {k \in found : pairs[k][2] = n}
        names == (kept \ {pairs[k][1] : k \in found}) \cup {pairs[k][2] : k \in found}
        latest(n) == CHOOSE k \in to(n) : \A j \in to(n) : j <= k
    IN [n \in names |-> IF to(n) # {} THEN row[pairs[latest(n)][1]] ELSE row[n]]

\* The keys that apply to a table, in the order in which the command line first
\* names them, all drops before all renames.
KeysFor(line, t) ==
    LET named == [k \in DOMAIN line.drops |-> line.drops[k][1]]
                   \o [k \in DOMAIN line.renames |-> line.renames[k][1]]
        first(ks, k) == IF k \in Range(ks) \/ k \notin {Global, t} THEN ks ELSE Append(ks, k)
    IN FoldLeft(first, <<>>, named)

DeclaredBy(line, c) ==
    LET rule(row, key) == Ruled(line, row, key)
        after(row) == IF row = NoTuple THEN NoTuple ELSE FoldLeft(rule, row, KeysFor(line, c.rel))
    IN [Original(c) EXCEPT !.old = after(@), !.new = after(@)]

Declared(c) == DeclaredBy(config, c)

\* What the sink is to be given for a change.
Event(c) ==
    IF c.op = "truncate" THEN [op |-> "truncate", tables |-> DOMAIN c.cols] ELSE Declared(c)

\* The changes of rows the server can log.
RowChanges ==
    UNION {UNION {{RowChange(t, op, cols, c) : c \in Tuples(op, cols)} : cols \in Range(Shapes[t])} :
             t \in Tables, op \in DOMAIN Cells}

\* Parsing a --where gives back the expression that was written, and it passes
\* the rows that SQL selects.
FiltersAsSql ==
    /\ rules = config.where
    /\ \A k \in DOMAIN rules, c \in RowChanges :
         passes(rules[k][2], Subject(c)) <=> SqlTrue(rules[k][2], Subject(c))

\* The drops and renames of a command line, merged and applied entry by entry,
\* do to the two rows of a change what each rule declares.
TransformsAsDeclared == \A c \in RowChanges : Transformed(Original(c)) = Declared(c)

\* The rules of a command line mean to one row what they mean to a reader who
\* knows SQL's precedence and reads each --drop-cols and --rename by itself.
RulesMeanWhatTheySay == FiltersAsSql /\ TransformsAsDeclared

Deliveries == {i \in DOMAIN delivered : delivered[i].type = "change"}

\* The positions of the changes the sink was given, and of those it was to be given.
GivenAt == {delivered[i].at : i \in Deliveries}
Due == {p \in 1 .. handled : Selected(wal[p])}

\* None of the tables a change is of is typed in full.
TypedBare(c) ==
    /\ config.tables # {}
    /\ \A f \in config.tables : f[1] \in DOMAIN c.cols => f[2] = "bare"

\* Through ALTER TABLE, reconnects and whatever is on the way, the sink is given
\* the changes the command line selects and no others, each once, in the order of
\* the WAL, under the column names their tables had, and as the drops and renames
\* declare.  (mod.rs:122 has --table take bare names as well, but where none of its
\* tables is typed in full a TRUNCATE is missing.)
DeliveredAsDeclared ==
    /\ \A i \in Deliveries : delivered[i].event = Event(wal[delivered[i].at])
    /\ \A i, j \in Deliveries : i < j => delivered[i].at < delivered[j].at
    /\ GivenAt \subseteq Due
    /\ \A p \in Due \ GivenAt : wal[p].op = "truncate" /\ TypedBare(wal[p])

\* The last description of a table among the first n things the sink was given.
LastTold(n, t, cols) ==
    \E i \in 1 .. n :
        /\ delivered[i] = Told(t, cols)
        /\ \A j \in i + 1 .. n : ~(delivered[j].type = "relation" /\ delivered[j].table = t)

\* With --emit-schema a sink is told a table's columns before any change of it,
\* and again before a change that was made with other columns.
SchemaBeforeRow ==
    config.schema =>
        \A i \in Deliveries : \A t \in DOMAIN wal[delivered[i].at].cols :
            LastTold(i - 1, t, wal[delivered[i].at].cols[t])

-----------------------------------------------------------------------------
(* The inductive invariant behind them *)

PipelineTypeOK ==
    /\ config \in Configs
    /\ shape \in [Tables -> Nat]
    /\ \A t \in Tables : shape[t] \in DOMAIN Shapes[t]
    /\ wal \in Seq(Range(wal))
    /\ wire \in Seq(Range(wire))
    /\ delivered \in Seq(Range(delivered))
    /\ sent \in 0 .. Len(wal)
    /\ handled \in 0 .. sent
    /\ drops \in 0 .. MaxDrops
    /\ described \in [Tables -> Seq(STRING)]
    /\ rel_cache \in [Tables -> Seq(STRING)]

\* Every change was made to tables of the publication, with columns they had.
WalInv ==
    \A p \in DOMAIN wal :
        \/ wal[p] \in RowChanges
        \/ /\ wal[p].op = "truncate"
           /\ DOMAIN wal[p].cols \in Truncates
           /\ \A t \in DOMAIN wal[p].cols : wal[p].cols[t] \in Range(Shapes[t])

IsChange(i) == wire[i].tag # "R"

\* What the session will know of table t when it has taken n messages.
Knows(n, t, cols) ==
    \/ rel_cache[t] = cols /\ \A j \in 1 .. n : wire[j].tag = "R" => wire[j].rel # t
    \/ \E i \in 1 .. n :
         /\ wire[i] = Relation(t, cols)
         /\ \A j \in i + 1 .. n : wire[j].tag = "R" => wire[j].rel # t

\* On the way are the changes sent and not handled, in order, each behind the
\* descriptions it is decoded by.
WireInv ==
    /\ \A i \in DOMAIN wire :
         IF IsChange(i)
         THEN /\ wire[i].at \in handled + 1 .. sent
              /\ wire[i] = Message(wire[i].at)
              /\ \A t \in DOMAIN wal[wire[i].at].cols : Knows(i, t, wal[wire[i].at].cols[t])
         ELSE /\ wire[i] = Relation(wire[i].rel, wire[i].cols)
              /\ wire[i].rel \in Tables /\ wire[i].cols \in Seq(STRING)
    /\ \A i, j \in DOMAIN wire :
         IsChange(i) /\ IsChange(j) /\ i < j => wire[i].at < wire[j].at
    /\ \A p \in handled + 1 .. sent : \E i \in DOMAIN wire : IsChange(i) /\ wire[i].at = p
    /\ \A t \in Tables : Knows(Len(wire), t, described[t])

\* The sink was last told what the session knows.
ToldInv ==
    config.schema =>
        \A t \in Tables : rel_cache[t] # NotDescribed => LastTold(Len(delivered), t, rel_cache[t])

DeliveredInv ==
    \A i \in DOMAIN delivered :
        \/ /\ delivered[i].type = "relation"
           /\ delivered[i] = Told(delivered[i].table, delivered[i].cols)
        \/ /\ delivered[i].type = "change"
           /\ delivered[i] = Given(delivered[i].at, delivered[i].event)
           /\ delivered[i].at \in 1 .. handled

PipelineInv ==
    /\ PipelineTypeOK
    /\ WalInv
    /\ WireInv
    /\ DeliveredInv
    /\ ToldInv
    /\ SchemaBeforeRow
=============================================================================
