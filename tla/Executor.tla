------------------------------- MODULE Executor -------------------------------
(***************************************************************************)
(* The document of a named query: the rows of its root fields, and in each *)
(* row the rows of its child fields, level by level.  Several root rows    *)
(* are resolved together, one alone, and a resolver with `batch_by` asks   *)
(* once for all parents.  The queries of one document may run at different *)
(* moments (DataLoader, which this module extends, says what a load may    *)
(* see); here the document is a function of one state of the database.     *)
(*                                                                         *)
(* A row is a function from names to cells: a column holds a key as text,  *)
(* a resolved field the rows below it.  A result is <<>> when the document *)
(* fails, or <<value>>.                                                    *)
(***************************************************************************)
EXTENDS DataLoader, SequencesExt

CONSTANTS
    ChildIds,   \* ChildIds[v]: the keys of the rows below a key in its version v
    Resolvers,  \* per field name: the name of its parameter, `param`
    Queries,    \* named queries, with the rows each root resolver returns
    max_depth

Names == DOMAIN Resolvers

ASSUME ExecutorAssumption ==
    /\ ChildIds \in [1 .. MaxWrites -> Seq(Keys \cup {Absent})]
    /\ max_depth \in Nat

Column(k) == [text |-> k]
Nested(rows, folded) == [rows |-> rows, folded |-> folded]

\* obj.get(param).map(batch_key): null, no such column and a resolved field all
\* give a key no row has.
batch_key(row, param) ==
    IF param \in DOMAIN row /\ "text" \in DOMAIN row[param] THEN row[param].text ELSE Absent

-----------------------------------------------------------------------------
(* The database *)

RowsOf(k) ==
    IF db[k] = 0 THEN <<>>
    ELSE [c \in DOMAIN ChildIds[db[k]] |->
            [id |-> Column(ChildIds[db[k]][c]), up |-> Column(k)]]

Table == FlattenSeq([i \in 1 .. Cardinality(Keys) |-> RowsOf(SetToSeq(Keys)[i])])

\* The resolver's SQL with ANY($1).
run_rows_array(keys) == SelectSeq(Table, LAMBDA row : row.up.text \in keys)

-----------------------------------------------------------------------------
(* resolve_field_for_parents; `batched` are the fields with batch_by *)

\* Result::collect.
Collected(results) ==
    IF \E i \in DOMAIN results : results[i] = <<>> THEN <<>>
    ELSE <<[i \in DOMAIN results |-> results[i][1]]>>

\* One load for all parents, whose rows are handed out by their batch column.
MutantHandedOut(rows, key) == rows   \* not told apart by their key
HandedOut(rows, key) == SelectSeq(rows, LAMBDA row : row.up.text = key)

ChildrenOf(field, parents, p, batched) ==
    LET key(i) == batch_key(parents[i], Resolvers[field.name].param)
    IN IF field.name \in batched
       THEN HandedOut(run_rows_array({key(i) : i \in DOMAIN parents} \ {Absent}), key(p))
       ELSE run_rows_array({key(p)})

\* Leaves, and fields nobody can resolve, are passed over.
Relations(fields) == SelectSeq(fields, LAMBDA f : f.children # <<>> /\ f.name \in Names)

RECURSIVE resolve_children_with_depth(_, _, _, _)

resolve_field_for_parents(field, parents, batched, next_depth) ==
    Collected([p \in DOMAIN parents |->
        LET rows == ChildrenOf(field, parents, p, batched)
        IN Collected([c \in DOMAIN rows |->
               resolve_children_with_depth(rows[c], field.children, batched, next_depth)])])

Insert(row, name, cell) == (name :> cell) @@ row

\* One row: its fields are resolved side by side, then inserted.  A single child
\* without batch_by is folded into an object.
resolve_children_with_depth(row, fields, batched, depth) ==
    LET todo     == Relations(fields)
        resolved == Collected([i \in DOMAIN todo |->
                        resolve_field_for_parents(todo[i], <<row>>, batched, depth + 1)])
        cell(i)  == LET rows == resolved[1][i][1]
                    IN Nested(rows, Len(rows) = 1 /\ todo[i].name \notin batched)
    IN IF depth > max_depth \/ resolved = <<>> THEN <<>>
       ELSE <<FoldLeftDomain(LAMBDA done, i : Insert(done, todo[i].name, cell(i)), row, todo)>>

\* Many rows: one field after the other, each seeing what was inserted before it.
resolve_children_batched(rows, fields, batched) ==
    FoldLeft(LAMBDA done, field :
                 IF done = <<>> THEN <<>>
                 ELSE LET found == resolve_field_for_parents(field, done[1], batched, 0)
                      IN IF found = <<>> THEN <<>>
                         ELSE <<[r \in DOMAIN rows |->
                                   Insert(done[1][r], field.name, Nested(found[1][r], FALSE))]>>,
             <<rows>>, Relations(fields))

\* The rows found so far are resolved again for every root field.
Together(rows) == Len(rows) > 1

RootRows(query, batched) ==
    FoldLeft(LAMBDA done, field :
                 IF done = <<>> \/ ~field.found THEN <<>>
                 ELSE LET rows == done[1] \o field.rows
                      IN IF field.children = <<>> THEN <<rows>>
                         ELSE IF Together(rows)
                         THEN resolve_children_batched(rows, field.children, batched)
                         ELSE Collected([r \in DOMAIN rows |->
                                resolve_children_with_depth(rows[r], field.children, batched, 0)]),
             << <<>> >>, query)

execute(query, batched) ==
    LET rows == RootRows(query, batched)
    IN IF rows = <<>> THEN <<>> ELSE <<Nested(rows[1], Len(rows[1]) = 1)>>

-----------------------------------------------------------------------------
(* Properties *)

\* The reference: below a row, every row whose batch column is its parameter.
RECURSIVE Joined(_, _)
Joined(row, fields) ==
    LET todo  == Relations(fields)
        names == {todo[i].name : i \in DOMAIN todo}
        below(f) == SelectSeq(Table, LAMBDA child :
                        child.up.text = batch_key(row, Resolvers[f.name].param))
        cell(f)  == [rows |-> [c \in DOMAIN below(f) |-> Joined(below(f)[c], f.children)]]
    IN [n \in DOMAIN row \cup names |->
          IF n \in names THEN cell(todo[CHOOSE i \in DOMAIN todo : todo[i].name = n])
          ELSE row[n]]

\* A row without the folding of single children.
RECURSIVE Unfolded(_)
Unfolded(row) ==
    [n \in DOMAIN row |->
       IF "text" \in DOMAIN row[n] THEN row[n]
       ELSE [rows |-> [c \in DOMAIN row[n].rows |-> Unfolded(row[n].rows[c])]]]

RECURSIVE Height(_)
Height(fields) ==
    LET todo == Relations(fields)
    IN IF todo = <<>> THEN 0 ELSE 1 + Max({Height(todo[i].children) : i \in DOMAIN todo})

\* No root field resolves a name twice, or one that another takes its parameter from.
Untangled(query) ==
    LET all   == FlattenSeq([i \in DOMAIN query |-> Relations(query[i].children)])
        names == [i \in DOMAIN all |-> all[i].name]
    IN /\ IsInjective(names)
       /\ \A i \in DOMAIN all : Resolvers[names[i]].param \notin Range(names)

Before(query, i) == Len(FlattenSeq([j \in 1 .. i - 1 |-> query[j].rows]))

\* Whether a field has batch_by, and whether its parent is resolved alone or with
\* others, is seen in the shape of a document and not in what it holds: below
\* every row of a root field are the rows that one query for each parent finds,
\* and a document within max_depth is never refused.  (Every state the database
\* reaches it reaches also at time 0 with no load begun.)
DocumentComplete ==
    (now = 0 /\ \A l \in Loads : loader[l] = Idle) =>
      \A query \in Queries, batched \in SUBSET Names :
        (Untangled(query) /\ \A i \in DOMAIN query : query[i].found) =>
          LET doc == execute(query, batched)
          IN /\ (doc = <<>>) <=> (execute(query, {}) = <<>>)
             /\ doc = <<>> => \E i \in DOMAIN query : Height(query[i].children) > max_depth
             /\ doc # <<>> =>
                  \A i \in DOMAIN query : \A r \in DOMAIN query[i].rows :
                    LET want == Joined(query[i].rows[r], query[i].children)
                        got  == Unfolded(doc[1].rows[Before(query, i) + r])
                    IN Restrict(got, DOMAIN want) = want
=============================================================================
