----------------------------- MODULE MCRowPipeline -----------------------------
(***************************************************************************)
(* An instance of RowPipeline for TLC: one table that is altered, one that *)
(* is not, and command lines chosen for the hard cases of their grammars.  *)
(***************************************************************************)
EXTENDS RowPipeline, RowFilter

Numbers == "10" :> 10 @@ "9" :> 9 @@ "NaN" :> NaN @@ "abc" :> NotNumber
Ranks == "10" :> 1 @@ "9" :> 2 @@ "NaN" :> 3 @@ "abc" :> 4
NumberTexts == 9 :> "9" @@ 10 :> "10"

TwoShapes == "t1" :> <<<<"a", "b">>, <<"b", "a">>>> @@ "t2" :> <<<<"a", "b">>>>

ParsedRule(e) == parse(Written(e)).e
SqlSelects(e, row) == Sql(e, row) = 2

Pair(x, y) == <<x, y>>
SomeTuples == {Pair(Text("9"), Text("abc")), Pair(Text("10"), Null), Pair(Text("NaN"), Text("10")),
           Pair(Text("abc"), Unchanged)}
SomeCells ==
    "insert" :> {[old |-> NoTuple, new |-> n] : n \in SomeTuples \ {Pair(Text("abc"), Unchanged)}}
    @@ "update" :> {[old |-> o, new |-> Pair(Text("abc"), Unchanged)] :
                      o \in {NoTuple, Pair(Text("9"), Null)}}
    @@ "delete" :> {[old |-> Pair(Text("9"), Null), new |-> NoTuple]}

SomeTruncates == {{"t1"}, {"t1", "t2"}}

A == Compare("a", "<", Num(10))
B == Compare("b", "=", Str("abc"))
C == IsNull("b")
D == Compare("a", "!=", Str("10"))
E == IsNotNull("a")

Exprs == {A, D, Compare("b", "!=", NullLiteral),
          And(A, Or(B, C)), Or(And(A, B), C), Or(A, And(B, C)), And(Or(A, B), C),
          And(A, And(B, E)), And(And(A, E), B), Or(A, Or(B, C)), Or(Or(A, B), C),
          Or(Or(A, And(B, E)), C), And(And(A, Or(B, C)), D)}

Plain == [tables |-> {}, ops |-> {}, schema |-> FALSE, where |-> <<>>, drops |-> <<>>,
          renames |-> <<>>]

FilterConfigs ==
    {[Plain EXCEPT !.where = <<<<Global, e>>>>] : e \in Exprs}
    \cup {[Plain EXCEPT !.where = <<<<"t1", A>>, <<Global, C>>>>, !.ops = {"insert", "delete"}],
          [Plain EXCEPT !.tables = {<<"t1", "bare">>}, !.schema = TRUE],
          [Plain EXCEPT !.tables = {<<"t1", "bare">>, <<"t2", "qualified">>}, !.ops = {"truncate"}],
          [Plain EXCEPT !.tables = {<<"t2", "qualified">>}, !.ops = {"truncate", "update"}]}

Swap == <<<<"a", "b">>, <<"b", "a">>>>
TransformConfigs ==
    {[Plain EXCEPT !.renames = r] :
        r \in {<<<<Global, Swap>>>>,
               <<<<Global, <<<<"a", "b">>>>>>>>,
               <<<<"t1", <<<<"a", "c">>, <<"a", "d">>>>>>>>,
               <<<<"t1", <<<<"a", "c">>>>>>, <<"t1", <<<<"b", "c">>>>>>>>,
               <<<<"t1", <<<<"a", "c">>>>>>, <<Global, <<<<"c", "d">>>>>>, <<"t1", <<<<"b", "a">>>>>>>>}}
    \cup {[Plain EXCEPT !.drops = <<<<Global, <<"a">>>>>>, !.renames = <<<<Global, Swap>>>>],
          [Plain EXCEPT !.drops = <<<<"t1", <<"b">>>>>>, !.renames = <<<<Global, <<<<"a", "b">>>>>>>>,
                        !.where = <<<<Global, B>>>>]}

SomeConfigs == FilterConfigs \cup TransformConfigs
=============================================================================
