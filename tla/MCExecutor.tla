------------------------------ MODULE MCExecutor ------------------------------
(* An instance of DataLoader and Executor for TLC: two keys, loads that overlap. *)
EXTENDS Executor

CONSTANTS k1, k2

TwoKeys == {k1, k2}
SomeParents == {<<k1>>, <<k2, k1, k2>>, <<Absent, k2>>, <<Absent>>}
Symmetry == Permutations(Loads)

\* One child, or three: the second in a circle, the last without a key.
SomeChildIds == << <<k2>>, <<k2, k1, Absent>> >>

\* "sizes" and "parts" go down, "parent" up; "tags" has no column of that name.
SomeResolvers ==
    [sizes |-> [param |-> "id"], parts |-> [param |-> "id"],
     parent |-> [param |-> "up"], tags |-> [param |-> "tags"]]

Leaf == [name |-> "id", children |-> <<>>]
Field(name, children) == [name |-> name, children |-> <<Leaf>> \o children]
Root(keys, children) ==
    [found |-> TRUE, rows |-> [r \in DOMAIN keys |-> [id |-> Column(keys[r])]],
     children |-> children]

Tree  == <<Leaf, Field("sizes", <<Field("parts", <<>>), Field("parent", <<>>)>>),
           Field("parts", <<>>)>>
Tall  == <<Field("sizes", <<Field("parts", <<Field("sizes", <<>>)>>)>>)>>
Ghost == <<Field("ghost", <<>>), Field("parent", <<>>), Field("sizes", <<>>)>>
Tags  == <<Field("tags", <<>>)>>
SomeQueries ==
    { <<Root(<<k1>>, Tree)>>, <<Root(<<k1, k2, k1>>, Tree)>>,
      <<Root(<<k2>>, Tall)>>, <<Root(<<k2, k1>>, Tall)>>,
      <<Root(<<k1, Absent>>, Ghost)>>, <<Root(<<>>, Tree)>>,
      <<Root(<<k1>>, <<Field("sizes", <<>>)>>), Root(<<k2>>, <<Field("parts", <<>>)>>)>>,
      <<Root(<<k1>>, <<>>), Root(<<k1, k2>>, Tags)>> }
=============================================================================
