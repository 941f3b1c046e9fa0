------------------------------ MODULE MCWalBuffers ------------------------------
(***************************************************************************)
(* An instance of WalBuffers for TLC: two transactions on two tables, the  *)
(* second still open.                                                      *)
(***************************************************************************)
EXTENDS WalBuffers

SomeStream == <<"t1", "t2", NoRow, "t1", "t1">>
SomeStarts == {1, 4}
=============================================================================
