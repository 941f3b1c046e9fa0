------------------------------- MODULE MCConsume -------------------------------
(***************************************************************************)
(* Instances of ConsumeDelivery for TLC.                                   *)
(***************************************************************************)
EXTENDS ConsumeDelivery, TLC

CONSTANTS a, b, c, d

\* a was published twice (a and b carry one id), c carries no id, d is unusable.
AllMessages == {a, b, c, d}
AllIds   == a :> "x" @@ b :> "x" @@ c :> NoId @@ d :> "y"
AllFates == a :> "ok" @@ b :> "ok" @@ c :> "ok" @@ d :> "lookup"
AllSinks == {"webhook", "redis", "elasticsearch"}
=============================================================================
