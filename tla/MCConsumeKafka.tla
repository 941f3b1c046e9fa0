---------------------------- MODULE MCConsumeKafka ----------------------------
(***************************************************************************)
(* Instances of ConsumeKafka for TLC.                                      *)
(***************************************************************************)
EXTENDS ConsumeKafka, Bitwise, TLC

CONSTANTS a, b, c, d

IntegerOr(x, y) == x | y

\* Two partitions; d is unusable.
AllMessages == {a, b, c, d}
TwoLogs     == 0 :> <<a, d, b>> @@ 1 :> <<c>>
Positions   == a :> "0:0" @@ d :> "0:1" @@ b :> "0:2" @@ c :> "1:0"
AllFates    == a :> "ok" @@ b :> "ok" @@ c :> "ok" @@ d :> "parse"
FromZero    == 0 :> 0 @@ 1 :> 0
Usable      == [m \in AllMessages |-> "ok"]
=============================================================================
