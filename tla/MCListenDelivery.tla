---------------------------- MODULE MCListenDelivery ----------------------------
(***************************************************************************)
(* An instance of ListenDelivery for TLC.                                  *)
(***************************************************************************)
EXTENDS ListenDelivery, TLC

TwoChannels == <<"c1", "c2">>
\* `grow` differs from `drop_oldest` in its capacity alone.
BothBehaviors == {"drop_oldest", "block"}
Capacities == "drop_oldest" :> 2 @@ "block" :> 1
AllSinks == {"webhook", "shell", "kafka", "rabbitmq", "elasticsearch"}
Payloads == <<"hinted", "contract", "plain">>
=============================================================================
