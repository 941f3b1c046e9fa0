----------------------------- MODULE MCSessionLoop -----------------------------
(***************************************************************************)
(* Instances of SessionLoop for TLC.                                       *)
(***************************************************************************)
EXTENDS SessionLoop, TLC

AllCommands == {"replicate", "listen", "consume"}
Attempts    == "replicate" :> 0 @@ "listen" :> 3 @@ "consume" :> 2
=============================================================================
