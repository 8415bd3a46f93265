---------------------------- MODULE MCFleetMail ----------------------------
(* One window and its mail: operator mail only, or operator mail, then agent mail. *)
EXTENDS FleetMail
CONSTANTS w1
OneWindow == [m \in Msgs |-> w1]
MixedClass == [m \in Msgs |-> IF m = 1 THEN "operator" ELSE "agent"]
OperatorClass == [m \in Msgs |-> "operator"]
=============================================================================
