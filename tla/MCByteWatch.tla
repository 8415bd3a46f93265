---------------------------- MODULE MCByteWatch ----------------------------
(* How many stream instances a run may open. *)
EXTENDS ByteWatch
Two == 1..2
=============================================================================
