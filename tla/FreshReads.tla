----------------------------- MODULE FreshReads -----------------------------
(***************************************************************************)
(* What the lane overlay promises its readers, with no cache, no mutex and   *)
(* no generation: a list shows the fleet as it was at some moment, not       *)
(* before the last change that was acknowledged when its call began, and not *)
(* before what an earlier list has shown.                                  *)
(***************************************************************************)
EXTENDS Naturals

CONSTANT Readers

VARIABLES
  now,     \* changes made to the fleet
  acked,   \* the latest change acknowledged to the client that asked for it
  newest,  \* the latest change that a list has shown
  call,    \* of each reader: "none", "asked" or "told"
  from,    \* acked when the call began
  list     \* the list a reader was told, while its call lasts

reads == <<now, acked, newest, call, from, list>>

Init ==
  /\ now = 0 /\ acked = 0 /\ newest = 0
  /\ call = [r \in Readers |-> "none"]
  /\ from = [r \in Readers |-> 0] /\ list = [r \in Readers |-> 0]

Change ==
  /\ now' = now + 1
  /\ UNCHANGED <<acked, newest, call, from, list>>

Acknowledge ==
  /\ acked' \in acked..now
  /\ UNCHANGED <<now, newest, call, from, list>>

Ask(r) ==
  /\ call[r] = "none" /\ call' = [call EXCEPT ![r] = "asked"]
  /\ from' = [from EXCEPT ![r] = acked]
  /\ UNCHANGED <<now, acked, newest, list>>

Tell(r) ==
  /\ call[r] = "asked" /\ call' = [call EXCEPT ![r] = "told"]
  /\ newest' \in newest..now /\ newest' >= from[r]
  /\ list' = [list EXCEPT ![r] = newest']
  /\ UNCHANGED <<now, acked, from>>

\* the call returns, or its client hangs up
End(r) ==
  /\ call' = [call EXCEPT ![r] = "none"]
  /\ from' = [from EXCEPT ![r] = 0] /\ list' = [list EXCEPT ![r] = 0]
  /\ UNCHANGED <<now, acked, newest>>

Next == Change \/ Acknowledge \/ \E r \in Readers : Ask(r) \/ Tell(r) \/ End(r)

Spec == Init /\ [][Next]_reads
=============================================================================
