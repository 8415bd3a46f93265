---------------------------- MODULE PushLedger ----------------------------
(***************************************************************************)
(* What fleet mail promises of terminal pushes, with no store, no worker    *)
(* and no terminal: a message has at most one owner at a time; its owner    *)
(* pushes it, gives it back untouched, or spends it; a message that was     *)
(* pushed, or whose push is uncertain, is never taken again.               *)
(***************************************************************************)
CONSTANTS Msgs, Actors, Nobody  \* Nobody is not an actor

VARIABLES
  owner,   \* who may push each message now
  pushed,  \* messages typed into their window
  spent    \* messages that will never be pushed (again)

ledger == <<owner, pushed, spent>>

Init ==
  /\ owner = [m \in Msgs |-> Nobody]
  /\ pushed = {} /\ spent = {}

Take(a, m) ==
  /\ owner[m] = Nobody /\ m \notin pushed \cup spent
  /\ owner' = [owner EXCEPT ![m] = a]
  /\ UNCHANGED <<pushed, spent>>

Push(a, m) ==
  /\ owner[m] = a /\ m \notin pushed
  /\ owner' = [owner EXCEPT ![m] = Nobody]
  /\ pushed' = pushed \cup {m}
  /\ UNCHANGED spent

GiveBack(a, m) ==
  /\ owner[m] = a
  /\ owner' = [owner EXCEPT ![m] = Nobody]
  /\ UNCHANGED <<pushed, spent>>

\* deletion, a failed attempt, or a crash that ends several attempts at once
Spend(S) ==
  /\ S \cap pushed = {}
  /\ owner' = [m \in Msgs |-> IF m \in S THEN Nobody ELSE owner[m]]
  /\ spent' = spent \cup S
  /\ UNCHANGED pushed

Next ==
  \/ \E a \in Actors, m \in Msgs : Take(a, m) \/ Push(a, m) \/ GiveBack(a, m)
  \/ \E S \in SUBSET Msgs : Spend(S)

Spec == Init /\ [][Next]_ledger
=============================================================================
