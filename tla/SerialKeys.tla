----------------------------- MODULE SerialKeys -----------------------------
(***************************************************************************)
(* What a connection promises the client that sends it requests, with no    *)
(* tasks, no one-shots and no writer: requests are taken in wire order, as   *)
(* many as there are places; one of an ordering key runs only when all of    *)
(* its key before it are over; what runs is answered once, or lost alone;    *)
(* and when the connection closes, whatever it has taken is over.            *)
(***************************************************************************)
EXTENDS Naturals, Sequences, FiniteSets

CONSTANTS
  Requests,  \* numbered in wire order
  Key, Free, \* the ordering key of each request; Free joins none
  Places     \* requests taken and not over, at most

VARIABLES
  phase,     \* of each request: "sent", "taken", "running" or "over"
  replies,   \* the answers given, in order
  open       \* the connection

serial == <<phase, replies, open>>

Init ==
  /\ phase = [r \in Requests |-> "sent"]
  /\ replies = <<>> /\ open = TRUE

Taken == {r \in Requests : phase[r] \in {"taken", "running"}}
Before(q, r) == q < r /\ Key[q] = Key[r] /\ Key[q] # Free
Reaches(r, label) == phase' = [phase EXCEPT ![r] = label]

Take(r) ==
  /\ open /\ phase[r] = "sent" /\ Reaches(r, "taken")
  /\ \A q \in Requests : q < r => phase[q] # "sent"
  /\ Cardinality(Taken) < Places
  /\ UNCHANGED <<replies, open>>

Run(r) ==
  /\ phase[r] = "taken" /\ Reaches(r, "running")
  /\ \A q \in Requests : Before(q, r) => phase[q] = "over"
  /\ UNCHANGED <<replies, open>>

Reply(r) ==
  /\ phase[r] = "running" /\ Reaches(r, "over")
  /\ replies' = Append(replies, r)
  /\ UNCHANGED open

Lose(r) ==
  /\ phase[r] = "running" /\ Reaches(r, "over")
  /\ UNCHANGED <<replies, open>>

Close ==
  /\ open /\ open' = FALSE
  /\ phase' = [r \in Requests |-> IF r \in Taken THEN "over" ELSE phase[r]]
  /\ UNCHANGED replies

Next == Close \/ \E r \in Requests : Take(r) \/ Run(r) \/ Reply(r) \/ Lose(r)

Spec == Init /\ [][Next]_serial
=============================================================================
