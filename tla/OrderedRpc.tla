----------------------------- MODULE OrderedRpc -----------------------------
(***************************************************************************)
(* One connection of the local socket: the connection task reads requests    *)
(* off the wire and spawns one task each; requests of the same ordering key  *)
(* form a chain of one-shot channels, independent reads join no chain; every *)
(* task hands its answer to the writer before it releases its successor.     *)
(***************************************************************************)
EXTENDS Naturals, Sequences, FiniteSets

CONSTANTS
  Requests,    \* the requests a client sends, numbered in wire order
  Key,         \* [Requests -> keys]: ordering_key; Free for an independent read
  Free,
  MaxTasks,    \* tasks in flight before reading pauses (128 in the code)
  MaxOut,      \* answers the writer channel holds (1024 in the code)
  MaxPanics    \* bound: dispatches that panic

ASSUME RpcAssumption ==
  /\ Requests \subseteq Nat \ {0}
  /\ DOMAIN Key = Requests
  /\ MaxTasks \in Nat \ {0} /\ MaxOut \in Nat \ {0} /\ MaxPanics \in Nat

Keys == {Key[r] : r \in Requests} \ {Free}

VARIABLES
  stage,     \* of every request, see Stage
  tails,     \* ordered_tails: the last request read of each key, 0 if none
  previous,  \* the request a task waits for, 0 if none
  released,  \* requests whose one-shot was sent or dropped
  out,       \* answers in the writer's channel
  answered,  \* answers the client has received, in order
  open,      \* the connection
  panics

vars == <<stage, tails, previous, released, out, answered, open, panics>>

\* spawned: waits for its predecessor; answering: dispatch returned
Stage == {"unread", "spawned", "running", "answering", "done", "aborted"}
InFlight == {r \in Requests : stage[r] \in {"spawned", "running", "answering"}}

TypeOK ==
  /\ stage \in [Requests -> Stage]
  /\ tails \in [Keys -> Requests \cup {0}]
  /\ previous \in [Requests -> Requests \cup {0}]
  /\ released \subseteq Requests
  /\ out \in Seq(Requests) /\ Len(out) <= MaxOut
  /\ answered \in Seq(Requests)
  /\ open \in BOOLEAN /\ panics \in 0..MaxPanics
  /\ Cardinality(InFlight) <= MaxTasks

Init ==
  /\ stage = [r \in Requests |-> "unread"]
  /\ tails = [k \in Keys |-> 0]
  /\ previous = [r \in Requests |-> 0] /\ released = {}
  /\ out = <<>> /\ answered = <<>> /\ open = TRUE /\ panics = 0

Move(r, label) == stage' = [stage EXCEPT ![r] = label]
Next1 == {r \in Requests : stage[r] = "unread" /\ \A q \in Requests : q < r => stage[q] # "unread"}

\* the connection task takes the next frame and chains it
ReadBug(r) ==
  /\ open /\ r \in Next1 /\ Cardinality(InFlight) < MaxTasks
  /\ Move(r, "spawned")
  /\ IF Key[r] = Free THEN UNCHANGED <<tails, previous>>
     ELSE /\ previous' = [previous EXCEPT ![r] = tails[Key[r]]]
          /\ tails' = [tails EXCEPT ![Key[r]] = IF @ = 0 THEN r ELSE @]
  /\ UNCHANGED <<released, out, answered, open, panics>>
ReadUncapped(r) ==
  /\ open /\ r \in Next1
  /\ Move(r, "spawned")
  /\ IF Key[r] = Free THEN UNCHANGED <<tails, previous>>
     ELSE /\ previous' = [previous EXCEPT ![r] = tails[Key[r]]]
          /\ tails' = [tails EXCEPT ![Key[r]] = r]
  /\ UNCHANGED <<released, out, answered, open, panics>>
Read(r) ==
  /\ open /\ r \in Next1 /\ Cardinality(InFlight) < MaxTasks
  /\ Move(r, "spawned")
  /\ IF Key[r] = Free THEN UNCHANGED <<tails, previous>>
     ELSE /\ previous' = [previous EXCEPT ![r] = tails[Key[r]]]
          /\ tails' = [tails EXCEPT ![Key[r]] = r]
  /\ UNCHANGED <<released, out, answered, open, panics>>

\* the predecessor released it, or there is none
Start(r) ==
  /\ stage[r] = "spawned" /\ previous[r] \in released \cup {0}
  /\ Move(r, "running")
  /\ UNCHANGED <<tails, previous, released, out, answered, open, panics>>

\* rpc::dispatch returns
Dispatched(r) ==
  /\ stage[r] = "running" /\ Move(r, "answering")
  /\ UNCHANGED <<tails, previous, released, out, answered, open, panics>>

\* out_tx.send waits for room; then the successor is released
Answer(r) ==
  /\ stage[r] = "answering" /\ Len(out) < MaxOut
  /\ Move(r, "done")
  /\ out' = Append(out, r) /\ released' = released \cup {r}
  /\ UNCHANGED <<tails, previous, answered, open, panics>>

\* the task panics: no answer, the dropped sender still releases the successor
PanicBug(r) ==
  /\ stage[r] = "running" /\ panics < MaxPanics /\ panics' = panics + 1
  /\ Move(r, "aborted")
  /\ UNCHANGED <<tails, previous, released, out, answered, open>>
Panic(r) ==
  /\ stage[r] = "running" /\ panics < MaxPanics /\ panics' = panics + 1
  /\ Move(r, "aborted") /\ released' = released \cup {r}
  /\ UNCHANGED <<tails, previous, out, answered, open>>

\* the writer task
Write ==
  /\ out # <<>> /\ out' = Tail(out) /\ answered' = Append(answered, Head(out))
  /\ UNCHANGED <<stage, tails, previous, released, open, panics>>

\* the client hangs up: abort_all, the writer flushes what it has
HangUp ==
  /\ open /\ open' = FALSE
  /\ stage' = [r \in Requests |-> IF r \in InFlight THEN "aborted" ELSE stage[r]]
  /\ UNCHANGED <<tails, previous, released, out, answered, panics>>

Task(r) == Start(r) \/ Dispatched(r) \/ Answer(r)

Next ==
  \/ \E r \in Requests : Read(r) \/ Task(r) \/ Panic(r)
  \/ Write \/ HangUp

Spec == Init /\ [][Next]_vars
\* the runtime polls the ready tasks, every dispatch ends, the client reads
FairSpec ==
  /\ Spec /\ WF_vars(Write)
  /\ \A r \in Requests : WF_vars(Read(r)) /\ WF_vars(Start(r) \/ Dispatched(r)) /\ SF_vars(Answer(r))
----------------------------------------------------------------------------
(* Properties *)

Ordered(q, r) == q < r /\ Key[q] = Key[r] /\ Key[q] # Free
Begun(r) == stage[r] \in {"running", "answering", "done"}

\* A request never runs before an earlier one of its key has finished, through
\* panics and any interleaving with the other chains, and the answers of one
\* chain reach the client in wire order.
WireOrder ==
  /\ open => \A q, r \in Requests :
       Ordered(q, r) /\ Begun(r) => stage[q] \in {"done", "aborted"}
  /\ \A i, j \in 1..Len(answered) : Ordered(answered[i], answered[j]) => i < j

\* A connection keeps the promise of SerialKeys, which knows no task, chain or writer: the
\* one-shots of the chains, the places of MAX_INFLIGHT, a panic in between and the abort at
\* the end amount to one request of a key after the other, each answered once or lost alone.
PhaseOf(r) ==
  CASE stage[r] = "unread" -> "sent"
    [] stage[r] = "spawned" -> "taken"
    [] stage[r] \in {"running", "answering"} -> "running"
    [] OTHER -> "over"
Serial == INSTANCE SerialKeys WITH
  phase <- [r \in Requests |-> PhaseOf(r)], replies <- answered \o out, Places <- MaxTasks
ImplementsSerial == Serial!Spec

\* Every request of an open connection is answered in the end, however many wait
\* in how many chains, unless its own dispatch panics.
EveryoneAnswered ==
  <>(\A r \in Requests :
       \/ ~open \/ stage[r] = "aborted" \/ \E i \in 1..Len(answered) : answered[i] = r)
=============================================================================
