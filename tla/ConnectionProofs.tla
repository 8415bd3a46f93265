-------------------------- MODULE ConnectionProofs --------------------------
(***************************************************************************)
(* Proofs about the two ends of a connection. The daemon's: the requests of one  *)
(* key run and are answered in wire order, for every number of requests and      *)
(* keys, every limit and any number of panics. The client's: the two tries of a  *)
(* call go out on two connections.                                           *)
(***************************************************************************)
EXTENDS OrderedRpc, ClientLink, TLAPS, FiniteSetTheorems, WellFoundedInduction

(* OrderedRpc *)

Finished(q) == stage[q] \in {"done", "aborted"}
NotRead(q) == stage[q] = "unread"

\* The chain: requests are read in order, the tail of a key is the last one read,
\* every request waits for the last one before it, and what is released or has begun
\* has nothing unfinished before it.
Chain ==
  /\ \A q, r \in Requests : q < r /\ NotRead(q) => NotRead(r)
  /\ \A k \in Keys : tails[k] # 0 => Key[tails[k]] = k
  /\ \A q \in Requests : Key[q] # Free /\ ~NotRead(q) => q <= tails[Key[q]]
  /\ \A r \in Requests : previous[r] # 0 => Key[previous[r]] = Key[r] /\ Key[r] # Free
  /\ \A q, r \in Requests : Ordered(q, r) /\ ~NotRead(r) => q <= previous[r]
  /\ \A r \in Requests : Begun(r) => previous[r] \in released \cup {0}
  /\ \A q, r \in Requests : Ordered(q, r) /\ (Begun(r) \/ r \in released) => Finished(q)
  /\ released \subseteq {r \in Requests : Finished(r)}

\* The answers on their way and at the client, as one sequence.
Wire == answered \o out
WireInOrder ==
  /\ \A i \in 1..Len(Wire) : stage[Wire[i]] = "done"
  /\ \A i, j \in 1..Len(Wire) : Ordered(Wire[i], Wire[j]) => i < j

RpcInv == TypeOK /\ IsFiniteSet(InFlight) /\ Chain /\ WireInOrder
----------------------------------------------------------------------------
LEMMA InitHolds == Init => RpcInv
<1> SUFFICES ASSUME Init PROVE RpcInv OBVIOUS
<1> USE RpcAssumption DEF Init
<1>1. InFlight = {} BY DEF InFlight
<1>2. IsFiniteSet(InFlight) /\ Cardinality(InFlight) = 0 BY <1>1, FS_EmptySet
<1>3. TypeOK BY <1>2 DEF TypeOK, Stage
<1>4. Chain BY DEF Chain, NotRead, Begun, Finished
<1>5. Wire = <<>> BY DEF Wire
<1>6. WireInOrder BY <1>5 DEF WireInOrder
<1> QED BY <1>2, <1>3, <1>4, <1>6 DEF RpcInv

\* Only reading takes a place among the tasks in flight, and only a free one.
LEMMA PlacesHold ==
  ASSUME RpcInv, Next PROVE IsFiniteSet(InFlight') /\ Cardinality(InFlight') <= MaxTasks
<1>1. /\ IsFiniteSet(InFlight) /\ Cardinality(InFlight) \in Nat /\ MaxTasks \in Nat
      /\ Cardinality(InFlight) <= MaxTasks /\ stage \in [Requests -> Stage]
  BY RpcAssumption, FS_CardinalityType DEF RpcInv, TypeOK
<1>2. ASSUME NEW r \in Requests, Read(r)
      PROVE  IsFiniteSet(InFlight') /\ Cardinality(InFlight') <= MaxTasks
  <2>1. Cardinality(InFlight) < MaxTasks /\ InFlight' = InFlight \cup {r}
    BY <1>1, <1>2 DEF Read, Move, InFlight, Next1
  <2>2. r \notin InFlight BY <1>2 DEF Read, InFlight, Next1
  <2>3. IsFiniteSet(InFlight') /\ Cardinality(InFlight') = Cardinality(InFlight) + 1
    BY <1>1, <2>1, <2>2, FS_AddElement
  <2> QED BY <1>1, <2>1, <2>3
<1>3. CASE InFlight' \subseteq InFlight
  BY <1>1, <1>3, FS_Subset, FS_CardinalityType
<1>4. ASSUME NEW r \in Requests, Task(r) \/ Panic(r) PROVE InFlight' \subseteq InFlight
  BY <1>1, <1>4 DEF Task, Start, Dispatched, Answer, Panic, Move, InFlight
<1>5. CASE Write
  <2>1. stage' = stage BY <1>5 DEF Write
  <2>2. InFlight' = InFlight BY <2>1 DEF InFlight
  <2> QED BY <1>1, <2>2
<1>6. HangUp => InFlight' \subseteq InFlight BY <1>1 DEF HangUp, InFlight
<1> QED BY <1>2, <1>3, <1>4, <1>5, <1>6 DEF Next

LEMMA StepType == ASSUME RpcInv, Next PROVE TypeOK'
<1>1. Cardinality(InFlight') <= MaxTasks BY PlacesHold
<1> USE RpcAssumption DEF RpcInv, TypeOK, Stage, Move
<1>2. ASSUME NEW r \in Requests, Read(r) PROVE TypeOK'
  <2>1. Key[r] # Free => Key[r] \in Keys BY DEF Keys
  <2>2. CASE Key[r] = Free BY <1>1, <1>2, <2>2 DEF Read
  <2>3. CASE Key[r] # Free BY <1>1, <1>2, <2>1, <2>3 DEF Read
  <2> QED BY <2>2, <2>3
<1>3. ASSUME NEW r \in Requests, Task(r) \/ Panic(r) PROVE TypeOK'
  <2>1. CASE Start(r) \/ Dispatched(r) BY <1>1, <2>1 DEF Start, Dispatched
  <2>2. CASE Answer(r)
    <3>1. out' \in Seq(Requests) /\ Len(out') <= MaxOut BY <2>2 DEF Answer
    <3> QED BY <1>1, <2>2, <3>1 DEF Answer
  <2>3. CASE Panic(r) BY <1>1, <2>3 DEF Panic
  <2> QED BY <1>3, <2>1, <2>2, <2>3 DEF Task
<1>4. CASE Write BY <1>1, <1>4 DEF Write
<1>5. CASE HangUp BY <1>1, <1>5 DEF HangUp
<1> QED BY <1>2, <1>3, <1>4, <1>5 DEF Next
----------------------------------------------------------------------------
\* Reading appends a request to its chain.
LEMMA ReadChain == ASSUME RpcInv, NEW r \in Requests, Read(r) PROVE Chain'
<1> USE RpcAssumption DEF RpcInv, TypeOK
<1>1. /\ NotRead(r) /\ \A q \in Requests : q < r => ~NotRead(q)
      /\ stage' = [stage EXCEPT ![r] = "spawned"] /\ released' = released
  BY DEF Read, Next1, Move, NotRead
<1>2. \A q \in Requests : /\ q # r => stage'[q] = stage[q]
                          /\ stage'[r] = "spawned"
  BY <1>1
<1>3. \A q \in Requests : r < q => NotRead(q) BY <1>1 DEF Chain
<1>4. Key[r] # Free =>
        /\ Key[r] \in Keys /\ previous' = [previous EXCEPT ![r] = tails[Key[r]]]
        /\ tails' = [tails EXCEPT ![Key[r]] = r]
  BY DEF Read, Keys
<1>5. Key[r] = Free => previous' = previous /\ tails' = tails BY DEF Read
<1>6. r \notin released BY <1>1 DEF Chain, Finished, NotRead
<1>7. \A q \in Requests : Key[q] # Free => Key[q] \in Keys BY DEF Keys
<1>8. \A q, p \in Requests : q < p /\ NotRead(q)' => NotRead(p)'
  BY <1>1, <1>2, <1>3 DEF Chain, NotRead
<1>9. \A k \in Keys : tails'[k] # 0 => Key[tails'[k]] = k
  BY <1>4, <1>5 DEF Chain
<1>10. \A q \in Requests : Key[q] # Free /\ ~NotRead(q)' => q <= tails'[Key[q]]
  <2> SUFFICES ASSUME NEW q \in Requests, Key[q] # Free, ~NotRead(q)'
               PROVE  q <= tails'[Key[q]]
    OBVIOUS
  <2>1. CASE Key[q] = Key[r] BY <2>1, <1>2, <1>3, <1>4 DEF NotRead
  <2>2. CASE Key[q] # Key[r] BY <2>2, <1>2, <1>4, <1>5, <1>7 DEF NotRead, Chain
  <2> QED BY <2>1, <2>2
<1>11. \A q \in Requests : previous'[q] # 0 => Key[previous'[q]] = Key[q] /\ Key[q] # Free
  BY <1>4, <1>5 DEF Chain
<1>12. \A q, p \in Requests : Ordered(q, p) /\ ~NotRead(p)' => q <= previous'[p]
  <2> SUFFICES ASSUME NEW q \in Requests, NEW p \in Requests, Ordered(q, p), ~NotRead(p)'
               PROVE  q <= previous'[p]
    OBVIOUS
  <2>1. CASE p = r BY <2>1, <1>1, <1>4 DEF Chain, Ordered
  <2>2. CASE p # r BY <2>2, <1>2, <1>4, <1>5 DEF Chain, NotRead
  <2> QED BY <2>1, <2>2
<1>13. \A q \in Requests : Begun(q)' => previous'[q] \in released' \cup {0}
  BY <1>1, <1>2, <1>4, <1>5 DEF Chain, Begun
<1>14. \A q, p \in Requests :
         Ordered(q, p) /\ (Begun(p)' \/ p \in released') => Finished(q)'
  BY <1>1, <1>2, <1>6 DEF Chain, Begun, Finished, Ordered, NotRead
<1>15. released' \subseteq {q \in Requests : Finished(q)'}
  BY <1>1, <1>2, <1>6 DEF Chain, Finished
<1> QED BY <1>8, <1>9, <1>10, <1>11, <1>12, <1>13, <1>14, <1>15 DEF Chain, Ordered

\* A step that leaves what is finished finished, and reads nothing.
LEMMA RunChain ==
  ASSUME RpcInv, UNCHANGED <<tails, previous>>,
         stage' \in [Requests -> Stage],
         \A q \in Requests : NotRead(q)' <=> NotRead(q),
         \A q \in Requests : Finished(q) => Finished(q)',
         \A q \in Requests : Begun(q)' => Begun(q) \/ previous[q] \in released \cup {0},
         \A q \in released' : q \in released \/ Begun(q),
         released \subseteq released',
         released' \subseteq {q \in Requests : Finished(q)'}
  PROVE  Chain'
<1> USE RpcAssumption DEF RpcInv, TypeOK
<1>1. \A q \in Requests : previous[q] \in released \cup {0} /\ ~NotRead(q) =>
        \A p \in Requests : Ordered(p, q) => Finished(p)
  <2> SUFFICES ASSUME NEW q \in Requests, previous[q] \in released \cup {0}, ~NotRead(q),
                      NEW p \in Requests, Ordered(p, q)
               PROVE  Finished(p)
    OBVIOUS
  <2>1. p <= previous[q] /\ p # 0 /\ Key[p] = Key[q] /\ Key[p] # Free
    BY DEF Chain, Ordered
  <2>2. previous[q] \in Requests /\ previous[q] \in released /\ Key[previous[q]] = Key[q]
    BY <2>1 DEF Chain
  <2>3. CASE p = previous[q] BY <2>2, <2>3 DEF Chain
  <2>4. CASE p # previous[q]
    <3>1. p \in Nat /\ previous[q] \in Nat BY <2>2
    <3>2. Ordered(p, previous[q]) BY <2>1, <2>2, <2>4, <3>1 DEF Ordered
    <3> QED BY <2>2, <3>2 DEF Chain
  <2> QED BY <2>3, <2>4
<1>2. \A q, p \in Requests :
        Ordered(q, p) /\ (Begun(p)' \/ p \in released') => Finished(q)'
  <2> SUFFICES ASSUME NEW q \in Requests, NEW p \in Requests, Ordered(q, p),
                      Begun(p)' \/ p \in released'
               PROVE  Finished(q)
    OBVIOUS
  <2>1. CASE Begun(p) \/ p \in released BY <2>1 DEF Chain
  <2>2. CASE Begun(p)' /\ ~Begun(p)
    <3>1. ~NotRead(p)' BY <2>2 DEF Begun, NotRead
    <3>2. ~NotRead(p) /\ previous[p] \in released \cup {0} BY <2>2, <3>1
    <3> QED BY <1>1, <3>2
  <2> QED BY <2>1, <2>2
<1>3. \A q \in Requests : Begun(q)' => previous'[q] \in released' \cup {0}
  BY DEF Chain
<1>4. \A q, r \in Requests : q < r /\ NotRead(q)' => NotRead(r)' BY DEF Chain
<1>5. /\ \A q \in Requests : Key[q] # Free /\ ~NotRead(q)' => q <= tails'[Key[q]]
      /\ \A q, r \in Requests : Ordered(q, r) /\ ~NotRead(r)' => q <= previous'[r]
  BY DEF Chain
<1>6. /\ \A k \in Keys : tails'[k] # 0 => Key[tails'[k]] = k
      /\ \A r \in Requests : previous'[r] # 0 => Key[previous'[r]] = Key[r] /\ Key[r] # Free
  BY DEF Chain
<1> HIDE DEF RpcInv, TypeOK
<1> QED BY <1>2, <1>3, <1>4, <1>5, <1>6 DEF Chain, Ordered

LEMMA StepChain == ASSUME RpcInv, Next PROVE Chain'
<1>1. ASSUME NEW r \in Requests, Read(r) PROVE Chain' BY <1>1, ReadChain
<1> USE DEF Move, NotRead, Finished, Begun
<1>2. stage \in [Requests -> Stage] /\ released \subseteq Requests
      /\ released \subseteq {q \in Requests : Finished(q)}
  BY DEF RpcInv, TypeOK, Chain
<1>3. ASSUME NEW r \in Requests, Start(r) PROVE Chain'
  BY <1>2, <1>3, RunChain DEF Start, Stage
<1>4. ASSUME NEW r \in Requests, Dispatched(r) PROVE Chain'
  BY <1>2, <1>4, RunChain DEF Dispatched, Stage
<1>5. ASSUME NEW r \in Requests, Answer(r) \/ Panic(r) PROVE Chain'
  BY <1>2, <1>5, RunChain DEF Answer, Panic, Stage
<1>6. CASE Write BY <1>2, <1>6, RunChain DEF Write
<1>7. CASE HangUp BY <1>2, <1>7, RunChain DEF HangUp, InFlight, Stage
<1> QED BY <1>1, <1>3, <1>4, <1>5, <1>6, <1>7 DEF Next, Task
----------------------------------------------------------------------------
\* The writer moves an answer along the wire.
LEMMA WriteSilent == ASSUME RpcInv, Write PROVE Wire' = Wire
<1>1. /\ answered \in Seq(Requests) /\ out \in Seq(Requests) /\ Wire \in Seq(Requests)
  BY DEF RpcInv, TypeOK, Wire
<1>2. out # <<>> /\ out' = Tail(out) /\ answered' = Append(answered, Head(out))
  BY DEF Write
<1>3. Len(Wire') = Len(Wire) /\ Wire' \in Seq(Requests) BY <1>1, <1>2 DEF Wire
<1>4. \A i \in 1..Len(Wire) : Wire'[i] = Wire[i] BY <1>1, <1>2 DEF Wire
<1> QED BY <1>1, <1>3, <1>4

\* An answer joins the wire behind everything its key has sent before.
LEMMA StepWire == ASSUME RpcInv, Next PROVE WireInOrder'
<1>1. /\ answered \in Seq(Requests) /\ out \in Seq(Requests) /\ Wire \in Seq(Requests)
      /\ stage \in [Requests -> Stage]
  BY DEF RpcInv, TypeOK, Wire
<1>2. ASSUME Wire' = Wire, \A q \in Requests : stage[q] = "done" => stage'[q] = "done"
      PROVE  WireInOrder'
  BY <1>1, <1>2 DEF WireInOrder, RpcInv, Ordered
<1>3. ASSUME NEW r \in Requests, Answer(r) PROVE WireInOrder'
  <2>1. /\ answered' = answered /\ out' = Append(out, r) /\ stage[r] = "answering"
        /\ stage' = [stage EXCEPT ![r] = "done"]
    BY <1>3 DEF Answer, Move
  <2>2. Wire' = Append(Wire, r) BY <1>1, <2>1 DEF Wire
  <2>3. \A i \in 1..Len(Wire) : stage[Wire[i]] = "done" /\ Wire[i] \in Requests
    BY <1>1 DEF WireInOrder, RpcInv
  <2>4. \A i \in 1..Len(Wire) : ~Ordered(r, Wire[i])
    BY <2>1, <2>3 DEF RpcInv, Chain, Begun, Finished
  <2>5. ~Ordered(r, r) BY RpcAssumption DEF Ordered
  <2>6. /\ Len(Wire') = Len(Wire) + 1 /\ Len(Wire) \in Nat /\ Wire'[Len(Wire) + 1] = r
        /\ \A i \in 1..Len(Wire) : Wire'[i] = Wire[i]
    BY <1>1, <2>2
  <2>7. \A i \in 1..Len(Wire') : stage'[Wire'[i]] = "done"
    BY <1>1, <2>1, <2>3, <2>6
  <2>8. \A i, j \in 1..Len(Wire') : Ordered(Wire'[i], Wire'[j]) => i < j
    <3> SUFFICES ASSUME NEW i \in 1..Len(Wire'), NEW j \in 1..Len(Wire'),
                        Ordered(Wire'[i], Wire'[j])
                 PROVE  i < j
      OBVIOUS
    <3>1. CASE i \in 1..Len(Wire) /\ j \in 1..Len(Wire)
      BY <3>1, <2>6 DEF WireInOrder, RpcInv
    <3>2. CASE i = Len(Wire) + 1 BY <3>2, <2>4, <2>5, <2>6
    <3>3. CASE i \in 1..Len(Wire) /\ j = Len(Wire) + 1 BY <3>3, <2>6
    <3> QED BY <3>1, <3>2, <3>3, <2>6
  <2> QED BY <2>7, <2>8 DEF WireInOrder, Ordered
<1>4. CASE Write
  <2>1. stage' = stage BY <1>4 DEF Write
  <2> QED BY <1>2, <1>4, <2>1, WriteSilent
<1>5. ASSUME NEW r \in Requests, Read(r) PROVE WireInOrder'
  <2>1. /\ stage[r] = "unread" /\ stage' = [stage EXCEPT ![r] = "spawned"]
        /\ answered' = answered /\ out' = out
    BY <1>5 DEF Read, Move, Next1
  <2> QED BY <1>1, <1>2, <2>1 DEF Wire
<1>6. ASSUME NEW r \in Requests, Start(r) \/ Dispatched(r) \/ Panic(r) PROVE WireInOrder'
  <2>1. /\ answered' = answered /\ out' = out
        /\ \A q \in Requests : stage[q] = "done" => stage'[q] = "done"
    BY <1>1, <1>6 DEF Start, Dispatched, Panic, Move
  <2> QED BY <1>2, <2>1 DEF Wire
<1>7. CASE HangUp
  <2>1. /\ answered' = answered /\ out' = out
        /\ \A q \in Requests : stage[q] = "done" => stage'[q] = "done"
    BY <1>1, <1>7 DEF HangUp, InFlight
  <2> QED BY <1>2, <2>1 DEF Wire
<1> QED BY <1>3, <1>4, <1>5, <1>6, <1>7 DEF Next, Task

LEMMA StepHolds == ASSUME RpcInv, [Next]_vars PROVE RpcInv'
<1>1. CASE Next
  <2>1. IsFiniteSet(InFlight') BY <1>1, PlacesHold
  <2>2. TypeOK' BY <1>1, StepType
  <2>3. Chain' BY <1>1, StepChain
  <2>4. WireInOrder' BY <1>1, StepWire
  <2> QED BY <2>1, <2>2, <2>3, <2>4 DEF RpcInv
<1>2. CASE UNCHANGED vars
  <2>1. InFlight' = InFlight /\ Wire' = Wire BY <1>2 DEF vars, InFlight, Wire
  <2>2. TypeOK' BY <1>2, <2>1 DEF vars, RpcInv, TypeOK
  <2>3. Chain' BY <1>2 DEF vars, RpcInv, Chain, NotRead, Begun, Finished, Ordered
  <2>4. WireInOrder' BY <1>2, <2>1 DEF vars, RpcInv, WireInOrder, Ordered
  <2> QED BY <2>1, <2>2, <2>3, <2>4 DEF RpcInv
<1> QED BY <1>1, <1>2
----------------------------------------------------------------------------
LEMMA Invariance == Spec => []RpcInv
<1>1. Init => RpcInv BY InitHolds
<1>2. RpcInv /\ [Next]_vars => RpcInv' BY StepHolds
<1> QED BY <1>1, <1>2, PTL DEF Spec

\* The bookkeeping of a connection keeps its types, and no more tasks than
\* MAX_INFLIGHT are ever in flight.
THEOREM RpcTypeCorrect == Spec => []TypeOK
<1>1. RpcInv => TypeOK BY DEF RpcInv
<1> QED BY <1>1, Invariance, PTL

\* Requests of one ordering key run one after the other in wire order, through
\* panics and hang-ups, and their answers reach the client in that order.
THEOREM WireOrdered == Spec => []WireOrder
<1>1. ASSUME RpcInv PROVE WireOrder
  <2>1. \A q, r \in Requests : Ordered(q, r) /\ Begun(r) => stage[q] \in {"done", "aborted"}
    BY <1>1 DEF RpcInv, Chain, Finished
  <2>2. \A i, j \in 1..Len(answered) : Ordered(answered[i], answered[j]) => i < j
    <3>1. answered \in Seq(Requests) /\ out \in Seq(Requests)
      BY <1>1 DEF RpcInv, TypeOK
    <3>2. \A i \in 1..Len(answered) : i \in 1..Len(Wire) /\ Wire[i] = answered[i]
      BY <3>1 DEF Wire
    <3> QED BY <1>1, <3>1, <3>2 DEF RpcInv, WireInOrder
  <2> QED BY <2>1, <2>2 DEF WireOrder
<1> QED BY <1>1, Invariance, PTL
----------------------------------------------------------------------------
(* No chain blocks itself *)

\* What the runtime can move a request by: its turn has come, its dispatch returns (which is
\* assumed to happen), or the writer's channel has room for its answer.
Ready(r) ==
  \/ stage[r] = "spawned" /\ previous[r] \in released \cup {0}
  \/ stage[r] = "running"
  \/ stage[r] = "answering" /\ Len(out) < MaxOut

\* While requests of an open connection are in flight, one of them is ready or the writer is,
\* though chains wait on chains, panics end tasks and the channel is at its bound: the safety
\* of Answers, which no cyclic or orphaned wait may break.
NeverStuck == open /\ InFlight # {} => out # <<>> \/ \E r \in Requests : Ready(r)

\* Waits point back, to a request that was read; whoever has finished on an open connection
\* has released its successor.
Waits ==
  /\ \A k \in Keys : tails[k] # 0 => ~NotRead(tails[k])
  /\ \A r \in Requests : previous[r] # 0 => previous[r] < r /\ ~NotRead(previous[r])
  /\ open => \A r \in Requests : Finished(r) => r \in released

LEMMA WaitsInit == Init => Waits
BY RpcAssumption DEF Init, Waits, NotRead, Finished

\* A step that reads nothing and releases what it finishes.
LEMMA WaitsKept ==
  ASSUME RpcInv, Waits, UNCHANGED <<tails, previous>>,
         \A q \in Requests : NotRead(q)' => NotRead(q),
         open' => open /\ \A q \in Requests : Finished(q)' => Finished(q) \/ q \in released',
         released \subseteq released'
  PROVE  Waits'
<1>1. /\ tails \in [Keys -> Requests \cup {0}] /\ previous \in [Requests -> Requests \cup {0}]
  BY DEF RpcInv, TypeOK
<1>2. \A k \in Keys : tails'[k] # 0 => stage'[tails'[k]] # "unread"
  BY <1>1 DEF Waits, NotRead
<1>3. \A r \in Requests : previous'[r] # 0 => previous'[r] < r /\ stage'[previous'[r]] # "unread"
  BY <1>1 DEF Waits, NotRead
<1>4. open' => \A r \in Requests : Finished(r)' => r \in released' BY DEF Waits
<1> QED BY <1>2, <1>3, <1>4 DEF Waits, NotRead

\* A request that is read waits for the tail of its key, which was read before it.
LEMMA WaitsRead == ASSUME RpcInv, Waits, NEW r \in Requests, Read(r) PROVE Waits'
<1> USE RpcAssumption
<1>1. /\ tails \in [Keys -> Requests \cup {0}] /\ previous \in [Requests -> Requests \cup {0}]
      /\ stage \in [Requests -> Stage] /\ Requests \subseteq Nat \ {0}
  BY DEF RpcInv, TypeOK
<1>2. /\ NotRead(r) /\ stage' = [stage EXCEPT ![r] = "spawned"]
      /\ released' = released /\ open' = open
  BY DEF Read, Next1, Move, NotRead
<1>3. Key[r] # Free =>
        /\ Key[r] \in Keys /\ previous' = [previous EXCEPT ![r] = tails[Key[r]]]
        /\ tails' = [tails EXCEPT ![Key[r]] = r]
  BY DEF Read, Keys
<1>4. Key[r] = Free => previous' = previous /\ tails' = tails BY DEF Read
<1>5. \A q \in Requests : (~NotRead(q) => ~NotRead(q)') /\ ~NotRead(r)'
  BY <1>1, <1>2 DEF NotRead
<1>6. \A q \in Requests : ~NotRead(q) => q < r
  <2> SUFFICES ASSUME NEW q \in Requests, ~NotRead(q) PROVE q < r OBVIOUS
  <2>1. ~(r < q) /\ q # r BY <1>2 DEF RpcInv, Chain
  <2> QED BY <1>1, <2>1
<1>7. \A k \in Keys : tails'[k] # 0 => stage'[tails'[k]] # "unread"
  BY <1>1, <1>3, <1>4, <1>5 DEF Waits, NotRead
<1>8. \A q \in Requests : previous'[q] # 0 => previous'[q] < q /\ stage'[previous'[q]] # "unread"
  <2> SUFFICES ASSUME NEW q \in Requests, previous'[q] # 0
               PROVE  previous'[q] < q /\ stage'[previous'[q]] # "unread"
    OBVIOUS
  <2>1. CASE q = r /\ Key[r] # Free
    <3>1. previous'[q] = tails[Key[r]] /\ tails[Key[r]] \in Requests BY <1>1, <1>3, <2>1
    <3>2. ~NotRead(tails[Key[r]]) BY <1>3, <2>1, <3>1, RpcAssumption DEF Waits
    <3> QED BY <1>5, <1>6, <2>1, <3>1, <3>2 DEF NotRead
  <2>2. CASE ~(q = r /\ Key[r] # Free)
    <3>1. previous'[q] = previous[q] /\ previous[q] \in Requests BY <1>1, <1>3, <1>4, <2>2
    <3>2. previous[q] < q /\ ~NotRead(previous[q]) BY <1>1, <3>1 DEF Waits
    <3> QED BY <1>5, <3>1, <3>2 DEF NotRead
  <2> QED BY <2>1, <2>2
<1>9. \A q \in Requests : Finished(q)' => Finished(q) BY <1>1, <1>2 DEF Finished
<1>10. open' => \A q \in Requests : Finished(q)' => q \in released' BY <1>2, <1>9 DEF Waits
<1> QED BY <1>7, <1>8, <1>10 DEF Waits, NotRead

LEMMA WaitsStep == ASSUME RpcInv, Waits, [Next]_vars PROVE Waits'
<1>1. stage \in [Requests -> Stage] BY DEF RpcInv, TypeOK
<1>2. ASSUME NEW r \in Requests, Read(r) PROVE Waits' BY <1>2, WaitsRead
<1> USE DEF NotRead, Finished
<1>3. ASSUME NEW r \in Requests, Start(r) \/ Dispatched(r) PROVE Waits'
  BY <1>1, <1>3, WaitsKept DEF Start, Dispatched, Move
<1>4. ASSUME NEW r \in Requests, Answer(r) \/ Panic(r) PROVE Waits'
  BY <1>1, <1>4, WaitsKept DEF Answer, Panic, Move
<1>5. CASE Write BY <1>5, WaitsKept DEF Write
<1>6. CASE HangUp BY <1>1, <1>6, WaitsKept DEF HangUp, InFlight
<1>7. CASE UNCHANGED vars BY <1>7, WaitsKept DEF vars
<1> QED BY <1>2, <1>3, <1>4, <1>5, <1>6, <1>7 DEF Next, Task

\* The first of some requests in wire order.
LEMMA FirstOf ==
  ASSUME NEW S, S \subseteq Nat, S # {} PROVE \E r \in S : \A q \in S : ~(q < r)
<1> DEFINE R == {pair \in Nat \X Nat : pair[1] < pair[2]}
<1>1. IsWellFoundedOn(R, Nat) BY NatLessThanWellFounded, Zenon DEF OpToRel
<1>2. PICK r \in S : \A q \in S : ~(<<q, r>> \in R)
  <2> HIDE DEF R
  <2> QED BY <1>1, WFMin
<1> QED BY <1>2

\* On an open connection no wait is for ever: whatever the keys, the limits and the panics, the
\* first request in flight has nothing to wait for but its own dispatch or the writer.
THEOREM NothingStuck == Spec => []NeverStuck
<1>1. RpcInv /\ Waits => NeverStuck
  <2> SUFFICES ASSUME RpcInv, Waits, open, InFlight # {}, out = <<>>
               PROVE  \E r \in Requests : Ready(r)
    BY DEF NeverStuck
  <2>1. /\ InFlight \subseteq Requests /\ Requests \subseteq Nat \ {0}
        /\ stage \in [Requests -> Stage] /\ previous \in [Requests -> Requests \cup {0}]
    BY RpcAssumption DEF InFlight, RpcInv, TypeOK
  <2>2. PICK r \in InFlight : \A q \in InFlight : ~(q < r) BY <2>1, FirstOf
  <2>3. CASE stage[r] = "spawned" /\ previous[r] # 0
    <3>1. /\ previous[r] \in Requests /\ previous[r] < r /\ ~NotRead(previous[r])
      BY <2>1, <2>2, <2>3 DEF Waits
    <3>2. previous[r] \notin InFlight BY <2>2, <3>1
    <3>3. Finished(previous[r]) BY <2>1, <3>1, <3>2 DEF InFlight, Finished, NotRead, Stage
    <3>4. previous[r] \in released BY <3>1, <3>3 DEF Waits
    <3> QED BY <2>1, <2>3, <3>4 DEF Ready
  <2>4. CASE stage[r] = "answering"
    <3>1. Len(out) < MaxOut BY RpcAssumption
    <3> QED BY <2>1, <2>4, <3>1 DEF Ready
  <2> QED BY <2>1, <2>3, <2>4 DEF Ready, InFlight
<1>2. Spec => []Waits
  <2>1. RpcInv /\ RpcInv' /\ Waits /\ [Next]_vars => Waits' BY WaitsStep
  <2> QED BY <2>1, WaitsInit, Invariance, PTL DEF Spec
<1> QED BY <1>1, <1>2, Invariance, PTL
----------------------------------------------------------------------------
(* OrderedRpc implements SerialKeys *)

Phase == [r \in Requests |-> PhaseOf(r)]

LEMMA PhaseSteps ==
  ASSUME RpcInv, NEW r \in Requests, NEW label \in Stage,
         stage' = [stage EXCEPT ![r] = label]
  PROVE  Phase' = [Phase EXCEPT ![r] = PhaseOf(r)']
BY DEF RpcInv, TypeOK, Phase, PhaseOf

LEMMA PhaseStays == ASSUME UNCHANGED stage PROVE Phase' = Phase
BY DEF Phase, PhaseOf

LEMMA TakenInFlight == Serial!Taken = InFlight
<1>1. \A r \in Requests : PhaseOf(r) \in {"taken", "running"} <=> r \in InFlight
  BY DEF PhaseOf, InFlight
<1> QED BY <1>1 DEF Serial!Taken, InFlight

\* SerialKeys counts as this module does.
LEMMA SameCount == \A S : Serial!Cardinality(S) = Cardinality(S)
BY DEF Serial!Cardinality, Cardinality

LEMMA SerialRead == ASSUME RpcInv, NEW r \in Requests, Read(r) PROVE Serial!Take(r)
<1>1. /\ open /\ stage[r] = "unread" /\ stage' = [stage EXCEPT ![r] = "spawned"]
      /\ \A q \in Requests : q < r => stage[q] # "unread"
      /\ Cardinality(InFlight) < MaxTasks /\ UNCHANGED <<out, answered, open>>
  BY DEF Read, Next1, Move
<1>2. /\ PhaseOf(r) = "sent" /\ PhaseOf(r)' = "taken"
      /\ \A q \in Requests : q < r => PhaseOf(q) # "sent"
  BY <1>1 DEF PhaseOf, RpcInv, TypeOK
<1>3. Phase' = [Phase EXCEPT ![r] = "taken"] BY <1>1, <1>2, PhaseSteps DEF Stage
<1>4. Serial!Cardinality(Serial!Taken) < MaxTasks
  BY <1>1, TakenInFlight, SameCount
<1> QED BY <1>1, <1>2, <1>3, <1>4 DEF Serial!Take, Serial!Reaches, Phase

\* What starts has its whole chain behind it: see Chain.
LEMMA SerialStart == ASSUME RpcInv, NEW r \in Requests, Start(r) PROVE Serial!Run(r)
<1>1. /\ stage[r] = "spawned" /\ stage' = [stage EXCEPT ![r] = "running"]
      /\ UNCHANGED <<out, answered, open>>
  BY DEF Start, Move
<1>2. Chain' BY StepChain DEF Next, Task
<1>3. Begun(r)' BY <1>1 DEF Begun, RpcInv, TypeOK
<1>4. \A q \in Requests : Ordered(q, r) => q # r /\ Finished(q)'
  BY <1>2, <1>3, RpcAssumption DEF Chain, Ordered
<1>5. \A q \in Requests : Ordered(q, r) => PhaseOf(q) = "over"
  BY <1>1, <1>4 DEF Finished, PhaseOf, RpcInv, TypeOK
<1>6. PhaseOf(r) = "taken" /\ PhaseOf(r)' = "running"
  BY <1>1 DEF PhaseOf, RpcInv, TypeOK
<1>7. Phase' = [Phase EXCEPT ![r] = "running"] BY <1>1, <1>6, PhaseSteps DEF Stage
<1> QED BY <1>1, <1>5, <1>6, <1>7 DEF Serial!Run, Serial!Reaches, Serial!Before, Ordered, Phase

LEMMA SerialAnswer == ASSUME RpcInv, NEW r \in Requests, Answer(r) PROVE Serial!Reply(r)
<1>1. /\ stage[r] = "answering" /\ stage' = [stage EXCEPT ![r] = "done"]
      /\ out' = Append(out, r) /\ UNCHANGED <<answered, open>>
  BY DEF Answer, Move
<1>2. PhaseOf(r) = "running" /\ PhaseOf(r)' = "over"
  BY <1>1 DEF PhaseOf, RpcInv, TypeOK
<1>3. Phase' = [Phase EXCEPT ![r] = "over"] BY <1>1, <1>2, PhaseSteps DEF Stage
<1>4. answered' \o out' = Append(answered \o out, r) BY <1>1 DEF RpcInv, TypeOK
<1> QED BY <1>1, <1>2, <1>3, <1>4 DEF Serial!Reply, Serial!Reaches, Phase

LEMMA SerialPanic == ASSUME RpcInv, NEW r \in Requests, Panic(r) PROVE Serial!Lose(r)
<1>1. /\ stage[r] = "running" /\ stage' = [stage EXCEPT ![r] = "aborted"]
      /\ UNCHANGED <<out, answered, open>>
  BY DEF Panic, Move
<1>2. PhaseOf(r) = "running" /\ PhaseOf(r)' = "over"
  BY <1>1 DEF PhaseOf, RpcInv, TypeOK
<1>3. Phase' = [Phase EXCEPT ![r] = "over"] BY <1>1, <1>2, PhaseSteps DEF Stage
<1> QED BY <1>1, <1>2, <1>3 DEF Serial!Lose, Serial!Reaches, Phase

LEMMA SerialHangUp == ASSUME RpcInv, HangUp PROVE Serial!Close
<1>1. /\ open /\ open' = FALSE /\ UNCHANGED <<out, answered>>
      /\ stage' = [r \in Requests |-> IF r \in InFlight THEN "aborted" ELSE stage[r]]
  BY DEF HangUp
<1>2. \A r \in Requests : PhaseOf(r)' = IF r \in InFlight THEN "over" ELSE PhaseOf(r)
  BY <1>1 DEF PhaseOf
<1> QED BY <1>1, <1>2, TakenInFlight DEF Serial!Close

\* A step that the client cannot see: a dispatch returns, the writer writes.
LEMMA SerialSilent ==
  ASSUME RpcInv, Write \/ (\E r \in Requests : Dispatched(r)) \/ UNCHANGED vars
  PROVE  UNCHANGED Serial!serial
<1>1. CASE Write
  <2>1. Phase' = Phase /\ open' = open BY <1>1, PhaseStays DEF Write
  <2>2. answered' \o out' = answered \o out BY <1>1, WriteSilent DEF Wire
  <2> QED BY <2>1, <2>2 DEF Serial!serial, Phase
<1>2. ASSUME NEW r \in Requests, Dispatched(r) PROVE UNCHANGED Serial!serial
  <2>1. /\ stage[r] = "running" /\ stage' = [stage EXCEPT ![r] = "answering"]
        /\ UNCHANGED <<out, answered, open>>
    BY <1>2 DEF Dispatched, Move
  <2>2. \A q \in Requests : PhaseOf(q)' = PhaseOf(q)
    BY <2>1 DEF PhaseOf, RpcInv, TypeOK
  <2> QED BY <2>1, <2>2 DEF Serial!serial
<1>3. CASE UNCHANGED vars BY <1>3, PhaseStays DEF vars, Serial!serial, Phase
<1> QED BY <1>1, <1>2, <1>3

\* OrderedRpc implements SerialKeys: chains of one-shots that panics, a full writer and a
\* hang-up may cut anywhere still take the requests in wire order within MAX_INFLIGHT, run
\* one of a key after the other, answer each at most once, and leave nothing running.
THEOREM Serialised == Spec => ImplementsSerial
<1>1. Init => Serial!Init
  <2> SUFFICES ASSUME Init PROVE Serial!Init OBVIOUS
  <2>1. \A r \in Requests : PhaseOf(r) = "sent" BY DEF Init, PhaseOf
  <2> QED BY <2>1 DEF Init, Serial!Init
<1>2. RpcInv /\ [Next]_vars => [Serial!Next]_(Serial!serial)
  <2> SUFFICES ASSUME RpcInv, [Next]_vars PROVE [Serial!Next]_(Serial!serial) OBVIOUS
  <2>1. ASSUME NEW r \in Requests, Read(r) \/ Start(r) \/ Answer(r) \/ Panic(r)
        PROVE  Serial!Next
    BY <2>1, SerialRead, SerialStart, SerialAnswer, SerialPanic DEF Serial!Next
  <2>2. HangUp => Serial!Next BY SerialHangUp DEF Serial!Next
  <2>3. CASE Write \/ (\E r \in Requests : Dispatched(r)) \/ UNCHANGED vars
    BY <2>3, SerialSilent
  <2> QED BY <2>1, <2>2, <2>3 DEF Next, Task
<1> QED BY <1>1, <1>2, Invariance, PTL DEF Spec, ImplementsSerial, Serial!Spec
----------------------------------------------------------------------------
(* ClientLink *)

Ids == Tries \cup Replays
Request == [id : Ids, method : Methods]
Wires == requests \in [Links -> Seq(Request)] /\ responses \in [Links -> Seq(Ids)]

\* The tries that are on their way to the daemon or that it has executed.
Sent ==
  executed \cup
  {x \in [id : Tries, link : Links] :
     \E i \in DOMAIN requests[x.link] : requests[x.link][i].id = x.id}

\* A try goes out once, on the connection of its moment; a call that is being tried again
\* has lost the connection of its first try, and sees the client connected only on a later one.
Placed(x) ==
  /\ x.link <= epoch /\ x.id.call <= calls[x.id.by]
  /\ x.id.call = calls[x.id.by] =>
       /\ x.id.try <= try[x.id.by]
       /\ x.id.try = try[x.id.by] => pc[x.id.by] \in {"wait", "idle"}
       /\ x.id.try < try[x.id.by] =>
            /\ pc[x.id.by] \in {"check", "lock", "connect"} /\ connected => x.link < epoch
            /\ pc[x.id.by] \in {"replay", "insert", "send"} => x.link < epoch
LaterLink ==
  \A x, y \in Sent :
    x.id.by = y.id.by /\ x.id.call = y.id.call /\ x.id.try < y.id.try => x.link < y.link
TriesPlaced ==
  /\ out_tx = epoch
  /\ \A c \in Callers : pc[c] # "idle" => calls[c] >= 1
  /\ \A x \in Sent : Placed(x)
  /\ LaterLink

LinkInv == LinkTypeOK /\ Wires /\ TriesPlaced
----------------------------------------------------------------------------
LEMMA LinkInitInv == LinkInit => LinkInv
<1> SUFFICES ASSUME LinkInit
             PROVE  LinkInv
  OBVIOUS
<1>0. MaxCalls \in Nat /\ MaxLinks \in Nat \ {0} /\ Nobody \notin Callers /\ 1 \in Links
  BY LinkAssumption DEF Links
<1>1. Wires
  BY DEF LinkInit, Wires
<1>2. LinkTypeOK
  <2>1. \A e \in Links : DOMAIN requests[e] = {} /\ DOMAIN responses[e] = {}
    BY DEF LinkInit
  <2>2. /\ pc \in [Callers -> Stages] /\ method \in [Callers -> Methods]
        /\ calls \in [Callers -> 0..MaxCalls]
    BY <1>0 DEF LinkInit, Stages, Methods
  <2>3. \A c \in Callers : pc[c] \in {"connect", "replay"} <=> holder = c
    BY <1>0 DEF LinkInit
  <2> QED
    BY <1>0, <2>1, <2>2, <2>3 DEF LinkInit, LinkTypeOK
<1>3. Sent = {}
  BY DEF LinkInit, Sent
<1> QED
  BY <1>0, <1>1, <1>2, <1>3 DEF LinkInv, TriesPlaced, LaterLink, LinkInit

\* What is sent.
LEMMA SentTyped ==
  ASSUME LinkInv
  PROVE  Sent \subseteq [id : Tries, link : Links]
BY DEF LinkInv, LinkTypeOK, Sent

LEMMA RequestSent ==
  ASSUME LinkInv, NEW e \in Links, NEW id \in Ids, NEW m \in Methods, SendOn(e, id, m),
         UNCHANGED executed
  PROVE  /\ requests' \in [Links -> Seq(Request)]
         /\ \A x \in Sent' : x \in Sent \/ (x.id = id /\ x.link = e /\ id \in Tries)
<1> DEFINE r == [id |-> id, method |-> m]
<1>1. r \in Request /\ requests \in [Links -> Seq(Request)]
  BY DEF Request, LinkInv, Wires
<1>2. requests' = [requests EXCEPT ![e] = Append(requests[e], r)]
  BY DEF SendOn
<1>3. requests' \in [Links -> Seq(Request)]
  BY <1>1, <1>2
<1>4. ASSUME NEW x \in Sent', x \notin Sent
      PROVE  x.id = id /\ x.link = e /\ id \in Tries
  <2>1. /\ x \in [id : Tries, link : Links]
        /\ \E i \in DOMAIN requests'[x.link] : requests'[x.link][i].id = x.id
    BY <1>4 DEF Sent
  <2>2. PICK i \in DOMAIN requests'[x.link] : requests'[x.link][i].id = x.id
    BY <2>1
  <2>3. x.id \in Tries /\ x.link \in Links
    BY <2>1
  <2>4. ~(i \in DOMAIN requests[x.link] /\ requests[x.link][i].id = x.id)
    BY <1>4, <2>1 DEF Sent
  <2>5. x.link = e
    BY <1>1, <1>2, <2>2, <2>3, <2>4
  <2>6. i = Len(requests[e]) + 1
    <3>1. requests[e] \in Seq(Request) /\ requests'[e] = Append(requests[e], r)
      BY <1>1, <1>2
    <3> QED
      BY <2>2, <2>4, <2>5, <3>1
  <2>7. requests'[e][i] = r
    BY <1>1, <1>2, <2>6
  <2> QED
    BY <2>2, <2>3, <2>5, <2>7
<1> QED
  BY <1>3, <1>4

\* A step of the wires that sends nothing.
LEMMA RequestsShrink ==
  ASSUME LinkInv, NEW e \in Links, requests[e] # <<>>, executed \subseteq executed',
         \A x \in executed' \ executed :
           /\ x \in [id : Tries, link : Links]
           /\ x.link = e /\ x.id = Head(requests[e]).id,
         \/ requests' = [requests EXCEPT ![e] = Tail(@)]
         \/ requests' = [requests EXCEPT ![e] = <<>>]
  PROVE  requests' \in [Links -> Seq(Request)] /\ Sent' \subseteq Sent
<1>1. requests \in [Links -> Seq(Request)] /\ requests[e] \in Seq(Request)
  BY DEF LinkInv, Wires
<1>2. requests' \in [Links -> Seq(Request)]
  <2>1. Tail(requests[e]) \in Seq(Request) /\ <<>> \in Seq(Request)
    BY <1>1
  <2> QED
    BY <1>1, <2>1
<1>3. ASSUME NEW x \in Sent'
      PROVE  x \in Sent
  <2>1. CASE x \in executed
    BY <2>1 DEF Sent
  <2>2. CASE x \in executed' \ executed
    <3>1. 1 \in DOMAIN requests[e] /\ Head(requests[e]) = requests[e][1]
      BY <1>1
    <3> QED
      BY <2>2, <3>1 DEF Sent
  <2>3. CASE x \notin executed'
    <3>1. /\ x \in [id : Tries, link : Links]
          /\ \E i \in DOMAIN requests'[x.link] : requests'[x.link][i].id = x.id
      BY <2>3 DEF Sent
    <3>2. PICK i \in DOMAIN requests'[x.link] : requests'[x.link][i].id = x.id
      BY <3>1
    <3>3. x.link \in Links
      BY <3>1
    <3>4. CASE x.link # e
      BY <1>1, <3>1, <3>2, <3>3, <3>4 DEF Sent
    <3>5. CASE x.link = e /\ requests'[e] = Tail(requests[e])
      <4>1. i + 1 \in DOMAIN requests[e] /\ requests[e][i + 1] = requests'[e][i]
        BY <1>1, <3>2, <3>5
      <4> QED
        BY <3>1, <3>2, <3>5, <4>1 DEF Sent
    <3>6. CASE x.link = e /\ requests'[e] = <<>>
      BY <3>2, <3>6
    <3>7. requests'[e] = Tail(requests[e]) \/ requests'[e] = <<>>
      BY <1>1
    <3> QED
      BY <3>4, <3>5, <3>6, <3>7
  <2> QED
    BY <2>1, <2>2, <2>3
<1> QED
  BY <1>2, <1>3
----------------------------------------------------------------------------
\* Nothing is sent, and only one caller moves, or none: its own tries are all that matter.
LEMMA CallerKeeps ==
  ASSUME LinkInv, NEW c \in Callers, Sent' \subseteq Sent,
         \A d \in Callers \ {c} : pc'[d] = pc[d] /\ calls'[d] = calls[d] /\ try'[d] = try[d],
         out_tx' = epoch', epoch' \in Links,
         \/ epoch' = epoch /\ (connected' => connected)
         \/ epoch' = epoch + 1,
         pc'[c] # "idle" => calls'[c] >= 1,
         \A x \in Sent : x.id.by = c => Placed(x)'
  PROVE  TriesPlaced'
<1>1. epoch \in Links /\ Links \subseteq Nat
  BY DEF LinkInv, LinkTypeOK, Links
<1>2. ASSUME NEW x \in Sent
      PROVE  Placed(x)'
  <2>1. x.id \in Tries /\ x.link \in Links /\ x.id.by \in Callers
    BY SentTyped DEF Tries
  <2>2. CASE x.id.by # c
    <3>1. Placed(x)
      BY DEF LinkInv, TriesPlaced
    <3>2. UNCHANGED <<pc[x.id.by], calls[x.id.by], try[x.id.by]>>
      BY <2>1, <2>2
    <3>3. CASE epoch' = epoch /\ (connected' => connected)
      BY <3>1, <3>2, <3>3 DEF Placed
    <3>4. CASE epoch' = epoch + 1
      <4>1. x.link \in Nat /\ epoch \in Nat
        BY <1>1, <2>1
      <4>2. x.link <= epoch
        BY <3>1 DEF Placed
      <4>3. x.link < epoch'
        BY <3>4, <4>1, <4>2
      <4> QED
        BY <3>1, <3>2, <3>4, <4>1, <4>3 DEF Placed
    <3> QED
      BY <3>3, <3>4
  <2> QED
    BY <2>2
<1>3. LaterLink'
  BY DEF LaterLink, LinkInv, TriesPlaced
<1>4. \A d \in Callers : pc'[d] # "idle" => calls'[d] >= 1
  BY DEF LinkInv, TriesPlaced
<1> QED
  BY <1>2, <1>3, <1>4 DEF TriesPlaced

\* Nothing is sent and nobody's call moves on.
LEMMA NobodyMoves ==
  ASSUME LinkInv, Sent' \subseteq Sent, UNCHANGED <<pc, calls, try, epoch, out_tx>>,
         connected' => connected
  PROVE  TriesPlaced'
<1>1. ASSUME NEW x \in Sent
      PROVE  Placed(x)'
  BY DEF Placed, LinkInv, TriesPlaced
<1> QED
  BY <1>1 DEF TriesPlaced, LaterLink, LinkInv

\* A message on a wire or a task of a connection moves.
LEMMA ConnectionKeeps ==
  ASSUME LinkInv, NEW e \in Links, ReaderStep(e) \/ WriteLost(e) \/ Serve(e) \/ Lose(e)
  PROVE  LinkInv'
<1>0. /\ requests \in [Links -> Seq(Request)] /\ responses \in [Links -> Seq(Ids)]
      /\ LinkTypeOK
  BY DEF LinkInv, Wires
<1>1. CASE ReadResponse(e)
  <2>1. responses' \in [Links -> Seq(Ids)]
    BY <1>0, <1>1 DEF ReadResponse
  <2>2. Sent' = Sent
    BY <1>1 DEF ReadResponse, daemonSide, Sent
  <2>3. TriesPlaced'
    BY <1>1, <2>2, NobodyMoves DEF ReadResponse
  <2>4. oneshot' \in [Callers -> {"empty", "answer", "closed"}] /\ pending' \subseteq Tries
    BY <1>0, <1>1 DEF ReadResponse, LinkTypeOK
  <2>5. LinkTypeOK'
    BY <1>0, <1>1, <2>1, <2>4 DEF ReadResponse, daemonSide, LinkTypeOK, Ids
  <2> QED
    BY <1>0, <1>1, <2>1, <2>3, <2>5 DEF LinkInv, Wires, ReadResponse
<1>2. CASE ReaderEnds(e)
  <2>1. Sent' = Sent
    BY <1>2 DEF ReaderEnds, daemonSide, Sent
  <2>2. TriesPlaced'
    BY <1>2, <2>1, NobodyMoves DEF ReaderEnds, clientState, callState
  <2>3. LinkTypeOK'
    BY <1>0, <1>2 DEF ReaderEnds, daemonSide, clientState, callState, LinkTypeOK
  <2> QED
    BY <1>0, <1>2, <2>2, <2>3 DEF LinkInv, Wires, ReaderEnds
<1>3. CASE Cleanup(e)
  <2>1. Sent' = Sent
    BY <1>3 DEF Cleanup, daemonSide, Sent
  <2>2. TriesPlaced'
    BY <1>3, <2>1, NobodyMoves DEF Cleanup
  <2>3. oneshot' \in [Callers -> {"empty", "answer", "closed"}]
    BY <1>0, <1>3 DEF Cleanup, LinkTypeOK
  <2>4. LinkTypeOK'
    BY <1>0, <1>3, <2>3 DEF Cleanup, daemonSide, LinkTypeOK
  <2> QED
    BY <1>0, <1>3, <2>2, <2>4 DEF LinkInv, Wires, Cleanup
<1>4. CASE WriteLost(e)
  <2>1. requests' \in [Links -> Seq(Request)] /\ Sent' \subseteq Sent
    BY <1>4, RequestsShrink DEF WriteLost, daemonSide
  <2>2. TriesPlaced'
    BY <1>4, <2>1, NobodyMoves DEF WriteLost, clientState, callState
  <2>3. LinkTypeOK'
    <3>1. \A f \in Links : \A i \in DOMAIN requests'[f] : requests'[f][i] \in Request
      BY <2>1
    <3>2. writer' \subseteq Links
      BY <1>0, <1>4 DEF WriteLost, LinkTypeOK
    <3> QED
      BY <1>0, <1>4, <3>1, <3>2
         DEF WriteLost, daemonSide, clientState, callState, LinkTypeOK, Request, Ids
  <2> QED
    BY <1>0, <1>4, <2>1, <2>2, <2>3 DEF LinkInv, Wires, WriteLost
<1>5. CASE Serve(e)
  <2> DEFINE r == Head(requests[e])
  <2>1. r \in Request
    BY <1>0, <1>5 DEF Serve
  <2>2. executed' = executed \cup {[id |-> id, link |-> e] : id \in {r.id} \cap Tries}
    BY <1>5 DEF Serve
  <2>3. executed' \subseteq [id : Tries, link : Links]
    BY <1>0, <2>2 DEF LinkTypeOK
  <2>4. requests' \in [Links -> Seq(Request)] /\ Sent' \subseteq Sent
    <3>1. \A x \in executed' \ executed :
            x \in [id : Tries, link : Links] /\ x.link = e /\ x.id = r.id
      BY <2>2, <2>3
    <3>2. requests[e] # <<>> /\ requests' = [requests EXCEPT ![e] = Tail(@)]
      BY <1>5 DEF Serve
    <3> QED
      BY <2>2, <3>1, <3>2, RequestsShrink
  <2>5. TriesPlaced'
    BY <1>5, <2>4, NobodyMoves DEF Serve, clientState, callState
  <2>6. responses' \in [Links -> Seq(Ids)]
    <3>1. responses' = [responses EXCEPT ![e] = Append(@, r.id)]
      BY <1>5 DEF Serve
    <3> QED
      BY <1>0, <2>1, <3>1 DEF Request
  <2>7. watching' \subseteq Links
    BY <1>0, <1>5 DEF Serve, LinkTypeOK
  <2>8. LinkTypeOK'
    BY <1>0, <1>5, <2>3, <2>4, <2>6, <2>7
       DEF Serve, clientState, callState, LinkTypeOK, Request, Ids
  <2> QED
    BY <2>4, <2>5, <2>6, <2>8 DEF LinkInv, Wires
<1>6. CASE Lose(e)
  <2>1. Sent' = Sent
    BY <1>6 DEF Lose, Sent
  <2>2. TriesPlaced'
    BY <1>6, <2>1, NobodyMoves DEF Lose, clientState, callState
  <2>3. responses' \in [Links -> Seq(Ids)]
    <3>1. PICK n \in 0..Len(responses[e]) : responses' = [responses EXCEPT ![e] = SubSeq(@, 1, n)]
      BY <1>6 DEF Lose
    <3>2. SubSeq(responses[e], 1, n) \in Seq(Ids)
      BY <1>0
    <3> QED
      BY <1>0, <3>1, <3>2
  <2>4. LinkTypeOK'
    BY <1>0, <1>6, <2>3 DEF Lose, clientState, callState, LinkTypeOK, Ids
  <2> QED
    BY <1>0, <1>6, <2>2, <2>3, <2>4 DEF LinkInv, Wires, Lose
<1> QED
  BY <1>1, <1>2, <1>3, <1>4, <1>5, <1>6 DEF ReaderStep
----------------------------------------------------------------------------
\* The state of a caller, one step after it.
LEMMA CallerFacts ==
  ASSUME LinkInv, NEW c \in Callers
  PROVE  /\ pc \in [Callers -> Stages] /\ calls \in [Callers -> 0..MaxCalls]
         /\ try \in [Callers -> {1, 2}] /\ method \in [Callers -> Methods]
         /\ MaxCalls \in Nat /\ MaxLinks \in Nat /\ Nobody \notin Callers
         /\ pc[c] # "idle" => Id(c) \in Tries
         /\ epoch \in Links /\ out_tx = epoch
         /\ \A x \in Sent : /\ x.id \in Tries /\ x.link \in Links /\ Placed(x)
                            /\ x.id.call \in Nat /\ x.link \in Nat
<1>1. /\ pc \in [Callers -> Stages] /\ calls \in [Callers -> 0..MaxCalls]
      /\ try \in [Callers -> {1, 2}] /\ method \in [Callers -> Methods] /\ epoch \in Links
  BY DEF LinkInv, LinkTypeOK
<1>2. MaxCalls \in Nat /\ MaxLinks \in Nat /\ Nobody \notin Callers
  BY LinkAssumption
<1>3. pc[c] # "idle" => Id(c) \in Tries
  <2> SUFFICES ASSUME pc[c] # "idle"
               PROVE  Id(c) \in Tries
    OBVIOUS
  <2>1. calls[c] >= 1 /\ calls[c] \in 0..MaxCalls /\ try[c] \in {1, 2}
    BY <1>1 DEF LinkInv, TriesPlaced
  <2>2. calls[c] \in 1..MaxCalls
    BY <1>2, <2>1
  <2> QED
    BY <2>1, <2>2 DEF Id, Tries
<1>4. ASSUME NEW x \in Sent
      PROVE  /\ x.id \in Tries /\ x.link \in Links /\ Placed(x)
             /\ x.id.call \in Nat /\ x.link \in Nat
  BY SentTyped DEF LinkInv, TriesPlaced, Tries, Links
<1> QED
  BY <1>1, <1>2, <1>3, <1>4 DEF LinkInv, TriesPlaced

\* A caller that moves leaves the others where they are.
LEMMA OthersStay ==
  ASSUME LinkInv, NEW c \in Callers, NEW next \in Stages, To(c, next)
  PROVE  /\ pc' \in [Callers -> Stages] /\ pc'[c] = next
         /\ \A d \in Callers \ {c} : pc'[d] = pc[d]
BY CallerFacts DEF To

\* Who holds the lock.
LEMMA LockHeld ==
  ASSUME LinkInv, NEW c \in Callers, NEW next \in Stages, To(c, next),
         \/ holder' = holder /\ (next \in {"connect", "replay"} <=> pc[c] \in {"connect", "replay"})
         \/ holder' = Nobody /\ next \notin {"connect", "replay"} /\ pc[c] \in {"connect", "replay"}
         \/ holder' = c /\ holder = Nobody /\ next \in {"connect", "replay"}
  PROVE  /\ holder' \in Callers \cup {Nobody}
         /\ \A d \in Callers : pc'[d] \in {"connect", "replay"} <=> holder' = d
<1>1. /\ holder \in Callers \cup {Nobody} /\ Nobody \notin Callers
      /\ \A d \in Callers : pc[d] \in {"connect", "replay"} <=> holder = d
  BY LinkAssumption DEF LinkInv, LinkTypeOK
<1>2. /\ pc'[c] = next
      /\ \A d \in Callers \ {c} : pc'[d] = pc[d]
  BY OthersStay
<1> QED
  BY <1>1, <1>2

\* A caller moves that leaves the wires alone.
LEMMA CallMoves ==
  ASSUME LinkInv, NEW c \in Callers,
         Begin(c) \/ Check(c) \/ Lock(c) \/ Connect(c) \/ ConnectFails(c) \/ Insert(c)
         \/ Return(c) \/ SenderDropped(c) \/ CallTimeout(c)
  PROVE  LinkInv'
<1>0. LinkTypeOK /\ Wires
  BY DEF LinkInv
<1>1. UNCHANGED <<requests, responses, executed, watching>> /\ Sent' = Sent /\ Wires'
  <2>1. UNCHANGED <<requests, responses, executed, watching>>
    BY DEF Begin, Check, Lock, Connect, ConnectFails, Insert, Return, SenderDropped, CallTimeout,
           wires, daemonSide
  <2> QED
    BY <1>0, <2>1 DEF Sent, Wires
<1>2. PICK next \in Stages : To(c, next)
  <2>1. {"idle", "check", "lock", "connect", "replay", "insert", "send", "wait"} = Stages
    BY DEF Stages
  <2> QED
    BY <2>1 DEF Begin, Check, Lock, Connect, ConnectFails, Insert, Return, SenderDropped,
                CallTimeout, Again
<1>3. /\ pc' \in [Callers -> Stages] /\ pc'[c] = next
      /\ \A d \in Callers \ {c} : pc'[d] = pc[d]
  BY <1>2, OthersStay
<1>4. /\ calls' \in [Callers -> 0..MaxCalls] /\ try' \in [Callers -> {1, 2}]
      /\ method' \in [Callers -> Methods]
      /\ \A d \in Callers \ {c} : calls'[d] = calls[d] /\ try'[d] = try[d]
  <2>1. CASE Begin(c)
    <3>1. calls[c] + 1 \in 0..MaxCalls
      BY <2>1, CallerFacts DEF Begin
    <3>2. PICK m \in {"ping", "watch", "unwatch"} : method' = [method EXCEPT ![c] = m]
      BY <2>1 DEF Begin
    <3> QED
      BY <2>1, <3>1, <3>2, CallerFacts DEF Begin, Methods
  <2>2. CASE SenderDropped(c)
    BY <2>2, CallerFacts DEF SenderDropped, Again
  <2>3. CASE ~Begin(c) /\ ~SenderDropped(c)
    BY <2>3, CallerFacts
       DEF Check, Lock, Connect, ConnectFails, Insert, Return, CallTimeout
  <2> QED
    BY <2>1, <2>2, <2>3
<1>5. /\ holder' \in Callers \cup {Nobody}
      /\ \A d \in Callers : pc'[d] \in {"connect", "replay"} <=> holder' = d
  <2>1. next = pc'[c]
    BY <1>3
  <2>2. CASE Lock(c)
    <3>1. next = IF connected THEN "insert" ELSE "connect"
      BY <1>3, <2>2, CallerFacts DEF Lock, To
    <3> QED
      BY <1>2, <2>2, <3>1, LockHeld DEF Lock, At
  <2>3. CASE ConnectFails(c)
    <3>1. next = "idle"
      BY <1>3, <2>3, CallerFacts DEF ConnectFails, To
    <3> QED
      BY <1>2, <2>3, <3>1, LockHeld DEF ConnectFails, At
  <2>4. CASE ~Lock(c) /\ ~ConnectFails(c)
    <3>1. holder' = holder
      BY <2>4 DEF Begin, Check, Connect, Insert, Return, SenderDropped, CallTimeout, clientState
    <3>2. next \in {"connect", "replay"} <=> pc[c] \in {"connect", "replay"}
      BY <1>3, <2>4, CallerFacts
         DEF Begin, Check, Connect, Insert, Return, SenderDropped, CallTimeout, Again, To, At
    <3> QED
      BY <1>2, <3>1, <3>2, LockHeld
  <2> QED
    BY <2>2, <2>3, <2>4
<1>6. /\ epoch' \in Links /\ out_tx' = epoch'
      /\ \/ epoch' = epoch /\ (connected' => connected)
         \/ epoch' = epoch + 1
  <2>1. CASE Connect(c)
    BY <2>1, CallerFacts DEF Connect, Links
  <2>2. CASE ~Connect(c)
    <3>1. UNCHANGED <<epoch, out_tx>> /\ (connected' = connected \/ connected' = FALSE)
      BY <2>2
         DEF Begin, Check, Lock, ConnectFails, Insert, Return, SenderDropped, CallTimeout,
             clientState
    <3> QED
      BY <3>1, CallerFacts
  <2> QED
    BY <2>1, <2>2
<1>7. /\ connected' \in BOOLEAN /\ recorded' \in BOOLEAN /\ pending' \subseteq Tries
      /\ oneshot' \in [Callers -> {"empty", "answer", "closed"}]
  BY <1>0, CallerFacts
     DEF LinkTypeOK, Begin, Check, Lock, Connect, ConnectFails, Insert, Return, SenderDropped,
         CallTimeout, clientState, At
<1>8. /\ socket' \in [Links -> {"none", "open", "lost"}] /\ writer' \subseteq Links
      /\ reader' \in [Links -> {"none", "reading", "cleanup", "gone"}]
  <2>1. CASE Connect(c)
    BY <1>0, <1>6, <2>1 DEF Connect, LinkTypeOK
  <2>2. CASE ~Connect(c)
    BY <1>0, <2>2
       DEF Begin, Check, Lock, ConnectFails, Insert, Return, SenderDropped, CallTimeout, wires,
           LinkTypeOK
  <2> QED
    BY <2>1, <2>2
<1>9. LinkTypeOK'
  BY <1>0, <1>1, <1>3, <1>4, <1>5, <1>6, <1>7, <1>8 DEF LinkTypeOK
<1>10. ASSUME NEW x \in Sent, x.id.by = c
       PROVE  Placed(x)'
  <2>0. /\ Placed(x) /\ x.link \in Nat /\ x.id.call \in Nat /\ x.id.try \in {1, 2}
        /\ epoch \in Nat /\ try[c] \in {1, 2} /\ calls[c] \in Nat
    BY CallerFacts DEF Tries, Links
  <2>1. CASE Begin(c)
    <3>1. calls'[c] = calls[c] + 1 /\ epoch' = epoch
      BY <2>1, CallerFacts DEF Begin, clientState
    <3> QED
      BY <1>10, <2>0, <3>1 DEF Placed
  <2>2. CASE Check(c) \/ Lock(c) \/ ConnectFails(c) \/ Insert(c) \/ Return(c) \/ CallTimeout(c)
    <3>1. UNCHANGED <<epoch, connected, calls, try>>
      BY <2>2 DEF Check, Lock, ConnectFails, Insert, Return, CallTimeout, clientState
    <3>2. \/ pc[c] \in {"check", "lock"} /\ pc'[c] = "insert" /\ connected
          \/ pc[c] \in {"check", "lock"} /\ pc'[c] \in {"lock", "connect"}
          \/ pc[c] = "insert" /\ pc'[c] = "send"
          \/ pc'[c] = "idle"
      <4>1. CASE Check(c) \/ Lock(c)
        BY <4>1, CallerFacts DEF Check, Lock, At, To
      <4>2. CASE ConnectFails(c) \/ Insert(c) \/ Return(c) \/ CallTimeout(c)
        BY <4>2, CallerFacts DEF ConnectFails, Insert, Return, CallTimeout, At, To
      <4> QED
        BY <2>2, <4>1, <4>2
    <3> QED
      BY <1>10, <2>0, <3>1, <3>2 DEF Placed
  <2>3. CASE Connect(c)
    <3>1. /\ epoch' = epoch + 1 /\ UNCHANGED <<calls, try>>
          /\ pc[c] = "connect" /\ pc'[c] = "replay"
      BY <2>3, CallerFacts DEF Connect, At, To
    <3> QED
      BY <1>10, <2>0, <3>1 DEF Placed
  <2>4. CASE SenderDropped(c)
    <3>1. UNCHANGED <<epoch, calls>> /\ ~connected' /\ pc[c] = "wait"
      BY <2>4 DEF SenderDropped, At
    <3>2. \/ try[c] = 1 /\ pc'[c] = "check" /\ try'[c] = 2
          \/ try[c] = 2 /\ pc'[c] = "idle" /\ try'[c] = 2
      BY <2>0, <2>4, CallerFacts DEF SenderDropped, Again, To
    <3> QED
      BY <1>10, <2>0, <3>1, <3>2 DEF Placed
  <2> QED
    BY <2>1, <2>2, <2>3, <2>4
<1>11. pc'[c] # "idle" => calls'[c] >= 1
  <2>1. pc[c] # "idle" => calls[c] >= 1
    BY DEF LinkInv, TriesPlaced
  <2>2. CASE Begin(c)
    BY <2>2, CallerFacts DEF Begin
  <2>3. CASE ~Begin(c)
    <3>1. pc[c] # "idle" /\ calls' = calls
      BY <2>3 DEF Check, Lock, Connect, ConnectFails, Insert, Return, SenderDropped, CallTimeout, At
    <3> QED
      BY <2>1, <3>1
  <2> QED
    BY <2>2, <2>3
<1>12. TriesPlaced'
  BY <1>1, <1>3, <1>4, <1>6, <1>10, <1>11, CallerKeeps
<1> QED
  BY <1>1, <1>9, <1>12 DEF LinkInv

\* The replay of the watch is no try.
LEMMA ReplayKeeps == ASSUME LinkInv, NEW c \in Callers, Replay(c) PROVE LinkInv'
<1>0. LinkTypeOK /\ Wires
  BY DEF LinkInv
<1> DEFINE id == [by |-> Nobody, call |-> out_tx, try |-> 1]
<1>1. id \in Ids /\ id \notin Tries /\ out_tx \in Links /\ "watch" \in Methods
  BY CallerFacts DEF Ids, Replays, Tries, Methods
<1>2. requests' \in [Links -> Seq(Request)] /\ Sent' \subseteq Sent
  <2>1. CASE SendOn(out_tx, id, "watch")
    <3>1. executed' = executed
      BY DEF Replay, daemonSide
    <3> QED
      BY <1>1, <2>1, <3>1, RequestSent
  <2>2. CASE UNCHANGED requests
    BY <1>0, <2>2 DEF Replay, daemonSide, Sent, Wires
  <2> QED
    BY <2>1, <2>2 DEF Replay
<1>3. To(c, "insert") /\ "insert" \in Stages
  BY DEF Replay, Stages
<1>4. /\ pc' \in [Callers -> Stages] /\ pc'[c] = "insert" /\ pc[c] = "replay"
      /\ \A d \in Callers \ {c} : pc'[d] = pc[d]
  BY <1>3, OthersStay DEF Replay, At
<1>5. /\ holder' \in Callers \cup {Nobody}
      /\ \A d \in Callers : pc'[d] \in {"connect", "replay"} <=> holder' = d
  BY <1>3, <1>4, LockHeld DEF Replay
<1>6. UNCHANGED <<connected, epoch, out_tx, pending, recorded, method, calls, try, oneshot,
                  socket, writer, reader, responses, watching, executed>>
  BY DEF Replay, daemonSide
<1>7. LinkTypeOK'
  <2>1. \A e \in Links : \A i \in DOMAIN requests'[e] : requests'[e][i] \in Request
    BY <1>2
  <2> QED
    BY <1>0, <1>4, <1>5, <1>6, <2>1 DEF LinkTypeOK, Request, Ids
<1>8. ASSUME NEW x \in Sent, x.id.by = c
      PROVE  Placed(x)'
  BY <1>4, <1>6, <1>8, CallerFacts DEF Placed
<1>9. TriesPlaced'
  <2>1. pc[c] # "idle" => calls[c] >= 1
    BY DEF LinkInv, TriesPlaced
  <2> QED
    BY <1>2, <1>4, <1>6, <1>8, <2>1, CallerFacts, CallerKeeps
<1> QED
  BY <1>0, <1>2, <1>6, <1>7, <1>9 DEF LinkInv, Wires

\* A try goes out on the current connection, or finds it gone.
LEMMA SendKeeps == ASSUME LinkInv, NEW c \in Callers, Send(c) PROVE LinkInv'
<1>0. LinkTypeOK /\ Wires
  BY DEF LinkInv
<1>1. /\ pc[c] = "send" /\ Id(c) \in Tries /\ out_tx = epoch /\ epoch \in Links
      /\ epoch \in Nat /\ calls[c] \in Nat /\ try[c] \in {1, 2} /\ calls[c] >= 1
      /\ method[c] \in Methods
  BY CallerFacts DEF Send, At, Links, LinkInv, TriesPlaced
<1>2. UNCHANGED <<epoch, out_tx, recorded, holder, method, calls, oneshot, socket, writer,
                  reader, responses, watching, executed>>
  BY DEF Send, daemonSide
<1>3. CASE SendOn(out_tx, Id(c), method[c]) /\ To(c, "wait") /\ UNCHANGED <<connected, pending, try>>
  <2>1. /\ pc' \in [Callers -> Stages] /\ pc'[c] = "wait"
        /\ \A d \in Callers \ {c} : pc'[d] = pc[d]
    <3>1. "wait" \in Stages
      BY DEF Stages
    <3> QED
      BY <1>3, <3>1, OthersStay
  <2>2. /\ requests' \in [Links -> Seq(Request)]
        /\ \A x \in Sent' : x \in Sent \/ (x.id = Id(c) /\ x.link = epoch)
    <3>1. Id(c) \in Ids
      BY <1>1 DEF Ids
    <3> QED
      BY <1>1, <1>2, <1>3, <3>1, RequestSent
  <2>3. LinkTypeOK'
    <3>1. \A e \in Links : \A i \in DOMAIN requests'[e] : requests'[e][i] \in Request
      BY <2>2
    <3>2. \A d \in Callers : pc'[d] \in {"connect", "replay"} <=> holder' = d
      BY <1>0, <1>1, <1>2, <2>1 DEF LinkTypeOK
    <3> QED
      BY <1>0, <1>2, <1>3, <2>1, <3>1, <3>2 DEF LinkTypeOK, Request, Ids
  <2>4. /\ Id(c).by = c /\ Id(c).call = calls[c] /\ Id(c).try = try[c]
    BY DEF Id
  <2>5. ASSUME NEW x \in Sent, x.id.by = c, x.id.call = calls[c]
        PROVE  x.id.try < try[c] /\ x.link < epoch
    BY <1>1, <2>5, CallerFacts DEF Placed, Tries
  <2>6. ASSUME NEW x \in Sent'
        PROVE  Placed(x)'
    <3>1. CASE x.id = Id(c) /\ x.link = epoch
      BY <1>1, <1>2, <1>3, <2>1, <2>4, <3>1 DEF Placed
    <3>2. CASE x \in Sent /\ x.id.by = c
      <4>1. x.id.try \in {1, 2} /\ x.link \in Nat /\ Placed(x)
        BY <3>2, CallerFacts DEF Tries
      <4> QED
        BY <1>1, <1>2, <1>3, <2>1, <2>5, <3>2, <4>1 DEF Placed
    <3>3. CASE x \in Sent /\ x.id.by # c
      <4>1. Placed(x) /\ x.id.by \in Callers
        BY <3>3, CallerFacts DEF Tries
      <4> QED
        BY <1>2, <1>3, <2>1, <3>3, <4>1 DEF Placed
    <3> QED
      BY <2>2, <3>1, <3>2, <3>3
  <2>7. LaterLink'
    <3> SUFFICES ASSUME NEW x \in Sent', NEW y \in Sent',
                        x.id.by = y.id.by, x.id.call = y.id.call, x.id.try < y.id.try
                 PROVE  x.link < y.link
      BY DEF LaterLink
    <3>1. CASE x \in Sent /\ y \in Sent
      BY <3>1 DEF LaterLink, LinkInv, TriesPlaced
    <3>2. CASE x \in Sent /\ y.id = Id(c) /\ y.link = epoch
      BY <2>4, <2>5, <3>2
    <3>3. CASE y \in Sent /\ x.id = Id(c)
      <4>1. y.id.try < try[c] /\ y.id.try \in {1, 2}
        BY <2>4, <2>5, <3>3, CallerFacts DEF Tries
      <4> QED
        BY <1>1, <2>4, <3>3, <4>1
    <3>4. CASE x.id = Id(c) /\ y.id = Id(c)
      BY <1>1, <2>4, <3>4
    <3> QED
      BY <2>2, <3>1, <3>2, <3>3, <3>4
  <2>8. \A d \in Callers : pc'[d] # "idle" => calls'[d] >= 1
    BY <1>1, <1>2, <2>1 DEF LinkInv, TriesPlaced
  <2>9. TriesPlaced'
    BY <1>1, <1>2, <2>6, <2>7, <2>8 DEF TriesPlaced
  <2> QED
    BY <1>0, <1>2, <2>2, <2>3, <2>9 DEF LinkInv, Wires
<1>4. CASE /\ pending' = pending \ {Id(c)} /\ connected' = FALSE /\ Again(c)
           /\ UNCHANGED requests
  <2>1. \/ try[c] = 1 /\ To(c, "check") /\ try' = [try EXCEPT ![c] = 2]
        \/ try[c] = 2 /\ To(c, "idle") /\ try' = try
    BY <1>1, <1>4 DEF Again
  <2>2. /\ pc' \in [Callers -> Stages] /\ pc'[c] \in {"check", "idle"}
        /\ \A d \in Callers \ {c} : pc'[d] = pc[d]
        /\ pc'[c] = "check" => try[c] = 1
        /\ pc'[c] = "idle" => try[c] = 2
    <3>1. {"check", "idle"} \subseteq Stages
      BY DEF Stages
    <3> QED
      BY <2>1, <3>1, OthersStay
  <2>3. /\ try' \in [Callers -> {1, 2}] /\ try'[c] = 2
        /\ \A d \in Callers \ {c} : try'[d] = try[d]
    BY <2>1, CallerFacts
  <2>4. Sent' = Sent
    BY <1>2, <1>4 DEF Sent
  <2>5. LinkTypeOK'
    <3>1. \A d \in Callers : pc'[d] \in {"connect", "replay"} <=> holder' = d
      BY <1>0, <1>1, <1>2, <2>2 DEF LinkTypeOK
    <3> QED
      BY <1>0, <1>2, <1>4, <2>2, <2>3, <3>1 DEF LinkTypeOK
  <2>6. ASSUME NEW x \in Sent, x.id.by = c
        PROVE  Placed(x)'
    <3>1. Placed(x) /\ x.id.try \in {1, 2} /\ x.link \in Nat
      BY CallerFacts DEF Tries
    <3> QED
      BY <1>1, <1>2, <1>4, <2>2, <2>3, <2>6, <3>1 DEF Placed
  <2>7. TriesPlaced'
    BY <1>1, <1>2, <1>4, <2>2, <2>3, <2>4, <2>6, CallerKeeps
  <2> QED
    BY <1>0, <1>2, <1>4, <2>5, <2>7 DEF LinkInv, Wires
<1> QED
  BY <1>3, <1>4 DEF Send

LEMMA LinkStep == ASSUME LinkInv, [LinkNext]_linkVars PROVE LinkInv'
<1>1. ASSUME NEW c \in Callers, Begin(c) \/ Lock(c) \/ CallStep(c)
      PROVE  LinkInv'
  BY <1>1, CallMoves, ReplayKeeps, SendKeeps DEF CallStep
<1>2. ASSUME NEW e \in Links, ReaderStep(e) \/ WriteLost(e) \/ Serve(e) \/ Lose(e)
      PROVE  LinkInv'
  BY <1>2, ConnectionKeeps
<1>3. CASE UNCHANGED linkVars
  <2>1. Sent' = Sent
    BY <1>3 DEF linkVars, daemonSide, wires, Sent
  <2>2. TriesPlaced'
    BY <1>3, <2>1, NobodyMoves DEF linkVars, clientState, callState
  <2>3. LinkTypeOK' /\ Wires'
    BY <1>3 DEF linkVars, clientState, callState, daemonSide, wires, LinkInv, LinkTypeOK, Wires
  <2> QED
    BY <2>2, <2>3 DEF LinkInv
<1> QED
  BY <1>1, <1>2, <1>3 DEF LinkNext

\* The inductive invariant of DaemonClient: every request on its way, answered or waited
\* for belongs to the connection its call is on, and a retry is on a later one.
THEOREM LinkInvariant == LinkSpec => []LinkInv
BY LinkInitInv, LinkStep, PTL DEF LinkSpec

\* The client's state keeps its type, and one caller at most holds the reconnecting lock.
THEOREM LinkTypeCorrect == LinkSpec => []LinkTypeOK
<1>1. LinkInv => LinkTypeOK
  BY DEF LinkInv
<1> QED
  BY <1>1, LinkInvariant, PTL

\* DaemonClient::call: "the second runs only after a reconnect": whatever calls, losses and
\* timeouts happen, the two tries of a call never run on one connection.
THEOREM TriesOnTwoLinks == LinkSpec => []TwiceOnTwoLinks
<1>1. ASSUME LinkInv
      PROVE  TwiceOnTwoLinks
  <2> SUFFICES ASSUME NEW x \in executed, NEW y \in executed, x.id.by = y.id.by,
                      x.id.call = y.id.call, x.id.try # y.id.try
               PROVE  x.link # y.link
    BY DEF TwiceOnTwoLinks
  <2>1. x \in Sent /\ y \in Sent
    BY DEF Sent
  <2>2. /\ x.id.try \in {1, 2} /\ y.id.try \in {1, 2} /\ x.link \in Nat /\ y.link \in Nat
    BY <1>1, <2>1, SentTyped DEF Tries, Links
  <2>3. x.id.try < y.id.try \/ y.id.try < x.id.try
    BY <2>2
  <2> QED
    BY <1>1, <2>1, <2>2, <2>3 DEF LinkInv, TriesPlaced, LaterLink
<1> QED
  BY <1>1, LinkInvariant, PTL
\* Every connection the client still trusts has a reader that will notice its loss: cleanups of
\* superseded readers, reconnects and failed sends never leave `connected` set over a connection
\* nobody reads. The safety of LossNoticed.
Attended == connected => reader[out_tx] \in {"reading", "cleanup"}

LEMMA AttendedStep == ASSUME LinkInv, LinkInv', Attended, [LinkNext]_linkVars PROVE Attended'
<1>1. /\ out_tx = epoch /\ epoch \in Links /\ out_tx' = epoch' /\ epoch' \in Links
      /\ reader \in [Links -> {"none", "reading", "cleanup", "gone"}]
  BY DEF LinkInv, LinkTypeOK, TriesPlaced
<1>2. CASE UNCHANGED <<out_tx, reader>> /\ (connected' => connected)
  BY <1>2 DEF Attended
<1>3. ASSUME NEW c \in Callers, Begin(c) \/ Lock(c) \/ CallStep(c) PROVE Attended'
  <2>1. CASE Connect(c) BY <1>1, <2>1 DEF Connect, Attended
  <2>2. CASE Begin(c) \/ Check(c)
    BY <1>2, <2>2 DEF Begin, Check, clientState, wires
  <2>3. CASE Lock(c) \/ ConnectFails(c) \/ Return(c) \/ SenderDropped(c) \/ CallTimeout(c) \/ Insert(c)
    BY <1>2, <2>3 DEF Lock, ConnectFails, Return, SenderDropped, CallTimeout, Insert, wires
  <2>4. CASE Replay(c) \/ Send(c) BY <1>2, <2>4 DEF Replay, Send
  <2> QED BY <1>3, <2>1, <2>2, <2>3, <2>4 DEF CallStep
<1>4. ASSUME NEW e \in Links, ReaderStep(e) \/ WriteLost(e) \/ Serve(e) \/ Lose(e) PROVE Attended'
  <2>1. CASE ReaderEnds(e) BY <1>1, <2>1 DEF ReaderEnds, Attended, clientState
  <2>2. CASE Cleanup(e) BY <2>2 DEF Cleanup, Attended
  <2>3. CASE ReadResponse(e) \/ WriteLost(e) \/ Serve(e) \/ Lose(e)
    BY <1>2, <2>3 DEF ReadResponse, WriteLost, Serve, Lose, clientState
  <2> QED BY <1>4, <2>1, <2>2, <2>3 DEF ReaderStep
<1>5. UNCHANGED linkVars => Attended' BY <1>2 DEF linkVars, clientState, wires
<1> QED BY <1>3, <1>4, <1>5 DEF LinkNext

\* The client trusts no connection without a reader, whichever of its readers ends late.
THEOREM TrustAttended == LinkSpec => []Attended
<1>1. LinkInit => Attended BY LinkAssumption DEF LinkInit, Attended, Links
<1> QED BY <1>1, AttendedStep, LinkInvariant, PTL DEF LinkSpec
=============================================================================
