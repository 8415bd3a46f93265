-------------------------- MODULE FleetMailProofs --------------------------
(***************************************************************************)
(* The claim protocol of FleetMail, for any messages, windows, concurrent   *)
(* forced sends, page limit and number of crashes and store errors.         *)
(***************************************************************************)
EXTENDS FleetMail, TLAPS

\* Counting one more for a message keeps a table of counters well typed.
LEMMA Bump ==
  ASSUME NEW f \in [Msgs -> Nat], NEW m \in Msgs
  PROVE  [f EXCEPT ![m] = f[m] + 1] \in [Msgs -> Nat]
OBVIOUS

\* A page of the queue is a part of the queried rows.
LEMMA OldestSubset == \A S, n : Oldest(S, n) \subseteq S
BY DEF Oldest

\* Marking policy-blocked mail keeps the delivery errors well typed.
LEMMA BlockedType ==
  ASSUME TypeOK, NEW policy PROVE WithBlocked(policy) \in [Msgs -> {"none", "blocked", "failed"}]
BY DEF TypeOK, WithBlocked

\* Every reachable state is well typed.
LEMMA InitTyped == ASSUME Init PROVE TypeOK
BY MailAssumption DEF Init, TypeOK, Actors, Attempting, WorkerPC, Classes, PaneState

\* Every step keeps the state well typed, the program counters in step with the
\* message in hand, and the claims among the stored rows.
LEMMA StepTyped == ASSUME TypeOK, [Next]_vars PROVE TypeOK'
<1> USE MailAssumption
<1>1. ASSUME NEW m \in Msgs, Send(m) PROVE TypeOK'
  BY <1>1 DEF Send, TypeOK, Local, store, worker, terminal, history, Actors, Attempting, WorkerPC
<1>2. ASSUME NEW m \in Msgs, MarkRead(m) PROVE TypeOK'
  BY <1>2 DEF MarkRead, TypeOK, Local, store, worker, terminal, history, Actors, Attempting, WorkerPC
<1>3. ASSUME NEW m \in Msgs, Delete(m) PROVE TypeOK'
  BY <1>3 DEF Delete, TypeOK, Local, store, worker, terminal, history, Actors, Attempting, WorkerPC
<1>4. ASSUME NEW w \in Windows, Inbox(w) PROVE TypeOK'
  BY <1>4 DEF Inbox, TypeOK, Local, store, worker, terminal, history, Actors, Attempting, WorkerPC
<1>5. ASSUME NEW policy \in SUBSET Classes, SetPolicy(policy) PROVE TypeOK'
  BY <1>5 DEF SetPolicy, TypeOK, Local, store, worker, terminal, history, Actors, Attempting, WorkerPC
<1>6. ASSUME StartPass PROVE TypeOK'
  BY <1>6 DEF StartPass, Goto, TypeOK, Local, store, worker, terminal, history, Actors, Attempting, WorkerPC
<1>7. ASSUME Query PROVE TypeOK'
  <2>1. Queued(snap) \subseteq Msgs
    BY OldestSubset DEF Queued, TypeOK
  <2>2. err' \in [Msgs -> {"none", "blocked", "failed"}]
    BY <1>7, BlockedType DEF Query, TypeOK
  <2>3. QED BY <1>7, <2>1, <2>2 DEF Query, Goto, Fault, TypeOK, Local, store, worker, terminal, history, Actors, Attempting, WorkerPC
<1>8. ASSUME QueryFault PROVE TypeOK'
  <2>1. Fault /\ pc' = [pc EXCEPT ![Worker] = "tick"]
    BY <1>8 DEF QueryFault, Goto
  <2>2. err' \in [Msgs -> {"none", "blocked", "failed"}]
    BY <1>8, BlockedType DEF QueryFault, TypeOK
  <2>3. QED BY <1>8, <2>1, <2>2 DEF QueryFault, Goto, Fault, TypeOK, Local, store, worker, terminal, history, Actors, Attempting, WorkerPC
<1>9. ASSUME Lanes PROVE TypeOK'
  BY <1>9 DEF Lanes, Goto, OnePerWindow, TypeOK, Local, store, worker, terminal, history, Actors, Attempting, WorkerPC
<1>10. ASSUME LanesFault PROVE TypeOK'
  BY <1>10 DEF LanesFault, Goto, Fault, TypeOK, Local, store, worker, terminal, history, Actors, Attempting, WorkerPC
<1>11. ASSUME NextMessage PROVE TypeOK'
  <2>1. PICK m \in todo : \/ /\ pc' = [pc EXCEPT ![Worker] = "claim"]
                             /\ at' = [at EXCEPT ![Worker] = m]
                             /\ todo' = todo
                          \/ todo' = todo \ {m} /\ UNCHANGED <<pc, at>>
    BY <1>11 DEF NextMessage, Goto
  <2>2. m \in Msgs /\ m # NoMsg /\ todo' \subseteq page
    BY <2>1 DEF TypeOK
  <2>3. UNCHANGED <<Local, snap, page, attempts, notified, faults>> /\ pc[Worker] = "next"
    BY <1>11 DEF NextMessage
  <2>4. QED BY <2>1, <2>2, <2>3 DEF TypeOK, Local, store, worker, terminal, history, Actors, Attempting, WorkerPC
<1>12. ASSUME EndPass PROVE TypeOK'
  BY <1>12 DEF EndPass, Goto, TypeOK, Local, store, worker, terminal, history, Actors, Attempting, WorkerPC
<1>13. ASSUME NEW f \in Forcers, NEW m \in Msgs, ForceSend(f, m) PROVE TypeOK'
  BY <1>13 DEF ForceSend, Goto, TypeOK, Local, store, worker, terminal, history, Actors, Attempting, WorkerPC
<1>14. ASSUME NEW a \in Actors, Attempt(a) PROVE TypeOK'
  <2>1. CASE Claim(a)
    <3>1. CASE Unclaimed(at[a])
      <4>1. /\ pc[a] = "claim" /\ pc' = [pc EXCEPT ![a] = "capture"]
            /\ claims' = claims \cup {at[a]} /\ at[a] \in stored
        BY <2>1, <3>1 DEF Claim, Unclaimed, Goto
      <4>2. UNCHANGED <<stored, erased, delivered, read, err, allowed, at, snap, page, todo,
                        attempts, notified, terminal, history, crashes, faults>>
        BY <2>1, <3>1 DEF Claim
      <4> HIDE <2>1, <3>1
      <4>3. QED BY <1>14, <4>1, <4>2 DEF TypeOK, terminal, history, Actors, Attempting, WorkerPC
    <3>2. CASE ~Unclaimed(at[a])
      <4>1. claims' = claims /\ Return(a)
        BY <2>1, <3>2 DEF Claim
      <4>2. QED BY <1>14, <2>1, <4>1 DEF Claim, Return, Goto, TypeOK, Local, store, worker, terminal, history, Actors, Attempting, WorkerPC
    <3>3. QED BY <3>1, <3>2
  <2>2. CASE Capture(a)
    BY <1>14, <2>2 DEF Capture, Goto, TypeOK, Local, store, worker, terminal, history, Actors, Attempting, WorkerPC
  <2>3. CASE Skip(a)
    BY <1>14, <2>3 DEF Skip, Goto, Fault, TypeOK, Local, store, worker, terminal, history, Actors, Attempting, WorkerPC
  <2>4. CASE Type(a)
    <3>1. at[a] \in Msgs
      BY <1>14, <2>4 DEF Type, TypeOK, Attempting
    <3>2. typed' = [typed EXCEPT ![at[a]] = typed[at[a]] + 1]
      BY <2>4 DEF Type
    <3>3. typed' \in [Msgs -> Nat]
      <4>1. typed \in [Msgs -> Nat]
        BY DEF TypeOK
      <4>2. QED BY <3>1, <3>2, <4>1, Bump
    <3>4. QED BY <1>14, <2>4, <3>1, <3>3 DEF Type, Goto, TypeOK, Local, store, worker, terminal, history, Actors, Attempting, WorkerPC
  <2>5. CASE TypeFault(a)
    BY <1>14, <2>5 DEF TypeFault, Goto, TypeOK, Local, store, worker, terminal, history, Actors, Attempting, WorkerPC
  <2>6. CASE Verify(a)
    BY <1>14, <2>6 DEF Verify, Goto, TypeOK, Local, store, worker, terminal, history, Actors, Attempting, WorkerPC
  <2>7. CASE Mark(a)
    BY <1>14, <2>7 DEF Mark, Return, Goto, TypeOK, Local, store, worker, terminal, history, Actors, Attempting, WorkerPC
  <2>8. CASE MarkMissing(a)
    BY <1>14, <2>8 DEF MarkMissing, Goto, TypeOK, Local, store, worker, terminal, history, Actors, Attempting, WorkerPC
  <2>9. CASE Release(a)
    BY <1>14, <2>9 DEF Release, Return, Goto, TypeOK, Local, store, worker, terminal, history, Actors, Attempting, WorkerPC
  <2>10. CASE StoreFault(a)
    BY <1>14, <2>10 DEF StoreFault, Goto, Fault, TypeOK, Local, store, worker, terminal, history, Actors, Attempting, WorkerPC
  <2>11. CASE Fail(a)
    <3>1. at[a] \in Msgs /\ a \in Actors
      BY <1>14, <2>11 DEF Fail, TypeOK, Attempting
    <3>2. err' \in [Msgs -> {"none", "blocked", "failed"}]
      BY <2>11, <3>1 DEF Fail, WithFailed, TypeOK
    <3>3. /\ attempts' \in [Msgs -> Nat]
          /\ notified' \subseteq Msgs /\ surfaced' \subseteq Msgs
      <4>1. attempts \in [Msgs -> Nat]
        BY DEF TypeOK
      <4>2. attempts' \in [Msgs -> Nat]
        BY <2>11, <3>1, <4>1, Bump DEF Fail
      <4>3. notified' \subseteq notified \cup {at[a]} /\ surfaced' \subseteq surfaced \cup {at[a]}
        BY <2>11 DEF Fail
      <4>4. QED BY <3>1, <4>2, <4>3 DEF TypeOK
    <3>4. /\ pc[a] = "fail" /\ at' = [at EXCEPT ![a] = NoMsg]
          /\ pc' = [pc EXCEPT ![a] = IF a = Worker THEN "next" ELSE "idle"]
          /\ todo' \subseteq todo
      BY <2>11 DEF Fail, Return, Goto
    <3>5. UNCHANGED <<stored, erased, delivered, read, claims, allowed, snap, page, terminal,
                      typed, crashes, faults>>
      BY <2>11 DEF Fail
    <3> HIDE <2>11
    <3>6. QED BY <3>1, <3>2, <3>3, <3>4, <3>5 DEF TypeOK, terminal, Actors, Attempting, WorkerPC
  <2>12. QED BY <1>14, <2>1, <2>2, <2>3, <2>4, <2>5, <2>6, <2>7, <2>8, <2>9, <2>10, <2>11 DEF Attempt
<1>15. ASSUME NEW w \in Windows, PaneChange(w) PROVE TypeOK'
  BY <1>15 DEF PaneChange, TypeOK, Local, store, worker, terminal, history, Actors, Attempting, WorkerPC, PaneState
<1>16. ASSUME NEW w \in Windows, Respawn(w) PROVE TypeOK'
  <2>1. pane' \in [Windows -> PaneState]
    BY <1>16 DEF Respawn, TypeOK, PaneState
  <2>2. spawns' \in 0..MaxSpawns
    BY <1>16 DEF Respawn, TypeOK
  <2>3. QED BY <1>16, <2>1, <2>2 DEF Respawn, TypeOK, Local, store, worker, terminal, history, Actors, Attempting, WorkerPC
<1>17. ASSUME Crash PROVE TypeOK'
  BY <1>17 DEF Crash, TypeOK, Local, store, worker, terminal, history, Actors, Attempting, WorkerPC
<1>18. CASE UNCHANGED vars
  BY <1>18 DEF vars, TypeOK, Local, store, worker, terminal, history, Actors, Attempting, WorkerPC
<1>19. QED BY <1>1, <1>2, <1>3, <1>4, <1>5, <1>6, <1>7, <1>8, <1>9, <1>10, <1>11, <1>12, <1>13, <1>14, <1>15, <1>16, <1>17, <1>18 DEF Next, DeliveryPass, Actors

\* In every reachable state the tables, the actors and the terminal are well
\* typed, and claims, deliveries and reads belong to stored rows.
THEOREM TypeCorrect == Spec => []TypeOK
<1>1. Init => TypeOK
  BY InitTyped
<1>2. TypeOK /\ [Next]_vars => TypeOK'
  BY StepTyped
<1>3. QED BY <1>1, <1>2, PTL DEF Spec

\* What almost every step does to the claim protocol: nothing is typed, no claim
\* of a stored row is lost, and no actor becomes armed or changes its message.
Keeps ==
  /\ typed' = typed
  /\ claims \cup erased \subseteq claims' \cup erased'
  /\ \A a \in Actors : Armed(a)' => Armed(a) /\ at'[a] = at[a]

LEMMA KeepsInv == ASSUME MailInv, TypeOK', Keeps PROVE MailInv'
BY DEF MailInv, Keeps, Armed

\* A claim is granted only for a message that was never typed and that no actor
\* is armed for.
LEMMA ClaimInv ==
  ASSUME MailInv, TypeOK', NEW a \in Actors, Claim(a), Unclaimed(at[a]) PROVE MailInv'
<1>1. /\ typed' = typed /\ erased' = erased /\ at' = at
      /\ claims' = claims \cup {at[a]}
      /\ pc' = [pc EXCEPT ![a] = "capture"]
  BY DEF Claim, Goto, Unclaimed, terminal, history
<1>2. /\ at[a] \in Msgs /\ typed[at[a]] = 0
      /\ at[a] \notin claims \cup erased
  BY DEF MailInv, TypeOK, Unclaimed
<1>3. \A b \in Actors : Armed(b)' => b = a \/ Armed(b)
  BY <1>1 DEF Armed, MailInv, TypeOK
<1>4. \A b \in Actors : Armed(b) => at[b] # at[a]
  BY <1>2 DEF MailInv
<1>5. QED BY <1>1, <1>2, <1>3, <1>4 DEF MailInv

\* Typing uses up the actor's exclusive right.
LEMMA TypeInv ==
  ASSUME MailInv, TypeOK', NEW a \in Actors, Type(a) PROVE MailInv'
<1>1. /\ claims' = claims /\ erased' = erased /\ at' = at
      /\ typed' = [typed EXCEPT ![at[a]] = typed[at[a]] + 1]
      /\ pc' = [pc EXCEPT ![a] = "verify"]
  BY DEF Type, Goto, store
<1>2. /\ at[a] \in Msgs /\ at[a] \in claims \cup erased /\ typed[at[a]] = 0
      /\ \A b \in Actors : Armed(b) /\ b # a => at[b] # at[a]
  BY DEF MailInv, TypeOK, Armed, Type
<1>3. \A b \in Actors : Armed(b)' => Armed(b) /\ b # a
  BY <1>1 DEF Armed, MailInv, TypeOK
<1>4. /\ typed'[at[a]] = 1
      /\ \A m \in Msgs : m # at[a] => typed'[m] = typed[m]
  BY <1>1, <1>2 DEF MailInv, TypeOK
<1>5. /\ \A m \in Msgs : typed'[m] <= 1
      /\ \A m \in Msgs : typed'[m] > 0 => m \in claims' \cup erased'
  BY <1>1, <1>2, <1>4 DEF MailInv
<1>6. \A b \in Actors : Armed(b)' => /\ at'[b] \in Msgs
                                   /\ typed'[at'[b]] = 0
                                   /\ at'[b] \in claims' \cup erased'
  <2>1. TAKE b \in Actors
  <2>2. HAVE Armed(b)'
  <2>3. Armed(b) /\ b # a /\ at[b] # at[a]
    BY <1>2, <1>3, <2>2
  <2>4. at[b] \in Msgs /\ typed[at[b]] = 0 /\ at[b] \in claims \cup erased
    BY <2>3 DEF MailInv, TypeOK
  <2>5. QED BY <1>1, <1>4, <2>3, <2>4
<1>7. \A b, c \in Actors : Armed(b)' /\ Armed(c)' /\ at'[b] = at'[c] => b = c
  BY <1>1, <1>3 DEF MailInv
<1>8. QED BY <1>5, <1>6, <1>7 DEF MailInv

\* A claim is given back only by the one actor armed for it, before any input.
LEMMA ReleaseInv ==
  ASSUME MailInv, TypeOK', NEW a \in Actors, Release(a) PROVE MailInv'
<1>1. /\ typed' = typed /\ erased' = erased /\ claims' = claims \ {at[a]}
      /\ at' = [at EXCEPT ![a] = NoMsg]
      /\ pc'[a] \notin {"capture", "type", "release"}
      /\ \A b \in Actors : b # a => pc'[b] = pc[b]
  BY DEF Release, Return, Goto, history, MailInv, TypeOK
<1>2. Armed(a) /\ typed[at[a]] = 0
  BY DEF Release, Armed, MailInv
<1>3. \A b \in Actors : Armed(b)' => /\ Armed(b) /\ b # a
                                   /\ at'[b] = at[b] /\ at[b] # at[a]
  BY <1>1, <1>2 DEF Armed, MailInv, TypeOK
<1>4. QED BY <1>1, <1>2, <1>3 DEF MailInv

\* Every step but a granted claim, the typing and the giving back keeps.
LEMMA StepKinds ==
  ASSUME MailInv, [Next]_vars
  PROVE  \/ Keeps
         \/ \E a \in Actors : (Claim(a) /\ Unclaimed(at[a])) \/ Type(a) \/ Release(a)
<1> USE MailAssumption
<1>t. TypeOK /\ TypeOK'
  BY StepTyped DEF MailInv
<1>1. ASSUME NEW m \in Msgs, Send(m) PROVE Keeps
  BY <1>t, <1>1 DEF Send, Keeps, Armed, TypeOK, Local, store, worker, terminal, history, Actors
<1>2. ASSUME NEW m \in Msgs, MarkRead(m) PROVE Keeps
  BY <1>t, <1>2 DEF MarkRead, Keeps, Armed, TypeOK, Local, store, worker, terminal, history, Actors
<1>3. ASSUME NEW m \in Msgs, Delete(m) PROVE Keeps
  BY <1>t, <1>3 DEF Delete, Keeps, Armed, TypeOK, Local, store, worker, terminal, history, Actors
<1>4. ASSUME NEW w \in Windows, Inbox(w) PROVE Keeps
  BY <1>t, <1>4 DEF Inbox, Keeps, Armed, TypeOK, Local, store, worker, terminal, history, Actors
<1>5. ASSUME NEW policy \in SUBSET Classes, SetPolicy(policy) PROVE Keeps
  BY <1>t, <1>5 DEF SetPolicy, Keeps, Armed, TypeOK, Local, store, worker, terminal, history, Actors
<1>6. ASSUME StartPass PROVE Keeps
  BY <1>t, <1>6 DEF StartPass, Goto, Keeps, Armed, TypeOK, Local, store, worker, terminal, history, Actors
<1>7. ASSUME Query PROVE Keeps
  BY <1>t, <1>7 DEF Query, Goto, Keeps, Armed, TypeOK, Local, store, worker, terminal, history, Actors
<1>8. ASSUME QueryFault PROVE Keeps
  BY <1>t, <1>8 DEF QueryFault, Goto, Keeps, Armed, TypeOK, Local, store, worker, terminal, history, Actors
<1>9. ASSUME Lanes PROVE Keeps
  BY <1>t, <1>9 DEF Lanes, Goto, Keeps, Armed, TypeOK, Local, store, worker, terminal, history, Actors
<1>10. ASSUME LanesFault PROVE Keeps
  BY <1>t, <1>10 DEF LanesFault, Goto, Keeps, Armed, TypeOK, Local, store, worker, terminal, history, Actors
<1>11. ASSUME NextMessage PROVE Keeps
  BY <1>t, <1>11 DEF NextMessage, Goto, Keeps, Armed, TypeOK, Local, store, worker, terminal, history, Actors
<1>12. ASSUME EndPass PROVE Keeps
  BY <1>t, <1>12 DEF EndPass, Goto, Keeps, Armed, TypeOK, Local, store, worker, terminal, history, Actors
<1>13. ASSUME NEW f \in Forcers, NEW m \in Msgs, ForceSend(f, m) PROVE Keeps
  BY <1>t, <1>13 DEF ForceSend, Goto, Keeps, Armed, TypeOK, Local, store, worker, terminal, history, Actors
<1>14. ASSUME NEW w \in Windows, PaneChange(w) PROVE Keeps
  BY <1>t, <1>14 DEF PaneChange, Keeps, Armed, TypeOK, Local, store, worker, terminal, history, Actors
<1>15. ASSUME NEW w \in Windows, Respawn(w) PROVE Keeps
  BY <1>t, <1>15 DEF Respawn, Keeps, Armed, TypeOK, Local, store, worker, terminal, history, Actors
<1>16. ASSUME Crash PROVE Keeps
  BY <1>t, <1>16 DEF Crash, Keeps, Armed, TypeOK, Local, store, worker, terminal, history, Actors
<1>17. ASSUME NEW a \in Actors, Attempt(a)
       PROVE  Keeps \/ (Claim(a) /\ Unclaimed(at[a])) \/ Type(a) \/ Release(a)
  <2>1. ASSUME Capture(a) PROVE Keeps
    BY <1>t, <2>1 DEF Capture, Goto, Keeps, Armed, TypeOK, Local, store, worker, terminal, history, Actors
  <2>2. ASSUME Skip(a) PROVE Keeps
    BY <1>t, <2>2 DEF Skip, Goto, Keeps, Armed, TypeOK, Local, store, worker, terminal, history, Actors
  <2>3. ASSUME TypeFault(a) PROVE Keeps
    BY <1>t, <2>3 DEF TypeFault, Goto, Keeps, Armed, TypeOK, Local, store, worker, terminal, history, Actors
  <2>4. ASSUME Verify(a) PROVE Keeps
    BY <1>t, <2>4 DEF Verify, Goto, Keeps, Armed, TypeOK, Local, store, worker, terminal, history, Actors
  <2>5. ASSUME Mark(a) PROVE Keeps
    BY <1>t, <2>5 DEF Mark, Return, Goto, Keeps, Armed, TypeOK, Local, store, worker, terminal, history, Actors
  <2>6. ASSUME MarkMissing(a) PROVE Keeps
    BY <1>t, <2>6 DEF MarkMissing, Goto, Keeps, Armed, TypeOK, Local, store, worker, terminal, history, Actors
  <2>7. ASSUME StoreFault(a) PROVE Keeps
    BY <1>t, <2>7 DEF StoreFault, Goto, Keeps, Armed, TypeOK, Local, store, worker, terminal, history, Actors
  <2>8. ASSUME Fail(a) PROVE Keeps
    BY <1>t, <2>8 DEF Fail, Return, Goto, Keeps, Armed, TypeOK, Local, store, worker, terminal, history, Actors
  <2>9. ASSUME Claim(a), ~Unclaimed(at[a]) PROVE Keeps
    BY <1>t, <2>9 DEF Claim, Return, Goto, Keeps, Armed, TypeOK, Local, store, worker, terminal, history, Actors
  <2>10. QED BY <1>17, <2>1, <2>2, <2>3, <2>4, <2>5, <2>6, <2>7, <2>8, <2>9 DEF Attempt
<1>18. ASSUME UNCHANGED vars PROVE Keeps
  BY <1>18 DEF vars, Keeps, Armed, TypeOK, Local, store, worker, terminal, history, Actors
<1>19. QED BY <1>1, <1>2, <1>3, <1>4, <1>5, <1>6, <1>7, <1>8, <1>9, <1>10, <1>11, <1>12, <1>13, <1>14, <1>15, <1>16, <1>17, <1>18 DEF Next, DeliveryPass, Actors

LEMMA StepInv == ASSUME MailInv, [Next]_vars PROVE MailInv'
<1>1. TypeOK'
  BY StepTyped DEF MailInv
<1>2. QED BY <1>1, StepKinds, KeepsInv, ClaimInv, TypeInv, ReleaseInv

\* The strengthened invariant of the claim protocol.
THEOREM MailInvariant == Spec => []MailInv
<1>1. Init => MailInv
  BY InitTyped DEF Init, MailInv, Armed, Actors
<1>2. MailInv /\ [Next]_vars => MailInv'
  BY StepInv
<1>3. QED BY <1>1, <1>2, PTL DEF Spec

\* No message is typed twice into its window, whatever the interleaving of the
\* worker with forced sends, inbox calls, deletions, store errors and crashes.
THEOREM TypedAtMostOnce == Spec => []AtMostOnce
<1>1. MailInv => AtMostOnce
  BY DEF MailInv, AtMostOnce
<1>2. QED BY <1>1, MailInvariant, PTL

\* The claim of a message that reached the terminal is never given back.
THEOREM ClaimOutlivesInput == Spec => []InputKeepsClaim
<1>1. MailInv => InputKeepsClaim
  BY DEF MailInv, TypeOK, InputKeepsClaim
<1>2. QED BY <1>1, MailInvariant, PTL

\* Two attempts are never between claim and typing for the same message.
THEOREM AttemptsExclude == Spec => []OneAttempt
<1>1. MailInv => OneAttempt
  BY DEF MailInv, OneAttempt, Armed
<1>2. QED BY <1>1, MailInvariant, PTL
----------------------------------------------------------------------------
(* The pass of the worker: one message per window, the oldest of the page *)

\* What the pass still has to attempt is the oldest of its window in the page, and
\* the message in the worker's hand is part of it.
PassInv ==
  /\ \A m \in todo : \A k \in page : To[k] = To[m] => m <= k
  /\ pc[Worker] \in Attempting => at[Worker] \in todo

\* Steps that touch neither the worker's pass nor its message.
Passive == UNCHANGED <<page, todo>> /\ pc'[Worker] = pc[Worker] /\ at'[Worker] = at[Worker]

LEMMA PassiveInv == ASSUME PassInv, Passive PROVE PassInv'
BY DEF PassInv, Passive

\* Whatever an attempt does, only its own return takes its message off the pass.
LEMMA AttemptPass ==
  ASSUME TypeOK, PassInv, NEW a \in Actors, Attempt(a) PROVE PassInv'
<1> USE MailAssumption
<1>1. page' = page
  BY DEF Attempt, Claim, Capture, Skip, Type, TypeFault, Verify, Mark, MarkMissing, Release,
         StoreFault, Fail, Local, worker
<1>2. \/ todo' = todo /\ at' = at /\ pc[a] \in Attempting
      \/ /\ todo' = IF a = Worker THEN todo \ {at[a]} ELSE todo
         /\ at' = [at EXCEPT ![a] = NoMsg]
         /\ pc'[a] \notin Attempting
  BY DEF Attempt, Claim, Capture, Skip, Type, TypeFault, Verify, Mark, MarkMissing, Release,
         StoreFault, Fail, Return, Goto, Local, worker, TypeOK, Attempting
<1>3. \A b \in Actors : b # a => pc'[b] = pc[b]
  BY DEF Attempt, Claim, Capture, Skip, Type, TypeFault, Verify, Mark, MarkMissing, Release,
         StoreFault, Fail, Return, Goto, TypeOK
<1>4. Worker \in Actors
  BY DEF Actors
<1>5. QED BY <1>1, <1>2, <1>3, <1>4 DEF PassInv, TypeOK

LEMMA StepPass == ASSUME TypeOK, PassInv, [Next]_vars PROVE PassInv'
<1> USE MailAssumption
<1>1. ASSUME NEW m \in Msgs, Send(m) \/ MarkRead(m) \/ Delete(m) PROVE Passive
  BY <1>1 DEF Send, MarkRead, Delete, Passive, worker
<1>2. ASSUME NEW w \in Windows, Inbox(w) \/ PaneChange(w) \/ Respawn(w) PROVE Passive
  BY <1>2 DEF Inbox, PaneChange, Respawn, Passive, worker
<1>3. ASSUME NEW policy \in SUBSET Classes, SetPolicy(policy) PROVE Passive
  BY <1>3 DEF SetPolicy, Passive, worker
<1>4. ASSUME NEW f \in Forcers, NEW m \in Msgs, ForceSend(f, m) PROVE Passive
  BY <1>4 DEF ForceSend, Goto, Passive, worker, TypeOK, Actors
<1>5. ASSUME StartPass \/ Query \/ QueryFault \/ Lanes \/ LanesFault \/ EndPass
      PROVE pc'[Worker] \notin Attempting
  BY <1>5 DEF StartPass, Query, QueryFault, Lanes, LanesFault, EndPass, Goto, TypeOK, Actors,
              Attempting
<1>6. ASSUME StartPass \/ QueryFault \/ LanesFault \/ EndPass PROVE UNCHANGED <<page, todo>>
  BY <1>6 DEF StartPass, QueryFault, LanesFault, EndPass, worker
<1>7. ASSUME Query PROVE todo' = {}
  BY <1>7 DEF Query
<1>8. ASSUME Lanes PROVE PassInv'
  <2>1. page' = page /\ todo' = OnePerWindow({m \in page : Eligible(To[m])})
    BY <1>8 DEF Lanes
  <2>2. \A m \in todo' : \A k \in page' : To[k] = To[m] => m <= k
    BY <2>1 DEF OnePerWindow
  <2>3. QED BY <1>5, <1>8, <2>2 DEF PassInv
<1>9. ASSUME NextMessage PROVE PassInv'
  <2>1. /\ page' = page /\ todo' \subseteq todo
        /\ \/ todo' = todo /\ at'[Worker] \in todo
           \/ pc'[Worker] \notin Attempting
    BY <1>9 DEF NextMessage, Goto, TypeOK, Actors, Attempting
  <2>2. QED BY <2>1 DEF PassInv
<1>10. ASSUME NEW a \in Actors, Attempt(a) PROVE PassInv'
  BY <1>10, AttemptPass
<1>11. ASSUME Crash PROVE todo' = {} /\ pc'[Worker] \notin Attempting
  BY <1>11 DEF Crash, Actors, Attempting
<1>12. ASSUME UNCHANGED vars PROVE Passive
  BY <1>12 DEF vars, worker, Passive
<1>13. QED
  BY <1>1, <1>2, <1>3, <1>4, <1>5, <1>6, <1>7, <1>8, <1>9, <1>10, <1>11, <1>12, PassiveInv
     DEF Next, DeliveryPass, Actors, PassInv

\* What the worker claims is the oldest message of its window in the page of this
\* pass, although claims, inbox calls and deletions of others went on since it read
\* the page (the attempted_windows set of deliver_pending).
THEOREM ClaimsOldest == Spec => OnePerSweep
<1>1. Init => PassInv
  BY DEF Init, PassInv, Actors, Attempting
<1>2. TypeOK /\ PassInv /\ [Next]_vars => PassInv'
  BY StepPass
<1>3. PassInv => \A m \in claims' \ claims :
        pc[Worker] = "claim" /\ at[Worker] = m /\ pc'[Worker] = "capture"
          => \A k \in page : To[k] = To[m] => m <= k
  BY DEF PassInv, Attempting
<1>4. QED BY <1>1, <1>2, <1>3, TypeCorrect, PTL DEF Spec, OnePerSweep

----------------------------------------------------------------------------
(* Uncertain attempts surface *)

\* The worker's memory of an alert is never ahead of the alert.
SurfaceInv == notified \subseteq surfaced /\ UncertainSurfaced

\* Steps after which every undelivered claim is an old one whose error, alert and
\* actor are still there.
Shown ==
  /\ notified' \subseteq notified /\ surfaced' = surfaced
  /\ claims' \ delivered' \subseteq claims \ delivered
  /\ \A m \in claims' \ delivered' : err[m] = "failed" => err'[m] = "failed"
  /\ \A a \in Actors : Holding(a) =>
       \/ Holding(a)' /\ at'[a] = at[a]
       \/ at[a] \notin claims' \ delivered'

LEMMA ShownInv == ASSUME SurfaceInv, Shown PROVE SurfaceInv'
<1>1. notified' \subseteq surfaced'
  BY DEF SurfaceInv, Shown
<1>2. ASSUME NEW m \in claims' \ delivered'
      PROVE  \/ err'[m] = "failed" /\ m \in surfaced'
             \/ \E a \in Actors : Holding(a)' /\ at'[a] = m
  <2>1. m \in claims \ delivered
    BY <1>2 DEF Shown
  <2>2. \/ err[m] = "failed" /\ m \in surfaced
        \/ \E a \in Actors : Holding(a) /\ at[a] = m
    BY <2>1 DEF SurfaceInv, UncertainSurfaced
  <2>3. QED BY <1>2, <2>2 DEF Shown
<1>3. QED BY <1>1, <1>2 DEF SurfaceInv, UncertainSurfaced

\* Blocking by policy does not overwrite a recorded failure.
LEMMA BlockedKeepsFailure ==
  ASSUME NEW policy, NEW m \in Msgs, err[m] = "failed" PROVE WithBlocked(policy)[m] = "failed"
BY DEF WithBlocked, PolicyBlocked, Oldest

\* A granted claim is in the hand of the actor that took it.
LEMMA ClaimSurface ==
  ASSUME TypeOK, SurfaceInv, NEW a \in Actors, Claim(a), Unclaimed(at[a]) PROVE SurfaceInv'
<1>1. /\ claims' = claims \cup {at[a]} /\ pc' = [pc EXCEPT ![a] = "capture"]
      /\ UNCHANGED <<delivered, err, at, notified, surfaced>>
  BY DEF Claim, Goto, history
<1>2. Holding(a)' /\ \A b \in Actors : Holding(b) => Holding(b)'
  BY <1>1 DEF TypeOK, Holding, Attempting
<1>3. QED BY <1>1, <1>2 DEF SurfaceInv, UncertainSurfaced

\* A recorded failure has raised attention, now or earlier in this run of the worker,
\* or is the answer of the forced send.
LEMMA FailSurface ==
  ASSUME TypeOK, SurfaceInv, NEW a \in Actors, Fail(a) PROVE SurfaceInv'
<1>1. /\ pc[a] = "fail" /\ err' = WithFailed(at[a])
      /\ UNCHANGED <<stored, claims, delivered>>
      /\ pc' = [pc EXCEPT ![a] = IF a = Worker THEN "next" ELSE "idle"]
      /\ at' = [at EXCEPT ![a] = NoMsg]
  BY DEF Fail, Return, Goto
<1>2. at[a] \in Msgs /\ attempts[at[a]] \in Nat
  BY <1>1 DEF TypeOK, Attempting
<1>3. /\ surfaced \cup notified' \subseteq surfaced'
      /\ at[a] \in surfaced'
  <2>1. a = Worker /\ at[a] \notin notified => at[a] \in notified' /\ at[a] \in surfaced'
    BY <1>2 DEF Fail, FAILURE_NOTIFY_AFTER
  <2>2. a = Worker /\ at[a] \in notified => at[a] \in surfaced /\ surfaced \subseteq surfaced'
    BY DEF Fail, SurfaceInv
  <2>3. a # Worker => at[a] \in surfaced' /\ notified' = notified
    BY DEF Fail
  <2>4. notified' \subseteq notified \cup {at[a]} /\ surfaced \subseteq surfaced'
    BY DEF Fail
  <2>5. QED BY <2>1, <2>2, <2>3, <2>4 DEF SurfaceInv
<1>4. ASSUME NEW m \in claims \ delivered
      PROVE  \/ err'[m] = "failed" /\ m \in surfaced'
             \/ \E b \in Actors : Holding(b)' /\ at'[b] = m
  <2>1. m \in stored /\ m \in Msgs
    BY DEF TypeOK
  <2>2. CASE m = at[a]
    BY <1>1, <1>3, <2>1, <2>2 DEF WithFailed, TypeOK
  <2>3. CASE m # at[a]
    <3>1. CASE err[m] = "failed" /\ m \in surfaced
      BY <1>1, <1>3, <2>1, <2>3, <3>1 DEF WithFailed, TypeOK
    <3>2. CASE \E b \in Actors : Holding(b) /\ at[b] = m
      <4>1. PICK b \in Actors : Holding(b) /\ at[b] = m
        BY <3>2
      <4>2. Holding(b)' /\ at'[b] = m
        BY <1>1, <2>3, <4>1 DEF Holding, TypeOK
      <4>3. QED BY <4>2
    <3>3. QED BY <3>1, <3>2 DEF SurfaceInv, UncertainSurfaced
  <2>4. QED BY <2>2, <2>3
<1>5. QED BY <1>1, <1>3, <1>4 DEF SurfaceInv, UncertainSurfaced

LEMMA StepSurface ==
  ASSUME TypeOK, SurfaceInv, [Next]_vars, ~Crash PROVE SurfaceInv'
<1> USE MailAssumption
<1>1. ASSUME NEW m \in Msgs, Send(m) \/ MarkRead(m) \/ Delete(m) PROVE Shown
  BY <1>1 DEF Send, MarkRead, Delete, Shown, Holding, worker, history, TypeOK
<1>2. ASSUME NEW w \in Windows, Inbox(w) \/ PaneChange(w) \/ Respawn(w) PROVE Shown
  <2>1. CASE Inbox(w)
    <3>1. PICK S \in SUBSET {m \in stored : To[m] = w} :
            /\ delivered' = delivered \cup S
            /\ err' = [m \in Msgs |-> IF m \in S \ delivered THEN "none" ELSE err[m]]
      BY <2>1 DEF Inbox
    <3>2. UNCHANGED <<claims, pc, at, notified, surfaced>>
      BY <2>1 DEF Inbox, worker, history
    <3>3. QED BY <3>1, <3>2 DEF Shown, Holding, TypeOK
  <2>2. CASE PaneChange(w) \/ Respawn(w)
    BY <2>2 DEF PaneChange, Respawn, Shown, Holding, store, worker, history
  <2>3. QED BY <1>2, <2>1, <2>2
<1>3. ASSUME NEW policy \in SUBSET Classes, SetPolicy(policy) PROVE Shown
  BY <1>3 DEF SetPolicy, Shown, Holding, store, worker, history
<1>4. ASSUME NEW f \in Forcers, NEW m \in Msgs, ForceSend(f, m) PROVE Shown
  BY <1>4 DEF ForceSend, Goto, Shown, Holding, Local, store, worker, history, TypeOK, Actors,
              Attempting
<1>5. ASSUME StartPass \/ Query \/ QueryFault \/ Lanes \/ LanesFault \/ NextMessage \/ EndPass
      PROVE Shown
  <2>1. /\ claims' = claims /\ delivered' = delivered /\ surfaced' = surfaced
        /\ notified' \subseteq notified
        /\ pc[Worker] \notin Attempting
        /\ \A b \in Actors : b # Worker => pc'[b] = pc[b] /\ at'[b] = at[b]
    BY <1>5 DEF StartPass, Query, QueryFault, Lanes, LanesFault, NextMessage, EndPass, Goto,
                Local, store, worker, history, TypeOK, Attempting
  <2>2. err' = err \/ err' = WithBlocked(snap)
    BY <1>5 DEF StartPass, Query, QueryFault, Lanes, LanesFault, NextMessage, EndPass, Local, store
  <2>3. QED BY <2>1, <2>2, BlockedKeepsFailure DEF Shown, Holding, TypeOK
<1>6. ASSUME NEW a \in Actors, Attempt(a) PROVE SurfaceInv'
  <2>1. ASSUME Claim(a), ~Unclaimed(at[a]) PROVE Shown
    BY <1>6, <2>1 DEF Claim, Return, Goto, Shown, Holding, history, TypeOK, Attempting
  <2>2. ASSUME Capture(a) \/ Skip(a) \/ TypeFault(a) \/ Verify(a) \/ MarkMissing(a) \/ StoreFault(a)
        PROVE Shown
    <3>1. /\ UNCHANGED <<claims, delivered, err, at, notified, surfaced>>
          /\ pc'[a] \in Attempting \ {"claim"}
          /\ \A b \in Actors : b # a => pc'[b] = pc[b]
      BY <1>6, <2>2 DEF Capture, Skip, TypeFault, Verify, MarkMissing, StoreFault, Goto, Local,
                        store, worker, history, TypeOK, Attempting
    <3>2. QED BY <3>1 DEF Shown, Holding
  <2>3. ASSUME Type(a) PROVE Shown
    BY <1>6, <2>3 DEF Type, Goto, Shown, Holding, store, worker, TypeOK, Attempting
  <2>4. ASSUME Mark(a) PROVE Shown
    BY <1>6, <2>4 DEF Mark, Return, Goto, Shown, Holding, history, TypeOK, Attempting
  <2>5. ASSUME Release(a) PROVE Shown
    BY <1>6, <2>5 DEF Release, Return, Goto, Shown, Holding, history, TypeOK, Attempting
  <2>6. QED
    BY <1>6, <2>1, <2>2, <2>3, <2>4, <2>5, ShownInv, ClaimSurface, FailSurface DEF Attempt
<1>7. ASSUME UNCHANGED vars PROVE Shown
  BY <1>7 DEF vars, store, worker, history, Shown, Holding
<1>8. QED
  BY <1>1, <1>2, <1>3, <1>4, <1>5, <1>6, <1>7, ShownInv DEF Next, DeliveryPass, Actors

\* As long as the daemon has not crashed, a claim no attempt is working on belongs
\* to a message that is delivered, or whose failure is recorded and has raised
\* attention or failed its force_send, whatever the store errors, captures,
\* deletions and concurrent attempts (record_failure and deliver_claimed). A crash
\* between claim and mark is the one thing that breaks it: run mail_crash.
THEOREM UncertainSurfacedUntilCrash == Spec => [](crashes = 0 => UncertainSurfaced)
<1>1. Init => crashes = 0 /\ SurfaceInv
  BY DEF Init, SurfaceInv, UncertainSurfaced
<1>2. TypeOK /\ TypeOK' /\ (crashes = 0 => SurfaceInv) /\ [Next]_vars
        => (crashes = 0 => SurfaceInv)'
  <2> SUFFICES ASSUME TypeOK, TypeOK', crashes = 0 => SurfaceInv, [Next]_vars, crashes' = 0
               PROVE  SurfaceInv'
    OBVIOUS
  <2>1. crashes \in Nat
    BY MailAssumption DEF TypeOK
  <2>2. ~Crash
    BY <2>1 DEF Crash
  <2>3. crashes = 0
    BY <2>2, MailAssumption DEF vars, Local, worker, Next, DeliveryPass, StartPass, Query, QueryFault, Lanes,
       LanesFault, NextMessage, EndPass, ForceSend, Send, MarkRead, Delete, Inbox, PaneChange,
       Respawn, SetPolicy, Attempt, Claim, Capture, Skip, Type, TypeFault, Verify, Mark,
       MarkMissing, Release, StoreFault, Fail
  <2>4. QED BY <2>2, <2>3, StepSurface
<1>3. (crashes = 0 => SurfaceInv) => (crashes = 0 => UncertainSurfaced)
  BY DEF SurfaceInv
<1>4. QED BY <1>1, <1>2, <1>3, TypeCorrect, PTL DEF Spec

----------------------------------------------------------------------------
(* FleetMail implements PushLedger *)

\* The actor armed for a message is its owner in the ledger, and the only one.
LEMMA OwnerArmed ==
  ASSUME MailInv, NEW a \in Actors, Armed(a)
  PROVE  ArmedFor[at[a]] = {a} /\ Owner[at[a]] = a
<1>1. at[a] \in Msgs
  BY DEF MailInv, TypeOK, Armed, Attempting, Actors
<1>2. ArmedFor[at[a]] = {a}
  BY <1>1 DEF ArmedFor, MailInv
<1>3. QED BY <1>1, <1>2 DEF Owner, OneOf

LEMMA OwnerArmedNext ==
  ASSUME MailInv', NEW a \in Actors, Armed(a)'
  PROVE  ArmedFor'[at'[a]] = {a} /\ Owner'[at'[a]] = a
<1>1. at'[a] \in Msgs
  BY DEF MailInv, TypeOK, Armed, Attempting, Actors
<1>2. ArmedFor'[at'[a]] = {a}
  BY <1>1 DEF ArmedFor, MailInv
<1>3. QED BY <1>1, <1>2 DEF Owner, OneOf

\* A message nobody is armed for has no owner.
LEMMA OwnerFree ==
  ASSUME NEW m \in Msgs, ArmedFor[m] = {} PROVE Owner[m] = NoMsg
BY DEF Owner, OneOf

LEMMA OwnerFreeNext ==
  ASSUME NEW m \in Msgs, ArmedFor'[m] = {} PROVE Owner'[m] = NoMsg
BY DEF Owner, OneOf

LEMMA OwnerFunction == Owner = [m \in Msgs |-> Owner[m]] /\ Owner' = [m \in Msgs |-> Owner'[m]]
BY DEF Owner

\* A step that keeps the claim protocol spends the messages whose actor was
\* disarmed or whose claim or row changed with nobody armed: a deletion, a failed
\* attempt, a crash, or nothing at all.
LEMMA KeepsSpends ==
  ASSUME MailInv, MailInv', Keeps PROVE Ledger!Spend(Spent' \ Spent)
<1>1. Pushed' = Pushed
  BY DEF Keeps, Pushed
<1>2. Spent \subseteq Spent'
  <2>1. SUFFICES ASSUME NEW m \in Spent PROVE m \in Spent'
    OBVIOUS
  <2>2. m \in Msgs /\ m \in claims \cup erased /\ m \notin Pushed /\ ArmedFor[m] = {}
    BY DEF Spent, MailInv, TypeOK
  <2>3. ArmedFor'[m] = {}
    BY <2>2 DEF ArmedFor, Keeps
  <2>4. QED BY <1>1, <2>2, <2>3 DEF Spent, Keeps
<1>3. (Spent' \ Spent) \cap Pushed = {}
  BY <1>1 DEF Spent
<1>4. ASSUME NEW m \in Msgs
      PROVE  Owner'[m] = IF m \in Spent' \ Spent THEN NoMsg ELSE Owner[m]
  <2>1. CASE m \in Spent' \ Spent
    BY <2>1, OwnerFreeNext DEF Spent
  <2>2. CASE m \notin Spent' \ Spent /\ ArmedFor'[m] # {}
    <3>1. PICK a \in Actors : Armed(a)' /\ at'[a] = m
      BY <2>2 DEF ArmedFor
    <3>2. Armed(a) /\ at[a] = m
      BY <3>1 DEF Keeps
    <3>3. QED BY <2>2, <3>1, <3>2, OwnerArmed, OwnerArmedNext
  <2>3. CASE m \notin Spent' \ Spent /\ ArmedFor'[m] = {}
    <3>1. ArmedFor[m] = {}
      <4>1. SUFFICES ASSUME NEW a \in Actors, Armed(a), at[a] = m PROVE FALSE
        BY DEF ArmedFor
      <4>2. typed[m] = 0 /\ m \in claims' \cup erased'
        BY <4>1 DEF MailInv, Keeps
      <4>3. m \in Spent'
        BY <1>1, <2>3, <4>2 DEF Spent, Pushed
      <4>4. m \notin Spent
        BY <4>1 DEF Spent, ArmedFor
      <4>5. QED BY <2>3, <4>3, <4>4
    <3>2. QED BY <2>3, <3>1, OwnerFree, OwnerFreeNext
  <2>4. QED BY <2>1, <2>2, <2>3
<1>5. Owner' = [m \in Msgs |-> IF m \in Spent' \ Spent THEN NoMsg ELSE Owner[m]]
  BY <1>4, OwnerFunction
<1>6. QED BY <1>1, <1>2, <1>3, <1>5 DEF Ledger!Spend

\* The owner of a message changes only with the actors armed for it.
LEMMA OwnerSame ==
  ASSUME NEW m \in Msgs, ArmedFor'[m] = ArmedFor[m] PROVE Owner'[m] = Owner[m]
BY DEF Owner

\* A granted claim takes a message that has no owner and was never pushed or spent.
LEMMA ClaimTakes ==
  ASSUME MailInv, MailInv', NEW a \in Actors, Claim(a), Unclaimed(at[a])
  PROVE  Ledger!Take(a, at[a])
<1>1. /\ claims' = claims \cup {at[a]} /\ pc' = [pc EXCEPT ![a] = "capture"]
      /\ UNCHANGED <<erased, typed, at>> /\ pc[a] = "claim"
  BY DEF Claim, Goto, history
<1>2. /\ at[a] \in Msgs /\ typed[at[a]] = 0
      /\ at[a] \notin claims \cup erased
  BY DEF MailInv, TypeOK, Unclaimed
<1>3. ArmedFor[at[a]] = {}
  BY <1>2 DEF ArmedFor, MailInv
<1>4. Armed(a)' /\ Owner'[at[a]] = a /\ ArmedFor'[at[a]] # {}
  <2>1. Armed(a)'
    BY <1>1 DEF Armed, MailInv, TypeOK
  <2>2. QED BY <1>1, <2>1, OwnerArmedNext
<1>5. \A m \in Msgs : m # at[a] => ArmedFor'[m] = ArmedFor[m]
  BY <1>1 DEF ArmedFor, Armed, MailInv, TypeOK
<1>6. Pushed' = Pushed /\ Spent' = Spent
  <2>1. Pushed' = Pushed
    BY <1>1 DEF Pushed
  <2>2. at[a] \notin Spent /\ at[a] \notin Spent'
    BY <1>2, <1>4 DEF Spent
  <2>3. \A m \in Msgs : m # at[a] => (m \in Spent' <=> m \in Spent)
    BY <1>1, <1>5, <2>1 DEF Spent
  <2>4. Spent \subseteq Msgs /\ Spent' \subseteq Msgs
    BY DEF Spent, MailInv, TypeOK
  <2>5. QED BY <2>1, <2>2, <2>3, <2>4
<1>7. Owner' = [Owner EXCEPT ![at[a]] = a]
  <2>1. \A m \in Msgs : m # at[a] => Owner'[m] = Owner[m]
    BY <1>5, OwnerSame
  <2>2. QED BY <1>4, <2>1, OwnerFunction
<1>8. at[a] \notin Pushed \cup Spent
  BY <1>2 DEF Pushed, Spent
<1>9. QED BY <1>2, <1>3, <1>6, <1>7, <1>8, OwnerFree DEF Ledger!Take

\* Typing is the push of the owner.
LEMMA TypePushes ==
  ASSUME MailInv, MailInv', NEW a \in Actors, Type(a) PROVE Ledger!Push(a, at[a])
<1>1. /\ UNCHANGED <<claims, erased, at>> /\ pc[a] = "type"
      /\ typed' = [typed EXCEPT ![at[a]] = typed[at[a]] + 1]
      /\ pc' = [pc EXCEPT ![a] = "verify"]
  BY DEF Type, Goto, store
<1>2. Armed(a) /\ at[a] \in Msgs /\ typed[at[a]] = 0
  BY <1>1 DEF Armed, MailInv, TypeOK, Attempting
<1>3. Owner[at[a]] = a /\ ArmedFor[at[a]] = {a}
  BY <1>2, OwnerArmed
<1>4. ArmedFor'[at[a]] = {}
  BY <1>1, <1>3 DEF ArmedFor, Armed, MailInv, TypeOK
<1>5. \A m \in Msgs : m # at[a] => ArmedFor'[m] = ArmedFor[m]
  BY <1>1 DEF ArmedFor, Armed, MailInv, TypeOK
<1>6. Pushed' = Pushed \cup {at[a]} /\ at[a] \notin Pushed
  BY <1>1, <1>2 DEF Pushed, MailInv, TypeOK
<1>7. Spent' = Spent
  <2>1. at[a] \notin Spent /\ at[a] \notin Spent'
    BY <1>3, <1>6 DEF Spent
  <2>2. \A m \in Msgs : m # at[a] => (m \in Spent' <=> m \in Spent)
    BY <1>1, <1>5, <1>6 DEF Spent
  <2>3. Spent \subseteq Msgs /\ Spent' \subseteq Msgs
    BY DEF Spent, MailInv, TypeOK
  <2>4. QED BY <2>1, <2>2, <2>3
<1>8. Owner' = [Owner EXCEPT ![at[a]] = NoMsg]
  <2>1. \A m \in Msgs : m # at[a] => Owner'[m] = Owner[m]
    BY <1>5, OwnerSame
  <2>2. Owner'[at[a]] = NoMsg
    BY <1>2, <1>4, OwnerFreeNext
  <2>3. QED BY <2>1, <2>2, OwnerFunction
<1>9. QED BY <1>3, <1>6, <1>7, <1>8 DEF Ledger!Push

\* A released claim gives the message back; if its row was deleted meanwhile the
\* message is spent instead.
LEMMA ReleaseGives ==
  ASSUME MailInv, MailInv', NEW a \in Actors, Release(a)
  PROVE  Ledger!GiveBack(a, at[a]) \/ Ledger!Spend({at[a]})
<1>1. /\ UNCHANGED <<typed, erased>> /\ claims' = claims \ {at[a]} /\ pc[a] = "release"
      /\ at' = [at EXCEPT ![a] = NoMsg]
      /\ pc'[a] \notin {"capture", "type", "release"}
      /\ \A b \in Actors : b # a => pc'[b] = pc[b]
  BY DEF Release, Return, Goto, history, MailInv, TypeOK
<1>2. Armed(a) /\ at[a] \in Msgs /\ typed[at[a]] = 0
  BY <1>1 DEF Armed, MailInv, TypeOK, Attempting
<1>3. Owner[at[a]] = a /\ ArmedFor[at[a]] = {a}
  BY <1>2, OwnerArmed
<1>4. ArmedFor'[at[a]] = {}
  BY <1>1, <1>3 DEF ArmedFor, Armed, MailInv, TypeOK
<1>5. \A m \in Msgs : m # at[a] => ArmedFor'[m] = ArmedFor[m]
  BY <1>1 DEF ArmedFor, Armed, MailInv, TypeOK
<1>6. Pushed' = Pushed /\ at[a] \notin Pushed
  BY <1>1, <1>2 DEF Pushed
<1>7. \A m \in Msgs : m # at[a] => (m \in Spent' <=> m \in Spent)
  BY <1>1, <1>5, <1>6 DEF Spent
<1>8. Spent \subseteq Msgs /\ Spent' \subseteq Msgs /\ at[a] \notin Spent
  BY <1>3 DEF Spent, MailInv, TypeOK
<1>9. /\ \A m \in Msgs : m # at[a] => Owner'[m] = Owner[m]
      /\ Owner'[at[a]] = NoMsg
  BY <1>2, <1>4, <1>5, OwnerSame, OwnerFreeNext
<1>10. CASE at[a] \in erased
  <2>1. Spent' = Spent \cup {at[a]}
    BY <1>1, <1>2, <1>4, <1>6, <1>7, <1>8, <1>10 DEF Spent
  <2>2. Owner' = [m \in Msgs |-> IF m \in {at[a]} THEN NoMsg ELSE Owner[m]]
    BY <1>9, OwnerFunction
  <2>3. QED BY <1>6, <2>1, <2>2 DEF Ledger!Spend
<1>11. CASE at[a] \notin erased
  <2>1. Spent' = Spent
    BY <1>1, <1>7, <1>8, <1>11 DEF Spent
  <2>2. Owner' = [Owner EXCEPT ![at[a]] = NoMsg]
    BY <1>9, OwnerFunction
  <2>3. QED BY <1>3, <1>6, <2>1, <2>2 DEF Ledger!GiveBack
<1>12. QED BY <1>10, <1>11

\* FleetMail implements PushLedger: whatever the worker, the forced sends, the
\* clients, store errors and crashes do, what the recipients' terminals see is a
\* ledger in which a message is taken by one actor at a time, pushed at most once
\* by the actor that took it, and never taken again once pushed or spent
\* (claim_message_push, release_message_push and the order try_deliver calls them in).
THEOREM Refinement == Spec => ImplementsLedger
<1>1. Init => Ledger!Init
  <2>1. Init => \A m \in Msgs : ArmedFor[m] = {}
    BY DEF Init, ArmedFor, Armed, Actors
  <2>2. Init => Owner = [m \in Msgs |-> NoMsg]
    BY <2>1 DEF Owner, OneOf
  <2>3. Init => Pushed = {} /\ Spent = {}
    <3>1. Spent \subseteq claims \cup erased
      BY DEF Spent
    <3>2. QED BY <3>1 DEF Init, Pushed
  <2>4. QED BY <2>2, <2>3 DEF Ledger!Init
<1>2. MailInv /\ MailInv' /\ [Next]_vars => [Ledger!Next]_(Ledger!ledger)
  <2> SUFFICES ASSUME MailInv, MailInv', [Next]_vars PROVE Ledger!Next
    OBVIOUS
  <2>1. CASE Keeps
    <3>1. Spent' \ Spent \in SUBSET Msgs
      BY DEF Spent, MailInv, TypeOK
    <3>2. QED BY <2>1, <3>1, KeepsSpends DEF Ledger!Next
  <2>2. ASSUME NEW a \in Actors, (Claim(a) /\ Unclaimed(at[a])) \/ Type(a) \/ Release(a)
        PROVE  Ledger!Next
    <3>1. at[a] \in Msgs
      BY <2>2 DEF MailInv, TypeOK, Attempting, Claim, Type, Release
    <3>2. QED BY <2>2, <3>1, ClaimTakes, TypePushes, ReleaseGives DEF Ledger!Next
  <2>3. QED BY <2>1, <2>2, StepKinds
<1>3. QED BY <1>1, <1>2, MailInvariant, PTL DEF Spec, ImplementsLedger, Ledger!Spec
=============================================================================
