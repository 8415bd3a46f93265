----------------------------- MODULE FleetMail -----------------------------
(***************************************************************************)
(* Durable fleet mail: the `messages` and `message_push_attempts` tables    *)
(* of the store, the delivery worker of the daemon, the operator's          *)
(* message.force_send, the recipient's inbox calls, and daemon crashes.     *)
(*                                                                         *)
(* The store runs every call as one job of its single worker thread, so a   *)
(* store call is one atomic step; everything between two awaits of a        *)
(* delivery attempt is a step of its own and interleaves with all others.   *)
(***************************************************************************)
EXTENDS Integers, FiniteSets

CONSTANTS
  Msgs,       \* message ids, ordered by rank in ORDER BY created_at, id
  Windows,    \* managed tmux windows (the delivery addresses)
  Forcers,    \* concurrent message.force_send calls
  Worker,     \* the delivery worker
  NoMsg,      \* "no message in hand"
  To,         \* [Msgs -> Windows]: recipient_window
  Class,      \* [Msgs -> Classes]: sender_lane_id set ("agent") or not
  PageLimit,  \* rows one delivery pass reads (200 in the code)
  MaxCrashes, \* bound: daemon crashes
  MaxFaults,  \* bound: store errors and capture timeouts
  MaxSpawns   \* bound: agents spawned into a freed window name

Classes == {"agent", "operator"}
Actors == {Worker} \cup Forcers
FAILURE_NOTIFY_AFTER == 1

ASSUME MailAssumption ==
  /\ Msgs \subseteq Nat
  /\ To \in [Msgs -> Windows]
  /\ Class \in [Msgs -> Classes]
  /\ NoMsg \notin Msgs \cup Actors
  /\ Worker \notin Forcers
  /\ PageLimit \in Nat \ {0}
  /\ MaxCrashes \in Nat /\ MaxFaults \in Nat /\ MaxSpawns \in Nat

VARIABLES
  \* the store: survives a crash
  stored,     \* rows of messages
  erased,     \* ids whose row was deleted (ids are never reused)
  delivered,  \* rows with delivered_at
  read,       \* rows with read_at
  err,        \* delivery_error
  claims,     \* message_push_attempts, keyed by (id, recipient window)
  \* the daemon: lost by a crash
  allowed,    \* message_inject_agents / message_inject_operator
  pc, at,     \* control point and message in hand of each actor
  snap,       \* the worker's copy of the policy
  page,       \* rows the worker's query returned
  todo,       \* rows of the page this pass still has to attempt
  attempts,   \* FailureState.attempts of the worker's `failures` map
  notified,   \* FailureState.notified
  \* the terminal: survives a crash
  pane,       \* what each window shows
  \* history and bounds
  typed,      \* how many times the message line was typed into its window
  surfaced,   \* messages whose failure raised attention or failed its force_send
  crashes, faults, spawns

store == <<stored, erased, delivered, read, err, claims>>
worker == <<snap, page, todo, attempts, notified>>
terminal == <<pane, spawns>>
history == <<typed, surfaced>>
vars == <<store, allowed, pc, at, worker, terminal, history, crashes, faults>>

Attempting == {"claim", "capture", "type", "verify", "mark", "release", "fail"}
WorkerPC == {"tick", "query", "lanes", "next"} \cup Attempting
PaneState == {"idle", "working", "dialog", "gone"}

TypeOK ==
  /\ stored \subseteq Msgs /\ erased \subseteq Msgs
  /\ delivered \subseteq stored /\ read \subseteq delivered /\ claims \subseteq stored
  /\ stored \cap erased = {}
  /\ err \in [Msgs -> {"none", "blocked", "failed"}]
  /\ allowed \subseteq Classes /\ snap \subseteq Classes
  /\ pc \in [Actors -> WorkerPC \cup {"idle"}]
  /\ at \in [Actors -> Msgs \cup {NoMsg}]
  /\ \A a \in Actors : pc[a] \in Attempting <=> at[a] # NoMsg
  /\ \A f \in Forcers : pc[f] \in Attempting \cup {"idle"}
  /\ pc[Worker] \in WorkerPC
  /\ page \subseteq Msgs /\ todo \subseteq page
  /\ attempts \in [Msgs -> Nat] /\ notified \subseteq Msgs
  /\ pane \in [Windows -> PaneState]
  /\ surfaced \subseteq Msgs
  /\ typed \in [Msgs -> Nat]
  /\ crashes \in 0..MaxCrashes /\ faults \in 0..MaxFaults /\ spawns \in 0..MaxSpawns

Init ==
  /\ stored = {} /\ erased = {} /\ delivered = {} /\ read = {} /\ claims = {}
  /\ err = [m \in Msgs |-> "none"]
  /\ allowed = {"operator"} /\ snap = {}
  /\ pc = [a \in Actors |-> IF a = Worker THEN "tick" ELSE "idle"]
  /\ at = [a \in Actors |-> NoMsg]
  /\ page = {} /\ todo = {}
  /\ attempts = [m \in Msgs |-> 0] /\ notified = {}
  /\ pane = [w \in Windows |-> "idle"]
  /\ surfaced = {}
  /\ typed = [m \in Msgs |-> 0]
  /\ crashes = 0 /\ faults = 0 /\ spawns = 0

----------------------------------------------------------------------------
(* Store queries *)

\* LIMIT n over ORDER BY created_at, id
Oldest(S, n) == {m \in S : Cardinality({k \in S : k < m}) < n}

\* undelivered and without a push attempt: what both the queue query and the
\* claim statement ask of a row
UnclaimedBug(m) == m \in stored \ delivered
Unclaimed(m) == m \in (stored \ delivered) \ claims

\* queued_messages_for_injection: undelivered, unclaimed, class allowed
QueuedBug(policy) ==
  Oldest({m \in stored : Unclaimed(m) /\ Class[m] \in policy /\ err[m] = "none"},
         PageLimit)
Queued(policy) ==
  Oldest({m \in stored : Unclaimed(m) /\ Class[m] \in policy}, PageLimit)

\* its first statement: with agent injection off, undelivered agent mail that
\* shows no error yet is marked as blocked by policy
PolicyBlocked(policy) ==
  IF "agent" \in policy THEN {}
  ELSE Oldest({m \in stored \ delivered : Class[m] = "agent" /\ err[m] = "none"},
              PageLimit)

WithBlocked(policy) ==
  [m \in Msgs |-> IF m \in PolicyBlocked(policy) THEN "blocked" ELSE err[m]]

\* injection_eligible, as the lane overlay shows the window
Eligible(w) == pane[w] = "idle"

\* attempted_windows: one message per window and pass, the first in page order
OnePerWindowBug(S) == S
OnePerWindow(S) == {m \in S : \A k \in S : To[k] = To[m] => m <= k}

----------------------------------------------------------------------------
(* Clients of the store *)

\* message.send: the recipient resolves to a live window
Send(m) ==
  /\ m \notin stored \cup erased
  /\ pane[To[m]] # "gone"
  /\ stored' = stored \cup {m}
  /\ UNCHANGED <<erased, delivered, read, err, claims, allowed, pc, at, worker,
                 terminal, history, crashes, faults>>

\* message.inbox: the returned page becomes delivered
Inbox(w) ==
  /\ \E S \in SUBSET {m \in stored : To[m] = w} :
       /\ S # {}
       /\ delivered' = delivered \cup S
       /\ err' = [m \in Msgs |-> IF m \in S \ delivered THEN "none" ELSE err[m]]
  /\ UNCHANGED <<stored, erased, read, claims, allowed, pc, at, worker,
                 terminal, history, crashes, faults>>

\* message.mark_read
MarkRead(m) ==
  /\ m \in stored
  /\ delivered' = delivered \cup {m} /\ read' = read \cup {m}
  /\ err' = [err EXCEPT ![m] = "none"]
  /\ UNCHANGED <<stored, erased, claims, allowed, pc, at, worker, terminal,
                 history, crashes, faults>>

\* message.delete: the claim goes with the row (ON DELETE CASCADE)
Delete(m) ==
  /\ m \in stored
  /\ stored' = stored \ {m} /\ erased' = erased \cup {m}
  /\ delivered' = delivered \ {m} /\ read' = read \ {m} /\ claims' = claims \ {m}
  /\ UNCHANGED <<err, allowed, pc, at, worker, terminal, history, crashes, faults>>

\* the operator edits message_inject_agents / message_inject_operator
SetPolicy(policy) ==
  /\ policy # allowed
  /\ allowed' = policy
  /\ UNCHANGED <<store, pc, at, worker, terminal, history, crashes, faults>>

----------------------------------------------------------------------------
(* The delivery pass of the worker *)

Local == <<store, allowed, terminal, history, crashes>>
Goto(a, label) == pc' = [pc EXCEPT ![a] = label]
Fault == faults < MaxFaults /\ faults' = faults + 1

\* a sweep tick or a wake; the pass reads the policy
StartPass ==
  /\ pc[Worker] = "tick" /\ Goto(Worker, "query")
  /\ snap' = allowed
  /\ UNCHANGED <<Local, at, page, todo, attempts, notified, faults>>

\* queued_messages_for_injection; failures.retain(queued); empty page ends the pass
Query ==
  LET queue == Queued(snap) IN
  /\ pc[Worker] = "query" /\ Goto(Worker, IF queue = {} THEN "tick" ELSE "lanes")
  /\ err' = WithBlocked(snap)
  /\ page' = queue /\ todo' = {}
  /\ attempts' = [m \in Msgs |-> IF m \in queue THEN attempts[m] ELSE 0]
  /\ notified' = notified \cap queue
  /\ UNCHANGED <<stored, erased, delivered, read, claims, allowed, at, snap,
                 terminal, history, crashes, faults>>

\* the query fails: the pass is abandoned, the first statement may have run
QueryFault ==
  /\ pc[Worker] = "query" /\ Goto(Worker, "tick") /\ Fault
  /\ err' \in {err, WithBlocked(snap)}
  /\ UNCHANGED <<stored, erased, delivered, read, claims, allowed, at, worker,
                 terminal, history, crashes>>

\* lanes_with_agents, then the choice of what this pass attempts
Lanes ==
  /\ pc[Worker] = "lanes" /\ Goto(Worker, "next")
  /\ todo' = OnePerWindow({m \in page : Eligible(To[m])})
  /\ UNCHANGED <<Local, at, snap, page, attempts, notified, faults>>

LanesFault ==
  /\ pc[Worker] = "lanes" /\ Goto(Worker, "tick") /\ Fault
  /\ UNCHANGED <<Local, at, worker>>

\* try_deliver on the next message: the policy is read again
NextMessage ==
  /\ pc[Worker] = "next" /\ todo # {}
  /\ \E m \in todo :
       /\ \A k \in todo : m <= k
       /\ \/ /\ Class[m] \in allowed
             /\ Goto(Worker, "claim") /\ at' = [at EXCEPT ![Worker] = m]
             /\ UNCHANGED todo
          \/ /\ Class[m] \notin allowed
             /\ todo' = todo \ {m}
             /\ UNCHANGED <<pc, at>>
  /\ UNCHANGED <<Local, snap, page, attempts, notified, faults>>

EndPass ==
  /\ pc[Worker] = "next" /\ todo = {} /\ Goto(Worker, "tick")
  /\ UNCHANGED <<Local, at, worker, faults>>

\* message.force_send: snapshot of the row and of the lanes
ForceSend(f, m) ==
  /\ pc[f] = "idle" /\ Goto(f, "claim")
  /\ m \in stored \ delivered /\ Eligible(To[m])
  /\ at' = [at EXCEPT ![f] = m]
  /\ UNCHANGED <<Local, worker, faults>>

----------------------------------------------------------------------------
(* One delivery attempt, of the worker or of a force_send *)

\* the attempt returns to its caller
Return(a) ==
  /\ Goto(a, IF a = Worker THEN "next" ELSE "idle")
  /\ at' = [at EXCEPT ![a] = NoMsg]
  /\ todo' = IF a = Worker THEN todo \ {at[a]} ELSE todo

\* claim_message_push: INSERT OR IGNORE ... SELECT
Claim(a) ==
  LET m == at[a] IN
  /\ pc[a] = "claim"
  /\ \/ /\ Unclaimed(m)
        /\ claims' = claims \cup {m}
        /\ Goto(a, "capture") /\ UNCHANGED <<at, todo>>
     \/ /\ ~Unclaimed(m)
        /\ Return(a) /\ UNCHANGED claims
  /\ UNCHANGED <<stored, erased, delivered, read, err, allowed, snap, page,
                 attempts, notified, terminal, history, crashes, faults>>

\* the fresh capture shows neither a dialog nor a usage-limit menu
Capture(a) ==
  /\ pc[a] = "capture" /\ Goto(a, "type")
  /\ pane[To[at[a]]] \in {"idle", "working"}
  /\ UNCHANGED <<Local, at, worker, faults>>

\* the capture shows a dialog, fails, or times out: nothing was typed
Skip(a) ==
  /\ pc[a] = "capture" /\ Goto(a, "release")
  /\ \/ pane[To[at[a]]] \in {"dialog", "gone"} /\ UNCHANGED faults
     \/ pane[To[at[a]]] \in {"idle", "working"} /\ Fault
  /\ UNCHANGED <<Local, at, worker>>

\* send_text_named reached the window
Type(a) ==
  LET m == at[a] IN
  /\ pc[a] = "type" /\ Goto(a, "verify")
  /\ pane[To[m]] # "gone"
  /\ typed' = [typed EXCEPT ![m] = @ + 1]
  /\ UNCHANGED <<store, allowed, at, worker, terminal, surfaced, crashes, faults>>

\* send_text_named failed before any input
TypeFault(a) ==
  /\ pc[a] = "type" /\ Goto(a, "fail")
  /\ UNCHANGED <<Local, at, worker, faults>>

\* composer and opening frame verified, or not
Verify(a) ==
  /\ pc[a] = "verify"
  /\ \E label \in {"mark", "fail"} : Goto(a, label)
  /\ UNCHANGED <<Local, at, worker, faults>>

\* mark_message_push_delivered; the worker then forgets the message's failures
Mark(a) ==
  LET m == at[a] IN
  /\ pc[a] = "mark" /\ m \in stored
  /\ delivered' = delivered \cup {m} /\ read' = read \cup {m}
  /\ err' = [err EXCEPT ![m] = "none"]
  /\ attempts' = IF a = Worker THEN [attempts EXCEPT ![m] = 0] ELSE attempts
  /\ notified' = IF a = Worker THEN notified \ {m} ELSE notified
  /\ Return(a)
  /\ UNCHANGED <<stored, erased, claims, allowed, snap, page, terminal, history,
                 crashes, faults>>

\* the row is gone
MarkMissing(a) ==
  /\ pc[a] = "mark" /\ at[a] \notin stored /\ Goto(a, "fail")
  /\ UNCHANGED <<Local, at, worker, faults>>

\* release_message_push
Release(a) ==
  /\ pc[a] = "release"
  /\ claims' = claims \ {at[a]}
  /\ Return(a)
  /\ UNCHANGED <<stored, erased, delivered, read, err, allowed, snap, page,
                 attempts, notified, terminal, history, crashes, faults>>

\* the store fails the claim, the release or the delivery mark
StoreFault(a) ==
  /\ pc[a] \in {"claim", "release", "mark"} /\ Goto(a, "fail") /\ Fault
  /\ UNCHANGED <<Local, at, worker>>

\* set_message_delivery_error: no other column is looked at
WithFailedBug(m) == [err EXCEPT ![m] = IF @ = "none" THEN "failed" ELSE @]
WithFailed(m) == IF m \in stored THEN [err EXCEPT ![m] = "failed"] ELSE err

\* record the failure; the worker counts it and alerts once, force_send answers it
Fail(a) ==
  LET m == at[a]
      count == attempts[m] + 1
      alert == a = Worker /\ count >= FAILURE_NOTIFY_AFTER /\ m \notin notified
  IN
  /\ pc[a] = "fail"
  /\ err' = WithFailed(m)
  /\ attempts' = IF a = Worker THEN [attempts EXCEPT ![m] = count] ELSE attempts
  /\ notified' = IF alert THEN notified \cup {m} ELSE notified
  /\ surfaced' = IF alert \/ a # Worker THEN surfaced \cup {m} ELSE surfaced
  /\ Return(a)
  /\ UNCHANGED <<stored, erased, delivered, read, claims, allowed, snap, page,
                 terminal, typed, crashes, faults>>

----------------------------------------------------------------------------
(* The environment *)

\* the agent starts or ends a turn, raises a dialog, or exits
PaneChange(w) ==
  /\ pane[w] # "gone"
  /\ \E s \in PaneState \ {pane[w]} : pane' = [pane EXCEPT ![w] = s]
  /\ UNCHANGED <<store, allowed, pc, at, worker, spawns, history,
                 crashes, faults>>

\* a new agent takes over the freed slot: window names are reused
Respawn(w) ==
  /\ pane[w] = "gone" /\ spawns < MaxSpawns
  /\ pane' = [pane EXCEPT ![w] = "idle"]
  /\ spawns' = spawns + 1
  /\ UNCHANGED <<store, allowed, pc, at, worker, history, crashes, faults>>

\* the daemon dies at any point and starts again: memory is lost
Crash ==
  /\ crashes < MaxCrashes /\ crashes' = crashes + 1
  /\ pc' = [a \in Actors |-> IF a = Worker THEN "tick" ELSE "idle"]
  /\ at' = [a \in Actors |-> NoMsg]
  /\ snap' = {} /\ page' = {} /\ todo' = {}
  /\ attempts' = [m \in Msgs |-> 0] /\ notified' = {}
  /\ UNCHANGED <<store, allowed, terminal, history, faults>>

Attempt(a) ==
  \/ Claim(a) \/ Capture(a) \/ Skip(a) \/ Type(a) \/ TypeFault(a) \/ Verify(a)
  \/ Mark(a) \/ MarkMissing(a) \/ Release(a) \/ StoreFault(a) \/ Fail(a)

DeliveryPass ==
  \/ StartPass \/ Query \/ QueryFault \/ Lanes \/ LanesFault \/ NextMessage \/ EndPass
  \/ Attempt(Worker)

Next ==
  \/ DeliveryPass
  \/ \E f \in Forcers : Attempt(f) \/ \E m \in Msgs : ForceSend(f, m)
  \/ \E m \in Msgs : Send(m) \/ MarkRead(m) \/ Delete(m)
  \/ \E w \in Windows : Inbox(w) \/ PaneChange(w) \/ Respawn(w)
  \/ \E policy \in SUBSET Classes : SetPolicy(policy)
  \/ Crash

\* the worker loops on a one-second sweep, so its step is weakly fair
Spec == Init /\ [][Next]_vars
FairSpec == Spec /\ WF_vars(DeliveryPass)
----------------------------------------------------------------------------
(* Properties *)

\* the actor works under a claim it took itself
Holding(a) == pc[a] \in Attempting \ {"claim"}

\* The claim protocol of try_deliver types a message into its window at most
\* once, whatever crashes, retries, forced sends and store errors do.
AtMostOnce == \A m \in Msgs : typed[m] <= 1

\* the strengthening that makes the three inductive
Armed(a) == pc[a] \in {"capture", "type", "release"}

MailInv ==
  /\ TypeOK
  /\ \A m \in Msgs : typed[m] <= 1
  /\ \A m \in Msgs : typed[m] > 0 => m \in claims \cup erased
  /\ \A a \in Actors : Armed(a) => /\ typed[at[a]] = 0
                                 /\ at[a] \in claims \cup erased
  /\ \A a, b \in Actors : Armed(a) /\ Armed(b) /\ at[a] = at[b] => a = b

\* The detailed protocol implements the ledger: an armed actor owns its message,
\* typing pushes it, and a claimed or deleted message nobody is armed for is spent.
ArmedFor == [m \in Msgs |-> {a \in Actors : Armed(a) /\ at[a] = m}]
OneOf(S) == IF S = {} THEN NoMsg ELSE CHOOSE a \in S : TRUE
Owner == [m \in Msgs |-> OneOf(ArmedFor[m])]
Pushed == {m \in Msgs : typed[m] > 0}
Spent == {m \in (claims \cup erased) \ Pushed : ArmedFor[m] = {}}
Ledger == INSTANCE PushLedger WITH
  Nobody <- NoMsg, owner <- Owner, pushed <- Pushed, spent <- Spent
ImplementsLedger == Ledger!Spec

\* Once input was sent the claim stays for as long as the row does, across
\* sweeps and restarts (comment of claim_message_push).
InputKeepsClaim == \A m \in stored : typed[m] > 0 => m \in claims

\* Automatic and forced attempts never work between claim and typing on the
\* same message at once.
OneAttempt ==
  \A a, b \in Actors :
    pc[a] \in {"capture", "type"} /\ pc[b] \in {"capture", "type"} /\ at[a] = at[b]
      => a = b

\* A claim that no attempt is working on belongs to a message that is delivered,
\* or that shows a delivery error and has raised attention or failed the
\* force_send that claimed it (docs/messaging.md: "An uncertain attempt records a
\* delivery error and raises attention").
UncertainSurfaced ==
  \A m \in claims \ delivered :
    \/ err[m] = "failed" /\ m \in surfaced
    \/ \E a \in Actors : Holding(a) /\ at[a] = m

\* Only one message is attempted per window and sweep (docs/agent-supervision.md),
\* and it is the oldest of the page: what the worker claims is never preceded, in
\* the page of this pass, by a message of the same window.
OnePerSweep ==
  [][\A m \in claims' \ claims :
       pc[Worker] = "claim" /\ at[Worker] = m /\ pc'[Worker] = "capture"
         => \A k \in page : To[k] = To[m] => m <= k]_vars

\* A message the worker could deliver now and from now on, with pushes of both
\* classes allowed, does not wait for ever: it is claimed, delivered or deleted.
\* (While the policy keeps flipping, an older message that only the query may see
\* can hold up its window in every pass.)
Deliverable(m) == Unclaimed(m) /\ allowed = Classes /\ pane[To[m]] = "idle"
AttemptedEventually == \A m \in Msgs : []<>~Deliverable(m)
=============================================================================
