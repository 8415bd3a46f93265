---------------------------- MODULE OverlayCache ----------------------------
(***************************************************************************)
(* The lane overlay everybody reads (lane.list, the delivery worker, the     *)
(* supervision loop, notify_watch): a cached list guarded by a generation,   *)
(* a mutex that serialises the scans filling it, and under it the cache of   *)
(* pane captures, guarded by an age only. Handlers change the fleet and drop  *)
(* the list; answering a dialog drops both. Events are left out.             *)
(*                                                                         *)
(* Data is a version: of the fleet (lanes, windows, labels, views) and of     *)
(* the one pane looked at. A version a list shows includes all before it.    *)
(***************************************************************************)
EXTENDS Naturals

CONSTANTS
  Readers,     \* callers of lanes_with_agents
  Fresh,       \* those that call lanes_with_agents_fresh (notify_watch)
  None,
  MaxChanges,  \* bound: changes of the fleet
  MaxPane      \* bound: changes of the pane

Overlay == [lanes : Nat, pane : Nat]
Changes == 1..MaxChanges

ASSUME OverlayAssumption ==
  /\ Fresh \subseteq Readers
  /\ None \notin Overlay \cup Nat \cup Readers
  /\ MaxChanges \in Nat /\ MaxPane \in Nat

VARIABLES
  \* the fleet, the pane, and the handlers at work on them
  world,        \* changes made
  invalidated,  \* changes whose handler dropped the overlay
  pane,         \* version of the pane
  answering,    \* an answer between its keys and its reply
  \* the daemon's caches
  generation,   \* OverlayCache.generation
  entry,        \* OverlayCache.entry while it is young enough
  sniff,        \* the pane's prompt_cache entry while it is young enough
  flight,       \* holder of overlay_flight
  \* the calls
  pc,
  seen,         \* generation a scan started from
  got,          \* the overlay under construction, or the answer
  \* history
  settled,      \* latest change that was followed by an invalidation
  answered,     \* version of the pane the last finished answer left
  since,        \* settled and answered when a call began
  shown         \* the latest change in the list that was last given to a call

fleet == <<world, invalidated, settled>>
terminal == <<pane, answering, answered>>
caches == <<generation, entry, sniff, flight>>
calls == <<pc, seen, got, since, shown>>
vars == <<fleet, terminal, caches, calls>>

Scanning == {"recheck", "lanes", "sniff", "capture", "store", "publish"}
PC == {"idle", "look", "wait", "return", "peeked"} \cup Scanning
Start == [settled : Nat, answered : Nat]

Nothing == [lanes |-> 0, pane |-> 0]
Never == [settled |-> 0, answered |-> 0]

TypeOK ==
  /\ world \in Nat /\ invalidated \subseteq Changes
  /\ pane \in Nat /\ answering \in {"no", "keys", "marked"}
  /\ generation \in Nat /\ entry \in Overlay \cup {None} /\ sniff \in Nat \cup {None}
  /\ flight \in Readers \cup {None}
  /\ pc \in [Readers -> PC]
  /\ seen \in [Readers -> Nat] /\ got \in [Readers -> Overlay]
  /\ settled \in Nat /\ answered \in Nat
  /\ since \in [Readers -> Start] /\ shown \in Nat
  /\ \A r \in Readers : pc[r] \in Scanning <=> flight = r

Init ==
  /\ world = 0 /\ invalidated = {}
  /\ pane = 0 /\ answering = "no"
  /\ generation = 0 /\ entry = None /\ sniff = None /\ flight = None
  /\ pc = [r \in Readers |-> "idle"]
  /\ seen = [r \in Readers |-> 0]
  /\ got = [r \in Readers |-> Nothing]
  /\ settled = 0 /\ answered = 0
  /\ since = [r \in Readers |-> Never] /\ shown = 0

Later(a, b) == IF a < b THEN b ELSE a
----------------------------------------------------------------------------
(* Handlers *)

\* lane.create, lane.delete, agent.spawn, set_view, ...: the change itself
Change ==
  /\ world < MaxChanges /\ world' = world + 1
  /\ UNCHANGED <<invalidated, settled, terminal, caches, calls>>

\* invalidate_overlay
Invalidate(v) ==
  /\ v <= world /\ v \notin invalidated
  /\ invalidated' = invalidated \cup {v} /\ settled' = Later(settled, v)
  /\ generation' = generation + 1 /\ entry' = None
  /\ UNCHANGED <<world, terminal, sniff, flight, calls>>

\* the agent changes its pane
Repaint ==
  /\ answering = "no" /\ pane < MaxPane /\ pane' = pane + 1
  /\ UNCHANGED <<fleet, answering, answered, caches, calls>>

\* agent.answer and verified_send: the keys make the dialog go away, ...
SendKeys ==
  /\ answering = "no" /\ pane < MaxPane /\ pane' = pane + 1
  /\ answering' = "keys"
  /\ UNCHANGED <<fleet, answered, caches, calls>>

\* ... mark_input drops the capture of the pane, ...
MarkInput ==
  /\ answering = "keys" /\ answering' = "marked"
  /\ sniff' = None
  /\ UNCHANGED <<fleet, pane, answered, generation, entry, flight, calls>>

\* ... and the overlay is invalidated before the reply
Answered ==
  /\ answering = "marked" /\ answering' = "no"
  /\ generation' = generation + 1 /\ entry' = None
  /\ answered' = pane
  /\ UNCHANGED <<fleet, pane, sniff, flight, calls>>

\* OVERLAY_TTL, SNIFF_TTL and RUNNING_SNIFF_TTL run out
EntryExpires ==
  /\ entry # None /\ entry' = None
  /\ UNCHANGED <<fleet, terminal, generation, sniff, flight, calls>>
SniffExpires ==
  /\ sniff # None /\ sniff' = None
  /\ UNCHANGED <<fleet, terminal, generation, entry, flight, calls>>

----------------------------------------------------------------------------
(* lanes_with_agents, lanes_with_agents_fresh, agent.prompt *)

Goto(r, label) == pc' = [pc EXCEPT ![r] = label]
\* a call is over: nothing of it is left
Over(r) ==
  /\ Goto(r, "idle") /\ seen' = [seen EXCEPT ![r] = 0]
  /\ got' = [got EXCEPT ![r] = Nothing] /\ since' = [since EXCEPT ![r] = Never]

Begin(r) ==
  /\ pc[r] = "idle" /\ Goto(r, IF r \in Fresh THEN "wait" ELSE "look")
  /\ since' = [since EXCEPT ![r] = [settled |-> settled, answered |-> answered]]
  /\ UNCHANGED <<fleet, terminal, caches, seen, got, shown>>

\* the first look at the cache
Look(r) ==
  /\ pc[r] = "look"
  /\ IF entry = None THEN Goto(r, "wait") /\ UNCHANGED <<got, shown>>
     ELSE /\ Goto(r, "return") /\ got' = [got EXCEPT ![r] = entry]
          /\ shown' = entry.lanes
  /\ UNCHANGED <<fleet, terminal, caches, seen, since>>

AcquireBug(r) ==
  /\ pc[r] = "wait" /\ flight' = r /\ Goto(r, "recheck")
  /\ UNCHANGED <<fleet, terminal, generation, entry, sniff, seen, got, since, shown>>
Acquire(r) ==
  /\ pc[r] = "wait" /\ flight = None /\ flight' = r /\ Goto(r, "recheck")
  /\ UNCHANGED <<fleet, terminal, generation, entry, sniff, seen, got, since, shown>>

\* the second look, under the mutex, and the generation
Recheck(r) ==
  /\ pc[r] = "recheck"
  /\ IF entry = None
     THEN /\ Goto(r, "lanes") /\ seen' = [seen EXCEPT ![r] = generation]
          /\ UNCHANGED <<got, flight, shown>>
     ELSE /\ Goto(r, "return") /\ got' = [got EXCEPT ![r] = entry]
          /\ shown' = entry.lanes /\ flight' = None /\ UNCHANGED seen
  /\ UNCHANGED <<fleet, terminal, generation, entry, sniff, since>>

\* lanes.list and the sessions of the overlay
ListLanes(r) ==
  /\ pc[r] = "lanes" /\ Goto(r, "sniff")
  /\ got' = [got EXCEPT ![r].lanes = world]
  /\ UNCHANGED <<fleet, terminal, caches, seen, since, shown>>

\* a young capture of the pane is used again
Sniff(r) ==
  /\ pc[r] = "sniff"
  /\ IF sniff = None THEN Goto(r, "capture") /\ UNCHANGED got
     ELSE Goto(r, "publish") /\ got' = [got EXCEPT ![r].pane = sniff]
  /\ UNCHANGED <<fleet, terminal, caches, seen, since, shown>>

Capture(r) ==
  /\ pc[r] = "capture" /\ Goto(r, "store")
  /\ got' = [got EXCEPT ![r].pane = pane]
  /\ UNCHANGED <<fleet, terminal, caches, seen, since, shown>>

\* the capture is kept, whatever happened since it was taken
Store(r) ==
  /\ pc[r] = "store" /\ Goto(r, "publish")
  /\ sniff' = got[r].pane
  /\ UNCHANGED <<fleet, terminal, generation, entry, flight, seen, got, since, shown>>

\* the overlay is kept if nothing invalidated it meanwhile; the mutex is released
PublishBug(r) ==
  /\ pc[r] = "publish" /\ Goto(r, "return") /\ flight' = None
  /\ entry' = got[r]
  /\ shown' = got[r].lanes
  /\ UNCHANGED <<fleet, terminal, generation, sniff, seen, got, since>>
PublishHeld(r) ==
  /\ pc[r] = "publish" /\ Goto(r, "return")
  /\ IF seen[r] = generation THEN entry' = got[r] /\ flight' = None
                             ELSE UNCHANGED <<entry, flight>>
  /\ shown' = got[r].lanes
  /\ UNCHANGED <<fleet, terminal, generation, sniff, seen, got, since>>
Publish(r) ==
  /\ pc[r] = "publish" /\ Goto(r, "return") /\ flight' = None
  /\ entry' = IF seen[r] = generation THEN got[r] ELSE entry
  /\ shown' = got[r].lanes
  /\ UNCHANGED <<fleet, terminal, generation, sniff, seen, got, since>>

Return(r) ==
  /\ pc[r] = "return" /\ Over(r)
  /\ UNCHANGED <<fleet, terminal, caches, shown>>

\* the client of a call hangs up: the call is dropped where it is
HangUp(r) ==
  /\ pc[r] # "idle" /\ r \notin Fresh /\ Over(r)
  /\ flight' = IF flight = r THEN None ELSE flight
  /\ UNCHANGED <<fleet, terminal, generation, entry, sniff, shown>>

\* agent.prompt captures the pane and keeps the capture too
Peek(r) ==
  /\ pc[r] = "idle" /\ r \notin Fresh /\ Goto(r, "peeked")
  /\ got' = [got EXCEPT ![r].pane = pane]
  /\ UNCHANGED <<fleet, terminal, caches, seen, since, shown>>
Peeked(r) ==
  /\ pc[r] = "peeked" /\ Over(r)
  /\ sniff' = got[r].pane
  /\ UNCHANGED <<fleet, terminal, generation, entry, flight, shown>>

Handlers ==
  \/ Change \/ Repaint \/ SendKeys \/ MarkInput \/ Answered \/ EntryExpires \/ SniffExpires
  \/ \E v \in Changes : Invalidate(v)
Scan(r) == Recheck(r) \/ ListLanes(r) \/ Sniff(r) \/ Capture(r) \/ Store(r) \/ Publish(r)
Next ==
  \/ Handlers
  \/ \E r \in Readers :
       \/ Begin(r) \/ Look(r) \/ Acquire(r) \/ Scan(r) \/ Return(r)
       \/ HangUp(r) \/ Peek(r) \/ Peeked(r)

Spec == Init /\ [][Next]_vars
\* the runtime polls every ready task; the tokio mutex is handed over in turn
FairSpec ==
  /\ Spec
  /\ \A r \in Readers :
       /\ WF_vars(Look(r)) /\ SF_vars(Acquire(r)) /\ WF_vars(Scan(r)) /\ WF_vars(Return(r))
       /\ WF_vars(Peeked(r))
----------------------------------------------------------------------------
(* Properties *)

Listed(r) == pc[r] \in {"sniff", "capture", "store", "publish", "return"}

\* invalidate_overlay: "so the action shows up immediately": a call that begins
\* after a change was invalidated never returns a list from before it, however
\* scans, expiries, other invalidations and dropped calls interleave.
SeesChanges == \A r \in Readers : pc[r] = "return" => got[r].lanes >= since[r].settled

\* The overlay keeps the promise of FreshReads, which knows no cache, no mutex and no
\* generation: the second look under the mutex, the generation and the drops of the entry
\* amount to lists that are no older than their call, and none older than another already told.
CallOf(r) ==
  CASE pc[r] \in {"idle", "peeked"} -> "none" [] pc[r] = "return" -> "told" [] OTHER -> "asked"
Reads == INSTANCE FreshReads WITH
  now <- world, acked <- settled, newest <- shown,
  call <- [r \in Readers |-> CallOf(r)],
  from <- [r \in Readers |-> since[r].settled],
  list <- [r \in Readers |-> IF pc[r] = "return" THEN got[r].lanes ELSE 0]
ImplementsReads == Reads!Spec

\* the strengthening that makes SeesChanges inductive: nothing older than the last
\* invalidation is in the cache, or will be published into it
CacheInv ==
  /\ TypeOK
  /\ settled <= world
  /\ entry # None => entry.lanes >= settled
  /\ \A r \in Readers :
       /\ since[r].settled <= settled
       /\ pc[r] \in Scanning \ {"recheck"} => seen[r] <= generation
       /\ Listed(r) => got[r].lanes >= since[r].settled
       /\ Listed(r) /\ pc[r] # "return" /\ seen[r] = generation => got[r].lanes >= settled

\* Every call ends, however often its scans are invalidated under it.
CallsEnd == \A r \in Readers : pc[r] # "idle" ~> pc[r] = "idle"

\* rpc.rs: "an answered dialog can't be re-advertised by lane.list"
AnswerSeen == \A r \in Readers : pc[r] = "return" => got[r].pane >= since[r].answered
=============================================================================
