---------------------------- MODULE NotifyWatch ----------------------------
(***************************************************************************)
(* The notification watch over one session: at every tick it takes a fresh    *)
(* overlay, compares it with the previous one, and alerts on the transitions   *)
(* that debounce and activity latch let through. The overlay may misread the  *)
(* session for a moment, or lose it.                                         *)
(*                                                                         *)
(* Time is counted in ticks of the watch, and the pass of a tick is one step:   *)
(* all it changes is its own, and what it reads is one overlay. Activity of a   *)
(* session is the number of its last stamp.                                  *)
(***************************************************************************)
EXTENDS Naturals

CONSTANTS
  DEBOUNCE, LATCH_GRACE,
  MaxStamp,     \* bound: activities of the session
  MaxFlaps,     \* bound: overlays that misread it or fail
  MaxToggles    \* bound: switches of notify_enabled, restarts

ASSUME NotifyAssumption ==
  /\ {DEBOUNCE, LATCH_GRACE} \subseteq Nat /\ DEBOUNCE <= LATCH_GRACE
  /\ {MaxStamp, MaxFlaps, MaxToggles} \subseteq Nat

Statuses == {"running", "waiting", "limited", "idle", "ended"}
Kinds == {"needs_you", "rate_limited", "resumed", "stalled", "idle"}
Reading == [there : BOOLEAN, status : Statuses, stale : BOOLEAN]
Absent == [there |-> FALSE, status |-> "ended", stale |-> FALSE]
Showing(status, stale) == [there |-> TRUE, status |-> status, stale |-> stale]

VARIABLES
  truth,    \* the session as it is
  stamp,    \* its last activity
  enabled,  \* notify_enabled
  seeded, prev,   \* of the watch
  debounce,       \* of each kind, what is left of it
  latch,          \* of each kind, the activity alerted, or 0, and the age of the alert
  \* history
  told,     \* as latch, but kept when the session is gone
  again,    \* an activity was alerted twice in one kind, within LATCH_GRACE
  flaps, toggles

notifyVars == <<truth, stamp, enabled, seeded, prev, debounce, latch, told, again, flaps,
                toggles>>

Never == [at |-> 0, age |-> 0]
NoLatch == [k \in Kinds |-> Never]
NoDebounce == [k \in Kinds |-> 0]

NotifyTypeOK ==
  /\ truth \in Reading /\ stamp \in 1..(MaxStamp + 1) /\ prev \in Reading
  /\ {enabled, seeded} \subseteq BOOLEAN
  /\ debounce \in [Kinds -> 0..DEBOUNCE]
  /\ {latch, told} \subseteq [Kinds -> [at : 0..(MaxStamp + 1), age : 0..LATCH_GRACE]]
  /\ again \in BOOLEAN /\ flaps \in 0..MaxFlaps /\ toggles \in 0..MaxToggles
  /\ ~seeded => latch = NoLatch /\ told = NoLatch
  /\ \A k \in Kinds : latch[k] # Never => latch[k] = told[k]

NotifyInit ==
  /\ truth = Absent /\ stamp = 1 /\ enabled = TRUE
  /\ seeded = FALSE /\ prev = Absent /\ debounce = NoDebounce /\ latch = NoLatch
  /\ told = NoLatch /\ again = FALSE /\ flaps = 0 /\ toggles = 0

watch == <<enabled, seeded, prev, debounce, latch, told, again, flaps, toggles>>
----------------------------------------------------------------------------
(* The session and the operator *)

\* the session writes to its transcript
Activity ==
  /\ stamp <= MaxStamp /\ stamp' = stamp + 1
  /\ truth' \in {Showing(s, FALSE) : s \in Statuses} /\ UNCHANGED watch
\* a dialog or a limit on the pane comes or goes, activity grows old, the pane
\* freezes or moves again
Restate ==
  /\ truth.there /\ truth.status # "ended"
  /\ truth' \in {Showing(s, FALSE) : s \in Statuses} \cup {Showing("running", TRUE)}
  /\ UNCHANGED <<stamp, watch>>
Leave == truth.there /\ truth' = Absent /\ UNCHANGED <<stamp, watch>>

SetEnabled ==
  /\ toggles < MaxToggles /\ toggles' = toggles + 1 /\ enabled' = ~enabled
  /\ UNCHANGED <<truth, stamp, seeded, prev, debounce, latch, told, again, flaps>>
----------------------------------------------------------------------------
(* The pass *)

\* transition_kind
Turned(was, now) ==
  CASE now.there /\ now.status = "limited" -> IF was.there /\ was.status = "limited"
                                              THEN "none" ELSE "rate_limited"
    [] was.there /\ was.status = "limited" /\ now.there /\ now.status = "running" -> "resumed"
    [] now.there /\ now.status = "waiting" -> IF was.there /\ was.status = "waiting"
                                              THEN "none" ELSE "needs_you"
    [] was.there /\ ~now.there -> "idle"
    [] was.there /\ was.status # "ended" /\ now.there /\ now.status = "ended" -> "idle"
    [] OTHER -> "none"

\* diff_session_transitions: a stall is an alert of its own
Transition(was, now) ==
  IF was = now THEN "none"
  ELSE IF now.stale /\ ~was.stale THEN "stalled"
  ELSE Turned(was, now)

\* activity_allows_refire
AllowsRefireBug(k, view) == latch[k].at = 0 \/ (view.there /\ stamp >= latch[k].at)
AllowsRefire(k, view) == latch[k].at = 0 \/ (view.there /\ stamp > latch[k].at)
Fires(k, view) ==
  /\ k # "none" /\ debounce[k] = 0
  /\ k = "idle" \/ AllowsRefire(k, view)

Older(age) == IF age < LATCH_GRACE THEN age + 1 ELSE age
Aged(entries) == [k \in Kinds |-> IF entries[k].at = 0 THEN entries[k]
                                  ELSE [entries[k] EXCEPT !.age = Older(@)]]
Sooner(n) == IF n = 0 THEN 0 ELSE n - 1
Ticked == [k \in Kinds |-> Sooner(debounce[k])]

\* latch.retain: what is kept of a session that is not in the overlay
Retained(entries, view) ==
  [k \in Kinds |-> IF view.there \/ entries[k].age < LATCH_GRACE THEN entries[k] ELSE Never]

Forget ==
  /\ seeded' = FALSE /\ prev' = Absent /\ debounce' = NoDebounce
  /\ latch' = NoLatch /\ told' = NoLatch

\* the edges of one overlay
Compare(view) ==
  LET k == Transition(prev, view)
      fires == Fires(k, view)
      new == [at |-> stamp, age |-> 0] IN
  /\ prev' = view /\ UNCHANGED seeded
  /\ debounce' = IF fires THEN [Ticked EXCEPT ![k] = DEBOUNCE] ELSE Ticked
  /\ LET latched == IF fires /\ k # "idle" THEN [Aged(latch) EXCEPT ![k] = new] ELSE Aged(latch)
     IN latch' = Retained(latched, view)
  /\ told' = IF fires /\ k # "idle" THEN [Aged(told) EXCEPT ![k] = new] ELSE Aged(told)
  /\ again' = (again \/ (fires /\ k # "idle" /\ told[k].at = stamp /\ told[k].age < LATCH_GRACE))

Pass(view) ==
  /\ IF ~enabled THEN Forget /\ UNCHANGED again
     ELSE IF seeded THEN Compare(view)
     ELSE /\ seeded' = TRUE /\ prev' = view
          /\ UNCHANGED <<debounce, latch, told, again>>
  /\ UNCHANGED <<truth, stamp, enabled, toggles>>

NotifyPass == Pass(truth) /\ UNCHANGED flaps
\* the overlay misreads the session, or misses it
PassFlap ==
  /\ flaps < MaxFlaps /\ flaps' = flaps + 1
  /\ \E view \in {Absent, Showing("running", FALSE), Showing("waiting", FALSE)} : Pass(view)
\* there is no overlay
PassFault ==
  /\ flaps < MaxFlaps /\ flaps' = flaps + 1
  /\ debounce' = Ticked /\ latch' = Aged(latch) /\ told' = Aged(told)
  /\ UNCHANGED <<truth, stamp, enabled, seeded, prev, again, toggles>>

\* the daemon is started again
WatchRestart ==
  /\ toggles < MaxToggles /\ toggles' = toggles + 1 /\ Forget
  /\ UNCHANGED <<truth, stamp, enabled, again, flaps>>

NotifyNext ==
  \/ Activity \/ Restate \/ Leave \/ SetEnabled \/ WatchRestart
  \/ NotifyPass \/ PassFlap \/ PassFault
NotifySpec == NotifyInit /\ [][NotifyNext]_notifyVars
----------------------------------------------------------------------------
(* Properties *)

\* activity_allows_refire: "Allows a repeat alert only after new transcript
\* activity, preventing detection flaps from re-alerting": within LATCH_GRACE of an
\* alert, and while the watch runs and is enabled, its activity is not alerted again in the
\* same kind, whatever the overlay shows.
NoRepeat == ~again
=============================================================================
