----------------------------- MODULE StallNudge -----------------------------
(***************************************************************************)
(* Stall nudges of one supervised window: at every pass the supervision loop  *)
(* takes a snapshot of policy and lanes, and nudges a session that has        *)
(* outstanding work, has long been idle and whose pane is quiet. After a      *)
(* budget of nudges it escalates once. Agent, operator and restarts act       *)
(* between its steps.                                                        *)
(*                                                                         *)
(* Timers count ticks of the loop up to the threshold they are compared with.  *)
(***************************************************************************)
EXTENDS Naturals

CONSTANTS
  STALL_MINS, NUDGE_SPACING, NUDGE_RETRIES,
  MaxWorks,     \* bound: stretches of work and dialogs of the agent
  MaxSwitches,  \* bound: edits of the policy, restarts
  MaxSkips      \* bound: captures and overlays that fail

ASSUME StallAssumption ==
  /\ {STALL_MINS, NUDGE_SPACING} \subseteq Nat \ {0}
  /\ {NUDGE_RETRIES, MaxWorks, MaxSwitches, MaxSkips} \subseteq Nat

VARIABLES
  \* the session
  mode,     \* "rest" (its turn has ended), "turn", "dialog"
  idle,     \* since its last activity
  moved,    \* it was active after the time of the last nudge
  dirty,    \* its pane changed since the overlay looked at it
  quiet,    \* since the overlay saw the pane change, or Unseen
  \* the policy of the lane
  supervised, expect_work,
  \* the loop
  step,     \* "wait", "lanes", "stall", "send", "bump"
  policy,   \* the pass's copy of expect_work
  view,     \* the pass's session
  acted,    \* activity since the time the pass goes by
  episode,  \* the entry of stall_scheds, or NoEpisode
  \* history
  crossed,  \* activity since the pass took its snapshot
  typed,    \* nudges of passes since the agent was last active or out of work
  alarms,   \* escalations of those passes
  works, edited, skips

session == <<mode, idle, moved, dirty>>
lanePolicy == <<supervised, expect_work>>
stallPass == <<step, policy, view>>
tally == <<crossed, typed, alarms>>
counts == <<works, edited, skips>>
stallVars == <<session, quiet, lanePolicy, stallPass, acted, episode, tally, counts>>

Unseen == STALL_MINS + 1
NoEpisode == [nudges_sent |-> 0, since |-> 0, escalated |-> FALSE]
Nowhere == [eligible |-> FALSE, idle |-> 0, moved |-> FALSE]
Budget == IF NUDGE_RETRIES = 0 THEN 1 ELSE NUDGE_RETRIES
UpTo(bound, n) == IF n < bound THEN n + 1 ELSE n

StallTypeOK ==
  /\ mode \in {"rest", "turn", "dialog"} /\ idle \in 0..STALL_MINS
  /\ {moved, dirty, supervised, expect_work, policy, acted, crossed} \subseteq BOOLEAN
  /\ quiet \in 0..Unseen
  /\ step \in {"wait", "lanes", "stall", "send", "bump"}
  /\ view \in [eligible : BOOLEAN, idle : 0..STALL_MINS, moved : BOOLEAN]
  /\ episode \in [nudges_sent : 0..Budget, since : 0..NUDGE_SPACING, escalated : BOOLEAN]
  /\ typed \in 0..Budget /\ alarms \in 0..1
  /\ works \in 0..MaxWorks /\ edited \in 0..MaxSwitches /\ skips \in 0..MaxSkips
  /\ step \in {"send", "bump"} => episode.nudges_sent < Budget

StallInit ==
  /\ mode = "rest" /\ idle = 0 /\ moved = FALSE /\ dirty = TRUE /\ quiet = Unseen
  /\ supervised = TRUE /\ expect_work = TRUE
  /\ step = "wait" /\ policy = FALSE /\ view = Nowhere /\ acted = FALSE
  /\ episode = NoEpisode /\ crossed = FALSE /\ typed = 0 /\ alarms = 0
  /\ works = 0 /\ edited = 0 /\ skips = 0
----------------------------------------------------------------------------
(* The agent, the operator, restarts, time *)

Work ==
  /\ works < MaxWorks /\ works' = works + 1
  /\ mode' \in {"rest", "turn", "dialog"} /\ idle' = 0 /\ dirty' = TRUE
  /\ moved' = TRUE /\ acted' = TRUE /\ crossed' = TRUE
  /\ typed' = 0 /\ alarms' = 0
  /\ UNCHANGED <<quiet, lanePolicy, stallPass, episode, edited, skips>>

\* a turn ends, a dialog is answered: the transcript says so
TurnEnds ==
  /\ mode # "rest" /\ mode' = "rest" /\ idle' = 0 /\ dirty' = TRUE
  /\ moved' = TRUE /\ acted' = TRUE /\ crossed' = TRUE
  /\ typed' = 0 /\ alarms' = 0
  /\ UNCHANGED <<quiet, lanePolicy, stallPass, episode, counts>>

Switch == edited < MaxSwitches /\ edited' = edited + 1

\* supervision.set: work that is no longer expected ends the episode at the next pass
SetWork ==
  /\ Switch /\ expect_work' = ~expect_work
  /\ UNCHANGED <<session, quiet, supervised, stallPass, acted, episode, tally, works, skips>>
SetSupervised ==
  /\ Switch /\ supervised' = ~supervised
  /\ UNCHANGED <<session, quiet, expect_work, stallPass, acted, episode, tally, works, skips>>

Reboot ==
  /\ Switch
  /\ step' = "wait" /\ policy' = FALSE /\ view' = Nowhere /\ acted' = FALSE /\ quiet' = Unseen
  /\ dirty' = TRUE /\ moved' = FALSE
  /\ episode' = NoEpisode /\ crossed' = FALSE /\ typed' = 0 /\ alarms' = 0
  /\ UNCHANGED <<mode, idle, lanePolicy, works, skips>>

Now == /\ idle' = UpTo(STALL_MINS, idle)
       /\ quiet' = IF quiet = Unseen THEN quiet ELSE UpTo(STALL_MINS, quiet)
       /\ episode' = IF episode.nudges_sent = 0 THEN episode
                     ELSE [episode EXCEPT !.since = UpTo(NUDGE_SPACING, @)]
----------------------------------------------------------------------------
(* The pass *)

Outside == UNCHANGED <<lanePolicy, works, edited>>

\* a tick, and the policies are refreshed
StallTick ==
  /\ step = "wait" /\ Now
  /\ policy' = expect_work /\ step' = IF supervised THEN "lanes" ELSE "wait"
  /\ UNCHANGED <<mode, moved, dirty, lanePolicy, view, acted, tally, counts>>

\* stall_eligible
Eligible == mode = "rest"

\* the overlay: looks at the pane, and stamps it if it changed
TakeLanes ==
  /\ step = "lanes" /\ step' = "stall"
  /\ view' = [eligible |-> Eligible, idle |-> idle, moved |-> moved]
  /\ quiet' = IF dirty THEN 0 ELSE quiet
  /\ dirty' = FALSE /\ crossed' = FALSE
  /\ Outside /\ UNCHANGED <<mode, idle, moved, policy, acted, episode, typed, alarms, skips>>
TakeLanesFault ==
  /\ step = "lanes" /\ skips < MaxSkips /\ skips' = skips + 1 /\ step' = "wait"
  /\ Outside
  /\ UNCHANGED <<session, quiet, policy, view, acted, episode, tally>>

\* the session moved past the last nudge, or there is nothing to do
EpisodeOverBug == view.moved
EpisodeOver == view.moved \/ ~policy
Current == IF episode.nudges_sent > 0 /\ EpisodeOver THEN NoEpisode ELSE episode

\* decide_stall
Stalled == policy /\ quiet \in STALL_MINS..(Unseen - 1) /\ view.idle >= STALL_MINS
Spaced == Current.since >= NUDGE_SPACING
NudgesBug == Current.nudges_sent = 0 \/ (Spaced /\ Current.nudges_sent <= NUDGE_RETRIES)
Nudges == Current.nudges_sent = 0 \/ (Spaced /\ Current.nudges_sent < NUDGE_RETRIES)
Escalates == Current.nudges_sent > 0 /\ Spaced /\ Current.nudges_sent >= NUDGE_RETRIES

StallPhase ==
  /\ step = "stall"
  /\ LET looked == view.eligible
         act == looked /\ Stalled /\ ~Current.escalated IN
     /\ step' = IF act /\ Nudges THEN "send" ELSE "wait"
     /\ episode' = IF ~looked THEN episode
                   ELSE IF act /\ Escalates /\ ~Nudges THEN [Current EXCEPT !.escalated = TRUE]
                   ELSE Current
     /\ alarms' = IF act /\ Escalates /\ ~Nudges THEN (IF crossed THEN alarms ELSE alarms + 1)
                  ELSE IF looked /\ ~policy THEN 0 ELSE alarms
     /\ typed' = IF looked /\ ~policy THEN 0 ELSE typed
     /\ acted' = FALSE
  /\ Outside /\ UNCHANGED <<session, quiet, policy, view, crossed, skips>>

\* verified_send: a dialog on the screen, or a capture that fails, skips the nudge
SendNudge ==
  /\ step = "send" /\ step' = "bump"
  /\ \/ mode # "dialog" /\ typed' = (IF crossed THEN typed ELSE typed + 1) /\ dirty' = TRUE /\ UNCHANGED skips
     \/ mode = "dialog" /\ UNCHANGED <<typed, dirty, skips>>
     \/ skips < MaxSkips /\ skips' = skips + 1 /\ UNCHANGED <<typed, dirty>>
  /\ Outside /\ UNCHANGED <<mode, idle, moved, quiet, policy, view, acted, episode, crossed, alarms>>

\* bump_stall_sched: stamped with the time of the pass, whatever became of the nudge
Bump ==
  /\ step = "bump" /\ step' = "wait" /\ moved' = acted
  /\ episode' = [episode EXCEPT !.nudges_sent = @ + 1, !.since = 0]
  /\ Outside
  /\ UNCHANGED <<mode, idle, dirty, quiet, policy, view, acted, tally, skips>>

StallStep == TakeLanes \/ TakeLanesFault \/ StallPhase \/ SendNudge \/ Bump
StallNext ==
  \/ StallTick \/ StallStep
  \/ Work \/ TurnEnds \/ SetWork \/ SetSupervised \/ Reboot

StallSpec == StallInit /\ [][StallNext]_stallVars
\* the loop's interval fires, and its pass ends
StallFairSpec == StallSpec /\ WF_stallVars(StallTick) /\ WF_stallVars(StallStep)
----------------------------------------------------------------------------
(* Properties *)

\* docs/agent-supervision.md: "up to nudge_retries nudges total", "no further nudges",
\* "fires once": between two activities of the agent it gets at most the budget
\* of nudges (one, if the budget is zero) and one escalation, through passes that work on stale
\* snapshots, failed sends and policy switches.
NudgeBudget == typed <= Budget /\ alarms <= 1

\* A session at rest with outstanding work in a supervised lane does not stay so
\* for ever without an escalation.
StuckEscalated == []<>(mode # "rest" \/ ~supervised \/ ~expect_work \/ alarms > 0)
=============================================================================
