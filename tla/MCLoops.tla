------------------------------ MODULE MCLoops ------------------------------
(* The timer loops of the daemon. They share no variable, so each behaviour  *)
(* moves one of them, chosen at the start.                                  *)
EXTENDS AutoContinue, StallNudge, NotifyWatch, Standing, UsageIngest

VARIABLE loop

Orders == {[kind |-> "every", at |-> 3], [kind |-> "daily", at |-> 1],
           [kind |-> "weekdays", at |-> 0], [kind |-> "weekends", at |-> 1]}

LoopsInit ==
  /\ loop \in {"pause", "stall", "notify", "standing", "usage"}
  /\ PauseInit /\ (loop # "pause" => on) /\ StallInit /\ NotifyInit /\ StandingInit /\ UsageInit
LoopsNext ==
  \/ loop = "pause" /\ PauseNext
     /\ UNCHANGED <<loop, stallVars, notifyVars, standingVars, usageVars>>
  \/ loop = "stall" /\ StallNext
     /\ UNCHANGED <<loop, pauseVars, notifyVars, standingVars, usageVars>>
  \/ loop = "notify" /\ NotifyNext
     /\ UNCHANGED <<loop, pauseVars, stallVars, standingVars, usageVars>>
  \/ loop = "standing" /\ StandingNext
     /\ UNCHANGED <<loop, pauseVars, stallVars, notifyVars, usageVars>>
  \/ loop = "usage" /\ UsageNext
     /\ UNCHANGED <<loop, pauseVars, stallVars, notifyVars, standingVars>>

loopsVars == <<loop, pauseVars, stallVars, notifyVars, standingVars, usageVars>>
\* the fairness of each module, for the loop that moves
LoopsSpec ==
  /\ LoopsInit /\ [][LoopsNext]_loopsVars
  /\ WF_pauseVars(loop = "pause" /\ PauseTick) /\ WF_pauseVars(loop = "pause" /\ WatcherPass)
  /\ WF_stallVars(loop = "stall" /\ StallTick) /\ WF_stallVars(loop = "stall" /\ StallStep)
  /\ WF_standingVars(loop = "standing" /\ SchedulerStep)
  /\ WF_usageVars(loop = "usage" /\ PassStep)

\* Unpaused, StuckEscalated, SlotServed and LedgerSettles, of the loop that moves: no armed
\* agent stays paused, the nudges of a stuck one end in an escalation, a due schedule is
\* served, and every source that is there is caught up.
UnpausedLoop == loop = "pause" => Unpaused
StuckEscalatedLoop == loop = "stall" => StuckEscalated
SlotServedLoop == loop = "standing" => SlotServed
LedgerSettlesLoop == loop = "usage" => LedgerSettles
=============================================================================
