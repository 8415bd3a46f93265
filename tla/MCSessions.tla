----------------------------- MODULE MCSessions -----------------------------
(* What the daemon does to sessions on its own: it answers their dialogs and   *)
(* reaps the windows that nobody wants. The two parts share no variable, so    *)
(* each behaviour moves one of them, chosen at the start.                      *)
EXTENDS MCDialogAnswer, Reaper

VARIABLE part

SessionsInit ==
  /\ part \in {"dialog", "reaper"}
  /\ Init /\ (part # "dialog" => policy = FALSE) /\ ReaperInit
SessionsNext ==
  \/ part = "dialog" /\ Next /\ UNCHANGED <<part, reaperVars>>
  \/ part = "reaper" /\ ReaperNext /\ UNCHANGED <<part, vars>>

\* the fairness of each module, for the part that moves
SessionsSpec ==
  /\ SessionsInit /\ [][SessionsNext]_<<part, vars, reaperVars>>
  /\ WF_vars(part = "dialog" /\ Loop) /\ WF_vars(part = "dialog" /\ Attempt("rule"))
  /\ WF_vars(part = "dialog" /\ Repaint) /\ WF_vars(part = "dialog" /\ Overlay)
  /\ WF_vars(part = "dialog" /\ CooldownEnds)
  /\ WF_reaperVars(part = "reaper" /\ SweepTick)
  /\ \A d \in Daemons : WF_reaperVars(part = "reaper" /\ SweepStep(d))

\* OrphanReaped, of the part that moves: a window that nobody wants does not stay.
OrphanReapedPart == part = "reaper" => OrphanReaped
=============================================================================
