------------------------------- MODULE Reaper -------------------------------
(***************************************************************************)
(* The reaper: daemons that share one tmux server sweep its windows, and kill  *)
(* one that was seen, twice in a row, idle and without a lane or outside of    *)
(* its lane's directory. Only the daemon stamped on the server kills. A server   *)
(* that lists no windows although lanes are live is reported.                  *)
(*                                                                         *)
(* One window name, used again and again, stands for the windows. Sweeps of the  *)
(* daemons interleave; every daemon sweeps once in a tick.                     *)
(***************************************************************************)
EXTENDS Naturals

CONSTANTS
  Daemons, Home,     \* Home: the daemon that spawns the window
  Nobody,
  RUNNING_GRACE,     \* in ticks; sweeps of the code are a fifth of it
  MaxSpawns,         \* bound: windows spawned
  MaxMoves,          \* bound: lanes registered or removed
  MaxProbes,         \* bound: listings that fail or misread a directory
  MaxLosses          \* bound: the server dies

ORPHAN_CONFIRM == 2
SESSION_LOSS_CONFIRM == 2

ASSUME ReaperAssumption ==
  /\ Home \in Daemons /\ Nobody \notin Daemons
  /\ RUNNING_GRACE \in Nat \ {0}
  /\ {MaxSpawns, MaxMoves, MaxProbes, MaxLosses} \subseteq Nat
  /\ MaxProbes + 1 < RUNNING_GRACE   \* some listing meets a window while it is new

VARIABLES
  \* the server
  window, silent,    \* it exists; since its last output
  owner,             \* @repomon-owner
  \* each daemon
  registered,        \* its store has the window's lane, with its directory
  sweep,             \* "due", "list", "claim", "reread", "confirm", "kill", "done"
  lane,              \* the sweep's copy of registered
  orphan,            \* the listing shows a candidate
  owns,
  orphan_confirm, session_loss_confirm, saw_managed_windows,
  \* history
  sightings,         \* listings in a row that showed this window a candidate
  newborn,           \* it was spawned after the listing
  unearned, stolen,  \* windows killed after fewer sightings, under another's stamp
  outage,            \* listings in a row without windows; alerts for them
  spawns, moves, probes, losses

server == <<window, silent, owner>>
judged == <<sightings, newborn>>
verdicts == <<unearned, stolen>>
confirms == <<orphan_confirm, session_loss_confirm, saw_managed_windows>>
sweepVars == <<sweep, lane, orphan, owns>>
limits == <<spawns, moves, probes, losses>>
reaperVars == <<server, registered, sweepVars, confirms, judged, verdicts, outage, limits>>

ReaperTypeOK ==
  /\ window \in BOOLEAN /\ silent \in 0..RUNNING_GRACE /\ owner \in Daemons \cup {Nobody}
  /\ {registered, lane, orphan, owns, saw_managed_windows, newborn} \subseteq [Daemons -> BOOLEAN]
  /\ sweep \in [Daemons -> {"due", "list", "claim", "reread", "confirm", "kill", "done"}]
  /\ orphan_confirm \in [Daemons -> 0..(ORPHAN_CONFIRM - 1)]
  /\ session_loss_confirm \in [Daemons -> 0..(SESSION_LOSS_CONFIRM + 1)]
  /\ sightings \in [Daemons -> 0..ORPHAN_CONFIRM]
  /\ outage \in [Daemons -> [length : 0..SESSION_LOSS_CONFIRM, alerts : 0..2]]
  /\ {unearned, stolen} \subseteq BOOLEAN

NoOutage == [length |-> 0, alerts |-> 0]
ReaperInit ==
  /\ window = FALSE /\ silent = 0 /\ owner = Nobody
  /\ registered = [d \in Daemons |-> d = Home]
  /\ sweep = [d \in Daemons |-> "done"]
  /\ lane = [d \in Daemons |-> FALSE] /\ orphan = lane /\ owns = lane
  /\ orphan_confirm = [d \in Daemons |-> 0] /\ session_loss_confirm = orphan_confirm
  /\ saw_managed_windows = lane
  /\ sightings = orphan_confirm /\ newborn = lane
  /\ unearned = FALSE /\ stolen = FALSE
  /\ outage = [d \in Daemons |-> NoOutage]
  /\ spawns = 0 /\ moves = 0 /\ probes = 0 /\ losses = 0

Set(f, d, v) == [f EXCEPT ![d] = v]
Cap(n, bound) == IF n < bound THEN n + 1 ELSE n
----------------------------------------------------------------------------
(* The windows, the operator, time *)

Kept == <<registered, sweepVars, confirms, verdicts, outage>>
SpawnWindow ==
  /\ ~window /\ registered[Home] /\ spawns < MaxSpawns /\ spawns' = spawns + 1
  /\ window' = TRUE /\ silent' = 0
  /\ sightings' = [d \in Daemons |-> 0] /\ newborn' = [d \in Daemons |-> TRUE]
  /\ UNCHANGED <<owner, Kept, moves, probes, losses>>
CloseWindow ==
  /\ window /\ window' = FALSE /\ UNCHANGED <<silent, owner, Kept, judged, limits>>
AgentOutput ==
  /\ window /\ silent > 0 /\ silent' = 0 /\ UNCHANGED <<window, owner, Kept, judged, limits>>
\* the server dies: its windows and its stamp with it
ServerDies ==
  /\ losses < MaxLosses /\ losses' = losses + 1 /\ window' = FALSE /\ owner' = Nobody
  /\ UNCHANGED <<silent, Kept, judged, spawns, moves, probes>>
\* a lane is removed, or its repository moves, or comes back
MoveLane ==
  /\ moves < MaxMoves /\ moves' = moves + 1
  /\ registered' = Set(registered, Home, ~registered[Home])
  /\ UNCHANGED <<server, sweepVars, confirms, judged, verdicts, outage, spawns, probes, losses>>
SweepTick ==
  /\ \A d \in Daemons : sweep[d] = "done"
  /\ sweep' = [d \in Daemons |-> "due"] /\ silent' = Cap(silent, RUNNING_GRACE)
  /\ UNCHANGED <<window, owner, registered, lane, orphan, owns, confirms, judged, verdicts,
                 outage, limits>>
----------------------------------------------------------------------------
(* The sweep *)

Goes(d, from, to) == sweep[d] = from /\ sweep' = Set(sweep, d, to)

ListLanesOf(d) ==
  /\ Goes(d, "due", "list") /\ lane' = Set(lane, d, registered[d])
  /\ UNCHANGED <<server, registered, orphan, owns, confirms, judged, verdicts, outage, limits>>

\* advance_session_loss, note_possible_session_loss
AlertsBug(count) == count >= SESSION_LOSS_CONFIRM
Alerts(count) == count = SESSION_LOSS_CONFIRM
NoteLoss(d) ==
  LET loss == saw_managed_windows[d] /\ lane[d]
      count == Cap(session_loss_confirm[d], SESSION_LOSS_CONFIRM + 1) IN
  /\ session_loss_confirm' =
       IF ~saw_managed_windows[d] THEN session_loss_confirm
       ELSE Set(session_loss_confirm, d, IF loss THEN count ELSE 0)
  /\ outage' = IF loss
               THEN [outage EXCEPT ![d].length = Cap(@, SESSION_LOSS_CONFIRM),
                                   ![d].alerts = IF Alerts(count) THEN Cap(@, 2) ELSE @]
               ELSE Set(outage, d, NoOutage)

\* no windows: the sweep ends, and keeps its suspicions
ListNothing(d) ==
  /\ ~window /\ Goes(d, "list", "done") /\ NoteLoss(d)
  /\ UNCHANGED <<server, registered, lane, orphan, owns, orphan_confirm, saw_managed_windows,
                 judged, verdicts, limits>>

\* orphan_lane_windows; the directory may be misread
ListWindows(d) ==
  /\ window /\ Goes(d, "list", "claim")
  /\ \E misread \in BOOLEAN :
       /\ misread => probes < MaxProbes
       /\ probes' = IF misread THEN probes + 1 ELSE probes
       /\ LET candidate == silent >= RUNNING_GRACE /\ (misread \/ ~lane[d]) IN
          /\ orphan' = Set(orphan, d, candidate)
          /\ sightings' = Set(sightings, d, IF candidate THEN Cap(sightings[d], 2) ELSE 0)
  /\ newborn' = Set(newborn, d, FALSE)
  /\ saw_managed_windows' = Set(saw_managed_windows, d, TRUE)
  /\ session_loss_confirm' = Set(session_loss_confirm, d, 0)
  /\ outage' = Set(outage, d, NoOutage)
  /\ UNCHANGED <<server, registered, lane, owns, orphan_confirm, verdicts, spawns, moves, losses>>

\* the lanes or the windows cannot be listed
SweepFault(d) ==
  /\ sweep[d] \in {"due", "list"} /\ probes < MaxProbes /\ probes' = probes + 1
  /\ sweep' = Set(sweep, d, "done")
  /\ UNCHANGED <<server, registered, lane, orphan, owns, confirms, judged, verdicts, outage,
                 spawns, moves, losses>>

\* claim_or_verify_owner: read; stamp a server that has no stamp, and read again
Owning == <<window, silent, registered, lane, orphan, confirms, judged, verdicts, outage, limits>>
ReadOwner(d) ==
  /\ IF owner = Nobody THEN Goes(d, "claim", "reread") /\ owner' = d /\ UNCHANGED owns
     ELSE /\ Goes(d, "claim", "confirm") /\ owns' = Set(owns, d, owner = d)
          /\ UNCHANGED owner
  /\ UNCHANGED Owning
RereadOwner(d) ==
  /\ Goes(d, "reread", "confirm") /\ owns' = Set(owns, d, owner = d)
  /\ UNCHANGED <<owner, Owning>>

\* confirm_orphans: a count starts anew with a kill, and with a healthy sighting
CountedLost(d) == IF orphan[d] THEN 1 ELSE 0
Counted(d) == IF orphan[d] THEN orphan_confirm[d] + 1 ELSE 0
ToKill(d) == Counted(d) >= ORPHAN_CONFIRM
MayKillBug(d) == ToKill(d)
MayKill(d) == ToKill(d) /\ owns[d]
Confirm(d) ==
  /\ Goes(d, "confirm", IF MayKill(d) THEN "kill" ELSE "done")
  /\ orphan_confirm' = Set(orphan_confirm, d, IF ToKill(d) THEN 0 ELSE Counted(d))
  /\ UNCHANGED <<server, registered, lane, orphan, owns, session_loss_confirm,
                 saw_managed_windows, judged, verdicts, outage, limits>>

\* kill_and_forget, by name
Kill(d) ==
  /\ Goes(d, "kill", "done") /\ window' = FALSE
  /\ unearned' = (unearned \/ (window /\ ~newborn[d] /\ sightings[d] < ORPHAN_CONFIRM))
  /\ stolen' = (stolen \/ (window /\ ~newborn[d] /\ owner # d))
  /\ UNCHANGED <<silent, owner, registered, lane, orphan, owns, confirms, judged, outage, limits>>

SweepStep(d) ==
  \/ ListLanesOf(d) \/ ListNothing(d) \/ ListWindows(d) \/ SweepFault(d)
  \/ ReadOwner(d) \/ RereadOwner(d) \/ Confirm(d) \/ Kill(d)
ReaperNext ==
  \/ SpawnWindow \/ CloseWindow \/ AgentOutput \/ ServerDies \/ MoveLane \/ SweepTick
  \/ \E d \in Daemons : SweepStep(d)

ReaperSpec == ReaperInit /\ [][ReaperNext]_reaperVars
\* the intervals fire, and the sweeps end
ReaperFairSpec ==
  /\ ReaperSpec /\ WF_reaperVars(SweepTick)
  /\ \A d \in Daemons : WF_reaperVars(SweepStep(d))
----------------------------------------------------------------------------
(* Properties *)

\* reap.rs: "so a single bad probe cannot kill a live window", "so another daemon cannot reap
\* this server's windows": a daemon kills a window only if its last two listings of
\* that very window showed it idle and out of place, and never under another daemon's stamp,
\* unless the window took the name after the listing.
KillsJustified == ~unearned /\ ~stolen

\* "Alert once when consecutive sweeps confirm live lanes with no backend windows":
\* one alert for an outage, at its second sweep.
LossAlerted ==
  \A d \in Daemons : outage[d].alerts = (IF outage[d].length < SESSION_LOSS_CONFIRM THEN 0 ELSE 1)

\* A window of a removed lane that stays silent under the stamp of its daemon does not stay.
OrphanReaped ==
  []<>(~window \/ silent < RUNNING_GRACE \/ registered[Home] \/ owner # Home)
=============================================================================
