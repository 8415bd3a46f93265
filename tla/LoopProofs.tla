----------------------------- MODULE LoopProofs -----------------------------
(***************************************************************************)
(* Proofs about the loops that work on what the daemon keeps: the idle     *)
(* session reaper, the scheduler of the standing orders, and the ingest of *)
(* the usage ledger. Each has its own part and its own inductive invariant.*)
(***************************************************************************)
EXTENDS Reaper, Standing, UsageIngest, FiniteSetTheorems, FunctionTheorems, TLAPS

(* Reaper. It kills only what it is sure of, and reports an outage once. A        *)
(* suspicion outlives the window it was raised for, since sweeps without windows *)
(* keep it. It never counts against the next window of the name: that window is  *)
(* listed while it is new, which takes it back.                                *)

\* A window a daemon has not listed is younger than its listings that failed allow.
Grown(d) == IF sweep[d] \in {"due", "list"} THEN silent ELSE silent + 1
Young == \A d \in Daemons : window /\ newborn[d] => Grown(d) <= probes + 1

\* Suspicions are backed by sightings of the window that is there.
Backed ==
  \A d \in Daemons : ~newborn[d] =>
    /\ sweep[d] \in {"done", "due", "list"} => orphan_confirm[d] <= sightings[d]
    /\ sweep[d] \in {"claim", "reread", "confirm"} /\ orphan[d] => orphan_confirm[d] < sightings[d]
    /\ sweep[d] = "kill" => sightings[d] = ORPHAN_CONFIRM

\* The stamp that was read is that of the server whose windows were listed.
Stamped ==
  \A d \in Daemons :
    sweep[d] \in {"confirm", "kill"} /\ owns[d] => owner = d \/ ~window \/ newborn[d]
Armed == \A d \in Daemons : sweep[d] = "kill" => owns[d]

\* The alert is at the count, and the count is that of the outage.
Counting ==
  \A d \in Daemons :
    /\ ~saw_managed_windows[d] => session_loss_confirm[d] = 0
    /\ session_loss_confirm[d] < SESSION_LOSS_CONFIRM =>
         outage[d].length = session_loss_confirm[d] /\ outage[d].alerts = 0
    /\ session_loss_confirm[d] >= SESSION_LOSS_CONFIRM =>
         outage[d].length = SESSION_LOSS_CONFIRM /\ outage[d].alerts = 1

Typed == ReaperTypeOK /\ probes \in 0..MaxProbes
ReaperInv == Typed /\ Young /\ Backed /\ Stamped /\ Armed /\ Counting /\ KillsJustified

LEMMA ReaperInitInv == ReaperInit => ReaperInv
<1> SUFFICES ASSUME ReaperInit PROVE ReaperInv OBVIOUS
<1> USE ReaperAssumption DEF ReaperInit
<1>1. Typed
  <2>1. outage \in [Daemons -> [length : 0..SESSION_LOSS_CONFIRM, alerts : 0..2]]
    BY DEF NoOutage, SESSION_LOSS_CONFIRM
  <2>2. {registered, lane, orphan, owns, saw_managed_windows, newborn} \subseteq [Daemons -> BOOLEAN]
    OBVIOUS
  <2>3. /\ orphan_confirm \in [Daemons -> 0..(ORPHAN_CONFIRM - 1)]
        /\ session_loss_confirm \in [Daemons -> 0..(SESSION_LOSS_CONFIRM + 1)]
        /\ sightings \in [Daemons -> 0..ORPHAN_CONFIRM]
    BY DEF ORPHAN_CONFIRM, SESSION_LOSS_CONFIRM
  <2>4. /\ silent \in 0..RUNNING_GRACE /\ probes \in 0..MaxProbes
        /\ owner \in Daemons \cup {Nobody}
    OBVIOUS
  <2>5. sweep \in [Daemons -> {"due", "list", "claim", "reread", "confirm", "kill", "done"}]
    OBVIOUS
  <2>6. window \in BOOLEAN /\ unearned \in BOOLEAN /\ stolen \in BOOLEAN OBVIOUS
  <2> QED BY <2>1, <2>2, <2>3, <2>4, <2>5, <2>6 DEF Typed, ReaperTypeOK
<1>2. Young /\ Backed /\ Stamped /\ Armed /\ KillsJustified
  BY DEF Young, Backed, Stamped, Armed, KillsJustified
<1>3. Counting
  <2>1. \A d \in Daemons : /\ session_loss_confirm[d] = 0
                            /\ outage[d].length = 0 /\ outage[d].alerts = 0
    BY DEF NoOutage
  <2> HIDE DEF ReaperInit
  <2>2. 0 < SESSION_LOSS_CONFIRM /\ ~(0 >= SESSION_LOSS_CONFIRM) BY DEF SESSION_LOSS_CONFIRM
  <2> QED BY <2>1, <2>2 DEF Counting
<1> QED BY <1>1, <1>2, <1>3 DEF ReaperInv

USE DEF server, judged, verdicts, confirms, sweepVars, limits, Kept, ORPHAN_CONFIRM,
        SESSION_LOSS_CONFIRM

\* The window, the lane and time.
LEMMA SceneKeeps ==
  ASSUME ReaperInv,
         SpawnWindow \/ CloseWindow \/ AgentOutput \/ ServerDies \/ MoveLane
  PROVE  ReaperInv'
<1>0. Typed /\ ReaperTypeOK BY DEF ReaperInv, Typed
<1>1. UNCHANGED <<sweepVars, confirms, verdicts, outage, probes>>
  BY DEF SpawnWindow, CloseWindow, AgentOutput, ServerDies, MoveLane
<1>2. /\ window' \in BOOLEAN /\ silent' \in {0, silent} /\ owner' \in {owner, Nobody}
      /\ silent' = silent \/ silent' = 0
  BY <1>0 DEF ReaperTypeOK, SpawnWindow, CloseWindow, AgentOutput, ServerDies, MoveLane
<1>3. registered' \in [Daemons -> BOOLEAN]
  BY <1>0, ReaperAssumption
  DEF ReaperTypeOK, SpawnWindow, CloseWindow, AgentOutput, ServerDies, MoveLane, Set
<1>4. \/ UNCHANGED <<sightings, newborn>> /\ (window' => window /\ owner' = owner)
      \/ /\ newborn' = [d \in Daemons |-> TRUE] /\ sightings' = [d \in Daemons |-> 0]
         /\ silent' = 0
  BY DEF SpawnWindow, CloseWindow, AgentOutput, ServerDies, MoveLane
<1>5. Typed'
  <2>1. newborn' \in [Daemons -> BOOLEAN] /\ sightings' \in [Daemons -> 0..2]
    <3>1. CASE UNCHANGED <<sightings, newborn>> BY <1>0, <3>1 DEF ReaperTypeOK
    <3>2. CASE newborn' = [d \in Daemons |-> TRUE] /\ sightings' = [d \in Daemons |-> 0]
      BY <3>2
    <3> QED BY <1>4, <3>1, <3>2
  <2>2. silent' \in 0..RUNNING_GRACE BY <1>0, <1>2, ReaperAssumption DEF ReaperTypeOK
  <2> QED BY <1>0, <1>1, <1>2, <1>3, <2>1, <2>2 DEF Typed, ReaperTypeOK
<1>6. Young'
  <2>1. \A d \in Daemons : Grown(d)' \in Nat /\ (silent' = 0 => Grown(d)' <= 1)
                           /\ (silent' = silent => Grown(d)' = Grown(d))
    <3>1. silent \in Nat /\ silent' \in Nat /\ sweep' = sweep
      BY <1>0, <1>1, <1>2, ReaperAssumption DEF ReaperTypeOK
    <3>2. ASSUME NEW d \in Daemons
          PROVE  Grown(d)' = IF sweep[d] \in {"due", "list"} THEN silent' ELSE silent' + 1
      BY <3>1 DEF Grown
    <3>3. ASSUME NEW d \in Daemons, silent' = silent PROVE Grown(d)' = Grown(d)
      BY <3>2, <3>3 DEF Grown
    <3> QED BY <3>1, <3>2, <3>3
  <2>2. probes \in Nat /\ probes' = probes BY <1>0, <1>1, ReaperAssumption DEF Typed
  <2> QED BY <1>2, <1>4, <2>1, <2>2 DEF ReaperInv, Young
<1>7. Backed' BY <1>1, <1>4 DEF ReaperInv, Backed
<1>8. Stamped' /\ Armed' BY <1>1, <1>4 DEF ReaperInv, Stamped, Armed
<1>9. Counting' /\ KillsJustified' BY <1>1 DEF ReaperInv, Counting, KillsJustified
<1> QED BY <1>5, <1>6, <1>7, <1>8, <1>9 DEF ReaperInv

LEMMA TickKeeps == ASSUME ReaperInv, SweepTick PROVE ReaperInv'
<1>0. Typed /\ ReaperTypeOK BY DEF ReaperInv, Typed
<1>1. /\ \A d \in Daemons : sweep[d] = "done" /\ sweep'[d] = "due"
      /\ sweep' = [d \in Daemons |-> "due"]
      /\ UNCHANGED <<window, owner, registered, lane, orphan, owns, confirms, judged, verdicts,
                     outage, limits>>
  BY DEF SweepTick
<1>2. silent' \in 0..RUNNING_GRACE /\ silent' <= silent + 1 /\ silent \in Nat
  BY <1>0, ReaperAssumption DEF ReaperTypeOK, SweepTick, Cap
<1>3. Typed' BY <1>0, <1>1, <1>2 DEF Typed, ReaperTypeOK
<1>4. Young'
  <2>1. \A d \in Daemons : Grown(d) = silent + 1 /\ Grown(d)' = silent'
    <3>1. silent' \in Nat BY <1>2, ReaperAssumption
    <3> QED BY <1>1, <1>2, <3>1 DEF Grown
  <2> QED BY <1>0, <1>1, <1>2, <2>1, ReaperAssumption DEF ReaperInv, Young, Typed
<1>5. Backed' BY <1>1 DEF ReaperInv, Backed
<1>6. Stamped' /\ Armed' BY <1>1 DEF ReaperInv, Stamped, Armed
<1>7. Counting' /\ KillsJustified' BY <1>1 DEF ReaperInv, Counting, KillsJustified
<1> QED BY <1>3, <1>4, <1>5, <1>6, <1>7 DEF ReaperInv

LEMMA ListLanesKeeps == ASSUME ReaperInv, NEW d \in Daemons, ListLanesOf(d) PROVE ReaperInv'
<1>0. Typed /\ ReaperTypeOK BY DEF ReaperInv, Typed
<1>1. /\ sweep[d] = "due" /\ sweep' = [sweep EXCEPT ![d] = "list"]
      /\ lane' = [lane EXCEPT ![d] = registered[d]]
      /\ UNCHANGED <<server, registered, orphan, owns, confirms, judged, verdicts, outage, limits>>
  BY DEF ListLanesOf, Goes, Set
<1>2. Typed' BY <1>0, <1>1 DEF Typed, ReaperTypeOK
<1>3. \A e \in Daemons : sweep'[e] = IF e = d THEN "list" ELSE sweep[e]
  BY <1>0, <1>1 DEF ReaperTypeOK
<1>4. Young'
  <2>1. \A e \in Daemons : Grown(e)' = Grown(e) BY <1>1, <1>3 DEF Grown
  <2> QED BY <1>1, <2>1 DEF ReaperInv, Young
<1>5. Backed' BY <1>1, <1>3 DEF ReaperInv, Backed
<1>6. Stamped' /\ Armed' BY <1>1, <1>3 DEF ReaperInv, Stamped, Armed
<1>7. Counting' /\ KillsJustified' BY <1>1 DEF ReaperInv, Counting, KillsJustified
<1> QED BY <1>2, <1>4, <1>5, <1>6, <1>7 DEF ReaperInv

\* Without windows the outage is counted, and the suspicions are kept.
LEMMA ListNothingKeeps == ASSUME ReaperInv, NEW d \in Daemons, ListNothing(d) PROVE ReaperInv'
<1>0. Typed /\ ReaperTypeOK BY DEF ReaperInv, Typed
<1>1. /\ ~window /\ sweep[d] = "list" /\ sweep' = [sweep EXCEPT ![d] = "done"]
      /\ UNCHANGED <<server, registered, lane, orphan, owns, orphan_confirm, saw_managed_windows,
                     judged, verdicts, limits>>
  BY DEF ListNothing, Goes, Set
<1>2. \A e \in Daemons : sweep'[e] = IF e = d THEN "done" ELSE sweep[e]
  BY <1>0, <1>1 DEF ReaperTypeOK
<1> DEFINE loss == saw_managed_windows[d] /\ lane[d]
           count == Cap(session_loss_confirm[d], SESSION_LOSS_CONFIRM + 1)
<1>3. /\ session_loss_confirm' =
           IF ~saw_managed_windows[d] THEN session_loss_confirm
           ELSE Set(session_loss_confirm, d, IF loss THEN count ELSE 0)
      /\ outage' = IF loss
                   THEN [outage EXCEPT ![d].length = Cap(@, SESSION_LOSS_CONFIRM),
                                       ![d].alerts = IF Alerts(count) THEN Cap(@, 2) ELSE @]
                   ELSE Set(outage, d, NoOutage)
  BY DEF ListNothing, NoteLoss
<1>4. /\ session_loss_confirm \in [Daemons -> 0..3] /\ session_loss_confirm[d] \in 0..3
      /\ outage \in [Daemons -> [length : 0..2, alerts : 0..2]]
      /\ outage[d].length \in 0..2 /\ outage[d].alerts \in 0..2
  BY <1>0 DEF ReaperTypeOK
<1>5. /\ session_loss_confirm' \in [Daemons -> 0..3]
      /\ outage' \in [Daemons -> [length : 0..2, alerts : 0..2]]
      /\ Counting'
  <2>0. Counting BY DEF ReaperInv
  <2>1. CASE loss
    <3>1. session_loss_confirm' = [session_loss_confirm EXCEPT ![d] = count]
      BY <1>3, <2>1 DEF Set
    <3>2. count \in 0..3 /\ (IF session_loss_confirm[d] < 3 THEN count = session_loss_confirm[d] + 1
                                                           ELSE count = session_loss_confirm[d])
      BY <1>4 DEF Cap
    <3> DEFINE length == IF outage[d].length < 2 THEN outage[d].length + 1 ELSE outage[d].length
               alerts == IF count = 2 THEN (IF outage[d].alerts < 2 THEN outage[d].alerts + 1
                                            ELSE outage[d].alerts)
                         ELSE outage[d].alerts
    <3>3. outage' = [outage EXCEPT ![d].length = length, ![d].alerts = alerts]
      BY <1>3, <2>1 DEF Alerts, Cap
    <3>4. /\ outage'[d].length = length /\ outage'[d].alerts = alerts
          /\ outage' \in [Daemons -> [length : 0..2, alerts : 0..2]]
          /\ \A e \in Daemons : e # d => outage'[e] = outage[e]
      <4>1. length \in 0..2 /\ alerts \in 0..2 BY <1>4
      <4> HIDE DEF length, alerts
      <4> QED BY <1>4, <3>3, <4>1
    <3>5. saw_managed_windows[d] BY <2>1
    <3>6. \A e \in Daemons : session_loss_confirm'[e] = IF e = d THEN count
                                                        ELSE session_loss_confirm[e]
      BY <1>4, <3>1
    <3>7. session_loss_confirm' \in [Daemons -> 0..3] BY <1>4, <3>1, <3>2
    <3>8. Counting'
      <4>1. /\ count < 2 => outage'[d].length = count /\ outage'[d].alerts = 0
            /\ count >= 2 => outage'[d].length = 2 /\ outage'[d].alerts = 1
        BY <1>4, <2>0, <3>2, <3>4 DEF Counting
      <4> QED BY <1>1, <2>0, <3>4, <3>5, <3>6, <4>1 DEF Counting
    <3> QED BY <3>4, <3>7, <3>8
  <2>2. CASE ~loss
    <3>1. outage' = [outage EXCEPT ![d] = NoOutage] BY <1>3, <2>2 DEF Set
    <3>2. outage' \in [Daemons -> [length : 0..2, alerts : 0..2]] BY <1>4, <3>1 DEF NoOutage
    <3>3. /\ outage'[d].length = 0 /\ outage'[d].alerts = 0
          /\ \A e \in Daemons : e # d => outage'[e] = outage[e]
      BY <1>4, <3>1 DEF NoOutage
    <3>4. session_loss_confirm' = [session_loss_confirm EXCEPT ![d] = 0]
      <4>1. CASE saw_managed_windows[d] BY <1>3, <2>2, <4>1 DEF Set
      <4>2. CASE ~saw_managed_windows[d]
        <5>1. session_loss_confirm[d] = 0 /\ session_loss_confirm' = session_loss_confirm
          BY <1>3, <2>0, <4>2 DEF Counting
        <5> QED BY <1>4, <5>1
      <4> QED BY <4>1, <4>2
    <3>5. session_loss_confirm' \in [Daemons -> 0..3] BY <1>4, <3>4
    <3>6. \A e \in Daemons : session_loss_confirm'[e] = IF e = d THEN 0 ELSE session_loss_confirm[e]
      BY <1>4, <3>4
    <3>7. 0 < 2 /\ ~(0 >= 2) OBVIOUS
    <3> QED BY <1>1, <2>0, <3>2, <3>3, <3>5, <3>6, <3>7 DEF Counting
  <2> QED BY <2>1, <2>2
<1>6. Typed'
  <2>1. sweep' \in [Daemons -> {"due", "list", "claim", "reread", "confirm", "kill", "done"}]
    BY <1>0, <1>1 DEF ReaperTypeOK
  <2> QED BY <1>0, <1>1, <1>5, <2>1 DEF Typed, ReaperTypeOK
<1>7. Young' BY <1>1 DEF Young
<1>8. Backed' BY <1>1, <1>2 DEF ReaperInv, Backed
<1>9. Stamped' /\ Armed' BY <1>1, <1>2 DEF ReaperInv, Stamped, Armed
<1>10. KillsJustified' BY <1>1 DEF ReaperInv, KillsJustified
<1> QED BY <1>5, <1>6, <1>7, <1>8, <1>9, <1>10 DEF ReaperInv

\* A window listed for the first time is new: it takes the suspicion back. A window
\* listed again is suspected once more, if at all.
LEMMA ListWindowsKeeps == ASSUME ReaperInv, NEW d \in Daemons, ListWindows(d) PROVE ReaperInv'
<1>0. Typed /\ ReaperTypeOK BY DEF ReaperInv, Typed
<1>1. PICK misread \in BOOLEAN :
        /\ misread => probes < MaxProbes
        /\ probes' = IF misread THEN probes + 1 ELSE probes
        /\ LET candidate == silent >= RUNNING_GRACE /\ (misread \/ ~lane[d]) IN
           /\ orphan' = [orphan EXCEPT ![d] = candidate]
           /\ sightings' = [sightings EXCEPT ![d] = IF candidate THEN Cap(sightings[d], 2) ELSE 0]
  BY DEF ListWindows, Set
<1>2. /\ window /\ sweep[d] = "list" /\ sweep' = [sweep EXCEPT ![d] = "claim"]
      /\ newborn' = [newborn EXCEPT ![d] = FALSE]
      /\ saw_managed_windows' = [saw_managed_windows EXCEPT ![d] = TRUE]
      /\ session_loss_confirm' = [session_loss_confirm EXCEPT ![d] = 0]
      /\ outage' = [outage EXCEPT ![d] = NoOutage]
      /\ UNCHANGED <<window, silent, owner, registered, lane, owns, orphan_confirm, verdicts>>
  BY DEF ListWindows, Goes, Set
<1> DEFINE candidate == silent >= RUNNING_GRACE /\ (misread \/ ~lane[d])
<1>3. /\ sightings[d] \in 0..2 /\ orphan_confirm[d] \in 0..1 /\ silent \in Nat
      /\ candidate \in BOOLEAN /\ probes \in Nat /\ MaxProbes \in Nat /\ RUNNING_GRACE \in Nat
  BY <1>0, ReaperAssumption DEF Typed, ReaperTypeOK
<1>4. /\ Cap(sightings[d], 2) \in 0..2
      /\ orphan_confirm[d] <= sightings[d] => orphan_confirm[d] < Cap(sightings[d], 2)
  BY <1>3 DEF Cap
<1>5. newborn[d] => ~candidate
  <2>1. newborn[d] => silent <= probes + 1 BY <1>2 DEF ReaperInv, Young, Grown
  <2>2. probes <= MaxProbes /\ MaxProbes + 1 < RUNNING_GRACE
    BY <1>0, ReaperAssumption DEF Typed
  <2> QED BY <1>3, <2>1, <2>2
<1>6. \A e \in Daemons :
        /\ sweep'[e] = (IF e = d THEN "claim" ELSE sweep[e])
        /\ newborn'[e] = (IF e = d THEN FALSE ELSE newborn[e])
        /\ orphan'[e] = (IF e = d THEN candidate ELSE orphan[e])
        /\ e # d => sightings'[e] = sightings[e]
  BY <1>0, <1>1, <1>2 DEF ReaperTypeOK
<1>7. candidate => sightings'[d] = Cap(sightings[d], 2)
  BY <1>0, <1>1 DEF ReaperTypeOK
<1>8. probes' \in 0..MaxProbes /\ probes <= probes'
  BY <1>0, <1>1, <1>3 DEF Typed
<1>9. Typed'
  <2>1. sweep' \in [Daemons -> {"due", "list", "claim", "reread", "confirm", "kill", "done"}]
    BY <1>0, <1>2 DEF ReaperTypeOK
  <2>2. newborn' \in [Daemons -> BOOLEAN] /\ saw_managed_windows' \in [Daemons -> BOOLEAN]
    BY <1>0, <1>2 DEF ReaperTypeOK
  <2>3. orphan' \in [Daemons -> BOOLEAN] BY <1>0, <1>1, <1>3 DEF ReaperTypeOK
  <2>4. sightings' \in [Daemons -> 0..2] BY <1>0, <1>1, <1>4 DEF ReaperTypeOK
  <2>5. session_loss_confirm' \in [Daemons -> 0..3] BY <1>0, <1>2 DEF ReaperTypeOK
  <2>6. outage' \in [Daemons -> [length : 0..2, alerts : 0..2]]
    BY <1>0, <1>2 DEF ReaperTypeOK, NoOutage
  <2> QED BY <1>0, <1>2, <1>8, <2>1, <2>2, <2>3, <2>4, <2>5, <2>6 DEF Typed, ReaperTypeOK
<1>10. Young'
  <2>1. ASSUME NEW e \in Daemons, window', newborn'[e] PROVE Grown(e)' <= probes' + 1
    <3>1. e # d /\ newborn[e] BY <1>6, <2>1
    <3>2. Grown(e)' = Grown(e) BY <1>2, <1>6, <3>1 DEF Grown
    <3>3. Grown(e) <= probes + 1 BY <1>2, <3>1 DEF ReaperInv, Young
    <3>4. Grown(e) \in Nat BY <1>3 DEF Grown
    <3> QED BY <1>3, <1>8, <3>2, <3>3, <3>4
  <2> QED BY <2>1 DEF Young
<1>11. Backed'
  <2>0. Backed BY DEF ReaperInv
  <2>1. candidate => orphan_confirm[d] < sightings'[d]
    BY <1>2, <1>4, <1>5, <1>7, <2>0 DEF Backed
  <2>2. ASSUME NEW e \in Daemons, e # d, ~newborn'[e]
        PROVE  /\ sweep'[e] \in {"done", "due", "list"} => orphan_confirm'[e] <= sightings'[e]
               /\ sweep'[e] \in {"claim", "reread", "confirm"} /\ orphan'[e] =>
                    orphan_confirm'[e] < sightings'[e]
               /\ sweep'[e] = "kill" => sightings'[e] = ORPHAN_CONFIRM
    <3>1. /\ orphan_confirm' = orphan_confirm /\ sweep'[e] = sweep[e] /\ newborn'[e] = newborn[e]
          /\ orphan'[e] = orphan[e] /\ sightings'[e] = sightings[e]
      BY <1>2, <1>6, <2>2
    <3> QED BY <2>0, <2>2, <3>1 DEF Backed
  <2>3. sweep'[d] = "claim" /\ orphan'[d] = candidate /\ orphan_confirm' = orphan_confirm
    BY <1>2, <1>6
  <2> HIDE DEF candidate
  <2> QED BY <2>1, <2>2, <2>3 DEF Backed
<1>12. Stamped' /\ Armed' BY <1>2, <1>6 DEF ReaperInv, Stamped, Armed
<1>13. Counting'
  <2>0. Counting BY DEF ReaperInv
  <2>1. /\ outage'[d].length = 0 /\ outage'[d].alerts = 0 /\ session_loss_confirm'[d] = 0
        /\ saw_managed_windows'[d]
    BY <1>0, <1>2 DEF ReaperTypeOK, NoOutage
  <2>2. \A e \in Daemons : e # d => /\ outage'[e] = outage[e]
                                    /\ session_loss_confirm'[e] = session_loss_confirm[e]
                                    /\ saw_managed_windows'[e] = saw_managed_windows[e]
    BY <1>0, <1>2 DEF ReaperTypeOK
  <2>3. 0 < 2 /\ ~(0 >= 2) OBVIOUS
  <2> QED BY <2>0, <2>1, <2>2, <2>3 DEF Counting
<1>14. KillsJustified' BY <1>2 DEF ReaperInv, KillsJustified
<1> QED BY <1>9, <1>10, <1>11, <1>12, <1>13, <1>14 DEF ReaperInv

LEMMA FaultKeeps == ASSUME ReaperInv, NEW d \in Daemons, SweepFault(d) PROVE ReaperInv'
<1>0. Typed /\ ReaperTypeOK BY DEF ReaperInv, Typed
<1>1. /\ sweep[d] \in {"due", "list"} /\ probes < MaxProbes /\ probes' = probes + 1
      /\ sweep' = [sweep EXCEPT ![d] = "done"]
      /\ UNCHANGED <<server, registered, lane, orphan, owns, confirms, judged, verdicts, outage>>
  BY DEF SweepFault, Set
<1>2. \A e \in Daemons : sweep'[e] = IF e = d THEN "done" ELSE sweep[e]
  BY <1>0, <1>1 DEF ReaperTypeOK
<1>3. probes \in Nat /\ silent \in Nat BY <1>0, ReaperAssumption DEF Typed, ReaperTypeOK
<1>4. Typed'
  <2>1. probes' \in 0..MaxProbes BY <1>1, <1>3, ReaperAssumption
  <2> QED BY <1>0, <1>1, <2>1 DEF Typed, ReaperTypeOK
<1>5. Young'
  <2>1. ASSUME NEW e \in Daemons, window, newborn[e] PROVE Grown(e)' <= probes' + 1
    <3>1. Grown(e) <= probes + 1 BY <2>1 DEF ReaperInv, Young
    <3>2. Grown(e)' <= Grown(e) + 1 /\ Grown(e) \in Nat /\ Grown(e)' \in Nat
      BY <1>1, <1>2, <1>3 DEF Grown
    <3> QED BY <1>1, <1>3, <3>1, <3>2
  <2> QED BY <1>1, <2>1 DEF Young
<1>6. Backed' BY <1>1, <1>2 DEF ReaperInv, Backed
<1>7. Stamped' /\ Armed' BY <1>1, <1>2 DEF ReaperInv, Stamped, Armed
<1>8. Counting' /\ KillsJustified' BY <1>1 DEF ReaperInv, Counting, KillsJustified
<1> QED BY <1>4, <1>5, <1>6, <1>7, <1>8 DEF ReaperInv

\* Whoever reads the stamp as its own reads it after its listing; a stamp only goes with
\* the server.
LEMMA OwnerKeeps ==
  ASSUME ReaperInv, NEW d \in Daemons, ReadOwner(d) \/ RereadOwner(d) PROVE ReaperInv'
<1>0. Typed /\ ReaperTypeOK BY DEF ReaperInv, Typed
<1>1. /\ sweep[d] \in {"claim", "reread"}
      /\ UNCHANGED <<window, silent, registered, lane, orphan, confirms, judged, verdicts, outage,
                     limits>>
      /\ \/ /\ owner = Nobody /\ owner' = d /\ owns' = owns
            /\ sweep' = [sweep EXCEPT ![d] = "reread"]
         \/ /\ owner' = owner /\ owns' = [owns EXCEPT ![d] = owner = d]
            /\ sweep' = [sweep EXCEPT ![d] = "confirm"]
  BY DEF ReadOwner, RereadOwner, Goes, Set, Owning
<1>2. \A e \in Daemons : /\ e # d => sweep'[e] = sweep[e] /\ owns'[e] = owns[e]
                         /\ owner' = owner \/ (owner = Nobody /\ owner # e)
  BY <1>0, <1>1, ReaperAssumption DEF ReaperTypeOK
<1>3. \/ sweep'[d] = "reread"
      \/ sweep'[d] = "confirm" /\ owner' = owner /\ (owns'[d] <=> owner = d)
  BY <1>0, <1>1 DEF ReaperTypeOK
<1>4. Typed'
  <2>1. owner' \in Daemons \cup {Nobody} BY <1>0, <1>1 DEF ReaperTypeOK
  <2>2. owns' \in [Daemons -> BOOLEAN] BY <1>0, <1>1 DEF ReaperTypeOK
  <2>3. sweep' \in [Daemons -> {"due", "list", "claim", "reread", "confirm", "kill", "done"}]
    BY <1>0, <1>1 DEF ReaperTypeOK
  <2> QED BY <1>0, <1>1, <2>1, <2>2, <2>3 DEF Typed, ReaperTypeOK
<1>5. Young'
  <2>1. \A e \in Daemons : Grown(e)' = Grown(e) BY <1>1, <1>2, <1>3 DEF Grown
  <2> QED BY <1>1, <2>1 DEF ReaperInv, Young
<1>6. Backed' BY <1>1, <1>2, <1>3 DEF ReaperInv, Backed
<1>7. Stamped'
  <2>1. ASSUME NEW e \in Daemons, sweep'[e] \in {"confirm", "kill"}, owns'[e]
        PROVE  owner' = e \/ ~window' \/ newborn'[e]
    <3>1. CASE e = d BY <1>3, <2>1, <3>1
    <3>2. CASE e # d BY <1>1, <1>2, <2>1, <3>2 DEF ReaperInv, Stamped
    <3> QED BY <3>1, <3>2
  <2> QED BY <2>1 DEF Stamped
<1>8. Armed' BY <1>2, <1>3 DEF ReaperInv, Armed
<1>9. Counting' /\ KillsJustified' BY <1>1 DEF ReaperInv, Counting, KillsJustified
<1> QED BY <1>4, <1>5, <1>6, <1>7, <1>8, <1>9 DEF ReaperInv

\* The second suspicion of the window that is there kills it; every decision starts the
\* count anew.
LEMMA ConfirmKeeps == ASSUME ReaperInv, NEW d \in Daemons, Confirm(d) PROVE ReaperInv'
<1>0. Typed /\ ReaperTypeOK BY DEF ReaperInv, Typed
<1>1. /\ sweep[d] = "confirm" /\ sweep' = [sweep EXCEPT ![d] = IF MayKill(d) THEN "kill" ELSE "done"]
      /\ orphan_confirm' = [orphan_confirm EXCEPT ![d] = IF ToKill(d) THEN 0 ELSE Counted(d)]
      /\ UNCHANGED <<server, registered, lane, orphan, owns, session_loss_confirm,
                     saw_managed_windows, judged, verdicts, outage, limits>>
  BY DEF Confirm, Goes, Set
<1>2. orphan_confirm[d] \in 0..1 /\ sightings[d] \in 0..2 /\ orphan[d] \in BOOLEAN
  BY <1>0 DEF ReaperTypeOK
<1>3. /\ orphan_confirm'[d] \in 0..1
      /\ orphan[d] => orphan_confirm'[d] <= orphan_confirm[d] + 1
      /\ ~orphan[d] => orphan_confirm'[d] = 0
      /\ sweep'[d] = "kill" => orphan[d] /\ owns[d] /\ orphan_confirm[d] = 1
      /\ sweep'[d] \in {"kill", "done"}
  <2>1. Counted(d) \in 0..2 /\ (ToKill(d) <=> orphan[d] /\ orphan_confirm[d] = 1)
        /\ (Counted(d) = IF orphan[d] THEN orphan_confirm[d] + 1 ELSE 0)
    BY <1>2 DEF Counted, ToKill
  <2>2. MayKill(d) => ToKill(d) /\ owns[d] BY DEF MayKill
  <2>3. /\ orphan_confirm'[d] = IF ToKill(d) THEN 0 ELSE Counted(d)
        /\ sweep'[d] = IF MayKill(d) THEN "kill" ELSE "done"
    BY <1>0, <1>1 DEF ReaperTypeOK
  <2> QED BY <1>2, <2>1, <2>2, <2>3
<1>4. \A e \in Daemons : e # d => sweep'[e] = sweep[e] /\ orphan_confirm'[e] = orphan_confirm[e]
  BY <1>0, <1>1 DEF ReaperTypeOK
<1>5. Typed'
  <2>1. sweep' \in [Daemons -> {"due", "list", "claim", "reread", "confirm", "kill", "done"}]
    BY <1>0, <1>1 DEF ReaperTypeOK
  <2>2. orphan_confirm' \in [Daemons -> 0..1] BY <1>0, <1>1, <1>3 DEF ReaperTypeOK
  <2> QED BY <1>0, <1>1, <2>1, <2>2 DEF Typed, ReaperTypeOK
<1>6. Young'
  <2>1. \A e \in Daemons : Grown(e)' = Grown(e) BY <1>1, <1>3, <1>4 DEF Grown
  <2> QED BY <1>1, <2>1 DEF ReaperInv, Young
<1>7. Backed'
  <2>0. Backed BY DEF ReaperInv
  <2>1. ~newborn[d] => /\ sweep'[d] = "done" => orphan_confirm'[d] <= sightings[d]
                       /\ sweep'[d] = "kill" => sightings[d] = 2
    BY <1>1, <1>2, <1>3, <2>0 DEF Backed
  <2> QED BY <1>1, <1>3, <1>4, <2>0, <2>1 DEF Backed
<1>8. Stamped' /\ Armed' BY <1>1, <1>3, <1>4 DEF ReaperInv, Stamped, Armed
<1>9. Counting' /\ KillsJustified' BY <1>1 DEF ReaperInv, Counting, KillsJustified
<1> QED BY <1>5, <1>6, <1>7, <1>8, <1>9 DEF ReaperInv

LEMMA KillKeeps == ASSUME ReaperInv, NEW d \in Daemons, Kill(d) PROVE ReaperInv'
<1>0. Typed /\ ReaperTypeOK BY DEF ReaperInv, Typed
<1>1. /\ sweep[d] = "kill" /\ sweep' = [sweep EXCEPT ![d] = "done"] /\ window' = FALSE
      /\ unearned' = (unearned \/ (window /\ ~newborn[d] /\ sightings[d] < ORPHAN_CONFIRM))
      /\ stolen' = (stolen \/ (window /\ ~newborn[d] /\ owner # d))
      /\ UNCHANGED <<silent, owner, registered, lane, orphan, owns, confirms, judged, outage, limits>>
  BY DEF Kill, Goes, Set
<1>2. \A e \in Daemons : sweep'[e] = IF e = d THEN "done" ELSE sweep[e]
  BY <1>0, <1>1 DEF ReaperTypeOK
<1>3. ~newborn[d] => sightings[d] = 2 BY <1>1 DEF ReaperInv, Backed
<1>4. window /\ ~newborn[d] => owner = d BY <1>1 DEF ReaperInv, Stamped, Armed
<1>5. ~unearned' /\ ~stolen'
  <2>1. ~newborn[d] => ~(sightings[d] < 2) BY <1>3
  <2> QED BY <1>1, <1>4, <2>1 DEF ReaperInv, KillsJustified
<1>6. Typed'
  <2>1. sweep' \in [Daemons -> {"due", "list", "claim", "reread", "confirm", "kill", "done"}]
    BY <1>0, <1>1 DEF ReaperTypeOK
  <2>2. unearned' \in BOOLEAN /\ stolen' \in BOOLEAN BY <1>1
  <2>3. window' \in BOOLEAN BY <1>1
  <2> QED BY <1>0, <1>1, <2>1, <2>2, <2>3 DEF Typed, ReaperTypeOK
<1>7. Young' BY <1>1 DEF Young
<1>8. Backed'
  <2>1. 0 <= 2 /\ orphan_confirm[d] <= 2
    BY <1>0 DEF ReaperTypeOK
  <2> QED BY <1>1, <1>2, <1>3, <2>1 DEF ReaperInv, Backed
<1>9. Stamped' /\ Armed' BY <1>1, <1>2 DEF ReaperInv, Stamped, Armed
<1>10. Counting' BY <1>1 DEF ReaperInv, Counting
<1> QED BY <1>5, <1>6, <1>7, <1>8, <1>9, <1>10 DEF ReaperInv, KillsJustified

LEMMA ReaperInvariance == ReaperSpec => []ReaperInv
<1>1. ReaperInv /\ [ReaperNext]_reaperVars => ReaperInv'
  <2>1. ASSUME ReaperInv, UNCHANGED reaperVars PROVE ReaperInv'
    <3>1. UNCHANGED <<server, registered, sweepVars, confirms, judged, verdicts, outage, limits>>
      BY <2>1 DEF reaperVars
    <3>2. Typed' BY <2>1, <3>1 DEF ReaperInv, Typed, ReaperTypeOK
    <3>3. Young' BY <2>1, <3>1 DEF ReaperInv, Young, Grown
    <3> QED BY <2>1, <3>1, <3>2, <3>3
        DEF ReaperInv, Backed, Stamped, Armed, Counting, KillsJustified
  <2> QED BY <2>1, SceneKeeps, TickKeeps, ListLanesKeeps, ListNothingKeeps, ListWindowsKeeps,
             FaultKeeps, OwnerKeeps, ConfirmKeeps, KillKeeps DEF ReaperNext, SweepStep
<1> QED BY <1>1, ReaperInitInv, PTL DEF ReaperSpec

\* Server, sweeps and counts keep their types.
THEOREM ReaperTypeCorrect == ReaperSpec => []ReaperTypeOK
BY ReaperInvariance, PTL DEF ReaperInv, Typed

\* A daemon kills a window only after two sightings in a row of that very window, and
\* under its own stamp: for any daemons, grace, interleaving of their sweeps, windows of
\* one name, server deaths and misread directories.
THEOREM KillsAreJustified == ReaperSpec => []KillsJustified
BY ReaperInvariance, PTL DEF ReaperInv

\* An outage is reported once, at its second sweep, by every daemon that has seen windows.
THEOREM OutageAlertedOnce == ReaperSpec => []LossAlerted
<1>1. ReaperInv => LossAlerted
  <2>1. SUFFICES ASSUME ReaperInv, NEW d \in Daemons
                 PROVE  outage[d].alerts = (IF outage[d].length < 2 THEN 0 ELSE 1)
    BY DEF LossAlerted
  <2>2. session_loss_confirm[d] \in 0..3 BY <2>1 DEF ReaperInv, Typed, ReaperTypeOK
  <2>3. /\ session_loss_confirm[d] < 2 => outage[d].length = session_loss_confirm[d]
                                          /\ outage[d].alerts = 0
        /\ session_loss_confirm[d] >= 2 => outage[d].length = 2 /\ outage[d].alerts = 1
    BY <2>1 DEF ReaperInv, Counting
  <2> QED BY <2>2, <2>3
<1> QED BY <1>1, ReaperInvariance, PTL
----------------------------------------------------------------------------
(* Standing. A schedule runs at most once for each instant it promised. What      *)
(* makes it hold is that the stamp comes before the run and is the time of the    *)
(* tick, that a tick holds each row once, and that the next firing after a stamp  *)
(* is an instant that was not counted up to it.                                *)

\* A quotient and a rest determine each other.
LEMMA Divided ==
  ASSUME NEW n \in Nat \ {0}, NEW t \in Nat
  PROVE  /\ t \div n \in Nat /\ t % n \in 0..(n - 1)
         /\ t = (t \div n) * n + (t % n)
OBVIOUS

LEMMA Products ==
  ASSUME NEW n \in Nat, NEW a \in Nat, NEW b \in Nat, a < b
  PROVE  a * n + n <= b * n
<1>1. PICK c \in Nat : b = a + 1 + c
  <2>1. b - a - 1 \in Nat /\ b = a + 1 + (b - a - 1)
    OBVIOUS
  <2>2. QED BY <2>1
<1>2. b * n = a * n + n + c * n
  BY <1>1
<1>3. c * n >= 0
  BY <1>1
<1>4. QED BY <1>2, <1>3

LEMMA Quotients ==
  ASSUME NEW n \in Nat \ {0}, NEW q \in Nat, NEW r \in 0..(n - 1)
  PROVE  (q * n + r) \div n = q /\ (q * n + r) % n = r
<1> DEFINE t == q * n + r
           p == t \div n
<1>1. t \in Nat
  OBVIOUS
<1>2. p \in Nat /\ t % n \in 0..(n - 1) /\ t = p * n + (t % n)
  BY <1>1, Divided
<1>3. ~(p < q)
  <2>1. p < q => p * n + n <= q * n
    BY <1>2, Products
  <2>2. QED BY <1>2, <2>1
<1>4. ~(q < p)
  <2>1. q < p => q * n + n <= p * n
    BY <1>2, Products
  <2>2. QED BY <1>2, <2>1
<1>5. p = q
  BY <1>2, <1>3, <1>4
<1>6. QED BY <1>2, <1>5

\* One period more is one quotient more.
LEMMA PeriodsGrow ==
  ASSUME NEW n \in Nat \ {0}, NEW a \in Nat, NEW b \in Nat
  PROVE  /\ a <= b => a \div n <= b \div n
         /\ a + n <= b => a \div n + 1 <= b \div n
<1>1. /\ a \div n \in Nat /\ a % n \in 0..(n - 1) /\ a = (a \div n) * n + (a % n)
      /\ b \div n \in Nat /\ b % n \in 0..(n - 1) /\ b = (b \div n) * n + (b % n)
  BY Divided
<1> DEFINE p == a \div n
           q == b \div n
           pn == p * n
           qn == q * n
<1>2. pn \in Nat /\ qn \in Nat
  BY <1>1
<1>3. q < p => qn + n <= pn
  BY <1>1, Products
<1>4. q = p => qn = pn
  OBVIOUS
<1>5. p \in Nat /\ q \in Nat /\ a = pn + (a % n) /\ b = qn + (b % n)
  BY <1>1
<1> HIDE DEF p, q, pn, qn
<1>6. a <= b => p <= q
  BY <1>1, <1>2, <1>3, <1>5
<1>7. a + n <= b => p + 1 <= q
  BY <1>1, <1>2, <1>3, <1>4, <1>5
<1>8. QED BY <1>6, <1>7 DEF p, q

----------------------------------------------------------------------------
(* schedule.rs *)

\* A week has days of every kind, and one of them comes first.
LEMMA NextDay ==
  ASSUME NEW f \in Nat, NEW kind \in SpecKinds
  PROVE  \E d \in f..(f + 13) : /\ DayOk(kind, d)
                                /\ \A e \in f..(f + 13) : DayOk(kind, e) => d <= e
<1>1. CASE kind \notin {"weekdays", "weekends"}
  BY <1>1 DEF DayOk
<1>2. CASE kind = "weekdays"
  <2>1. CASE f % 7 \notin {5, 6}
    BY <1>2, <2>1 DEF DayOk
  <2>2. CASE f % 7 = 5
    <3>1. (f + 2) % 7 = 0 /\ (f + 1) % 7 = 6
      BY <2>2
    <3>2. \A e \in f..(f + 13) : e % 7 \notin {5, 6} => f + 2 <= e
      BY <2>2, <3>1
    <3>3. QED BY <1>2, <3>1, <3>2 DEF DayOk
  <2>3. CASE f % 7 = 6
    <3>1. (f + 1) % 7 = 0
      BY <2>3
    <3>2. \A e \in f..(f + 13) : e % 7 \notin {5, 6} => f + 1 <= e
      BY <2>3
    <3>3. QED BY <1>2, <3>1, <3>2 DEF DayOk
  <2>4. QED BY <2>1, <2>2, <2>3
<1>3. CASE kind = "weekends"
  <2>1. CASE f % 7 \in {5, 6}
    BY <1>3, <2>1 DEF DayOk
  <2>2. CASE f % 7 \notin {5, 6}
    <3> DEFINE g == f + 5 - (f % 7)
    <3>1. g \in f..(f + 13) /\ g % 7 = 5
      BY <2>2
    <3>2. \A e \in f..(f + 13) : e % 7 \in {5, 6} => g <= e
      BY <2>2
    <3>3. QED BY <1>3, <3>1, <3>2 DEF DayOk
  <2>3. QED BY <2>1, <2>2
<1>4. QED BY <1>1, <1>2, <1>3

\* The first day is the first one whose time of day is still to come.
LEMMA FirstDayFits ==
  ASSUME NEW a \in Nat, NEW r \in 0..(DAY - 1)
  PROVE  /\ FirstDay(a, r) \in Nat
         /\ \A d \in Nat : FirstDay(a, r) <= d <=> a < d * DAY + r
<1> USE StandingAssumption
<1>1. /\ a \div DAY \in Nat /\ a % DAY \in 0..(DAY - 1)
      /\ a = (a \div DAY) * DAY + (a % DAY)
  BY Divided
<1>2. FirstDay(a, r) = IF a % DAY >= r THEN (a \div DAY) + 1 ELSE a \div DAY
  BY <1>1 DEF FirstDay
<1>3. ASSUME NEW d \in Nat PROVE FirstDay(a, r) <= d <=> a < d * DAY + r
  <2> DEFINE q == a \div DAY
             qd == q * DAY
             dd == d * DAY
  <2>1. qd \in Nat /\ dd \in Nat /\ q \in Nat /\ a = qd + (a % DAY)
    BY <1>1
  <2>2. d < q => dd + DAY <= qd
    BY <2>1, Products
  <2>3. q < d => qd + DAY <= dd
    BY <2>1, Products
  <2>4. q = d => qd = dd
    OBVIOUS
  <2>5. FirstDay(a, r) = IF a % DAY >= r THEN q + 1 ELSE q
    BY <1>2
  <2> HIDE DEF q, qd, dd
  <2>6. FirstDay(a, r) <= d <=> a < dd + r
    BY <1>1, <2>1, <2>2, <2>3, <2>4, <2>5
  <2>7. QED BY <2>6 DEF dd
<1>4. QED BY <1>1, <1>2, <1>3

\* next_after: the next instant of the order, with none of them in between.
Least(spec, a, n) ==
  /\ n \in Nat /\ n > a
  /\ spec.kind # "every" => Slot(spec, n) /\ \A t \in (a + 1)..(n - 1) : ~Slot(spec, t)

LEMMA NextAtLeast ==
  ASSUME NEW spec \in Specs, NEW a \in Nat, spec.kind # "every"
  PROVE  Least(spec, a, NextAt(spec, a))
<1> USE StandingAssumption
<1>1. spec.kind \in SpecKinds /\ spec.at \in 0..(DAY - 1) /\ DAY \in Nat
  OBVIOUS
<1> DEFINE r == spec.at
           first == FirstDay(a, r)
           fits == {d \in first..(first + 13) : DayOk(spec.kind, d) /\ d * DAY + r > a}
<1>2. first \in Nat /\ \A d \in Nat : first <= d <=> a < d * DAY + r
  BY <1>1, FirstDayFits
<1>3. fits = {d \in first..(first + 13) : DayOk(spec.kind, d)}
  <2>1. ASSUME NEW d \in first..(first + 13) PROVE d * DAY + r > a
    <3>1. d \in Nat /\ first <= d /\ d * DAY \in Nat
      BY <1>1, <1>2, <2>1
    <3>2. QED BY <1>1, <1>2, <3>1
  <2>2. QED BY <2>1
<1> HIDE DEF fits, first
<1>4. PICK d \in fits : \A e \in fits : d <= e
  BY <1>1, <1>2, <1>3, NextDay
<1>5. d \in Nat /\ first <= d /\ d <= first + 13 /\ DayOk(spec.kind, d)
  BY <1>2, <1>3, <1>4
<1>6. (CHOOSE e \in fits : \A g \in fits : e <= g) = d
  <2>1. \A e \in fits : e \in Nat
    BY <1>2, <1>3
  <2>2. \A e \in fits : (\A g \in fits : e <= g) => e = d
    BY <1>4, <1>5, <2>1
  <2>3. QED BY <1>4, <2>2
<1> DEFINE n == d * DAY + r
<1>7. NextAt(spec, a) = n
  <2>1. fits # {}
    BY <1>4
  <2>2. QED BY <1>6, <2>1 DEF NextAt, fits, first
<1>8. n \in Nat /\ n > a
  BY <1>1, <1>2, <1>5
<1>9. Slot(spec, n)
  <2>1. (d * DAY + r) \div DAY = d /\ (d * DAY + r) % DAY = r
    BY <1>1, <1>5, Quotients
  <2>2. QED BY <1>5, <2>1 DEF Slot
<1> HIDE DEF n
<1>10. ASSUME NEW t \in (a + 1)..(n - 1), Slot(spec, t) PROVE FALSE
  <2> DEFINE e == t \div DAY
  <2>1. t \in Nat /\ a < t /\ t < n
    BY <1>8, <1>10
  <2>2. e \in Nat /\ t = e * DAY + r /\ DayOk(spec.kind, e)
    BY <1>1, <1>10, <2>1, Divided DEF Slot
  <2> HIDE DEF e
  <2>3. first <= e
    BY <1>1, <1>2, <2>1, <2>2
  <2>4. e < d
    <3>1. d < e => d * DAY + DAY <= e * DAY
      BY <1>1, <1>5, <2>2, Products
    <3>2. d * DAY \in Nat /\ e * DAY \in Nat
      BY <1>1, <1>5, <2>2
    <3>3. QED BY <1>1, <1>5, <2>1, <2>2, <3>1, <3>2 DEF n
  <2>5. e \in fits
    BY <1>2, <1>3, <1>5, <2>2, <2>3, <2>4
  <2>6. QED BY <1>4, <1>5, <2>2, <2>4, <2>5
<1>11. QED BY <1>7, <1>8, <1>9, <1>10 DEF Least

LEMMA NextLeast ==
  ASSUME NEW spec \in Specs, NEW a \in Nat PROVE Least(spec, a, NextAfter(spec, a))
<1>1. CASE spec.kind = "every"
  BY <1>1, StandingAssumption DEF NextAfter, Least
<1>2. CASE spec.kind # "every"
  BY <1>2, NextAtLeast DEF NextAfter
<1>3. QED BY <1>1, <1>2

\* Later, a schedule has promised at least as many instants, and one more once its
\* next firing has come.
LEMMA SlotsGrow ==
  ASSUME NEW spec \in Specs, NEW from \in Nat, NEW a \in Nat, NEW b \in Nat, from <= a, a <= b
  PROVE  /\ Slots(spec, from, a) \in Nat /\ Slots(spec, from, b) \in Nat
         /\ Slots(spec, from, a) <= Slots(spec, from, b)
         /\ NextAfter(spec, a) <= b => Slots(spec, from, a) + 1 <= Slots(spec, from, b)
<1>1. CASE spec.kind = "every"
  <2>1. spec.at \in Nat \ {0} /\ a - from \in Nat /\ b - from \in Nat
    BY <1>1, StandingAssumption
  <2>2. /\ (a - from) \div spec.at \in Nat /\ (b - from) \div spec.at \in Nat
        /\ (a - from) \div spec.at <= (b - from) \div spec.at
        /\ (a - from) + spec.at <= b - from
             => (a - from) \div spec.at + 1 <= (b - from) \div spec.at
    <3> DEFINE p == spec.at
               x == a - from
               y == b - from
    <3>1. p \in Nat \ {0} /\ x \in Nat /\ y \in Nat /\ x <= y
      BY <2>1
    <3> HIDE DEF p, x, y
    <3>2. /\ x \div p \in Nat /\ y \div p \in Nat
          /\ x \div p <= y \div p
          /\ x + p <= y => x \div p + 1 <= y \div p
      BY <3>1, Divided, PeriodsGrow
    <3>3. QED BY <3>2 DEF p, x, y
  <2>3. NextAfter(spec, a) = a + spec.at
    BY <1>1 DEF NextAfter
  <2>4. NextAfter(spec, a) <= b => (a - from) + spec.at <= b - from
    BY <2>1, <2>3
  <2>5. /\ Slots(spec, from, a) = (a - from) \div spec.at
        /\ Slots(spec, from, b) = (b - from) \div spec.at
    BY <1>1 DEF Slots
  <2>6. QED BY <2>2, <2>4, <2>5
<1>2. CASE spec.kind # "every"
  <2> DEFINE A == {t \in (from + 1)..a : Slot(spec, t)}
             B == {t \in (from + 1)..b : Slot(spec, t)}
             n == NextAfter(spec, a)
  <2>1. IsFiniteSet(B) /\ A \in SUBSET B
    <3>1. IsFiniteSet((from + 1)..b)
      BY FS_Interval
    <3>2. B \in SUBSET ((from + 1)..b)
      OBVIOUS
    <3>3. IsFiniteSet(B)
      BY <3>1, <3>2, FS_Subset
    <3>4. QED BY <3>3
  <2>2. /\ IsFiniteSet(A) /\ Cardinality(A) \in Nat /\ Cardinality(B) \in Nat
        /\ Cardinality(A) <= Cardinality(B)
    BY <2>1, FS_Subset, FS_CardinalityType
  <2>3. ASSUME n <= b PROVE Cardinality(A) + 1 <= Cardinality(B)
    <3>1. n \in Nat /\ n > a /\ Slot(spec, n)
      BY <1>2, NextLeast DEF Least
    <3>2. n \in B /\ n \notin A
      BY <2>3, <3>1
    <3>3. A \cup {n} \in SUBSET B
      BY <2>1, <3>2
    <3>4. Cardinality(A \cup {n}) = Cardinality(A) + 1
      BY <2>2, <3>2, FS_AddElement
    <3>5. Cardinality(A \cup {n}) <= Cardinality(B)
      BY <2>1, <3>3, FS_Subset
    <3>6. QED BY <3>4, <3>5
  <2>4. Slots(spec, from, a) = Cardinality(A) /\ Slots(spec, from, b) = Cardinality(B)
    BY <1>2 DEF Slots
  <2> HIDE DEF A, B
  <2>5. QED BY <2>2, <2>3, <2>4
<1>3. QED BY <1>1, <1>2

----------------------------------------------------------------------------
(* The rows by id *)

\* Every rank of a finite set of numbers is the rank of one of its elements.
LEMMA Ranks ==
  ASSUME NEW D \in SUBSET Nat, IsFiniteSet(D), NEW k \in 1..Cardinality(D)
  PROVE  \E i \in D : Cardinality({j \in D : j <= i}) = k
<1> DEFINE n == Cardinality(D)
           Below(i) == {j \in D : j <= i}
           rank == [i \in D |-> Cardinality(Below(i))]
<1>1. n \in Nat
  BY FS_CardinalityType
<1>2. ASSUME NEW i \in D
      PROVE  IsFiniteSet(Below(i)) /\ Cardinality(Below(i)) \in 1..n
  <2>1. Below(i) \in SUBSET D /\ i \in Below(i)
    OBVIOUS
  <2>2. IsFiniteSet(Below(i)) /\ Cardinality(Below(i)) <= n /\ Cardinality(Below(i)) \in Nat
    BY <2>1, FS_Subset, FS_CardinalityType
  <2>3. Cardinality(Below(i)) # 0
    BY <2>1, <2>2, FS_EmptySet
  <2>4. QED BY <1>1, <2>2, <2>3
<1>3. rank \in [D -> 1..n]
  BY <1>2
<1>4. \A i, j \in D : i < j => rank[i] < rank[j]
  <2> SUFFICES ASSUME NEW i \in D, NEW j \in D, i < j PROVE rank[i] < rank[j]
    OBVIOUS
  <2>1. Below(i) \in SUBSET Below(j) /\ j \in Below(j) /\ j \notin Below(i)
    <3>1. i \in Nat /\ j \in Nat /\ \A x \in D : x \in Nat
      OBVIOUS
    <3>2. \A x \in D : x <= i => x <= j
      BY <3>1
    <3>3. j <= j /\ ~(j <= i)
      BY <3>1
    <3>4. QED BY <3>2, <3>3
  <2>2. /\ Cardinality(Below(i)) <= Cardinality(Below(j))
        /\ Cardinality(Below(i)) # Cardinality(Below(j))
    BY <1>2, <2>1, FS_Subset
  <2>3. QED BY <1>2, <2>2
<1> HIDE DEF rank
<1>5. \A i, j \in D : rank[i] = rank[j] => i = j
  <2>1. TAKE i, j \in D
  <2>2. rank[i] \in Nat /\ rank[j] \in Nat /\ i \in Nat /\ j \in Nat
    BY <1>3
  <2>3. QED BY <1>4, <2>2
<1>6. IsFiniteSet(1..n) /\ Cardinality(1..n) = n
  BY <1>1, FS_Interval
<1>7. rank \in Injection(D, 1..n)
  BY <1>3, <1>5, Fun_IsInj
<1>8. rank \in Surjection(D, 1..n)
  BY <1>6, <1>7, FS_Injection
<1>9. \A t \in 1..n : \E i \in D : rank[i] = t
  BY <1>8, Fun_SurjectionProperties
<1>10. QED BY <1>9 DEF rank

\* list_schedules returns every row once.
LEMMA ListedRows ==
  ASSUME DOMAIN rows \in SUBSET Nat, IsFiniteSet(DOMAIN rows)
  PROVE  /\ Listed \in Seq([id : DOMAIN rows, row : {rows[i] : i \in DOMAIN rows}])
         /\ \A k \in 1..Len(Listed) : Listed[k].row = rows[Listed[k].id]
         /\ \A k, l \in 1..Len(Listed) : Listed[k].id = Listed[l].id => k = l
<1> DEFINE D == DOMAIN rows
           n == Cardinality(D)
           Rank(i) == Cardinality({j \in D : j <= i})
           id(k) == CHOOSE i \in D : Rank(i) = k
<1>1. n \in Nat
  BY FS_CardinalityType
<1>2. \A k \in 1..n : id(k) \in D /\ Rank(id(k)) = k
  <2>1. TAKE k \in 1..n
  <2>2. \E i \in D : Rank(i) = k
    BY Ranks
  <2> HIDE DEF Rank
  <2>3. QED BY <2>2
<1>3. Listed = [k \in 1..n |-> [id |-> id(k), row |-> rows[id(k)]]]
  BY DEF Listed
<1> HIDE DEF id, Rank, n
<1>4. Len(Listed) = n /\ Listed \in Seq([id : D, row : {rows[i] : i \in D}])
  BY <1>1, <1>2, <1>3
<1>5. \A k \in 1..n : Listed[k].id = id(k) /\ Listed[k].row = rows[id(k)]
  BY <1>3
<1>6. QED BY <1>2, <1>4, <1>5

----------------------------------------------------------------------------
(* The stamp *)

\* The strengthening of OncePerSlot. A tick holds each row once, as the table has it
\* until the tick stamps it; a stamp lies between the making of the row and the tick;
\* and the runs of a schedule, with the one decided on, were promised by its last stamp.
StampInv ==
  /\ StandingTypeOK
  /\ scheds \in Seq([id : 1..added, row : Row])
  /\ tickAt <= clock
  /\ \A i \in DOMAIN rows : rows[i].last = Unrun \/ rows[i].last \in rows[i].created..tickAt
  /\ \A k \in 1..Len(scheds) :
       scheds[k].id \in DOMAIN rows => rows[scheds[k].id] = scheds[k].row
  /\ \A k, l \in 1..Len(scheds) : scheds[k].id = scheds[l].id => k = l
  /\ \A i \in Ids : i > added => fired[i] = 0 /\ unstamped[i] = 0
  /\ \A i \in DOMAIN rows :
       fired[i] + (IF marked = i THEN 1 ELSE 0) - unstamped[i]
         <= Slots(rows[i].spec, rows[i].created, Anchor(rows[i]))

LEMMA NoSeq == \A S : <<>> \in Seq(S)
OBVIOUS

LEMMA WiderSeq == ASSUME NEW A, NEW B, A \subseteq B, NEW s \in Seq(A) PROVE s \in Seq(B)
<1>1. \A k \in 1..Len(s) : s[k] \in B
  OBVIOUS
<1>2. QED BY <1>1

LEMMA StampInit == ASSUME StandingInit PROVE StampInv
<1> USE StandingAssumption
<1>1. DOMAIN rows = {} /\ Len(scheds) = 0
  BY DEF StandingInit
<1>2. scheds \in Seq([id : 1..added, row : Row])
  BY DEF StandingInit
<1>3. fired \in [Ids -> Nat] /\ unstamped \in [Ids -> Nat]
  BY DEF StandingInit
<1>4. /\ clock = Start /\ added = 0 /\ tickAt = Start /\ running = 0 /\ hung = FALSE /\ marked = 0
      /\ troubles = 0
  BY DEF StandingInit
<1>5. StandingTypeOK
  <2>1. /\ Start \in Start..MaxClock /\ 0 \in 0..MaxSchedules /\ 0 \in 0..0
        /\ 0 \in 0..MaxTroubles
    OBVIOUS
  <2>2. DOMAIN rows \subseteq 1..added /\ \A k \in 1..Len(scheds) : scheds[k].id \in 1..added
    BY <1>1
  <2>3. QED BY <1>1, <1>3, <1>4, <2>1, <2>2 DEF StandingTypeOK
<1>6. \A i \in Ids : fired[i] = 0 /\ unstamped[i] = 0
  BY DEF StandingInit
<1>7. QED BY <1>1, <1>2, <1>4, <1>5, <1>6 DEF StampInv

\* Until a row is stamped, its schedule was promised nothing by its making.
LEMMA AnchorBounds ==
  ASSUME StampInv, NEW i \in DOMAIN rows
  PROVE  /\ rows[i].spec \in Specs /\ rows[i].created \in Nat
         /\ Anchor(rows[i]) \in Nat
         /\ rows[i].created <= Anchor(rows[i]) /\ Anchor(rows[i]) <= clock
         /\ clock \in Nat
<1>1. /\ rows[i] \in Row /\ rows[i].created <= clock /\ clock \in Nat /\ tickAt \in Nat
      /\ tickAt <= clock
      /\ rows[i].last = Unrun \/ rows[i].last \in rows[i].created..tickAt
  BY StandingAssumption DEF StampInv, StandingTypeOK
<1>2. QED BY <1>1 DEF Row, Anchor

LEMMA AddInv == ASSUME StampInv, AddSchedule PROVE StampInv'
<1> USE StandingAssumption
<1>1. PICK s \in Specs :
        rows' = [i \in DOMAIN rows \cup {added'} |->
                   IF i = added' THEN [spec |-> s, created |-> clock, last |-> Unrun] ELSE rows[i]]
  BY DEF AddSchedule
<1>2. /\ added < MaxSchedules /\ added' = added + 1
      /\ UNCHANGED <<clock, scheds, tickAt, running, hung, marked, fired, unstamped, troubles>>
  BY DEF AddSchedule, scheduler
<1>3. /\ added \in Nat /\ clock \in Nat /\ clock <= MaxClock /\ MaxClock \in Nat
      /\ DOMAIN rows \subseteq 1..added
  BY DEF StampInv, StandingTypeOK
<1>4. /\ DOMAIN rows' = DOMAIN rows \cup {added'}
      /\ \A i \in DOMAIN rows : i # added' /\ rows'[i] = rows[i]
      /\ rows'[added'] = [spec |-> s, created |-> clock, last |-> Unrun]
  BY <1>1, <1>2, <1>3
<1>5. /\ rows'[added'] \in Row /\ rows'[added'].created = clock
      /\ rows'[added'].spec = s /\ rows'[added'].last = Unrun
  BY <1>3, <1>4 DEF Row, Unrun
<1>6. StandingTypeOK'
  BY <1>2, <1>3, <1>4, <1>5 DEF StampInv, StandingTypeOK, Ids
<1>7. (scheds \in Seq([id : 1..added, row : Row]))'
  <2>1. [id : 1..added, row : Row] \subseteq [id : 1..added', row : Row]
    BY <1>2, <1>3
  <2>2. scheds \in Seq([id : 1..added', row : Row])
    BY <2>1, WiderSeq DEF StampInv
  <2>3. QED BY <1>2, <2>2
<1>8. \A k \in 1..Len(scheds) : scheds[k].id \in 1..added
  BY DEF StampInv, StandingTypeOK
<1>9. \A k \in 1..Len(scheds) :
        scheds[k].id \in DOMAIN rows' => rows'[scheds[k].id] = scheds[k].row
  <2>1. SUFFICES ASSUME NEW k \in 1..Len(scheds), scheds[k].id \in DOMAIN rows'
                 PROVE  rows'[scheds[k].id] = scheds[k].row
    OBVIOUS
  <2>2. scheds[k].id # added'
    BY <1>2, <1>3, <1>8
  <2>3. scheds[k].id \in DOMAIN rows /\ rows'[scheds[k].id] = rows[scheds[k].id]
    BY <1>4, <2>1, <2>2
  <2>4. QED BY <2>3 DEF StampInv
<1>10. ASSUME NEW i \in DOMAIN rows'
       PROVE  fired[i] + (IF marked = i THEN 1 ELSE 0) - unstamped[i]
                <= Slots(rows'[i].spec, rows'[i].created, Anchor(rows'[i]))
  <2>1. CASE i \in DOMAIN rows
    BY <1>4, <2>1 DEF StampInv
  <2>2. CASE i = added'
    <3>1. fired[i] = 0 /\ unstamped[i] = 0 /\ marked # i
      BY <1>2, <1>3, <2>2 DEF StampInv, StandingTypeOK, Ids
    <3>2. Anchor(rows'[i]) = clock
      BY <1>5, <2>2 DEF Anchor
    <3>3. Slots(s, clock, clock) \in Nat
      BY <1>3, SlotsGrow
    <3>4. QED BY <1>5, <2>2, <3>1, <3>2, <3>3
  <2>3. QED BY <1>4, <1>10, <2>1, <2>2
<1>11. \A i \in DOMAIN rows' : rows'[i].last = Unrun \/ rows'[i].last \in rows'[i].created..tickAt
  BY <1>4, <1>5 DEF StampInv
<1>12. \A i \in Ids : i > added' => fired[i] = 0 /\ unstamped[i] = 0
  BY <1>2, <1>3 DEF StampInv, Ids
<1>13. QED BY <1>2, <1>3, <1>6, <1>7, <1>9, <1>10, <1>11, <1>12 DEF StampInv, Unrun

LEMMA RemoveInv == ASSUME StampInv, NEW i \in Ids, RemoveSchedule(i) PROVE StampInv'
<1>1. /\ rows' = [j \in DOMAIN rows \ {i} |-> rows[j]]
      /\ UNCHANGED <<clock, added, scheds, tickAt, running, hung, marked, fired, unstamped, troubles>>
  BY DEF RemoveSchedule, scheduler
<1>2. /\ DOMAIN rows' \subseteq DOMAIN rows
      /\ \A j \in DOMAIN rows' : rows'[j] = rows[j]
  BY <1>1
<1> HIDE <1>1
<1>3. UNCHANGED <<clock, added, scheds, tickAt, running, hung, marked, fired, unstamped, troubles>>
  BY <1>1
<1>4. StandingTypeOK'
  BY <1>2, <1>3 DEF StampInv, StandingTypeOK
<1>5. QED BY <1>2, <1>3, <1>4 DEF StampInv

\* Time, a restart and the end of a run leave the rows and their stamps alone.
LEMMA QuietInv ==
  ASSUME StampInv, StandingTypeOK', UNCHANGED <<rows, added, tickAt, fired, unstamped>>,
         clock <= clock', scheds' = scheds \/ scheds' = <<>>,
         marked' = marked \/ marked' = 0
  PROVE  StampInv'
<1>1. tickAt' <= clock'
  BY StandingAssumption DEF StampInv, StandingTypeOK
<1>2. ASSUME NEW i \in DOMAIN rows
      PROVE  fired[i] + (IF marked' = i THEN 1 ELSE 0) - unstamped[i]
               <= Slots(rows[i].spec, rows[i].created, Anchor(rows[i]))
  <2>1. i \in Nat \ {0} /\ i \in Ids
    BY StandingAssumption DEF StampInv, StandingTypeOK, Ids
  <2>2. fired[i] \in Nat /\ unstamped[i] \in Nat
    BY <2>1 DEF StampInv, StandingTypeOK
  <2>3. Slots(rows[i].spec, rows[i].created, Anchor(rows[i])) \in Nat
    BY AnchorBounds, SlotsGrow
  <2>4. QED BY <2>1, <2>2, <2>3 DEF StampInv
<1>3. scheds' \in Seq([id : 1..added, row : Row])
  <2>1. scheds \in Seq([id : 1..added, row : Row])
    BY DEF StampInv
  <2>2. <<>> \in Seq([id : 1..added, row : Row])
    BY NoSeq
  <2>3. QED BY <2>1, <2>2
<1>4. /\ \A k \in 1..Len(scheds') :
           scheds'[k].id \in DOMAIN rows => rows[scheds'[k].id] = scheds'[k].row
      /\ \A k, l \in 1..Len(scheds') : scheds'[k].id = scheds'[l].id => k = l
  <2>1. CASE scheds' = scheds
    BY <2>1 DEF StampInv
  <2>2. CASE scheds' = <<>>
    <3>1. Len(scheds') = 0
      BY <2>2
    <3>2. QED BY <3>1
  <2>3. QED BY <2>1, <2>2
<1>5. QED BY <1>1, <1>2, <1>3, <1>4 DEF StampInv

\* The list of a tick without its first schedule.
LEMMA TailIds ==
  ASSUME StampInv, scheds # <<>>
  PROVE  /\ Tail(scheds) \in Seq([id : 1..added, row : Row])
         /\ Len(Tail(scheds)) \in Nat /\ Len(scheds) \in Nat
         /\ Len(Tail(scheds)) = Len(scheds) - 1
         /\ \A k \in 1..Len(Tail(scheds)) : /\ k + 1 \in 1..Len(scheds)
                                            /\ Tail(scheds)[k] = scheds[k + 1]
         /\ 1 \in 1..Len(scheds) /\ Head(scheds) = scheds[1]
         /\ Head(scheds).id \in 1..added /\ Head(scheds).row \in Row
         /\ \A k \in 1..Len(Tail(scheds)) : Tail(scheds)[k].id # Head(scheds).id
<1>1. scheds \in Seq([id : 1..added, row : Row])
  BY DEF StampInv
<1> DEFINE R == [id : 1..added, row : Row]
<1> HIDE DEF R
<1>2. scheds \in Seq(R)
  BY <1>1 DEF R
<1>3. /\ Tail(scheds) \in Seq(R)
      /\ Len(Tail(scheds)) \in Nat /\ Len(scheds) \in Nat
      /\ Len(Tail(scheds)) = Len(scheds) - 1
      /\ Head(scheds) = scheds[1] /\ 1 \in 1..Len(scheds)
      /\ \A k \in 1..Len(Tail(scheds)) : Tail(scheds)[k] = scheds[k + 1]
  BY <1>2
<1>4. \A k \in 1..Len(Tail(scheds)) : k + 1 \in 1..Len(scheds) /\ k + 1 # 1
  BY <1>3
<1>5. \A k \in 1..Len(Tail(scheds)) : scheds[k + 1].id # scheds[1].id
  BY <1>3, <1>4 DEF StampInv
<1>6. scheds[1] \in R
  BY <1>2, <1>3
<1>7. scheds[1].id \in 1..added /\ scheds[1].row \in Row
  BY <1>6 DEF R
<1>8. QED BY <1>3, <1>4, <1>5, <1>7 DEF R

\* What the rest of the list keeps when only the row of its first schedule changes.
LEMMA TailKept ==
  ASSUME StampInv, scheds # <<>>, scheds' = Tail(scheds), added' = added,
         DOMAIN rows' = DOMAIN rows,
         \A j \in DOMAIN rows : j # Head(scheds).id => rows'[j] = rows[j]
  PROVE  /\ scheds' \in Seq([id : 1..added', row : Row])
         /\ \A k \in 1..Len(scheds') : scheds'[k].id \in 1..added'
         /\ \A k \in 1..Len(scheds') :
              scheds'[k].id \in DOMAIN rows' => rows'[scheds'[k].id] = scheds'[k].row
         /\ \A k, l \in 1..Len(scheds') : scheds'[k].id = scheds'[l].id => k = l
<1>1. /\ \A k \in 1..Len(scheds') : /\ k + 1 \in 1..Len(scheds)
                                    /\ scheds'[k] = scheds[k + 1]
                                    /\ scheds'[k].id # Head(scheds).id
      /\ scheds' \in Seq([id : 1..added, row : Row])
  BY TailIds
<1>2. \A k \in 1..Len(scheds') : scheds'[k].id \in 1..added
  BY <1>1 DEF StampInv, StandingTypeOK
<1>3. ASSUME NEW k \in 1..Len(scheds'), scheds'[k].id \in DOMAIN rows'
      PROVE  rows'[scheds'[k].id] = scheds'[k].row
  <2>1. k + 1 \in 1..Len(scheds) /\ scheds[k + 1].id \in DOMAIN rows
    BY <1>1, <1>3
  <2>2. rows[scheds[k + 1].id] = scheds[k + 1].row
    BY <2>1 DEF StampInv
  <2>3. QED BY <1>1, <1>3, <2>1, <2>2
<1>4. ASSUME NEW k \in 1..Len(scheds'), NEW l \in 1..Len(scheds'), scheds'[k].id = scheds'[l].id
      PROVE  k = l
  <2>1. k + 1 \in 1..Len(scheds) /\ l + 1 \in 1..Len(scheds) /\ scheds[k + 1].id = scheds[l + 1].id
    BY <1>1, <1>4
  <2>2. k + 1 = l + 1
    BY <2>1 DEF StampInv
  <2>3. QED BY <2>2
<1>5. QED BY <1>1, <1>2, <1>3, <1>4

LEMMA PassInv == ASSUME StampInv, PassOver PROVE StampInv'
<1>1. /\ scheds # <<>> /\ scheds' = Tail(scheds)
      /\ UNCHANGED <<clock, rows, added, tickAt, running, hung, marked, fired, unstamped, troubles>>
  BY DEF PassOver, NextSchedule
<1>2. /\ scheds' \in Seq([id : 1..added', row : Row])
      /\ \A k \in 1..Len(scheds') : scheds'[k].id \in 1..added'
      /\ \A k \in 1..Len(scheds') :
           scheds'[k].id \in DOMAIN rows' => rows'[scheds'[k].id] = scheds'[k].row
      /\ \A k, l \in 1..Len(scheds') : scheds'[k].id = scheds'[l].id => k = l
  BY <1>1, TailKept
<1>3. StandingTypeOK'
  BY <1>1, <1>2 DEF StampInv, StandingTypeOK
<1>4. QED BY <1>1, <1>2, <1>3 DEF StampInv

\* The stamp comes before the run, and what it runs for was promised between the
\* last stamp and the tick.
LEMMA MarkInv == ASSUME StampInv, Mark PROVE StampInv'
<1> USE StandingAssumption
<1> DEFINE i == Head(scheds).id
<1>1. /\ scheds # <<>> /\ scheds' = Tail(scheds) /\ marked = 0 /\ running = 0
      /\ DueAt(Head(scheds).row, tickAt) /\ marked' = i
      /\ rows' = IF i \in DOMAIN rows THEN [rows EXCEPT ![i].last = tickAt] ELSE rows
      /\ UNCHANGED <<clock, added, tickAt, running, hung, fired, unstamped, troubles>>
  BY DEF Mark, NextSchedule
<1>2. i \in 1..added /\ Head(scheds).row \in Row /\ Head(scheds) = scheds[1] /\ 1 \in 1..Len(scheds)
  BY <1>1, TailIds
<1> HIDE DEF i
<1>3. /\ DOMAIN rows' = DOMAIN rows
      /\ \A j \in DOMAIN rows : j # i => rows'[j] = rows[j]
      /\ i \in DOMAIN rows => rows'[i] = [rows[i] EXCEPT !.last = tickAt]
  BY <1>1
<1>4. /\ scheds' \in Seq([id : 1..added', row : Row])
      /\ \A k \in 1..Len(scheds') : scheds'[k].id \in 1..added'
      /\ \A k \in 1..Len(scheds') :
           scheds'[k].id \in DOMAIN rows' => rows'[scheds'[k].id] = scheds'[k].row
      /\ \A k, l \in 1..Len(scheds') : scheds'[k].id = scheds'[l].id => k = l
  BY <1>1, <1>3, TailKept DEF i
<1>5. /\ tickAt \in Nat /\ clock \in Nat /\ tickAt <= clock
      /\ i \in Nat \ {0} /\ i \in Ids /\ fired[i] \in Nat /\ unstamped[i] \in Nat
  BY <1>2 DEF StampInv, StandingTypeOK, Ids
<1>6. ASSUME i \in DOMAIN rows
      PROVE  /\ rows'[i] \in Row /\ rows'[i].spec = rows[i].spec
             /\ rows'[i].created = rows[i].created /\ rows[i].created <= tickAt
             /\ rows'[i].last = tickAt /\ Anchor(rows'[i]) = tickAt
             /\ fired[i] - unstamped[i] + 1 <= Slots(rows[i].spec, rows[i].created, tickAt)
  <2>1. rows[i] = Head(scheds).row /\ rows[i] \in Row
    BY <1>2, <1>6 DEF StampInv, StandingTypeOK, i
  <2>2. /\ rows'[i] \in Row /\ rows'[i].spec = rows[i].spec
        /\ rows'[i].created = rows[i].created /\ rows'[i].last = tickAt
    BY <1>3, <1>5, <1>6, <2>1 DEF Row
  <2>3. tickAt # Unrun
    BY <1>5 DEF Unrun, StampInv, StandingTypeOK
  <2>4. Anchor(rows'[i]) = tickAt
    BY <2>2, <2>3 DEF Anchor
  <2> DEFINE a == Anchor(rows[i])
             n == NextAfter(rows[i].spec, a)
             c == rows[i].created
  <2>5. rows[i].spec \in Specs /\ c \in Nat /\ a \in Nat /\ c <= a
    BY <1>6, AnchorBounds
  <2>6. n <= tickAt
    BY <1>1, <2>1 DEF DueAt
  <2>7. n \in Nat /\ n > a
    BY <2>5, NextLeast DEF Least
  <2> HIDE DEF a, n, c
  <2>8. a <= tickAt /\ c <= tickAt
    BY <1>5, <2>5, <2>6, <2>7
  <2>9. /\ Slots(rows[i].spec, c, a) \in Nat /\ Slots(rows[i].spec, c, tickAt) \in Nat
        /\ Slots(rows[i].spec, c, a) + 1 <= Slots(rows[i].spec, c, tickAt)
    BY <1>5, <2>5, <2>6, <2>8, SlotsGrow DEF n
  <2>10. fired[i] - unstamped[i] <= Slots(rows[i].spec, c, a)
    <3>1. fired[i] + 0 - unstamped[i] <= Slots(rows[i].spec, c, a)
      <4>1. marked # i
        BY <1>1, <1>5
      <4>2. QED BY <1>6, <4>1 DEF StampInv, c, a
    <3>2. QED BY <1>5, <3>1
  <2>11. fired[i] - unstamped[i] + 1 <= Slots(rows[i].spec, c, tickAt)
    BY <1>5, <2>9, <2>10
  <2>12. QED BY <2>2, <2>4, <2>8, <2>11 DEF c
<1>7. StandingTypeOK'
  <2>1. \A j \in DOMAIN rows' : rows'[j] \in Row /\ rows'[j].created <= clock
    BY <1>3, <1>5, <1>6 DEF StampInv, StandingTypeOK
  <2>2. StandingTypeOK /\ added \in Nat
    BY DEF StampInv, StandingTypeOK
  <2>3. marked' \in 0..added
    BY <1>1, <1>2, <2>2
  <2>4. \A k \in 1..Len(scheds') : scheds'[k].id \in 1..added
    BY <1>1, <1>4
  <2>5. DOMAIN rows' \subseteq 1..added
    BY <1>3, <2>2 DEF StandingTypeOK
  <2>6. /\ UNCHANGED <<clock, added, tickAt, running, hung, fired, unstamped, troubles>>
        /\ running = 0
    BY <1>1
  <2> HIDE <1>1
  <2>7. QED BY <2>1, <2>2, <2>3, <2>4, <2>5, <2>6 DEF StandingTypeOK
<1>8. \A j \in DOMAIN rows' : rows'[j].last = Unrun \/ rows'[j].last \in rows'[j].created..tickAt
  <2>1. SUFFICES ASSUME NEW j \in DOMAIN rows
                 PROVE  rows'[j].last = Unrun \/ rows'[j].last \in rows'[j].created..tickAt
    BY <1>3
  <2>2. CASE j = i
    <3>1. rows[i].created \in Nat
      BY <2>2, AnchorBounds
    <3>2. QED BY <1>5, <1>6, <2>2, <3>1
  <2>3. CASE j # i
    BY <1>3, <2>3 DEF StampInv
  <2>4. QED BY <2>2, <2>3
<1>9. ASSUME NEW j \in DOMAIN rows'
      PROVE  fired[j] + (IF marked' = j THEN 1 ELSE 0) - unstamped[j]
               <= Slots(rows'[j].spec, rows'[j].created, Anchor(rows'[j]))
  <2>1. CASE j = i
    <3>1. /\ fired[i] - unstamped[i] + 1 <= Slots(rows[i].spec, rows[i].created, tickAt)
          /\ rows'[i].spec = rows[i].spec /\ rows'[i].created = rows[i].created
          /\ Anchor(rows'[i]) = tickAt
      BY <1>3, <1>6, <1>9, <2>1
    <3>2. fired[i] + 1 - unstamped[i] = fired[i] - unstamped[i] + 1
      BY <1>5
    <3>3. QED BY <1>1, <2>1, <3>1, <3>2
  <2>2. CASE j # i
    <3>1. j \in DOMAIN rows /\ rows'[j] = rows[j] /\ marked' # j
      BY <1>1, <1>3, <1>9, <2>2
    <3>2. j # 0
      BY <3>1 DEF StampInv, StandingTypeOK
    <3>3. QED BY <1>1, <3>1, <3>2 DEF StampInv
  <2>3. QED BY <2>1, <2>2
<1>10. QED BY <1>1, <1>4, <1>7, <1>8, <1>9 DEF StampInv, Unrun

\* A stamp that fails leaves the row due: the run it is followed by is not counted.
LEMMA MarkFailsInv == ASSUME StampInv, MarkFails PROVE StampInv'
<1> USE StandingAssumption
<1> DEFINE i == Head(scheds).id
<1>1. /\ scheds # <<>> /\ scheds' = Tail(scheds) /\ marked = 0 /\ running = 0
      /\ marked' = i /\ unstamped' = [unstamped EXCEPT ![i] = unstamped[i] + 1]
      /\ troubles < MaxTroubles /\ troubles' = troubles + 1
      /\ UNCHANGED <<clock, rows, added, tickAt, running, hung, fired>>
  BY DEF MarkFails, NextSchedule, Trouble
<1>2. i \in 1..added
  BY <1>1, TailIds
<1>3. /\ scheds' \in Seq([id : 1..added', row : Row])
      /\ \A k \in 1..Len(scheds') : scheds'[k].id \in 1..added'
      /\ \A k \in 1..Len(scheds') :
           scheds'[k].id \in DOMAIN rows' => rows'[scheds'[k].id] = scheds'[k].row
      /\ \A k, l \in 1..Len(scheds') : scheds'[k].id = scheds'[l].id => k = l
  BY <1>1, TailKept
<1> HIDE DEF i
<1>4. /\ added \in Nat /\ i \in Ids /\ unstamped \in [Ids -> Nat] /\ fired \in [Ids -> Nat]
      /\ unstamped[i] \in Nat /\ fired[i] \in Nat
  BY <1>2 DEF StampInv, StandingTypeOK, Ids
<1>5. unstamped' \in [Ids -> Nat] /\ unstamped'[i] = unstamped[i] + 1
  BY <1>1, <1>4
<1>6. \A j \in Ids : j # i => unstamped'[j] = unstamped[j]
  BY <1>1, <1>4
<1>7. StandingTypeOK'
  <2>1. marked' \in 0..added /\ troubles' \in 0..MaxTroubles
    BY <1>1, <1>2, <1>4 DEF StampInv, StandingTypeOK
  <2>2. \A k \in 1..Len(scheds') : scheds'[k].id \in 1..added
    BY <1>1, <1>3
  <2>3. UNCHANGED <<clock, rows, added, tickAt, running, hung, fired>> /\ running = 0
    BY <1>1
  <2> HIDE <1>1
  <2>4. QED BY <1>5, <2>1, <2>2, <2>3 DEF StampInv, StandingTypeOK
<1>8. ASSUME NEW j \in DOMAIN rows
      PROVE  fired[j] + (IF marked' = j THEN 1 ELSE 0) - unstamped'[j]
               <= Slots(rows[j].spec, rows[j].created, Anchor(rows[j]))
  <2>1. j \in Ids /\ j # 0
    BY <1>4 DEF StampInv, StandingTypeOK, Ids
  <2>2. fired[j] + 0 - unstamped[j] <= Slots(rows[j].spec, rows[j].created, Anchor(rows[j]))
    BY <1>1, <2>1 DEF StampInv
  <2>3. CASE j = i
    <3>1. fired[i] + 1 - unstamped'[i] = fired[i] + 0 - unstamped[i]
      BY <1>4, <1>5
    <3>2. QED BY <1>1, <2>2, <2>3, <3>1
  <2>4. CASE j # i
    BY <1>1, <1>6, <2>1, <2>2, <2>4
  <2>5. QED BY <2>3, <2>4
<1>9. \A j \in Ids : j > added => fired[j] = 0 /\ unstamped'[j] = 0
  BY <1>2, <1>4, <1>6 DEF StampInv, Ids
<1>10. QED BY <1>1, <1>3, <1>7, <1>8, <1>9 DEF StampInv

LEMMA StartRunInv == ASSUME StampInv, StartRun PROVE StampInv'
<1> USE StandingAssumption
<1>1. /\ marked # 0 /\ running' = marked /\ marked' = 0 /\ hung' \in BOOLEAN
      /\ fired' = [fired EXCEPT ![marked] = fired[marked] + 1]
      /\ UNCHANGED <<clock, rows, added, scheds, tickAt, unstamped, troubles>>
  BY DEF StartRun
<1>2. /\ added \in Nat /\ marked \in 1..added /\ marked \in Ids
      /\ unstamped \in [Ids -> Nat] /\ fired \in [Ids -> Nat] /\ fired[marked] \in Nat
  <2>1. /\ added \in 0..MaxSchedules /\ marked \in 0..added
        /\ unstamped \in [Ids -> Nat] /\ fired \in [Ids -> Nat]
    BY DEF StampInv, StandingTypeOK
  <2>2. added \in Nat /\ marked \in 1..added /\ marked \in Ids
    BY <1>1, <2>1 DEF Ids
  <2>3. QED BY <2>1, <2>2
<1>3. /\ fired' \in [Ids -> Nat] /\ fired'[marked] = fired[marked] + 1
      /\ \A j \in Ids : j # marked => fired'[j] = fired[j]
  BY <1>1, <1>2
<1>4. StandingTypeOK'
  BY <1>1, <1>2, <1>3 DEF StampInv, StandingTypeOK
<1>5. ASSUME NEW j \in DOMAIN rows
      PROVE  fired'[j] + (IF marked' = j THEN 1 ELSE 0) - unstamped[j]
               <= Slots(rows[j].spec, rows[j].created, Anchor(rows[j]))
  <2>1. j \in Ids /\ j # 0 /\ unstamped[j] \in Nat /\ fired'[j] \in Nat
    BY <1>2, <1>3 DEF StampInv, StandingTypeOK, Ids
  <2>2. fired[j] + (IF marked = j THEN 1 ELSE 0) - unstamped[j]
          <= Slots(rows[j].spec, rows[j].created, Anchor(rows[j]))
    BY DEF StampInv
  <2>3. CASE j = marked
    <3>1. fired'[j] + 0 - unstamped[j] = fired[j] + 1 - unstamped[j]
      BY <1>2, <1>3, <2>1, <2>3
    <3>2. QED BY <1>1, <2>1, <2>2, <2>3, <3>1
  <2>4. CASE j # marked
    BY <1>1, <1>3, <2>1, <2>2, <2>4
  <2>5. QED BY <2>3, <2>4
<1>6. \A j \in Ids : j > added => fired'[j] = 0 /\ unstamped[j] = 0
  BY <1>2, <1>3 DEF StampInv, Ids
<1>7. scheds' \in Seq([id : 1..added', row : Row])
  BY <1>1 DEF StampInv
<1>8. QED BY <1>1, <1>4, <1>5, <1>6, <1>7 DEF StampInv

LEMMA TickInv == ASSUME StampInv, SchedulerTick PROVE StampInv'
<1> USE StandingAssumption
<1>1. /\ scheds' = Listed /\ tickAt' = clock
      /\ UNCHANGED <<clock, rows, added, running, hung, marked, fired, unstamped, troubles>>
  BY DEF SchedulerTick
<1>2. /\ added \in Nat /\ DOMAIN rows \subseteq 1..added /\ \A i \in DOMAIN rows : rows[i] \in Row
      /\ clock \in Nat /\ tickAt \in Nat /\ tickAt <= clock
      /\ \A i \in DOMAIN rows : rows[i].last = Unrun \/ rows[i].last \in rows[i].created..tickAt
      /\ \A i \in DOMAIN rows : rows[i].created \in Nat
  BY DEF StampInv, StandingTypeOK, Row
<1>3. IsFiniteSet(DOMAIN rows) /\ DOMAIN rows \in SUBSET Nat
  <2>1. IsFiniteSet(1..added)
    <3>1. 1 \in Int /\ added \in Int
      BY <1>2
    <3>2. QED BY <3>1, FS_Interval
  <2>2. DOMAIN rows \in SUBSET (1..added)
    BY <1>2
  <2>3. QED BY <1>2, <2>1, <2>2, FS_Subset
<1>4. /\ Listed \in Seq([id : DOMAIN rows, row : {rows[i] : i \in DOMAIN rows}])
      /\ \A k \in 1..Len(Listed) : Listed[k].row = rows[Listed[k].id]
      /\ \A k, l \in 1..Len(Listed) : Listed[k].id = Listed[l].id => k = l
  BY <1>3, ListedRows
<1>5. scheds' \in Seq([id : 1..added, row : Row])
  <2>1. [id : DOMAIN rows, row : {rows[i] : i \in DOMAIN rows}] \subseteq [id : 1..added, row : Row]
    BY <1>2
  <2>2. QED BY <1>1, <1>4, <2>1, WiderSeq
<1>6. \A k \in 1..Len(scheds') : scheds'[k].id \in 1..added
  <2> SUFFICES ASSUME NEW k \in 1..Len(scheds') PROVE scheds'[k].id \in 1..added
    OBVIOUS
  <2> DEFINE R == [id : 1..added, row : Row]
  <2> HIDE DEF R
  <2>1. scheds' \in Seq(R)
    BY <1>5 DEF R
  <2>2. scheds'[k] \in R
    BY <2>1
  <2>3. QED BY <2>2 DEF R
<1>7. StandingTypeOK'
  BY <1>1, <1>2, <1>6 DEF StampInv, StandingTypeOK
<1>8. \A i \in DOMAIN rows : rows[i].last = Unrun \/ rows[i].last \in rows[i].created..clock
  BY <1>2
<1>9. QED BY <1>1, <1>2, <1>4, <1>5, <1>7, <1>8 DEF StampInv, Unrun

LEMMA StampStep == ASSUME StampInv, [StandingNext]_standingVars PROVE StampInv'
<1> USE StandingAssumption
<1>1. ASSUME UNCHANGED standingVars PROVE StampInv'
  <2>1. StandingTypeOK'
    BY <1>1 DEF standingVars, scheduler, StampInv, StandingTypeOK
  <2>2. QED BY <1>1, <2>1, QuietInv DEF standingVars, scheduler, StampInv, StandingTypeOK
<1>t. clock \in Nat /\ clock <= clock /\ clock <= clock + 1
  BY DEF StampInv, StandingTypeOK
<1>2. ASSUME TimePasses PROVE StampInv'
  <2>1. /\ clock < MaxClock /\ clock' = clock + 1
        /\ UNCHANGED <<rows, added, scheds, tickAt, running, hung, marked, fired, unstamped, troubles>>
    BY <1>2 DEF TimePasses, scheduler
  <2>2. \A i \in DOMAIN rows : rows[i] \in Row /\ rows[i].created <= clock'
    BY <1>t, <2>1 DEF StampInv, StandingTypeOK, Row
  <2>3. clock' \in Start..MaxClock
    BY <1>t, <2>1 DEF StampInv, StandingTypeOK
  <2>4. StandingTypeOK'
    BY <2>1, <2>2, <2>3 DEF StampInv, StandingTypeOK
  <2>5. QED BY <1>t, <2>1, <2>4, QuietInv
<1>3. ASSUME StandingRestart PROVE StampInv'
  <2>1. /\ troubles < MaxTroubles /\ troubles' = troubles + 1
        /\ scheds' = <<>> /\ running' = 0 /\ hung' = FALSE /\ marked' = 0
        /\ UNCHANGED <<clock, rows, added, tickAt, fired, unstamped>>
    BY <1>3 DEF StandingRestart, Trouble
  <2>2. troubles' \in 0..MaxTroubles /\ Len(scheds') = 0
    BY <2>1 DEF StampInv, StandingTypeOK
  <2>3. 0 \in 0..added
    BY DEF StampInv, StandingTypeOK
  <2>4. \A k \in 1..Len(scheds') : scheds'[k].id \in 1..added
    BY <2>2
  <2> HIDE <1>3
  <2>5. StandingTypeOK'
    BY <2>1, <2>2, <2>3, <2>4 DEF StampInv, StandingTypeOK
  <2>6. QED BY <1>t, <2>1, <2>5, QuietInv
<1>4. ASSUME EndRun PROVE StampInv'
  <2>1. /\ running' = 0 /\ hung' = FALSE
        /\ UNCHANGED <<clock, rows, added, scheds, tickAt, marked, fired, unstamped, troubles>>
    BY <1>4 DEF EndRun
  <2>2. 0 \in 0..added
    BY DEF StampInv, StandingTypeOK
  <2>3. StandingTypeOK'
    BY <2>1, <2>2 DEF StampInv, StandingTypeOK
  <2>4. QED BY <1>t, <2>1, <2>3, QuietInv
<1>5. QED
  BY <1>1, <1>2, <1>3, <1>4, AddInv, RemoveInv, PassInv, MarkInv, MarkFailsInv, StartRunInv, TickInv
     DEF StandingNext, SchedulerStep, RunExits, RunTimesOut

\* The scheduler's state is well typed, and the stamps of the rows are the invariant
\* above, whatever the ticks, runs, edits of the table, failed stamps and restarts.
THEOREM StampsHold == StandingSpec => []StampInv
<1>1. StandingInit => StampInv
  BY StampInit
<1>2. StampInv /\ [StandingNext]_standingVars => StampInv'
  BY StampStep
<1>3. QED BY <1>1, <1>2, PTL DEF StandingSpec

\* A schedule has run at most once for each instant it promised since it was made,
\* but for runs whose stamp failed, however long the runs last and wherever a restart
\* falls (mark_schedule_run is "Called BEFORE the run so a slow run can't
\* double-fire"); and next_after jumps over no instant of any order.
THEOREM RunsOncePerSlot == StandingSpec => []OncePerSlot
<1>1. StampInv => OncePerSlot
  <2> SUFFICES ASSUME StampInv, NEW i \in DOMAIN rows
               PROVE  /\ fired[i] - unstamped[i]
                           <= Slots(rows[i].spec, rows[i].created, clock)
                      /\ NextIsLeast(i)
    BY DEF OncePerSlot
  <2> DEFINE s == rows[i].spec
             c == rows[i].created
             a == Anchor(rows[i])
  <2>1. s \in Specs /\ c \in Nat /\ a \in Nat /\ c <= a /\ a <= clock /\ clock \in Nat
    BY AnchorBounds
  <2>2. i \in Ids /\ fired[i] \in Nat /\ unstamped[i] \in Nat
    BY StandingAssumption DEF StampInv, StandingTypeOK, Ids
  <2>3. /\ Slots(s, c, a) \in Nat /\ Slots(s, c, clock) \in Nat
        /\ Slots(s, c, a) <= Slots(s, c, clock)
    BY <2>1, SlotsGrow
  <2>4. fired[i] + (IF marked = i THEN 1 ELSE 0) - unstamped[i] <= Slots(s, c, a)
    BY DEF StampInv
  <2>5. NextIsLeast(i)
    BY <2>1, NextLeast DEF NextIsLeast, Least
  <2> HIDE DEF s, c, a
  <2>6. fired[i] - unstamped[i] <= Slots(s, c, clock)
    BY <2>2, <2>3, <2>4
  <2>7. QED BY <2>5, <2>6 DEF s, c
<1>2. QED BY <1>1, StampsHold, PTL
----------------------------------------------------------------------------
(* UsageIngest. The ledger of a source that was read to its end is what one scan   *)
(* of the whole transcript gives. What makes it hold is that a scan ends between   *)
(* two messages, where the next one starts, so that the scans together read every *)
(* message in one piece; that a print is taken before the read, so that a line     *)
(* written meanwhile is noticed; and that the digest counts the cursors of its own *)
(* revision only.                                                            *)

\* A transcript whose messages have their lines in one piece.
Line == BlockLines \cup {Other}
Whole(f) ==
  /\ f \in Seq(Line)
  /\ \A i, j \in 1..Len(f) : \A k \in i..j :
       f[i].m # 0 /\ f[i].m = f[j].m => f[k].m = f[i].m
\* An offset between two messages: a scan that starts there reads none of them in part.
Boundary(f, o) ==
  /\ o \in 0..Len(f)
  /\ o = 0 \/ f[o].m = 0 \/ (o < Len(f) /\ f[o + 1].m # f[o].m)
First(f, i) == i \in 1..Len(f) /\ f[i].m # 0 /\ \A j \in 1..(i - 1) : f[j].m # f[i].m
Top(f, m) == MostOf({f[i].t : i \in Blocks(f, 0, m)})
\* What a ledger should have of the messages that begin up to an offset, and the
\* offset at which a scan of the whole file ends.
Full(e, f, o) ==
  \A i \in 1..o : First(f, i) => i - 1 \in DOMAIN e /\ e[i - 1].tokens = Top(f, f[i].m)
AtEnd(f, o) == o = Scan(f, 0).next

\* The cursor of a source: where it stands, and which reader put it there.
CursorInv ==
  \A s \in Sources :
    /\ Whole(lines[s]) /\ Boundary(lines[s], cursors[s].offset)
    /\ cursors[s].version <= reader /\ cursors[s].print <= 2 * Len(lines[s]) + 2
    /\ ~cursors[s].known => cursors[s].offset = 0 /\ DOMAIN events[s] = {}
\* What is being read was and is a recount, or not.
HandInv ==
  hand # NoHand =>
    hand.stale = Stale(hand.src) /\ hand.print <= 2 * Len(lines[hand.src]) + 2
\* Events are of the first lines of messages, and no more than their usage.
OnceInv ==
  \A s \in Sources : \A o \in DOMAIN events[s] :
    First(lines[s], o + 1) /\ events[s][o].tokens <= Top(lines[s], lines[s][o + 1].m)
\* Up to the cursor of the current reader nothing is missing; and nothing at all,
\* as long as the file is the one that was read.
FullInv ==
  \A s \in Sources : cursors[s].known /\ ~Stale(s) /\ ~kept[s] =>
    /\ \A o \in DOMAIN events[s] : events[s][o].reader = reader
    /\ Full(events[s], lines[s], cursors[s].offset)
    /\ ~cursors[s].error /\ cursors[s].print > 2 * Len(lines[s]) =>
         Full(events[s], lines[s], Len(lines[s])) /\ AtEnd(lines[s], cursors[s].offset)
\* The digest has the turns below the cursors of its own revision; a cursor of a
\* later revision has none.
MessagesTo(f, o) == {f[i].m : i \in 1..o} \ {0}
Below(s) == MessagesTo(lines[s], cursors[s].offset)
Turns ==
  {x \in Sources \X (1..MaxLines) : cursors[x[1]].version = digest.version /\ x[2] \in Below(x[1])}
CountInv ==
  /\ digest.version <= reader /\ \A s \in Sources : kept[s] => miscounted
  /\ ~miscounted =>
       /\ digest.turns = Cardinality(Turns)
       /\ \A s \in Sources : cursors[s].version > digest.version => Below(s) = {}

UsageInv == UsageTypeOK /\ CursorInv /\ HandInv /\ OnceInv /\ FullInv /\ CountInv
----------------------------------------------------------------------------
(* Numbers *)

LEMMA LeastNat ==
  ASSUME NEW S, S \subseteq Nat, S # {}
  PROVE  LeastOf(S) \in S /\ \A j \in S : LeastOf(S) <= j
<1> DEFINE R == {ss \in Nat \X Nat : ss[1] < ss[2]}
<1>1. IsWellFoundedOn(R, Nat)
  BY NatLessThanWellFounded, Zenon DEF OpToRel
<1>2. PICK x \in S : \A y \in S : ~(<<y, x>> \in R)
  <2> HIDE DEF R
  <2>1. QED BY <1>1, WFMin
<1>3. \A y \in S : x <= y
  <2>1. TAKE y \in S
  <2>2. <<y, x>> \in Nat \X Nat /\ ~(<<y, x>> \in R)
    BY <1>2
  <2>3. ~(y < x)
    BY <2>2
  <2>4. QED BY <2>3
<1>4. QED BY <1>3 DEF LeastOf

LEMMA MostNat ==
  ASSUME NEW n \in Nat, NEW S, S \subseteq 0..n, S # {}
  PROVE  MostOf(S) \in S /\ \A j \in S : j <= MostOf(S)
<1> DEFINE T == {n - j : j \in S}
<1>1. T \subseteq Nat /\ T # {}
  <2>1. \A j \in S : n - j \in Nat
    OBVIOUS
  <2>2. QED BY <2>1
<1>2. LeastOf(T) \in T /\ \A j \in T : LeastOf(T) <= j
  BY <1>1, LeastNat
<1>3. PICK x \in S : LeastOf(T) = n - x
  BY <1>2
<1>4. \A j \in S : j <= x
  <2>1. TAKE j \in S
  <2>2. n - x <= n - j
    BY <1>2, <1>3
  <2>3. x \in 0..n /\ j \in 0..n
    OBVIOUS
  <2>4. QED BY <2>2, <2>3
<1>5. \A j \in S : x >= j
  BY <1>4
<1>6. QED BY <1>5 DEF MostOf

LEMMA LargerOfTwo ==
  ASSUME NEW a \in Nat, NEW b \in Nat
  PROVE  MostOf({a, b}) = IF a <= b THEN b ELSE a
BY DEF MostOf
----------------------------------------------------------------------------
(* Transcripts *)

LEMMA LineFacts ==
  ASSUME NEW f \in Seq(Line), NEW i \in 1..Len(f)
  PROVE  /\ f[i] \in Line /\ f[i].m \in 0..MaxLines /\ f[i].t \in 0..MaxTokens
         /\ f[i].m # 0 => f[i].t \in 1..MaxTokens
BY UsageAssumption DEF Line, BlockLines, Other

\* The usage of a message is the highest figure of its lines.
LEMMA TopFacts ==
  ASSUME NEW f \in Seq(Line), NEW i \in 1..Len(f), f[i].m # 0
  PROVE  /\ Top(f, f[i].m) \in 1..MaxTokens
         /\ \A j \in 1..Len(f) : f[j].m = f[i].m => f[j].t <= Top(f, f[i].m)
         /\ \E j \in 1..Len(f) : f[j].m = f[i].m /\ f[j].t = Top(f, f[i].m)
<1> DEFINE B == {j \in 1..Len(f) : f[j].m = f[i].m}
           S == {f[j].t : j \in B}
<1>1. Blocks(f, 0, f[i].m) = B
  BY DEF Blocks
<1>2. \A j \in B : f[j].t \in 1..MaxTokens
  BY LineFacts
<1>3. S \subseteq 0..MaxTokens /\ S # {} /\ MaxTokens \in Nat
  BY <1>2, UsageAssumption
<1>4. Top(f, f[i].m) = MostOf(S)
  BY <1>1 DEF Top
<1>5. MostOf(S) \in S /\ \A j \in S : j <= MostOf(S)
  BY <1>3, MostNat
<1>6. QED BY <1>2, <1>4, <1>5

LEMMA TopUnique ==
  ASSUME NEW f \in Seq(Line), NEW i \in 1..Len(f), f[i].m # 0, NEW n,
         \A j \in 1..Len(f) : f[j].m = f[i].m => f[j].t <= n,
         \E j \in 1..Len(f) : f[j].m = f[i].m /\ f[j].t = n
  PROVE  Top(f, f[i].m) = n
<1>1. PICK j \in 1..Len(f) : f[j].m = f[i].m /\ f[j].t = Top(f, f[i].m)
  BY TopFacts
<1>2. PICK k \in 1..Len(f) : f[k].m = f[i].m /\ f[k].t = n
  OBVIOUS
<1>3. Top(f, f[i].m) <= n /\ n <= Top(f, f[i].m)
  BY <1>1, <1>2, TopFacts
<1>4. Top(f, f[i].m) \in Nat /\ n \in Nat
  BY <1>1, <1>2, LineFacts
<1>5. QED BY <1>3, <1>4

\* No message is on both sides of a boundary.
LEMMA NoStraddle ==
  ASSUME NEW f, Whole(f), NEW o, Boundary(f, o), NEW i \in 1..o, NEW j \in (o + 1)..Len(f), f[i].m # 0
  PROVE  f[i].m # f[j].m
<1>1. o \in Nat /\ Len(f) \in Nat /\ i <= o /\ o + 1 <= j /\ o > 0 /\ o < Len(f)
      /\ i \in 1..Len(f) /\ j \in 1..Len(f) /\ o \in i..j /\ o + 1 \in i..j
  BY DEF Boundary, Whole
<1>2. SUFFICES ASSUME f[i].m = f[j].m PROVE FALSE
  OBVIOUS
<1>3. f[o].m = f[i].m /\ f[o + 1].m = f[i].m
  BY <1>1, <1>2 DEF Whole
<1>4. QED BY <1>1, <1>3 DEF Boundary

\* A scan from a boundary sees the messages behind it as a scan of the whole file does.
LEMMA SameBlocks ==
  ASSUME NEW f, Whole(f), NEW o, Boundary(f, o), NEW i \in (o + 1)..Len(f), f[i].m # 0
  PROVE  Blocks(f, o, f[i].m) = Blocks(f, 0, f[i].m)
<1>1. o \in Nat /\ o <= Len(f) /\ Len(f) \in Nat
  BY DEF Boundary, Whole
<1>2. \A j \in 1..o : f[j].m # f[i].m
  <2>1. TAKE j \in 1..o
  <2>2. CASE f[j].m = 0
    BY <2>2
  <2>3. CASE f[j].m # 0
    BY <2>3, NoStraddle
  <2>4. QED BY <2>2, <2>3
<1>3. QED BY <1>1, <1>2 DEF Blocks

LEMMA FirstBlock ==
  ASSUME NEW f, Whole(f), NEW o, Boundary(f, o), NEW i \in (o + 1)..Len(f), f[i].m # 0
  PROVE  /\ LeastOf(Blocks(f, o, f[i].m)) \in (o + 1)..i
         /\ f[LeastOf(Blocks(f, o, f[i].m))].m = f[i].m
         /\ First(f, LeastOf(Blocks(f, o, f[i].m)))
<1> DEFINE B == Blocks(f, o, f[i].m)
<1>1. o \in Nat /\ o <= Len(f) /\ Len(f) \in Nat
  BY DEF Boundary, Whole
<1>2. B \subseteq Nat /\ i \in B
  BY <1>1 DEF Blocks
<1>3. LeastOf(B) \in B /\ \A j \in B : LeastOf(B) <= j
  <2> HIDE DEF B
  <2>1. QED BY <1>2, LeastNat
<1>4. B = Blocks(f, 0, f[i].m)
  BY SameBlocks
<1> DEFINE k == LeastOf(B)
<1>5. k \in (o + 1)..Len(f) /\ f[k].m = f[i].m /\ k <= i
  BY <1>2, <1>3 DEF Blocks
<1>6. \A j \in 1..Len(f) : f[j].m = f[i].m => k <= j
  BY <1>1, <1>3, <1>4 DEF Blocks
<1> HIDE DEF k, B
<1>7. First(f, k)
  BY <1>1, <1>5, <1>6 DEF First
<1>8. k \in (o + 1)..i
  BY <1>1, <1>5
<1>9. QED BY <1>5, <1>7, <1>8 DEF k, B

\* Two first lines of one message are one.
LEMMA FirstUnique ==
  ASSUME NEW f, Whole(f), NEW i, NEW j, First(f, i), First(f, j), f[i].m = f[j].m
  PROVE  i = j
BY DEF First, Whole

\* The scan from a boundary emits the messages that begin behind it, at their usage.
LEMMA ScanEvents ==
  ASSUME NEW f, Whole(f), NEW o, Boundary(f, o)
  PROVE  /\ DOMAIN Scan(f, o).events = {p \in o..Len(f) : First(f, p + 1)}
         /\ \A p \in DOMAIN Scan(f, o).events : Scan(f, o).events[p] = Top(f, f[p + 1].m)
<1> DEFINE first(m) == LeastOf(Blocks(f, o, m)) - 1
           D == {first(m) : m \in Messages(f, o)}
           P == {p \in o..Len(f) : First(f, p + 1)}
<1>0. o \in Nat /\ o <= Len(f) /\ Len(f) \in Nat /\ f \in Seq(Line)
  BY DEF Boundary, Whole
<1>1. Scan(f, o).events = [p \in D |-> MostOf({f[i].t : i \in Blocks(f, o, f[p + 1].m)})]
  BY DEF Scan
<1>2. ASSUME NEW p \in D PROVE p \in P
  <2>1. PICK i \in (o + 1)..Len(f) : f[i].m # 0 /\ p = first(f[i].m)
    BY DEF Messages
  <2>2. LeastOf(Blocks(f, o, f[i].m)) \in (o + 1)..i /\ First(f, LeastOf(Blocks(f, o, f[i].m)))
    BY <2>1, FirstBlock
  <2>3. p + 1 = LeastOf(Blocks(f, o, f[i].m))
    BY <1>0, <2>1, <2>2
  <2>4. p \in o..Len(f)
    BY <1>0, <2>1, <2>2
  <2>5. QED BY <2>2, <2>3, <2>4
<1>3. ASSUME NEW p \in P PROVE p \in D
  <2>1. p + 1 \in (o + 1)..Len(f) /\ f[p + 1].m # 0 /\ First(f, p + 1)
    BY <1>0 DEF First
  <2> DEFINE k == LeastOf(Blocks(f, o, f[p + 1].m))
  <2>2. k \in (o + 1)..(p + 1) /\ f[k].m = f[p + 1].m /\ First(f, k)
    BY <2>1, FirstBlock
  <2>3. k = p + 1
    <3> HIDE DEF k
    <3>1. QED BY <2>1, <2>2, FirstUnique
  <2>4. f[p + 1].m \in Messages(f, o)
    BY <2>1 DEF Messages
  <2>5. p = first(f[p + 1].m)
    BY <1>0, <2>3
  <2>6. QED BY <2>4, <2>5
<1>4. D = P
  BY <1>2, <1>3
<1>5. DOMAIN Scan(f, o).events = D
  BY <1>1
<1>6. ASSUME NEW p \in P PROVE Scan(f, o).events[p] = Top(f, f[p + 1].m)
  <2>1. p + 1 \in (o + 1)..Len(f) /\ f[p + 1].m # 0
    BY <1>0 DEF First
  <2>2. Blocks(f, o, f[p + 1].m) = Blocks(f, 0, f[p + 1].m)
    BY <2>1, SameBlocks
  <2> HIDE DEF D, P
  <2>3. QED BY <1>1, <1>4, <2>2 DEF Top
<1>7. QED BY <1>4, <1>5, <1>6

LEMMA OpenLast ==
  ASSUME NEW f, Whole(f), NEW o, Boundary(f, o)
  PROVE  /\ Open(f, o) # 0 => o < Len(f) /\ f[Len(f)].m = Open(f, o)
         /\ Open(f, o) = Open(f, 0)
<1>1. o \in Nat /\ o <= Len(f) /\ Len(f) \in Nat /\ 0 \in Nat
  BY DEF Boundary, Whole
<1>2. CASE o < Len(f)
  BY <1>1, <1>2 DEF Open
<1>3. CASE o = Len(f) /\ o = 0
  BY <1>1, <1>3 DEF Open
<1>4. CASE o = Len(f) /\ o # 0
  BY <1>1, <1>4 DEF Open, Boundary
<1>5. QED BY <1>1, <1>2, <1>3, <1>4

\* It ends at a boundary, which is where a scan of the whole file ends.
LEMMA ScanNext ==
  ASSUME NEW f, Whole(f), NEW o, Boundary(f, o)
  PROVE  /\ Boundary(f, Scan(f, o).next) /\ o <= Scan(f, o).next
         /\ AtEnd(f, Scan(f, o).next)
<1>0. o \in Nat /\ o <= Len(f) /\ Len(f) \in Nat /\ Boundary(f, 0)
  BY DEF Boundary, Whole
<1>1. CASE Open(f, o) = 0
  <2>1. Scan(f, o).next = Len(f) /\ Scan(f, 0).next = Len(f)
    BY <1>1, OpenLast DEF Scan
  <2>2. o < Len(f) => f[Len(f)].m = 0
    BY <1>0, <1>1 DEF Open
  <2>3. Boundary(f, Len(f))
    BY <1>0, <2>2 DEF Boundary
  <2>4. QED BY <1>0, <2>1, <2>3 DEF AtEnd
<1>2. CASE Open(f, o) # 0
  <2> DEFINE n == Len(f)
             k == LeastOf(Blocks(f, o, f[n].m))
  <2>1. n \in (o + 1)..Len(f) /\ f[n].m # 0 /\ Open(f, o) = f[n].m /\ Open(f, 0) = f[n].m
    BY <1>0, <1>2, OpenLast
  <2>2. Blocks(f, o, f[n].m) = Blocks(f, 0, f[n].m)
    BY <2>1, SameBlocks
  <2>3. Scan(f, o).next = k - 1 /\ Scan(f, 0).next = k - 1
    BY <2>1, <2>2 DEF Scan
  <2>4. k \in (o + 1)..n /\ f[k].m = f[n].m /\ First(f, k)
    BY <2>1, FirstBlock
  <2> HIDE DEF k
  <2>5. Boundary(f, k - 1)
    <3>1. k - 1 \in 0..Len(f) /\ k - 1 < Len(f) /\ (k - 1) + 1 = k
      BY <1>0, <2>4
    <3>2. k - 1 # 0 => f[k - 1].m # f[k].m
      BY <1>0, <2>4, <3>1 DEF First
    <3>3. QED BY <3>1, <3>2 DEF Boundary
  <2>6. QED BY <1>0, <2>3, <2>4, <2>5 DEF AtEnd
<1>3. QED BY <1>1, <1>2

\* The messages up to the end of a scan are those up to its beginning, and the
\* finished ones it read, which are others.
LEMMA ScanTurns ==
  ASSUME NEW f, Whole(f), NEW o, Boundary(f, o)
  PROVE  /\ MessagesTo(f, Scan(f, o).next) = MessagesTo(f, o) \cup Finished(f, o)
         /\ MessagesTo(f, o) \cap Finished(f, o) = {}
<1> DEFINE n == Scan(f, o).next
<1>0. o \in Nat /\ o <= Len(f) /\ Len(f) \in Nat
  BY DEF Boundary, Whole
<1>1. Boundary(f, n) /\ o <= n /\ n \in Nat /\ n <= Len(f)
  BY ScanNext DEF Boundary
<1>2. MessagesTo(f, o) \cap Finished(f, o) = {}
  <2>1. SUFFICES ASSUME NEW m \in MessagesTo(f, o), m \in Finished(f, o) PROVE FALSE
    OBVIOUS
  <2>2. PICK i \in 1..o : f[i].m = m /\ m # 0
    BY DEF MessagesTo
  <2>3. PICK j \in (o + 1)..Len(f) : f[j].m = m
    BY <2>1 DEF Finished, Messages
  <2>4. QED BY <2>2, <2>3, NoStraddle
<1>3. ASSUME Open(f, o) = 0 PROVE MessagesTo(f, n) = MessagesTo(f, o) \cup Finished(f, o)
  <2>1. n = Len(f)
    BY <1>3 DEF Scan
  <2>2. \A i : i \in 1..n <=> i \in 1..o \/ i \in (o + 1)..Len(f)
    BY <1>0, <2>1
  <2> HIDE DEF n
  <2>3. QED BY <1>3, <2>2 DEF MessagesTo, Finished, Messages
<1>4. ASSUME Open(f, o) # 0 PROVE MessagesTo(f, n) = MessagesTo(f, o) \cup Finished(f, o)
  <2> DEFINE l == Len(f)
             k == LeastOf(Blocks(f, o, f[l].m))
  <2>1. l \in (o + 1)..Len(f) /\ f[l].m # 0 /\ Open(f, o) = f[l].m
    BY <1>0, <1>4, OpenLast
  <2>2. n = k - 1
    BY <2>1 DEF Scan
  <2>3. k \in (o + 1)..l /\ f[k].m = f[l].m /\ First(f, k)
    BY <2>1, FirstBlock
  <2> HIDE DEF k, n
  <2>4. \A j \in k..Len(f) : f[j].m = Open(f, o)
    <3>1. TAKE j \in k..Len(f)
    <3>2. k \in 1..Len(f) /\ l \in 1..Len(f) /\ j \in k..l
      BY <1>0, <2>1, <2>3
    <3>3. QED BY <2>1, <2>3, <3>2 DEF Whole
  <2>5. \A j \in (o + 1)..n : f[j].m # Open(f, o)
    BY <1>0, <1>1, <2>1, <2>2, <2>3 DEF First
  <2>6. Finished(f, o) = {f[i].m : i \in (o + 1)..n} \ {0}
    <3>1. ASSUME NEW m \in Finished(f, o) PROVE m \in {f[i].m : i \in (o + 1)..n} \ {0}
      <4>1. PICK i \in (o + 1)..Len(f) : f[i].m = m /\ m # 0 /\ m # Open(f, o)
        BY <3>1 DEF Finished, Messages
      <4>2. ~(i \in k..Len(f))
        BY <2>4, <4>1
      <4>3. i \in (o + 1)..n
        BY <1>0, <1>1, <2>2, <2>3, <4>1, <4>2
      <4>4. QED BY <4>1, <4>3
    <3>2. ASSUME NEW m \in {f[i].m : i \in (o + 1)..n} \ {0} PROVE m \in Finished(f, o)
      <4>1. PICK i \in (o + 1)..n : f[i].m = m /\ m # 0
        OBVIOUS
      <4>2. i \in (o + 1)..Len(f) /\ m # Open(f, o)
        BY <1>0, <1>1, <2>5, <4>1
      <4>3. QED BY <4>1, <4>2 DEF Finished, Messages
    <3>3. QED BY <3>1, <3>2
  <2>7. \A i : i \in 1..n <=> i \in 1..o \/ i \in (o + 1)..n
    BY <1>0, <1>1
  <2>8. QED BY <2>6, <2>7 DEF MessagesTo
<1>5. QED BY <1>2, <1>3, <1>4
----------------------------------------------------------------------------
(* A line more *)

Fresh(f) == MostOf({0} \cup {f[i].m : i \in 1..Len(f)}) + 1
Last(f) == IF f = <<>> THEN 0 ELSE f[Len(f)].m

LEMMA AppendIndex ==
  ASSUME NEW f \in Seq(Line), NEW line \in Line
  PROVE  /\ Append(f, line) \in Seq(Line) /\ Len(Append(f, line)) = Len(f) + 1 /\ Len(f) \in Nat
         /\ \A i \in 1..Len(f) : Append(f, line)[i] = f[i]
         /\ Append(f, line)[Len(f) + 1] = line
OBVIOUS

\* The new line goes on with the last message, begins one, or is of none.
LEMMA NewLine ==
  ASSUME NEW f, Whole(f), NEW line \in Line, line.m \in {0, Fresh(f), Last(f)}, NEW i \in 1..Len(f),
         f[i].m # 0, f[i].m = line.m
  PROVE  Len(f) > 0 /\ f[Len(f)].m = line.m
<1>1. f \in Seq(Line) /\ Len(f) \in Nat /\ Len(f) > 0 /\ f # <<>>
  BY DEF Whole
<1> DEFINE S == {0} \cup {f[j].m : j \in 1..Len(f)}
<1>2. S \subseteq 0..MaxLines /\ S # {} /\ MaxLines \in Nat
  BY <1>1, LineFacts, UsageAssumption
<1>3. f[i].m \in S
  OBVIOUS
<1>4. f[i].m <= MostOf(S) /\ MostOf(S) \in Nat /\ f[i].m \in Nat
  <2> HIDE DEF S
  <2>1. MostOf(S) \in S /\ \A j \in S : j <= MostOf(S)
    BY <1>2, MostNat
  <2>2. MostOf(S) \in 0..MaxLines /\ f[i].m \in 0..MaxLines
    BY <1>2, <1>3, <2>1
  <2>3. f[i].m <= MostOf(S)
    BY <1>3, <2>1
  <2>4. QED BY <1>2, <2>2, <2>3
<1>5. line.m # Fresh(f)
  BY <1>4 DEF Fresh
<1>6. QED BY <1>1, <1>5 DEF Last

LEMMA AppendWhole ==
  ASSUME NEW f, Whole(f), NEW line \in Line, line.m \in {0, Fresh(f), Last(f)}
  PROVE  Whole(Append(f, line))
<1> DEFINE g == Append(f, line)
<1>1. /\ g \in Seq(Line) /\ Len(g) = Len(f) + 1 /\ Len(f) \in Nat
      /\ \A i \in 1..Len(f) : g[i] = f[i]
      /\ g[Len(f) + 1] = line
  BY AppendIndex DEF Whole
<1> HIDE DEF g
<1>2. ASSUME NEW i \in 1..Len(g), NEW j \in 1..Len(g), NEW k \in i..j, g[i].m # 0, g[i].m = g[j].m
      PROVE  g[k].m = g[i].m
  <2>1. CASE j <= Len(f)
    <3>1. i \in 1..Len(f) /\ j \in 1..Len(f) /\ k \in 1..Len(f)
      BY <1>1, <2>1
    <3>2. QED BY <1>1, <1>2, <3>1 DEF Whole
  <2>2. CASE j = Len(f) + 1 /\ i = Len(f) + 1
    <3>1. k = i
      BY <1>1, <2>2
    <3>2. QED BY <3>1
  <2>3. CASE j = Len(f) + 1 /\ i <= Len(f)
    <3>1. i \in 1..Len(f) /\ g[i] = f[i] /\ g[j] = line /\ Len(f) \in 1..Len(f)
      BY <1>1, <2>3
    <3>2. f[Len(f)].m = line.m
      BY <1>2, <3>1, NewLine
    <3>3. CASE k = Len(f) + 1
      BY <1>1, <1>2, <2>3, <3>3
    <3>4. CASE k <= Len(f)
      <4>1. k \in i..Len(f) /\ k \in 1..Len(f)
        BY <1>1, <3>1, <3>4
      <4>2. f[k].m = f[i].m
        BY <1>2, <3>1, <3>2, <4>1 DEF Whole
      <4>3. QED BY <1>1, <3>1, <4>1, <4>2
    <3>5. QED BY <1>1, <2>3, <3>3, <3>4
  <2>4. QED BY <1>1, <2>1, <2>2, <2>3
<1>3. QED BY <1>1, <1>2 DEF Whole, g

LEMMA AppendBoundary ==
  ASSUME NEW f, Whole(f), NEW line \in Line, NEW o, Boundary(f, o)
  PROVE  /\ Boundary(Append(f, line), o)
         /\ MessagesTo(Append(f, line), o) = MessagesTo(f, o)
<1> DEFINE g == Append(f, line)
<1>1. /\ Len(g) = Len(f) + 1 /\ Len(f) \in Nat /\ o \in 0..Len(f)
      /\ \A i \in 1..Len(f) : g[i] = f[i]
  BY AppendIndex DEF Whole, Boundary
<1> HIDE DEF g
<1>2. o \in 0..Len(g) /\ (o # 0 => g[o] = f[o]) /\ (o < Len(f) => g[o + 1] = f[o + 1] /\ o < Len(g))
  BY <1>1
<1>3. o = 0 \/ f[o].m = 0 \/ (o < Len(f) /\ f[o + 1].m # f[o].m)
  BY DEF Boundary
<1>4. Boundary(g, o)
  BY <1>2, <1>3 DEF Boundary
<1>5. \A i \in 1..o : g[i] = f[i]
  BY <1>1
<1>6. QED BY <1>4, <1>5 DEF MessagesTo, g

LEMMA AppendFirst ==
  ASSUME NEW f, Whole(f), NEW line \in Line, NEW i \in 1..Len(f)
  PROVE  /\ Append(f, line)[i] = f[i] /\ First(Append(f, line), i) <=> First(f, i)
<1> DEFINE g == Append(f, line)
<1>1. /\ Len(g) = Len(f) + 1 /\ Len(f) \in Nat
      /\ \A j \in 1..Len(f) : g[j] = f[j]
  BY AppendIndex DEF Whole
<1> HIDE DEF g
<1>2. i \in 1..Len(g) /\ g[i] = f[i] /\ \A j \in 1..(i - 1) : g[j] = f[j]
  BY <1>1
<1>3. QED BY <1>2 DEF First, g

\* The usage of a message only grows, and only that of the last message.
LEMMA AppendTop ==
  ASSUME NEW f, Whole(f), NEW line \in Line, NEW i \in 1..Len(f), f[i].m # 0
  PROVE  /\ Top(f, f[i].m) <= Top(Append(f, line), f[i].m)
         /\ line.m # f[i].m => Top(Append(f, line), f[i].m) = Top(f, f[i].m)
<1> DEFINE g == Append(f, line)
<1>1. /\ g \in Seq(Line) /\ Len(g) = Len(f) + 1 /\ Len(f) \in Nat /\ f \in Seq(Line)
      /\ \A j \in 1..Len(f) : g[j] = f[j] /\ j \in 1..Len(g)
      /\ g[Len(f) + 1] = line
  BY AppendIndex DEF Whole
<1> HIDE DEF g
<1>2. PICK j \in 1..Len(f) : f[j].m = f[i].m /\ f[j].t = Top(f, f[i].m)
  BY <1>1, TopFacts
<1>3. i \in 1..Len(g) /\ j \in 1..Len(g) /\ g[i] = f[i] /\ g[j] = f[j]
  BY <1>1
<1>4. Top(f, f[i].m) <= Top(g, f[i].m)
  BY <1>1, <1>2, <1>3, TopFacts
<1>5. ASSUME line.m # f[i].m PROVE Top(g, f[i].m) = Top(f, f[i].m)
  <2>1. ASSUME NEW k \in 1..Len(g), g[k].m = g[i].m PROVE g[k].t <= Top(f, f[i].m)
    <3>1. k \in 1..Len(f)
      BY <1>1, <1>3, <1>5, <2>1
    <3>2. g[k] = f[k] /\ f[k].m = f[i].m
      BY <1>1, <1>3, <2>1, <3>1
    <3>3. QED BY <1>1, <3>1, <3>2, TopFacts
  <2>2. Top(g, g[i].m) = Top(f, f[i].m)
    <3>1. g[j].m = g[i].m /\ g[j].t = Top(f, f[i].m)
      BY <1>2, <1>3
    <3>2. g[i].m # 0 BY <1>3
    <3>3. QED BY <1>1, <1>3, <2>1, <3>1, <3>2, TopUnique
  <2>3. QED BY <1>3, <2>2
<1>6. QED BY <1>4, <1>5 DEF g

\* What was complete up to a boundary stays so.
LEMMA AppendFull ==
  ASSUME NEW f, Whole(f), NEW line \in Line, line.m \in {0, Fresh(f), Last(f)},
         NEW o, Boundary(f, o), NEW e, Full(e, f, o)
  PROVE  Full(e, Append(f, line), o)
<1> DEFINE g == Append(f, line)
<1>0. o \in Nat /\ o <= Len(f) /\ Len(f) \in Nat
  BY DEF Boundary, Whole
<1>1. ASSUME NEW i \in 1..o, First(g, i)
      PROVE  i - 1 \in DOMAIN e /\ e[i - 1].tokens = Top(g, g[i].m)
  <2>1. i \in 1..Len(f)
    BY <1>0
  <2>2. First(f, i) /\ g[i] = f[i]
    BY <1>1, <2>1, AppendFirst
  <2>3. f[i].m # 0
    BY <2>2 DEF First
  <2>4. line.m # f[i].m
    <3>1. SUFFICES ASSUME line.m = f[i].m PROVE FALSE
      OBVIOUS
    <3>2. Len(f) > 0 /\ f[Len(f)].m = f[i].m
      BY <2>1, <2>3, <3>1, NewLine
    <3>3. CASE o < Len(f)
      <4>1. Len(f) \in (o + 1)..Len(f)
        BY <1>0, <3>3
      <4>2. QED BY <2>3, <3>2, <4>1, NoStraddle
    <3>4. CASE o = Len(f)
      BY <1>0, <2>1, <2>3, <3>2, <3>4 DEF Boundary
    <3>5. QED BY <1>0, <3>3, <3>4
  <2>5. Top(g, f[i].m) = Top(f, f[i].m)
    BY <2>1, <2>3, <2>4, AppendTop
  <2>6. i - 1 \in DOMAIN e /\ e[i - 1].tokens = Top(f, f[i].m)
    BY <1>1, <2>2 DEF Full
  <2> HIDE DEF g
  <2>7. QED BY <2>2, <2>5, <2>6
<1>2. QED BY <1>1 DEF Full
----------------------------------------------------------------------------
(* The agents *)

\* The ledger's part of the invariant, which nothing but lines, ledger and reader can disturb.
LedgerInv == CursorInv /\ OnceInv /\ FullInv /\ CountInv
settled == <<lines, ledger, reader, kept, miscounted>>

LEMMA UsageConstants ==
  /\ MaxLines \in Nat /\ MaxTokens \in Nat /\ MaxUpsets \in Nat /\ REINGEST_BATCH \in Nat \ {0}
  /\ IsFiniteSet(Sources) /\ "none" \notin Sources
BY UsageAssumption

LEMMA SettledKeeps == ASSUME LedgerInv, UNCHANGED settled PROVE LedgerInv'
<1>1. /\ lines' = lines /\ cursors' = cursors /\ events' = events /\ digest' = digest
      /\ reader' = reader /\ kept' = kept /\ miscounted' = miscounted
  BY DEF settled, ledger
<1>2. CursorInv'
  BY <1>1 DEF LedgerInv, CursorInv
<1>3. OnceInv'
  BY <1>1 DEF LedgerInv, OnceInv
<1>4. FullInv'
  BY <1>1 DEF LedgerInv, FullInv, Stale
<1>5. CountInv'
  BY <1>1 DEF LedgerInv, CountInv, Turns, Below
<1>6. QED BY <1>2, <1>3, <1>4, <1>5 DEF LedgerInv

LEMMA HandKeeps ==
  ASSUME HandInv, UNCHANGED settled, hand' = hand \/ hand' = NoHand PROVE HandInv'
BY DEF HandInv, settled, ledger, Stale

LEMMA UsageInitInv == UsageInit => UsageInv
<1> SUFFICES ASSUME UsageInit PROVE UsageInv
  OBVIOUS
<1>1. /\ lines = [s \in Sources |-> <<>>] /\ cursors = [s \in Sources |-> NoCursor]
      /\ events = [s \in Sources |-> <<>>] /\ digest = [turns |-> 0, version |-> 0]
      /\ reader = 1 /\ kept = [s \in Sources |-> FALSE] /\ hand = NoHand /\ miscounted = FALSE
      /\ torn = kept /\ present = kept /\ batch = {} /\ walk = {} /\ attempts = 0 /\ upsets = 0
  BY DEF UsageInit
<1>2. UsageTypeOK
  <2>1. NoCursor \in Cursor /\ <<>> \in [DOMAIN <<>> -> Event] /\ DOMAIN <<>> = {} /\ Len(<<>>) = 0
        /\ <<>> \in Seq(BlockLines \cup {Other}) /\ NoCursor.offset = 0
    BY UsageConstants DEF NoCursor, Cursor
  <2>2. lines \in [Sources -> Seq(BlockLines \cup {Other})] /\ cursors \in [Sources -> Cursor]
        /\ DOMAIN events = Sources
    BY <1>1, <2>1
  <2>3. \A s \in Sources :
          /\ Len(lines[s]) <= MaxLines /\ cursors[s].offset <= Len(lines[s])
          /\ DOMAIN events[s] \subseteq 0..MaxLines /\ events[s] \in [DOMAIN events[s] -> Event]
    BY <1>1, <2>1, UsageConstants
  <2>4. kept \in [Sources -> BOOLEAN] /\ digest \in [turns : Nat, version : 0..2]
    BY <1>1
  <2>5. 0 \in 0..REINGEST_BATCH /\ 0 \in 0..MaxUpsets
    BY UsageConstants
  <2>6. QED BY <1>1, <2>2, <2>3, <2>4, <2>5 DEF UsageTypeOK
<1>3. CursorInv
  <2>1. Whole(<<>>) /\ Boundary(<<>>, 0)
    BY DEF Whole, Boundary
  <2>2. NoCursor.offset = 0 /\ NoCursor.version = 0 /\ NoCursor.print = 0 /\ Len(<<>>) = 0
        /\ DOMAIN <<>> = {}
    BY DEF NoCursor
  <2>3. QED BY <1>1, <2>1, <2>2 DEF CursorInv
<1>4. HandInv
  BY <1>1 DEF HandInv
<1>5. OnceInv
  BY <1>1 DEF OnceInv
<1>6. FullInv
  BY <1>1 DEF FullInv, NoCursor
<1>7. CountInv
  <2>1. \A s \in Sources : Below(s) = {} /\ cursors[s].version = 0
    BY <1>1 DEF Below, MessagesTo, NoCursor
  <2>2. Turns = {}
    BY <2>1 DEF Turns
  <2>3. QED BY <1>1, <2>1, <2>2, FS_EmptySet DEF CountInv
<1>8. QED BY <1>2, <1>3, <1>4, <1>5, <1>6, <1>7 DEF UsageInv

\* The transcripts together have no more lines than the bound, so none of them has.
LEMMA WrittenBound ==
  ASSUME UsageTypeOK, NEW s \in Sources
  PROVE  Len(lines[s]) <= Cardinality(Written) /\ Cardinality(Written) \in Nat
<1> DEFINE n == Len(lines[s])
           P == Sources \X (1..MaxLines)
           g == [i \in 1..n |-> <<s, i>>]
<1>1. n \in Nat /\ n <= MaxLines
  BY DEF UsageTypeOK
<1>2. IsFiniteSet(1..MaxLines) /\ IsFiniteSet(1..n) /\ Cardinality(1..n) = n
  <2>1. 1 \in Int /\ n \in Int /\ MaxLines \in Int
    BY <1>1, UsageConstants
  <2>2. IsFiniteSet(1..n) /\ Cardinality(1..n) = IF 1 > n THEN 0 ELSE n - 1 + 1
    <3> HIDE DEF n
    <3>1. QED BY <2>1, FS_Interval
  <2>3. IsFiniteSet(1..MaxLines)
    BY <2>1, FS_Interval
  <2> HIDE DEF n
  <2>4. QED BY <1>1, <2>2, <2>3
<1>3. IsFiniteSet(P)
  BY <1>2, UsageConstants, FS_Product
<1>4. Written \in SUBSET P
  BY DEF Written
<1>5. IsFiniteSet(Written)
  <2> HIDE DEF P
  <2>1. QED BY <1>3, <1>4, FS_Subset
<1>6. \A i \in 1..n : <<s, i>> \in Written
  BY <1>1, UsageConstants DEF Written
<1>7. g \in Injection(1..n, Written)
  BY <1>6 DEF Injection, IsInjective
<1>8. Cardinality(1..n) <= Cardinality(Written)
  <2> HIDE DEF g, n
  <2>1. QED BY <1>5, <1>7, FS_Injection
<1>9. QED BY <1>2, <1>5, <1>8, FS_CardinalityType

LEMMA AppendType ==
  ASSUME UsageInv, NEW s \in Sources, AppendLine(s)
  PROVE  UsageTypeOK'
<1>1. PICK line \in Line : lines' = [lines EXCEPT ![s] = Append(@, line)]
  BY DEF AppendLine, Line
<1>2. /\ torn' = [torn EXCEPT ![s] = FALSE] /\ present' = [present EXCEPT ![s] = TRUE]
      /\ Cardinality(Written) < MaxLines
      /\ cursors' = cursors /\ events' = events /\ digest' = digest /\ reader' = reader
      /\ batch' = batch /\ walk' = walk /\ attempts' = attempts /\ hand' = hand /\ kept' = kept
      /\ miscounted' = miscounted /\ upsets' = upsets
  BY DEF AppendLine, ledger, ingest
<1>3. UsageTypeOK
  BY DEF UsageInv
<1>4. lines \in [Sources -> Seq(Line)]
  BY <1>3 DEF UsageTypeOK, Line
<1>5. lines' \in [Sources -> Seq(Line)] /\ Len(lines'[s]) = Len(lines[s]) + 1
      /\ \A r \in Sources : r # s => lines'[r] = lines[r]
  BY <1>1, <1>4, AppendIndex
<1>6. Len(lines[s]) \in Nat /\ Len(lines[s]) < MaxLines
  BY <1>2, <1>3, <1>4, WrittenBound, UsageConstants
<1>7. cursors[s].offset \in Nat /\ cursors[s].offset <= Len(lines[s])
  BY <1>3 DEF UsageTypeOK, Cursor
<1>8. \A r \in Sources : Len(lines'[r]) <= MaxLines /\ cursors'[r].offset <= Len(lines'[r])
  <2>1. TAKE r \in Sources
  <2>2. CASE r = s
    BY <1>2, <1>5, <1>6, <1>7, <2>2, UsageConstants
  <2>3. CASE r # s
    BY <1>2, <1>3, <1>5, <2>3 DEF UsageTypeOK
  <2>4. QED BY <2>2, <2>3
<1>9. torn' \in [Sources -> BOOLEAN] /\ present' \in [Sources -> BOOLEAN]
  BY <1>2, <1>3 DEF UsageTypeOK
<1>10. QED BY <1>2, <1>3, <1>5, <1>8, <1>9 DEF UsageTypeOK, Line

LEMMA AppendKeeps ==
  ASSUME UsageInv, NEW s \in Sources, AppendLine(s)
  PROVE  UsageInv'
<1>1. PICK line \in Line :
        line.m \in {0, Fresh(lines[s]), Last(lines[s])} /\ lines' = [lines EXCEPT ![s] = Append(@, line)]
  BY DEF AppendLine, Line, Newest, LastBlock, Fresh, Last
<1>2. /\ cursors' = cursors /\ events' = events /\ digest' = digest /\ reader' = reader
      /\ hand' = hand /\ kept' = kept /\ miscounted' = miscounted
  BY DEF AppendLine, ledger, ingest
<1>3. UsageTypeOK /\ CursorInv /\ HandInv /\ OnceInv /\ FullInv /\ CountInv
  BY DEF UsageInv
<1> DEFINE f == lines[s]
           g == Append(f, line)
<1>4. lines'[s] = g /\ \A r \in Sources : r # s => lines'[r] = lines[r]
  BY <1>1, <1>3 DEF UsageTypeOK
<1>5. Whole(f) /\ Boundary(f, cursors[s].offset) /\ f \in Seq(Line)
  BY <1>3 DEF CursorInv, Whole
<1>6. Len(g) = Len(f) + 1 /\ Len(f) \in Nat
  BY <1>5, AppendIndex
<1>7. Whole(g) /\ Boundary(g, cursors[s].offset)
      /\ MessagesTo(g, cursors[s].offset) = MessagesTo(f, cursors[s].offset)
  BY <1>1, <1>5, AppendWhole, AppendBoundary
<1>8. /\ cursors[s].print \in Nat /\ cursors[s].print <= 2 * Len(f) + 2
      /\ \A r \in Sources : cursors[r].print \in Nat
  BY <1>3 DEF CursorInv, UsageTypeOK, Cursor
<1> HIDE DEF g
<1>9. CursorInv'
  <2>1. ASSUME NEW r \in Sources
        PROVE  /\ Whole(lines'[r]) /\ Boundary(lines'[r], cursors[r].offset)
               /\ cursors[r].version <= reader /\ cursors[r].print <= 2 * Len(lines'[r]) + 2
               /\ ~cursors[r].known => cursors[r].offset = 0 /\ DOMAIN events[r] = {}
    <3>1. CASE r = s
      <4>1. cursors[s].print <= 2 * Len(g) + 2
        BY <1>6, <1>8
      <4>2. QED BY <1>3, <1>4, <1>7, <3>1, <4>1 DEF CursorInv
    <3>2. CASE r # s
      BY <1>3, <1>4, <3>2 DEF CursorInv
    <3>3. QED BY <3>1, <3>2
  <2>2. QED BY <1>2, <2>1 DEF CursorInv
<1>10. HandInv'
  <2>1. SUFFICES ASSUME hand # NoHand
                 PROVE  hand.stale = Stale(hand.src) /\ hand.print <= 2 * Len(lines'[hand.src]) + 2
    BY <1>2 DEF HandInv, Stale
  <2>2. hand \in [src : Sources, print : Nat, stale : BOOLEAN]
    BY <1>3, <2>1 DEF UsageTypeOK
  <2>3. hand.stale = Stale(hand.src) /\ hand.print <= 2 * Len(lines[hand.src]) + 2
        /\ hand.print \in Nat /\ hand.src \in Sources
    BY <1>3, <2>1, <2>2 DEF HandInv
  <2>4. CASE hand.src = s
    BY <1>4, <1>6, <2>3, <2>4
  <2>5. CASE hand.src # s
    BY <1>4, <2>3, <2>5
  <2>6. QED BY <2>4, <2>5
<1>11. OnceInv'
  <2>1. ASSUME NEW r \in Sources, NEW o \in DOMAIN events[r]
        PROVE  First(lines'[r], o + 1) /\ events[r][o].tokens <= Top(lines'[r], lines'[r][o + 1].m)
    <3>1. First(lines[r], o + 1) /\ events[r][o].tokens <= Top(lines[r], lines[r][o + 1].m)
      BY <1>3 DEF OnceInv
    <3>2. CASE r # s
      BY <1>4, <3>1, <3>2
    <3>3. CASE r = s
      <4>1. o + 1 \in 1..Len(f) /\ f[o + 1].m # 0
        BY <3>1, <3>3 DEF First
      <4>2. g[o + 1] = f[o + 1] /\ First(g, o + 1)
        BY <1>5, <3>1, <3>3, <4>1, AppendFirst DEF g
      <4>3. Top(f, f[o + 1].m) <= Top(g, f[o + 1].m)
        BY <1>5, <4>1, AppendTop DEF g
      <4>4. Top(f, f[o + 1].m) \in Nat /\ Top(g, g[o + 1].m) \in Nat
        <5>1. g \in Seq(Line) /\ o + 1 \in 1..Len(g)
          BY <1>6, <1>7, <4>1 DEF Whole
        <5>2. QED BY <1>5, <4>1, <4>2, <5>1, TopFacts
      <4>5. events[r][o].tokens \in Nat
        BY <1>3 DEF UsageTypeOK, Event
      <4>6. QED BY <1>4, <3>1, <3>3, <4>2, <4>3, <4>4, <4>5
    <3>4. QED BY <3>2, <3>3
  <2>2. QED BY <1>2, <2>1 DEF OnceInv
<1>12. FullInv'
  <2>1. ASSUME NEW r \in Sources, cursors[r].known, ~Stale(r), ~kept[r]
        PROVE  /\ \A o \in DOMAIN events[r] : events[r][o].reader = reader
               /\ Full(events[r], lines'[r], cursors[r].offset)
               /\ ~cursors[r].error /\ cursors[r].print > 2 * Len(lines'[r]) =>
                    Full(events[r], lines'[r], Len(lines'[r])) /\ AtEnd(lines'[r], cursors[r].offset)
    <3>1. CASE r # s
      BY <1>3, <1>4, <2>1, <3>1 DEF FullInv
    <3>2. CASE r = s
      <4>1. ~(cursors[s].print > 2 * Len(g))
        BY <1>6, <1>8
      <4>2. Full(events[s], f, cursors[s].offset)
        BY <1>3, <2>1, <3>2 DEF FullInv
      <4>3. Full(events[s], g, cursors[s].offset)
        BY <1>1, <1>5, <4>2, AppendFull DEF g
      <4>4. \A o \in DOMAIN events[s] : events[s][o].reader = reader
        BY <1>3, <2>1, <3>2 DEF FullInv
      <4>5. QED BY <1>4, <3>2, <4>1, <4>3, <4>4
    <3>3. QED BY <3>1, <3>2
  <2>2. QED BY <1>2, <2>1 DEF FullInv, Stale
<1>13. CountInv'
  <2>1. \A r \in Sources : MessagesTo(lines'[r], cursors'[r].offset) = MessagesTo(lines[r], cursors[r].offset)
    BY <1>2, <1>4, <1>7
  <2>2. Turns' = Turns
    BY <1>2, <2>1 DEF Turns, Below
  <2>3. QED BY <1>2, <1>3, <2>1, <2>2 DEF CountInv, Below
<1>14. QED BY <1>9, <1>10, <1>11, <1>12, <1>13, AppendType DEF UsageInv

LEMMA OtherAgentsKeep ==
  ASSUME UsageInv, NEW s \in Sources, Tear(s) \/ Vanish(s) \/ Reappear(s)
  PROVE  UsageInv'
<1>1. UNCHANGED settled /\ hand' = hand /\ UNCHANGED <<batch, walk, attempts>>
  BY DEF Tear, Vanish, Reappear, ledger, ingest, settled
<1>2. LedgerInv' /\ HandInv'
  BY <1>1, SettledKeeps, HandKeeps DEF UsageInv, LedgerInv
<1>3. UsageTypeOK
  BY DEF UsageInv
<1>4. torn' \in [Sources -> BOOLEAN] /\ present' \in [Sources -> BOOLEAN]
  <2>1. torn \in [Sources -> BOOLEAN] /\ present \in [Sources -> BOOLEAN]
    BY <1>3 DEF UsageTypeOK
  <2>2. CASE Tear(s)
    <3>1. torn' = [torn EXCEPT ![s] = TRUE] /\ present' = present
      BY <2>2 DEF Tear
    <3>2. QED BY <2>1, <3>1
  <2>3. CASE Vanish(s)
    <3>1. present' = [present EXCEPT ![s] = FALSE] /\ torn' = torn
      BY <2>3 DEF Vanish
    <3>2. QED BY <2>1, <3>1
  <2>4. CASE Reappear(s)
    <3>1. present' = [present EXCEPT ![s] = TRUE] /\ torn' = torn
      BY <2>4 DEF Reappear
    <3>2. QED BY <2>1, <3>1
  <2>5. QED BY <2>2, <2>3, <2>4
<1>5. upsets' \in 0..MaxUpsets
  BY <1>3, UsageConstants DEF UsageTypeOK, Tear, Vanish, Reappear, Upset
<1>6. UsageTypeOK'
  BY <1>1, <1>3, <1>4, <1>5 DEF UsageTypeOK, settled, ledger
<1>7. QED BY <1>2, <1>6 DEF UsageInv, LedgerInv

LEMMA ReloadKeeps == ASSUME UsageInv, Reload PROVE UsageInv'
<1>1. /\ lines' = lines /\ cursors' = cursors /\ events' = events /\ digest' = digest
      /\ torn' = torn /\ present' = present /\ kept' = kept /\ miscounted' = miscounted
      /\ batch' = {} /\ walk' = {} /\ attempts' = 0 /\ hand' = NoHand
  BY DEF Reload, transcripts, ledger
<1>2. UsageTypeOK /\ CursorInv /\ OnceInv /\ FullInv /\ CountInv
  BY DEF UsageInv
<1>3. reader \in {1, 2} /\ reader' \in {1, 2} /\ reader <= reader' /\ (reader' = reader \/ reader < reader')
  BY <1>2 DEF Reload, UsageTypeOK
<1>4. upsets' \in 0..MaxUpsets /\ 0 \in 0..REINGEST_BATCH
  BY <1>2, UsageConstants DEF Reload, Upset, UsageTypeOK
<1>5. UsageTypeOK'
  BY <1>1, <1>2, <1>3, <1>4 DEF UsageTypeOK
<1>6. \A s \in Sources : cursors[s].version \in Nat
  BY <1>2 DEF UsageTypeOK, Cursor
<1>7. CursorInv'
  BY <1>1, <1>2, <1>3, <1>6 DEF CursorInv
<1>8. HandInv' /\ OnceInv'
  BY <1>1, <1>2 DEF HandInv, OnceInv
<1>9. FullInv'
  <2>1. CASE reader' = reader
    BY <1>1, <1>2, <2>1 DEF FullInv, Stale
  <2>2. CASE reader < reader'
    <3>1. \A s \in Sources : cursors[s].known => cursors[s].version < reader'
      BY <1>2, <1>3, <1>6, <2>2 DEF CursorInv
    <3>2. QED BY <1>1, <3>1 DEF FullInv, Stale
  <2>3. QED BY <1>3, <2>1, <2>2
<1>10. CountInv'
  <2>1. Turns' = Turns /\ \A s \in Sources : MessagesTo(lines'[s], cursors'[s].offset) = Below(s)
    BY <1>1 DEF Turns, Below
  <2>2. digest.version \in Nat
    BY <1>2 DEF UsageTypeOK
  <2>3. QED BY <1>1, <1>2, <1>3, <2>1, <2>2 DEF CountInv, Below
<1>11. QED BY <1>5, <1>7, <1>8, <1>9, <1>10 DEF UsageInv

LEMMA PublishFaultKeeps == ASSUME UsageInv, PublishFault PROVE UsageInv'
<1>1. /\ UNCHANGED settled /\ UNCHANGED <<torn, present, attempts>>
      /\ hand' = NoHand /\ batch' = {} /\ walk' = {}
  BY DEF PublishFault, transcripts, ledger, settled
<1>2. LedgerInv' /\ HandInv'
  BY <1>1, SettledKeeps, HandKeeps DEF UsageInv, LedgerInv
<1>3. UsageTypeOK
  BY DEF UsageInv
<1>4. upsets' \in 0..MaxUpsets
  BY <1>3, UsageConstants DEF UsageTypeOK, PublishFault, Upset
<1>5. UsageTypeOK'
  BY <1>1, <1>3, <1>4 DEF UsageTypeOK, settled, ledger
<1>6. QED BY <1>2, <1>5 DEF UsageInv, LedgerInv
----------------------------------------------------------------------------
(* The pass *)

LEMMA PrintBounds ==
  ASSUME UsageTypeOK, NEW s \in Sources
  PROVE  /\ Fingerprint(s) \in Nat /\ Fingerprint(s) <= 2 * Len(lines[s]) + 2
         /\ present[s] => Fingerprint(s) > 2 * Len(lines[s])
<1>1. Len(lines[s]) \in Nat /\ present[s] \in BOOLEAN
  BY DEF UsageTypeOK
<1> DEFINE n == Len(lines[s])
<1>2. CASE ~present[s]
  <2>1. Fingerprint(s) = 0
    BY <1>2 DEF Fingerprint
  <2>2. QED BY <1>1, <1>2, <2>1
<1>3. CASE present[s]
  <2>1. Fingerprint(s) = 2 * n + 2 \/ Fingerprint(s) = 2 * n + 1
    BY <1>3 DEF Fingerprint
  <2> HIDE DEF n
  <2>2. QED BY <1>1, <2>1 DEF n
<1>4. QED BY <1>2, <1>3

LEMMA ConsiderKeeps == ASSUME UsageInv, NEW s \in Sources, Consider(s) PROVE UsageInv'
<1>1. /\ UNCHANGED settled /\ UNCHANGED <<torn, present, upsets>> /\ hand = NoHand
      /\ batch' = batch \ {s} /\ walk' = walk \ {s}
  BY DEF Consider, transcripts, ledger, settled
<1>2. UsageTypeOK /\ LedgerInv /\ HandInv
  BY DEF UsageInv, LedgerInv
<1>3. LedgerInv'
  BY <1>1, <1>2, SettledKeeps
<1>4. Stale(s) \in BOOLEAN /\ Fingerprint(s) \in Nat /\ Fingerprint(s) <= 2 * Len(lines[s]) + 2
  BY <1>2, PrintBounds DEF Stale, UsageTypeOK, Cursor
<1>5. CASE Leaves(s)
  <2>1. hand' = hand /\ attempts' = attempts
    BY <1>5 DEF Consider
  <2>2. HandInv'
    BY <1>1, <1>2, <2>1, HandKeeps
  <2>3. UsageTypeOK'
    BY <1>1, <1>2, <2>1 DEF UsageTypeOK, settled, ledger
  <2>4. QED BY <1>3, <2>2, <2>3 DEF UsageInv, LedgerInv
<1>6. CASE ~Leaves(s)
  <2>1. /\ hand' = [src |-> s, print |-> Fingerprint(s), stale |-> Stale(s)]
        /\ attempts' = IF Stale(s) THEN attempts + 1 ELSE attempts
    BY <1>6 DEF Consider
  <2>2. hand'.src = s /\ hand'.print = Fingerprint(s) /\ hand'.stale = Stale(s)
        /\ hand' \in [src : Sources, print : Nat, stale : BOOLEAN]
    BY <1>4, <2>1
  <2>3. lines' = lines /\ cursors' = cursors /\ reader' = reader
    BY <1>1 DEF settled, ledger
  <2>4. HandInv'
    BY <1>4, <2>2, <2>3 DEF HandInv, Stale
  <2>5. attempts' \in 0..REINGEST_BATCH
    BY <1>2, <1>6, <2>1, UsageConstants DEF Leaves, UsageTypeOK
  <2>6. UsageTypeOK'
    BY <1>1, <1>2, <2>2, <2>5 DEF UsageTypeOK, settled, ledger
  <2>7. QED BY <1>3, <2>4, <2>6 DEF UsageInv, LedgerInv
<1>7. QED BY <1>5, <1>6

\* Sources that are missing are retired: they are not counted on any more.
LEMMA IngestPassKeeps == ASSUME UsageInv, IngestPass PROVE UsageInv'
<1> DEFINE stales == {s \in Sources : Stale(s)}
<1>1. PICK chosen \in SUBSET stales :
        LET gone == {s \in chosen : ~present[s]} IN
        /\ Cardinality(chosen) = IF Cardinality(stales) < REINGEST_BATCH
                                 THEN Cardinality(stales) ELSE REINGEST_BATCH
        /\ batch' = chosen \ gone /\ walk' = {s \in Sources \ chosen : present[s]}
        /\ cursors' = [s \in Sources |->
                         IF s \in gone THEN [cursors[s] EXCEPT !.version = reader, !.failures = 0]
                         ELSE cursors[s]]
        /\ kept' = [s \in Sources |-> kept[s] \/ s \in gone]
        /\ miscounted' = (miscounted \/ gone # {})
        /\ attempts' = Cardinality(gone)
  BY DEF IngestPass
<1> DEFINE gone == {s \in chosen : ~present[s]}
<1>2. /\ lines' = lines /\ torn' = torn /\ present' = present /\ events' = events
      /\ digest' = digest /\ reader' = reader /\ hand' = hand /\ upsets' = upsets /\ hand = NoHand
  BY DEF IngestPass, transcripts
<1>3. UsageTypeOK /\ CursorInv /\ OnceInv /\ FullInv /\ CountInv
  BY DEF UsageInv
<1>4. /\ batch' = chosen \ gone /\ walk' = {s \in Sources \ chosen : present[s]}
      /\ chosen \subseteq Sources /\ gone \subseteq chosen
  BY <1>1
<1>5. attempts' \in 0..REINGEST_BATCH
  <2>1. IsFiniteSet(stales)
    <3>1. stales \in SUBSET Sources OBVIOUS
    <3> HIDE DEF stales
    <3>2. QED BY <3>1, UsageConstants, FS_Subset
  <2>2. IsFiniteSet(chosen) /\ Cardinality(stales) \in Nat
    <3> HIDE DEF stales
    <3>1. QED BY <2>1, FS_Subset, FS_CardinalityType
  <2>3. Cardinality(chosen) \in Nat /\ Cardinality(chosen) <= REINGEST_BATCH
    <3>1. Cardinality(chosen) = IF Cardinality(stales) < REINGEST_BATCH
                                THEN Cardinality(stales) ELSE REINGEST_BATCH
      BY <1>1
    <3> HIDE DEF stales
    <3>2. QED BY <2>2, <3>1, UsageConstants
  <2>4. gone \in SUBSET chosen OBVIOUS
  <2>5. attempts' = Cardinality(gone)
    BY <1>1
  <2> HIDE DEF gone
  <2>6. Cardinality(gone) \in Nat /\ Cardinality(gone) <= Cardinality(chosen)
    BY <2>2, <2>4, FS_Subset, FS_CardinalityType
  <2>7. QED BY <2>3, <2>5, <2>6, UsageConstants
<1>6. /\ cursors' = [s \in Sources |->
                       IF s \in gone THEN [cursors[s] EXCEPT !.version = reader, !.failures = 0]
                       ELSE cursors[s]]
      /\ kept' = [s \in Sources |-> kept[s] \/ s \in gone]
      /\ miscounted' = (miscounted \/ gone # {})
  BY <1>1
<1> HIDE DEF gone, stales
<1>7. reader \in 0..2 /\ cursors \in [Sources -> Cursor] /\ miscounted \in BOOLEAN
      /\ kept \in [Sources -> BOOLEAN]
  BY <1>3 DEF UsageTypeOK
<1>8. \A s \in Sources :
        /\ cursors'[s] \in Cursor
        /\ cursors'[s].known = cursors[s].known /\ cursors'[s].offset = cursors[s].offset
        /\ cursors'[s].print = cursors[s].print /\ cursors'[s].error = cursors[s].error
        /\ s \in gone => cursors'[s].version = reader
        /\ s \notin gone => cursors'[s] = cursors[s]
        /\ kept'[s] <=> kept[s] \/ s \in gone
  <2>1. TAKE s \in Sources
  <2>2. kept'[s] <=> kept[s] \/ s \in gone
    BY <1>6
  <2>3. CASE s \in gone
    <3>1. cursors'[s] = [cursors[s] EXCEPT !.version = reader, !.failures = 0]
      BY <1>6, <2>3
    <3>2. cursors[s] \in Cursor
      BY <1>7
    <3>3. /\ cursors'[s] \in Cursor
          /\ cursors'[s].known = cursors[s].known /\ cursors'[s].offset = cursors[s].offset
          /\ cursors'[s].print = cursors[s].print /\ cursors'[s].error = cursors[s].error
          /\ cursors'[s].version = reader
      <4> DEFINE c == cursors[s]
      <4>1. c \in Cursor /\ reader \in 0..2 /\ 0 \in 0..2
        BY <1>7
      <4>2. cursors'[s] = [c EXCEPT !.version = reader, !.failures = 0]
        BY <3>1
      <4> HIDE DEF c
      <4>3. cursors'[s] = [known |-> c.known, offset |-> c.offset, print |-> c.print,
                           error |-> c.error, version |-> reader, failures |-> 0]
        BY <4>1, <4>2 DEF Cursor
      <4>4. QED BY <4>1, <4>3 DEF Cursor, c
    <3>4. QED BY <2>2, <2>3, <3>3
  <2>4. CASE s \notin gone
    BY <1>6, <1>7, <2>2, <2>4
  <2>5. QED BY <2>3, <2>4
<1>9. UsageTypeOK'
  <2>1. cursors' \in [Sources -> Cursor]
    BY <1>6, <1>8
  <2>2. kept' \in [Sources -> BOOLEAN] /\ miscounted' \in BOOLEAN
    BY <1>6, <1>7
  <2>3. batch' \subseteq Sources /\ walk' \subseteq Sources \ batch'
    BY <1>4
  <2>4. \A s \in Sources : cursors'[s].offset <= Len(lines'[s])
    BY <1>2, <1>3, <1>8 DEF UsageTypeOK
  <2>5. QED BY <1>2, <1>3, <1>5, <2>1, <2>2, <2>3, <2>4 DEF UsageTypeOK
<1>10. CursorInv'
  <2>1. \A s \in Sources : cursors'[s].version <= reader
    BY <1>3, <1>7, <1>8 DEF CursorInv
  <2>2. QED BY <1>2, <1>3, <1>8, <2>1 DEF CursorInv
<1>11. HandInv' /\ OnceInv'
  BY <1>2, <1>3 DEF HandInv, OnceInv
<1>12. FullInv'
  <2>1. ASSUME NEW s \in Sources, cursors'[s].known, ~Stale(s)', ~kept'[s]
        PROVE  cursors'[s] = cursors[s] /\ cursors[s].known /\ ~Stale(s) /\ ~kept[s]
    BY <1>2, <1>8, <2>1 DEF Stale
  <2>2. QED BY <1>2, <1>3, <2>1 DEF FullInv, Stale
<1>13. CountInv'
  <2>1. \A s \in Sources : kept'[s] => miscounted'
    BY <1>3, <1>6, <1>8 DEF CountInv
  <2>2. ASSUME ~miscounted' PROVE ~miscounted /\ cursors' = cursors
    <3>1. ~miscounted /\ gone = {}
      BY <1>6, <2>2
    <3>2. QED BY <1>6, <1>7, <3>1
  <2>3. ASSUME ~miscounted'
        PROVE  /\ digest'.turns = Cardinality(Turns')
               /\ \A s \in Sources : cursors'[s].version > digest'.version
                                       => MessagesTo(lines'[s], cursors'[s].offset) = {}
    BY <1>2, <1>3, <2>2, <2>3 DEF CountInv, Turns, Below
  <2>4. QED BY <1>2, <1>3, <2>1, <2>3 DEF CountInv, Below
<1>14. QED BY <1>9, <1>10, <1>11, <1>12, <1>13 DEF UsageInv

\* What is in the hand is a source.
LEMMA InHand ==
  ASSUME UsageTypeOK, HandInv, NEW s \in Sources, hand.src = s
  PROVE  /\ hand # NoHand /\ hand.print \in Nat /\ hand.print <= 2 * Len(lines[s]) + 2
         /\ hand.stale \in BOOLEAN /\ (hand.stale <=> Stale(s))
<1>1. hand # NoHand
  BY UsageConstants DEF NoHand
<1>2. hand \in [src : Sources, print : Nat, stale : BOOLEAN]
  BY <1>1 DEF UsageTypeOK
<1>3. QED BY <1>1, <1>2 DEF HandInv

LEMMA CursorParts ==
  ASSUME NEW c \in Cursor, NEW v, NEW n
  PROVE  /\ [c EXCEPT !.error = TRUE, !.version = v, !.failures = 0] =
              [known |-> c.known, offset |-> c.offset, print |-> c.print, error |-> TRUE,
               version |-> v, failures |-> 0]
         /\ [c EXCEPT !.error = TRUE, !.failures = n] =
              [known |-> c.known, offset |-> c.offset, print |-> c.print, error |-> TRUE,
               version |-> c.version, failures |-> n]
<1>1. ASSUME NEW d, d = [c EXCEPT !.error = TRUE, !.version = v, !.failures = 0]
      PROVE  d = [known |-> c.known, offset |-> c.offset, print |-> c.print, error |-> TRUE,
                  version |-> v, failures |-> 0]
  BY <1>1 DEF Cursor
<1>2. ASSUME NEW d, d = [c EXCEPT !.error = TRUE, !.failures = n]
      PROVE  d = [known |-> c.known, offset |-> c.offset, print |-> c.print, error |-> TRUE,
                  version |-> c.version, failures |-> n]
  BY <1>2 DEF Cursor
<1>3. QED BY <1>1, <1>2

\* A failed read leaves the cursor where it is, retires the source, or notes the error.
LEMMA FailedCursor ==
  ASSUME UsageInv, NEW s \in Sources, ReadFails(s)
  PROVE  /\ cursors' \in [Sources -> Cursor]
         /\ \A r \in Sources : r # s => cursors'[r] = cursors[r]
         /\ cursors'[s].offset \in {0, cursors[s].offset}
         /\ cursors'[s].print \in {cursors[s].print, hand.print}
         /\ \/ /\ hand.stale /\ cursors'[s].version # reader
               /\ cursors'[s].known /\ cursors'[s].offset = cursors[s].offset
               /\ cursors'[s].version = cursors[s].version
            \/ hand.stale /\ cursors'[s].version = reader /\ cursors'[s].known
            \/ /\ ~hand.stale /\ cursors'[s].known /\ cursors'[s].error
               /\ cursors'[s].offset = cursors[s].offset
               /\ cursors'[s].version = IF cursors[s].known THEN cursors[s].version ELSE reader
<1> DEFINE c == cursors[s]
<1>1. UsageTypeOK /\ HandInv
  BY DEF UsageInv
<1>2. /\ hand.src = s /\ hand.print \in Nat /\ hand.stale \in BOOLEAN /\ (hand.stale <=> Stale(s))
  BY <1>1, InHand DEF ReadFails
<1>3. cursors \in [Sources -> Cursor] /\ c \in Cursor /\ reader \in 0..2
  BY <1>1 DEF UsageTypeOK
<1>4. /\ c.known \in BOOLEAN /\ c.offset \in 0..MaxLines /\ c.print \in Nat /\ c.error \in BOOLEAN
      /\ c.version \in 0..2 /\ c.failures \in 0..2 /\ 0 \in 0..2 /\ 0 \in 0..MaxLines
  BY <1>3, UsageConstants DEF Cursor
<1>5. hand.stale => c.known /\ c.version < reader
  BY <1>2 DEF Stale
<1>6. PICK d \in Cursor :
        /\ cursors' = [cursors EXCEPT ![s] = d]
        /\ d.offset \in {0, c.offset} /\ d.print \in {c.print, hand.print}
        /\ \/ /\ hand.stale /\ d.version # reader
              /\ d.known /\ d.offset = c.offset /\ d.version = c.version
           \/ hand.stale /\ d.version = reader /\ d.known
           \/ /\ ~hand.stale /\ d.known /\ d.error /\ d.offset = c.offset
              /\ d.version = IF c.known THEN c.version ELSE reader
  <2>1. CASE hand.stale /\ present[s] /\ cursors' = cursors
    <3>1. cursors' = [cursors EXCEPT ![s] = c]
      BY <1>3, <2>1
    <3>2. c.version # reader
      BY <1>3, <1>4, <1>5, <2>1
    <3> HIDE DEF c
    <3>3. QED BY <1>3, <1>5, <2>1, <3>1, <3>2
  <2>2. CASE hand.stale /\ present[s] /\ c.failures + 1 >= 3
             /\ cursors' = [cursors EXCEPT ![s] = [c EXCEPT !.error = TRUE, !.version = reader, !.failures = 0]]
    <3> DEFINE d == [known |-> c.known, offset |-> c.offset, print |-> c.print, error |-> TRUE,
                     version |-> reader, failures |-> 0]
    <3>1. d \in Cursor
      BY <1>3, <1>4 DEF Cursor
    <3>2. [c EXCEPT !.error = TRUE, !.version = reader, !.failures = 0] = d
      BY <1>3, CursorParts
    <3>3. d.offset = c.offset /\ d.print = c.print /\ d.version = reader /\ d.known
      BY <1>5, <2>2
    <3> HIDE DEF c, d
    <3>4. cursors' = [cursors EXCEPT ![s] = d]
      BY <2>2, <3>2
    <3>5. QED BY <2>2, <3>1, <3>3, <3>4
  <2>3. CASE hand.stale /\ present[s] /\ ~(c.failures + 1 >= 3)
             /\ cursors' = [cursors EXCEPT ![s] = [c EXCEPT !.error = TRUE, !.failures = c.failures + 1]]
    <3> DEFINE d == [known |-> c.known, offset |-> c.offset, print |-> c.print, error |-> TRUE,
                     version |-> c.version, failures |-> c.failures + 1]
    <3>1. d \in Cursor
      BY <1>3, <1>4, <2>3 DEF Cursor
    <3>2. [c EXCEPT !.error = TRUE, !.failures = c.failures + 1] = d
      BY <1>3, CursorParts
    <3>3. d.offset = c.offset /\ d.print = c.print /\ d.version = c.version /\ d.version # reader /\ d.known
      BY <1>3, <1>4, <1>5, <2>3
    <3> HIDE DEF c, d
    <3>4. cursors' = [cursors EXCEPT ![s] = d]
      BY <2>3, <3>2
    <3>5. QED BY <2>3, <3>1, <3>3, <3>4
  <2>4. CASE /\ ~(hand.stale /\ present[s])
             /\ cursors' = [cursors EXCEPT ![s] =
                  [known |-> TRUE, offset |-> IF hand.stale THEN 0 ELSE c.offset, print |-> hand.print,
                   error |-> TRUE, version |-> IF hand.stale \/ ~c.known THEN reader ELSE c.version,
                   failures |-> 0]]
    <3> DEFINE d == [known |-> TRUE, offset |-> IF hand.stale THEN 0 ELSE c.offset, print |-> hand.print,
                     error |-> TRUE, version |-> IF hand.stale \/ ~c.known THEN reader ELSE c.version,
                     failures |-> 0]
    <3>1. d \in Cursor
      BY <1>2, <1>3, <1>4 DEF Cursor
    <3>2. /\ d.offset = (IF hand.stale THEN 0 ELSE c.offset) /\ d.print = hand.print
          /\ d.version = (IF hand.stale \/ ~c.known THEN reader ELSE c.version) /\ d.known /\ d.error
      OBVIOUS
    <3>3. cursors' = [cursors EXCEPT ![s] = d]
      BY <2>4
    <3> HIDE DEF c, d
    <3>4. QED BY <1>2, <3>1, <3>2, <3>3
  <2>5. QED BY <2>1, <2>2, <2>3, <2>4 DEF ReadFails
<1>7. cursors'[s] = d /\ cursors' \in [Sources -> Cursor] /\ \A r \in Sources : r # s => cursors'[r] = cursors[r]
  BY <1>3, <1>6
<1> HIDE DEF c
<1>8. QED BY <1>6, <1>7 DEF c

LEMMA ReadFailsKeeps == ASSUME UsageInv, NEW s \in Sources, ReadFails(s) PROVE UsageInv'
<1>1. UsageTypeOK /\ CursorInv /\ HandInv /\ OnceInv /\ FullInv /\ CountInv
  BY DEF UsageInv
<1>2. /\ lines' = lines /\ torn' = torn /\ present' = present /\ events' = events /\ digest' = digest
      /\ reader' = reader /\ batch' = batch /\ walk' = walk /\ attempts' = attempts
      /\ hand' = NoHand /\ hand.src = s
  BY DEF ReadFails, transcripts
<1>3. /\ hand.print \in Nat /\ hand.print <= 2 * Len(lines[s]) + 2
      /\ hand.stale \in BOOLEAN /\ (hand.stale <=> Stale(s))
  BY <1>1, <1>2, InHand
<1>4. /\ kept' = [kept EXCEPT ![s] = @ \/ (hand.stale /\ cursors'[s].version = reader)]
      /\ miscounted' = (miscounted \/ kept' # kept)
  BY DEF ReadFails
<1>5. kept \in [Sources -> BOOLEAN] /\ miscounted \in BOOLEAN
  BY <1>1 DEF UsageTypeOK
<1>6. /\ kept' \in [Sources -> BOOLEAN] /\ miscounted' \in BOOLEAN
      /\ kept'[s] <=> kept[s] \/ (hand.stale /\ cursors'[s].version = reader)
      /\ \A r \in Sources : r # s => kept'[r] = kept[r]
  BY <1>4, <1>5
<1>7. Boundary(lines[s], 0)
  BY <1>1 DEF CursorInv, Boundary, Whole
<1>8. UsageTypeOK'
  <2>1. upsets' \in 0..MaxUpsets
    BY <1>1, UsageConstants DEF ReadFails, Upset, UsageTypeOK
  <2>2. \A r \in Sources : cursors'[r].offset <= Len(lines'[r])
    <3>1. Len(lines[s]) \in Nat
      BY <1>1 DEF UsageTypeOK
    <3>2. \A r \in Sources : cursors[r].offset <= Len(lines[r])
      BY <1>1 DEF UsageTypeOK
    <3>3. TAKE r \in Sources
    <3>4. cursors'[r].offset \in {0, cursors[r].offset}
      BY FailedCursor
    <3>5. Len(lines[r]) \in Nat
      BY <1>1 DEF UsageTypeOK
    <3>6. QED BY <1>2, <3>2, <3>4, <3>5
  <2>3. cursors' \in [Sources -> Cursor]
    BY FailedCursor
  <2>4. QED BY <1>1, <1>2, <1>6, <2>1, <2>2, <2>3 DEF UsageTypeOK
<1>9. CursorInv'
  <2>1. ASSUME NEW r \in Sources
        PROVE  /\ Whole(lines[r]) /\ Boundary(lines[r], cursors'[r].offset)
               /\ cursors'[r].version <= reader /\ cursors'[r].print <= 2 * Len(lines[r]) + 2
               /\ ~cursors'[r].known => cursors'[r].offset = 0 /\ DOMAIN events[r] = {}
    <3>1. CASE r # s
      BY <1>1, <3>1, FailedCursor DEF CursorInv
    <3>2. CASE r = s
      <4>1. cursors'[s].version \in {cursors[s].version, reader} /\ cursors'[s].known
            /\ reader \in Nat
        BY <1>1, FailedCursor DEF UsageTypeOK
      <4>2. QED BY <1>1, <1>3, <1>7, <3>2, <4>1, FailedCursor DEF CursorInv
    <3>3. QED BY <3>1, <3>2
  <2>2. QED BY <1>2, <2>1 DEF CursorInv
<1>10. HandInv' /\ OnceInv'
  BY <1>1, <1>2 DEF HandInv, OnceInv
<1>11. FullInv'
  <2>1. ASSUME NEW r \in Sources, cursors'[r].known, ~(cursors'[r].version < reader), ~kept'[r]
        PROVE  /\ \A o \in DOMAIN events[r] : events[r][o].reader = reader
               /\ Full(events[r], lines[r], cursors'[r].offset)
               /\ ~cursors'[r].error /\ cursors'[r].print > 2 * Len(lines[r]) =>
                    Full(events[r], lines[r], Len(lines[r])) /\ AtEnd(lines[r], cursors'[r].offset)
    <3>1. CASE r # s
      <4>1. cursors'[r] = cursors[r] /\ ~kept[r]
        BY <1>6, <2>1, <3>1, FailedCursor
      <4>2. QED BY <1>1, <2>1, <4>1 DEF FullInv, Stale
    <3>2. CASE r = s
      <4>1. ~kept[s] /\ ~(hand.stale /\ cursors'[s].version = reader)
        BY <1>6, <2>1, <3>2
      <4>2. cursors[s].version \in Nat /\ reader \in Nat
        <5>1. cursors[s] \in Cursor /\ reader \in {1, 2}
          BY <1>1 DEF UsageTypeOK
        <5>2. QED BY <5>1 DEF Cursor
      <4>3. ~hand.stale
        BY <1>3, <2>1, <3>2, <4>1, <4>2, FailedCursor DEF Stale
      <4>4. cursors'[s].error /\ cursors'[s].offset = cursors[s].offset
        BY <4>3, FailedCursor
      <4>5. CASE cursors[s].known
        BY <1>1, <1>3, <3>2, <4>1, <4>3, <4>4, <4>5 DEF FullInv
      <4>6. CASE ~cursors[s].known
        BY <1>1, <3>2, <4>4, <4>6 DEF CursorInv, Full
      <4>7. QED BY <4>5, <4>6
    <3>3. QED BY <3>1, <3>2
  <2>2. QED BY <1>2, <2>1 DEF FullInv, Stale
<1>12. CountInv'
  <2>1. \A r \in Sources : kept'[r] => miscounted'
    <3>1. TAKE r \in Sources
    <3>2. CASE kept'[r] = kept[r]
      BY <1>1, <1>4, <3>2 DEF CountInv
    <3>3. CASE kept'[r] # kept[r]
      BY <1>4, <3>3
    <3>4. QED BY <3>2, <3>3
  <2>2. ASSUME ~miscounted'
        PROVE  /\ digest'.turns = Cardinality(Turns')
               /\ \A r \in Sources : cursors'[r].version > digest'.version
                                       => MessagesTo(lines'[r], cursors'[r].offset) = {}
    <3>1. ~miscounted /\ ~kept'[s]
      BY <1>4, <2>1, <2>2
    <3>2. ~(hand.stale /\ cursors'[s].version = reader)
      BY <1>6, <3>1
    <3>3. cursors'[s].offset = cursors[s].offset
          /\ (cursors'[s].version = cursors[s].version \/ cursors[s].offset = 0)
      BY <1>1, <3>2, FailedCursor DEF CursorInv
    <3>4. cursors[s].offset = 0 => MessagesTo(lines[s], cursors[s].offset) = {}
      BY DEF MessagesTo
    <3>5. \A r \in Sources :
            /\ MessagesTo(lines'[r], cursors'[r].offset) = MessagesTo(lines[r], cursors[r].offset)
            /\ \/ cursors'[r].version = cursors[r].version
               \/ MessagesTo(lines[r], cursors[r].offset) = {}
      <4>1. TAKE r \in Sources
      <4>2. CASE r = s
        BY <1>2, <3>3, <3>4, <4>2
      <4>3. CASE r # s
        BY <1>2, <4>3, FailedCursor
      <4>4. QED BY <4>2, <4>3
    <3>6. Turns' = Turns
      BY <1>2, <3>5 DEF Turns, Below
    <3>7. QED BY <1>1, <1>2, <3>1, <3>5, <3>6 DEF CountInv, Below
  <2>3. QED BY <1>1, <1>2, <2>1, <2>2 DEF CountInv, Below
<1>13. QED BY <1>8, <1>9, <1>10, <1>11, <1>12 DEF UsageInv

\* The offsets of the messages that begin behind a boundary.
Begun(f, o) == {p \in o..Len(f) : First(f, p + 1)}

\* Events of first lines of messages, of no more than their usage.
Sound(e, f) ==
  /\ e \in [DOMAIN e -> Event]
  /\ \A p \in DOMAIN e : First(f, p + 1) /\ e[p].tokens <= Top(f, f[p + 1].m)

\* The events e are those of old, but for the messages that begin behind o.
Raised(e, old, f, o) ==
  /\ DOMAIN e = DOMAIN old \cup Begun(f, o) /\ Sound(e, f)
  /\ \A p \in DOMAIN e :
       /\ p \in Begun(f, o) => e[p].tokens = Top(f, f[p + 1].m)
       /\ p \notin Begun(f, o) => e[p] = old[p]
       /\ e[p].reader = IF p \in DOMAIN old THEN old[p].reader ELSE reader

\* Events that are raised to their usage by a scan, or added at it.
LEMMA MergeFacts ==
  ASSUME reader \in {1, 2}, NEW f, Whole(f), Len(f) <= MaxLines, NEW o, Boundary(f, o),
         NEW old, Sound(old, f)
  PROVE  Raised(Merged(old, Scan(f, o).events), old, f, o)
<1> DEFINE e == Merged(old, Scan(f, o).events)
           new == Begun(f, o)
           val == Scan(f, o).events
<1>1. DOMAIN val = new /\ \A p \in new : val[p] = Top(f, f[p + 1].m)
  BY ScanEvents DEF Begun
<1>2. e = [p \in DOMAIN old \cup DOMAIN val |->
             IF p \notin DOMAIN old THEN [tokens |-> val[p], reader |-> reader]
             ELSE IF p \in DOMAIN val THEN [old[p] EXCEPT !.tokens = MostOf({@, val[p]})]
             ELSE old[p]]
  BY DEF Merged
<1> HIDE DEF val, e
<1>3. DOMAIN e = DOMAIN old \cup new
  BY <1>1, <1>2
<1>4. \A p \in DOMAIN old :
        old[p] \in Event /\ First(f, p + 1) /\ old[p].tokens <= Top(f, f[p + 1].m)
  BY DEF Sound
<1>5. ASSUME NEW p \in DOMAIN e
      PROVE  /\ First(f, p + 1) /\ e[p] \in Event /\ e[p].tokens <= Top(f, f[p + 1].m)
             /\ p \in new => e[p].tokens = Top(f, f[p + 1].m)
             /\ p \notin new => e[p] = old[p]
             /\ e[p].reader = IF p \in DOMAIN old THEN old[p].reader ELSE reader
  <2>1. First(f, p + 1)
    BY <1>3, <1>4 DEF Begun
  <2>2. Top(f, f[p + 1].m) \in 1..MaxTokens
    BY <2>1, TopFacts DEF First, Whole
  <2>3. CASE p \notin DOMAIN old
    <3>1. p \in new
      BY <1>3, <2>3
    <3>2. e[p] = [tokens |-> Top(f, f[p + 1].m), reader |-> reader]
      BY <1>1, <1>2, <1>3, <2>3, <3>1
    <3> HIDE DEF new
    <3>3. QED BY <2>1, <2>2, <2>3, <3>1, <3>2 DEF Event
  <2>4. CASE p \in DOMAIN old /\ p \notin new
    <3>1. e[p] = old[p]
      BY <1>1, <1>2, <1>3, <2>4
    <3> HIDE DEF new
    <3>2. QED BY <1>4, <2>1, <2>4, <3>1
  <2>5. CASE p \in DOMAIN old /\ p \in new
    <3> DEFINE v == old[p]
               t == Top(f, f[p + 1].m)
    <3>1. e[p] = [v EXCEPT !.tokens = MostOf({v.tokens, t})]
      BY <1>1, <1>2, <1>3, <2>5
    <3>2. v \in Event /\ v.tokens <= t /\ t \in 1..MaxTokens
      BY <1>4, <2>2, <2>5
    <3> HIDE DEF v, t, new
    <3>3. MostOf({v.tokens, t}) = t
      BY <3>2, LargerOfTwo DEF Event
    <3>4. e[p].tokens = t /\ e[p].reader = v.reader /\ e[p] \in Event
      BY <3>1, <3>2, <3>3 DEF Event
    <3>5. QED BY <2>1, <2>5, <3>2, <3>4 DEF v, t
  <2>6. QED BY <1>3, <2>3, <2>4, <2>5
<1>6. e \in [DOMAIN e -> Event]
  BY <1>2, <1>5
<1>7. Raised(e, old, f, o)
  BY <1>3, <1>5, <1>6 DEF Sound, Raised
<1>8. QED BY <1>7 DEF e

\* What was complete where the scan began is so to the end of the file.
LEMMA MergeFull ==
  ASSUME reader \in {1, 2}, NEW f, Whole(f), Len(f) <= MaxLines, NEW o, Boundary(f, o),
         NEW old, Sound(old, f),
         Full(old, f, o)
  PROVE  Full(Merged(old, Scan(f, o).events), f, Len(f))
<1> DEFINE e == Merged(old, Scan(f, o).events)
<1>1. /\ DOMAIN e = DOMAIN old \cup Begun(f, o)
      /\ \A p \in DOMAIN e :
           /\ p \in Begun(f, o) => e[p].tokens = Top(f, f[p + 1].m)
           /\ p \notin Begun(f, o) => e[p] = old[p]
  <2>1. Raised(e, old, f, o)
    BY MergeFacts
  <2> HIDE DEF e
  <2>2. QED BY <2>1 DEF Raised
<1> HIDE DEF e
<1>2. o \in Nat /\ o <= Len(f) /\ Len(f) \in Nat
  BY DEF Boundary, Whole
<1>3. ASSUME NEW i \in 1..Len(f), First(f, i)
      PROVE  i - 1 \in DOMAIN e /\ e[i - 1].tokens = Top(f, f[i].m)
  <2>1. (i - 1) + 1 = i /\ i - 1 \in Nat
    OBVIOUS
  <2>2. CASE i <= o
    <3>1. i - 1 \in DOMAIN old /\ old[i - 1].tokens = Top(f, f[i].m)
      BY <1>2, <1>3, <2>2 DEF Full
    <3>2. i - 1 \notin Begun(f, o)
      BY <1>2, <2>2 DEF Begun
    <3>3. QED BY <1>1, <3>1, <3>2
  <2>3. CASE i > o
    <3>1. i - 1 \in Begun(f, o)
      BY <1>2, <1>3, <2>1, <2>3 DEF Begun
    <3>2. QED BY <1>1, <2>1, <3>1
  <2>4. QED BY <1>2, <2>2, <2>3
<1>4. QED BY <1>3 DEF Full, e

\* The read: what it starts from, and what it leaves of the source.
From(s) == IF hand.stale THEN 0 ELSE cursors[s].offset

LEMMA PublishStep ==
  ASSUME UsageInv, NEW s \in Sources, Publish(s)
  PROVE  /\ lines' = lines /\ torn' = torn /\ present' = present /\ reader' = reader /\ batch' = batch
         /\ walk' = walk /\ attempts' = attempts /\ miscounted' = miscounted /\ upsets' = upsets
         /\ hand' = NoHand /\ digest' = DigestWith(Scan(lines[s], From(s)))
         /\ events' = [events EXCEPT ![s] = Merged(Replaced(s), Scan(lines[s], From(s)).events)]
         /\ kept' = [kept EXCEPT ![s] = @ /\ ~hand.stale]
         /\ cursors' \in [Sources -> Cursor]
         /\ \A r \in Sources : r # s => cursors'[r] = cursors[r]
         /\ cursors'[s].known /\ cursors'[s].offset = Scan(lines[s], From(s)).next
         /\ cursors'[s].print = hand.print /\ cursors'[s].version = reader
         /\ Whole(lines[s]) /\ Len(lines[s]) <= MaxLines /\ Boundary(lines[s], From(s))
         /\ hand.stale \in BOOLEAN /\ (hand.stale <=> Stale(s))
         /\ hand.print \in Nat /\ hand.print <= 2 * Len(lines[s]) + 2
<1> DEFINE n == Scan(lines[s], From(s)).next
           d == [known |-> TRUE, offset |-> n, print |-> hand.print, error |-> FALSE,
                 version |-> reader, failures |-> 0]
<1>1. UsageTypeOK /\ CursorInv /\ HandInv
  BY DEF UsageInv
<1>2. /\ hand.src = s /\ hand.print \in Nat /\ hand.print <= 2 * Len(lines[s]) + 2
      /\ hand.stale \in BOOLEAN /\ (hand.stale <=> Stale(s))
  BY <1>1, InHand DEF Publish
<1>3. Whole(lines[s]) /\ Len(lines[s]) <= MaxLines /\ Boundary(lines[s], From(s))
      /\ Len(lines[s]) \in Nat
  <2>1. Whole(lines[s]) /\ Boundary(lines[s], cursors[s].offset)
    BY <1>1 DEF CursorInv
  <2>2. Boundary(lines[s], 0)
    BY <2>1 DEF Boundary, Whole
  <2>3. QED BY <1>1, <1>2, <2>1, <2>2 DEF From, UsageTypeOK
<1>4. n \in 0..MaxLines
  <2>1. n \in 0..Len(lines[s])
    BY <1>3, ScanNext DEF Boundary
  <2> HIDE DEF n
  <2>2. QED BY <1>3, <2>1, UsageConstants
<1>5. d \in Cursor
  <2>1. reader \in 0..2
    BY <1>1 DEF UsageTypeOK
  <2> HIDE DEF n
  <2>2. QED BY <1>2, <1>4, <2>1 DEF Cursor
<1>6. cursors' = [cursors EXCEPT ![s] = d]
  <2>1. cursors' = [cursors EXCEPT ![s] = [NoCursor EXCEPT !.known = TRUE, !.offset = n,
                                             !.print = hand.print, !.version = reader]]
    BY DEF Publish, From
  <2>2. [NoCursor EXCEPT !.known = TRUE, !.offset = n, !.print = hand.print, !.version = reader] = d
    <3> DEFINE b == [NoCursor EXCEPT !.known = TRUE, !.offset = n, !.print = hand.print, !.version = reader]
    <3>1. b = [NoCursor EXCEPT !.known = TRUE, !.offset = n, !.print = hand.print, !.version = reader]
      OBVIOUS
    <3> HIDE DEF n, b
    <3>2. b = d
      BY <3>1 DEF NoCursor
    <3>3. QED BY <3>1, <3>2
  <2> HIDE DEF n, d
  <2>3. QED BY <2>1, <2>2
<1>7. cursors \in [Sources -> Cursor]
  BY <1>1 DEF UsageTypeOK
<1>8. d.known /\ d.offset = n /\ d.print = hand.print /\ d.version = reader
  OBVIOUS
<1>9. cursors' \in [Sources -> Cursor] /\ cursors'[s] = d
      /\ \A r \in Sources : r # s => cursors'[r] = cursors[r]
  <2> HIDE DEF d
  <2>1. QED BY <1>5, <1>6, <1>7
<1>10. /\ lines' = lines /\ torn' = torn /\ present' = present /\ reader' = reader /\ batch' = batch
       /\ walk' = walk /\ attempts' = attempts /\ miscounted' = miscounted /\ upsets' = upsets
       /\ hand' = NoHand /\ digest' = DigestWith(Scan(lines[s], From(s)))
       /\ events' = [events EXCEPT ![s] = Merged(Replaced(s), Scan(lines[s], From(s)).events)]
       /\ kept' = [kept EXCEPT ![s] = @ /\ ~hand.stale]
  BY DEF Publish, transcripts, From
<1> HIDE DEF d
<1>11. QED BY <1>2, <1>3, <1>8, <1>9, <1>10

\* What the read adds to.
LEMMA ReplacedFacts ==
  ASSUME UsageInv, NEW s \in Sources, Publish(s)
  PROVE  /\ Sound(Replaced(s), lines[s])
         /\ hand.stale \/ ~kept[s] =>
              /\ \A p \in DOMAIN Replaced(s) : Replaced(s)[p].reader = reader
              /\ Full(Replaced(s), lines[s], From(s))
<1>1. UsageTypeOK /\ CursorInv /\ OnceInv /\ FullInv
  BY DEF UsageInv
<1>2. hand.stale \in BOOLEAN /\ (hand.stale <=> Stale(s))
  BY PublishStep
<1>3. CASE hand.stale
  <2>1. Replaced(s) = <<>> /\ From(s) = 0 /\ DOMAIN <<>> = {}
    BY <1>3 DEF Replaced, From
  <2>2. <<>> \in [DOMAIN <<>> -> Event]
    OBVIOUS
  <2>3. Full(<<>>, lines[s], 0)
    BY DEF Full
  <2>4. QED BY <2>1, <2>2, <2>3 DEF Sound
<1>4. CASE ~hand.stale
  <2>1. Replaced(s) = events[s] /\ From(s) = cursors[s].offset
    BY <1>4 DEF Replaced, From
  <2>2. Sound(events[s], lines[s])
    BY <1>1 DEF Sound, UsageTypeOK, OnceInv
  <2>3. ASSUME ~kept[s]
        PROVE  /\ \A p \in DOMAIN events[s] : events[s][p].reader = reader
               /\ Full(events[s], lines[s], cursors[s].offset)
    <3>1. CASE cursors[s].known
      BY <1>1, <1>2, <1>4, <2>3, <3>1 DEF FullInv
    <3>2. CASE ~cursors[s].known
      BY <1>1, <3>2 DEF CursorInv, Full
    <3>3. QED BY <3>1, <3>2
  <2>4. QED BY <1>4, <2>1, <2>2, <2>3
<1>5. QED BY <1>2, <1>3, <1>4

\* What it leaves of the source.
LEMMA PublishedEvents ==
  ASSUME UsageInv, NEW s \in Sources, Publish(s)
  PROVE  /\ DOMAIN events' = Sources /\ \A r \in Sources : r # s => events'[r] = events[r]
         /\ Sound(events'[s], lines[s]) /\ DOMAIN events'[s] \subseteq 0..MaxLines
         /\ hand.stale \/ ~kept[s] =>
              /\ \A p \in DOMAIN events'[s] : events'[s][p].reader = reader
              /\ Full(events'[s], lines[s], Len(lines[s]))
<1> DEFINE f == lines[s]
           e == Merged(Replaced(s), Scan(f, From(s)).events)
<1>1. UsageTypeOK /\ reader \in {1, 2}
  BY DEF UsageInv, UsageTypeOK
<1>2. events' = [events EXCEPT ![s] = e] /\ DOMAIN events = Sources
  BY <1>1, PublishStep DEF UsageTypeOK
<1>3. Whole(f) /\ Len(f) <= MaxLines /\ Boundary(f, From(s)) /\ Sound(Replaced(s), f)
  BY PublishStep, ReplacedFacts
<1>4. Raised(e, Replaced(s), f, From(s))
  BY <1>1, <1>3, MergeFacts
<1>5. Full(Replaced(s), f, From(s)) => Full(e, f, Len(f))
  BY <1>1, <1>3, MergeFull
<1> HIDE DEF e
<1>6. events'[s] = e /\ DOMAIN events' = Sources /\ \A r \in Sources : r # s => events'[r] = events[r]
  BY <1>2
<1>7. Sound(e, f)
  BY <1>4 DEF Raised
<1>8. DOMAIN e \subseteq 0..MaxLines
  <2>1. ASSUME NEW p \in DOMAIN e PROVE p \in 0..MaxLines
    <3>1. p \in DOMAIN Replaced(s) \/ p \in Begun(f, From(s))
      BY <1>4 DEF Raised
    <3>2. CASE p \in Begun(f, From(s))
      <4>1. p \in From(s)..Len(f) /\ From(s) \in Nat /\ Len(f) \in Nat
        BY <1>3, <3>2 DEF Begun, Boundary, Whole
      <4>2. QED BY <1>3, <4>1, UsageConstants
    <3>3. CASE p \in DOMAIN Replaced(s)
      <4>1. DOMAIN Replaced(s) = {} \/ Replaced(s) = events[s]
        BY DEF Replaced
      <4>2. QED BY <1>1, <3>3, <4>1 DEF UsageTypeOK
    <3>4. QED BY <3>1, <3>2, <3>3
  <2>2. QED BY <2>1
<1>9. ASSUME hand.stale \/ ~kept[s]
      PROVE  (\A p \in DOMAIN e : e[p].reader = reader) /\ Full(e, f, Len(f))
  <2>1. /\ \A p \in DOMAIN Replaced(s) : Replaced(s)[p].reader = reader
        /\ Full(Replaced(s), f, From(s))
    BY <1>9, ReplacedFacts
  <2>2. \A p \in DOMAIN e :
          e[p].reader = IF p \in DOMAIN Replaced(s) THEN Replaced(s)[p].reader ELSE reader
    BY <1>4 DEF Raised
  <2>3. QED BY <1>5, <2>1, <2>2
<1>10. QED BY <1>6, <1>7, <1>8, <1>9

\* The turns the read adds are those of the messages that are now below the cursor.
LEMMA PublishedTurns ==
  ASSUME UsageInv, NEW s \in Sources, Publish(s), ~miscounted
  PROVE  /\ digest'.turns = Cardinality(Turns')
         /\ \A r \in Sources : cursors'[r].version > digest'.version
                                 => MessagesTo(lines'[r], cursors'[r].offset) = {}
<1> DEFINE f == lines[s]
           o == From(s)
           new == Finished(f, o)
           scan == Scan(f, o)
           to(r) == MessagesTo(lines[r], cursors[r].offset)
<1>1. UsageTypeOK /\ CursorInv /\ CountInv
  BY DEF UsageInv
<1>2. /\ digest.turns = Cardinality(Turns) /\ digest.version <= reader
      /\ \A r \in Sources : cursors[r].version > digest.version => to(r) = {}
  BY <1>1 DEF CountInv, Below
<1>3. reader \in {1, 2} /\ digest.version \in 0..2 /\ digest.turns \in Nat
      /\ digest = [turns |-> digest.turns, version |-> digest.version]
  BY <1>1 DEF UsageTypeOK
<1>4. \A r \in Sources : cursors[r].version \in 0..2 /\ cursors[r].version <= reader
  BY <1>1 DEF UsageTypeOK, Cursor, CursorInv
<1>5. Whole(f) /\ Boundary(f, o) /\ hand.stale \in BOOLEAN /\ (hand.stale <=> Stale(s))
  BY PublishStep
<1>6. /\ lines' = lines /\ reader' = reader /\ digest' = DigestWith(scan)
      /\ \A r \in Sources : r # s => cursors'[r] = cursors[r]
      /\ cursors'[s].offset = scan.next /\ cursors'[s].version = reader
  BY PublishStep
<1>7. MessagesTo(f, scan.next) = MessagesTo(f, o) \cup new /\ MessagesTo(f, o) \cap new = {}
  BY <1>5, ScanTurns
<1>8. new \subseteq 1..MaxLines
  <2>1. ASSUME NEW m \in new PROVE m \in 1..MaxLines
    <3>1. PICK i \in (o + 1)..Len(f) : f[i].m = m /\ m # 0
      BY <2>1 DEF Finished, Messages
    <3>2. i \in 1..Len(f) /\ f \in Seq(Line)
      BY <1>5, <3>1 DEF Whole, Boundary
    <3>3. m \in 0..MaxLines
      BY <3>1, <3>2, LineFacts
    <3>4. QED BY <3>1, <3>3, UsageConstants
  <2>2. QED BY <2>1
<1>9. scan.turns = Cardinality(new) /\ (scan.session <=> Messages(f, o) # {})
  BY DEF Scan
<1>10. MessagesTo(f, 0) = {}
  BY DEF MessagesTo
\* what was below the beginning of the scan is what was counted of the source
<1>11. \/ cursors[s].version = reader /\ MessagesTo(f, o) = to(s)
       \/ cursors[s].version # reader /\ MessagesTo(f, o) = {}
  <2>1. CASE hand.stale
    BY <1>3, <1>4, <1>5, <1>10, <2>1 DEF From, Stale
  <2>2. CASE ~hand.stale /\ cursors[s].known
    BY <1>3, <1>4, <1>5, <2>2 DEF From, Stale
  <2>3. CASE ~hand.stale /\ ~cursors[s].known
    <3>1. cursors[s].offset = 0 /\ o = 0
      BY <1>1, <2>3 DEF CursorInv, From
    <3>2. QED BY <1>10, <3>1
  <2>4. QED BY <1>5, <2>1, <2>2, <2>3
<1>12. \A r \in Sources : r # s => MessagesTo(lines'[r], cursors'[r].offset) = to(r)
  BY <1>6
<1>13. MessagesTo(lines'[s], cursors'[s].offset) = MessagesTo(f, o) \cup new
  BY <1>6, <1>7
<1> HIDE DEF to, new, scan
<1>14. CASE ~scan.session
  <2>1. digest' = digest
    BY <1>6, <1>14 DEF DigestWith
  <2>2. Messages(f, o) = {} /\ new = {}
    BY <1>9, <1>14 DEF Finished, new
  <2>3. \/ cursors[s].version = reader /\ MessagesTo(f, o) = to(s)
        \/ to(s) = {} /\ MessagesTo(f, o) = {}
    <3>1. CASE cursors[s].version = reader
      BY <1>11, <3>1
    <3>2. CASE cursors[s].version # reader /\ o = 0
      <4>1. cursors[s].offset \in 0..Len(f) /\ Len(f) \in Nat
        BY <1>1, <1>5 DEF CursorInv, Boundary, Whole
      <4>2. to(s) \subseteq Messages(f, 0)
        BY <4>1 DEF to, MessagesTo, Messages
      <4>3. QED BY <1>11, <2>2, <3>2, <4>2
    <3>3. CASE cursors[s].version # reader /\ o # 0
      <4>1. ~hand.stale /\ o = cursors[s].offset
        BY <3>3 DEF From
      <4>2. QED BY <1>11, <3>3, <4>1 DEF to
    <3>4. QED BY <3>1, <3>2, <3>3
  <2>4. \A r \in Sources :
          /\ MessagesTo(lines'[r], cursors'[r].offset) = to(r)
          /\ cursors'[r].version = cursors[r].version \/ to(r) = {}
    <3>1. TAKE r \in Sources
    <3>2. CASE r = s
      BY <1>6, <1>13, <2>2, <2>3, <3>2
    <3>3. CASE r # s
      BY <1>6, <1>12, <3>3
    <3>4. QED BY <3>2, <3>3
  <2>5. Turns' = Turns
    BY <2>1, <2>4 DEF Turns, Below, to
  <2>6. QED BY <1>2, <2>1, <2>4, <2>5
<1>15. CASE scan.session
  <2> DEFINE base == IF digest.version < reader THEN {} ELSE Turns
             more == {s} \X new
  <2>1. MostOf({digest.version, reader}) = reader
    BY <1>2, <1>3, LargerOfTwo
  <2>2. digest' = [turns |-> IF digest.version < reader THEN scan.turns ELSE digest.turns + scan.turns,
                   version |-> reader]
    BY <1>6, <1>15, <2>1 DEF DigestWith
  <2>3. digest'.version = reader
        /\ digest'.turns = IF digest.version < reader THEN scan.turns ELSE digest.turns + scan.turns
    BY <2>2
  <2>4. \A r \in Sources : cursors'[r].version <= reader
    BY <1>3, <1>4, <1>6
  <2>5. Turns' = {x \in Sources \X (1..MaxLines) :
                      cursors'[x[1]].version = reader
                      /\ x[2] \in MessagesTo(lines'[x[1]], cursors'[x[1]].offset)}
    BY <2>3 DEF Turns, Below
  <2>6. Turns = {x \in Sources \X (1..MaxLines) : cursors[x[1]].version = digest.version /\ x[2] \in to(x[1])}
    BY DEF Turns, Below, to
  <2>7. ASSUME NEW r \in Sources, NEW m \in 1..MaxLines
        PROVE  <<r, m>> \in Turns' <=> <<r, m>> \in base \/ <<r, m>> \in more
    <3>1. <<r, m>> \in Turns' <=> cursors'[r].version = reader
                                    /\ m \in MessagesTo(lines'[r], cursors'[r].offset)
      BY <2>5
    <3>2. <<r, m>> \in base <=> /\ ~(digest.version < reader)
                                /\ cursors[r].version = digest.version /\ m \in to(r)
      BY <2>6
    <3>3. <<r, m>> \in more <=> r = s /\ m \in new
      OBVIOUS
    <3>4. digest.version < reader \/ digest.version = reader
      BY <1>2, <1>3
    <3>5. digest.version < reader /\ cursors[r].version = reader => to(r) = {}
      BY <1>2, <1>3
    <3> HIDE DEF base, more
    <3>6. CASE r # s
      <4>1. cursors'[r] = cursors[r] /\ MessagesTo(lines'[r], cursors'[r].offset) = to(r)
        BY <1>6, <1>12, <3>6
      <4>2. QED BY <3>1, <3>2, <3>3, <3>4, <3>5, <3>6, <4>1
    <3>7. CASE r = s
      <4>1. <<r, m>> \in Turns' <=> m \in MessagesTo(f, o) \/ m \in new
        BY <1>6, <1>13, <3>1, <3>7
      <4>2. m \in MessagesTo(f, o) <=> <<r, m>> \in base
        BY <1>3, <1>11, <3>2, <3>4, <3>5, <3>7
      <4>3. QED BY <3>3, <3>7, <4>1, <4>2
    <3>8. QED BY <3>6, <3>7
  <2>8. Turns' \subseteq Sources \X (1..MaxLines) /\ base \subseteq Sources \X (1..MaxLines)
        /\ more \subseteq Sources \X (1..MaxLines)
    BY <1>8, <2>5, <2>6
  <2>9. Turns' = base \cup more
    <3> HIDE DEF base, more
    <3>1. ASSUME NEW x \in Sources \X (1..MaxLines)
          PROVE  x \in Turns' <=> x \in base \/ x \in more
      <4>1. PICK r \in Sources, m \in 1..MaxLines : x = <<r, m>>
        OBVIOUS
      <4>2. QED BY <2>7, <4>1
    <3>2. QED BY <2>8, <3>1
  <2>10. base \cap more = {}
    <3>1. SUFFICES ASSUME NEW x \in base, x \in more PROVE FALSE
      OBVIOUS
    <3>2. PICK m \in new : x = <<s, m>>
      BY <3>1
    <3>3. <<s, m>> \in Turns /\ ~(digest.version < reader)
      BY <3>1, <3>2
    <3>4. cursors[s].version = digest.version /\ m \in to(s)
      BY <2>6, <3>3
    <3>5. cursors[s].version = reader
      BY <1>2, <1>3, <3>3, <3>4
    <3>6. m \in MessagesTo(f, o)
      BY <1>11, <3>4, <3>5
    <3>7. QED BY <1>7, <3>2, <3>6 DEF new
  <2>11. IsFiniteSet(new) /\ IsFiniteSet(Sources \X (1..MaxLines))
    <3>1. IsFiniteSet(1..MaxLines)
      BY UsageConstants, FS_Interval
    <3>2. QED BY <1>8, <3>1, UsageConstants, FS_Subset, FS_Product
  <2>12. IsFiniteSet(more) /\ Cardinality(more) = Cardinality(new) /\ Cardinality(new) \in Nat
    <3>1. IsFiniteSet({s}) /\ Cardinality({s}) = 1
      BY FS_Singleton
    <3>2. IsFiniteSet({s} \X new) /\ Cardinality({s} \X new) = 1 * Cardinality(new)
      BY <2>11, <3>1, FS_Product
    <3>3. Cardinality(new) \in Nat
      BY <2>11, FS_CardinalityType
    <3>4. QED BY <3>2, <3>3
  <2>13. IsFiniteSet(base) /\ Cardinality(base) = IF digest.version < reader THEN 0 ELSE digest.turns
    <3>1. IsFiniteSet(base)
      <4> HIDE DEF base
      <4>1. QED BY <2>8, <2>11, FS_Subset
    <3>2. QED BY <1>2, <3>1, FS_EmptySet
  <2>14. Cardinality(base \cup more) = Cardinality(base) + Cardinality(more)
    <3> HIDE DEF base, more
    <3>1. Cardinality(base \cup more) = Cardinality(base) + Cardinality(more) - Cardinality(base \cap more)
      BY <2>12, <2>13, FS_Union
    <3>2. Cardinality(base \cap more) = 0
      BY <2>10, FS_EmptySet
    <3>3. Cardinality(base) \in Nat /\ Cardinality(more) \in Nat
      BY <2>12, <2>13, FS_CardinalityType
    <3>4. QED BY <3>1, <3>2, <3>3
  <2>15. digest'.turns = Cardinality(Turns')
    <3>1. scan.turns = Cardinality(new)
      BY <1>9
    <3> HIDE DEF base, more
    <3>2. QED BY <1>3, <2>3, <2>9, <2>12, <2>13, <2>14, <3>1
  <2>16. \A r \in Sources : ~(cursors'[r].version > digest'.version)
    <3>1. \A r \in Sources : cursors'[r].version \in 0..2
      BY <1>3, <1>4, <1>6
    <3>2. QED BY <1>3, <2>3, <2>4, <3>1
  <2>17. QED BY <2>15, <2>16
<1>16. scan.session \in BOOLEAN
  BY DEF Scan, scan
<1>17. QED BY <1>14, <1>15, <1>16

LEMMA PublishKeeps == ASSUME UsageInv, NEW s \in Sources, Publish(s) PROVE UsageInv'
<1> DEFINE f == lines[s]
<1>1. UsageTypeOK /\ CursorInv /\ OnceInv /\ FullInv /\ CountInv
  BY DEF UsageInv
<1>2. /\ lines' = lines /\ torn' = torn /\ present' = present /\ reader' = reader /\ batch' = batch
      /\ walk' = walk /\ attempts' = attempts /\ miscounted' = miscounted /\ upsets' = upsets
      /\ hand' = NoHand /\ kept' = [kept EXCEPT ![s] = @ /\ ~hand.stale]
      /\ hand.stale \in BOOLEAN
  BY PublishStep
<1>3. /\ cursors' \in [Sources -> Cursor]
      /\ \A r \in Sources : r # s => cursors'[r] = cursors[r]
      /\ cursors'[s].known /\ cursors'[s].offset = Scan(f, From(s)).next
      /\ cursors'[s].print = hand.print /\ cursors'[s].version = reader
      /\ hand.print \in Nat /\ hand.print <= 2 * Len(f) + 2
  BY PublishStep
<1>4. Boundary(f, cursors'[s].offset) /\ AtEnd(f, cursors'[s].offset) /\ Whole(f)
  BY <1>3, PublishStep, ScanNext
<1>5. kept \in [Sources -> BOOLEAN]
  BY <1>1 DEF UsageTypeOK
<1>6. /\ kept' \in [Sources -> BOOLEAN] /\ (kept'[s] <=> kept[s] /\ ~hand.stale)
      /\ \A r \in Sources : r # s => kept'[r] = kept[r]
  BY <1>2, <1>5
<1>7. digest' \in [turns : Nat, version : 0..2] /\ digest'.version <= reader
  <2> DEFINE scan == Scan(f, From(s))
  <2>1. digest \in [turns : Nat, version : 0..2] /\ reader \in {1, 2} /\ digest.version <= reader
    BY <1>1 DEF UsageTypeOK, CountInv
  <2>2. digest' = DigestWith(scan)
    BY PublishStep
  <2>3. MostOf({digest.version, reader}) = reader
    BY <2>1, LargerOfTwo
  <2>4. scan.turns \in Nat
    <3>1. Finished(f, From(s)) \subseteq 0..MaxLines
      <4>1. ASSUME NEW m \in Finished(f, From(s)) PROVE m \in 0..MaxLines
        <5>1. PICK i \in (From(s) + 1)..Len(f) : f[i].m = m
          BY <4>1 DEF Finished, Messages
        <5>2. i \in 1..Len(f) /\ f \in Seq(Line)
          BY <5>1, PublishStep DEF Whole, Boundary
        <5>3. QED BY <5>1, <5>2, LineFacts
      <4>2. QED BY <4>1
    <3>2. IsFiniteSet(0..MaxLines)
      BY UsageConstants, FS_Interval
    <3>3. Cardinality(Finished(f, From(s))) \in Nat
      BY <3>1, <3>2, FS_Subset, FS_CardinalityType
    <3>4. QED BY <3>3 DEF Scan
  <2> HIDE DEF scan
  <2>5. CASE scan.session
    <3>1. digest' = [turns |-> IF digest.version < reader THEN scan.turns ELSE digest.turns + scan.turns,
                     version |-> reader]
      BY <2>2, <2>3, <2>5 DEF DigestWith
    <3>2. QED BY <2>1, <2>4, <3>1
  <2>6. CASE ~scan.session
    BY <2>1, <2>2, <2>6 DEF DigestWith
  <2>7. QED BY <2>5, <2>6
<1>8. /\ DOMAIN events' = Sources /\ \A r \in Sources : r # s => events'[r] = events[r]
      /\ Sound(events'[s], f) /\ DOMAIN events'[s] \subseteq 0..MaxLines
      /\ hand.stale \/ ~kept[s] =>
           /\ \A p \in DOMAIN events'[s] : events'[s][p].reader = reader
           /\ Full(events'[s], f, Len(f))
  BY PublishedEvents
<1>9. UsageTypeOK'
  <2>1. \A r \in Sources : cursors'[r].offset <= Len(lines'[r])
    <3>1. TAKE r \in Sources
    <3>2. CASE r = s
      BY <1>2, <1>4, <3>2 DEF Boundary, Whole
    <3>3. CASE r # s
      BY <1>1, <1>2, <1>3, <3>3 DEF UsageTypeOK
    <3>4. QED BY <3>2, <3>3
  <2>2. \A r \in Sources : DOMAIN events'[r] \subseteq 0..MaxLines /\ events'[r] \in [DOMAIN events'[r] -> Event]
    <3>1. TAKE r \in Sources
    <3>2. CASE r = s
      BY <1>8, <3>2 DEF Sound
    <3>3. CASE r # s
      BY <1>1, <1>8, <3>3 DEF UsageTypeOK
    <3>4. QED BY <3>2, <3>3
  <2>3. QED BY <1>1, <1>2, <1>3, <1>6, <1>7, <1>8, <2>1, <2>2 DEF UsageTypeOK
<1>10. CursorInv'
  <2>1. ASSUME NEW r \in Sources
        PROVE  /\ Whole(lines[r]) /\ Boundary(lines[r], cursors'[r].offset)
               /\ cursors'[r].version <= reader /\ cursors'[r].print <= 2 * Len(lines[r]) + 2
               /\ ~cursors'[r].known => cursors'[r].offset = 0 /\ DOMAIN events'[r] = {}
    <3>1. CASE r = s
      <4>1. reader \in Nat
        BY <1>1 DEF UsageTypeOK
      <4>2. QED BY <1>3, <1>4, <3>1, <4>1
    <3>2. CASE r # s
      BY <1>1, <1>3, <1>8, <3>2 DEF CursorInv
    <3>3. QED BY <3>1, <3>2
  <2>2. QED BY <1>2, <2>1 DEF CursorInv
<1>11. HandInv'
  BY <1>2 DEF HandInv
<1>12. OnceInv'
  <2>1. ASSUME NEW r \in Sources, NEW o \in DOMAIN events'[r]
        PROVE  First(lines[r], o + 1) /\ events'[r][o].tokens <= Top(lines[r], lines[r][o + 1].m)
    <3>1. CASE r = s
      BY <1>8, <3>1 DEF Sound
    <3>2. CASE r # s
      BY <1>1, <1>8, <3>2 DEF OnceInv
    <3>3. QED BY <3>1, <3>2
  <2>2. QED BY <1>2, <2>1 DEF OnceInv
<1>13. FullInv'
  <2>1. ASSUME NEW r \in Sources, cursors'[r].known, ~(cursors'[r].version < reader), ~kept'[r]
        PROVE  /\ \A o \in DOMAIN events'[r] : events'[r][o].reader = reader
               /\ Full(events'[r], lines[r], cursors'[r].offset)
               /\ ~cursors'[r].error /\ cursors'[r].print > 2 * Len(lines[r]) =>
                    Full(events'[r], lines[r], Len(lines[r])) /\ AtEnd(lines[r], cursors'[r].offset)
    <3>1. CASE r = s
      <4>1. hand.stale \/ ~kept[s]
        BY <1>2, <1>6, <2>1, <3>1
      <4>2. Full(events'[s], f, cursors'[s].offset)
        BY <1>4, <1>8, <4>1 DEF Full, Boundary, Whole
      <4>3. QED BY <1>4, <1>8, <3>1, <4>1, <4>2
    <3>2. CASE r # s
      BY <1>1, <1>3, <1>6, <1>8, <2>1, <3>2 DEF FullInv, Stale
    <3>3. QED BY <3>1, <3>2
  <2>2. QED BY <1>2, <2>1 DEF FullInv, Stale
<1>14. CountInv'
  <2>1. \A r \in Sources : kept'[r] => miscounted
    BY <1>1, <1>6 DEF CountInv
  <2>2. ASSUME ~miscounted
        PROVE  /\ digest'.turns = Cardinality(Turns')
               /\ \A r \in Sources : cursors'[r].version > digest'.version
                                       => MessagesTo(lines'[r], cursors'[r].offset) = {}
    BY <2>2, PublishedTurns
  <2>3. QED BY <1>2, <1>7, <2>1, <2>2 DEF CountInv, Below
<1>15. QED BY <1>9, <1>10, <1>11, <1>12, <1>13, <1>14 DEF UsageInv

LEMMA UsageStep == ASSUME UsageInv, [UsageNext]_usageVars PROVE UsageInv'
<1>1. CASE UNCHANGED usageVars
  <2>1. UNCHANGED settled /\ UNCHANGED <<torn, present, batch, walk, attempts, hand, upsets>>
    BY <1>1 DEF usageVars, transcripts, ledger, ingest, settled
  <2>2. LedgerInv' /\ HandInv'
    BY <2>1, SettledKeeps, HandKeeps DEF UsageInv, LedgerInv
  <2>3. UsageTypeOK'
    BY <2>1 DEF UsageInv, UsageTypeOK, settled, ledger
  <2>4. QED BY <2>2, <2>3 DEF UsageInv, LedgerInv
<1>2. CASE PassStep
  BY <1>2, IngestPassKeeps, ConsiderKeeps, PublishKeeps, ReadFailsKeeps DEF PassStep
<1>3. CASE Reload \/ PublishFault
  BY <1>3, ReloadKeeps, PublishFaultKeeps
<1>4. CASE \E s \in Sources : AppendLine(s) \/ Tear(s) \/ Vanish(s) \/ Reappear(s)
                              \/ (present[s] /\ ReadFails(s))
  BY <1>4, AppendKeeps, OtherAgentsKeep, ReadFailsKeeps
<1>5. QED BY <1>1, <1>2, <1>3, <1>4 DEF UsageNext

\* The inductive invariant of the ingest, for any sources, lines, tokens, batch size,
\* errors, restarts and vanishing transcripts.
THEOREM UsageInvariant == UsageSpec => []UsageInv
<1>1. QED BY UsageInitInv, UsageStep, PTL DEF UsageSpec

\* Cursors stay within their transcripts, recounts within the batch, events within the file.
THEOREM UsageTypeCorrect == UsageSpec => []UsageTypeOK
<1>1. UsageInv => UsageTypeOK BY DEF UsageInv
<1>2. QED BY <1>1, UsageInvariant, PTL

\* What a source that is caught up has in the ledger is one scan of the whole file.
LEMMA CaughtUpExact ==
  ASSUME UsageInv, NEW s \in Sources, CaughtUp(s), ~kept[s]
  PROVE  /\ events[s] = Merged(<<>>, Scan(lines[s], 0).events)
         /\ Below(s) = Finished(lines[s], 0) /\ cursors[s].version = reader
<1> DEFINE f == lines[s]
           val == Scan(f, 0).events
           new == {p \in 0..Len(f) : First(f, p + 1)}
<1>1. UsageTypeOK /\ CursorInv /\ OnceInv /\ FullInv
  BY DEF UsageInv
<1>2. Whole(f) /\ Boundary(f, 0) /\ Len(f) \in Nat
  BY <1>1 DEF CursorInv, Boundary, Whole
<1>3. cursors[s].known /\ ~cursors[s].error /\ ~Stale(s) /\ cursors[s].print > 2 * Len(f)
  BY <1>1, PrintBounds DEF CaughtUp
<1>4. /\ \A o \in DOMAIN events[s] : events[s][o].reader = reader
      /\ Full(events[s], f, Len(f)) /\ AtEnd(f, cursors[s].offset)
  BY <1>1, <1>3 DEF FullInv
<1>5. DOMAIN val = new /\ \A p \in new : val[p] = Top(f, f[p + 1].m)
  BY <1>2, ScanEvents
<1>6. events[s] \in [DOMAIN events[s] -> Event]
  BY <1>1 DEF UsageTypeOK
<1>7. DOMAIN events[s] = new
  <2>1. ASSUME NEW p \in DOMAIN events[s] PROVE p \in new
    <3>1. First(f, p + 1) /\ p \in 0..MaxLines
      BY <1>1 DEF OnceInv, UsageTypeOK
    <3>2. p \in 0..Len(f)
      BY <1>2, <3>1, UsageConstants DEF First
    <3>3. QED BY <3>1, <3>2
  <2>2. ASSUME NEW p \in new PROVE p \in DOMAIN events[s]
    <3>1. p + 1 \in 1..Len(f) /\ First(f, p + 1) /\ (p + 1) - 1 = p
      BY <1>2 DEF First
    <3>2. QED BY <1>4, <3>1 DEF Full
  <2>3. QED BY <2>1, <2>2
<1>8. ASSUME NEW p \in new PROVE events[s][p] = [tokens |-> val[p], reader |-> reader]
  <2>1. p + 1 \in 1..Len(f) /\ First(f, p + 1) /\ (p + 1) - 1 = p
    BY <1>2 DEF First
  <2>2. events[s][p].tokens = Top(f, f[p + 1].m)
    BY <1>4, <2>1 DEF Full
  <2>3. events[s][p] \in Event /\ events[s][p].reader = reader
    BY <1>4, <1>6, <1>7
  <2>4. val[p] = Top(f, f[p + 1].m)
    BY <1>5
  <2> HIDE DEF val, new
  <2>5. QED BY <2>2, <2>3, <2>4 DEF Event
<1> HIDE DEF val, new
<1>9. Merged(<<>>, val) = [p \in new |-> [tokens |-> val[p], reader |-> reader]]
  BY <1>5 DEF Merged
<1>10. events[s] = Merged(<<>>, val)
  BY <1>6, <1>7, <1>8, <1>9
<1>11. Below(s) = Finished(f, 0)
  <2>1. cursors[s].offset = Scan(f, 0).next
    BY <1>4 DEF AtEnd
  <2>2. MessagesTo(f, 0) = {}
    BY DEF MessagesTo
  <2>3. QED BY <1>2, <2>1, <2>2, ScanTurns DEF Below
<1>12. cursors[s].version = reader
  <2>1. cursors[s] \in Cursor /\ reader \in {1, 2} /\ cursors[s].version <= reader
    BY <1>1 DEF UsageTypeOK, CursorInv
  <2>2. QED BY <1>3, <2>1 DEF Cursor, Stale
<1>13. QED BY <1>10, <1>11, <1>12 DEF val

\* An event is of the first line of its message and at most its usage; a source that was read to
\* its end has what one scan of the whole file gives; and the session has the turns of its sources,
\* unless one was retired: whatever grew, vanished, failed or was recounted meanwhile.
THEOREM LedgerIsExact == UsageSpec => []LedgerExact
<1>1. ASSUME UsageInv PROVE LedgerExact
  <2>1. UsageTypeOK /\ OnceInv /\ CountInv
    BY <1>1 DEF UsageInv
  <2>2. \A s \in Sources : \A o \in DOMAIN events[s] : MessageOnce(s, o)
    BY <2>1 DEF OnceInv, MessageOnce, First, FirstLine, Usage, Top
  <2>3. \A s \in Sources : CaughtUp(s) /\ ~kept[s] => events[s] = Merged(<<>>, Scan(lines[s], 0).events)
    BY <1>1, CaughtUpExact
  <2>4. ASSUME ~miscounted, \A s \in Sources : lines[s] = <<>> \/ CaughtUp(s)
        PROVE  digest.turns = Cardinality({x \in Sources \X (1..MaxLines) : x[2] \in Finished(lines[x[1]], 0)})
    <3>1. /\ digest.turns = Cardinality(Turns) /\ \A s \in Sources : ~kept[s]
          /\ \A s \in Sources : cursors[s].version > digest.version => Below(s) = {}
      BY <2>1, <2>4 DEF CountInv
    <3>2. digest.version \in 0..2 /\ digest.version <= reader /\ reader \in {1, 2}
      BY <2>1 DEF UsageTypeOK, CountInv
    <3>3. ASSUME NEW s \in Sources
          PROVE  /\ Below(s) = Finished(lines[s], 0)
                 /\ cursors[s].version = digest.version \/ Below(s) = {}
      <4>1. CASE CaughtUp(s)
        <5>1. Below(s) = Finished(lines[s], 0) /\ cursors[s].version = reader
          BY <1>1, <3>1, <4>1, CaughtUpExact
        <5>2. CASE digest.version = reader
          BY <5>1, <5>2
        <5>3. CASE digest.version < reader
          BY <3>1, <3>2, <5>1, <5>3
        <5>4. QED BY <3>2, <5>1, <5>2, <5>3
      <4>2. CASE lines[s] = <<>>
        <5>1. cursors[s].offset = 0
          <6>1. Boundary(lines[s], cursors[s].offset)
            BY <1>1 DEF UsageInv, CursorInv
          <6>2. QED BY <4>2, <6>1 DEF Boundary
        <5>2. Below(s) = {}
          BY <5>1 DEF Below, MessagesTo
        <5>3. Finished(lines[s], 0) = {}
          BY <4>2 DEF Finished, Messages
        <5>4. QED BY <5>2, <5>3
      <4>3. QED BY <2>4, <4>1, <4>2
    <3>4. Turns = {x \in Sources \X (1..MaxLines) : x[2] \in Finished(lines[x[1]], 0)}
      BY <3>3 DEF Turns
    <3>5. QED BY <3>1, <3>4
  <2>5. QED BY <2>2, <2>3, <2>4 DEF LedgerExact
<1>2. QED BY <1>1, UsageInvariant, PTL
=============================================================================
