---------------------------- MODULE WatcherProofs ----------------------------
(***************************************************************************)
(* Proofs about the loops that watch the sessions and act for the operator:    *)
(* auto-continue, the stall nudges and the notifications. Each has its own      *)
(* part and its own inductive invariant.                                     *)
(***************************************************************************)
EXTENDS AutoContinue, StallNudge, NotifyWatch, TLAPS

(* AutoContinue. What makes the message timely is that the wait of a plain      *)
(* pause covers what is left of its limit, and that a menu once answered comes   *)
(* up again only if the agent asks again or the keys were lost. What makes a     *)
(* pause end before the watcher gives up is a measure of the ticks left, which   *)
(* every tick lowers, and a fault by one more.                                 *)

\* What is left of a limit whose time was read is waited out; a menu that comes up again
\* was asked again, or its keys were lost.
PauseCore ==
  /\ PauseTypeOK /\ MessageTimely /\ ViewTrue
  /\ stage # "rest" => due
  /\ lift \in 0..MaxReset
  /\ seen.known => seen.reset \in 0..MaxReset \cup {Day}
  /\ tracked /\ sched.known /\ ~past.relimited => lift <= sched.wait
  /\ tracked /\ sched.menu_confirmed /\ screen = "menu" => past.remenu \/ past.lost
  /\ tracked /\ past.remenu => sched.menu_confirmed
----------------------------------------------------------------------------
LEMMA PauseConstants ==
  /\ RESET_BUFFER \in Nat /\ RETRY \in Nat /\ UNKNOWN_RETRY \in Nat /\ GIVE_UP_AFTER \in Nat
  /\ SEND_COOLDOWN \in Nat /\ Day \in Nat
  /\ MaxReset \in Nat /\ MaxRaised \in Nat /\ MaxFaults \in Nat /\ MaxEdits \in Nat
  /\ SEND_COOLDOWN <= RETRY /\ RETRY <= UNKNOWN_RETRY
BY PauseAssumption

\* The records of the model.
LEMMA PauseRecords ==
  /\ NoSched \in Sched /\ Blank \in Seen /\ Fresh \in Past
  /\ ~Blank.limit /\ ~Blank.known /\ ~Blank.menu
  /\ \A s \in Sched : /\ s.age \in Nat /\ s.known \in BOOLEAN /\ s.wait \in Nat /\ s.cool \in Nat
                      /\ s.menu_confirmed \in BOOLEAN /\ s.gave_up \in BOOLEAN
                      /\ s.miss_streak \in 0..CLEAR_AFTER_MISSES
  /\ \A s \in Seen : /\ s.limit \in BOOLEAN /\ s.known \in BOOLEAN /\ s.reset \in Nat
                     /\ s.menu \in BOOLEAN
  /\ \A p \in Past : /\ p.relimited \in BOOLEAN /\ p.remenu \in BOOLEAN /\ p.lost \in BOOLEAN
                     /\ p.late \in BOOLEAN /\ p.dropped \in BOOLEAN
<1>1. NoSched \in Sched /\ Blank \in Seen /\ Fresh \in Past
  BY DEF NoSched, Sched, Blank, Seen, Fresh, Past, CLEAR_AFTER_MISSES
<1>2. ~Blank.limit /\ ~Blank.known /\ ~Blank.menu
  BY DEF Blank
<1> QED
  BY <1>1, <1>2 DEF Sched, Seen, Past

LEMMA PauseInitCore == PauseInit => PauseCore
<1> SUFFICES ASSUME PauseInit
             PROVE  PauseCore
  OBVIOUS
<1>1. PauseTypeOK
  <2>1. 0 \in 0..MaxRaised /\ 0 \in 0..MaxFaults /\ 0 \in 0..MaxEdits
    BY PauseConstants
  <2>2. sched \in Sched /\ seen \in Seen /\ past \in Past
    BY PauseRecords DEF PauseInit
  <2> QED
    BY <2>1, <2>2 DEF PauseInit, PauseTypeOK
<1> QED
  BY <1>1, PauseConstants, PauseRecords DEF PauseInit, PauseCore, MessageTimely, ViewTrue

LEMMA LessFacts == ASSUME NEW n \in Nat PROVE Less(n) \in Nat /\ Less(n) <= n
BY DEF Less

\* The agent and the operator.
LEMMA WorldKeepsCore ==
  ASSUME PauseCore, HitLimit \/ MenuAgain \/ Resume \/ SpawnAgain \/ ToggleLane \/ ToggleGlobal
  PROVE  PauseCore'
<1>0. /\ PauseTypeOK /\ sched \in Sched /\ past \in Past
  BY DEF PauseCore, PauseTypeOK
<1>1. CASE HitLimit
  <2>1. lift' \in 0..MaxReset
    BY <1>1, PauseConstants DEF HitLimit
  <2>2. raised' \in 0..MaxRaised
    BY <1>0, <1>1, PauseConstants DEF HitLimit, Raise, PauseTypeOK
  <2>3. past' \in Past
    BY <1>0, <1>1, PauseRecords DEF HitLimit, Past
  <2>4. ~tracked => past' = past
    BY <1>1 DEF HitLimit
  <2>5. tracked => /\ past'.relimited /\ past'.remenu = sched.menu_confirmed
                   /\ past'.dropped = past.dropped
    BY <1>0, <1>1 DEF HitLimit, Past
  <2>6. UNCHANGED <<watcher, due, pass, switches, early, spoiled, faults, edits>>
    BY <1>1 DEF HitLimit
  <2>7. PauseTypeOK'
    BY <1>0, <1>1, <2>1, <2>2, <2>3, <2>4, <2>6
       DEF HitLimit, PauseTypeOK, watcher, pass, switches
  <2> QED
    BY <2>1, <2>4, <2>5, <2>6, <2>7
       DEF PauseCore, MessageTimely, ViewTrue, watcher, pass, switches
<1>2. CASE MenuAgain
  <2>2. raised' \in 0..MaxRaised
    BY <1>0, <1>2, PauseConstants DEF MenuAgain, Raise, PauseTypeOK
  <2>3. past' \in Past
    BY <1>0, <1>2, PauseRecords DEF MenuAgain, Past
  <2>4. ~tracked => past' = past
    BY <1>2 DEF MenuAgain
  <2>5. tracked => /\ past'.relimited = past.relimited /\ past'.remenu = sched.menu_confirmed
                   /\ past'.dropped = past.dropped
    BY <1>0, <1>2 DEF MenuAgain, Past
  <2>6. UNCHANGED <<lift, shows, watcher, due, pass, switches, early, spoiled, faults, edits>>
    BY <1>2 DEF MenuAgain
  <2>7. PauseTypeOK'
    BY <1>0, <1>2, <2>2, <2>3, <2>4, <2>6 DEF MenuAgain, PauseTypeOK, watcher, pass, switches
  <2> QED
    BY <2>4, <2>5, <2>6, <2>7 DEF PauseCore, MessageTimely, ViewTrue, watcher, pass, switches
<1>3. CASE Resume
  <2>1. 0 \in 0..MaxReset /\ sched.wait \in Nat
    BY <1>0, PauseConstants, PauseRecords
  <2>2. UNCHANGED <<watcher, due, pass, switches, marks, bounds>>
    BY <1>3 DEF Resume
  <2>3. screen' \in {"run", "gone"} /\ lift' = 0 /\ shows' = FALSE
    BY <1>3 DEF Resume
  <2>4. PauseTypeOK'
    BY <1>0, <2>2, <2>3 DEF PauseTypeOK, watcher, pass, switches, marks, bounds
  <2> QED
    BY <2>1, <2>2, <2>3, <2>4
       DEF PauseCore, MessageTimely, ViewTrue, watcher, pass, switches, marks, bounds
<1>4. CASE SpawnAgain
  BY <1>4, PauseConstants
     DEF SpawnAgain, Raise, PauseCore, PauseTypeOK, MessageTimely, ViewTrue, watcher, pass, switches,
         marks
<1>5. CASE ToggleLane
  <2>1. edits' \in 0..MaxEdits
    BY <1>0, <1>5, PauseConstants DEF ToggleLane, Edit, PauseTypeOK
  <2>2. /\ past' \in Past /\ past'.relimited = past.relimited /\ past'.remenu = past.remenu
        /\ past'.lost = past.lost
        /\ ~tracked => past' = past
        /\ past'.dropped = past.dropped \/ (public /\ ~off)
        /\ public /\ ~off => past'.dropped = tracked
    <3>1. public => tracked
      BY DEF PauseCore, ViewTrue
    <3> QED
      BY <1>0, <1>5, <3>1, PauseRecords DEF ToggleLane, Past, PauseTypeOK
  <2>3. public' = (public /\ off) /\ off' = ~off
    BY <1>5 DEF ToggleLane
  <2>4. UNCHANGED <<agent, tracked, sched, due, pass, on, early, spoiled, raised, faults>>
    BY <1>5 DEF ToggleLane
  <2>5. PauseTypeOK'
    BY <1>0, <2>1, <2>2, <2>3, <2>4 DEF PauseTypeOK, agent, pass
  <2>6. ViewTrue'
    BY <1>0, <2>2, <2>3, <2>4 DEF PauseCore, ViewTrue, PauseTypeOK
  <2> QED
    BY <2>2, <2>4, <2>5, <2>6 DEF PauseCore, MessageTimely, agent, pass
<1>6. CASE ToggleGlobal
  BY <1>6, PauseConstants
     DEF ToggleGlobal, Edit, PauseCore, PauseTypeOK, MessageTimely, ViewTrue, agent, watcher, pass,
         marks
<1> QED
  BY <1>1, <1>2, <1>3, <1>4, <1>5, <1>6

\* A restart and the clock.
LEMMA ClockKeepsCore == ASSUME PauseCore, Restart \/ PauseTick PROVE PauseCore'
<1>0. PauseTypeOK /\ sched \in Sched
  BY DEF PauseCore, PauseTypeOK
<1>1. CASE Restart
  <2>1. edits' \in 0..MaxEdits
    BY <1>0, <1>1, PauseConstants DEF Restart, Edit, PauseTypeOK
  <2>2. /\ tracked' = FALSE /\ sched' = NoSched /\ public' = FALSE /\ off' = FALSE
        /\ due' = FALSE /\ stage' = "rest" /\ armed' = FALSE /\ seen' = Blank
        /\ past' = Fresh
        /\ UNCHANGED <<agent, on, early, spoiled, raised, faults>>
    BY <1>1 DEF Restart
  <2>3. PauseTypeOK'
    BY <1>0, <2>1, <2>2, PauseRecords DEF PauseTypeOK, agent
  <2> QED
    BY <2>2, <2>3, PauseRecords DEF PauseCore, MessageTimely, ViewTrue, agent
<1>2. CASE PauseTick
  <2>1. lift' \in 0..MaxReset /\ lift' = Less(lift)
    BY <1>2, PauseConstants, LessFacts DEF PauseTick, PauseCore
  <2>2. /\ sched' \in Sched /\ sched'.known = sched.known /\ sched'.gave_up = sched.gave_up
        /\ sched'.menu_confirmed = sched.menu_confirmed
        /\ tracked => sched'.wait = Less(sched.wait)
        /\ ~tracked => sched' = sched
    <3>1. Less(sched.wait) \in Nat /\ Less(sched.cool) \in Nat /\ sched.age + 1 \in Nat
      BY <1>0, PauseRecords, LessFacts
    <3>2. CASE tracked
      <4>1. PICK age \in Nat : sched' = [sched EXCEPT !.age = age, !.wait = Less(sched.wait),
                                                    !.cool = Less(sched.cool)]
        BY <1>0, <1>2, <3>1, <3>2, PauseRecords DEF PauseTick
      <4> QED
        BY <1>0, <3>1, <3>2, <4>1 DEF Sched
    <3>3. CASE ~tracked
      BY <1>0, <1>2, <3>3 DEF PauseTick
    <3> QED
      BY <3>2, <3>3
  <2>3. /\ due' = TRUE
        /\ UNCHANGED <<screen, shows, tracked, public, pass, switches, marks, bounds>>
    BY <1>2 DEF PauseTick
  <2>4. PauseTypeOK'
    BY <1>0, <2>1, <2>2, <2>3, PauseConstants DEF PauseTypeOK, pass, switches, marks, bounds
  <2>5. tracked /\ sched.known /\ ~past.relimited => lift' <= sched'.wait
    <3>1. lift \in Nat /\ sched.wait \in Nat
      BY <1>0, PauseRecords DEF PauseTypeOK
    <3> QED
      BY <2>1, <2>2, <3>1 DEF PauseCore, Less
  <2> QED
    BY <2>1, <2>2, <2>3, <2>4, <2>5
       DEF PauseCore, MessageTimely, ViewTrue, pass, switches, marks, bounds
<1> QED
  BY <1>1, <1>2

\* The schedule of a pass that looks at the pane: only the misses change.
LEMMA LookFacts ==
  ASSUME PauseCore, NEW detection \in Seen, Look(detection)
  PROVE  /\ sched' \in Sched
         /\ sched'.age = sched.age /\ sched'.known = sched.known /\ sched'.wait = sched.wait
         /\ sched'.cool = sched.cool /\ sched'.menu_confirmed = sched.menu_confirmed
         /\ sched'.gave_up = sched.gave_up
         /\ ~tracked => sched' = sched
<1>0. sched \in Sched /\ sched.miss_streak \in 0..CLEAR_AFTER_MISSES
  BY PauseRecords DEF PauseCore, PauseTypeOK
<1>1. CASE tracked
  <2>1. PICK n \in 0..CLEAR_AFTER_MISSES : sched' = [sched EXCEPT !.miss_streak = n]
    <3>1. /\ 0 \in 0..CLEAR_AFTER_MISSES
          /\ sched.miss_streak < CLEAR_AFTER_MISSES => sched.miss_streak + 1 \in 0..CLEAR_AFTER_MISSES
      BY <1>0 DEF CLEAR_AFTER_MISSES
    <3> QED
      BY <1>0, <1>1, <3>1 DEF Look
  <2> QED
    BY <1>0, <1>1, <2>1 DEF Sched
<1>2. CASE ~tracked
  BY <1>0, <1>2 DEF Look
<1> QED
  BY <1>1, <1>2

\* What a capture shows.
LEMMA DetectShows ==
  ASSUME PauseCore, Detect \/ DetectMiss
  PROVE  /\ stage = "capture" /\ seen' \in Seen /\ Look(seen')
         /\ seen'.known => seen'.reset \in 0..MaxReset \cup {Day}
         /\ faults' \in 0..MaxFaults
         /\ Detect => faults' = faults
         /\ DetectMiss => faults' = faults + 1 /\ seen' = Blank
         /\ Detect /\ Limited => seen'.limit /\ seen'.menu = (screen = "menu")
         /\ seen'.limit => Limited
<1>0. /\ lift \in 0..MaxReset /\ shows \in BOOLEAN /\ faults \in 0..MaxFaults
      /\ MaxReset \in Nat /\ Day \in Nat /\ MaxFaults \in Nat
  BY PauseConstants DEF PauseCore, PauseTypeOK
<1>1. CASE Detect /\ Limited
  <2>1. PICK r \in ResetAt : Look([limit |-> TRUE, known |-> shows,
                                   reset |-> IF shows THEN r ELSE 0, menu |-> screen = "menu"])
    BY <1>1 DEF Detect
  <2> DEFINE d == [limit |-> TRUE, known |-> shows,
                   reset |-> IF shows THEN r ELSE 0, menu |-> screen = "menu"]
  <2>2. r \in 0..MaxReset \cup {Day}
    BY <1>0 DEF ResetAt
  <2>3. d \in Seen
    BY <1>0, <2>2 DEF Seen
  <2>4. seen' = d
    BY <2>1 DEF Look
  <2>5. stage = "capture" /\ faults' = faults /\ ~DetectMiss
    BY <1>0, <1>1 DEF Detect, DetectMiss, Fault
  <2> QED
    BY <1>0, <1>1, <2>1, <2>2, <2>3, <2>4, <2>5
<1>2. CASE Detect /\ ~Limited
  BY <1>0, <1>2, PauseRecords DEF Detect, DetectMiss, Look
<1>3. CASE DetectMiss /\ ~Detect
  BY <1>0, <1>3, PauseRecords DEF DetectMiss, Fault, Look
<1> QED
  BY <1>1, <1>2, <1>3

\* A pass begins, looks at the pane or fails to.
LEMMA PassKeepsCore ==
  ASSUME PauseCore, StartPass \/ Detect \/ DetectMiss \/ CaptureFault
  PROVE  PauseCore'
<1>0. PauseTypeOK
  BY DEF PauseCore
<1>1. CASE StartPass
  <2>1. armed' \in BOOLEAN /\ stage' \in {"rest", "capture"} /\ due \in BOOLEAN /\ due' \in BOOLEAN
    BY <1>0, <1>1 DEF StartPass, PauseTypeOK
  <2>2. UNCHANGED <<agent, seen, switches, early, spoiled, bounds>>
    BY <1>1 DEF StartPass
  <2>3. CASE screen = "gone"
    <3>1. tracked' = FALSE /\ sched' = NoSched /\ public' = FALSE /\ past' = Fresh /\ stage' = "rest"
      BY <1>1, <2>3 DEF StartPass
    <3>2. PauseTypeOK'
      BY <1>0, <1>1, <2>1, <2>2, <3>1, PauseRecords
         DEF StartPass, PauseTypeOK, agent, switches, bounds
    <3> QED
      BY <2>2, <3>1, <3>2 DEF PauseCore, MessageTimely, ViewTrue, agent, switches, bounds
  <2>4. CASE screen # "gone"
    <3>1. stage' = "capture" /\ due /\ stage = "rest" /\ UNCHANGED <<watcher, past, due>>
      BY <1>1, <2>4 DEF StartPass
    <3>2. PauseTypeOK'
      BY <1>0, <2>1, <2>2, <3>1 DEF PauseTypeOK, agent, switches, bounds, watcher
    <3> QED
      BY <2>2, <3>1, <3>2 DEF PauseCore, MessageTimely, ViewTrue, agent, switches, bounds, watcher
  <2> QED
    BY <2>3, <2>4
<1>2. CASE Detect \/ DetectMiss
  <2>1. /\ stage = "capture" /\ seen' \in Seen /\ Look(seen') /\ faults' \in 0..MaxFaults
        /\ seen'.known => seen'.reset \in 0..MaxReset \cup {Day}
    BY <1>2, DetectShows
  <2>2. /\ sched' \in Sched /\ sched'.known = sched.known /\ sched'.wait = sched.wait
        /\ sched'.menu_confirmed = sched.menu_confirmed /\ sched'.gave_up = sched.gave_up
        /\ ~tracked => sched' = sched
    BY <2>1, LookFacts
  <2>3. /\ stage' = "act" /\ due
        /\ UNCHANGED <<agent, tracked, public, due, armed, switches, marks, raised, edits>>
    BY <2>1 DEF Look, PauseCore
  <2>4. PauseTypeOK'
    BY <1>0, <2>1, <2>2, <2>3 DEF PauseTypeOK, agent, switches, marks
  <2> QED
    BY <2>1, <2>2, <2>3, <2>4 DEF PauseCore, MessageTimely, ViewTrue, agent, switches, marks
<1>3. CASE CaptureFault
  <2>1. faults' \in 0..MaxFaults
    BY <1>0, <1>3, PauseConstants DEF CaptureFault, Fault, PauseTypeOK
  <2>2. /\ stage' = "rest" /\ due' = FALSE
        /\ UNCHANGED <<agent, watcher, armed, seen, switches, marks, raised, edits>>
    BY <1>3 DEF CaptureFault
  <2>3. seen = Blank
    BY <1>0, <1>3 DEF CaptureFault, PauseTypeOK
  <2>4. PauseTypeOK'
    BY <1>0, <2>1, <2>2, <2>3 DEF PauseTypeOK, agent, switches, marks, watcher
  <2> QED
    BY <2>2, <2>4 DEF PauseCore, MessageTimely, ViewTrue, agent, switches, marks, watcher
<1> QED
  BY <1>1, <1>2, <1>3

\* Keys or a message are lost.
LEMMA LostFacts ==
  ASSUME NEW p \in Past
  PROVE  LET q == [p EXCEPT !.lost = TRUE] IN
         /\ q \in Past /\ q.lost
         /\ q.relimited = p.relimited /\ q.remenu = p.remenu /\ q.late = p.late
         /\ q.dropped = p.dropped
BY DEF Past

\* What a pass leaves of the schedule.
LEMMA ApplyKeepsCore == ASSUME PauseCore, Apply PROVE PauseCore'
<1>0. /\ PauseTypeOK /\ sched \in Sched /\ seen \in Seen /\ past \in Past
      /\ lift \in 0..MaxReset /\ lift \in Nat /\ Day \in Nat
  BY PauseConstants DEF PauseCore, PauseTypeOK
<1>1. /\ stage' = "rest" /\ due' = FALSE /\ seen' = Blank /\ UNCHANGED armed
      /\ UNCHANGED <<switches, raised, edits>>
  BY DEF Apply, Rest
<1>2. CASE Tracks /\ Track
  <2>1. ~tracked /\ tracked' = TRUE /\ public' = TRUE
    BY <1>2 DEF Tracks, Track
  <2>2. Schedule(seen) \in Nat /\ (seen.known => Schedule(seen) = seen.reset + RESET_BUFFER)
    BY <1>0, PauseConstants, PauseRecords DEF Schedule
  <2>3. /\ sched' \in Sched /\ sched'.known = seen.known /\ sched'.wait = Schedule(seen)
        /\ ~sched'.menu_confirmed /\ ~sched'.gave_up
    BY <1>0, <1>2, <2>2, PauseRecords DEF Track, NoSched, Sched
  <2>4. /\ past' \in Past /\ past'.relimited = (seen.known /\ seen.reset < lift)
        /\ ~past'.remenu
    <3> DEFINE late == seen.known /\ seen.reset >= Day
               passed == seen.known /\ seen.reset < lift
    <3>1. late \in BOOLEAN /\ passed \in BOOLEAN
      OBVIOUS
    <3>2. past' = [Fresh EXCEPT !.late = late, !.relimited = passed]
      BY <1>2 DEF Track
    <3> HIDE DEF late, passed
    <3>3. past' \in Past /\ past'.relimited = passed /\ ~past'.remenu
      BY <3>1, <3>2 DEF Fresh, Past
    <3> QED
      BY <3>3 DEF passed
  <2>5. UNCHANGED <<agent, early, spoiled, faults>>
    BY <1>2 DEF Track
  <2>6. PauseTypeOK'
    BY <1>0, <1>1, <2>1, <2>3, <2>4, <2>5, PauseRecords DEF PauseTypeOK, agent, switches
  <2>7. sched'.known /\ ~past'.relimited => lift <= sched'.wait
    BY <1>0, <2>2, <2>3, <2>4, PauseConstants, PauseRecords
  <2> QED
    BY <1>1, <2>1, <2>3, <2>4, <2>5, <2>6, <2>7, PauseRecords
       DEF PauseCore, MessageTimely, ViewTrue, agent
<1>3. CASE ChoosesWait /\ ChooseWait
  <2>1. tracked /\ UNCHANGED <<tracked, public, early, spoiled, lift, shows>>
    BY <1>3 DEF ChoosesWait, Pending, Holding, ChooseWait, agent
  <2>2. /\ sched' \in Sched /\ sched'.known = sched.known /\ sched'.wait = sched.wait
        /\ sched'.menu_confirmed /\ sched'.gave_up = sched.gave_up
    BY <1>0, <1>3, PauseConstants DEF ChooseWait, Sched
  <2>3. /\ past' \in Past /\ past'.relimited = past.relimited /\ past'.dropped = past.dropped
        /\ screen' \in {"run", "limit", "menu", "gone"}
        /\ screen' = "menu" => past'.lost
        /\ faults' \in 0..MaxFaults
    <3>1. CASE /\ screen' = IF screen = "menu" THEN "limit" ELSE screen
               /\ UNCHANGED <<lift, shows, past, faults>>
      BY <1>0, <3>1 DEF PauseTypeOK
    <3>2. CASE Fault /\ past' = [past EXCEPT !.lost = TRUE] /\ UNCHANGED agent
      BY <1>0, <3>2, LostFacts, PauseConstants DEF PauseTypeOK, Fault, agent
    <3> QED
      BY <1>3, <3>1, <3>2 DEF ChooseWait
  <2>4. PauseTypeOK'
    BY <1>0, <1>1, <2>1, <2>2, <2>3, PauseRecords DEF PauseTypeOK, switches
  <2> QED
    BY <1>1, <2>1, <2>2, <2>3, <2>4, PauseRecords DEF PauseCore, MessageTimely, ViewTrue
<1>4. CASE Sends /\ SendMessage
  <2>1. /\ tracked /\ sched.wait = 0 /\ (seen.menu => sched.menu_confirmed)
        /\ UNCHANGED <<tracked, public>>
    BY <1>4 DEF Sends, Pending, Holding, MenuOpen, SendMessage
  <2>2. /\ sched' \in Sched /\ sched'.known = sched.known
        /\ sched'.menu_confirmed = sched.menu_confirmed /\ sched'.gave_up = sched.gave_up
    BY <1>0, <1>4, PauseConstants DEF SendMessage, Sched
  <2>3. sched.known /\ ~past.relimited => lift = 0
    BY <1>0, <2>1 DEF PauseCore
  <2>4. ~early' /\ ~spoiled' /\ early' \in BOOLEAN /\ spoiled' \in BOOLEAN
    <3>1. ~early /\ ~spoiled /\ early \in BOOLEAN /\ spoiled \in BOOLEAN
      BY <1>0 DEF PauseCore, MessageTimely, PauseTypeOK
    <3>2. ~(Limited /\ lift > 0 /\ sched.known /\ ~past.relimited)
      BY <1>0, <2>3
    <3>3. ~(seen.menu /\ screen = "menu" /\ ~past.remenu /\ ~past.lost)
      BY <2>1 DEF PauseCore
    <3> QED
      BY <1>4, <3>1, <3>2, <3>3 DEF SendMessage
  <2>5. /\ past' \in Past /\ past'.relimited = past.relimited /\ past'.dropped = past.dropped
        /\ past'.remenu = past.remenu /\ (past.lost => past'.lost)
        /\ faults' \in 0..MaxFaults
    <3>1. CASE UNCHANGED <<past, faults>>
      BY <1>0, <3>1 DEF PauseTypeOK
    <3>2. CASE Fault /\ past' = [past EXCEPT !.lost = TRUE]
      BY <1>0, <3>2, LostFacts, PauseConstants DEF PauseTypeOK, Fault
    <3> QED
      BY <1>4, <3>1, <3>2 DEF SendMessage
  <2>6. /\ lift' = lift /\ shows' \in BOOLEAN /\ screen' \in {"run", "limit", "menu", "gone"}
        /\ screen' = "menu" => screen = "menu"
    BY <1>0, <1>4 DEF SendMessage, Typed, agent, PauseTypeOK
  <2>7. PauseTypeOK'
    BY <1>0, <1>1, <2>1, <2>2, <2>4, <2>5, <2>6, PauseRecords DEF PauseTypeOK, switches
  <2>8. sched'.known /\ ~past'.relimited => lift' <= sched'.wait
    BY <1>0, <2>2, <2>3, <2>5, <2>6, PauseRecords
  <2> QED
    BY <1>1, <2>1, <2>2, <2>4, <2>5, <2>6, <2>7, <2>8, PauseRecords
       DEF PauseCore, MessageTimely, ViewTrue
<1>5. CASE GivesUp /\ GiveUp
  <2>1. tracked /\ public' = FALSE /\ UNCHANGED <<agent, tracked, marks, faults>>
    BY <1>5 DEF GivesUp, Holding, GiveUp
  <2>2. /\ sched' \in Sched /\ sched'.known = sched.known /\ sched'.wait = sched.wait
        /\ sched'.menu_confirmed = sched.menu_confirmed /\ sched'.gave_up
    BY <1>0, <1>5 DEF GiveUp, Sched
  <2>3. PauseTypeOK'
    BY <1>0, <1>1, <2>1, <2>2, PauseRecords DEF PauseTypeOK, switches, agent, marks
  <2> QED
    BY <1>1, <2>1, <2>2, <2>3, PauseRecords DEF PauseCore, MessageTimely, ViewTrue, agent, marks
<1>6. CASE Clears /\ Clear
  <2>1. /\ tracked' = FALSE /\ sched' = NoSched /\ public' = FALSE /\ past' = Fresh
        /\ UNCHANGED <<agent, early, spoiled, faults>>
    BY <1>6 DEF Clear
  <2>2. PauseTypeOK'
    BY <1>0, <1>1, <2>1, PauseRecords DEF PauseTypeOK, switches, agent
  <2> QED
    BY <1>1, <2>1, <2>2, PauseRecords DEF PauseCore, MessageTimely, ViewTrue, agent
<1>7. CASE UNCHANGED <<agent, watcher, marks, faults>>
  <2>1. PauseTypeOK'
    BY <1>0, <1>1, <1>7, PauseRecords DEF PauseTypeOK, switches, agent, watcher, marks
  <2> QED
    BY <1>1, <1>7, <2>1, PauseRecords
       DEF PauseCore, MessageTimely, ViewTrue, agent, watcher, marks
<1> QED
  BY <1>2, <1>3, <1>4, <1>5, <1>6, <1>7 DEF Apply

LEMMA PauseStepCore == ASSUME PauseCore, [PauseNext]_pauseVars PROVE PauseCore'
<1>1. CASE UNCHANGED pauseVars
  BY <1>1 DEF pauseVars, agent, watcher, pass, switches, marks, bounds, PauseCore, PauseTypeOK,
              MessageTimely, ViewTrue
<1> QED
  BY <1>1, WorldKeepsCore, ClockKeepsCore, PassKeepsCore, ApplyKeepsCore
     DEF PauseNext, WatcherPass
----------------------------------------------------------------------------
(* How long a pause may last that nothing prolongs: the watcher gives up after it. *)

\* The patience of the watcher covers the longest reset, a try in vain and one into an unseen
\* menu, and the ticks that faults cost (six hours, of which a window of limits takes five).
Patient ==
  GIVE_UP_AFTER >=
    MaxReset + RESET_BUFFER + 2 * UNKNOWN_RETRY + SEND_COOLDOWN + MaxFaults + 3

\* A pause that no other limit or menu, no loss and no misread time prolongs.
Plain ==
  /\ tracked /\ ~sched.gave_up
  /\ ~past.relimited /\ ~past.remenu /\ ~past.lost /\ ~past.late
Larger(m, n) == IF m >= n THEN m ELSE n
Held == Larger(sched.wait, sched.cool)
\* The ticks until the next pass that may type the message, ...
Ahead == IF ~due \/ (stage = "act" /\ ~seen.limit) THEN Larger(1, Held) ELSE Held
\* ... until the first that finds the limit reset, ...
Fruitful(l, n) == IF l <= n THEN n ELSE l + UNKNOWN_RETRY
RetryIn == IF sched.known THEN RETRY ELSE UNKNOWN_RETRY
\* ... and what a menu may add: it is answered first, but the message goes into one that came
\* up after the capture.
MenuUnseen == stage = "act" /\ seen.limit /\ ~seen.menu
Detour ==
  IF sched.menu_confirmed \/ ~Limited THEN 0
  ELSE IF screen = "menu" /\ ~MenuUnseen THEN SEND_COOLDOWN + 1
  ELSE SEND_COOLDOWN + 1 + RetryIn + 1
Spent == sched.age + Fruitful(lift, Ahead) + Detour + (MaxFaults - faults)
InTime == Plain /\ (Limited \/ seen.limit) => Spent <= GIVE_UP_AFTER

PauseInv == PauseCore /\ GivesUpForCause /\ InTime

LEMMA FruitfulFacts ==
  ASSUME NEW l \in Nat, NEW n \in Nat
  PROVE  /\ Fruitful(l, n) \in Nat /\ Fruitful(l, n) >= n
         /\ Fruitful(0, n) = n
         /\ l <= n => Fruitful(l, n) = n
         /\ \A m \in Nat : n <= m => Fruitful(l, m) <= Fruitful(l, n) + (m - n)
         /\ n >= 1 => Fruitful(Less(l), n - 1) = Fruitful(l, n) - 1
BY PauseConstants DEF Fruitful, Less

Numbers ==
  /\ sched.age \in Nat /\ sched.wait \in Nat /\ sched.cool \in Nat /\ lift \in Nat
  /\ faults \in Nat /\ faults <= MaxFaults /\ MaxFaults \in Nat
  /\ Held \in Nat /\ Held >= sched.wait /\ Held >= sched.cool
  /\ Held = 0 <=> sched.wait = 0 /\ sched.cool = 0
  /\ Ahead \in Nat /\ Ahead >= Held /\ Ahead <= Held + 1 /\ (Held >= 1 => Ahead = Held)
  /\ RetryIn \in Nat /\ RetryIn >= SEND_COOLDOWN /\ RetryIn <= UNKNOWN_RETRY
  /\ Detour \in Nat

LEMMA PauseNumbers == ASSUME PauseCore PROVE Numbers
<1>1. (/\ sched.age \in Nat /\ sched.wait \in Nat /\ sched.cool \in Nat /\ lift \in Nat
       /\ faults \in Nat /\ faults <= MaxFaults /\ MaxFaults \in Nat)
  BY PauseConstants, PauseRecords DEF PauseCore, PauseTypeOK
<1>2. (/\ Held \in Nat /\ Held >= sched.wait /\ Held >= sched.cool
       /\ Held = 0 <=> sched.wait = 0 /\ sched.cool = 0)
  BY <1>1 DEF Held, Larger
<1>3. (/\ Ahead \in Nat /\ Ahead >= Held /\ Ahead <= Held + 1 /\ (Held >= 1 => Ahead = Held))
  BY <1>2 DEF Ahead, Larger
<1>4. (RetryIn \in Nat /\ RetryIn >= SEND_COOLDOWN /\ RetryIn <= UNKNOWN_RETRY)
  BY PauseConstants DEF RetryIn
<1>5. (Detour \in Nat)
  BY <1>4, PauseConstants DEF Detour
<1> QED
  BY <1>1, <1>2, <1>3, <1>4, <1>5 DEF Numbers

LEMMA PauseNumbersNext == ASSUME PauseCore' PROVE Numbers'
<1>1. (/\ sched.age \in Nat /\ sched.wait \in Nat /\ sched.cool \in Nat /\ lift \in Nat
       /\ faults \in Nat /\ faults <= MaxFaults /\ MaxFaults \in Nat)'
  BY PauseConstants, PauseRecords DEF PauseCore, PauseTypeOK
<1>2. (/\ Held \in Nat /\ Held >= sched.wait /\ Held >= sched.cool
       /\ Held = 0 <=> sched.wait = 0 /\ sched.cool = 0)'
  BY <1>1 DEF Held, Larger
<1>3. (/\ Ahead \in Nat /\ Ahead >= Held /\ Ahead <= Held + 1 /\ (Held >= 1 => Ahead = Held))'
  <2>1. Ahead' = Held' \/ Ahead' = (IF 1 >= Held' THEN 1 ELSE Held')
    BY DEF Ahead, Larger
  <2>2. Held' \in Nat
    BY <1>2
  <2>3. /\ Ahead' \in Nat /\ Ahead' >= Held' /\ Ahead' <= Held' + 1
        /\ Held' >= 1 => Ahead' = Held'
    BY <2>1, <2>2
  <2> QED
    BY <2>3
<1>4. (RetryIn \in Nat /\ RetryIn >= SEND_COOLDOWN /\ RetryIn <= UNKNOWN_RETRY)'
  BY PauseConstants DEF RetryIn
<1>5. (Detour \in Nat)'
  <2>1. Detour' \in {0, SEND_COOLDOWN + 1, SEND_COOLDOWN + 1 + RetryIn' + 1}
    BY DEF Detour
  <2>2. RetryIn' \in Nat /\ SEND_COOLDOWN \in Nat
    BY <1>4, PauseConstants
  <2>3. \A n \in Nat : {0, SEND_COOLDOWN + 1, SEND_COOLDOWN + 1 + n + 1} \subseteq Nat
    BY <2>2
  <2> QED
    BY <2>1, <2>2, <2>3
<1> QED
  BY <1>1, <1>2, <1>3, <1>4, <1>5 DEF Numbers

\* Nothing a plain pause waits for moves away.
LEMMA InTimeKept ==
  ASSUME PauseCore, PauseCore', InTime, Plain' => Plain,
         (Limited' \/ seen'.limit) => (Limited \/ seen.limit),
         sched'.age = sched.age, lift' = lift \/ lift' = 0,
         \/ Ahead' = Ahead /\ faults' = faults
         \/ lift' = lift /\ faults' = faults + 1 /\ Ahead <= Ahead' /\ Ahead' <= Ahead + 1,
         Plain' /\ (Limited' \/ seen'.limit) => Detour' <= Detour
  PROVE  InTime'
<1> SUFFICES ASSUME Plain', Limited' \/ seen'.limit
             PROVE  Spent' <= GIVE_UP_AFTER
  BY DEF InTime
<1>1. Spent <= GIVE_UP_AFTER
  BY DEF InTime
<1>2. Numbers /\ Numbers' /\ GIVE_UP_AFTER \in Nat
  BY PauseNumbers, PauseNumbersNext, PauseConstants
<1>3. Detour' <= Detour /\ Detour \in Nat /\ Detour' \in Nat
  BY <1>2 DEF Numbers
<1> DEFINE f == Fruitful(lift, Ahead)
<1>4. f \in Nat /\ Fruitful(lift', Ahead') \in Nat
  BY <1>2, FruitfulFacts DEF Numbers
<1>5. \/ Fruitful(lift', Ahead') <= f /\ faults' = faults
      \/ Fruitful(lift', Ahead') <= f + 1 /\ faults' = faults + 1
  <2>1. CASE Ahead' = Ahead /\ faults' = faults
    <3>1. Fruitful(0, Ahead) = Ahead /\ Fruitful(lift, Ahead) >= Ahead
      BY <1>2, FruitfulFacts DEF Numbers
    <3> QED
      BY <1>4, <2>1, <3>1
  <2>2. CASE lift' = lift /\ faults' = faults + 1 /\ Ahead <= Ahead' /\ Ahead' <= Ahead + 1
    <3>1. Fruitful(lift, Ahead') <= f + (Ahead' - Ahead)
      BY <1>2, <2>2, FruitfulFacts DEF Numbers
    <3> QED
      BY <1>2, <1>4, <2>2, <3>1 DEF Numbers
  <2> QED
    BY <2>1, <2>2
<1> HIDE DEF f
<1>6. Spent = sched.age + f + Detour + (MaxFaults - faults)
  BY DEF Spent, f
<1>7. Spent' = sched'.age + Fruitful(lift', Ahead') + Detour' + (MaxFaults - faults')
  BY DEF Spent
<1>8. /\ sched.age \in Nat /\ faults \in Nat /\ faults' \in Nat /\ MaxFaults \in Nat
  BY <1>2 DEF Numbers
<1> QED
  BY <1>1, <1>2, <1>3, <1>4, <1>5, <1>6, <1>7, <1>8

\* The agent and the operator prolong nothing.
LEMMA WorldKeepsTime ==
  ASSUME PauseCore, PauseCore', InTime,
         HitLimit \/ MenuAgain \/ Resume \/ SpawnAgain \/ ToggleLane \/ ToggleGlobal
  PROVE  InTime'
<1>0. PauseTypeOK /\ past \in Past
  BY DEF PauseCore, PauseTypeOK
<1>1. CASE HitLimit
  <2>1. ~Plain'
    BY <1>0, <1>1 DEF HitLimit, Plain, Past, watcher
  <2> QED
    BY <2>1 DEF InTime
<1>2. CASE MenuAgain
  <2>1. /\ UNCHANGED <<lift, shows, watcher, due, pass, faults>>
        /\ screen = "limit" /\ screen' = "menu"
    BY <1>2 DEF MenuAgain
  <2>2. Plain' => Plain /\ ~sched.menu_confirmed
    <3>1. tracked => /\ past'.relimited = past.relimited /\ past'.remenu = sched.menu_confirmed
                     /\ past'.lost = past.lost /\ past'.late = past.late
      BY <1>0, <1>2 DEF MenuAgain, Past
    <3> QED
      BY <2>1, <3>1 DEF Plain, PauseCore, watcher
  <2>3. Ahead' = Ahead /\ RetryIn' = RetryIn
    BY <2>1 DEF Ahead, Held, RetryIn, watcher, pass
  <2>4. Plain' => Detour' <= Detour
    <3>1. RetryIn \in Nat /\ SEND_COOLDOWN \in Nat
      BY PauseNumbers, PauseConstants DEF Numbers
    <3> QED
      BY <2>1, <2>2, <2>3, <3>1 DEF Detour, Limited, MenuUnseen, watcher, pass
  <2> QED
    BY <2>1, <2>2, <2>3, <2>4, InTimeKept DEF Limited, watcher, pass
<1>3. CASE Resume \/ SpawnAgain
  <2>1. /\ UNCHANGED <<watcher, due, pass, past, faults>>
        /\ lift' = lift \/ lift' = 0
        /\ screen' \in {"run", "gone"}
    BY <1>3 DEF Resume, SpawnAgain, marks, bounds
  <2>2. Ahead' = Ahead /\ (Plain' => Plain)
    BY <2>1 DEF Ahead, Held, watcher, pass, Plain
  <2>3. Detour' <= Detour
    <3>1. Detour' = 0
      BY <2>1 DEF Detour, Limited
    <3> QED
      BY <3>1, PauseNumbers DEF Numbers
  <2> QED
    BY <2>1, <2>2, <2>3, InTimeKept DEF Limited, watcher, pass
<1>4. CASE ToggleLane \/ ToggleGlobal
  <2>1. /\ UNCHANGED <<agent, tracked, sched, due, pass, faults>>
        /\ past'.relimited = past.relimited /\ past'.remenu = past.remenu
        /\ past'.lost = past.lost /\ past'.late = past.late
    BY <1>0, <1>4 DEF ToggleLane, ToggleGlobal, watcher, marks, Past
  <2>2. Ahead' = Ahead /\ (Plain' => Plain) /\ Detour' = Detour
    BY <2>1 DEF Ahead, Held, RetryIn, Detour, MenuUnseen, Limited, agent, pass, Plain
  <2>3. Detour' <= Detour
    BY <2>2, PauseNumbers DEF Numbers
  <2> QED
    BY <2>1, <2>2, <2>3, InTimeKept DEF Limited, agent, pass
<1> QED
  BY <1>1, <1>2, <1>3, <1>4

\* A tick brings the next try as much nearer as it makes the pause older.
LEMMA ClockKeepsTime ==
  ASSUME PauseCore, PauseCore', InTime, Restart \/ PauseTick
  PROVE  InTime'
<1>1. CASE Restart
  BY <1>1 DEF Restart, InTime, Plain
<1>2. CASE PauseTick
  <2> SUFFICES ASSUME Plain', Limited' \/ seen'.limit
               PROVE  Spent' <= GIVE_UP_AFTER
    BY DEF InTime
  <2>1. /\ ~due /\ due' /\ lift' = Less(lift) /\ stage = "rest" /\ seen = Blank
        /\ UNCHANGED <<screen, tracked, pass, past, faults>>
    BY <1>2 DEF PauseTick, PauseCore, PauseTypeOK, marks, bounds
  <2>2. sched \in Sched /\ tracked
    BY <2>1 DEF PauseCore, PauseTypeOK, Plain
  <2>3. /\ sched'.age \in Nat /\ sched'.age <= sched.age + 1
        /\ sched'.wait = Less(sched.wait) /\ sched'.cool = Less(sched.cool)
        /\ sched'.known = sched.known /\ sched'.menu_confirmed = sched.menu_confirmed
        /\ sched'.gave_up = sched.gave_up
    <3>1. sched.age \in Nat /\ GIVE_UP_AFTER \in Nat
      BY <2>2, PauseConstants, PauseRecords
    <3>2. sched' = [sched EXCEPT !.age = IF @ > GIVE_UP_AFTER THEN @ ELSE @ + 1,
                                 !.wait = Less(@), !.cool = Less(@)]
      BY <1>2, <2>2 DEF PauseTick
    <3> QED
      BY <2>2, <3>1, <3>2 DEF Sched
  <2>4. Limited /\ Plain
    <3>1. ~seen'.limit
      BY <2>1, PauseRecords DEF pass
    <3> QED
      BY <2>1, <2>3, <3>1 DEF Limited, Plain
  <2>5. Detour' = Detour
    BY <2>1, <2>3 DEF Detour, Limited, MenuUnseen, RetryIn, pass
  <2>6. Numbers /\ GIVE_UP_AFTER \in Nat
    BY PauseNumbers, PauseConstants
  <2>7. Ahead' = Ahead - 1 /\ Ahead >= 1
    <3>1. Ahead = Larger(1, Held)
      BY <2>1 DEF Ahead
    <3>2. Ahead' = Held'
      BY <2>1 DEF Ahead, pass
    <3>3. Held' = Larger(Less(sched.wait), Less(sched.cool))
      BY <2>3 DEF Held
    <3> QED
      BY <2>6, <3>1, <3>2, <3>3 DEF Numbers, Held, Larger, Less
  <2>8. Fruitful(lift', Ahead') = Fruitful(lift, Ahead) - 1 /\ Fruitful(lift, Ahead) \in Nat
    <3>1. lift \in Nat /\ Ahead \in Nat
      BY <2>6 DEF Numbers
    <3>2. /\ Fruitful(Less(lift), Ahead - 1) = Fruitful(lift, Ahead) - 1
          /\ Fruitful(lift, Ahead) \in Nat
      BY <2>7, <3>1, FruitfulFacts
    <3> QED
      BY <2>1, <2>7, <3>2
  <2>9. Spent <= GIVE_UP_AFTER
    BY <2>4 DEF InTime
  <2>10. Spent' = sched'.age + Fruitful(lift', Ahead') + Detour + (MaxFaults - faults)
    BY <2>1, <2>5 DEF Spent
  <2> QED
    BY <2>3, <2>6, <2>8, <2>9, <2>10 DEF Spent, Numbers
<1> QED
  BY <1>1, <1>2

\* A pass without a look at the pane costs one of the faults.
LEMMA PassKeepsTime ==
  ASSUME PauseCore, PauseCore', InTime, StartPass \/ Detect \/ DetectMiss \/ CaptureFault
  PROVE  InTime'
<1>0. Numbers /\ PauseTypeOK
  BY PauseNumbers DEF PauseCore
<1>1. CASE StartPass
  <2>1. CASE screen = "gone"
    BY <1>1, <2>1 DEF StartPass, InTime, Plain
  <2>2. CASE screen # "gone"
    <3>1. /\ due /\ stage = "rest" /\ stage' = "capture"
          /\ UNCHANGED <<agent, watcher, past, due, seen, faults>>
      BY <1>1, <2>2 DEF StartPass, bounds
    <3>2. Ahead' = Ahead /\ Detour' = Detour /\ (Plain' => Plain)
      BY <3>1 DEF Ahead, Held, Detour, Limited, MenuUnseen, RetryIn, Plain, agent, watcher
    <3>3. Detour' <= Detour
      BY <1>0, <3>2 DEF Numbers
    <3> QED
      BY <3>1, <3>2, <3>3, InTimeKept DEF Limited, agent, watcher
  <2> QED
    BY <2>1, <2>2
<1>2. CASE Detect \/ DetectMiss
  <2>1. /\ stage = "capture" /\ seen' \in Seen /\ Look(seen')
        /\ Detect => faults' = faults
        /\ DetectMiss => faults' = faults + 1 /\ seen' = Blank
        /\ Detect /\ Limited => seen'.limit /\ seen'.menu = (screen = "menu")
        /\ seen'.limit => Limited
    BY <1>2, DetectShows
  <2>2. /\ sched'.age = sched.age /\ sched'.wait = sched.wait /\ sched'.cool = sched.cool
        /\ sched'.known = sched.known /\ sched'.menu_confirmed = sched.menu_confirmed
        /\ sched'.gave_up = sched.gave_up
    BY <2>1, LookFacts
  <2>3. stage' = "act" /\ due /\ UNCHANGED <<agent, tracked, due, past>>
    BY <2>1 DEF Look, PauseCore, marks
  <2>4. Plain' => Plain
    BY <2>2, <2>3 DEF Plain
  <2>5. (Limited' \/ seen'.limit) => Limited
    BY <2>1, <2>3 DEF Limited, agent
  <2>6. Held' = Held /\ Ahead = Held /\ RetryIn' = RetryIn
    BY <2>1, <2>2, <2>3 DEF Held, Ahead, RetryIn
  <2>7. CASE Limited
    <3>1. Detour' <= Detour
      <4>1. RetryIn \in Nat /\ SEND_COOLDOWN \in Nat
        BY <1>0, PauseConstants DEF Numbers
      <4>2. screen = "menu" => ~MenuUnseen'
        BY <1>2, <2>1, <2>7, PauseRecords DEF MenuUnseen
      <4>3. ~MenuUnseen /\ Limited'
        BY <2>1, <2>3, <2>7 DEF MenuUnseen, Limited, agent
      <4> QED
        BY <2>2, <2>3, <2>6, <2>7, <4>1, <4>2, <4>3 DEF Detour, agent
    <3>2. CASE Detect
      <4>1. Ahead' = Ahead
        BY <2>1, <2>3, <2>6, <2>7, <3>2 DEF Ahead
      <4> QED
        BY <2>1, <2>2, <2>3, <2>4, <2>5, <3>1, <3>2, <4>1, InTimeKept DEF agent
    <3>3. CASE DetectMiss
      <4>1. Ahead <= Ahead' /\ Ahead' <= Ahead + 1
        BY <1>0, <2>6, PauseNumbersNext DEF Numbers
      <4> QED
        BY <2>1, <2>2, <2>3, <2>4, <2>5, <3>1, <3>3, <4>1, InTimeKept DEF agent
    <3> QED
      BY <1>2, <3>2, <3>3
  <2>8. CASE ~Limited
    BY <2>5, <2>8 DEF InTime
  <2> QED
    BY <2>7, <2>8
<1>3. CASE CaptureFault
  <2>1. /\ stage = "capture" /\ stage' = "rest" /\ faults' = faults + 1
        /\ UNCHANGED <<agent, watcher, seen, past>>
    BY <1>3 DEF CaptureFault, Fault, marks
  <2>2. /\ Detour' = Detour /\ (Plain' => Plain) /\ Held' = Held
        /\ (Limited' <=> Limited)
    BY <2>1 DEF Held, Detour, Limited, MenuUnseen, RetryIn, Plain, agent, watcher
  <2>3. Ahead = Held
    BY <2>1 DEF Ahead, PauseCore
  <2>4. Ahead <= Ahead' /\ Ahead' <= Ahead + 1
    BY <1>0, <2>2, <2>3, PauseNumbersNext DEF Numbers
  <2>5. Detour' <= Detour
    BY <1>0, <2>2 DEF Numbers
  <2> QED
    BY <2>1, <2>2, <2>4, <2>5, InTimeKept DEF agent, watcher
<1> QED
  BY <1>1, <1>2, <1>3

\* A pause whose time is known is waited out in time.
LEMMA FreshInTime ==
  ASSUME Patient, NEW ahead \in Nat, NEW detour \in Nat, NEW retry \in Nat, NEW spoilt \in Nat,
         ahead <= MaxReset + RESET_BUFFER + 1, detour <= SEND_COOLDOWN + 1 + retry + 1,
         retry <= UNKNOWN_RETRY
  PROVE  ahead + detour + (MaxFaults - spoilt) <= GIVE_UP_AFTER
BY PauseConstants DEF Patient

\* A pass: what it does brings the end of the pause no later, and a plain pause is not given up.
LEMMA ApplyKeepsTime ==
  ASSUME Patient, PauseCore, PauseCore', InTime, Apply
  PROVE  InTime' /\ (GivesUp => ~Plain)
<1>0. /\ Numbers /\ Numbers' /\ PauseTypeOK /\ sched \in Sched /\ past \in Past /\ seen \in Seen
      /\ GIVE_UP_AFTER \in Nat /\ SEND_COOLDOWN \in Nat /\ UNKNOWN_RETRY \in Nat
      /\ stage = "act" /\ due
  BY PauseNumbers, PauseNumbersNext, PauseConstants DEF PauseCore, PauseTypeOK, Apply
<1>1. /\ stage' = "rest" /\ ~due' /\ seen' = Blank /\ ~seen'.limit /\ ~MenuUnseen'
      /\ Ahead' = Larger(1, Held')
  BY PauseRecords DEF Apply, Rest, MenuUnseen, Ahead
<1>2. ASSUME GivesUp, Plain
      PROVE  FALSE
  <2>1. seen.limit /\ sched.age > GIVE_UP_AFTER
    BY <1>2 DEF GivesUp, Holding
  <2>2. Spent <= GIVE_UP_AFTER
    BY <1>2, <2>1 DEF InTime
  <2>3. Fruitful(lift, Ahead) \in Nat
    BY <1>0, FruitfulFacts DEF Numbers
  <2> QED
    BY <1>0, <2>1, <2>2, <2>3 DEF Spent, Numbers
<1> SUFFICES ASSUME Plain', Limited'
             PROVE  Spent' <= GIVE_UP_AFTER
  BY <1>1, <1>2 DEF InTime
<1>3. Spent' = sched'.age + Fruitful(lift', Ahead') + Detour' + (MaxFaults - faults')
  BY DEF Spent
<1>4. CASE Tracks /\ Track
  <2>1. /\ sched'.age = 0 /\ sched'.cool = 0 /\ sched'.wait = Schedule(seen)
        /\ sched'.known = seen.known /\ sched'.menu_confirmed = FALSE
    <3>1. Schedule(seen) \in Nat
      BY <1>0, PauseConstants, PauseRecords DEF Schedule
    <3> QED
      BY <1>0, <1>4, <3>1 DEF Track, NoSched
  <2>2. /\ lift' = lift /\ lift <= MaxReset /\ lift \in Nat /\ MaxReset \in Nat
        /\ seen.known => seen.reset \in Nat /\ seen.reset <= MaxReset /\ lift <= seen.reset
    <3>1. lift' = lift /\ lift \in 0..MaxReset /\ MaxReset \in Nat /\ Day \in Nat
      BY <1>4, PauseConstants DEF Track, agent, PauseCore
    <3>2. /\ seen.known /\ seen.reset >= Day => past'.late
          /\ seen.known /\ seen.reset < lift => past'.relimited
      BY <1>4 DEF Track, Fresh
    <3>3. seen.known => seen.reset \in 0..MaxReset \cup {Day}
      BY DEF PauseCore
    <3>4. ~past'.late /\ ~past'.relimited
      BY DEF Plain
    <3> QED
      BY <3>1, <3>2, <3>3, <3>4
  <2>3. Ahead' \in Nat /\ Ahead' <= sched'.wait + 1 /\ sched'.wait <= Ahead'
    BY <1>0, <1>1, <2>1 DEF Numbers, Held, Larger
  <2>4. Detour' <= SEND_COOLDOWN + 1 + RetryIn' + 1
    <3>1. Detour' \in {0, SEND_COOLDOWN + 1, SEND_COOLDOWN + 1 + RetryIn' + 1}
      BY DEF Detour
    <3>2. RetryIn' \in Nat /\ SEND_COOLDOWN \in Nat
      BY <1>0 DEF Numbers
    <3>3. \A n \in Nat : \A d \in {0, SEND_COOLDOWN + 1, SEND_COOLDOWN + 1 + n + 1} :
            d <= SEND_COOLDOWN + 1 + n + 1
      BY <3>2
    <3> QED
      BY <3>1, <3>2, <3>3
  <2>5. faults' \in Nat /\ MaxFaults \in Nat /\ RetryIn' \in Nat /\ Detour' \in Nat
    BY <1>0 DEF Numbers
  <2>6. CASE seen.known
    <3>1. sched'.wait = seen.reset + RESET_BUFFER /\ RESET_BUFFER \in Nat
      BY <2>1, <2>6, PauseConstants DEF Schedule
    <3>2. lift <= Ahead'
      BY <2>2, <2>3, <2>6, <3>1
    <3>3. Fruitful(lift', Ahead') = Ahead'
      BY <2>2, <2>3, <3>2, FruitfulFacts
    <3>4. RetryIn' <= UNKNOWN_RETRY
      BY <1>0 DEF Numbers
    <3> QED
      <4>1. Ahead' <= MaxReset + RESET_BUFFER + 1
        BY <2>2, <2>3, <2>6, <3>1
      <4>2. Spent' = Ahead' + Detour' + (MaxFaults - faults')
        BY <1>3, <2>1, <2>3, <2>5, <3>3
      <4> QED
        BY <2>3, <2>4, <2>5, <3>4, <4>1, <4>2, FreshInTime
  <2>7. CASE ~seen.known
    <3>1. sched'.wait = RETRY /\ RETRY \in Nat /\ RETRY <= UNKNOWN_RETRY
          /\ RetryIn' = UNKNOWN_RETRY /\ RESET_BUFFER \in Nat
      BY <2>1, <2>7, PauseConstants DEF Schedule, RetryIn
    <3>2. Fruitful(lift', Ahead') <= MaxReset + UNKNOWN_RETRY + 1 /\ Fruitful(lift', Ahead') \in Nat
      BY <1>0, <2>2, <2>3, <3>1 DEF Fruitful
    <3> QED
      BY <1>0, <1>3, <2>1, <2>2, <2>4, <2>5, <3>1, <3>2 DEF Patient
  <2> QED
    BY <2>6, <2>7
<1>5. CASE ChoosesWait /\ ChooseWait
  <2>1. seen.limit /\ sched.cool = 0 /\ ~sched.menu_confirmed /\ seen.menu /\ tracked /\ ~sched.gave_up
    BY <1>5 DEF ChoosesWait, Pending, Holding, MenuOpen
  <2>2. UNCHANGED <<past, lift, faults>> /\ Limited
    <3>1. CASE Fault /\ past' = [past EXCEPT !.lost = TRUE] /\ UNCHANGED agent
      BY <1>0, <3>1 DEF Plain, Past
    <3>2. CASE /\ screen' = IF screen = "menu" THEN "limit" ELSE screen
               /\ UNCHANGED <<lift, shows, past, faults>>
      BY <3>2 DEF Plain, Limited
    <3> QED
      BY <1>5, <3>1, <3>2 DEF ChooseWait
  <2>3. Plain
    BY <2>1, <2>2 DEF Plain
  <2>4. /\ sched'.age = sched.age /\ sched'.wait = sched.wait /\ sched'.cool = SEND_COOLDOWN
        /\ sched'.menu_confirmed
    BY <1>0, <1>5 DEF ChooseWait, Sched
  <2>5. Detour' = 0 /\ Detour >= SEND_COOLDOWN + 1
    BY <1>0, <2>1, <2>2, <2>4 DEF Detour, Numbers
  <2>6. Ahead <= Ahead' /\ Ahead' <= Ahead + SEND_COOLDOWN + 1
    <3>1. Ahead = Held /\ Held = sched.wait
      BY <1>0, <2>1 DEF Ahead, Held, Larger, Numbers
    <3>2. Held' = Larger(sched.wait, SEND_COOLDOWN)
      BY <2>4 DEF Held
    <3> QED
      BY <1>0, <1>1, <3>1, <3>2 DEF Larger, Numbers
  <2>7. Fruitful(lift, Ahead') <= Fruitful(lift, Ahead) + (SEND_COOLDOWN + 1)
    <3>1. lift \in Nat /\ Ahead \in Nat /\ Ahead' \in Nat
      BY <1>0 DEF Numbers
    <3>2. Fruitful(lift, Ahead') <= Fruitful(lift, Ahead) + (Ahead' - Ahead)
      BY <2>6, <3>1, FruitfulFacts
    <3>3. Fruitful(lift, Ahead) \in Nat /\ Fruitful(lift, Ahead') \in Nat
      BY <3>1, FruitfulFacts
    <3> QED
      BY <1>0, <2>6, <3>1, <3>2, <3>3
  <2>8. Fruitful(lift, Ahead) \in Nat /\ Fruitful(lift, Ahead') \in Nat
    BY <1>0, FruitfulFacts DEF Numbers
  <2>9. Spent <= GIVE_UP_AFTER
    BY <2>1, <2>3 DEF InTime
  <2> QED
    BY <1>0, <1>3, <2>2, <2>4, <2>5, <2>7, <2>8, <2>9 DEF Spent, Numbers
<1>6. CASE Sends /\ SendMessage
  <2>1. /\ seen.limit /\ sched.cool = 0 /\ sched.wait = 0 /\ (seen.menu => sched.menu_confirmed)
        /\ tracked /\ ~sched.gave_up
    BY <1>6 DEF Sends, Pending, Holding, MenuOpen
  <2>2. past' = past /\ faults' = faults /\ Typed
    BY <1>0, <1>6 DEF SendMessage, Plain, Past
  <2>3. UNCHANGED agent /\ ~(screen = "limit" /\ lift = 0) /\ Limited
    BY <2>2 DEF Typed, Limited, agent
  <2>4. Plain
    BY <2>1, <2>2 DEF Plain
  <2>5. /\ sched'.age = sched.age /\ sched'.wait = RetryIn /\ sched'.cool = SEND_COOLDOWN
        /\ sched'.menu_confirmed = sched.menu_confirmed /\ sched'.known = sched.known
    BY <1>0, <1>6 DEF SendMessage, RetryIn, Sched
  <2>6. Ahead = 0
    BY <1>0, <2>1 DEF Ahead, Held, Larger
  <2>7. Ahead' <= RetryIn + 1
    <3>1. Held' = RetryIn
      BY <1>0, <2>5 DEF Held, Larger, Numbers
    <3> QED
      BY <1>0, <1>1, <3>1 DEF Larger, Numbers
  <2>8. Spent <= GIVE_UP_AFTER
    BY <2>1, <2>4 DEF InTime
  <2>9. CASE lift = 0
    <3>1. screen = "menu"
      BY <2>3, <2>9 DEF Limited
    <3>2. ~sched.menu_confirmed
      BY <2>1, <2>4, <3>1 DEF PauseCore, Plain
    <3>3. Detour = SEND_COOLDOWN + 1 + RetryIn + 1
      BY <1>0, <2>1, <2>3, <3>1, <3>2 DEF Detour, MenuUnseen
    <3>4. Detour' = SEND_COOLDOWN + 1
      BY <1>1, <2>3, <2>5, <3>1, <3>2 DEF Detour, Limited, agent
    <3>5. Fruitful(lift, Ahead) = 0 /\ Fruitful(lift', Ahead') = Ahead'
      <4>1. Ahead' \in Nat
        BY <1>0 DEF Numbers
      <4> QED
        BY <2>3, <2>6, <2>9, <4>1, FruitfulFacts DEF agent
    <3> QED
      BY <1>0, <1>3, <2>2, <2>5, <2>7, <2>8, <3>3, <3>4, <3>5 DEF Spent, Numbers
  <2>10. CASE lift # 0
    <3>1. ~sched.known
      BY <1>0, <2>1, <2>4, <2>10 DEF PauseCore, Plain, Numbers
    <3>2. RetryIn = UNKNOWN_RETRY /\ RetryIn' = RetryIn
      BY <2>5, <3>1 DEF RetryIn
    <3>3. Fruitful(lift, Ahead) = lift + UNKNOWN_RETRY
      BY <1>0, <2>6, <2>10 DEF Fruitful, Numbers
    <3>4. Fruitful(lift', Ahead') <= lift + UNKNOWN_RETRY /\ Fruitful(lift', Ahead') \in Nat
      <4>1. lift' = lift /\ lift \in Nat /\ lift >= 1 /\ Ahead' \in Nat
        BY <1>0, <2>3, <2>10 DEF agent, Numbers
      <4> QED
        BY <1>0, <2>7, <3>2, <4>1 DEF Fruitful
    <3>5. Detour' <= Detour
      BY <1>0, <1>1, <2>3, <2>5, <3>2 DEF Detour, Limited, agent, Numbers
    <3> QED
      BY <1>0, <1>3, <2>2, <2>5, <2>8, <3>3, <3>4, <3>5 DEF Spent, Numbers
  <2> QED
    BY <2>9, <2>10
<1>7. CASE GivesUp /\ GiveUp
  BY <1>0, <1>7 DEF GiveUp, Plain, Sched
<1>8. CASE Clears /\ Clear
  BY <1>8 DEF Clear, Plain
<1>9. CASE /\ ~(Tracks \/ ChoosesWait \/ Sends \/ GivesUp \/ Clears)
           /\ UNCHANGED <<agent, watcher, marks, faults>>
  <2>1. UNCHANGED <<screen, lift, tracked, sched, past, faults>>
    BY <1>9 DEF agent, watcher, marks
  <2>2. Plain /\ Limited /\ Held' = Held
    BY <2>1 DEF Plain, Limited, Held
  <2>3. Spent <= GIVE_UP_AFTER
    BY <2>2 DEF InTime
  <2>4. Ahead' = Ahead
    <3>1. CASE ~seen.limit
      BY <1>0, <1>1, <2>2, <3>1 DEF Ahead
    <3>2. CASE seen.limit
      <4>1. Fruitful(lift, Ahead) \in Nat
        BY <1>0, FruitfulFacts DEF Numbers
      <4>2. sched.age <= GIVE_UP_AFTER
        BY <1>0, <2>3, <4>1 DEF Spent, Numbers
      <4>3. armed
        BY <1>9, <2>2 DEF Clears, Plain
      <4>4. Holding
        BY <2>2, <3>2, <4>3 DEF Holding, Plain
      <4>5. ~(sched.wait = 0 /\ sched.cool = 0)
        BY <1>9, <4>2, <4>4 DEF Pending, ChoosesWait, Sends
      <4>6. Held >= 1
        BY <1>0, <4>5 DEF Numbers
      <4> QED
        BY <1>0, <1>1, <2>2, <4>6 DEF Numbers, Larger
    <3> QED
      BY <3>1, <3>2
  <2>5. Detour' <= Detour
    <3>1. RetryIn' = RetryIn
      BY <2>1 DEF RetryIn
    <3> QED
      BY <1>0, <1>1, <2>1, <2>2, <3>1 DEF Detour, Limited, Numbers
  <2>6. Fruitful(lift, Ahead) \in Nat
    BY <1>0, FruitfulFacts DEF Numbers
  <2>7. Spent' = sched.age + Fruitful(lift, Ahead) + Detour' + (MaxFaults - faults)
    BY <1>3, <2>1, <2>4
  <2> QED
    BY <1>0, <2>3, <2>5, <2>6, <2>7 DEF Spent, Numbers
<1> QED
  BY <1>4, <1>5, <1>6, <1>7, <1>8, <1>9 DEF Apply

\* What a pause that was given up had, it keeps.
LEMMA CauseKept ==
  ASSUME PauseCore, PauseCore', GivesUpForCause, InTime, Patient, PauseNext
  PROVE  GivesUpForCause'
<1>0. PauseTypeOK /\ sched \in Sched /\ past \in Past
  BY DEF PauseCore, PauseTypeOK
<1>1. CASE HitLimit
  <2>1. tracked => past'.relimited
    BY <1>0, <1>1 DEF HitLimit, Past
  <2> QED
    BY <1>1, <2>1 DEF HitLimit, watcher, GivesUpForCause
<1>2. CASE MenuAgain
  <2>1. tracked => /\ past'.relimited = past.relimited /\ past'.remenu = sched.menu_confirmed
                   /\ past'.lost = past.lost /\ past'.late = past.late
    BY <1>0, <1>2 DEF MenuAgain, Past
  <2> QED
    BY <1>2, <2>1 DEF MenuAgain, watcher, GivesUpForCause, PauseCore
<1>3. CASE ToggleLane
  <2>1. /\ past'.relimited = past.relimited /\ past'.remenu = past.remenu
        /\ past'.lost = past.lost /\ past'.late = past.late
    BY <1>0, <1>3 DEF ToggleLane, Past
  <2> QED
    BY <1>3, <2>1 DEF ToggleLane, GivesUpForCause
<1>4. CASE Resume \/ SpawnAgain \/ ToggleGlobal \/ CaptureFault
  BY <1>4 DEF Resume, SpawnAgain, ToggleGlobal, CaptureFault, watcher, marks, GivesUpForCause
<1>5. CASE Restart
  BY <1>5 DEF Restart, GivesUpForCause
<1>6. CASE PauseTick
  <2>1. sched'.gave_up = sched.gave_up
    BY <1>0, <1>6 DEF PauseTick, Sched
  <2> QED
    BY <1>6, <2>1 DEF PauseTick, marks, GivesUpForCause
<1>7. CASE StartPass
  BY <1>7 DEF StartPass, watcher, GivesUpForCause
<1>8. CASE Detect \/ DetectMiss
  <2>1. sched'.gave_up = sched.gave_up /\ UNCHANGED <<tracked, past>>
    BY <1>8, DetectShows, LookFacts DEF Look, marks
  <2> QED
    BY <2>1 DEF GivesUpForCause
<1>9. CASE Apply
  <2>1. CASE Tracks /\ Track
    BY <1>0, <2>1, PauseRecords DEF Track, NoSched, GivesUpForCause
  <2>2. CASE ChoosesWait /\ ChooseWait
    <3>1. sched'.gave_up = sched.gave_up /\ ~sched.gave_up
      BY <1>0, <2>2 DEF ChoosesWait, Pending, Holding, ChooseWait, Sched
    <3> QED
      BY <1>0, <3>1 DEF GivesUpForCause, Sched
  <2>3. CASE Sends /\ SendMessage
    <3>1. sched'.gave_up = sched.gave_up /\ ~sched.gave_up
      BY <1>0, <2>3 DEF Sends, Pending, Holding, SendMessage, Sched
    <3> QED
      BY <1>0, <3>1 DEF GivesUpForCause, Sched
  <2>4. CASE GivesUp /\ GiveUp
    <3>1. ~Plain
      BY <1>9, <2>4, ApplyKeepsTime
    <3>2. tracked /\ ~sched.gave_up
      BY <2>4 DEF GivesUp, Holding
    <3>3. past' = past
      BY <2>4 DEF GiveUp, marks
    <3> QED
      BY <3>1, <3>2, <3>3 DEF Plain, GivesUpForCause
  <2>5. CASE Clears /\ Clear
    BY <2>5 DEF Clear, GivesUpForCause
  <2>6. CASE UNCHANGED <<agent, watcher, marks, faults>>
    BY <2>6 DEF watcher, marks, GivesUpForCause
  <2> QED
    BY <1>9, <2>1, <2>2, <2>3, <2>4, <2>5, <2>6 DEF Apply
<1> QED
  BY <1>1, <1>2, <1>3, <1>4, <1>5, <1>6, <1>7, <1>8, <1>9 DEF PauseNext, WatcherPass

LEMMA PauseInitInv == PauseInit => PauseInv
<1> SUFFICES ASSUME PauseInit
             PROVE  PauseInv
  OBVIOUS
<1>1. ~tracked
  BY DEF PauseInit
<1> QED
  BY <1>1, PauseInitCore DEF PauseInv, GivesUpForCause, InTime, Plain

LEMMA PauseStep == ASSUME Patient, PauseInv, [PauseNext]_pauseVars PROVE PauseInv'
<1>1. PauseCore' /\ PauseCore /\ InTime /\ GivesUpForCause
  BY PauseStepCore DEF PauseInv
<1>2. CASE PauseNext
  <2>1. InTime'
    BY <1>1, <1>2, WorldKeepsTime, ClockKeepsTime, PassKeepsTime, ApplyKeepsTime
       DEF PauseNext, WatcherPass
  <2>2. GivesUpForCause'
    BY <1>1, <1>2, CauseKept
  <2> QED
    BY <1>1, <2>1, <2>2 DEF PauseInv
<1>3. CASE UNCHANGED pauseVars
  <2>1. UNCHANGED <<screen, lift, tracked, sched, due, stage, seen, past, faults>>
    BY <1>3 DEF pauseVars, agent, watcher, pass, marks, bounds
  <2> QED
    BY <1>1, <2>1
       DEF PauseInv, GivesUpForCause, InTime, Plain, Limited, Spent, Ahead, Held, Detour, MenuUnseen,
           RetryIn
<1> QED
  BY <1>2, <1>3
----------------------------------------------------------------------------
\* The inductive part of auto_continue.rs: the schedule of a tracked pause, the menu it
\* answered and the clock of its limit stay in step in every reachable state.
THEOREM PauseCoreHolds == PauseSpec => []PauseCore
BY PauseInitCore, PauseStepCore, PTL DEF PauseSpec

\* The state of the watcher keeps its type; what is not tracked has no schedule.
THEOREM PauseTypeCorrect == PauseSpec => []PauseTypeOK
<1>1. PauseCore => PauseTypeOK
  BY DEF PauseCore
<1> QED
  BY <1>1, PauseCoreHolds, PTL

\* watcher::tick: the message is not typed before a limit whose time was read has reset, nor
\* into a menu the watcher saw, whatever the agent, the operator and restarts do.
THEOREM MessageInTime == PauseSpec => []MessageTimely
<1>1. PauseCore => MessageTimely
  BY DEF PauseCore
<1> QED
  BY <1>1, PauseCoreHolds, PTL

\* rate_limits: the interfaces show exactly the pauses that the watcher waits out.
THEOREM PauseShown == PauseSpec => []ViewTrue
<1>1. PauseCore => ViewTrue
  BY DEF PauseCore
<1> QED
  BY <1>1, PauseCoreHolds, PTL

\* GIVE_UP_AFTER_HOURS: a watcher that is patient enough for the longest reset gives up on no
\* pause that nothing prolonged.
THEOREM GivenUpForCause ==
  ASSUME Patient
  PROVE  PauseSpec => []GivesUpForCause
<1>1. PauseInit => PauseInv
  BY PauseInitInv
<1>2. PauseInv /\ [PauseNext]_pauseVars => PauseInv'
  BY PauseStep
<1>3. PauseInv => GivesUpForCause
  BY DEF PauseInv
<1> QED
  BY <1>1, <1>2, <1>3, PTL DEF PauseSpec
----------------------------------------------------------------------------
(* StallNudge. The nudges of a stalled session stay within their budget. The    *)
(* budget is the episode's, and passes work on snapshots. What makes it hold is  *)
(* that an episode ends only for activity the tally has forgotten too, and that  *)
(* a pass whose snapshot is older than an activity tallies nothing.             *)

\* A snapshot older than an activity: the tally starts anew.
Forgotten == typed = 0 /\ alarms = 0
Crossed ==
  /\ crossed => Forgotten
  /\ step \in {"send", "bump"} /\ ~crossed => ~acted

\* An activity that ends the episode has ended the tally.
Moved ==
  /\ step \in {"wait", "lanes", "stall"} /\ moved => Forgotten
  /\ step = "stall" /\ view.moved => Forgotten
  /\ step = "stall" /\ ~crossed => moved = view.moved

\* The tally is within what the episode has counted, or is about to.
Tallied ==
  /\ typed <= episode.nudges_sent + (IF step = "bump" THEN 1 ELSE 0)
  /\ alarms > 0 => episode.escalated /\ episode.nudges_sent > 0

StallInv == StallTypeOK /\ Crossed /\ Moved /\ Tallied

LEMMA BudgetPositive == Budget \in Nat /\ 1 <= Budget /\ NUDGE_RETRIES <= Budget
BY StallAssumption DEF Budget

LEMMA StallInitInv == StallInit => StallInv
<1> SUFFICES ASSUME StallInit PROVE StallInv OBVIOUS
<1> USE StallAssumption, BudgetPositive DEF StallInit
<1>1. view \in [eligible : BOOLEAN, idle : 0..STALL_MINS, moved : BOOLEAN] BY DEF Nowhere
<1>2. episode \in [nudges_sent : 0..Budget, since : 0..NUDGE_SPACING, escalated : BOOLEAN]
  BY DEF NoEpisode
<1>3. idle \in 0..STALL_MINS /\ quiet \in 0..Unseen BY DEF Unseen
<1>4. /\ works \in 0..MaxWorks /\ edited \in 0..MaxSwitches /\ skips \in 0..MaxSkips OBVIOUS
<1>5. typed \in 0..Budget /\ alarms \in 0..1 OBVIOUS
<1>6. StallTypeOK BY <1>1, <1>2, <1>3, <1>4, <1>5 DEF StallTypeOK
<1>7. Crossed /\ Moved /\ Tallied BY DEF Crossed, Moved, Tallied, Forgotten, NoEpisode
<1> QED BY <1>6, <1>7 DEF StallInv

USE DEF session, lanePolicy, stallPass, tally, counts

\* The agent works, or rests: the tally starts anew.
LEMMA ActivityKeeps == ASSUME StallInv, Work \/ TurnEnds PROVE StallInv'
<1>1. /\ crossed' = TRUE /\ typed' = 0 /\ alarms' = 0
      /\ UNCHANGED <<step, view, episode>>
  BY DEF Work, TurnEnds
<1>2. StallTypeOK'
  <2>0. StallTypeOK BY DEF StallInv
  <2>1. mode' \in {"rest", "turn", "dialog"} BY DEF Work, TurnEnds
  <2>2. idle' \in 0..STALL_MINS BY StallAssumption DEF Work, TurnEnds
  <2>3. moved' \in BOOLEAN /\ dirty' \in BOOLEAN /\ acted' \in BOOLEAN /\ crossed' \in BOOLEAN
    BY DEF Work, TurnEnds
  <2>4. typed' \in 0..Budget /\ alarms' \in 0..1 BY <1>1, BudgetPositive
  <2>5. works' \in 0..MaxWorks BY <2>0, StallAssumption DEF StallTypeOK, Work, TurnEnds
  <2>6. UNCHANGED <<quiet, supervised, expect_work, policy, edited, skips>> BY DEF Work, TurnEnds
  <2> QED BY <1>1, <2>0, <2>1, <2>2, <2>3, <2>4, <2>5, <2>6 DEF StallTypeOK
<1>3. episode.nudges_sent \in Nat BY BudgetPositive DEF StallInv, StallTypeOK
<1> QED BY <1>1, <1>2, <1>3 DEF StallInv, Crossed, Moved, Tallied, Forgotten

LEMMA PolicyKeeps == ASSUME StallInv, SetWork \/ SetSupervised PROVE StallInv'
<1>1. UNCHANGED <<step, view, episode, crossed, acted, moved, typed, alarms>>
  BY DEF SetWork, SetSupervised
<1>2. StallTypeOK'
  <2>0. StallTypeOK BY DEF StallInv
  <2>1. supervised \in BOOLEAN /\ expect_work \in BOOLEAN BY <2>0 DEF StallTypeOK
  <2>2. supervised' \in BOOLEAN /\ expect_work' \in BOOLEAN BY <2>1 DEF SetWork, SetSupervised
  <2>3. edited' \in 0..MaxSwitches
    BY <2>0, StallAssumption DEF StallTypeOK, SetWork, SetSupervised, Switch
  <2>4. UNCHANGED <<session, quiet, policy, works, skips>> BY DEF SetWork, SetSupervised
  <2> QED BY <1>1, <2>0, <2>2, <2>3, <2>4 DEF StallTypeOK
<1> QED BY <1>1, <1>2 DEF StallInv, Crossed, Moved, Tallied, Forgotten

LEMMA RebootKeeps == ASSUME StallInv, Reboot PROVE StallInv'
<1>1. StallTypeOK'
  <2>0. StallTypeOK BY DEF StallInv
  <2>1. episode' \in [nudges_sent : 0..Budget, since : 0..NUDGE_SPACING, escalated : BOOLEAN]
    BY StallAssumption, BudgetPositive DEF Reboot, NoEpisode
  <2>2. view' \in [eligible : BOOLEAN, idle : 0..STALL_MINS, moved : BOOLEAN]
    BY StallAssumption DEF Reboot, Nowhere
  <2>3. /\ quiet' \in 0..Unseen /\ edited' \in 0..MaxSwitches
        /\ typed' \in 0..Budget /\ alarms' \in 0..1
    BY <2>0, StallAssumption, BudgetPositive DEF StallTypeOK, Reboot, Switch, Unseen
  <2>4. /\ step' = "wait" /\ policy' = FALSE /\ acted' = FALSE /\ dirty' = TRUE /\ moved' = FALSE
        /\ crossed' = FALSE /\ UNCHANGED <<mode, idle, supervised, expect_work, works, skips>>
    BY DEF Reboot
  <2> QED BY <2>0, <2>1, <2>2, <2>3, <2>4 DEF StallTypeOK
<1> QED BY <1>1 DEF StallInv, Crossed, Moved, Tallied, Forgotten, Reboot, NoEpisode

\* A tick only makes timers older.
LEMMA TickKeeps == ASSUME StallInv, StallTick PROVE StallInv'
<1>1. /\ episode' = episode \/ \E n \in 0..NUDGE_SPACING : episode' = [episode EXCEPT !.since = n]
  BY StallAssumption DEF StallInv, StallTypeOK, StallTick, Now, UpTo
<1>2. /\ episode'.nudges_sent = episode.nudges_sent /\ episode'.escalated = episode.escalated
      /\ episode' \in [nudges_sent : 0..Budget, since : 0..NUDGE_SPACING, escalated : BOOLEAN]
  BY <1>1 DEF StallInv, StallTypeOK
<1>3. step = "wait" /\ step' \in {"wait", "lanes"} BY DEF StallTick
<1>4. StallTypeOK'
  <2>1. idle' \in 0..STALL_MINS BY StallAssumption DEF StallInv, StallTypeOK, StallTick, Now, UpTo
  <2>2. quiet' \in 0..Unseen
    BY StallAssumption DEF StallInv, StallTypeOK, StallTick, Now, UpTo, Unseen
  <2> QED BY <1>2, <1>3, <2>1, <2>2 DEF StallInv, StallTypeOK, StallTick
<1> QED BY <1>2, <1>3, <1>4 DEF StallInv, Crossed, Moved, Tallied, Forgotten, StallTick

\* The snapshot knows of every activity up to it.
LEMMA LanesKeep == ASSUME StallInv, TakeLanes \/ TakeLanesFault PROVE StallInv'
<1>1. StallTypeOK'
  <2>0. StallTypeOK BY DEF StallInv
  <2>1. /\ UNCHANGED <<mode, idle, moved, lanePolicy, policy, acted, episode, typed, alarms, works,
                      edited>>
        /\ step' \in {"stall", "wait"}
    BY DEF TakeLanes, TakeLanesFault, Outside
  <2>2. view' \in [eligible : BOOLEAN, idle : 0..STALL_MINS, moved : BOOLEAN]
    <3>1. moved \in BOOLEAN /\ idle \in 0..STALL_MINS /\ Eligible \in BOOLEAN
      BY <2>0 DEF StallTypeOK, Eligible
    <3> QED BY <2>0, <3>1 DEF StallTypeOK, TakeLanes, TakeLanesFault
  <2>3. quiet' \in 0..Unseen /\ skips' \in 0..MaxSkips
    BY <2>0, StallAssumption DEF StallTypeOK, TakeLanes, TakeLanesFault, Unseen
  <2>4. dirty' \in {FALSE, dirty} /\ crossed' \in {FALSE, crossed}
    BY DEF TakeLanes, TakeLanesFault
  <2>5. dirty \in BOOLEAN /\ crossed \in BOOLEAN BY <2>0 DEF StallTypeOK
  <2> QED BY <2>0, <2>1, <2>2, <2>3, <2>4, <2>5 DEF StallTypeOK
<1>2. CASE TakeLanes
  BY <1>1, <1>2 DEF StallInv, Crossed, Moved, Tallied, Forgotten, TakeLanes
<1>3. CASE TakeLanesFault
  BY <1>1, <1>3 DEF StallInv, Crossed, Moved, Tallied, Forgotten, TakeLanesFault
<1> QED BY <1>2, <1>3

\* The phase: an episode that is over has nothing tallied, one that escalated is
\* left alone.
LEMMA PhaseKeeps == ASSUME StallInv, StallPhase PROVE StallInv'
<1> DEFINE looked == view.eligible
           act == looked /\ Stalled /\ ~Current.escalated
<1>1. /\ step = "stall" /\ typed \in 0..Budget /\ alarms \in 0..1 /\ looked \in BOOLEAN
      /\ episode \in [nudges_sent : 0..Budget, since : 0..NUDGE_SPACING, escalated : BOOLEAN]
      /\ policy \in BOOLEAN /\ crossed \in BOOLEAN /\ Budget \in Nat
  BY BudgetPositive DEF StallInv, StallTypeOK, StallPhase
<1>2. /\ step' = IF act /\ Nudges THEN "send" ELSE "wait"
      /\ episode' = IF ~looked THEN episode
                    ELSE IF act /\ Escalates /\ ~Nudges THEN [Current EXCEPT !.escalated = TRUE]
                    ELSE Current
      /\ alarms' = IF act /\ Escalates /\ ~Nudges THEN (IF crossed THEN alarms ELSE alarms + 1)
                   ELSE IF looked /\ ~policy THEN 0 ELSE alarms
      /\ typed' = IF looked /\ ~policy THEN 0 ELSE typed
      /\ acted' = FALSE
      /\ UNCHANGED <<moved, view, crossed, policy>>
  BY DEF StallPhase, Outside
<1>3. /\ Current \in [nudges_sent : 0..Budget, since : 0..NUDGE_SPACING, escalated : BOOLEAN]
      /\ Current # episode => Current = NoEpisode /\ (~policy \/ Forgotten)
  <2>1. NoEpisode \in [nudges_sent : 0..Budget, since : 0..NUDGE_SPACING, escalated : BOOLEAN]
    BY StallAssumption, BudgetPositive DEF NoEpisode
  <2> QED BY <1>1, <2>1 DEF Current, EpisodeOver, StallInv, Moved
<1>4. act => policy BY DEF Stalled
<1>5. act => alarms = 0
  BY <1>1, <1>3, <1>4 DEF StallInv, Tallied, Forgotten
<1>6. /\ alarms' \in 0..1 /\ typed' \in 0..Budget
      /\ typed' \in {0, typed} /\ (act => typed' = typed)
  BY <1>1, <1>2, <1>4, <1>5
<1>7. /\ episode' \in [nudges_sent : 0..Budget, since : 0..NUDGE_SPACING, escalated : BOOLEAN]
      /\ looked => episode'.nudges_sent = Current.nudges_sent
      /\ act /\ Escalates /\ ~Nudges => episode'.escalated /\ episode'.nudges_sent > 0
      /\ ~(act /\ Escalates /\ ~Nudges) /\ looked => episode' = Current
  BY <1>1, <1>2, <1>3 DEF Escalates
<1>8. act /\ Nudges => episode'.nudges_sent < Budget
  BY <1>1, <1>3, <1>7, BudgetPositive, StallAssumption DEF Nudges
<1>9. StallTypeOK'
  <2>1. UNCHANGED <<session, quiet, lanePolicy, policy, view, crossed, counts>>
    BY DEF StallPhase, Outside
  <2> QED BY <1>1, <1>2, <1>6, <1>7, <1>8, <2>1 DEF StallInv, StallTypeOK
<1>10. Tallied'
  <2>1. CASE ~looked BY <1>1, <1>2, <2>1 DEF StallInv, Tallied
  <2>2. CASE looked /\ Current = episode
    <3>1. CASE act /\ Escalates /\ ~Nudges
      BY <1>1, <1>2, <1>6, <1>7, <2>2, <3>1 DEF StallInv, Tallied
    <3>2. CASE ~(act /\ Escalates /\ ~Nudges)
      BY <1>1, <1>2, <1>6, <1>7, <2>2, <3>2 DEF StallInv, Tallied
    <3> QED BY <3>1, <3>2
  <2>3. CASE looked /\ Current # episode
    <3>1. typed' = 0 BY <1>1, <1>2, <1>3, <2>3 DEF Forgotten
    <3>2. CASE act /\ Escalates /\ ~Nudges
      BY <1>1, <1>2, <1>7, <3>1, <3>2 DEF Tallied
    <3>3. CASE ~(act /\ Escalates /\ ~Nudges)
      <4>1. alarms' = 0 BY <1>1, <1>2, <1>3, <2>3, <3>3 DEF Forgotten
      <4> QED BY <1>1, <1>2, <1>7, <3>1, <4>1 DEF Tallied
    <3> QED BY <3>2, <3>3
  <2> QED BY <2>1, <2>2, <2>3
<1>11. Crossed'
  BY <1>1, <1>2, <1>5, <1>6 DEF StallInv, Crossed, Forgotten
<1>12. Moved'
  <2>1. CASE act /\ Escalates /\ ~Nudges
    <3>1. ~view.moved
      <4>1. Current.nudges_sent > 0 BY <2>1 DEF Escalates
      <4> QED BY <4>1 DEF Current, EpisodeOver, NoEpisode
    <3> QED BY <1>1, <1>2, <1>6, <2>1, <3>1 DEF StallInv, Moved, Crossed, Forgotten
  <2>2. CASE ~(act /\ Escalates /\ ~Nudges)
    <3>1. Forgotten => Forgotten' BY <1>2, <1>6, <2>2 DEF Forgotten
    <3> QED BY <1>1, <1>2, <3>1 DEF StallInv, Moved
  <2> QED BY <2>1, <2>2
<1> QED BY <1>9, <1>10, <1>11, <1>12 DEF StallInv

LEMMA SendKeeps == ASSUME StallInv, SendNudge PROVE StallInv'
<1>1. /\ typed \in 0..Budget /\ alarms \in 0..1
      /\ episode \in [nudges_sent : 0..Budget, since : 0..NUDGE_SPACING, escalated : BOOLEAN]
      /\ crossed \in BOOLEAN /\ Budget \in Nat
  BY BudgetPositive DEF StallInv, StallTypeOK
<1>2. /\ step = "send" /\ step' = "bump" /\ typed' \in {typed, IF crossed THEN typed ELSE typed + 1}
      /\ UNCHANGED <<mode, idle, moved, quiet, lanePolicy, policy, view, acted, episode, crossed,
                    alarms, works, edited>>
  BY DEF SendNudge, Outside
<1>3. typed <= episode.nudges_sent /\ episode.nudges_sent < Budget
  BY <1>2 DEF StallInv, StallTypeOK, Tallied
<1>4. typed' \in 0..Budget /\ typed' <= episode.nudges_sent + 1 BY <1>1, <1>2, <1>3
<1>5. StallTypeOK'
  <2>0. StallTypeOK BY DEF StallInv
  <2>1. dirty \in BOOLEAN /\ dirty' \in {TRUE, dirty} BY <2>0 DEF StallTypeOK, SendNudge
  <2>2. skips' \in 0..MaxSkips BY <2>0, StallAssumption DEF StallTypeOK, SendNudge
  <2> QED BY <1>2, <1>3, <1>4, <2>0, <2>1, <2>2 DEF StallTypeOK
<1>6. Crossed' BY <1>1, <1>2 DEF StallInv, Crossed, Forgotten
<1>7. Moved' BY <1>2 DEF Moved
<1>8. Tallied' BY <1>1, <1>2, <1>4 DEF StallInv, Tallied
<1> QED BY <1>5, <1>6, <1>7, <1>8 DEF StallInv

LEMMA BumpKeeps == ASSUME StallInv, Bump PROVE StallInv'
<1>1. /\ typed \in 0..Budget /\ alarms \in 0..1 /\ step = "bump" /\ step' = "wait"
      /\ episode \in [nudges_sent : 0..Budget, since : 0..NUDGE_SPACING, escalated : BOOLEAN]
      /\ episode.nudges_sent < Budget /\ Budget \in Nat
  BY BudgetPositive DEF StallInv, StallTypeOK, Bump
<1>2. /\ moved' = acted /\ episode' = [episode EXCEPT !.nudges_sent = @ + 1, !.since = 0]
      /\ UNCHANGED <<mode, idle, dirty, quiet, lanePolicy, policy, view, acted, tally, counts>>
  BY DEF Bump, Outside
<1>3. /\ episode'.nudges_sent = episode.nudges_sent + 1 /\ episode'.escalated = episode.escalated
      /\ episode' \in [nudges_sent : 0..Budget, since : 0..NUDGE_SPACING, escalated : BOOLEAN]
  <2>1. episode.nudges_sent + 1 \in 0..Budget /\ 0 \in 0..NUDGE_SPACING
    BY <1>1, StallAssumption
  <2> QED BY <1>1, <1>2, <2>1
<1>4. StallTypeOK' BY <1>1, <1>2, <1>3 DEF StallInv, StallTypeOK
<1>5. Crossed' BY <1>1, <1>2 DEF StallInv, Crossed, Forgotten
<1>6. Moved' BY <1>1, <1>2 DEF StallInv, Crossed, Moved, Forgotten
<1>7. Tallied' BY <1>1, <1>2, <1>3 DEF StallInv, Tallied
<1> QED BY <1>4, <1>5, <1>6, <1>7 DEF StallInv

LEMMA StallInvariance == StallSpec => []StallInv
<1>1. StallInv /\ [StallNext]_stallVars => StallInv'
  <2>1. CASE UNCHANGED stallVars
    BY <2>1 DEF stallVars, StallInv, StallTypeOK, Crossed, Moved, Tallied, Forgotten
  <2> QED BY <2>1, ActivityKeeps, PolicyKeeps, RebootKeeps, TickKeeps, LanesKeep, PhaseKeeps,
             SendKeeps, BumpKeeps DEF StallNext, StallStep
<1> QED BY <1>1, StallInitInv, PTL DEF StallSpec

\* Session, pass and episode keep their types: a nudge on its way is within the budget.
THEOREM StallTypeCorrect == StallSpec => []StallTypeOK
BY StallInvariance, PTL DEF StallInv

\* Between two activities of the agent, its session gets at most the budget of nudges
\* and one escalation: for any threshold, spacing and budget, any failed captures,
\* policy switches, restarts and activities in the middle of a pass.
THEOREM NudgesBounded == StallSpec => []NudgeBudget
<1>1. StallInv => NudgeBudget BY BudgetPositive DEF StallInv, StallTypeOK, NudgeBudget
<1> QED BY <1>1, StallInvariance, PTL
----------------------------------------------------------------------------
(* NotifyWatch. What makes an alert not repeat is that the latch outlives the    *)
(* grace of the alert, whatever the overlay loses meanwhile.                    *)

NotifyLatch == [at : 0..(MaxStamp + 1), age : 0..LATCH_GRACE]
\* An alert is no younger than the activity it was for, and one within its grace is latched.
Remembered ==
  \A k \in Kinds :
    /\ told[k].at <= stamp
    /\ told[k].at = 0 => told[k] = Never
    /\ latch[k].at = 0 => latch[k] = Never
    /\ told[k].age < LATCH_GRACE => latch[k] = told[k]
NotifyInv == NotifyTypeOK /\ Remembered /\ NoRepeat

\* The kinds of alerts a comparison may raise.
LEMMA TransitionKinds ==
  ASSUME NEW was \in Reading, NEW now \in Reading
  PROVE  Transition(was, now) \in Kinds \cup {"none"}
BY DEF Transition, Turned, Kinds

\* Growing older.
LEMMA AgedLatch ==
  ASSUME NEW f \in [Kinds -> NotifyLatch]
  PROVE  /\ Aged(f) \in [Kinds -> NotifyLatch]
         /\ \A k \in Kinds : /\ Aged(f)[k].at = f[k].at
                             /\ Aged(f)[k].age >= f[k].age
                             /\ f[k] = Never => Aged(f)[k] = Never
<1>1. LATCH_GRACE \in Nat /\ MaxStamp \in Nat
  BY NotifyAssumption
<1>2. ASSUME NEW k \in Kinds
      PROVE  /\ Aged(f)[k] \in NotifyLatch /\ Aged(f)[k].at = f[k].at
             /\ Aged(f)[k].age >= f[k].age
             /\ f[k] = Never => Aged(f)[k] = Never
  <2>1. f[k] \in NotifyLatch
    OBVIOUS
  <2>2. Aged(f)[k] = IF f[k].at = 0 THEN f[k] ELSE [f[k] EXCEPT !.age = Older(@)]
    BY DEF Aged
  <2>3. Older(f[k].age) \in 0..LATCH_GRACE /\ Older(f[k].age) >= f[k].age
    BY <1>1, <2>1 DEF Older, NotifyLatch
  <2> QED
    BY <2>1, <2>2, <2>3 DEF NotifyLatch, Never
<1>3. Aged(f) = [k \in Kinds |-> Aged(f)[k]]
  BY DEF Aged
<1> QED
  BY <1>2, <1>3

\* What the session shows.
LEMMA Readings ==
  /\ Absent \in Reading
  /\ \A s \in Statuses, b \in BOOLEAN : Showing(s, b) \in Reading
  /\ {"running", "waiting", "ended"} \subseteq Statuses
BY DEF Absent, Showing, Reading, Statuses

\* Nothing latched.
LEMMA Emptied ==
  /\ NoLatch \in [Kinds -> NotifyLatch] /\ NoDebounce \in [Kinds -> 0..DEBOUNCE]
  /\ \A k \in Kinds : NoLatch[k] = Never
  /\ Never \in NotifyLatch /\ Never.at = 0
<1>1. Never \in NotifyLatch /\ Never.at = 0
  BY NotifyAssumption DEF Never, NotifyLatch
<1>2. 0 \in 0..DEBOUNCE
  BY NotifyAssumption
<1> QED
  BY <1>1, <1>2 DEF NoLatch, NoDebounce

\* The watch with nothing latched.
LEMMA EmptiedKeeps ==
  ASSUME latch' = NoLatch, told' = NoLatch, debounce' = NoDebounce, prev' = Absent, again' = FALSE,
         truth' \in Reading, stamp' \in 1..(MaxStamp + 1), enabled' \in BOOLEAN,
         seeded' \in BOOLEAN, flaps' \in 0..MaxFlaps, toggles' \in 0..MaxToggles
  PROVE  NotifyInv'
<1>0. MaxStamp \in Nat
  BY NotifyAssumption
<1>1. latch' \in [Kinds -> NotifyLatch] /\ debounce' \in [Kinds -> 0..DEBOUNCE]
  BY Emptied
<1>2. \A k \in Kinds : latch'[k] = Never /\ told'[k] = Never
  BY Emptied
<1>3. Remembered'
  BY <1>0, <1>2, Emptied DEF Remembered
<1>4. told' \in [Kinds -> NotifyLatch] /\ prev' \in Reading
  BY Emptied, Readings
<1>5. NotifyTypeOK'
  <2>1. latch' = NoLatch /\ told' = NoLatch
    OBVIOUS
  <2> QED
    BY <1>1, <1>2, <1>4, <2>1 DEF NotifyTypeOK, NotifyLatch
<1> QED
  BY <1>3, <1>5 DEF NotifyInv, NoRepeat

LEMMA NotifyInitInv == NotifyInit => NotifyInv
<1> SUFFICES ASSUME NotifyInit
             PROVE  NotifyInv
  OBVIOUS
<1>0. {MaxStamp, MaxFlaps, MaxToggles} \subseteq Nat
  BY NotifyAssumption
<1>1. latch \in [Kinds -> NotifyLatch] /\ debounce \in [Kinds -> 0..DEBOUNCE]
  BY Emptied DEF NotifyInit
<1>2. \A k \in Kinds : latch[k] = Never /\ told[k] = Never
  BY Emptied DEF NotifyInit
<1>3. Remembered
  BY <1>0, <1>2, Emptied DEF Remembered, NotifyInit
<1>4. told \in [Kinds -> NotifyLatch] /\ prev \in Reading /\ truth \in Reading
  BY Emptied, Readings DEF NotifyInit
<1>5. stamp \in 1..(MaxStamp + 1) /\ flaps \in 0..MaxFlaps /\ toggles \in 0..MaxToggles
  BY <1>0 DEF NotifyInit
<1>6. NotifyTypeOK
  BY <1>1, <1>2, <1>4, <1>5 DEF NotifyTypeOK, NotifyLatch, NotifyInit
<1> QED
  BY <1>3, <1>6 DEF NotifyInv, NoRepeat, NotifyInit

\* The watch starts anew.
LEMMA ForgetKeeps ==
  ASSUME NotifyInv, Forget, UNCHANGED <<truth, stamp, again>>, enabled' \in BOOLEAN,
         flaps' \in 0..MaxFlaps, toggles' \in 0..MaxToggles
  PROVE  NotifyInv'
BY EmptiedKeeps DEF Forget, NotifyInv, NotifyTypeOK, NoRepeat

\* An overlay is compared with the one before it.
LEMMA CompareKeeps ==
  ASSUME NotifyInv, NEW look \in Reading, seeded, Compare(look),
         UNCHANGED <<truth, stamp, enabled, toggles>>, flaps' \in 0..MaxFlaps
  PROVE  NotifyInv'
<1> DEFINE k == Transition(prev, look)
           fires == Fires(k, look)
           alerts == fires /\ k # "idle"
           new == [at |-> stamp, age |-> 0]
           latched == IF alerts THEN [Aged(latch) EXCEPT ![k] = new] ELSE Aged(latch)
<1>0. /\ LATCH_GRACE \in Nat /\ MaxStamp \in Nat /\ DEBOUNCE \in Nat
      /\ latch \in [Kinds -> NotifyLatch] /\ told \in [Kinds -> NotifyLatch]
      /\ stamp \in 1..(MaxStamp + 1) /\ debounce \in [Kinds -> 0..DEBOUNCE]
  BY NotifyAssumption DEF NotifyInv, NotifyTypeOK, NotifyLatch
<1>1. /\ latch' = Retained(latched, look)
      /\ told' = IF alerts THEN [Aged(told) EXCEPT ![k] = new] ELSE Aged(told)
      /\ debounce' = IF fires THEN [Ticked EXCEPT ![k] = DEBOUNCE] ELSE Ticked
      /\ prev' = look /\ seeded' = seeded
      /\ again' = (again \/ (alerts /\ told[k].at = stamp /\ told[k].age < LATCH_GRACE))
  BY DEF Compare
<1>2. /\ fires => k \in Kinds
      /\ alerts => AllowsRefire(k, look)
  <2>1. prev \in Reading
    BY DEF NotifyInv, NotifyTypeOK
  <2>2. k \in Kinds \cup {"none"}
    BY <2>1, TransitionKinds
  <2> QED
    BY <2>2 DEF Fires
<1>3. new \in NotifyLatch
  BY <1>0 DEF NotifyLatch
<1> HIDE DEF k, fires, new
<1>4. Ticked \in [Kinds -> 0..DEBOUNCE]
  BY <1>0 DEF Ticked, Sooner
<1>5. debounce' \in [Kinds -> 0..DEBOUNCE]
  <2>1. DEBOUNCE \in 0..DEBOUNCE
    BY <1>0
  <2>2. CASE fires
    BY <1>1, <1>2, <1>4, <2>1, <2>2
  <2>3. CASE ~fires
    BY <1>1, <1>4, <2>3
  <2> QED
    BY <2>2, <2>3
<1>6. /\ latched \in [Kinds -> NotifyLatch] /\ told' \in [Kinds -> NotifyLatch]
      /\ \A j \in Kinds : /\ latched[j] = IF alerts /\ j = k THEN new ELSE Aged(latch)[j]
                          /\ told'[j] = IF alerts /\ j = k THEN new ELSE Aged(told)[j]
  <2>1. Aged(latch) \in [Kinds -> NotifyLatch] /\ Aged(told) \in [Kinds -> NotifyLatch]
    BY <1>0, AgedLatch
  <2> QED
    BY <1>1, <1>2, <1>3, <2>1
<1>7. /\ latch' \in [Kinds -> NotifyLatch]
      /\ \A j \in Kinds : latch'[j] = IF look.there \/ latched[j].age < LATCH_GRACE
                                      THEN latched[j] ELSE Never
  <2>1. Never \in NotifyLatch
    BY <1>0 DEF Never, NotifyLatch
  <2> QED
    BY <1>1, <1>6, <2>1 DEF Retained
<1>8. ~again'
  <2> SUFFICES ASSUME alerts, told[k].at = stamp, told[k].age < LATCH_GRACE
               PROVE  FALSE
    BY <1>1 DEF NotifyInv, NoRepeat
  <2>1. k \in Kinds
    BY <1>2
  <2>2. latch[k] = told[k]
    BY <2>1 DEF NotifyInv, Remembered
  <2> QED
    BY <1>0, <1>2, <2>1, <2>2 DEF AllowsRefire
<1>9. ASSUME NEW j \in Kinds
      PROVE  /\ told'[j].at <= stamp /\ (told'[j].at = 0 => told'[j] = Never)
             /\ latch'[j].at = 0 => latch'[j] = Never
             /\ told'[j].age < LATCH_GRACE => latch'[j] = told'[j]
             /\ latch'[j] # Never => latch'[j] = told'[j]
  <2>1. CASE alerts /\ j = k
    <3>1. latched[j] = new /\ told'[j] = new
      BY <1>6, <2>1
    <3>2. new.at = stamp /\ new.age = 0
      BY DEF new
    <3>3. latch'[j] = new \/ latch'[j] = Never
      BY <1>7, <3>1
    <3>4. new.age < LATCH_GRACE => latch'[j] = new
      BY <1>7, <3>1
    <3> QED
      BY <1>0, <3>1, <3>2, <3>3, <3>4 DEF Never
  <2>2. CASE ~(alerts /\ j = k)
    <3>1. latched[j] = Aged(latch)[j] /\ told'[j] = Aged(told)[j]
      BY <1>6, <2>2
    <3>2. /\ told[j].at <= stamp /\ (told[j].at = 0 => told[j] = Never)
          /\ latch[j].at = 0 => latch[j] = Never
          /\ told[j].age < LATCH_GRACE => latch[j] = told[j]
          /\ latch[j] # Never => latch[j] = told[j]
      BY DEF NotifyInv, Remembered, NotifyTypeOK
    <3>3. /\ Aged(told)[j].at = told[j].at /\ Aged(told)[j].age >= told[j].age
          /\ told[j] = Never => Aged(told)[j] = Never
          /\ Aged(latch)[j].at = latch[j].at
          /\ latch[j] = Never => Aged(latch)[j] = Never
      BY <1>0, AgedLatch
    <3>4. latch[j] = told[j] => Aged(latch)[j] = Aged(told)[j]
      BY DEF Aged
    <3>5. told[j].age \in 0..LATCH_GRACE /\ Aged(told)[j].age \in 0..LATCH_GRACE
      <4>1. told[j] \in NotifyLatch /\ Aged(told)[j] \in NotifyLatch
        BY <1>0, AgedLatch
      <4> QED
        BY <4>1 DEF NotifyLatch
    <3>6. Aged(told)[j].age < LATCH_GRACE => Aged(latch)[j] = Aged(told)[j]
      BY <1>0, <3>2, <3>3, <3>4, <3>5
    <3>7. latched[j] # Never => latched[j] = told'[j]
      BY <3>1, <3>2, <3>3, <3>4
    <3> QED
      BY <1>0, <1>7, <3>1, <3>2, <3>3, <3>6, <3>7
  <2> QED
    BY <2>1, <2>2
<1>10. NotifyTypeOK'
  BY <1>1, <1>5, <1>6, <1>7, <1>8, <1>9 DEF NotifyInv, NotifyTypeOK, NotifyLatch
<1> QED
  BY <1>8, <1>9, <1>10 DEF NotifyInv, Remembered, NoRepeat

\* A pass without an overlay.
LEMMA PassFaultKeeps == ASSUME NotifyInv, PassFault PROVE NotifyInv'
<1>0. /\ LATCH_GRACE \in Nat /\ DEBOUNCE \in Nat
      /\ latch \in [Kinds -> NotifyLatch] /\ told \in [Kinds -> NotifyLatch]
      /\ debounce \in [Kinds -> 0..DEBOUNCE]
  BY NotifyAssumption DEF NotifyInv, NotifyTypeOK, NotifyLatch
<1>1. latch' \in [Kinds -> NotifyLatch] /\ told' \in [Kinds -> NotifyLatch]
  BY <1>0, AgedLatch DEF PassFault
<1>2. debounce' \in [Kinds -> 0..DEBOUNCE]
  BY <1>0 DEF PassFault, Ticked, Sooner
<1>3. ASSUME NEW j \in Kinds
      PROVE  /\ told'[j].at <= stamp /\ (told'[j].at = 0 => told'[j] = Never)
             /\ latch'[j].at = 0 => latch'[j] = Never
             /\ told'[j].age < LATCH_GRACE => latch'[j] = told'[j]
             /\ latch'[j] # Never => latch'[j] = told'[j]
             /\ latch[j] = Never => latch'[j] = Never
             /\ told[j] = Never => told'[j] = Never
  <2>1. latch' = Aged(latch) /\ told' = Aged(told)
    BY DEF PassFault
  <2>2. /\ told[j].at <= stamp /\ (told[j].at = 0 => told[j] = Never)
        /\ latch[j].at = 0 => latch[j] = Never
        /\ told[j].age < LATCH_GRACE => latch[j] = told[j]
        /\ latch[j] # Never => latch[j] = told[j]
    BY DEF NotifyInv, Remembered, NotifyTypeOK
  <2>3. /\ told'[j].at = told[j].at /\ told'[j].age >= told[j].age
        /\ told[j] = Never => told'[j] = Never
        /\ latch'[j].at = latch[j].at
        /\ latch[j] = Never => latch'[j] = Never
    BY <1>0, <2>1, AgedLatch
  <2>4. latch[j] = told[j] => latch'[j] = told'[j]
    BY <2>1 DEF Aged
  <2>5. told[j].age \in 0..LATCH_GRACE /\ told'[j].age \in 0..LATCH_GRACE
    <3>1. told[j] \in NotifyLatch /\ told'[j] \in NotifyLatch
      BY <1>0, <1>1
    <3> QED
      BY <3>1 DEF NotifyLatch
  <2> QED
    BY <1>0, <2>2, <2>3, <2>4, <2>5
<1>4. ~seeded => latch' = NoLatch /\ told' = NoLatch
  <2> SUFFICES ASSUME ~seeded
               PROVE  latch' = NoLatch /\ told' = NoLatch
    OBVIOUS
  <2>1. \A j \in Kinds : latch[j] = Never /\ told[j] = Never
    BY DEF NotifyInv, NotifyTypeOK, NoLatch
  <2>2. \A j \in Kinds : latch'[j] = Never /\ told'[j] = Never
    BY <1>3, <2>1
  <2> QED
    BY <1>1, <2>2 DEF NoLatch
<1>5. NotifyTypeOK'
  <2>1. flaps' \in 0..MaxFlaps
    BY NotifyAssumption DEF PassFault, NotifyInv, NotifyTypeOK
  <2>2. UNCHANGED <<truth, stamp, enabled, seeded, prev, again, toggles>>
    BY DEF PassFault
  <2> QED
    BY <1>1, <1>2, <1>3, <1>4, <2>1, <2>2 DEF NotifyInv, NotifyTypeOK, NotifyLatch
<1> QED
  BY <1>3, <1>5 DEF PassFault, NotifyInv, Remembered, NoRepeat

\* A pass with an overlay.
LEMMA PassKeeps ==
  ASSUME NotifyInv, NEW look \in Reading, Pass(look), flaps' \in 0..MaxFlaps
  PROVE  NotifyInv'
<1>1. CASE ~enabled
  BY <1>1, ForgetKeeps DEF Pass, NotifyInv, NotifyTypeOK
<1>2. CASE enabled /\ seeded
  BY <1>2, CompareKeeps DEF Pass
<1>3. CASE enabled /\ ~seeded
  BY <1>3 DEF Pass, NotifyInv, NotifyTypeOK, Remembered, NoRepeat
<1> QED
  BY <1>1, <1>2, <1>3

LEMMA NotifyStep == ASSUME NotifyInv, [NotifyNext]_notifyVars PROVE NotifyInv'
<1>0. MaxStamp \in Nat /\ MaxFlaps \in Nat /\ MaxToggles \in Nat
  BY NotifyAssumption
<1>1. CASE Activity
  <2>1. stamp' \in 1..(MaxStamp + 1) /\ stamp' = stamp + 1 /\ truth' \in Reading
    <3>1. stamp' \in 1..(MaxStamp + 1) /\ stamp' = stamp + 1
      BY <1>0, <1>1 DEF Activity, NotifyInv, NotifyTypeOK
    <3>2. PICK s \in Statuses : truth' = Showing(s, FALSE)
      BY <1>1 DEF Activity
    <3> QED
      BY <3>1, <3>2, Readings
  <2>2. \A k \in Kinds : told[k].at <= stamp'
    <3> TAKE k \in Kinds
    <3>1. told[k].at \in 0..(MaxStamp + 1) /\ told[k].at <= stamp
      BY DEF NotifyInv, NotifyTypeOK, Remembered
    <3> QED
      BY <1>0, <2>1, <3>1 DEF NotifyInv, NotifyTypeOK
  <2> QED
    BY <1>1, <2>1, <2>2 DEF Activity, watch, NotifyInv, NotifyTypeOK, Remembered, NoRepeat
<1>2. CASE Restate \/ Leave
  <2>1. truth' \in Reading
    <3>1. ASSUME Restate
          PROVE  \/ \E s \in Statuses : truth' = Showing(s, FALSE)
                 \/ truth' = Showing("running", TRUE)
      BY <3>1 DEF Restate
    <3> QED
      BY <1>2, <3>1, Readings DEF Leave
  <2>2. UNCHANGED <<stamp, watch>>
    BY <1>2 DEF Restate, Leave
  <2> QED
    BY <2>1, <2>2 DEF watch, NotifyInv, NotifyTypeOK, Remembered, NoRepeat
<1>3. CASE SetEnabled
  BY <1>0, <1>3 DEF SetEnabled, NotifyInv, NotifyTypeOK, Remembered, NoRepeat
<1>4. CASE WatchRestart
  BY <1>0, <1>4, ForgetKeeps DEF WatchRestart, NotifyInv, NotifyTypeOK
<1>5. CASE NotifyPass
  BY <1>5, PassKeeps DEF NotifyPass, NotifyInv, NotifyTypeOK
<1>6. CASE PassFlap
  <2>1. PICK look \in {Absent, Showing("running", FALSE), Showing("waiting", FALSE)} : Pass(look)
    BY <1>6 DEF PassFlap
  <2>2. look \in Reading
    BY <2>1, Readings
  <2>3. flaps' \in 0..MaxFlaps
    BY <1>0, <1>6 DEF PassFlap, NotifyInv, NotifyTypeOK
  <2> QED
    BY <2>1, <2>2, <2>3, PassKeeps
<1>7. CASE PassFault
  BY <1>7, PassFaultKeeps
<1>8. CASE UNCHANGED notifyVars
  BY <1>8 DEF notifyVars, NotifyInv, NotifyTypeOK, Remembered, NoRepeat
<1> QED
  BY <1>1, <1>2, <1>3, <1>4, <1>5, <1>6, <1>7, <1>8 DEF NotifyNext

\* diff_notifications: an alert goes out once for one activity of the session, however the
\* overlay flaps, for any debounce and grace, toggles and restarts included.
THEOREM AlertsNotRepeated == NotifySpec => []NoRepeat
<1>1. NotifyInv => NoRepeat
  BY DEF NotifyInv
<1> QED
  BY <1>1, NotifyInitInv, NotifyStep, PTL DEF NotifySpec
=============================================================================
