---------------------------- MODULE AutoContinue ----------------------------
(***************************************************************************)
(* Auto-continue of one managed window: the watcher of the daemon captures   *)
(* the pane at every tick, tracks a usage-limit pause, picks "stop and wait"  *)
(* in the limit menu, and types the continue message once the limit has      *)
(* reset. The agent, the operator and restarts act between its steps.        *)
(*                                                                         *)
(* Timers are what is left of them, in ticks of the watcher; a pass is       *)
(* shorter than a tick, and the watcher keeps up with its ticks.             *)
(***************************************************************************)
EXTENDS Naturals

CONSTANTS
  RESET_BUFFER, RETRY, UNKNOWN_RETRY, GIVE_UP_AFTER, SEND_COOLDOWN,
  Day,         \* a passed clock time read after midnight is a day ahead
  MaxReset,    \* bound: how far ahead a limit resets
  MaxRaised,   \* bound: limits, menus and resumptions raised by the agent
  MaxFaults,   \* bound: captures, keys and messages that fail, and redraws
  MaxEdits     \* bound: toggles of the operator, restarts

CLEAR_AFTER_MISSES == 2

ASSUME PauseAssumption ==
  /\ {RESET_BUFFER, RETRY, UNKNOWN_RETRY, GIVE_UP_AFTER, SEND_COOLDOWN, Day} \subseteq Nat
  /\ {MaxReset, MaxRaised, MaxFaults, MaxEdits} \subseteq Nat
  /\ SEND_COOLDOWN <= RETRY /\ RETRY <= UNKNOWN_RETRY

VARIABLES
  \* the agent
  screen,   \* "run", "limit" (the message), "menu", "gone"
  lift,     \* what is left until the limit resets
  shows,    \* the message shows a clock time
  \* the watcher
  tracked,  \* sched has an entry for the window
  sched,    \* the entry
  public,   \* rate_limits shows the pause
  due,      \* the tick has not been served yet
  stage,    \* of the pass: "rest", "capture", "act"
  armed,    \* the pass's copy of the two switches
  seen,     \* what the capture showed
  \* the operator
  on,       \* config.auto_continue
  off,      \* auto_continue_off contains the lane
  \* history
  past,     \* of the tracked pause
  early,    \* the message was typed before the limit it waits for had reset
  spoiled,  \* the message was typed into a menu the watcher had seen
  raised, faults, edits

agent == <<screen, lift, shows>>
watcher == <<tracked, sched, public>>
pass == <<stage, armed, seen>>
switches == <<on, off>>
marks == <<past, early, spoiled>>
bounds == <<raised, faults, edits>>
pauseVars == <<agent, watcher, due, pass, switches, marks, bounds>>

Sched == [age : Nat, known : BOOLEAN, wait : Nat, cool : Nat,
          menu_confirmed : BOOLEAN, gave_up : BOOLEAN, miss_streak : 0..CLEAR_AFTER_MISSES]
NoSched == [age |-> 0, known |-> FALSE, wait |-> 0, cool |-> 0,
            menu_confirmed |-> FALSE, gave_up |-> FALSE, miss_streak |-> 0]
Seen == [limit : BOOLEAN, known : BOOLEAN, reset : Nat, menu : BOOLEAN]
Blank == [limit |-> FALSE, known |-> FALSE, reset |-> 0, menu |-> FALSE]
\* another limit was raised, another menu, keys or messages were lost, the
\* reset was read a day late, the public entry was dropped by a disarming
Past == [relimited : BOOLEAN, remenu : BOOLEAN, lost : BOOLEAN, late : BOOLEAN,
         dropped : BOOLEAN]
Fresh == [relimited |-> FALSE, remenu |-> FALSE, lost |-> FALSE, late |-> FALSE,
          dropped |-> FALSE]

PauseTypeOK ==
  /\ screen \in {"run", "limit", "menu", "gone"} /\ lift \in Nat /\ shows \in BOOLEAN
  /\ tracked \in BOOLEAN /\ sched \in Sched /\ public \in BOOLEAN
  /\ due \in BOOLEAN /\ stage \in {"rest", "capture", "act"} /\ armed \in BOOLEAN
  /\ seen \in Seen /\ on \in BOOLEAN /\ off \in BOOLEAN
  /\ past \in Past /\ early \in BOOLEAN /\ spoiled \in BOOLEAN
  /\ raised \in 0..MaxRaised /\ faults \in 0..MaxFaults /\ edits \in 0..MaxEdits
  /\ ~tracked => sched = NoSched /\ past = Fresh
  /\ stage # "act" => seen = Blank

PauseInit ==
  /\ screen = "run" /\ lift = 0 /\ shows = FALSE
  /\ tracked = FALSE /\ sched = NoSched /\ public = FALSE
  /\ due = FALSE /\ stage = "rest" /\ armed = FALSE /\ seen = Blank
  /\ on \in BOOLEAN /\ off = FALSE
  /\ past = Fresh /\ early = FALSE /\ spoiled = FALSE
  /\ raised = 0 /\ faults = 0 /\ edits = 0

Less(n) == IF n = 0 THEN 0 ELSE n - 1
Limited == screen \in {"limit", "menu"}
----------------------------------------------------------------------------
(* The agent and the operator *)

Raise == raised < MaxRaised /\ raised' = raised + 1
Edit == edits < MaxEdits /\ edits' = edits + 1
Fault == faults < MaxFaults /\ faults' = faults + 1

\* the agent hits a usage limit
HitLimit ==
  /\ screen = "run" /\ Raise
  /\ screen' \in {"limit", "menu"} /\ lift' \in 1..MaxReset /\ shows' \in BOOLEAN
  /\ past' = IF tracked THEN [past EXCEPT !.relimited = TRUE,
                                          !.remenu = sched.menu_confirmed]
             ELSE past
  /\ UNCHANGED <<watcher, due, pass, switches, early, spoiled, faults, edits>>

\* it asks again what to do
MenuAgain ==
  /\ screen = "limit" /\ Raise /\ screen' = "menu"
  /\ past' = IF tracked THEN [past EXCEPT !.remenu = sched.menu_confirmed] ELSE past
  /\ UNCHANGED <<lift, shows, watcher, due, pass, switches, early, spoiled, faults, edits>>

\* it resumes by itself or by hand, or its window closes
Resume ==
  /\ Limited /\ screen' \in {"run", "gone"} /\ lift' = 0 /\ shows' = FALSE
  /\ UNCHANGED <<watcher, due, pass, switches, marks, bounds>>

\* the window name is used again
SpawnAgain ==
  /\ screen = "gone" /\ Raise /\ screen' = "run"
  /\ UNCHANGED <<lift, shows, watcher, due, pass, switches, marks, faults, edits>>

\* agent.auto_continue: disarming drops the public entries of the lane
ToggleLane ==
  /\ Edit /\ off' = ~off
  /\ public' = (public /\ off)
  /\ past' = IF public /\ ~off THEN [past EXCEPT !.dropped = tracked] ELSE past
  /\ UNCHANGED <<agent, tracked, sched, due, pass, on, early, spoiled, raised, faults>>

\* config.set auto_continue
ToggleGlobal ==
  /\ Edit /\ on' = ~on
  /\ UNCHANGED <<agent, watcher, due, pass, off, marks, raised, faults>>

\* the daemon is started again: schedule, public view and disarmed lanes are lost
Restart ==
  /\ Edit
  /\ tracked' = FALSE /\ sched' = NoSched /\ public' = FALSE /\ off' = FALSE
  /\ due' = FALSE /\ stage' = "rest" /\ armed' = FALSE /\ seen' = Blank
  /\ past' = Fresh
  /\ UNCHANGED <<agent, on, early, spoiled, raised, faults>>

\* a tick of the watcher, and of the clock
PauseTick ==
  /\ ~due /\ due' = TRUE
  /\ lift' = Less(lift)
  /\ sched' = IF tracked
              THEN [sched EXCEPT !.age = IF @ > GIVE_UP_AFTER THEN @ ELSE @ + 1,
                                 !.wait = Less(@), !.cool = Less(@)]
              ELSE sched
  /\ UNCHANGED <<screen, shows, tracked, public, pass, switches, marks, bounds>>
----------------------------------------------------------------------------
(* The pass *)

\* the switches are read, windows that are gone are forgotten
StartPass ==
  /\ due /\ stage = "rest" /\ armed' = (on /\ ~off)
  /\ IF screen = "gone"
     THEN /\ tracked' = FALSE /\ sched' = NoSched /\ public' = FALSE /\ past' = Fresh
          /\ due' = FALSE /\ UNCHANGED stage
     ELSE stage' = "capture" /\ UNCHANGED <<watcher, past, due>>
  /\ UNCHANGED <<agent, seen, switches, early, spoiled, bounds>>

\* parse_reset_at: a passed time is read as passed, or, past midnight, as tomorrow's
ResetAt == IF lift > 0 THEN {lift} ELSE {0, Day}

\* detect_usage_limit on the capture, and the streak of misses
Look(detection) ==
  /\ stage' = "act" /\ seen' = detection
  /\ sched' = IF tracked THEN [sched EXCEPT !.miss_streak =
                 IF detection.limit THEN 0
                 ELSE IF @ < CLEAR_AFTER_MISSES THEN @ + 1 ELSE @]
              ELSE sched
  /\ UNCHANGED <<agent, tracked, public, due, armed, switches, marks, raised, edits>>
Detect ==
  /\ stage = "capture" /\ UNCHANGED faults
  /\ IF Limited
     THEN \E r \in ResetAt : Look([limit |-> TRUE, known |-> shows,
                                   reset |-> IF shows THEN r ELSE 0,
                                   menu |-> screen = "menu"])
     ELSE Look(Blank)
\* the pane is being redrawn: the message is not on it
DetectMiss == stage = "capture" /\ Limited /\ Fault /\ Look(Blank)
\* the capture fails or times out: this window waits for the next tick
CaptureFault ==
  /\ stage = "capture" /\ Fault /\ stage' = "rest" /\ due' = FALSE
  /\ UNCHANGED <<agent, watcher, armed, seen, switches, marks, raised, edits>>

\* decide: what the schedule and the capture call for
Holding == armed /\ seen.limit /\ tracked /\ ~sched.gave_up
Pending == Holding /\ sched.age <= GIVE_UP_AFTER /\ sched.cool = 0
\* a menu not answered yet goes before the message
MenuOpen == seen.menu /\ ~sched.menu_confirmed
Tracks == armed /\ seen.limit /\ ~tracked
ChoosesWait == Pending /\ MenuOpen
Sends == Pending /\ ~MenuOpen /\ sched.wait = 0
GivesUpBug == Holding /\ sched.age >= RETRY
GivesUpNever == FALSE
GivesUp == Holding /\ sched.age > GIVE_UP_AFTER
\* one miss may be a redraw
Clears == tracked /\ (~armed \/ (~seen.limit /\ sched.miss_streak >= CLEAR_AFTER_MISSES))

\* schedule
ScheduleBug(detection) == IF detection.known THEN RESET_BUFFER ELSE RETRY
Schedule(detection) == IF detection.known THEN detection.reset + RESET_BUFFER ELSE RETRY

\* the pass is over
Rest == stage' = "rest" /\ due' = FALSE /\ seen' = Blank /\ UNCHANGED armed

Track ==
  /\ tracked' = TRUE /\ public' = TRUE
  /\ sched' = [NoSched EXCEPT !.known = seen.known, !.wait = Schedule(seen)]
  /\ past' = [Fresh EXCEPT !.late = seen.known /\ seen.reset >= Day,
                           !.relimited = seen.known /\ seen.reset < lift]
  /\ UNCHANGED <<agent, early, spoiled, faults>>

\* the wait option of the menu that was captured; errors of the keys are ignored
ChooseWait ==
  /\ sched' = [sched EXCEPT !.menu_confirmed = TRUE, !.cool = SEND_COOLDOWN]
  /\ \/ /\ screen' = IF screen = "menu" THEN "limit" ELSE screen
        /\ UNCHANGED <<lift, shows, past, faults>>
     \/ /\ Fault /\ past' = [past EXCEPT !.lost = TRUE]
        /\ UNCHANGED agent
  /\ UNCHANGED <<tracked, public, early, spoiled>>

\* what the agent makes of the message
Typed ==
  \/ /\ screen = "limit" /\ lift = 0 /\ screen' = "run" /\ shows' = FALSE /\ UNCHANGED lift
  \/ ~(screen = "limit" /\ lift = 0) /\ UNCHANGED agent

\* the message is typed and retried; errors are ignored
SendMessage ==
  /\ sched' = [sched EXCEPT !.cool = SEND_COOLDOWN,
                            !.wait = IF sched.known THEN RETRY ELSE UNKNOWN_RETRY]
  /\ \/ /\ Typed
        /\ early' = (early \/ (Limited /\ lift > 0 /\ sched.known /\ ~past.relimited))
        /\ spoiled' = (spoiled \/ (seen.menu /\ screen = "menu" /\ ~past.remenu /\ ~past.lost))
        /\ UNCHANGED <<past, faults>>
     \/ /\ Fault /\ past' = [past EXCEPT !.lost = TRUE]
        /\ UNCHANGED <<agent, early, spoiled>>
  /\ UNCHANGED <<tracked, public>>

GiveUpBug ==
  /\ sched' = [sched EXCEPT !.gave_up = TRUE]
  /\ UNCHANGED <<agent, tracked, public, marks, faults>>
GiveUp ==
  /\ sched' = [sched EXCEPT !.gave_up = TRUE] /\ public' = FALSE
  /\ UNCHANGED <<agent, tracked, marks, faults>>

Clear ==
  /\ tracked' = FALSE /\ sched' = NoSched /\ public' = FALSE /\ past' = Fresh
  /\ UNCHANGED <<agent, early, spoiled, faults>>

Apply ==
  /\ stage = "act" /\ Rest
  /\ \/ Tracks /\ Track
     \/ ChoosesWait /\ ChooseWait
     \/ Sends /\ SendMessage
     \/ GivesUp /\ GiveUp
     \/ Clears /\ Clear
     \/ /\ ~(Tracks \/ ChoosesWait \/ Sends \/ GivesUp \/ Clears)
        /\ UNCHANGED <<agent, watcher, marks, faults>>
  /\ UNCHANGED <<switches, raised, edits>>

WatcherPass == StartPass \/ Detect \/ DetectMiss \/ CaptureFault \/ Apply
PauseNext ==
  \/ WatcherPass \/ PauseTick
  \/ HitLimit \/ MenuAgain \/ Resume \/ SpawnAgain
  \/ ToggleLane \/ ToggleGlobal \/ Restart

PauseSpec == PauseInit /\ [][PauseNext]_pauseVars
\* the watcher's interval fires, and its pass ends
PauseFairSpec == PauseSpec /\ WF_pauseVars(PauseTick) /\ WF_pauseVars(WatcherPass)
----------------------------------------------------------------------------
(* Properties *)

\* docs/desktop.md: "auto-continues it at the reset time", auto_continue.rs, before
\* ChooseWait: "otherwise the continue text would land in the menu": a limit whose time was
\* read is never continued before it resets, and the first menu of a pause never gets the
\* message, whatever flaps, restarts and toggles happen, unless the agent hit another limit
\* meanwhile or the keys that answer the menu were lost.
MessageTimely == ~early /\ ~spoiled

\* The pause the interfaces show is one the watcher is waiting out, and it shows
\* every one of them but those whose lane was disarmed in between.
ViewTrue ==
  /\ public => tracked /\ ~sched.gave_up
  /\ tracked /\ ~sched.gave_up /\ ~public => past.dropped

\* GIVE_UP_AFTER_HOURS: "we must keep waiting through the multi-hour window
\* without quitting early": the watcher gives up only on a pause that another
\* limit or menu prolonged, of which keys or messages were lost, or whose reset it read a day
\* late.
GivesUpForCause ==
  tracked /\ sched.gave_up =>
    past.relimited \/ past.remenu \/ past.lost \/ past.late

\* An agent does not stay paused for ever while auto-continue is armed and its
\* pause is not given up.
Unpaused == []<>(~Limited \/ ~on \/ off \/ (tracked /\ sched.gave_up))
=============================================================================
