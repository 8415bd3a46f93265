------------------------------ MODULE Standing ------------------------------
(***************************************************************************)
(* Standing orders: the scheduler loop takes the list of schedules and runs   *)
(* those that are due, one after the other, each stamped before its run.      *)
(* A run may hang until its time limit; operators, time and restarts go on    *)
(* meanwhile.                                                              *)
(*                                                                         *)
(* Time is local time in DAY units a day, without daylight saving changes;    *)
(* days 5 and 6 of a week are the weekend.                                   *)
(***************************************************************************)
EXTENDS Naturals, Sequences, FiniteSets

CONSTANTS
  DAY, Start,
  Specs,             \* [kind, at]: at is the time of day, or the period of "every"
  MaxClock,          \* bound: time
  MaxSchedules,      \* bound: schedules added
  MaxTroubles        \* bound: crashes, store calls that fail

SpecKinds == {"daily", "weekdays", "weekends", "every"}
ASSUME StandingAssumption ==
  /\ DAY \in Nat \ {0} /\ {Start, MaxClock, MaxSchedules, MaxTroubles} \subseteq Nat
  /\ Start <= MaxClock
  /\ Specs \subseteq [kind : SpecKinds, at : Nat]
  /\ \A s \in Specs : IF s.kind = "every" THEN s.at > 0 ELSE s.at < DAY

Unrun == MaxClock + 1
Ids == 1..MaxSchedules

VARIABLES
  clock,
  rows,       \* the table: ids to [spec, created, last]
  added,      \* ids handed out
  scheds,     \* the schedules of the tick still to be looked at
  tickAt,     \* the time of the tick
  running,    \* the id of the run, or 0
  hung,       \* it will not end by itself
  marked,     \* the schedule the tick has decided to run, stamped or not
  \* history
  fired, unstamped,  \* runs of each schedule; those whose stamp failed
  troubles
scheduler == <<scheds, tickAt, running, hung, marked>>
standingVars == <<clock, rows, added, scheduler, fired, unstamped, troubles>>

Row == [spec : Specs, created : Nat, last : Nat]
StandingTypeOK ==
  /\ clock \in Start..MaxClock /\ tickAt \in Start..MaxClock
  /\ added \in 0..MaxSchedules /\ DOMAIN rows \subseteq 1..added
  /\ \A i \in DOMAIN rows : rows[i] \in Row /\ rows[i].created <= clock
  /\ running \in 0..added /\ marked \in 0..added /\ hung \in BOOLEAN
  /\ running = 0 \/ marked = 0
  /\ \A k \in 1..Len(scheds) : scheds[k].id \in 1..added
  /\ {fired, unstamped} \subseteq [Ids -> Nat] /\ troubles \in 0..MaxTroubles

StandingInit ==
  /\ clock = Start /\ rows = <<>> /\ added = 0
  /\ scheds = <<>> /\ tickAt = Start /\ running = 0 /\ hung = FALSE /\ marked = 0
  /\ fired = [i \in Ids |-> 0] /\ unstamped = fired /\ troubles = 0
----------------------------------------------------------------------------
(* schedule.rs *)

DayOk(kind, day) ==
  CASE kind = "weekdays" -> day % 7 \notin {5, 6}
    [] kind = "weekends" -> day % 7 \in {5, 6}
    [] OTHER -> TRUE

\* next_at: fourteen days from today, or from tomorrow if the time of day has passed
FirstDay(after, at) == after \div DAY + (IF after % DAY >= at THEN 1 ELSE 0)
NextAt(spec, after) ==
  LET first == FirstDay(after, spec.at)
      fits == {d \in first..(first + 13) : DayOk(spec.kind, d) /\ d * DAY + spec.at > after} IN
  IF fits = {} THEN after + DAY
  ELSE (CHOOSE d \in fits : \A e \in fits : d <= e) * DAY + spec.at
NextAfter(spec, after) ==
  IF spec.kind = "every" THEN after + spec.at ELSE NextAt(spec, after)

\* the instants a schedule promises
Slot(spec, t) == t % DAY = spec.at /\ DayOk(spec.kind, t \div DAY)
Slots(spec, from, to) ==
  IF spec.kind = "every" THEN (to - from) \div spec.at
  ELSE Cardinality({t \in (from + 1)..to : Slot(spec, t)})

AnchorBug(row) == row.created
Anchor(row) == IF row.last # Unrun THEN row.last ELSE row.created
DueAt(row, t) == NextAfter(row.spec, Anchor(row)) <= t
----------------------------------------------------------------------------
(* The table, time, restarts *)

AddSchedule ==
  /\ added < MaxSchedules /\ added' = added + 1
  /\ \E s \in Specs :
       rows' = [i \in DOMAIN rows \cup {added'} |->
                  IF i = added' THEN [spec |-> s, created |-> clock, last |-> Unrun] ELSE rows[i]]
  /\ UNCHANGED <<clock, scheduler, fired, unstamped, troubles>>
RemoveSchedule(i) ==
  /\ i \in DOMAIN rows /\ rows' = [j \in DOMAIN rows \ {i} |-> rows[j]]
  /\ UNCHANGED <<clock, added, scheduler, fired, unstamped, troubles>>
TimePasses ==
  /\ clock < MaxClock /\ clock' = clock + 1
  /\ UNCHANGED <<rows, added, scheduler, fired, unstamped, troubles>>

Trouble == troubles < MaxTroubles /\ troubles' = troubles + 1
\* whatever the tick had in hand is lost, a stamped run too
StandingRestart ==
  /\ Trouble
  /\ scheds' = <<>> /\ running' = 0 /\ hung' = FALSE /\ marked' = 0
  /\ UNCHANGED <<clock, rows, added, tickAt, fired, unstamped>>
----------------------------------------------------------------------------
(* The scheduler *)

Idle == scheds = <<>> /\ running = 0 /\ marked = 0
\* the rows by id
Listed == [k \in 1..Cardinality(DOMAIN rows) |->
             LET id == CHOOSE i \in DOMAIN rows : Cardinality({j \in DOMAIN rows : j <= i}) = k
             IN [id |-> id, row |-> rows[id]]]
\* a list_schedules that fails leaves the tick without effect
SchedulerTick ==
  /\ Idle
  /\ scheds' = Listed /\ tickAt' = clock
  /\ UNCHANGED <<clock, rows, added, running, hung, marked, fired, unstamped, troubles>>

NextSchedule == /\ running = 0 /\ marked = 0 /\ scheds # <<>> /\ scheds' = Tail(scheds)
PassOver ==
  /\ NextSchedule /\ ~DueAt(Head(scheds).row, tickAt)
  /\ UNCHANGED <<clock, rows, added, tickAt, running, hung, marked, fired, unstamped, troubles>>
\* mark_schedule_run: no row to stamp if the schedule is gone
Mark ==
  /\ NextSchedule /\ DueAt(Head(scheds).row, tickAt)
  /\ LET i == Head(scheds).id IN
     /\ marked' = i
     /\ rows' = IF i \in DOMAIN rows THEN [rows EXCEPT ![i].last = tickAt] ELSE rows
  /\ UNCHANGED <<clock, added, tickAt, running, hung, fired, unstamped, troubles>>
\* its error is ignored
MarkFails ==
  /\ Trouble /\ NextSchedule /\ DueAt(Head(scheds).row, tickAt)
  /\ marked' = Head(scheds).id /\ unstamped' = [unstamped EXCEPT ![marked'] = @ + 1]
  /\ UNCHANGED <<clock, rows, added, tickAt, running, hung, fired>>

StartRun ==
  /\ marked # 0 /\ running' = marked /\ marked' = 0 /\ hung' \in BOOLEAN
  /\ fired' = [fired EXCEPT ![marked] = @ + 1]
  /\ UNCHANGED <<clock, rows, added, scheds, tickAt, unstamped, troubles>>
\* run_bounded
EndRun == /\ running # 0 /\ running' = 0 /\ hung' = FALSE
          /\ UNCHANGED <<clock, rows, added, scheds, tickAt, marked, fired, unstamped, troubles>>
RunExits == ~hung /\ EndRun
RunTimesOutBug == hung /\ UNCHANGED standingVars
RunTimesOut == hung /\ EndRun

SchedulerStep ==
  \/ SchedulerTick \/ PassOver \/ Mark \/ StartRun \/ RunExits \/ RunTimesOut
StandingNext ==
  \/ SchedulerStep \/ MarkFails
  \/ AddSchedule \/ TimePasses \/ StandingRestart \/ \E i \in Ids : RemoveSchedule(i)

StandingSpec == StandingInit /\ [][StandingNext]_standingVars
\* the interval fires, and a run ends, by its time limit if need be
StandingFairSpec == StandingSpec /\ WF_standingVars(SchedulerStep)
----------------------------------------------------------------------------
(* Properties *)

\* next_after: "The first firing strictly after": no instant of the schedule is jumped over.
NextIsLeast(i) ==
  LET s == rows[i].spec
      a == Anchor(rows[i])
      n == NextAfter(s, a) IN
  n > a /\ (s.kind # "every" => Slot(s, n) /\ \A t \in (a + 1)..(n - 1) : ~Slot(s, t))

\* store/mod.rs: "Called BEFORE the run so a slow run can't double-fire": however long runs
\* last and wherever a restart falls, a schedule has run at most once for each of its
\* instants since it was made, but for runs whose stamp failed, and it waits for the next one.
OncePerSlot ==
  \A i \in DOMAIN rows :
    /\ fired[i] - unstamped[i] <= Slots(rows[i].spec, rows[i].created, clock)
    /\ NextIsLeast(i)

\* A due schedule does not stay due for ever: not behind a run that hangs, nor after a restart.
SlotServed == \A i \in Ids : []<>(i \in DOMAIN rows => ~DueAt(rows[i], clock))
=============================================================================
