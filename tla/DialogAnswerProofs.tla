------------------------- MODULE DialogAnswerProofs -------------------------
(* The answers to dialogs: every send and every hold has its row, for any dialogs *)
(* and any number of them; automatic keys reach the dialog they were decided for. *)
EXTENDS DialogAnswer, TLAPS, FiniteSetTheorems

Texts == {Summary[d] : d \in Dialogs}
Busy == Sending \cup {"record", "finish"}

\* An actor's plan is a dialog that was raised.
Planned == \A a \in Actors : plan[a] <= Len(raised)

\* The steps of the actors.
Decision == LoopTick \/ LoopRefresh \/ NoDialog \/ Answer \/ Hold \/ RuleFires \/ HumanAnswers
Scene == (\E d \in Dialogs : Raise(d)) \/ Repaint \/ Overlay \/ CooldownEnds \/ Toggle \/ Crash

LEMMA NextSplit ==
  ASSUME Next PROVE Scene \/ Decision \/ \E a \in Actors : Attempt(a)
BY DEF Next, Scene, Decision, Loop, Actors

LEMMA TextType ==
  ASSUME TypeOK, NEW k \in 1..Len(raised) PROVE Text(k) \in Texts /\ Text(k) # None
<1>1. raised[k] \in Dialogs BY DEF TypeOK
<1> QED BY <1>1, DialogAssumption DEF Text, Texts
----------------------------------------------------------------------------
LEMMA InitType == Init => TypeOK /\ Planned
<1> SUFFICES ASSUME Init PROVE TypeOK /\ Planned OBVIOUS
<1> USE DialogAssumption DEF Init
<1>1. raised \in Seq(Dialogs) /\ Len(raised) = 0 BY DEF TypeOK
<1>2. /\ pc \in [Actors -> PC] /\ plan \in [Actors -> Occ]
      /\ \A a \in Actors : pc[a] \in Busy <=> plan[a] # 0
      /\ \A a \in Actors : plan[a] = 0
  BY DEF PC, Busy, Sending, Occ
<1>3. /\ policy \in BOOLEAN /\ fired = {} /\ holdRows = {} /\ heldOcc = {} /\ landed = {}
      /\ out \in [Actors -> {"sent", "skipped"}]
  OBVIOUS
<1>4. /\ raised \in Seq(Dialogs) /\ Len(raised) <= MaxRaised
      /\ cur \in 0..Len(raised) /\ shown \in 0..Len(raised) /\ overlay \in 0..Len(raised)
      /\ rows \in Nat /\ sends \in Nat
      /\ toggles \in 0..MaxToggles /\ crashes \in 0..MaxCrashes /\ faults \in 0..MaxFaults
  BY <1>1
<1>5. /\ snap \in BOOLEAN /\ copy \in BOOLEAN
      /\ {latch, held} \subseteq {None} \cup {Summary[d] : d \in Dialogs}
  BY <1>3
<1> HIDE DEF Init
<1> QED BY <1>1, <1>2, <1>3, <1>4, <1>5 DEF TypeOK, Planned, Busy

LEMMA SceneType == ASSUME TypeOK, Planned, Scene PROVE TypeOK' /\ Planned'
<1> USE DialogAssumption DEF daemon, audit, history, bounds, agent, Occ
<1>1. ASSUME NEW d \in Dialogs, Raise(d) PROVE TypeOK' /\ Planned'
  <2>1. /\ raised' = Append(raised, d) /\ cur' = Len(raised) + 1 /\ Len(raised) < MaxRaised
        /\ UNCHANGED <<shown, overlay, policy, snap, latch, held, fired, copy, pc, plan, out, rows,
                       holdRows, landed, sends, heldOcc, toggles, crashes, faults>>
    BY <1>1 DEF Raise
  <2>2. /\ raised' \in Seq(Dialogs) /\ Len(raised') = Len(raised) + 1 /\ Len(raised) \in Nat
        /\ Len(raised') <= MaxRaised /\ cur' \in 0..Len(raised')
    BY <2>1 DEF TypeOK
  <2>3. shown \in 0..Len(raised') /\ overlay \in 0..Len(raised') BY <2>2 DEF TypeOK
  <2>4. TypeOK' BY <2>1, <2>2, <2>3 DEF TypeOK
  <2>5. \A a \in Actors : plan[a] <= Len(raised') BY <2>2 DEF Planned, TypeOK
  <2> QED BY <2>1, <2>4, <2>5 DEF Planned
<1>2. CASE Repaint BY <1>2 DEF Repaint, TypeOK, Planned
<1>3. CASE Overlay BY <1>3 DEF Overlay, TypeOK, Planned
<1>4. CASE CooldownEnds BY <1>4 DEF CooldownEnds, TypeOK, Planned
<1>5. CASE Toggle BY <1>5 DEF Toggle, TypeOK, Planned
<1>6. CASE Crash
  <2>1. /\ raised' = raised /\ cur' = cur /\ shown' = cur /\ crashes' \in 0..MaxCrashes
        /\ overlay' = 0 /\ snap' = FALSE /\ latch' = None /\ held' = None /\ copy' = FALSE
        /\ UNCHANGED <<policy, fired, rows, holdRows, landed, sends, heldOcc, toggles, faults>>
    BY <1>6 DEF Crash, TypeOK
  <2>2. /\ pc' \in [Actors -> PC] /\ plan' \in [Actors -> Occ]
        /\ out' \in [Actors -> {"sent", "skipped"}]
        /\ \A a \in Actors : pc'[a] \in Busy <=> plan'[a] # 0
        /\ \A a \in Actors : plan'[a] = 0
    <3>1. /\ pc' = [a \in Actors |-> "idle"] /\ plan' = [a \in Actors |-> 0]
          /\ out' = [a \in Actors |-> "skipped"]
      BY <1>6 DEF Crash
    <3> QED BY <3>1 DEF PC, Busy, Sending
  <2>3. Len(raised) \in Nat BY DEF TypeOK
  <2>4. /\ raised' \in Seq(Dialogs) /\ Len(raised') <= MaxRaised
        /\ cur' \in 0..Len(raised') /\ shown' \in 0..Len(raised') /\ overlay' \in 0..Len(raised')
    BY <2>1, <2>3 DEF TypeOK
  <2>5. /\ policy' \in BOOLEAN /\ snap' \in BOOLEAN /\ copy' \in BOOLEAN
        /\ {latch', held'} \subseteq {None} \cup {Summary[d] : d \in Dialogs}
        /\ fired' \subseteq Occ /\ holdRows' \subseteq Occ /\ heldOcc' \subseteq Occ
    BY <2>1 DEF TypeOK
  <2>6. /\ rows' \in Nat /\ sends' \in Nat /\ landed' \subseteq Occ \X Occ
        /\ toggles' \in 0..MaxToggles /\ faults' \in 0..MaxFaults
    BY <2>1 DEF TypeOK
  <2>7. TypeOK' BY <2>1, <2>2, <2>4, <2>5, <2>6 DEF TypeOK, Busy
  <2> QED BY <2>1, <2>2, <2>3, <2>7 DEF Planned
<1> QED BY <1>1, <1>2, <1>3, <1>4, <1>5, <1>6 DEF Scene


\* An actor begins, or ends, what it plans.
LEMMA BeginType ==
  ASSUME TypeOK, Planned, NEW a \in Actors, NEW k \in 0..Len(raised), NEW l \in PC,
         l \in Busy <=> k # 0, Begin(a, k, l), raised' = raised
  PROVE  /\ pc' \in [Actors -> PC] /\ plan' \in [Actors -> Occ] /\ Planned'
         /\ \A b \in Actors : pc'[b] \in Busy <=> plan'[b] # 0
<1>1. /\ pc \in [Actors -> PC] /\ plan \in [Actors -> Occ] /\ k \in Occ
      /\ \A b \in Actors : pc[b] \in Busy <=> plan[b] # 0
  BY DialogAssumption DEF TypeOK, Occ, Busy
<1>2. pc' = [pc EXCEPT ![a] = l] /\ plan' = [plan EXCEPT ![a] = k] BY DEF Begin, Goto
<1> QED BY <1>1, <1>2 DEF Planned

\* A step of an actor that keeps its plan.
LEMMA GotoType ==
  ASSUME TypeOK, Planned, NEW a \in Actors, NEW l \in PC, l \in Busy <=> pc[a] \in Busy,
         pc' = [pc EXCEPT ![a] = l], plan' = plan, raised' = raised
  PROVE  /\ pc' \in [Actors -> PC] /\ plan' \in [Actors -> Occ] /\ Planned'
         /\ \A b \in Actors : pc'[b] \in Busy <=> plan'[b] # 0
<1>1. /\ pc \in [Actors -> PC] /\ plan \in [Actors -> Occ]
      /\ \A b \in Actors : pc[b] \in Busy <=> plan[b] # 0
  BY DEF TypeOK, Busy
<1> QED BY <1>1 DEF Planned

LEMMA DecisionType == ASSUME TypeOK, Planned, Decision PROVE TypeOK' /\ Planned'
<1>0. /\ "loop" \in Actors /\ "rule" \in Actors /\ "human" \in Actors
      /\ {"idle", "refresh", "lanes", "latch", "capture", "send", "record", "finish"} = PC
      /\ Busy = {"latch", "capture", "send", "record", "finish"}
  BY DEF Actors, PC, Busy, Sending
<1>1. /\ overlay \in 0..Len(raised) /\ overlay \in Occ /\ Len(raised) \in Nat
      /\ overlay # 0 => overlay \in 1..Len(raised)
  BY DialogAssumption DEF TypeOK, Occ
<1> USE DEF agent, daemon, audit, history, bounds
<1>2. CASE LoopTick
  <2>1. pc' = [pc EXCEPT !["loop"] = "refresh"] /\ pc["loop"] = "idle" /\ plan' = plan
        /\ raised' = raised
    BY <1>2 DEF LoopTick, Goto
  <2>2. /\ pc' \in [Actors -> PC] /\ plan' \in [Actors -> Occ] /\ Planned'
        /\ \A b \in Actors : pc'[b] \in Busy <=> plan'[b] # 0
    BY <1>0, <2>1, GotoType
  <2> QED BY <1>2, <2>2 DEF LoopTick, TypeOK, Busy
<1>3. CASE LoopRefresh
  <2>1. /\ pc' = [pc EXCEPT !["loop"] = IF copy THEN "lanes" ELSE "idle"]
        /\ pc["loop"] = "refresh" /\ plan' = plan /\ raised' = raised
    BY <1>3 DEF LoopRefresh, Goto
  <2>2. /\ pc' \in [Actors -> PC] /\ plan' \in [Actors -> Occ] /\ Planned'
        /\ \A b \in Actors : pc'[b] \in Busy <=> plan'[b] # 0
    BY <1>0, <2>1, GotoType
  <2> QED BY <1>3, <2>2 DEF LoopRefresh, TypeOK, Busy
<1>4. CASE NoDialog
  <2>1. pc' = [pc EXCEPT !["loop"] = "idle"] /\ pc["loop"] = "lanes" /\ plan' = plan
        /\ raised' = raised
    BY <1>4 DEF NoDialog, Goto
  <2>2. /\ pc' \in [Actors -> PC] /\ plan' \in [Actors -> Occ] /\ Planned'
        /\ \A b \in Actors : pc'[b] \in Busy <=> plan'[b] # 0
    BY <1>0, <2>1, GotoType
  <2> QED BY <1>4, <2>2 DEF NoDialog, TypeOK, Busy
<1>5. CASE Answer
  <2>1. Begin("loop", overlay, "latch") /\ overlay # 0 /\ raised' = raised BY <1>5 DEF Answer
  <2>2. /\ pc' \in [Actors -> PC] /\ plan' \in [Actors -> Occ] /\ Planned'
        /\ \A b \in Actors : pc'[b] \in Busy <=> plan'[b] # 0
    BY <1>0, <1>1, <2>1, BeginType
  <2> QED BY <1>5, <2>2 DEF Answer, TypeOK, Busy
<1>6. CASE Hold
  <2>1. pc' = [pc EXCEPT !["loop"] = "idle"] /\ pc["loop"] = "lanes" /\ plan' = plan
        /\ overlay # 0 /\ raised' = raised
    BY <1>6 DEF Hold, Goto
  <2>2. /\ pc' \in [Actors -> PC] /\ plan' \in [Actors -> Occ] /\ Planned'
        /\ \A b \in Actors : pc'[b] \in Busy <=> plan'[b] # 0
    BY <1>0, <2>1, GotoType
  <2>3. held' \in Texts BY <1>1, <1>6, <2>1, TextType DEF Hold
  <2>4. holdRows' \subseteq Occ /\ heldOcc' \subseteq Occ BY <1>1, <1>6 DEF Hold, TypeOK
  <2> QED BY <1>6, <2>2, <2>3, <2>4 DEF Hold, TypeOK, Busy, Texts
<1>7. CASE RuleFires
  <2>1. fired' \subseteq Occ /\ overlay # 0 /\ raised' = raised
    BY <1>1, <1>7 DEF RuleFires, TypeOK
  <2>2. /\ pc' \in [Actors -> PC] /\ plan' \in [Actors -> Occ] /\ Planned'
        /\ \A b \in Actors : pc'[b] \in Busy <=> plan'[b] # 0
    <3>1. CASE raised[overlay] \in Ruled
      <4>1. Begin("rule", overlay, "latch") BY <1>7, <3>1 DEF RuleFires
      <4> QED BY <1>0, <1>1, <2>1, <4>1, BeginType
    <3>2. CASE raised[overlay] \notin Ruled
      <4>1. pc' = pc /\ plan' = plan BY <1>7, <3>2 DEF RuleFires
      <4> QED BY <2>1, <4>1 DEF TypeOK, Planned, Busy
    <3> QED BY <3>1, <3>2
  <2> QED BY <1>7, <2>1, <2>2 DEF RuleFires, TypeOK, Busy
<1>8. CASE HumanAnswers
  <2>1. Begin("human", overlay, "capture") /\ overlay # 0 /\ raised' = raised
    BY <1>8 DEF HumanAnswers
  <2>2. /\ pc' \in [Actors -> PC] /\ plan' \in [Actors -> Occ] /\ Planned'
        /\ \A b \in Actors : pc'[b] \in Busy <=> plan'[b] # 0
    BY <1>0, <1>1, <2>1, BeginType
  <2> QED BY <1>8, <2>2 DEF HumanAnswers, TypeOK, Busy
<1> QED BY <1>2, <1>3, <1>4, <1>5, <1>6, <1>7, <1>8 DEF Decision

LEMMA AttemptType ==
  ASSUME TypeOK, Planned, NEW a \in Actors, Attempt(a) PROVE TypeOK' /\ Planned'
<1>0. /\ {"idle", "refresh", "lanes", "latch", "capture", "send", "record", "finish"} = PC
      /\ Busy = {"latch", "capture", "send", "record", "finish"}
  BY DEF PC, Busy, Sending
<1>1. pc[a] \in Busy
  BY DEF Attempt, LatchCheck, Capture, Changed, Fault, Send, Record, Finish, Busy, Sending
<1>2. plan[a] \in 1..Len(raised) /\ Len(raised) \in Nat
  BY <1>1 DEF TypeOK, Planned, Busy, Occ
<1> USE DEF agent, daemon, audit, history, bounds
<1>3. raised' = raised
  BY DEF Attempt, LatchCheck, Capture, Changed, Fault, Send, Record, Finish
<1>4. /\ pc' \in [Actors -> PC] /\ plan' \in [Actors -> Occ] /\ Planned'
      /\ \A b \in Actors : pc'[b] \in Busy <=> plan'[b] # 0
  <2>1. CASE Finish(a)
    <3>1. Begin(a, 0, "idle") BY <2>1 DEF Finish
    <3> QED BY <1>0, <1>2, <1>3, <3>1, BeginType
  <2>2. CASE ~Finish(a)
    <3>1. plan' = plan /\ \E l \in Busy : pc' = [pc EXCEPT ![a] = l]
      BY <1>0, <2>2 DEF Attempt, LatchCheck, Capture, Changed, Fault, Send, Record, Goto
    <3> QED BY <1>0, <1>1, <1>3, <3>1, GotoType
  <2> QED BY <2>1, <2>2
<1>5. out' \in [Actors -> {"sent", "skipped"}]
  <2>1. out' = out \/ \E o \in {"sent", "skipped"} : out' = [out EXCEPT ![a] = o]
    BY DEF Attempt, LatchCheck, Capture, Changed, Fault, Send, Record, Finish, Outcome
  <2>2. out \in [Actors -> {"sent", "skipped"}] BY DEF TypeOK
  <2> QED BY <2>1, <2>2
<1>6. cur' \in 0..Len(raised) /\ shown' = shown /\ overlay' \in 0..Len(raised)
  <2>1. cur' \in {cur, 0} /\ shown' = shown /\ overlay' \in {overlay, shown}
    BY DEF Attempt, LatchCheck, Capture, Changed, Fault, Send, Record, Finish
  <2> QED BY <1>2, <2>1 DEF TypeOK
<1>7. latch' \in {None} \cup Texts
  <2>1. latch' \in {latch, Text(plan[a])}
    BY DEF Attempt, LatchCheck, Capture, Changed, Fault, Send, Record, Finish
  <2>2. latch \in {None} \cup Texts BY DEF TypeOK, Texts
  <2> QED BY <1>2, <2>1, <2>2, TextType
<1>8. rows' \in Nat /\ sends' \in Nat /\ faults' \in 0..MaxFaults
  <2>1. /\ rows' \in {rows, rows + 1} /\ sends' \in {sends, sends + 1}
        /\ faults' = faults \/ (faults < MaxFaults /\ faults' = faults + 1)
    BY DEF Attempt, LatchCheck, Capture, Changed, Fault, Send, Record, Finish
  <2>2. rows \in Nat /\ sends \in Nat /\ faults \in 0..MaxFaults /\ MaxFaults \in Nat
    BY DialogAssumption DEF TypeOK
  <2> QED BY <2>1, <2>2
<1>9. landed' \subseteq Occ \X Occ
  <2>1. landed' = landed \/ landed' = landed \cup {<<plan[a], cur>>}
    BY DEF Attempt, LatchCheck, Capture, Changed, Fault, Send, Record, Finish
  <2>2. plan[a] \in Occ /\ cur \in Occ /\ landed \subseteq Occ \X Occ
    BY <1>2, DialogAssumption DEF TypeOK, Occ
  <2> QED BY <2>1, <2>2
<1>10. UNCHANGED <<policy, snap, held, fired, copy, holdRows, heldOcc, toggles, crashes>>
  BY DEF Attempt, LatchCheck, Capture, Changed, Fault, Send, Record, Finish
<1>11. TypeOK'
  BY <1>3, <1>4, <1>5, <1>6, <1>7, <1>8, <1>9, <1>10 DEF TypeOK, Texts, Busy
<1> QED BY <1>4, <1>11

LEMMA StepType == ASSUME TypeOK, Planned, [Next]_vars PROVE TypeOK' /\ Planned'
<1>1. CASE UNCHANGED vars
  BY <1>1 DEF vars, agent, daemon, audit, history, bounds, TypeOK, Planned
<1>2. CASE Next BY <1>2, NextSplit, SceneType, DecisionType, AttemptType
<1> QED BY <1>1, <1>2

LEMMA TypeInvariance == Spec => [](TypeOK /\ Planned)
<1>1. Init => TypeOK /\ Planned BY InitType
<1>2. (TypeOK /\ Planned) /\ [Next]_vars => (TypeOK /\ Planned)' BY StepType
<1> QED BY <1>1, <1>2, PTL DEF Spec

\* Agent, caches, latch, snapshot and attempts keep their types: an attempt at work
\* has a dialog, and only that.
THEOREM TypeCorrect == Spec => []TypeOK
BY TypeInvariance, PTL
----------------------------------------------------------------------------
(* Audit rows of sends *)

Sent(a) == pc[a] \in {"record", "finish"} /\ out[a] = "sent"
One(P) == IF P THEN 1 ELSE 0

LEMMA WritingCount == Cardinality(Writing) = One(Sent("loop")) + One(Sent("rule"))
<1>0. Writing = {a \in {"loop", "rule"} : Sent(a)}
  <2>1. Actors \ {"human"} = {"loop", "rule"} BY DEF Actors
  <2> QED BY <2>1 DEF Writing, Sent
<1>1. CASE Sent("loop") /\ Sent("rule")
  <2>1. Writing = {"loop"} \cup {"rule"} BY <1>0, <1>1
  <2>2. IsFiniteSet({"loop"}) /\ Cardinality({"loop"}) = 1 BY FS_Singleton
  <2>3. Cardinality(Writing) = 2 BY <2>1, <2>2, FS_AddElement
  <2> QED BY <1>1, <2>3 DEF One
<1>2. CASE Sent("loop") /\ ~Sent("rule")
  <2>1. Writing = {"loop"} BY <1>0, <1>2
  <2> QED BY <1>2, <2>1, FS_Singleton DEF One
<1>3. CASE ~Sent("loop") /\ Sent("rule")
  <2>1. Writing = {"rule"} BY <1>0, <1>3
  <2> QED BY <1>3, <2>1, FS_Singleton DEF One
<1>4. CASE ~Sent("loop") /\ ~Sent("rule")
  <2>1. Writing = {} BY <1>0, <1>4
  <2> QED BY <1>4, <2>1, FS_EmptySet DEF One
<1> QED BY <1>1, <1>2, <1>3, <1>4

\* An attempt that has not sent has no outcome to record.
Unsent ==
  \A a \in Actors : pc[a] \notin {"record", "finish"} => out[a] = "skipped"
\* What the log and the writers have; a crash takes at most two writers away.
Accounted == rows + One(Sent("loop")) + One(Sent("rule"))
Audited == Unsent /\ Accounted <= sends /\ sends <= Accounted + 2 * crashes

LEMMA AuditedInit == Init => Audited
BY DEF Init, Audited, Accounted, Unsent, Sent, One, Actors

LEMMA AuditedAttempt ==
  ASSUME TypeOK, Audited, NEW a \in Actors, Attempt(a) PROVE Audited'
<1>1. /\ pc \in [Actors -> PC] /\ out \in [Actors -> {"sent", "skipped"}] /\ rows \in Nat
      /\ sends \in Nat /\ crashes \in Nat
      /\ "loop" \in Actors /\ "rule" \in Actors /\ "human" \in Actors
      /\ a \in {"loop", "rule", "human"}
  BY DialogAssumption DEF TypeOK, Actors
<1>1a. crashes' = crashes
  BY DEF Attempt, LatchCheck, Capture, Changed, Fault, Send, Record, Finish, bounds
<1> USE <1>1a DEF Goto, Begin, Outcome, Audited, Accounted, Unsent, Sent, One, daemon, audit, history,
                  bounds
<1>2. CASE LatchCheck(a)
  <2>1. /\ pc[a] = "latch" /\ rows' = rows /\ sends' = sends
        /\ \E l \in {"finish", "capture"} : pc' = [pc EXCEPT ![a] = l]
        /\ out' = [out EXCEPT ![a] = "skipped"] \/ out' = out
    BY <1>2 DEF LatchCheck
  <2> QED BY <1>1, <2>1
<1>3. CASE Capture(a) BY <1>1, <1>3 DEF Capture
<1>4. CASE Changed(a) BY <1>1, <1>4 DEF Changed
<1>5. CASE Fault(a) BY <1>1, <1>5 DEF Fault
<1>6. CASE Send(a) BY <1>1, <1>6 DEF Send
<1>7. CASE Record(a) BY <1>1, <1>7 DEF Record
<1>8. CASE Finish(a) BY <1>1, <1>8 DEF Finish
<1> QED BY <1>2, <1>3, <1>4, <1>5, <1>6, <1>7, <1>8 DEF Attempt

LEMMA AuditedCrash == ASSUME TypeOK, Audited, Crash PROVE Audited'
<1>1. /\ rows' = rows /\ sends' = sends /\ crashes' = crashes + 1
      /\ \A a \in Actors : pc'[a] = "idle" /\ out'[a] = "skipped"
  BY DEF Crash, audit, history
<1>2. rows \in Nat /\ sends \in Nat /\ crashes \in Nat BY DialogAssumption DEF TypeOK
<1>3. "loop" \in Actors /\ "rule" \in Actors BY DEF Actors
<1>4. Unsent' BY <1>1 DEF Unsent
<1>5. Accounted' = rows BY <1>1, <1>2, <1>3 DEF Accounted, Sent, One
<1>6. Accounted <= rows + 2 /\ rows <= Accounted /\ Accounted \in Nat
  BY <1>2 DEF Accounted, One
<1> QED BY <1>1, <1>2, <1>4, <1>5, <1>6 DEF Audited

LEMMA AuditedElse ==
  ASSUME TypeOK, Audited, Scene \/ Decision, ~Crash PROVE Audited'
<1>1. /\ pc \in [Actors -> PC] /\ "loop" \in Actors /\ "rule" \in Actors /\ "human" \in Actors
  BY DEF TypeOK, Actors
<1>3. rows' = rows /\ sends' = sends /\ out' = out /\ crashes' = crashes
  BY DEF Scene, Decision, Raise, Repaint, Overlay, CooldownEnds, Toggle, LoopTick, LoopRefresh,
         NoDialog, Answer, Hold, RuleFires, HumanAnswers, audit, history, bounds
<1>4. pc' = pc \/ \E a \in Actors : /\ pc[a] \in {"idle", "refresh", "lanes"}
                                    /\ \E l \in {"idle", "refresh", "lanes", "latch", "capture"} :
                                         pc' = [pc EXCEPT ![a] = l]
  BY <1>1 DEF Scene, Decision, Raise, Repaint, Overlay, CooldownEnds, Toggle, LoopTick,
         LoopRefresh, NoDialog, Answer, Hold, RuleFires, HumanAnswers, Goto, Begin
<1>5. \A a \in Actors : pc'[a] \in {"record", "finish"} <=> pc[a] \in {"record", "finish"}
  BY <1>1, <1>4
<1>6. (Sent("loop")' <=> Sent("loop")) /\ (Sent("rule")' <=> Sent("rule"))
  BY <1>1, <1>3, <1>5 DEF Sent
<1>7. Accounted' = Accounted BY <1>3, <1>6 DEF Accounted, One
<1> QED BY <1>3, <1>5, <1>7 DEF Audited, Unsent

\* The log has no row without keys, and a row for every automatic answer but those whose
\* sender is about to write it, or was when the daemon died.
THEOREM EverySendAudited == Spec => []SendsAudited
<1>1. Init => Audited BY AuditedInit
<1>2. TypeOK /\ Audited /\ [Next]_vars => Audited'
  <2> SUFFICES ASSUME TypeOK, Audited, [Next]_vars PROVE Audited' OBVIOUS
  <2>1. CASE UNCHANGED vars
    BY <2>1 DEF vars, agent, daemon, audit, history, bounds, Audited, Accounted, Unsent, Sent, One
  <2>2. CASE Next BY <2>2, NextSplit, AuditedAttempt, AuditedCrash, AuditedElse
  <2> QED BY <2>1, <2>2
<1>3. TypeOK /\ Audited => SendsAudited
  <2> SUFFICES ASSUME TypeOK, Audited PROVE SendsAudited OBVIOUS
  <2>1. rows \in Nat BY DEF TypeOK
  <2>2. rows + Cardinality(Writing) = Accounted BY <2>1, WritingCount DEF Accounted, One
  <2> QED BY <2>2 DEF Audited, SendsAudited
<1> QED BY <1>1, <1>2, <1>3, TypeInvariance, PTL DEF Spec
----------------------------------------------------------------------------
(* Audit rows of holds *)

\* Overlay and screen only move to later dialogs; the last hold text goes back to a row
\* after which nothing with another text was held.
Later ==
  /\ \A i \in heldOcc : i \in 1..Len(raised)
  /\ \A i \in heldOcc : (overlay # 0 => i <= overlay) /\ (shown # 0 => i <= shown)
  /\ overlay # 0 /\ shown # 0 => overlay <= shown
  /\ cur # 0 => cur = Len(raised)
Since(j, text) == \A i \in heldOcc : i >= j => Text(i) = text
HeldInv ==
  /\ Later
  /\ holdRows \subseteq heldOcc
  /\ held # None => \E j \in holdRows : Since(j, held)
  /\ HoldsAudited

LEMMA HeldInit == Init => HeldInv
BY DEF Init, HeldInv, Later, HoldsAudited

LEMMA HoldAudits == ASSUME TypeOK, HeldInv, Hold PROVE HeldInv'
<1>1. /\ overlay \in 1..Len(raised) /\ Len(raised) \in Nat /\ held' = Text(overlay)
      /\ heldOcc' = heldOcc \cup {overlay}
      /\ holdRows' = IF held # Text(overlay) THEN holdRows \cup {overlay} ELSE holdRows
      /\ UNCHANGED <<raised, cur, shown, overlay>>
  BY DEF Hold, TypeOK, agent
<1>2. \A i \in heldOcc : i \in 1..Len(raised) /\ i <= overlay BY <1>1 DEF HeldInv, Later
<1>3. Later' BY <1>1, <1>2 DEF HeldInv, Later
<1>4. holdRows' \subseteq heldOcc' BY <1>1 DEF HeldInv
<1>5. \A k : Text(k)' = Text(k) BY <1>1 DEF Text
<1>6. Text(overlay) # None BY <1>1, TextType
<1>7. \E j \in holdRows' : Since(j, held)'
  <2>1. CASE held # Text(overlay)
    <3>1. overlay \in holdRows' BY <1>1, <2>1
    <3>2. \A i \in heldOcc' : i >= overlay => Text(i)' = Text(overlay) BY <1>1, <1>2, <1>5
    <3> QED BY <1>1, <3>1, <3>2 DEF Since
  <2>2. CASE held = Text(overlay)
    <3>1. PICK j \in holdRows : Since(j, held) BY <1>6, <2>2 DEF HeldInv
    <3>2. \A i \in heldOcc' : i >= j => Text(i)' = held' BY <1>1, <1>5, <2>2, <3>1 DEF Since
    <3> QED BY <1>1, <2>2, <3>1, <3>2 DEF Since
  <2> QED BY <2>1, <2>2
<1>8. ASSUME NEW k \in heldOcc' \ holdRows'
      PROVE  \E j \in holdRows' : j < k /\ \A i \in heldOcc' \cap j..k : Text(i)' = Text(k)'
  <2>1. CASE k = overlay
    <3>1. held = Text(overlay) BY <1>1, <1>8, <2>1
    <3>2. PICK j \in holdRows : Since(j, held) BY <1>6, <3>1 DEF HeldInv
    <3>3. j \in heldOcc /\ j # k /\ j \in holdRows' BY <1>1, <1>8, <3>2 DEF HeldInv
    <3>4. j < k BY <1>1, <1>2, <2>1, <3>3
    <3>5. \A i \in heldOcc' \cap j..k : Text(i)' = Text(k)'
      BY <1>1, <1>2, <1>5, <2>1, <3>1, <3>2 DEF Since
    <3> QED BY <3>3, <3>4, <3>5
  <2>2. CASE k # overlay
    <3>1. k \in heldOcc \ holdRows BY <1>1, <1>8, <2>2
    <3>2. PICK j \in holdRows : j < k /\ \A i \in heldOcc \cap j..k : Text(i) = Text(k)
      BY <3>1 DEF HeldInv, HoldsAudited
    <3>3. overlay \notin j..k BY <1>1, <1>2, <2>2, <3>1
    <3> QED BY <1>1, <1>5, <3>2, <3>3
  <2> QED BY <2>1, <2>2
<1> QED BY <1>3, <1>4, <1>7, <1>8 DEF HeldInv, HoldsAudited

LEMMA ElseAudits ==
  ASSUME TypeOK, HeldInv, [Next]_vars, ~Hold PROVE HeldInv'
<1>1. heldOcc' = heldOcc /\ holdRows' = holdRows /\ held' \in {held, None}
  BY NextSplit
  DEF vars, Scene, Decision, Attempt, LatchCheck, Capture, Changed, Fault, Send, Record, Finish,
      Raise, Repaint, Overlay, CooldownEnds, Toggle, Crash, LoopTick, LoopRefresh, NoDialog, Answer,
      RuleFires, HumanAnswers, agent, daemon, audit, history
<1>2. /\ raised \in Seq(Dialogs) /\ Len(raised) \in Nat /\ cur \in Nat /\ shown \in Nat
      /\ overlay \in Nat /\ cur <= Len(raised) /\ shown <= Len(raised) /\ overlay <= Len(raised)
  BY DEF TypeOK
<1>3. \/ \E d \in Dialogs : /\ raised' = Append(raised, d) /\ cur' = Len(raised) + 1
                            /\ shown' = shown /\ overlay' = overlay
      \/ /\ raised' = raised
         /\ \/ cur' \in {cur, 0} /\ shown' = shown /\ overlay' \in {overlay, shown, 0}
            \/ cur' = cur /\ shown' = cur /\ overlay' \in {overlay, 0}
  BY NextSplit
  DEF vars, Scene, Decision, Attempt, LatchCheck, Capture, Changed, Fault, Send, Record, Finish,
      Raise, Repaint, Overlay, CooldownEnds, Toggle, Crash, LoopTick, LoopRefresh, NoDialog, Answer,
      Hold, RuleFires, HumanAnswers, agent, daemon, audit, history
<1>4. \A k \in 1..Len(raised) : k \in 1..Len(raised') /\ Text(k)' = Text(k)
  BY <1>2, <1>3 DEF Text
<1>5. Later'
  <2>1. CASE raised' = raised
    <3>1. CASE shown' = shown /\ cur' \in {cur, 0} /\ overlay' \in {overlay, shown, 0}
      BY <1>1, <1>2, <2>1, <3>1 DEF HeldInv, Later
    <3>2. CASE shown' = cur /\ cur' = cur /\ overlay' \in {overlay, 0}
      BY <1>1, <1>2, <2>1, <3>2 DEF HeldInv, Later
    <3>3. \A d \in Dialogs : raised' # Append(raised, d)
      <4>1. \A d \in Dialogs : Len(Append(raised, d)) = Len(raised) + 1 BY <1>2
      <4> QED BY <1>2, <2>1, <4>1
    <3> QED BY <1>3, <2>1, <3>1, <3>2, <3>3
  <2>2. CASE \E d \in Dialogs : /\ raised' = Append(raised, d) /\ cur' = Len(raised) + 1
                                /\ shown' = shown /\ overlay' = overlay
    <3>1. Len(raised') = Len(raised) + 1 BY <1>2, <2>2
    <3> QED BY <1>1, <1>2, <2>2, <3>1 DEF HeldInv, Later
  <2> QED BY <1>3, <2>1, <2>2
<1>6. heldOcc \subseteq 1..Len(raised) /\ holdRows \subseteq heldOcc BY DEF HeldInv, Later
<1>7. held' # None => \E j \in holdRows' : Since(j, held)'
  BY <1>1, <1>4, <1>6 DEF HeldInv, Since
<1>8. HoldsAudited'
  BY <1>1, <1>4, <1>6 DEF HeldInv, HoldsAudited
<1> QED BY <1>1, <1>5, <1>6, <1>7, <1>8 DEF HeldInv

\* A hold has a row, or repeats the text of an earlier hold that has one, with nothing
\* else held between the two: for any dialogs, policies, answers and crashes.
THEOREM EveryHoldAudited == Spec => []HoldsAudited
<1>1. Init => HeldInv BY HeldInit
<1>2. TypeOK /\ HeldInv /\ [Next]_vars => HeldInv' BY HoldAudits, ElseAudits
<1>3. HeldInv => HoldsAudited BY DEF HeldInv
<1> QED BY <1>1, <1>2, <1>3, TypeInvariance, PTL DEF Spec
----------------------------------------------------------------------------
(* Automatic keys *)

\* The operator lets the daemon answer; a summary tells dialogs apart.
Undisturbed == ~HumanToo
Told == \A d, e \in Dialogs : Summary[d] = Summary[e] => d = e

\* So far nobody has edited the policy, nor has the daemon restarted under one: a new daemon
\* takes every lane for unsupervised until the loop has read the policies again.
Calm == toggles = 0 /\ (crashes = 0 \/ ~policy)

\* As long as that is so, the snapshot is the policy, and only one of loop and rule has
\* dialogs to answer.
Alone ==
  /\ snap = policy
  /\ pc["loop"] = "refresh" => copy = policy
  /\ pc["loop"] \notin {"idle", "refresh"} => policy
  /\ pc["rule"] # "idle" => ~policy
  /\ pc["human"] = "idle"

\* A screen that still shows an answered dialog is under the cooldown of its summary, or
\* about to be; so what passes latch and capture is what the agent waits for.
Stale == shown # 0 /\ shown # cur
Guarded ==
  /\ cur # 0 => cur = Len(raised)
  /\ Stale => IF \E a \in Actors : pc[a] = "record"
              THEN \A a \in Actors : pc[a] = "record" => Text(plan[a]) = Text(shown)
              ELSE latch = Text(shown)
  /\ \A a \in Actors : pc[a] = "capture" /\ Stale => Text(plan[a]) # Text(shown)
  /\ \A a \in Actors : pc[a] = "send" => cur # 0 /\ shown = cur /\ Text(plan[a]) = Text(shown)

\* What got keys, and what they were for, has been raised, and has one summary.
SameText == \A t \in landed : t[2] # 0 /\ Text(t[2]) = Text(t[1])
Landed == landed \subseteq (1..Len(raised)) \X (1..Len(raised)) /\ SameText

AimInv == Calm => Alone /\ Guarded /\ Landed

\* What has happened is not undone.
LEMMA CalmBefore == ASSUME TypeOK, [Next]_vars, Calm' PROVE Calm /\ ~Toggle
<1>1. toggles \in Nat /\ crashes \in Nat BY DialogAssumption DEF TypeOK
<1>2. ~Toggle BY <1>1 DEF Toggle, Calm
<1>3. policy' = policy /\ toggles' = toggles /\ crashes' \in {crashes, crashes + 1}
  BY <1>2, NextSplit
  DEF vars, Scene, Decision, Attempt, LatchCheck, Capture, Changed, Fault, Send, Record, Finish,
      Raise, Repaint, Overlay, CooldownEnds, Crash, LoopTick, LoopRefresh, NoDialog, Answer, Hold,
      RuleFires, HumanAnswers, agent, daemon, audit, history, bounds
<1> QED BY <1>1, <1>2, <1>3 DEF Calm

LEMMA AimInit == ASSUME Undisturbed, Init PROVE AimInv
BY DEF Init, AimInv, Alone, Guarded, Stale, Landed, SameText, Actors

\* Whoever is at work on a dialog is the only one.
LEMMA OneAtWork ==
  ASSUME Alone, NEW a \in Actors, NEW b \in Actors, pc[a] \in Busy, pc[b] \in Busy
  PROVE  a = b
BY DEF Alone, Actors, Busy, Sending

LEMMA AloneHolds ==
  ASSUME TypeOK, Undisturbed, Alone, [Next]_vars, Calm' PROVE Alone'
<1>1. /\ pc \in [Actors -> PC] /\ Actors = {"loop", "rule", "human"}
      /\ copy \in BOOLEAN /\ policy \in BOOLEAN
  BY DEF TypeOK, Actors
<1>2. ~Toggle /\ ~HumanAnswers BY CalmBefore DEF Undisturbed, HumanAnswers
<1>3. policy' = policy
  BY <1>2, NextSplit
  DEF vars, Scene, Decision, Attempt, LatchCheck, Capture, Changed, Fault, Send, Record, Finish,
      Raise, Repaint, Overlay, CooldownEnds, Crash, LoopTick, LoopRefresh, NoDialog, Answer, Hold,
      RuleFires, agent, daemon, audit, history
<1> USE DEF Alone, agent, daemon, audit, history, bounds, Goto, Begin
<1>4. CASE (Scene /\ ~Crash) \/ UNCHANGED vars
  <2>1. UNCHANGED <<pc, snap, copy, policy>>
    BY <1>2, <1>4 DEF Scene, Raise, Repaint, Overlay, CooldownEnds, vars
  <2> QED BY <2>1
<1>4a. CASE Crash
  <2>1. /\ snap' = FALSE /\ crashes' = crashes + 1 /\ \A a \in Actors : pc'[a] = "idle"
    BY <1>4a DEF Crash
  <2>2. crashes \in Nat BY DialogAssumption DEF TypeOK
  <2>3. ~policy' BY <2>1, <2>2 DEF Calm
  <2> QED BY <1>1, <1>3, <2>1, <2>3
<1>5. CASE LoopTick BY <1>1, <1>5 DEF LoopTick
<1>6. CASE LoopRefresh BY <1>1, <1>6 DEF LoopRefresh
<1>7. CASE NoDialog BY <1>1, <1>7 DEF NoDialog
<1>8. CASE Answer BY <1>1, <1>8 DEF Answer
<1>9. CASE Hold BY <1>1, <1>9 DEF Hold
<1>10. CASE RuleFires
  <2>1. ~snap /\ snap' = snap /\ copy' = copy /\ policy' = policy BY <1>10 DEF RuleFires
  <2>2. pc' = pc \/ pc' = [pc EXCEPT !["rule"] = "latch"] BY <1>10 DEF RuleFires
  <2> QED BY <1>1, <2>1, <2>2
<1>11. ASSUME NEW a \in Actors, Attempt(a) PROVE Alone'
  <2>1. /\ pc[a] \notin {"idle", "refresh", "lanes"}
        /\ \E l \in PC : l # "refresh" /\ pc' = [pc EXCEPT ![a] = l]
        /\ UNCHANGED <<snap, copy, policy>>
    BY <1>11 DEF Attempt, LatchCheck, Capture, Changed, Fault, Send, Record, Finish, PC, Sending
  <2> QED BY <1>1, <2>1
<1> QED
  BY <1>2, <1>4, <1>4a, <1>5, <1>6, <1>7, <1>8, <1>9, <1>10, <1>11, NextSplit DEF Decision

\* Steps that neither begin nor end a part of an attempt that sends.
LEMMA SceneAims ==
  ASSUME TypeOK, Planned, Guarded, Scene, ~Toggle PROVE Guarded'
<1>2. /\ Len(raised) \in Nat /\ raised \in Seq(Dialogs) /\ shown \in 0..Len(raised)
      /\ \A a \in Actors : plan[a] \in 0..Len(raised)
      /\ \A a \in Actors : pc[a] \in Busy <=> plan[a] # 0
  BY DEF TypeOK, Planned, Occ, Busy
<1> USE DEF agent, daemon, audit, history, bounds, Stale
<1>4. ASSUME NEW d \in Dialogs, Raise(d) PROVE Guarded'
  <2>1. /\ cur = 0 /\ raised' = Append(raised, d) /\ cur' = Len(raised) + 1
        /\ shown' = shown /\ latch' = latch
    BY <1>4 DEF Raise
  <2>1p. pc' = pc /\ plan' = plan BY <1>4 DEF Raise
  <2>2. Len(raised') = Len(raised) + 1 /\ \A k \in 1..Len(raised) : Text(k)' = Text(k)
    BY <1>2, <2>1 DEF Text
  <2>3. Stale' <=> Stale BY <1>2, <2>1
  <2>4. Stale => Text(shown)' = Text(shown) BY <1>2, <2>1, <2>2 DEF Text
  <2>5. \A a \in Actors : pc[a] \in {"record", "capture", "send"} => Text(plan[a])' = Text(plan[a])
    BY <1>2, <2>1p, <2>2 DEF Busy, Sending
  <2>6. \A a \in Actors : pc[a] # "send" BY <2>1 DEF Guarded
  <2> QED BY <2>1, <2>1p, <2>2, <2>3, <2>4, <2>5, <2>6 DEF Guarded
<1>5. \A k : raised' = raised => Text(k)' = Text(k) BY DEF Text
<1>6. CASE Repaint
  <2>1. /\ shown # cur /\ shown' = cur /\ cur' = cur /\ raised' = raised
        /\ pc' = pc /\ plan' = plan
    BY <1>6 DEF Repaint
  <2> QED BY <2>1 DEF Guarded
<1>7. CASE Overlay
  <2>1. UNCHANGED <<shown, cur, raised, latch, pc, plan>> BY <1>7 DEF Overlay
  <2> QED BY <1>5, <2>1 DEF Guarded, Text
<1>8. CASE CooldownEnds
  <2>1. shown = cur /\ UNCHANGED <<shown, cur, raised, pc, plan>> BY <1>8 DEF CooldownEnds
  <2> QED BY <1>5, <2>1 DEF Guarded, Text
<1>9. CASE Crash
  <2>1. /\ shown' = cur /\ cur' = cur /\ raised' = raised
        /\ \A a \in Actors : pc'[a] = "idle"
    BY <1>9 DEF Crash
  <2> QED BY <2>1 DEF Guarded
<1> QED BY <1>4, <1>6, <1>7, <1>8, <1>9 DEF Scene

LEMMA DecisionAims ==
  ASSUME TypeOK, Planned, Undisturbed, Alone, Guarded, Decision PROVE Guarded'
<1>1. UNCHANGED <<raised, cur, shown, latch>>
  BY DEF Undisturbed, Decision, LoopTick, LoopRefresh, NoDialog, Answer, Hold, RuleFires,
         HumanAnswers, agent, daemon
<1>2. pc \in [Actors -> PC] /\ plan \in [Actors -> Occ] BY DEF TypeOK
<1>3. \E a \in Actors, l \in {"idle", "refresh", "lanes", "latch"} :
        /\ pc[a] \notin Busy /\ (pc' = pc \/ pc' = [pc EXCEPT ![a] = l])
        /\ plan' = plan \/ \E k \in Occ : plan' = [plan EXCEPT ![a] = k]
  <2>1. "loop" \in Actors /\ "rule" \in Actors /\ overlay \in Occ /\ ~HumanAnswers
    BY DialogAssumption DEF Undisturbed, HumanAnswers, TypeOK, Occ, Actors
  <2> QED BY <2>1 DEF Decision, LoopTick, LoopRefresh, NoDialog, Answer, Hold, RuleFires, Goto,
                      Begin, Busy, Sending
<1>4. \A a \in Actors : /\ pc'[a] \in {"capture", "send", "record"} <=> pc[a] \in {"capture", "send", "record"}
                        /\ pc[a] \in {"capture", "send", "record"} => pc'[a] = pc[a] /\ plan'[a] = plan[a]
  BY <1>2, <1>3 DEF Busy, Sending
<1>5. \A k : Text(k)' = Text(k) BY <1>1 DEF Text
<1> QED BY <1>1, <1>4, <1>5 DEF Guarded, Stale, Text

LEMMA AttemptAims ==
  ASSUME TypeOK, Planned, Undisturbed, Alone, Guarded, NEW a \in Actors, Attempt(a)
  PROVE  Guarded'
<1>1. /\ pc \in [Actors -> PC] /\ plan \in [Actors -> Occ] /\ pc[a] \in Busy
      /\ \A b \in Actors : b # a => pc[b] \notin Busy
  <2>1. pc[a] \in Busy
    BY DEF Attempt, LatchCheck, Capture, Changed, Fault, Send, Record, Finish, Busy, Sending
  <2> QED BY <2>1, OneAtWork DEF TypeOK
<1>2. a # "human" BY <1>1 DEF Alone, Busy, Sending
<1>3. raised' = raised /\ shown' = shown /\ \A k : Text(k)' = Text(k)
  BY DEF Attempt, LatchCheck, Capture, Changed, Fault, Send, Record, Finish, agent, Text
<1> USE DEF agent, daemon, audit, history, bounds, Goto, Begin, Busy, Sending, Stale
<1>4. CASE LatchCheck(a)
  <2>1. /\ UNCHANGED <<cur, latch, plan>> /\ pc[a] = "latch"
        /\ \/ latch = Text(plan[a]) /\ pc' = [pc EXCEPT ![a] = "finish"]
           \/ latch # Text(plan[a]) /\ pc' = [pc EXCEPT ![a] = "capture"]
    BY <1>4 DEF LatchCheck
  <2>2. \A b \in Actors : pc[b] \notin {"record", "send"} /\ pc'[b] \notin {"record", "send"}
    BY <1>1, <2>1
  <2>3. Stale => latch = Text(shown) BY <2>2 DEF Guarded
  <2>4. \A b \in Actors : pc'[b] = "capture" /\ Stale => Text(plan[b]) # Text(shown)
    BY <1>1, <2>1, <2>3
  <2> QED BY <1>3, <2>1, <2>2, <2>3, <2>4 DEF Guarded, Text
<1>5. CASE Capture(a)
  <2>1. /\ UNCHANGED <<cur, latch, plan>> /\ pc[a] = "capture" /\ pc' = [pc EXCEPT ![a] = "send"]
        /\ shown # 0 /\ Text(shown) = Text(plan[a])
    BY <1>5 DEF Capture, Matches
  <2>2. ~Stale BY <2>1 DEF Guarded
  <2>3. \A b \in Actors : pc'[b] = "send" => b = a BY <1>1, <2>1
  <2> QED BY <1>3, <2>1, <2>2, <2>3 DEF Guarded, Text
<1>6. CASE Changed(a) \/ Fault(a) \/ Finish(a)
  <2>1. /\ UNCHANGED <<cur, latch>> /\ pc[a] \in {"capture", "send", "finish"}
        /\ \E l \in {"idle", "finish"} : pc' = [pc EXCEPT ![a] = l]
    BY <1>6 DEF Changed, Fault, Finish
  <2>2. \A b \in Actors : /\ pc[b] # "record"
                          /\ pc'[b] \notin {"record", "capture", "send"}
    BY <1>1, <2>1
  <2> QED BY <1>3, <2>1, <2>2 DEF Guarded, Text
<1>7. CASE Send(a)
  <2>1. /\ UNCHANGED <<latch, plan>> /\ pc[a] = "send" /\ pc' = [pc EXCEPT ![a] = "record"]
        /\ cur' = 0
    BY <1>7 DEF Send
  <2>2. \A b \in Actors : /\ pc'[b] = "record" <=> b = a
                          /\ pc'[b] \notin {"capture", "send"}
    BY <1>1, <2>1
  <2>3. Text(plan[a]) = Text(shown) BY <2>1 DEF Guarded
  <2> QED BY <1>3, <2>1, <2>2, <2>3 DEF Guarded, Text
<1>8. CASE Record(a)
  <2>1. /\ UNCHANGED <<cur, plan>> /\ pc[a] = "record" /\ pc' = [pc EXCEPT ![a] = "finish"]
        /\ latch' = Text(plan[a])
    BY <1>2, <1>8 DEF Record
  <2>2. \A b \in Actors : pc'[b] \notin {"record", "capture", "send"} BY <1>1, <2>1
  <2>3. Stale => Text(plan[a]) = Text(shown) BY <2>1 DEF Guarded
  <2> QED BY <1>3, <2>1, <2>2, <2>3 DEF Guarded, Text
<1> QED BY <1>4, <1>5, <1>6, <1>7, <1>8 DEF Attempt

LEMMA LandsOnTarget ==
  ASSUME TypeOK, Planned, Guarded, Landed, [Next]_vars PROVE Landed'
<1>1. raised \in Seq(Dialogs) /\ Len(raised) \in Nat /\ cur \in 0..Len(raised)
  BY DEF TypeOK
<1>2. ASSUME NEW a \in Actors, Send(a) PROVE Landed'
  <2>1. /\ pc[a] = "send" /\ raised' = raised
        /\ landed' \in {landed, landed \cup {<<plan[a], cur>>}}
    BY <1>2 DEF Send, agent
  <2>2. /\ cur # 0 /\ Text(plan[a]) = Text(cur) BY <2>1 DEF Guarded
  <2>3. plan[a] \in 1..Len(raised) BY <2>1 DEF TypeOK, Planned, Sending, Occ
  <2>4. cur \in 1..Len(raised) BY <1>1, <2>2
  <2> QED BY <2>1, <2>2, <2>3, <2>4 DEF Landed, SameText, Text
<1>3. CASE ~\E a \in Actors : Send(a)
  <2>1. landed' = landed
    BY <1>3, NextSplit
    DEF vars, Scene, Decision, Attempt, LatchCheck, Capture, Changed, Fault, Record, Finish, Raise,
        Repaint, Overlay, CooldownEnds, Toggle, Crash, LoopTick, LoopRefresh, NoDialog, Answer, Hold,
        RuleFires, HumanAnswers, audit, history
  <2>2. raised' = raised \/ \E d \in Dialogs : raised' = Append(raised, d)
    BY <1>3, NextSplit
    DEF vars, Scene, Decision, Attempt, LatchCheck, Capture, Changed, Fault, Record, Finish, Raise,
        Repaint, Overlay, CooldownEnds, Toggle, Crash, LoopTick, LoopRefresh, NoDialog, Answer, Hold,
        RuleFires, HumanAnswers, agent
  <2>3. /\ \A k \in 1..Len(raised) : k \in 1..Len(raised') /\ raised'[k] = raised[k]
    BY <1>1, <2>2
  <2>4. \A t \in landed : t[1] \in 1..Len(raised) /\ t[2] \in 1..Len(raised)
    BY DEF Landed
  <2>5. (1..Len(raised)) \X (1..Len(raised)) \subseteq ((1..Len(raised)) \X (1..Len(raised)))'
    BY <2>3
  <2>6. SameText' BY <2>1, <2>3, <2>4 DEF Landed, SameText, Text
  <2> QED BY <2>1, <2>5, <2>6 DEF Landed
<1> QED BY <1>2, <1>3

LEMMA AimInvariance == ASSUME Undisturbed PROVE Spec => [](TypeOK /\ AimInv)
<1>1. Init => AimInv BY AimInit
<1>2. TypeOK /\ Planned /\ AimInv /\ [Next]_vars => AimInv'
  <2>1. SUFFICES ASSUME TypeOK, Planned, AimInv, [Next]_vars, Calm'
                 PROVE  Alone' /\ Guarded' /\ Landed'
    BY DEF AimInv
  <2>2. Alone /\ Guarded /\ Landed /\ ~Toggle BY <2>1, CalmBefore DEF AimInv
  <2>3. Alone' BY <2>1, <2>2, AloneHolds
  <2>4. Guarded'
    <3>1. CASE UNCHANGED vars
      <4>1. UNCHANGED <<raised, cur, shown, latch, pc, plan>>
        BY <3>1 DEF vars, agent, daemon
      <4> QED BY <2>2, <4>1 DEF Guarded, Stale, Text
    <3> QED BY <2>1, <2>2, <3>1, NextSplit, SceneAims, DecisionAims, AttemptAims
  <2>5. Landed' BY <2>1, <2>2, LandsOnTarget
  <2> QED BY <2>3, <2>4, <2>5
<1> QED BY <1>1, <1>2, TypeInvariance, PTL DEF Spec

\* Where the operator leaves dialogs alone, automatic keys reach a dialog of the summary they
\* were decided for, until somebody edits the policy or the daemon restarts while it supervises
\* the lane: its restarts over an unsupervised lane do no harm.
THEOREM KeysOnSummary == ASSUME Undisturbed PROVE Spec => [](Calm => SameText)
<1>1. AimInv => (Calm => SameText) BY DEF AimInv, Landed
<1> QED BY <1>1, AimInvariance, PTL

\* So they reach the very content they were decided for, where summaries tell dialogs apart.
THEOREM KeysOnTarget == ASSUME Undisturbed, Told PROVE Spec => [](Calm => OnTarget)
<1>1. TypeOK /\ AimInv => (Calm => OnTarget)
  <2> SUFFICES ASSUME TypeOK, AimInv, Calm, NEW t \in landed
               PROVE  t[2] # 0 /\ raised[t[2]] = raised[t[1]]
    BY DEF OnTarget
  <2>1. /\ t[1] \in 1..Len(raised) /\ t[2] \in 1..Len(raised) /\ raised \in Seq(Dialogs)
        /\ Text(t[2]) = Text(t[1])
    BY DEF AimInv, Landed, SameText, TypeOK
  <2> QED BY <2>1 DEF Text, Told
<1> QED BY <1>1, AimInvariance, PTL
=============================================================================
