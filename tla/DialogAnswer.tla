---------------------------- MODULE DialogAnswer ----------------------------
(***************************************************************************)
(* Answering a permission dialog of one managed window: the supervision     *)
(* loop, the learned-rule path of the notification engine and the           *)
(* operator's agent.answer, all through a fresh capture of the pane, with    *)
(* the injection latch and the audit log of inject::verified_send.          *)
(*                                                                         *)
(* The agent raises dialogs one after the other; an occurrence is its        *)
(* number in that order. What the agent waits for (cur) and what a capture   *)
(* shows (shown) differ until the agent repaints. The overlay the loop       *)
(* plans from is a cached, older capture.                                   *)
(***************************************************************************)
EXTENDS Naturals, Sequences, FiniteSets

CONSTANTS
  Dialogs,     \* full contents of dialogs
  Summary,     \* [Dialogs -> summaries]: PendingDialog::summary
  Approved,    \* dialogs the lane's policy answers; it holds the others
  Ruled,       \* dialogs a learned rule matches and no veto forbids
  None,
  HumanToo,    \* does the operator answer dialogs as well?
  Supervised,  \* initial lane policies
  MaxRaised,   \* bound: dialogs the agent raises
  MaxToggles,  \* bound: edits of the lane policy
  MaxCrashes,  \* bound: daemon crashes
  MaxFaults    \* bound: captures and key sequences that fail

ASSUME DialogAssumption ==
  /\ DOMAIN Summary = Dialogs
  /\ Approved \subseteq Dialogs /\ Ruled \subseteq Dialogs
  /\ \A d \in Dialogs : Summary[d] # None
  /\ HumanToo \in BOOLEAN /\ Supervised \subseteq BOOLEAN
  /\ MaxRaised \in Nat /\ MaxToggles \in Nat /\ MaxCrashes \in Nat /\ MaxFaults \in Nat

VARIABLES
  \* the agent and its pane
  raised,    \* contents of the occurrences so far
  cur,       \* the occurrence the agent waits for, 0 if none
  shown,     \* the occurrence on screen
  \* the daemon
  overlay,   \* pending_dialog of the cached lane overlay
  policy,    \* the stored lane policy: supervised or not
  snap,      \* ctx.supervision has the lane
  latch,     \* summary under injection cooldown in this window
  held,      \* held_cache: summary of the last recorded hold
  fired,     \* occurrences the notification engine has reacted to
  pc, plan,  \* control point of each actor, and the occurrence it acts on
  copy,      \* the loop's copy of the snapshot in this tick
  out,       \* outcome an actor is about to record
  \* the audit log
  rows,      \* rows of attempts that sent keys
  holdRows,  \* occurrences with a hold row
  \* history and bounds
  landed,    \* <<occurrence planned, occurrence that got the keys or 0>> of automatic keys
  sends,     \* automatic key sequences sent
  heldOcc,   \* occurrences the policy decided to hold
  toggles, crashes, faults

agent == <<raised, cur, shown>>
daemon == <<overlay, policy, snap, latch, held, fired, copy>>
audit == <<rows, holdRows>>
history == <<landed, sends, heldOcc>>
bounds == <<toggles, crashes, faults>>
vars == <<agent, daemon, pc, plan, out, audit, history, bounds>>

Actors == {"loop", "rule", "human"}
Sending == {"latch", "capture", "send"}
PC == {"idle", "refresh", "lanes", "record", "finish"} \cup Sending
Occ == 0..MaxRaised

TypeOK ==
  /\ raised \in Seq(Dialogs) /\ Len(raised) <= MaxRaised
  /\ cur \in 0..Len(raised) /\ shown \in 0..Len(raised) /\ overlay \in 0..Len(raised)
  /\ policy \in BOOLEAN /\ snap \in BOOLEAN /\ copy \in BOOLEAN
  /\ {latch, held} \subseteq {None} \cup {Summary[d] : d \in Dialogs}
  /\ fired \subseteq Occ /\ holdRows \subseteq Occ /\ heldOcc \subseteq Occ
  /\ pc \in [Actors -> PC] /\ plan \in [Actors -> Occ]
  /\ \A a \in Actors : pc[a] \in Sending \cup {"record", "finish"} <=> plan[a] # 0
  /\ out \in [Actors -> {"sent", "skipped"}]
  /\ rows \in Nat /\ sends \in Nat
  /\ landed \subseteq Occ \X Occ
  /\ toggles \in 0..MaxToggles /\ crashes \in 0..MaxCrashes /\ faults \in 0..MaxFaults

Init ==
  /\ raised = <<>> /\ cur = 0 /\ shown = 0 /\ overlay = 0
  /\ policy \in Supervised /\ snap = policy /\ copy = FALSE
  /\ latch = None /\ held = None /\ fired = {}
  /\ pc = [a \in Actors |-> "idle"] /\ plan = [a \in Actors |-> 0]
  /\ out = [a \in Actors |-> "skipped"]
  /\ rows = 0 /\ holdRows = {}
  /\ landed = {} /\ sends = 0 /\ heldOcc = {}
  /\ toggles = 0 /\ crashes = 0 /\ faults = 0

----------------------------------------------------------------------------
(* The agent and its terminal *)

Raise(d) ==
  /\ cur = 0 /\ Len(raised) < MaxRaised
  /\ raised' = Append(raised, d) /\ cur' = Len(raised) + 1
  /\ UNCHANGED <<shown, daemon, pc, plan, out, audit, history, bounds>>

Repaint ==
  /\ shown # cur /\ shown' = cur
  /\ UNCHANGED <<raised, cur, daemon, pc, plan, out, audit, history, bounds>>

----------------------------------------------------------------------------
(* The daemon around the attempts *)

Goto(a, label) == pc' = [pc EXCEPT ![a] = label]
Begin(a, k, label) == Goto(a, label) /\ plan' = [plan EXCEPT ![a] = k]
Text(k) == Summary[raised[k]]

\* the lane overlay is recomputed
Overlay ==
  /\ overlay # shown /\ overlay' = shown
  /\ UNCHANGED <<agent, policy, snap, latch, held, fired, copy, pc, plan, out, audit,
                 history, bounds>>

\* 90 s after the last send; the agent has repainted long before
CooldownEndsBug ==
  /\ latch # None /\ shown = 0 /\ cur = 0 /\ latch' = None
  /\ UNCHANGED <<agent, overlay, policy, snap, held, fired, copy, pc, plan, out, audit,
                 history, bounds>>
CooldownEnds ==
  /\ latch # None /\ shown = cur /\ latch' = None
  /\ UNCHANGED <<agent, overlay, policy, snap, held, fired, copy, pc, plan, out, audit,
                 history, bounds>>

\* supervision.set: the policy is stored and the snapshot refreshed
Toggle ==
  /\ toggles < MaxToggles /\ toggles' = toggles + 1
  /\ policy' = ~policy /\ snap' = ~policy
  /\ UNCHANGED <<agent, overlay, latch, held, fired, copy, pc, plan, out, audit, history,
                 crashes, faults>>

\* the daemon dies and starts again, which takes longer than a repaint
Crash ==
  /\ crashes < MaxCrashes /\ crashes' = crashes + 1
  /\ shown' = cur
  /\ overlay' = 0 /\ snap' = FALSE /\ latch' = None /\ held' = None /\ copy' = FALSE
  /\ pc' = [a \in Actors |-> "idle"] /\ plan' = [a \in Actors |-> 0]
  /\ out' = [a \in Actors |-> "skipped"]
  /\ UNCHANGED <<raised, cur, policy, fired, audit, history, toggles, faults>>

----------------------------------------------------------------------------
(* Who decides *)

\* supervision_step: refresh reads the policy ...
LoopTick ==
  /\ pc["loop"] = "idle" /\ Goto("loop", "refresh")
  /\ copy' = policy
  /\ UNCHANGED <<agent, overlay, policy, snap, latch, held, fired, plan, out, audit,
                 history, bounds>>

\* ... and publishes what it read; without a supervised lane the tick ends
LoopRefresh ==
  /\ pc["loop"] = "refresh" /\ Goto("loop", IF copy THEN "lanes" ELSE "idle")
  /\ snap' = copy
  /\ UNCHANGED <<agent, overlay, policy, latch, held, fired, copy, plan, out, audit,
                 history, bounds>>

\* handle_session without a dialog
NoDialog ==
  /\ pc["loop"] = "lanes" /\ overlay = 0 /\ Goto("loop", "idle")
  /\ held' = None
  /\ UNCHANGED <<agent, overlay, policy, snap, latch, fired, copy, plan, out, audit,
                 history, bounds>>

\* handle_session: the policy answers
Answer ==
  /\ pc["loop"] = "lanes" /\ overlay # 0 /\ raised[overlay] \in Approved \cup Ruled
  /\ held' = None
  /\ Begin("loop", overlay, "latch")
  /\ UNCHANGED <<agent, overlay, policy, snap, latch, fired, copy, out, audit, history,
                 bounds>>

\* handle_session: the policy holds; one row per change of the held summary
HoldBug ==
  /\ pc["loop"] = "lanes" /\ overlay # 0 /\ raised[overlay] \notin Approved \cup Ruled
  /\ Goto("loop", "idle")
  /\ held' = Text(overlay)
  /\ holdRows' = IF held = None THEN holdRows \cup {overlay} ELSE holdRows
  /\ heldOcc' = heldOcc \cup {overlay}
  /\ UNCHANGED <<agent, overlay, policy, snap, latch, fired, copy, plan, out, rows, landed,
                 sends, bounds>>
Hold ==
  /\ pc["loop"] = "lanes" /\ overlay # 0 /\ raised[overlay] \notin Approved \cup Ruled
  /\ Goto("loop", "idle")
  /\ held' = Text(overlay)
  /\ holdRows' = IF held # Text(overlay) THEN holdRows \cup {overlay} ELSE holdRows
  /\ heldOcc' = heldOcc \cup {overlay}
  /\ UNCHANGED <<agent, overlay, policy, snap, latch, fired, copy, plan, out, rows, landed,
                 sends, bounds>>

\* legacy_rule_auto_approve, once per needs-you transition of an unsupervised lane
RuleFires ==
  /\ pc["rule"] = "idle" /\ overlay \notin fired \cup {0} /\ ~snap
  /\ fired' = fired \cup {overlay}
  /\ IF raised[overlay] \in Ruled THEN Begin("rule", overlay, "latch")
                                  ELSE UNCHANGED <<pc, plan>>
  /\ UNCHANGED <<agent, overlay, policy, snap, latch, held, copy, out, audit, history,
                 bounds>>

\* agent.answer: the client names the dialog it shows
HumanAnswers ==
  /\ HumanToo /\ pc["human"] = "idle" /\ overlay # 0
  /\ Begin("human", overlay, "capture")
  /\ UNCHANGED <<agent, daemon, out, audit, history, bounds>>

----------------------------------------------------------------------------
(* One attempt *)

Outcome(a, o) == out' = [out EXCEPT ![a] = o]

\* verified_send: is the same summary under cooldown in this window?
LatchCheckBug(a) ==
  /\ pc[a] = "latch" /\ Goto(a, "capture") /\ UNCHANGED out
  /\ UNCHANGED <<agent, daemon, plan, audit, history, bounds>>
LatchCheck(a) ==
  /\ pc[a] = "latch"
  /\ IF latch = Text(plan[a]) THEN Goto(a, "finish") /\ Outcome(a, "skipped")
                              ELSE Goto(a, "capture") /\ UNCHANGED out
  /\ UNCHANGED <<agent, daemon, plan, audit, history, bounds>>

\* the fresh capture must show a dialog of the same summary
Matches(a) == shown # 0 /\ Text(shown) = Text(plan[a])
Capture(a) ==
  /\ pc[a] = "capture" /\ Matches(a) /\ Goto(a, "send")
  /\ UNCHANGED <<agent, daemon, plan, out, audit, history, bounds>>

\* it does not: skipped; agent.answer reports it and corrects the overlay
Changed(a) ==
  /\ pc[a] = "capture" /\ ~Matches(a) /\ Goto(a, "finish") /\ Outcome(a, "skipped")
  /\ overlay' = IF a = "human" THEN shown ELSE overlay
  /\ UNCHANGED <<agent, policy, snap, latch, held, fired, copy, plan, audit, history,
                 bounds>>

\* the capture fails or times out, or the backend refuses the keys
Fault(a) ==
  /\ pc[a] \in {"capture", "send"} /\ Goto(a, "finish") /\ Outcome(a, "skipped")
  /\ faults < MaxFaults /\ faults' = faults + 1
  /\ UNCHANGED <<agent, daemon, plan, audit, history, toggles, crashes>>

\* the keys answer whatever the agent waits for by now
Send(a) ==
  /\ pc[a] = "send" /\ Goto(a, "record") /\ Outcome(a, "sent")
  /\ cur' = 0
  /\ IF a = "human" THEN UNCHANGED <<landed, sends>>
                    ELSE landed' = landed \cup {<<plan[a], cur>>} /\ sends' = sends + 1
  /\ UNCHANGED <<raised, shown, daemon, plan, audit, heldOcc, bounds>>

\* verified_send latches the summary; agent.answer does not
Record(a) ==
  /\ pc[a] = "record" /\ Goto(a, "finish")
  /\ latch' = IF a = "human" THEN latch ELSE Text(plan[a])
  /\ UNCHANGED <<agent, overlay, policy, snap, held, fired, copy, plan, out, audit,
                 history, bounds>>

\* finish: the audit row of the attempt
FinishBug(a) ==
  /\ pc[a] = "finish" /\ Begin(a, 0, "idle") /\ Outcome(a, "skipped")
  /\ rows' = IF a = "loop" /\ out[a] = "sent" THEN rows + 1 ELSE rows
  /\ UNCHANGED <<agent, daemon, holdRows, history, bounds>>
Finish(a) ==
  /\ pc[a] = "finish" /\ Begin(a, 0, "idle") /\ Outcome(a, "skipped")
  /\ rows' = IF a # "human" /\ out[a] = "sent" THEN rows + 1 ELSE rows
  /\ UNCHANGED <<agent, daemon, holdRows, history, bounds>>

Attempt(a) ==
  LatchCheck(a) \/ Capture(a) \/ Changed(a) \/ Fault(a) \/ Send(a) \/ Record(a) \/ Finish(a)
Loop == LoopTick \/ LoopRefresh \/ NoDialog \/ Answer \/ Hold \/ Attempt("loop")

Next ==
  \/ \E d \in Dialogs : Raise(d)
  \/ Repaint \/ Overlay \/ CooldownEnds \/ Toggle \/ Crash
  \/ Loop
  \/ RuleFires \/ Attempt("rule")
  \/ HumanAnswers \/ Attempt("human")

Spec == Init /\ [][Next]_vars
\* the loop ticks every two seconds, the overlay cache and the cooldown time out,
\* a started request runs to its end, and agents repaint
FairSpec ==
  /\ Spec
  /\ WF_vars(Loop) /\ WF_vars(Attempt("rule"))
  /\ WF_vars(Repaint) /\ WF_vars(Overlay) /\ WF_vars(CooldownEnds)
----------------------------------------------------------------------------
(* Properties *)

\* Automatic keys reach a dialog of the content they were decided for: never an
\* agent that waits for nothing, never another dialog (inject.rs: "Only an
\* unchanged dialog may receive the preselected keys").
OnTarget ==
  \A t \in landed : t[2] # 0 /\ raised[t[2]] = raised[t[1]]

\* docs/agent-supervision.md: a supervised lane opts out of the rule path, "so the
\* two paths never race".
NeverBoth == ~(pc["loop"] \in Sending /\ pc["rule"] \in Sending)

\* docs/agent-supervision.md: every attempted action writes exactly one row. No row is without
\* its keys, and the only keys without a row are those whose sender is about to write it, and
\* those of the loop and the rule that a crash of the daemon caught just there.
Writing == {a \in Actors \ {"human"} : pc[a] \in {"record", "finish"} /\ out[a] = "sent"}
SendsAudited ==
  /\ rows + Cardinality(Writing) <= sends
  /\ sends <= rows + Cardinality(Writing) + 2 * crashes

\* A dialog the policy holds has a row, or repeats the text of an earlier one that
\* has: nothing with another text was held between the two (handle_session: one row
\* per hold, not one per tick).
HoldsAudited ==
  \A k \in heldOcc \ holdRows :
    \E j \in holdRows : j < k /\ \A i \in heldOcc \cap j..k : Text(i) = Text(k)

\* A dialog the policy of a supervised lane answers does not wait for ever, even
\* right after another one of the same summary, a failed capture or refused keys.
Answered ==
  \A k \in 1..MaxRaised :
    cur = k /\ raised[cur] \in Approved /\ policy ~> cur # k \/ ~policy
=============================================================================
