----------------------------- MODULE TermStream -----------------------------
(***************************************************************************)
(* One terminal pane seen from the desktop: the forwarder numbers what the    *)
(* pane writes, agent.capture places a snapshot in that numbering, and the     *)
(* pane's task (term_watch) paints snapshots and applies the chunks that       *)
(* follow. Events are lost when a receiver lags, the daemon restarts under a   *)
(* pane that lives on, and the pane may die.                                 *)
(*                                                                         *)
(* An output of the pane is a number; a screen is the number of outputs it     *)
(* shows, as long as each was applied once and in order.                     *)
(***************************************************************************)
EXTENDS Integers, Sequences

CONSTANTS
  None,
  TRIES,        \* captures of one agent.capture (4 in the code)
  MaxOutputs,   \* bound: what the pane writes
  MaxUpsets,    \* bound: size changes, events dropped, restarts, deadlines of a pane that lives
  MaxOthers     \* bound: streams of other windows

ASSUME TermAssumption ==
  /\ TRIES \in Nat \ {0}
  /\ {MaxOutputs, MaxUpsets, MaxOthers} \subseteq Nat

VARIABLES
  alive, output,  \* the pane: what it has written
  \* the daemon
  nextGen,        \* NEXT_GENERATION
  entry,          \* of the window in the registry, with the output forwarded so far; or None
  \* agent.capture
  capture,        \* [at, tries, before, content]
  \* the pane's task
  frames,         \* on their way to it, oldest first
  task,           \* "poll", "live", "over"
  resync, cursor, \* cursor: stream_cursor
  spare,          \* last_unstable
  screen,
  \* history
  torn,           \* the screen missed or repeated an output
  rushed,         \* painted from a capture that was not stable
  reused,         \* a restarted daemon gave its stream a generation the pane's task knew
  unheard,        \* no output or size came after the last loss nobody reported
  upsets, others

pane == <<alive, output>>
daemonStream == <<nextGen, entry, reused>>
paneTask == <<task, resync, cursor, spare, screen, torn, rushed>>
termCounts == <<upsets, others>>
termVars == <<pane, daemonStream, capture, frames, paneTask, unheard, termCounts>>

Cursors == [gen : Nat, seq : Nat]
FrameKinds == {"chunk", "grid", "closed", "lagged"}
CursorOf(e) == IF e = None THEN None ELSE [gen |-> e.gen, seq |-> e.seq]
Between == [at |-> "before", tries |-> 0, before |-> None, content |-> 0]

TermTypeOK ==
  /\ {alive, resync, torn, rushed, reused, unheard} \subseteq BOOLEAN
  /\ {output, nextGen, screen} \subseteq Nat
  /\ entry \in {None} \cup [gen : Nat, seq : Nat, sent : Nat]
  /\ capture \in [at : {"before", "pane", "after"}, tries : 0..TRIES,
                  before : {None} \cup Cursors, content : Nat]
  /\ frames \in Seq([kind : FrameKinds, gen : Nat, seq : Nat, shows : Nat])
  /\ task \in {"poll", "live", "over"} /\ cursor \in Cursors
  /\ spare \in {None} \cup [cursor : {None} \cup Cursors, content : Nat]

\* term_watch's call has opened the stream; the repaint is to come
TermInit ==
  /\ alive = TRUE /\ output = 0
  /\ \E g \in 0..MaxOthers :
       /\ nextGen = g + 1 /\ entry = [gen |-> g, seq |-> 0, sent |-> 0]
       /\ others = g
  /\ capture = Between /\ frames = <<>> /\ task = "poll" /\ resync = FALSE
  /\ cursor = [gen |-> 0, seq |-> 0] /\ spare = None /\ screen = 0
  /\ torn = FALSE /\ rushed = FALSE /\ reused = FALSE /\ unheard = FALSE
  /\ upsets = 0

Upset == upsets < MaxUpsets /\ upsets' = upsets + 1
----------------------------------------------------------------------------
(* The pane and its stream *)

PaneWrites ==
  /\ alive /\ output < MaxOutputs /\ output' = output + 1
  /\ UNCHANGED <<alive, daemonStream, capture, frames, paneTask, unheard, termCounts>>

Die ==
  /\ alive /\ alive' = FALSE
  /\ UNCHANGED <<output, daemonStream, capture, frames, paneTask, unheard, termCounts>>

\* frames of a pane that nobody shows are dropped
Emit(kind, e) ==
  /\ frames' = IF task = "over" THEN frames
               ELSE Append(frames, [kind |-> kind, gen |-> e.gen, seq |-> e.seq, shows |-> e.sent])
  /\ unheard' = (unheard /\ kind = "closed")

Forward ==
  /\ entry # None /\ entry.sent < output
  /\ entry' = [entry EXCEPT !.seq = @ + 1, !.sent = @ + 1]
  /\ Emit("chunk", entry')
  /\ UNCHANGED <<pane, nextGen, capture, reused, paneTask, termCounts>>

ForwardGrid ==
  /\ entry # None /\ Upset
  /\ entry' = [entry EXCEPT !.seq = @ + 1]
  /\ Emit("grid", entry')
  /\ UNCHANGED <<pane, nextGen, capture, reused, paneTask, others>>

\* the forwarder's EOF
Eof ==
  /\ ~alive /\ entry # None /\ entry.sent = output
  /\ entry' = None /\ Emit("closed", entry)
  /\ UNCHANGED <<pane, nextGen, capture, reused, paneTask, termCounts>>

OtherWatch ==
  /\ others < MaxOthers /\ others' = others + 1 /\ nextGen' = nextGen + 1
  /\ UNCHANGED <<pane, entry, capture, reused, frames, paneTask, unheard, upsets>>

\* the daemon dies with the events it had not written; the client's next call will find out
Restart ==
  /\ Upset
  /\ entry' = None /\ nextGen' = 0 /\ others' = 0
  /\ \E n \in 0..Len(frames) : frames' = SubSeq(frames, 1, n)
  /\ capture' = Between /\ unheard' = TRUE
  /\ UNCHANGED <<pane, paneTask, reused>>

\* Inner::reconnect replays the watch, which opens a stream of what comes from now on
Rewatch ==
  /\ task # "over" /\ alive /\ entry = None
  /\ entry' = [gen |-> nextGen, seq |-> 0, sent |-> output] /\ nextGen' = nextGen + 1
  /\ reused' = (reused \/ nextGen = cursor.gen \/ \E i \in DOMAIN frames : frames[i].gen = nextGen)
  /\ UNCHANGED <<pane, capture, frames, paneTask, unheard, termCounts>>
----------------------------------------------------------------------------
(* Lost events *)

Without(s, i) == SubSeq(s, 1, i - 1) \o SubSeq(s, i + 1, Len(s))

\* the connection's forwarder lags behind the broadcast channel: RecvError::Lagged is only traced
DaemonLags ==
  /\ Upset
  /\ \E i \in DOMAIN frames :
       /\ frames[i].kind # "lagged"
       /\ frames' = Without(frames, i)
       /\ unheard' = (unheard \/ \A j \in DOMAIN frames : j > i => frames[j].kind = "closed")
  /\ UNCHANGED <<pane, daemonStream, capture, paneTask, others>>

\* the client's demultiplexer, or the pane's route, lags
ClientLags ==
  /\ Upset
  /\ \E i \in DOMAIN frames : frames' = [frames EXCEPT ![i].kind = "lagged"]
  /\ UNCHANGED <<pane, daemonStream, capture, paneTask, unheard, others>>
----------------------------------------------------------------------------
(* agent.capture with include_state, in poll_capture *)

Polling == task = "poll"
CaptureKeeps == UNCHANGED <<pane, daemonStream, frames, unheard, termCounts>>

CaptureBefore ==
  /\ Polling /\ capture.at = "before"
  /\ capture' = [capture EXCEPT !.at = "pane", !.before = CursorOf(entry)]
  /\ CaptureKeeps /\ UNCHANGED paneTask

CapturePane ==
  /\ Polling /\ capture.at = "pane"
  /\ capture' = IF alive THEN [capture EXCEPT !.at = "after", !.content = output] ELSE Between
  /\ CaptureKeeps /\ UNCHANGED paneTask

\* capture_resync's end: term_watch and its task give up without a frame or a cursor
Repaint(frame) ==
  IF frame.cursor = None
  THEN task' = "over" /\ UNCHANGED <<resync, cursor, spare, screen, torn>>
  ELSE /\ task' = "live" /\ resync' = FALSE /\ cursor' = frame.cursor /\ spare' = None
       /\ screen' = frame.content /\ torn' = FALSE

\* the 8 ms let the stream deliver what tmux had applied when the capture ran
CaptureUnchecked ==
  /\ Polling /\ capture.at = "after" /\ (entry # None => entry.sent >= capture.content)
  /\ Repaint([cursor |-> CursorOf(entry), content |-> capture.content])
  /\ capture' = Between /\ rushed' = FALSE
  /\ CaptureKeeps
CaptureAfter ==
  /\ Polling /\ capture.at = "after" /\ (entry # None => entry.sent >= capture.content)
  /\ LET after == CursorOf(entry)
         frame == [cursor |-> after, content |-> capture.content]
     IN \/ /\ capture.before = after
           /\ Repaint(frame) /\ capture' = Between /\ rushed' = FALSE
        \/ /\ capture.before # after /\ capture.tries + 1 < TRIES
           /\ capture' = [Between EXCEPT !.tries = capture.tries + 1] /\ UNCHANGED paneTask
        \/ /\ capture.before # after /\ capture.tries + 1 = TRIES
           /\ capture' = Between /\ spare' = frame
           /\ UNCHANGED <<task, resync, cursor, screen, torn, rushed>>
  /\ CaptureKeeps

\* RESYNC_DEADLINE: the last unstable frame, if there is one
Deadline ==
  /\ Polling
  /\ \/ alive /\ Upset
     \/ ~alive /\ UNCHANGED upsets
  /\ IF spare = None THEN task' = "over" /\ UNCHANGED <<resync, cursor, spare, screen, torn, rushed>>
                     ELSE Repaint(spare) /\ rushed' = TRUE
  /\ capture' = Between
  /\ UNCHANGED <<pane, daemonStream, frames, unheard, others>>
----------------------------------------------------------------------------
(* The pane's task *)

Stale(f) == f.gen = cursor.gen /\ f.seq <= cursor.seq
Contiguous(f) == f.gen = cursor.gen /\ f.seq = cursor.seq + 1
AtCursor(f) == cursor' = [gen |-> f.gen, seq |-> f.seq] /\ resync' = FALSE

OnChunkDrops(f) ==
  \/ ~Contiguous(f) /\ UNCHANGED <<cursor, resync, screen, torn>>
  \/ Contiguous(f) /\ AtCursor(f) /\ screen' = f.shows /\ torn' = (torn \/ f.shows # screen + 1)
OnChunk(f) ==
  \/ Stale(f) /\ UNCHANGED <<cursor, resync, screen, torn>>
  \/ Contiguous(f) /\ AtCursor(f) /\ screen' = f.shows /\ torn' = (torn \/ f.shows # screen + 1)
  \/ ~Stale(f) /\ ~Contiguous(f) /\ resync' = TRUE /\ UNCHANGED <<cursor, screen, torn>>
OnGrid(f) ==
  /\ \/ Contiguous(f) /\ AtCursor(f)
     \/ ~Contiguous(f) /\ resync' = TRUE /\ UNCHANGED cursor
  /\ UNCHANGED <<screen, torn>>

Receive ==
  /\ task = "live" /\ frames # <<>> /\ frames' = Tail(frames)
  /\ LET f == Head(frames)
     IN \/ f.kind = "chunk" /\ OnChunk(f) /\ UNCHANGED task
        \/ f.kind = "grid" /\ OnGrid(f) /\ UNCHANGED task
        \/ f.kind = "lagged" /\ resync' = TRUE /\ UNCHANGED <<task, cursor, screen, torn>>
        \/ /\ f.kind = "closed" /\ task' = IF f.gen = cursor.gen THEN "over" ELSE task
           /\ UNCHANGED <<resync, cursor, screen, torn>>
  /\ UNCHANGED <<pane, daemonStream, capture, spare, rushed, unheard, termCounts>>

\* the ticker, RESYNC_RETRY after the last repaint
ResyncTick ==
  /\ task = "live" /\ resync /\ task' = "poll" /\ spare' = None
  /\ UNCHANGED <<pane, daemonStream, capture, frames, resync, cursor, screen, torn, rushed, unheard, termCounts>>

\* the task ends, or the pane is closed: agent.watch_bytes with on = false
Unwatch ==
  /\ task' = "over" /\ frames' = <<>> /\ entry' = None /\ capture' = Between
  /\ task = "over" => entry # None
  /\ UNCHANGED <<pane, nextGen, resync, cursor, spare, screen, torn, rushed, reused, unheard, termCounts>>

CaptureStep == CaptureBefore \/ CapturePane \/ CaptureAfter
TermNext ==
  \/ PaneWrites \/ Die \/ Forward \/ ForwardGrid \/ Eof \/ OtherWatch \/ Restart \/ Rewatch
  \/ DaemonLags \/ ClientLags \/ CaptureStep \/ Deadline \/ Receive \/ ResyncTick \/ Unwatch
TermSpec == TermInit /\ [][TermNext]_termVars
\* tasks that can run do, calls return, timers fire, the client reconnects
TermFairSpec ==
  /\ TermSpec /\ WF_termVars(Forward) /\ WF_termVars(Eof) /\ WF_termVars(Rewatch)
  /\ WF_termVars(CaptureStep) /\ WF_termVars(~alive /\ Deadline)
  /\ WF_termVars(Receive) /\ WF_termVars(ResyncTick)
----------------------------------------------------------------------------
(* Properties *)

\* docs/protocol.md:162, "A sequenced client must only resume with stream chunks after the
\* checkpoint cursor": a pane on show never misses and never repeats an output, whatever was
\* written, lost or repainted in between.
ScreenExact == task = "live" => ~torn
\* The same but for what follows a frame that never settled, or a daemon that
\* came back with the generation the pane had.
ScreenFaithful == ~rushed /\ ~reused => ScreenExact

\* The screen catches up with the pane: every loss that something follows is noticed and repaired,
\* and a pane that died is closed.
Shown == alive /\ task = "live" /\ screen = output
CatchesUp == <>[](task = "over" \/ Shown \/ rushed \/ reused \/ unheard)
=============================================================================
