-------------------------- MODULE TermStreamProofs --------------------------
(***************************************************************************)
(* Theorems about TermStream, for any numbers of outputs, tries, upsets and   *)
(* other windows. A frame continues the one before it, and the entry, the      *)
(* captures and the cursor of a pane on show are points of one numbering, as   *)
(* long as no generation was given out twice. The order of the frames on their  *)
(* way plays no part, so losing any of them changes nothing.                  *)
(***************************************************************************)
EXTENDS TermStream, TLAPS, SequenceTheorems

Frame == [kind : FrameKinds, gen : Nat, seq : Nat, shows : Nat]
Data(f) == f.kind \in {"chunk", "grid"}
Continues(f, n) == f.shows = IF f.kind = "chunk" THEN n + 1 ELSE n

\* of the frames on their way, those of a sequence s
Chained(s) ==
  \A i, j \in DOMAIN s :
    Data(s[i]) /\ Data(s[j]) /\ s[i].gen = s[j].gen /\ s[j].seq = s[i].seq + 1
      => Continues(s[j], s[i].shows)
\* the entry is the newest point of its generation
Behind(s) ==
  entry # None =>
    \A i \in DOMAIN s :
      Data(s[i]) /\ s[i].gen = entry.gen =>
        s[i].seq <= entry.seq /\ (s[i].seq = entry.seq => s[i].shows = entry.sent)
\* the cursor of a pane on show is a point, with the screen it has
OnShow == task = "live" /\ ~rushed
Followed(s) ==
  OnShow =>
    \A i \in DOMAIN s :
      Data(s[i]) /\ s[i].gen = cursor.gen /\ s[i].seq = cursor.seq + 1
        => Continues(s[i], screen)
Placed ==
  OnShow =>
    /\ ~torn
    /\ entry # None /\ entry.gen = cursor.gen =>
         cursor.seq <= entry.seq /\ (cursor.seq = entry.seq => screen = entry.sent)

Streamed == entry # None => entry.gen < nextGen /\ entry.sent <= output
\* a capture between two equal cursors shows what the entry has sent
Captured ==
  capture.before # None =>
    /\ capture.before.gen < nextGen
    /\ entry # None /\ capture.before.gen = entry.gen =>
         /\ capture.before.seq <= entry.seq
         /\ capture.before.seq = entry.seq /\ capture.at = "after" => capture.content >= entry.sent

Numbered == Chained(frames) /\ Behind(frames) /\ Followed(frames) /\ Placed
TermInv == TermTypeOK /\ Streamed /\ Captured /\ (~reused => Numbered)

\* t has no frame that s has not, but for lost ones
Fewer(t, s) == \A j \in DOMAIN t : ~Data(t[j]) \/ \E i \in DOMAIN s : t[j] = s[i]
-----------------------------------------------------------------------------
(* Sequences of frames *)

\* What holds of the frames on their way holds of any part of them.
LEMMA FewerKeeps ==
  ASSUME NEW s \in Seq(Frame), NEW t \in Seq(Frame), Fewer(t, s)
  PROVE  /\ Chained(s) => Chained(t)
         /\ Behind(s) => Behind(t)
         /\ Followed(s) => Followed(t)
<1>1. Chained(s) => Chained(t)
  BY DEF Fewer, Chained
<1>2. Behind(s) => Behind(t)
  BY DEF Fewer, Behind
<1>3. Followed(s) => Followed(t)
  BY DEF Fewer, Followed
<1> QED
  BY <1>1, <1>2, <1>3

\* Appending a frame.
LEMMA Appended ==
  ASSUME NEW s \in Seq(Frame), NEW f \in Frame
  PROVE  /\ Append(s, f) \in Seq(Frame)
         /\ \A j \in DOMAIN Append(s, f) :
              Append(s, f)[j] = f \/ \E i \in DOMAIN s : Append(s, f)[j] = s[i]
<1>1. Append(s, f) \in Seq(Frame)
  OBVIOUS
<1>2. ASSUME NEW j \in DOMAIN Append(s, f)
      PROVE  Append(s, f)[j] = f \/ \E i \in DOMAIN s : Append(s, f)[j] = s[i]
  <2>1. CASE j = Len(s) + 1
    BY <2>1
  <2>2. CASE j \in 1..Len(s)
    BY <2>2
  <2> QED
    BY <2>1, <2>2
<1> QED
  BY <1>1, <1>2

\* Taking the first frame.
LEMMA Taken ==
  ASSUME NEW s \in Seq(Frame), s # <<>>
  PROVE  /\ Tail(s) \in Seq(Frame) /\ Fewer(Tail(s), s)
         /\ Head(s) \in Frame /\ Head(s) = s[1] /\ 1 \in DOMAIN s
<1>1. Tail(s) \in Seq(Frame) /\ Head(s) = s[1] /\ 1 \in DOMAIN s
  OBVIOUS
<1>2. ASSUME NEW j \in DOMAIN Tail(s)
      PROVE  \E i \in DOMAIN s : Tail(s)[j] = s[i]
  <2>1. j + 1 \in DOMAIN s /\ Tail(s)[j] = s[j + 1]
    OBVIOUS
  <2> QED
    BY <2>1
<1> QED
  BY <1>1, <1>2 DEF Fewer

\* What a crash leaves.
LEMMA Prefix ==
  ASSUME NEW s \in Seq(Frame), NEW n \in 0..Len(s)
  PROVE  SubSeq(s, 1, n) \in Seq(Frame) /\ Fewer(SubSeq(s, 1, n), s)
<1>1. SubSeq(s, 1, n) \in Seq(Frame) /\ Len(SubSeq(s, 1, n)) = n
  OBVIOUS
<1>2. ASSUME NEW j \in 1..n
      PROVE  j \in DOMAIN s /\ SubSeq(s, 1, n)[j] = s[j]
  OBVIOUS
<1> QED
  BY <1>1, <1>2 DEF Fewer

\* Losing one frame.
LEMMA Dropped ==
  ASSUME NEW s \in Seq(Frame), NEW i \in DOMAIN s
  PROVE  Without(s, i) \in Seq(Frame) /\ Fewer(Without(s, i), s)
<1> DEFINE a == SubSeq(s, 1, i - 1)
           b == SubSeq(s, i + 1, Len(s))
<1>1. a \in Seq(Frame) /\ Len(a) = i - 1 /\ \A j \in 1..(i - 1) : a[j] = s[j]
  OBVIOUS
<1>2. b \in Seq(Frame) /\ Len(b) = Len(s) - i /\ \A j \in 1..(Len(s) - i) : b[j] = s[i + j]
  OBVIOUS
<1>3. Without(s, i) = a \o b
  BY DEF Without
<1> HIDE DEF a, b
<1>0. i \in Nat /\ i >= 1 /\ i <= Len(s) /\ Len(s) \in Nat /\ DOMAIN s = 1..Len(s)
  OBVIOUS
<1>4. /\ a \o b \in Seq(Frame) /\ Len(a \o b) = Len(s) - 1
      /\ \A j \in 1..(Len(s) - 1) :
           (a \o b)[j] = IF j <= i - 1 THEN a[j] ELSE b[j - (i - 1)]
  <2>1. Len(a) + Len(b) = Len(s) - 1
    BY <1>0, <1>1, <1>2
  <2>2. /\ a \o b \in Seq(Frame) /\ Len(a \o b) = Len(a) + Len(b)
        /\ \A j \in 1..(Len(a) + Len(b)) :
             (a \o b)[j] = IF j <= Len(a) THEN a[j] ELSE b[j - Len(a)]
    BY <1>1, <1>2, ConcatProperties, Zenon
  <2> QED
    BY <2>1, <2>2, <1>1
<1>5. ASSUME NEW j \in 1..(Len(s) - 1)
      PROVE  \E k \in DOMAIN s : (a \o b)[j] = s[k]
  <2>1. CASE j <= i - 1
    <3>1. j \in 1..(i - 1) /\ j \in DOMAIN s
      BY <1>0, <2>1
    <3> QED
      BY <3>1, <1>1, <1>4, <2>1
  <2>2. CASE ~(j <= i - 1)
    <3>1. j - (i - 1) \in 1..(Len(s) - i) /\ i + (j - (i - 1)) = j + 1 /\ j + 1 \in DOMAIN s
      BY <1>0, <2>2
    <3>2. (a \o b)[j] = b[j - (i - 1)]
      BY <1>4, <2>2
    <3>3. b[j - (i - 1)] = s[i + (j - (i - 1))]
      BY <1>2, <3>1
    <3> QED
      BY <3>1, <3>2, <3>3
  <2> QED
    BY <2>1, <2>2
<1>6. DOMAIN (a \o b) = 1..(Len(s) - 1)
  BY <1>4
<1> QED
  BY <1>3, <1>4, <1>5, <1>6 DEF Fewer

\* A frame whose receiver only learns that something was lost.
LEMMA Lagged ==
  ASSUME NEW s \in Seq(Frame), NEW i \in DOMAIN s
  PROVE  LET t == [s EXCEPT ![i].kind = "lagged"]
         IN t \in Seq(Frame) /\ Fewer(t, s)
<1> DEFINE t == [s EXCEPT ![i].kind = "lagged"]
<1>1. ASSUME NEW j \in DOMAIN s
      PROVE  t[j] \in Frame /\ (j = i => t[j].kind = "lagged") /\ (j # i => t[j] = s[j])
  <2>1. t[j] = IF j = i THEN [s[j] EXCEPT !.kind = "lagged"] ELSE s[j]
    OBVIOUS
  <2>2. s[j] \in Frame
    OBVIOUS
  <2> QED
    BY <2>1, <2>2 DEF Frame, FrameKinds
<1>2. DOMAIN t = DOMAIN s /\ t \in Seq(Frame)
  BY <1>1
<1> QED
  BY <1>1, <1>2 DEF Fewer, Data
-----------------------------------------------------------------------------
(* Types *)

Entry == [gen : Nat, seq : Nat, sent : Nat]
Spare == [cursor : {None} \cup Cursors, content : Nat]

\* The frames after an event of the stream.
LEMMA Emitted ==
  ASSUME frames \in Seq(Frame), NEW k \in FrameKinds, NEW e \in Entry, Emit(k, e)
  PROVE  /\ frames' \in Seq(Frame)
         /\ \A j \in DOMAIN frames' :
              \/ frames'[j] = [kind |-> k, gen |-> e.gen, seq |-> e.seq, shows |-> e.sent]
              \/ \E i \in DOMAIN frames : frames'[j] = frames[i]
<1> DEFINE f == [kind |-> k, gen |-> e.gen, seq |-> e.seq, shows |-> e.sent]
<1>1. f \in Frame
  BY DEF Frame, Entry
<1>2. CASE task = "over"
  BY <1>2 DEF Emit
<1>3. CASE task # "over"
  <2>1. frames' = Append(frames, f)
    BY <1>3 DEF Emit
  <2> HIDE DEF f
  <2>2. /\ Append(frames, f) \in Seq(Frame)
        /\ \A j \in DOMAIN Append(frames, f) :
             Append(frames, f)[j] = f \/ \E i \in DOMAIN frames : Append(frames, f)[j] = frames[i]
    BY <1>1, Appended
  <2>3. /\ frames' \in Seq(Frame)
        /\ \A j \in DOMAIN frames' : frames'[j] = f \/ \E i \in DOMAIN frames : frames'[j] = frames[i]
    BY <2>1, <2>2
  <2> QED
    BY <2>3 DEF f
<1> QED
  BY <1>2, <1>3

\* Every step keeps the types.
LEMMA TypeStep ==
  ASSUME TermTypeOK, TermNext
  PROVE  TermTypeOK'
<1> USE TermAssumption
<1>0. /\ frames \in Seq(Frame) /\ cursor \in Cursors /\ entry \in {None} \cup Entry
      /\ spare \in {None} \cup Spare /\ CursorOf(entry) \in {None} \cup Cursors
  BY DEF TermTypeOK, Frame, Entry, Spare, CursorOf, Cursors
<1>1. CASE PaneWrites
  BY <1>1 DEF TermTypeOK, PaneWrites, pane, daemonStream, paneTask, termCounts
<1>2. CASE Die
  BY <1>2 DEF TermTypeOK, Die, pane, daemonStream, paneTask, termCounts
<1>3. CASE Forward
  <2>1. entry' \in Entry /\ "chunk" \in FrameKinds
    <3>1. entry \in Entry /\ entry' = [entry EXCEPT !.seq = @ + 1, !.sent = @ + 1]
      BY <1>0, <1>3 DEF Forward
    <3>2. entry' = [gen |-> entry.gen, seq |-> entry.seq + 1, sent |-> entry.sent + 1]
      BY <3>1 DEF Entry
    <3> QED
      BY <3>1, <3>2 DEF Entry, FrameKinds
  <2>2. frames' \in Seq(Frame) /\ unheard' \in BOOLEAN
    BY <1>0, <1>3, <2>1, Emitted DEF Forward, Emit, TermTypeOK
  <2> QED
    BY <1>3, <2>1, <2>2 DEF TermTypeOK, Forward, pane, paneTask, termCounts, Entry, Frame
<1>4. CASE ForwardGrid
  <2>1. entry' \in Entry /\ "grid" \in FrameKinds
    BY <1>0, <1>4 DEF ForwardGrid, Entry, FrameKinds
  <2>2. frames' \in Seq(Frame) /\ unheard' \in BOOLEAN
    BY <1>0, <1>4, <2>1, Emitted DEF ForwardGrid, Emit, TermTypeOK
  <2> QED
    BY <1>4, <2>1, <2>2 DEF TermTypeOK, ForwardGrid, pane, paneTask, Entry, Frame
<1>5. CASE Eof
  <2>1. entry \in Entry /\ "closed" \in FrameKinds
    BY <1>0, <1>5 DEF Eof, FrameKinds
  <2>2. frames' \in Seq(Frame) /\ unheard' \in BOOLEAN
    BY <1>0, <1>5, <2>1, Emitted DEF Eof, Emit, TermTypeOK
  <2> QED
    BY <1>5, <2>2 DEF TermTypeOK, Eof, pane, paneTask, termCounts, Frame
<1>6. CASE OtherWatch
  BY <1>6 DEF TermTypeOK, OtherWatch, pane, paneTask
<1>7. CASE Restart
  <2>1. frames' \in Seq(Frame)
    BY <1>0, <1>7, Prefix DEF Restart
  <2> QED
    BY <1>7, <2>1 DEF TermTypeOK, Restart, Between, pane, paneTask, Frame
<1>8. CASE Rewatch
  BY <1>8 DEF TermTypeOK, Rewatch, pane, paneTask, termCounts
<1>9. CASE DaemonLags
  <2>1. frames' \in Seq(Frame) /\ unheard' \in BOOLEAN
    BY <1>0, <1>9, Dropped DEF DaemonLags, TermTypeOK
  <2> QED
    BY <1>9, <2>1 DEF TermTypeOK, DaemonLags, pane, daemonStream, paneTask, Frame
<1>10. CASE ClientLags
  <2>1. frames' \in Seq(Frame)
    BY <1>0, <1>10, Lagged DEF ClientLags
  <2> QED
    BY <1>10, <2>1 DEF TermTypeOK, ClientLags, pane, daemonStream, paneTask, Frame
<1>11. CASE CaptureBefore
  BY <1>0, <1>11 DEF TermTypeOK, CaptureBefore, CaptureKeeps, pane, daemonStream, paneTask, termCounts
<1>12. CASE CapturePane
  <2>1. capture' \in [at : {"before", "pane", "after"}, tries : 0..TRIES,
                      before : {None} \cup Cursors, content : Nat]
    <3>1. CASE alive
      BY <1>12, <3>1 DEF TermTypeOK, CapturePane
    <3>2. CASE ~alive
      BY <1>12, <3>2 DEF CapturePane, Between
    <3> QED
      BY <3>1, <3>2
  <2> QED
    BY <1>12, <2>1 DEF TermTypeOK, CapturePane, CaptureKeeps, pane, daemonStream, paneTask, termCounts
<1>13. CASE CaptureAfter
  <2> DEFINE frame == [cursor |-> CursorOf(entry), content |-> capture.content]
  <2>1. frame \in Spare
    BY <1>0 DEF TermTypeOK, Spare
  <2>2. /\ capture' \in [at : {"before", "pane", "after"}, tries : 0..TRIES,
                         before : {None} \cup Cursors, content : Nat]
    BY <1>13 DEF TermTypeOK, CaptureAfter, Between
  <2>3. CASE Repaint(frame) /\ rushed' = FALSE
    BY <1>13, <2>1, <2>2, <2>3 DEF TermTypeOK, CaptureAfter, CaptureKeeps, Repaint, Spare, pane, daemonStream, termCounts
  <2>4. CASE UNCHANGED paneTask
    BY <1>13, <2>2, <2>4 DEF TermTypeOK, CaptureAfter, CaptureKeeps, pane, daemonStream, paneTask, termCounts
  <2>5. CASE spare' = frame /\ UNCHANGED <<task, resync, cursor, screen, torn, rushed>>
    BY <1>13, <2>1, <2>2, <2>5 DEF TermTypeOK, CaptureAfter, CaptureKeeps, Spare, pane, daemonStream, termCounts
  <2> QED
    BY <1>13, <2>3, <2>4, <2>5 DEF CaptureAfter
<1>14. CASE Deadline
  <2>1. capture' \in [at : {"before", "pane", "after"}, tries : 0..TRIES,
                      before : {None} \cup Cursors, content : Nat]
    BY <1>14 DEF Deadline, Between
  <2>2. CASE spare = None
    BY <1>14, <2>1, <2>2 DEF TermTypeOK, Deadline, pane, daemonStream
  <2>3. CASE spare # None
    <3>1. /\ spare \in Spare /\ Repaint(spare) /\ rushed' = TRUE
          /\ UNCHANGED <<pane, daemonStream, frames, unheard>>
      BY <1>0, <1>14, <2>3 DEF Deadline
    <3>2. CASE spare.cursor = None
      BY <2>1, <3>1, <3>2 DEF TermTypeOK, Repaint, pane, daemonStream
    <3>3. CASE spare.cursor # None
      BY <2>1, <3>1, <3>3 DEF TermTypeOK, Repaint, Spare, pane, daemonStream
    <3> QED
      BY <3>2, <3>3
  <2> QED
    BY <2>2, <2>3
<1>15. CASE Receive
  <2>1. Tail(frames) \in Seq(Frame) /\ Head(frames) \in Frame
    BY <1>0, <1>15, Taken DEF Receive
  <2>2. frames' \in Seq(Frame) /\ cursor' \in Cursors /\ screen' \in Nat
        /\ {resync', torn'} \subseteq BOOLEAN /\ task' \in {"poll", "live", "over"}
    <3> DEFINE f == Head(frames)
    <3>1. frames' = Tail(frames) /\ task = "live"
      BY <1>15 DEF Receive
    <3>2. f \in Frame /\ [gen |-> f.gen, seq |-> f.seq] \in Cursors
      BY <2>1 DEF Frame, Cursors
    <3>3. CASE OnChunk(f) /\ UNCHANGED task
      BY <2>1, <3>1, <3>2, <3>3 DEF TermTypeOK, OnChunk, AtCursor, Frame
    <3>4. CASE OnGrid(f) /\ UNCHANGED task
      BY <2>1, <3>1, <3>2, <3>4 DEF TermTypeOK, OnGrid, AtCursor
    <3>5. CASE resync' = TRUE /\ UNCHANGED <<task, cursor, screen, torn>>
      BY <2>1, <3>1, <3>5 DEF TermTypeOK
    <3>6. CASE task' \in {task, "over"} /\ UNCHANGED <<resync, cursor, screen, torn>>
      BY <2>1, <3>1, <3>6 DEF TermTypeOK
    <3> QED
      BY <1>15, <3>3, <3>4, <3>5, <3>6 DEF Receive
  <2> QED
    BY <1>15, <2>2 DEF TermTypeOK, Receive, pane, daemonStream, termCounts, Frame
<1>16. CASE ResyncTick
  BY <1>16 DEF TermTypeOK, ResyncTick, pane, daemonStream, termCounts
<1>17. CASE Unwatch
  BY <1>17 DEF TermTypeOK, Unwatch, Between, pane, termCounts
<1> QED
  BY <1>1, <1>2, <1>3, <1>4, <1>5, <1>6, <1>7, <1>8, <1>9, <1>10, <1>11, <1>12, <1>13, <1>14,
     <1>15, <1>16, <1>17 DEF TermNext, CaptureStep

\* The pane's task starts with typed records.
LEMMA TypeInit ==
  ASSUME TermInit
  PROVE  TermTypeOK
<1>1. nextGen \in Nat /\ entry \in [gen : Nat, seq : Nat, sent : Nat]
  BY TermAssumption DEF TermInit
<1>2. capture \in [at : {"before", "pane", "after"}, tries : 0..TRIES,
                   before : {None} \cup Cursors, content : Nat]
  BY TermAssumption DEF TermInit, Between
<1>3. frames \in Seq([kind : FrameKinds, gen : Nat, seq : Nat, shows : Nat])
  BY DEF TermInit
<1>4. /\ alive = TRUE /\ resync = FALSE /\ torn = FALSE /\ rushed = FALSE
      /\ reused = FALSE /\ unheard = FALSE
  BY DEF TermInit
<1>5. {alive, resync, torn, rushed, reused, unheard} \subseteq BOOLEAN
  BY <1>4
<1>6. output = 0 /\ screen = 0 /\ cursor \in Cursors /\ spare = None /\ task = "poll"
  BY DEF TermInit, Cursors
<1> QED
  BY <1>1, <1>2, <1>3, <1>5, <1>6 DEF TermTypeOK

\* Whatever the terminal, its daemon and its client do, the records of the stream, the
\* captures and the task of the pane keep their types.
THEOREM TypeCorrect == TermSpec => []TermTypeOK
<1>1. TermInit => TermTypeOK
  BY TypeInit
<1>2. TermTypeOK /\ [TermNext]_termVars => TermTypeOK'
  <2> SUFFICES ASSUME TermTypeOK, [TermNext]_termVars
               PROVE  TermTypeOK'
    OBVIOUS
  <2>1. CASE TermNext
    BY <2>1, TypeStep
  <2>2. CASE UNCHANGED termVars
    BY <2>2 DEF TermTypeOK, termVars, pane, daemonStream, paneTask, termCounts
  <2> QED
    BY <2>1, <2>2
<1> QED
  BY <1>1, <1>2, PTL DEF TermSpec
-----------------------------------------------------------------------------
(* The numbering *)

\* The entry stays younger than the generations to come and has sent no more than was written; a
\* capture that lies between two equal cursors holds what the entry has sent.
LEMMA CaptureStepKeeps ==
  ASSUME TermTypeOK, Streamed, Captured, TermNext
  PROVE  Streamed' /\ Captured'
<1>0. /\ entry \in {None} \cup Entry /\ nextGen \in Nat /\ output \in Nat
      /\ capture.before \in {None} \cup Cursors /\ capture.content \in Nat
      /\ capture \in [at : {"before", "pane", "after"}, tries : 0..TRIES,
                      before : {None} \cup Cursors, content : Nat]
  BY DEF TermTypeOK, Entry
<1>1. CASE UNCHANGED <<entry, nextGen, output, capture>>
  BY <1>1 DEF Streamed, Captured
<1>2. CASE PaneWrites
  BY <1>0, <1>2 DEF PaneWrites, daemonStream, Streamed, Captured, Entry
<1>3. CASE Forward
  <2>1. /\ entry \in Entry /\ entry' = [entry EXCEPT !.seq = @ + 1, !.sent = @ + 1]
        /\ entry.sent < output /\ UNCHANGED <<nextGen, output, capture>>
    BY <1>0, <1>3 DEF Forward, pane
  <2>2. entry' = [gen |-> entry.gen, seq |-> entry.seq + 1, sent |-> entry.sent + 1]
    BY <2>1 DEF Entry
  <2>3. entry # None
    BY <1>3 DEF Forward
  <2> QED
    BY <1>0, <2>1, <2>2, <2>3 DEF Streamed, Captured, Entry, Cursors
<1>4. CASE ForwardGrid
  <2>1. /\ entry \in Entry /\ entry' = [entry EXCEPT !.seq = @ + 1] /\ entry # None
        /\ UNCHANGED <<nextGen, output, capture>>
    BY <1>0, <1>4 DEF ForwardGrid, pane
  <2>2. entry' = [gen |-> entry.gen, seq |-> entry.seq + 1, sent |-> entry.sent]
    BY <2>1 DEF Entry
  <2> QED
    BY <1>0, <2>1, <2>2 DEF Streamed, Captured, Entry, Cursors
<1>5. CASE Eof
  BY <1>5 DEF Eof, pane, Streamed, Captured
<1>6. CASE OtherWatch
  BY <1>0, <1>6 DEF OtherWatch, pane, Streamed, Captured, Entry, Cursors
<1>7. CASE capture' = Between /\ entry' = None
  BY <1>7 DEF Between, Streamed, Captured
<1>8. CASE Rewatch
  <2>1. /\ entry' = [gen |-> nextGen, seq |-> 0, sent |-> output] /\ nextGen' = nextGen + 1
        /\ UNCHANGED <<output, capture>>
    BY <1>8 DEF Rewatch, pane
  <2> QED
    BY <1>0, <2>1 DEF Streamed, Captured, Entry, Cursors
<1>9. CASE CaptureBefore
  <2>1. /\ capture' = [capture EXCEPT !.at = "pane", !.before = CursorOf(entry)]
        /\ UNCHANGED <<entry, nextGen, output>>
    BY <1>9 DEF CaptureBefore, CaptureKeeps, pane, daemonStream
  <2>2. capture'.before = CursorOf(entry) /\ capture'.at = "pane"
    BY <1>0, <2>1
  <2> QED
    BY <1>0, <2>1, <2>2 DEF Streamed, Captured, CursorOf, Entry
<1>10. CASE CapturePane
  <2>1. UNCHANGED <<entry, nextGen, output>>
    BY <1>10 DEF CapturePane, CaptureKeeps, pane, daemonStream
  <2>2. CASE alive
    <3>1. capture' = [capture EXCEPT !.at = "after", !.content = output]
      BY <1>10, <2>2 DEF CapturePane
    <3>2. capture'.before = capture.before /\ capture'.content = output
      BY <1>0, <3>1
    <3> QED
      BY <1>0, <2>1, <3>2 DEF Streamed, Captured, Entry, Cursors
  <2>3. CASE ~alive
    BY <1>10, <2>1, <2>3 DEF CapturePane, Between, Streamed, Captured
  <2> QED
    BY <2>2, <2>3
<1>11. CASE CaptureAfter
  <2>1. UNCHANGED <<entry, nextGen, output>> /\ capture'.before = None
    BY <1>11 DEF CaptureAfter, CaptureKeeps, Between, pane, daemonStream
  <2> QED
    BY <2>1 DEF Streamed, Captured
<1>12. CASE Deadline
  <2>1. UNCHANGED <<entry, nextGen, output>> /\ capture' = Between
    BY <1>12 DEF Deadline, pane, daemonStream
  <2> QED
    BY <2>1 DEF Streamed, Captured, Between
<1>13. CASE Die \/ DaemonLags \/ ClientLags \/ Receive \/ ResyncTick
  <2>1. UNCHANGED <<entry, nextGen, output, capture>>
    BY <1>13 DEF Die, DaemonLags, ClientLags, Receive, ResyncTick, pane, daemonStream
  <2> QED
    BY <1>1, <2>1
<1>14. CASE Restart \/ Unwatch
  <2>1. capture' = Between /\ entry' = None
    BY <1>14 DEF Restart, Unwatch
  <2> QED
    BY <1>7, <2>1
<1> QED
  BY <1>2, <1>3, <1>4, <1>5, <1>6, <1>8, <1>9, <1>10, <1>11, <1>12, <1>13, <1>14
     DEF TermNext, CaptureStep

\* The pane's task and its screen are not touched.
Undisturbed == UNCHANGED <<task, cursor, screen, torn, rushed>>

\* Frames are lost, or nothing happens that the numbering is about.
LEMMA LossKeeps ==
  ASSUME TermTypeOK, frames' \in Seq(Frame), Fewer(frames', frames),
         entry' \in {entry, None}, Undisturbed, Numbered
  PROVE  Numbered'
<1>0. frames \in Seq(Frame)
  BY DEF TermTypeOK, Frame
<1>1. Chained(frames') /\ Behind(frames') /\ Followed(frames')
  BY <1>0, FewerKeeps DEF Numbered
<1>2. Chained(frames)'
  BY <1>1 DEF Chained
<1>3. Behind(frames)'
  BY <1>1 DEF Behind
<1>4. Followed(frames)'
  BY <1>1 DEF Followed, OnShow, Undisturbed
<1>5. Placed'
  BY DEF Numbered, Placed, OnShow, Undisturbed
<1> QED
  BY <1>2, <1>3, <1>4, <1>5 DEF Numbered

\* A chunk or a size continues the numbering of its entry.
LEMMA ForwardKeeps ==
  ASSUME TermTypeOK, NEW k \in {"chunk", "grid"}, entry # None,
         entry' = [gen |-> entry.gen, seq |-> entry.seq + 1,
                   sent |-> IF k = "chunk" THEN entry.sent + 1 ELSE entry.sent],
         Emit(k, entry'), Undisturbed, Numbered
  PROVE  Numbered'
<1> DEFINE f == [kind |-> k, gen |-> entry.gen, seq |-> entry.seq + 1,
                 shows |-> IF k = "chunk" THEN entry.sent + 1 ELSE entry.sent]
<1>0. frames \in Seq(Frame) /\ entry \in Entry /\ cursor \in Cursors /\ screen \in Nat
  BY DEF TermTypeOK, Frame, Entry
<1>1. entry' \in Entry
  BY <1>0 DEF Entry
<1>2. [kind |-> k, gen |-> entry'.gen, seq |-> entry'.seq, shows |-> entry'.sent] = f
  OBVIOUS
<1>3. /\ frames' \in Seq(Frame)
      /\ \A j \in DOMAIN frames' : frames'[j] = f \/ \E i \in DOMAIN frames : frames'[j] = frames[i]
  BY <1>0, <1>1, <1>2, Emitted DEF FrameKinds
<1>4. /\ f.gen = entry.gen /\ f.seq = entry.seq + 1 /\ f.kind = k
      /\ f.shows = IF k = "chunk" THEN entry.sent + 1 ELSE entry.sent
  OBVIOUS
<1>5. /\ entry'.gen = entry.gen /\ entry'.seq = entry.seq + 1 /\ entry'.sent = f.shows
  BY <1>0 DEF Entry
<1>6. /\ entry.gen \in Nat /\ entry.seq \in Nat /\ entry.sent \in Nat
      /\ cursor.gen \in Nat /\ cursor.seq \in Nat
      /\ \A i \in DOMAIN frames : frames[i].gen \in Nat /\ frames[i].seq \in Nat /\ frames[i].shows \in Nat
  <2>1. \A i \in DOMAIN frames : frames[i] \in Frame
    BY <1>0
  <2>2. \A i \in DOMAIN frames : frames[i].gen \in Nat /\ frames[i].seq \in Nat /\ frames[i].shows \in Nat
    BY <2>1 DEF Frame
  <2> QED
    BY <1>0, <2>2 DEF Entry, Cursors
<1> HIDE DEF f
<1>7. Chained(frames)'
  <2> SUFFICES ASSUME NEW i \in DOMAIN frames', NEW j \in DOMAIN frames',
                      Data(frames'[i]), Data(frames'[j]), frames'[i].gen = frames'[j].gen,
                      frames'[j].seq = frames'[i].seq + 1
               PROVE  Continues(frames'[j], frames'[i].shows)
    BY DEF Chained
  <2>1. CASE frames'[i] = f /\ frames'[j] = f
    BY <1>4, <1>6, <2>1
  <2>2. CASE frames'[i] = f /\ \E n \in DOMAIN frames : frames'[j] = frames[n]
    BY <1>4, <1>6, <2>2 DEF Numbered, Behind
  <2>3. CASE frames'[j] = f /\ \E n \in DOMAIN frames : frames'[i] = frames[n]
    <3>1. PICK n \in DOMAIN frames : frames'[i] = frames[n]
      BY <2>3
    <3>2. frames[n].gen = entry.gen /\ frames[n].seq = entry.seq /\ Data(frames[n])
      BY <1>4, <1>6, <2>3, <3>1
    <3>3. frames[n].shows = entry.sent
      BY <3>2 DEF Numbered, Behind
    <3> QED
      BY <1>4, <2>3, <3>1, <3>3 DEF Continues
  <2>4. CASE /\ \E n \in DOMAIN frames : frames'[i] = frames[n]
             /\ \E n \in DOMAIN frames : frames'[j] = frames[n]
    BY <2>4 DEF Numbered, Chained
  <2> QED
    BY <1>3, <2>1, <2>2, <2>3, <2>4
<1>8. Behind(frames)'
  <2> SUFFICES ASSUME NEW i \in DOMAIN frames', Data(frames'[i]), frames'[i].gen = entry'.gen
               PROVE  frames'[i].seq <= entry'.seq
                      /\ (frames'[i].seq = entry'.seq => frames'[i].shows = entry'.sent)
    BY DEF Behind
  <2>1. CASE frames'[i] = f
    BY <1>4, <1>5, <1>6, <2>1
  <2>2. CASE \E n \in DOMAIN frames : frames'[i] = frames[n]
    BY <1>5, <1>6, <2>2 DEF Numbered, Behind
  <2> QED
    BY <1>3, <2>1, <2>2
<1>9. Followed(frames)'
  <2> SUFFICES ASSUME OnShow, NEW i \in DOMAIN frames', Data(frames'[i]),
                      frames'[i].gen = cursor.gen, frames'[i].seq = cursor.seq + 1
               PROVE  Continues(frames'[i], screen)
    BY DEF Followed, OnShow, Undisturbed
  <2>1. CASE frames'[i] = f
    <3>1. cursor.gen = entry.gen /\ cursor.seq = entry.seq
      BY <1>4, <1>6, <2>1
    <3>2. screen = entry.sent
      BY <3>1 DEF Numbered, Placed
    <3> QED
      BY <1>4, <2>1, <3>2 DEF Continues
  <2>2. CASE \E n \in DOMAIN frames : frames'[i] = frames[n]
    BY <2>2 DEF Numbered, Followed
  <2> QED
    BY <1>3, <2>1, <2>2
<1>10. Placed'
  BY <1>5, <1>6 DEF Numbered, Placed, OnShow, Undisturbed
<1> QED
  BY <1>7, <1>8, <1>9, <1>10 DEF Numbered

\* A chunk or a size is applied only if it continues the cursor.
LEMMA ReceiveKeeps ==
  ASSUME TermTypeOK, Numbered, Receive
  PROVE  Numbered'
<1> DEFINE f == Head(frames)
<1>0. frames \in Seq(Frame) /\ cursor \in Cursors /\ screen \in Nat /\ task = "live"
  BY DEF TermTypeOK, Frame, Receive
<1>1. /\ frames' = Tail(frames) /\ frames' \in Seq(Frame) /\ Fewer(frames', frames)
      /\ f \in Frame /\ f = frames[1] /\ 1 \in DOMAIN frames
  BY <1>0, Taken DEF Receive
<1>2. /\ entry' = entry /\ rushed' = rushed
  BY DEF Receive, daemonStream
<1> HIDE DEF f
<1>3. CASE Undisturbed
  BY <1>1, <1>2, <1>3, LossKeeps
<1>4. CASE task' = "over"
  <2>1. Chained(frames') /\ Behind(frames')
    BY <1>0, <1>1, FewerKeeps DEF Numbered
  <2> QED
    BY <1>2, <1>4, <2>1 DEF Numbered, Chained, Behind, Followed, Placed, OnShow
<1>5. CASE /\ Data(f) /\ Contiguous(f) /\ task' = task
           /\ cursor' = [gen |-> f.gen, seq |-> f.seq]
           /\ f.kind = "chunk" => screen' = f.shows /\ torn' = (torn \/ f.shows # screen + 1)
           /\ f.kind = "grid" => UNCHANGED <<screen, torn>>
  <2>1. f.gen = cursor.gen /\ f.seq = cursor.seq + 1
    BY <1>5 DEF Contiguous
  <2>2. OnShow => Continues(f, screen) /\ ~torn
    BY <1>1, <1>5, <2>1 DEF Numbered, Followed, Placed
  <2>3. OnShow => screen' = f.shows /\ ~torn'
    BY <1>5, <2>2 DEF Continues, Data
  <2>4. Chained(frames') /\ Behind(frames')
    BY <1>0, <1>1, FewerKeeps DEF Numbered
  <2>5. OnShow' => OnShow
    BY <1>2, <1>5 DEF OnShow
  <2>6. cursor'.gen = f.gen /\ cursor'.seq = f.seq
    BY <1>5
  <2>7. Followed(frames)'
    <3> SUFFICES ASSUME OnShow', NEW i \in DOMAIN frames', Data(frames'[i]),
                        frames'[i].gen = f.gen, frames'[i].seq = f.seq + 1
                 PROVE  Continues(frames'[i], f.shows)
      BY <2>3, <2>5, <2>6 DEF Followed
    <3>1. PICK n \in DOMAIN frames : frames'[i] = frames[n]
      BY <1>1 DEF Fewer
    <3> QED
      BY <1>1, <1>5, <3>1 DEF Numbered, Chained
  <2>8. Placed'
    <3> SUFFICES ASSUME OnShow'
                 PROVE  /\ ~torn'
                        /\ entry # None /\ entry.gen = f.gen =>
                             f.seq <= entry.seq /\ (f.seq = entry.seq => f.shows = entry.sent)
      BY <1>2, <2>3, <2>5, <2>6 DEF Placed
    <3> QED
      BY <1>1, <1>5, <2>3, <2>5 DEF Numbered, Behind
  <2> QED
    BY <1>2, <2>4, <2>7, <2>8 DEF Numbered, Chained, Behind
<1>6. CASE f.kind = "chunk" /\ OnChunk(f) /\ UNCHANGED task
  <2>1. CASE Contiguous(f) /\ AtCursor(f) /\ screen' = f.shows /\ torn' = (torn \/ f.shows # screen + 1)
    BY <1>5, <1>6, <2>1 DEF Data, AtCursor
  <2>2. CASE UNCHANGED <<cursor, screen, torn>>
    BY <1>2, <1>3, <1>6, <2>2 DEF Undisturbed
  <2> QED
    BY <1>6, <2>1, <2>2 DEF OnChunk
<1>7. CASE f.kind = "grid" /\ OnGrid(f) /\ UNCHANGED task
  <2>1. CASE Contiguous(f) /\ AtCursor(f)
    BY <1>5, <1>7, <2>1 DEF OnGrid, Data, AtCursor
  <2>2. CASE UNCHANGED cursor
    BY <1>2, <1>3, <1>7, <2>2 DEF Undisturbed, OnGrid
  <2> QED
    BY <1>7, <2>1, <2>2 DEF OnGrid
<1>8. CASE UNCHANGED <<task, cursor, screen, torn>>
  BY <1>2, <1>3, <1>8 DEF Undisturbed
<1>9. CASE task' \in {task, "over"} /\ UNCHANGED <<cursor, screen, torn>>
  BY <1>4, <1>8, <1>9
<1> QED
  BY <1>6, <1>7, <1>8, <1>9 DEF Receive, f

\* A generation that came back is not forgotten.
LEMMA ReusedStays ==
  ASSUME TermTypeOK, TermNext, reused
  PROVE  reused'
BY DEF TermTypeOK, TermNext, CaptureStep, PaneWrites, Die, Forward, ForwardGrid, Eof, OtherWatch, Restart,
       Rewatch, DaemonLags, ClientLags, CaptureBefore, CapturePane, CaptureAfter, CaptureKeeps, Deadline,
       Receive, ResyncTick, Unwatch, daemonStream

\* Every step keeps the numbering, as long as no generation comes back.
LEMMA NumberedStep ==
  ASSUME TermTypeOK, Streamed, Captured, Numbered, TermNext, ~reused'
  PROVE  Numbered'
<1>0. frames \in Seq(Frame) /\ entry \in {None} \cup Entry /\ Fewer(frames, frames)
  BY DEF TermTypeOK, Frame, Entry, Fewer
<1>1. CASE UNCHANGED <<frames, entry>> /\ Undisturbed
  BY <1>0, <1>1, LossKeeps
<1>2. CASE PaneWrites \/ Die \/ OtherWatch \/ CaptureBefore \/ CapturePane
  <2>1. UNCHANGED <<frames, entry>> /\ Undisturbed
    BY <1>2 DEF PaneWrites, Die, OtherWatch, CaptureBefore, CapturePane, CaptureKeeps, daemonStream,
                paneTask, Undisturbed
  <2> QED
    BY <1>1, <2>1
<1>3. CASE Forward
  <2>1. /\ entry # None /\ entry' = [entry EXCEPT !.seq = @ + 1, !.sent = @ + 1]
        /\ Emit("chunk", entry') /\ Undisturbed
    BY <1>3 DEF Forward, paneTask, Undisturbed
  <2>2. entry' = [gen |-> entry.gen, seq |-> entry.seq + 1, sent |-> entry.sent + 1]
    BY <1>0, <2>1 DEF Entry
  <2> QED
    BY <2>1, <2>2, ForwardKeeps
<1>4. CASE ForwardGrid
  <2>1. /\ entry # None /\ entry' = [entry EXCEPT !.seq = @ + 1]
        /\ Emit("grid", entry') /\ Undisturbed
    BY <1>4 DEF ForwardGrid, paneTask, Undisturbed
  <2>2. entry' = [gen |-> entry.gen, seq |-> entry.seq + 1, sent |-> entry.sent]
    BY <1>0, <2>1 DEF Entry
  <2> QED
    BY <2>1, <2>2, ForwardKeeps
<1>5. CASE Eof
  <2>1. entry \in Entry /\ Emit("closed", entry) /\ entry' = None /\ Undisturbed
    BY <1>0, <1>5 DEF Eof, paneTask, Undisturbed
  <2>2. frames' \in Seq(Frame) /\ Fewer(frames', frames)
    BY <1>0, <2>1, Emitted DEF FrameKinds, Fewer, Data
  <2> QED
    BY <2>1, <2>2, LossKeeps
<1>6. CASE Restart
  <2>1. frames' \in Seq(Frame) /\ Fewer(frames', frames)
    BY <1>0, <1>6, Prefix DEF Restart
  <2>2. entry' = None /\ Undisturbed
    BY <1>6 DEF Restart, paneTask, Undisturbed
  <2> QED
    BY <2>1, <2>2, LossKeeps
<1>7. CASE Rewatch
  <2>1. /\ entry' = [gen |-> nextGen, seq |-> 0, sent |-> output]
        /\ nextGen # cursor.gen /\ \A i \in DOMAIN frames : frames[i].gen # nextGen
        /\ UNCHANGED frames /\ Undisturbed
    BY <1>7 DEF Rewatch, paneTask, Undisturbed
  <2>2. entry'.gen = nextGen
    BY <2>1
  <2> QED
    BY <2>1, <2>2 DEF Numbered, Chained, Behind, Followed, Placed, OnShow, Undisturbed
<1>8. CASE DaemonLags
  <2>1. frames' \in Seq(Frame) /\ Fewer(frames', frames)
    BY <1>0, <1>8, Dropped DEF DaemonLags
  <2>2. entry' = entry /\ Undisturbed
    BY <1>8 DEF DaemonLags, daemonStream, paneTask, Undisturbed
  <2> QED
    BY <2>1, <2>2, LossKeeps
<1>9. CASE ClientLags
  <2>1. frames' \in Seq(Frame) /\ Fewer(frames', frames)
    BY <1>0, <1>9, Lagged DEF ClientLags
  <2>2. entry' = entry /\ Undisturbed
    BY <1>9 DEF ClientLags, daemonStream, paneTask, Undisturbed
  <2> QED
    BY <2>1, <2>2, LossKeeps
<1>10. CASE UNCHANGED <<frames, entry>> /\ (task' # "live" \/ rushed')
  BY <1>10 DEF Numbered, Chained, Behind, Followed, Placed, OnShow
<1>11. CASE CaptureAfter
  <2> DEFINE frame == [cursor |-> CursorOf(entry), content |-> capture.content]
  <2>1. UNCHANGED <<frames, entry>> /\ capture.at = "after" /\ (entry # None => entry.sent >= capture.content)
    BY <1>11 DEF CaptureAfter, CaptureKeeps, daemonStream
  <2>2. CASE UNCHANGED <<task, cursor, screen, torn, rushed>>
    BY <1>1, <2>1, <2>2 DEF Undisturbed
  <2>3. CASE capture.before = CursorOf(entry) /\ Repaint(frame)
    <3>1. CASE CursorOf(entry) = None
      BY <1>10, <2>1, <2>3, <3>1 DEF Repaint
    <3>2. CASE CursorOf(entry) # None
      <4>1. entry \in Entry /\ entry # None /\ CursorOf(entry) = [gen |-> entry.gen, seq |-> entry.seq]
        BY <1>0, <3>2 DEF CursorOf
      <4>2. entry.sent \in Nat /\ capture.content \in Nat /\ entry.seq \in Nat
        BY <4>1 DEF Entry, TermTypeOK
      <4>3. capture.content >= entry.sent
        BY <2>1, <2>3, <3>2, <4>1 DEF Captured
      <4>4. cursor' = CursorOf(entry) /\ screen' = entry.sent /\ torn' = FALSE
        BY <2>1, <2>3, <3>2, <4>1, <4>2, <4>3 DEF Repaint
      <4>5. cursor'.gen = entry.gen /\ cursor'.seq = entry.seq
        BY <4>1, <4>4
      <4>6. Followed(frames)'
        <5> SUFFICES ASSUME NEW i \in DOMAIN frames, Data(frames[i]), frames[i].gen = entry.gen,
                            frames[i].seq = entry.seq + 1
                     PROVE  FALSE
          BY <2>1, <4>5 DEF Followed
        <5> QED
          BY <4>1, <4>2 DEF Numbered, Behind
      <4>7. Placed'
        BY <2>1, <4>2, <4>4, <4>5 DEF Placed
      <4> QED
        BY <2>1, <4>6, <4>7 DEF Numbered, Chained, Behind
    <3> QED
      BY <3>1, <3>2
  <2> QED
    BY <1>11, <2>2, <2>3 DEF CaptureAfter, paneTask
<1>12. CASE Deadline
  BY <1>10, <1>12 DEF Deadline, daemonStream
<1>13. CASE ResyncTick
  BY <1>10, <1>13 DEF ResyncTick, daemonStream
<1>14. CASE Unwatch
  <2>1. frames' = <<>> /\ task' = "over"
    BY <1>14 DEF Unwatch
  <2> QED
    BY <2>1 DEF Numbered, Chained, Behind, Followed, Placed, OnShow
<1>15. CASE Receive
  BY <1>15, ReceiveKeeps
<1> QED
  BY <1>2, <1>3, <1>4, <1>5, <1>6, <1>7, <1>8, <1>9, <1>11, <1>12, <1>13, <1>14, <1>15
     DEF TermNext, CaptureStep

\* A pane on show neither misses nor repeats an output, whatever the terminal writes, whichever
\* events are lost and whenever the daemon restarts, unless the frame it was painted from never
\* settled or a restarted daemon gave out its generation again.
THEOREM ScreensFaithful == TermSpec => []ScreenFaithful
<1>1. TermInit => TermInv
  <2> SUFFICES ASSUME TermInit
               PROVE  TermInv
    OBVIOUS
  <2>1. TermTypeOK
    BY TypeInit
  <2>2. PICK g \in 0..MaxOthers : nextGen = g + 1 /\ entry = [gen |-> g, seq |-> 0, sent |-> 0]
    BY DEF TermInit
  <2>3. Streamed /\ Captured
    BY <2>2, TermAssumption DEF TermInit, Between, Streamed, Captured
  <2>4. Numbered
    BY DEF TermInit, Numbered, Chained, Behind, Followed, Placed, OnShow
  <2> QED
    BY <2>1, <2>3, <2>4 DEF TermInv
<1>2. TermInv /\ [TermNext]_termVars => TermInv'
  <2> SUFFICES ASSUME TermInv, [TermNext]_termVars
               PROVE  TermInv'
    OBVIOUS
  <2>1. CASE TermNext
    <3>1. TermTypeOK' /\ Streamed' /\ Captured'
      BY <2>1, TypeStep, CaptureStepKeeps DEF TermInv
    <3>2. reused => reused'
      BY <2>1, ReusedStays DEF TermInv
    <3>3. ~reused' => Numbered'
      BY <2>1, <3>2, NumberedStep DEF TermInv
    <3> QED
      BY <3>1, <3>3 DEF TermInv
  <2>2. CASE UNCHANGED termVars
    <3>1. TermTypeOK'
      BY <2>2 DEF TermInv, TermTypeOK, termVars, pane, daemonStream, paneTask, termCounts
    <3>2. Streamed' /\ Captured' /\ UNCHANGED reused /\ UNCHANGED <<frames, entry>> /\ Undisturbed
      BY <2>2 DEF TermInv, Streamed, Captured, termVars, pane, daemonStream, paneTask, Undisturbed
    <3>3. Numbered => Numbered'
      BY <3>2 DEF Numbered, Chained, Behind, Followed, Placed, OnShow, Undisturbed
    <3> QED
      BY <3>1, <3>2, <3>3 DEF TermInv
  <2> QED
    BY <2>1, <2>2
<1>3. TermInv => ScreenFaithful
  BY DEF TermInv, Numbered, Placed, OnShow, ScreenFaithful, ScreenExact
<1> QED
  BY <1>1, <1>2, <1>3, PTL DEF TermSpec
=============================================================================
