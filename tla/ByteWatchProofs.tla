-------------------------- MODULE ByteWatchProofs --------------------------
(* The registry of byte watches, the backend's record and the connections agree: *)
(* for any number of connections, local and remote, and of streams.              *)
EXTENDS ByteWatch, TLAPS

Opening(c) == pc[c] = "open"
Informed(c) == pc[c] \in {"insert", "reply"}
Early == {"unused", "opening", "abandoned"}
Begun(s) == stage[s] \notin Early

\* One request at most is in the lock, it is about a stream of its own, and a
\* connection that is not up has no request at work.
Requests ==
  /\ \A c, d \in Conns : Opening(c) /\ Opening(d) => c = d
  /\ \A c \in Conns : Opening(c) => entry = None
  /\ \A c \in Conns : pc[c] \in {"open", "insert", "reply"} => mine[c] \in Streams
  /\ \A c \in Conns : pc[c] # "idle" => status[c] = "up"
  /\ \A c \in Conns : status[c] # "up" => acked[c] = None

\* The backend has the only running stream on record, and no stream of a dead window.
Backend ==
  /\ live # None => stage[live] \in {"running", "orphan"}
  /\ \A s \in Streams : stage[s] = "running" => s = live
  /\ ~alive => live = None

\* The entry is running or about to be cleaned up; a stream is known to registry,
\* requests and clients only once it was opened.
Known ==
  /\ entry # None => stage[entry] \in {"running", "eof"} /\ entry \notin closing
  /\ \A s \in closing : Begun(s)
  /\ \A c \in Conns : Informed(c) => Begun(mine[c])
  /\ \A c \in Conns : acked[c] # None => Begun(acked[c])

\* A request that is about to be answered holds a reference; one that lets go has
\* dropped the acknowledgement.
Holding ==
  /\ \A c \in Conns : Informed(c) /\ stage[mine[c]] = "running" => entry = mine[c] /\ c \in refs
  /\ \A c \in Conns : pc[c] = "reply" => c \in watched
  /\ \A c \in Conns : pc[c] \in {"unwatch", "close", "forget"} => acked[c] = None

\* What was broadcast, and what is about to be, has a reason.
Reasons ==
  /\ entry # None /\ stage[entry] = "eof" => entry \in buried \cup displaced
  /\ \A c \in Conns : \A i \in 1..Len(queue[c]) : queue[c][i] \in buried \cup displaced

WatchInv ==
  /\ TypeOK /\ Requests /\ Backend /\ Known /\ Holding /\ Reasons
  /\ WatchesDie /\ Served /\ ClosedMeansGone

\* the steps of one connection, and of the streams
Connection(c) ==
  \/ WatchJoin(c) \/ WatchOpen(c) \/ Opened(c) \/ OpenFailed(c) \/ Insert(c) \/ Reply(c)
  \/ OffWindow(c) \/ OffLane(c) \/ Unwatch(c) \/ Forget(c)
  \/ Deliver(c) \/ HangUp(c) \/ HangUpRemote(c) \/ CloseSession(c)
StreamStep(s) == AbandonedOpen(s) \/ CloseStream(s) \/ Eof(s)
----------------------------------------------------------------------------
LEMMA InitHolds == Init => WatchInv
BY WatchAssumption
   DEF Init, WatchInv, TypeOK, Stage, PC, Requests, Backend, Known, Holding, Reasons, WatchesDie,
       Served, ClosedMeansGone, Opening, Informed, Begun, Early

\* Detaching the stream on record ends it, and changes no other.
LEMMA Detached ==
  ASSUME TypeOK, Backend, live # None
  PROVE  /\ live \in Streams /\ Replaced \in [Streams -> Stage]
         /\ Replaced[live] = (IF stage[live] = "running" THEN "eof" ELSE "done")
         /\ \A s \in Streams : s # live => Replaced[s] = stage[s]
BY DEF TypeOK, Backend, Replaced, Stage

LEMMA RecordedType ==
  ASSUME TypeOK, Backend, NEW s \in Streams
  PROVE  /\ Recorded(s) \in [Streams -> Stage]
         /\ \A r \in Streams : r # live => Recorded(s)[r] = stage[r]
         /\ live # None =>
              Recorded(s)[live] = (IF stage[live] = "running" THEN "eof" ELSE "done")
<1>1. CASE live = None BY <1>1 DEF Recorded, TypeOK
<1>2. CASE live # None BY <1>2, Detached DEF Recorded
<1> QED BY <1>1, <1>2
----------------------------------------------------------------------------
(* One lemma for each step that touches registry or streams *)

LEMMA JoinHolds == ASSUME WatchInv, NEW c \in Conns, WatchJoin(c) PROVE WatchInv'
<1> USE WatchAssumption
    DEF WatchInv, WatchJoin, Idle, Locked, Goto, backend, client, ends, Opening, Informed, Begun, Early
<1>1. TypeOK' BY DEF TypeOK, PC
<1>2. Requests' BY DEF Requests, TypeOK
<1>3. Backend' BY DEF Backend
<1>4. Known' BY DEF Known, TypeOK
<1>5. Holding' BY DEF Holding, TypeOK
<1>6. Reasons' BY DEF Reasons
<1>7. WatchesDie' BY DEF WatchesDie
<1>8. Served' BY DEF Served, TypeOK
<1>9. ClosedMeansGone' BY DEF ClosedMeansGone
<1> QED BY <1>1, <1>2, <1>3, <1>4, <1>5, <1>6, <1>7, <1>8, <1>9

LEMMA OpenHolds == ASSUME WatchInv, NEW c \in Conns, WatchOpen(c) PROVE WatchInv'
<1> USE WatchAssumption DEF WatchInv, Goto, registry, client, ends, Opening, Informed, Begun, Early
<1>1. PICK s \in Streams : /\ stage[s] = "unused" /\ stage' = [stage EXCEPT ![s] = "opening"]
                           /\ mine' = [mine EXCEPT ![c] = s]
  BY DEF WatchOpen
<1>2. /\ status[c] = "up" /\ pc[c] = "idle" /\ \A d \in Conns : pc[d] # "open"
      /\ entry = None /\ pc' = [pc EXCEPT ![c] = "open"]
      /\ UNCHANGED <<entry, refs, alive, live, closing, status, watched, queue, acked, heard,
                     buried, displaced>>
  BY DEF WatchOpen, Idle, Locked
<1>3. TypeOK'
  <2>1. \A r \in Streams :
          stage'[r] = "opening" <=> \E d \in Conns : pc'[d] = "open" /\ mine'[d] = r
    BY <1>1, <1>2 DEF TypeOK
  <2> QED BY <1>1, <1>2, <2>1 DEF TypeOK, Stage, PC
<1>4. Requests' BY <1>1, <1>2 DEF Requests, TypeOK
<1>5. Backend' BY <1>1, <1>2 DEF Backend, TypeOK
<1>6. Known' BY <1>1, <1>2 DEF Known, TypeOK
<1>7. Holding' BY <1>1, <1>2 DEF Holding, Known, Requests, TypeOK
<1>8. Reasons' BY <1>1, <1>2 DEF Reasons
<1>9. WatchesDie' BY <1>2 DEF WatchesDie
<1>10. Served' BY <1>1, <1>2 DEF Served, Known, TypeOK
<1>11. ClosedMeansGone' BY <1>2 DEF ClosedMeansGone
<1> QED BY <1>3, <1>4, <1>5, <1>6, <1>7, <1>8, <1>9, <1>10, <1>11

LEMMA OpenedHolds == ASSUME WatchInv, NEW c \in Conns, Opened(c) PROVE WatchInv'
<1> USE WatchAssumption DEF WatchInv, Opening, Informed, Begun, Early
<1> DEFINE s == mine[c]
<1>1. /\ s \in Streams /\ stage[s] = "opening" /\ entry = None /\ refs = {}
      /\ \A d \in Conns : pc[d] = "open" => d = c
  BY DEF Opened, Requests, TypeOK, WatchesDie
<1>2. /\ pc[c] = "open" /\ alive /\ live' = s /\ entry' = s /\ refs' = {c}
      /\ stage' = [Recorded(s) EXCEPT ![s] = "running"] /\ pc' = [pc EXCEPT ![c] = "insert"]
      /\ UNCHANGED <<alive, closing, status, mine, watched, queue, acked, heard, buried, displaced>>
  BY DEF Opened, Goto, client, ends
<1>3. /\ stage' \in [Streams -> Stage] /\ stage'[s] = "running" /\ s # live
      /\ \A r \in Streams : r # s /\ r # live => stage'[r] = stage[r]
      /\ live # None => live \in Streams /\ stage'[live] \in {"eof", "done"}
  BY <1>1, <1>2, RecordedType DEF TypeOK, Backend, Stage
<1> HIDE DEF s
<1>4. TypeOK'
  <2>1. \A r \in Streams : stage[r] = "opening" => r = s BY <1>1 DEF s, TypeOK
  <2>2. \A r \in Streams : stage'[r] # "opening" BY <1>3, <2>1
  <2>3. \A d \in Conns : pc'[d] # "open" BY <1>1, <1>2 DEF TypeOK
  <2> QED BY <1>1, <1>2, <1>3, <2>2, <2>3 DEF TypeOK, PC
<1>5. Requests' BY <1>1, <1>2 DEF Requests, TypeOK, s
<1>6. \A r \in Streams : stage'[r] = "running" => r = s BY <1>3 DEF Backend
<1>7. \A r \in Streams : Begun(r) => Begun(r)' BY <1>1, <1>3
<1>8. Backend' BY <1>2, <1>3, <1>6 DEF Backend
<1>9. mine[c] = s BY DEF s
<1>15. \A d \in Conns : d # c => pc'[d] = pc[d] BY <1>2 DEF TypeOK
<1>16. \A d \in Conns : d # c /\ Informed(d) => mine[d] \in Streams /\ Begun(mine[d]) /\ mine[d] # s
  BY <1>1 DEF Requests, Known
<1>17. Known'
  <2>1. s \notin closing /\ stage'[s] \notin Early
    BY <1>1, <1>3 DEF Known
  <2>2. \A r \in closing : Begun(r)' BY <1>7 DEF Known, TypeOK
  <2>3. \A d \in Conns : pc'[d] \in {"insert", "reply"} => Begun(mine[d])'
    BY <1>2, <1>7, <1>9, <1>15, <1>16, <2>1
  <2>4. ASSUME NEW d \in Conns, acked[d] # None PROVE stage'[acked[d]] \notin Early
    <3>1. acked[d] \in Streams BY <2>4 DEF TypeOK
    <3>2. Begun(acked[d]) BY <2>4 DEF Known
    <3> QED BY <3>1, <3>2, <1>7
  <2> QED BY <1>2, <1>3, <2>1, <2>2, <2>3, <2>4 DEF Known
<1>10. Holding'
  <2>1. \A d \in Conns : pc'[d] \in {"insert", "reply"} /\ stage'[mine[d]] = "running" => d = c
    BY <1>6, <1>15, <1>16
  <2>2. pc'[c] = "insert" BY <1>2 DEF TypeOK
  <2>3. \A d \in Conns : pc'[d] = "reply" => d \in watched BY <2>2, <1>15 DEF Holding
  <2>4. \A d \in Conns : pc'[d] \in {"unwatch", "close", "forget"} => acked[d] = None
    BY <2>2, <1>15 DEF Holding
  <2> QED BY <1>2, <1>9, <2>1, <2>3, <2>4 DEF Holding
<1>11. Reasons' BY <1>2, <1>3 DEF Reasons
<1>12. WatchesDie' BY <1>1, <1>2 DEF WatchesDie, Requests
<1>13. Served'
  <2>1. \A d \in Conns : acked[d] # None => acked[d] \in Streams /\ acked[d] # s
    BY <1>1 DEF Known, TypeOK
  <2> QED BY <1>2, <1>6, <2>1 DEF Served
<1>14. ClosedMeansGone' BY <1>2 DEF ClosedMeansGone
<1> QED BY <1>4, <1>5, <1>8, <1>10, <1>11, <1>12, <1>13, <1>14, <1>17

LEMMA OpenFailedHolds == ASSUME WatchInv, NEW c \in Conns, OpenFailed(c) PROVE WatchInv'
<1> USE WatchAssumption DEF WatchInv, Opening, Informed, Begun, Early
<1>1. /\ mine[c] \in Streams /\ stage[mine[c]] = "opening" /\ live = None
      /\ \A d \in Conns : pc[d] = "open" => d = c
      /\ \A r \in Streams : stage[r] # "running"
  <2>1. pc[c] = "open" /\ ~alive BY DEF OpenFailed
  <2>2. mine[c] \in Streams /\ \A d \in Conns : pc[d] = "open" => d = c BY <2>1 DEF Requests
  <2>3. stage[mine[c]] = "opening" BY <2>1, <2>2 DEF TypeOK
  <2>4. live = None /\ \A r \in Streams : stage[r] # "running" BY <2>1 DEF Backend
  <2> QED BY <2>2, <2>3, <2>4
<1>2. /\ pc[c] = "open" /\ ~alive /\ stage' = [stage EXCEPT ![mine[c]] = "done"]
      /\ pc' = [pc EXCEPT ![c] = "idle"]
      /\ UNCHANGED <<entry, refs, alive, live, closing, status, mine, watched, queue, acked, heard,
                     buried, displaced>>
  BY DEF OpenFailed, Goto, registry, client, ends
<1>3. \A r \in Streams : stage'[r] # "running" BY <1>1, <1>2 DEF TypeOK
<1>4. TypeOK'
  <2>1. \A r \in Streams : stage'[r] # "opening" BY <1>1, <1>2 DEF TypeOK
  <2>2. \A d \in Conns : pc'[d] # "open" BY <1>1, <1>2 DEF TypeOK
  <2> QED BY <1>2, <2>1, <2>2 DEF TypeOK, Stage, PC
<1>5. Requests' BY <1>1, <1>2 DEF Requests, TypeOK
<1>6. Backend' BY <1>1, <1>2, <1>3 DEF Backend
<1>7. Known' BY <1>1, <1>2 DEF Known, Requests, TypeOK
<1>8. Holding' BY <1>2, <1>3 DEF Holding, Requests, TypeOK
<1>9. Reasons' BY <1>1, <1>2 DEF Reasons, Requests
<1>10. WatchesDie' BY <1>2 DEF WatchesDie
<1>11. Served'
  <2>1. \A d \in Conns : acked[d] # None => acked[d] \in Streams BY DEF TypeOK
  <2> QED BY <1>2, <1>3, <2>1 DEF Served
<1>12. ClosedMeansGone' BY <1>2 DEF ClosedMeansGone
<1> QED BY <1>4, <1>5, <1>6, <1>7, <1>8, <1>9, <1>10, <1>11, <1>12

LEMMA AbandonedHolds == ASSUME WatchInv, NEW s \in Streams, AbandonedOpen(s) PROVE WatchInv'
<1> USE WatchAssumption DEF WatchInv, Opening, Informed, Begun, Early
<1>1. /\ stage[s] = "abandoned" /\ s # live
      /\ UNCHANGED <<entry, refs, alive, closing, status, pc, mine, watched, queue, acked, heard,
                     buried>>
  BY DEF AbandonedOpen, registry, client, Backend
<1>2. /\ entry # s /\ \A c \in Conns : (Informed(c) => mine[c] # s) /\ acked[c] # s
      /\ s \notin closing
  BY <1>1 DEF Known, TypeOK
<1>3. /\ stage' \in [Streams -> Stage] /\ stage'[s] \in {"orphan", "done"}
      /\ \A r \in Streams : r # s /\ r # live => stage'[r] = stage[r]
      /\ live # None => live \in Streams /\
           IF alive THEN stage'[live] \in {"eof", "done"}
                           /\ (stage[live] = "running" <=> stage'[live] = "eof")
                    ELSE stage'[live] = stage[live]
  <2>1. stage \in [Streams -> Stage] /\ live \in Streams \cup {None} BY DEF TypeOK
  <2>2. CASE alive
    <3>1. stage' = [Recorded(s) EXCEPT ![s] = "orphan"] BY <2>2 DEF AbandonedOpen
    <3>2. \A r \in Streams : r # s => stage'[r] = Recorded(s)[r] BY <3>1, RecordedType
    <3>3. stage' \in [Streams -> Stage] /\ stage'[s] = "orphan"
      BY <3>1, RecordedType DEF Stage
    <3> QED BY <1>1, <2>1, <2>2, <3>2, <3>3, RecordedType
  <2>3. CASE ~alive
    <3>1. stage' = [stage EXCEPT ![s] = "done"] BY <2>3 DEF AbandonedOpen
    <3> QED BY <1>1, <2>1, <2>3, <3>1 DEF Stage
  <2> QED BY <2>2, <2>3
<1>4. IF alive THEN live' = s /\ displaced' = displaced \cup ({live} \cap Streams)
                    /\ stage'[s] = "orphan"
               ELSE live' = live /\ displaced' = displaced
  BY <1>1, RecordedType DEF AbandonedOpen, TypeOK
<1>5. TypeOK'
  <2>1. \A r \in Streams : stage'[r] = "opening" <=> stage[r] = "opening"
    BY <1>1, <1>3 DEF Backend
  <2>2. live' \in Streams \cup {None} /\ displaced' \subseteq Streams
    <3>1. live \in Streams \cup {None} /\ displaced \subseteq Streams BY DEF TypeOK
    <3> QED BY <1>4, <3>1
  <2> QED BY <1>1, <1>3, <2>1, <2>2 DEF TypeOK
<1>6. Requests' BY <1>1 DEF Requests
<1>7. \A r \in Streams : stage'[r] = "running" => stage[r] = "running" /\ ~alive
  BY <1>3 DEF Backend
<1>8. Backend' BY <1>1, <1>3, <1>4, <1>7 DEF Backend
<1>9. \A r \in Streams : Begun(r) => Begun(r)' BY <1>1, <1>3 DEF TypeOK
<1>10. Known'
  <2>1. entry # None => stage'[entry] \in {"running", "eof"}
    BY <1>1, <1>2, <1>3 DEF Known, TypeOK, Backend
  <2>2. \A r \in closing : Begun(r)' BY <1>9 DEF Known, TypeOK
  <2>3. \A c \in Conns : Informed(c) => Begun(mine[c])' BY <1>1, <1>9 DEF Known, Requests
  <2>4. ASSUME NEW c \in Conns, acked[c] # None PROVE stage'[acked[c]] \notin Early
    <3>1. acked[c] \in Streams BY <2>4 DEF TypeOK
    <3>2. Begun(acked[c]) BY <2>4 DEF Known
    <3> QED BY <3>1, <3>2, <1>9
  <2> QED BY <1>1, <2>1, <2>2, <2>3, <2>4 DEF Known
<1>11. Holding' BY <1>1, <1>7 DEF Holding, Requests
<1>12. Reasons'
  <2>1. entry # None /\ stage'[entry] = "eof" => entry \in buried \cup displaced'
    BY <1>1, <1>2, <1>3, <1>4 DEF Reasons, TypeOK
  <2> QED BY <1>1, <1>4, <2>1 DEF Reasons
<1>13. WatchesDie' BY <1>1 DEF WatchesDie
<1>14. Served'
  <2>1. \A c \in Conns : acked[c] # None => acked[c] \in Streams BY DEF TypeOK
  <2>2. \A r \in Streams : stage'[r] = "running" => live' = live BY <1>4, <1>7
  <2> QED BY <1>1, <1>7, <2>1, <2>2 DEF Served
<1>15. ClosedMeansGone' BY <1>1, <1>4 DEF ClosedMeansGone
<1> QED BY <1>5, <1>6, <1>8, <1>10, <1>11, <1>12, <1>13, <1>14, <1>15

\* The last reference takes the entry out before the backend is closed.
LEMMA UnwatchHolds == ASSUME WatchInv, NEW c \in Conns, Unwatch(c) PROVE WatchInv'
<1> USE WatchAssumption DEF WatchInv, Opening, Informed, Begun, Early
<1>1. /\ pc[c] = "unwatch" /\ acked[c] = None /\ status[c] = "up"
      /\ UNCHANGED <<alive, live, stage, status, watched, queue, acked, heard, buried, displaced>>
  BY DEF Unwatch, Holding, Requests, client, ends
<1>2. \A d \in Conns : d # c =>
        pc'[d] = pc[d] /\ mine'[d] = mine[d] /\ (d \in refs' <=> d \in refs)
  BY DEF Unwatch, Goto, TypeOK
<1>3. pc'[c] \in {"close", "forget"} BY DEF Unwatch, Goto, TypeOK
<1>4. /\ entry' \in {entry, None} /\ refs' \subseteq refs
      /\ closing' \in {closing, closing \cup {entry}}
      /\ entry # entry' => refs \subseteq {c} /\ closing' = closing \cup {entry}
      /\ entry = entry' => closing' = closing
      /\ entry' = None <=> refs' = {}
  BY DEF Unwatch, WatchesDie
<1>5. TypeOK'
  <2>1. pc' \in [Conns -> PC]
    <3>1. pc' = [pc EXCEPT ![c] = "close"] \/ pc' = [pc EXCEPT ![c] = "forget"]
      BY DEF Unwatch, Goto
    <3>2. pc \in [Conns -> PC] BY DEF TypeOK
    <3> QED BY <3>1, <3>2 DEF PC
  <2>2. closing' \subseteq Streams
    <3>1. closing \subseteq Streams /\ entry \in Streams \cup {None} BY DEF TypeOK
    <3> QED BY <3>1 DEF Unwatch
  <2>4. mine' \in [Conns -> Streams \cup {None}]
    <3>1. mine \in [Conns -> Streams \cup {None}] /\ entry \in Streams \cup {None}
      BY DEF TypeOK
    <3>2. mine' = [mine EXCEPT ![c] = entry] \/ mine' = mine BY DEF Unwatch
    <3> QED BY <3>1, <3>2
  <2>3. \A d \in Conns : pc[d] # "open" /\ pc'[d] # "open"
    BY <1>2, <1>3 DEF Unwatch, Locked
  <2> QED BY <1>1, <1>4, <2>1, <2>2, <2>3, <2>4 DEF TypeOK
<1>6. Requests' BY <1>1, <1>2, <1>3, <1>4 DEF Requests
<1>7. Backend' BY <1>1 DEF Backend
<1>8. Known'
  <2>1. entry' # None => entry' = entry /\ closing' = closing BY <1>4
  <2> QED BY <1>1, <1>2, <1>3, <1>4, <2>1 DEF Known
<1>9. Holding'
  <2>1. \A d \in Conns : pc'[d] \in {"insert", "reply"} /\ stage[mine'[d]] = "running" =>
          entry' = mine'[d] /\ d \in refs'
    BY <1>2, <1>3, <1>4 DEF Holding
  <2> QED BY <1>1, <1>2, <1>3, <2>1 DEF Holding
<1>10. Reasons' BY <1>1, <1>4 DEF Reasons
<1>11. WatchesDie' BY <1>1, <1>4 DEF WatchesDie
<1>12. Served'
  <2>1. \A d \in Conns : acked[d] # None /\ pc'[d] = "idle" => d # c /\ pc[d] = "idle"
    BY <1>1, <1>2
  <2>2. \A d \in Conns : acked[d] # None /\ pc'[d] = "idle" /\ stage[acked[d]] = "running" =>
          entry' = acked[d] /\ live = entry' /\ d \in refs' /\ d \in watched
    BY <1>2, <1>4, <2>1 DEF Served
  <2>3. \A s \in Streams : stage[s] = "running" => s = entry' \/ s \in closing'
    BY <1>4 DEF Served
  <2> QED BY <1>1, <2>2, <2>3 DEF Served
<1>13. ClosedMeansGone' BY <1>1 DEF ClosedMeansGone
<1> QED BY <1>5, <1>6, <1>7, <1>8, <1>9, <1>10, <1>11, <1>12, <1>13

LEMMA CloseSessionHolds == ASSUME WatchInv, NEW c \in Conns, CloseSession(c) PROVE WatchInv'
<1> USE WatchAssumption DEF WatchInv, Opening, Informed, Begun, Early
<1>1. /\ status[c] = "hungup" /\ acked[c] = None /\ pc[c] = "idle"
      /\ status' = [status EXCEPT ![c] = "down"] /\ refs' = refs \ {c}
      /\ UNCHANGED <<alive, live, stage, pc, mine, watched, queue, acked, heard, buried, displaced>>
  BY DEF CloseSession, Requests, client, ends
<1>2. \A d \in Conns : pc[d] # "open" BY DEF CloseSession, Locked
<1>3. /\ entry' \in {entry, None} /\ closing' \in {closing, closing \cup {entry}}
      /\ entry # entry' => refs \subseteq {c} /\ closing' = closing \cup {entry}
      /\ entry = entry' => closing' = closing
      /\ entry' = None <=> refs' = {}
  BY <1>1 DEF CloseSession, WatchesDie
<1>4. TypeOK'
  <2>1. closing' \subseteq Streams
    <3>1. closing \subseteq Streams /\ entry \in Streams \cup {None} BY DEF TypeOK
    <3> QED BY <3>1 DEF CloseSession
  <2> QED BY <1>1, <1>3, <2>1 DEF TypeOK
<1>5. Requests' BY <1>1, <1>2 DEF Requests, TypeOK
<1>6. Backend' BY <1>1 DEF Backend
<1>7. Known'
  <2>1. entry' # None => entry' = entry /\ closing' = closing BY <1>3
  <2> QED BY <1>1, <1>3, <2>1 DEF Known
<1>8. Holding' BY <1>1, <1>3 DEF Holding
<1>9. Reasons' BY <1>1, <1>3 DEF Reasons
<1>10. WatchesDie' BY <1>1, <1>3 DEF WatchesDie, TypeOK
<1>11. Served' BY <1>1, <1>3 DEF Served
<1>12. ClosedMeansGone' BY <1>1 DEF ClosedMeansGone
<1> QED BY <1>4, <1>5, <1>6, <1>7, <1>8, <1>9, <1>10, <1>11, <1>12

\* Streams end: the one on record is detached by its release, by the pane, or with
\* its window.
LEMMA EndHolds ==
  ASSUME WatchInv,
         UNCHANGED <<entry, refs, status, mine, watched, queue, acked, heard, displaced>>,
         stage' \in [Streams -> Stage], live' = None, alive' \in BOOLEAN,
         closing' \subseteq closing, buried \subseteq buried', buried' \subseteq Streams,
         pc' \in [Conns -> PC],
         \A c \in Conns : pc'[c] = pc[c] \/ (pc[c] = "close" /\ pc'[c] = "forget"),
         \A s \in Streams : stage[s] = "running" => stage'[s] = "eof"
                              /\ (s \in closing \/ s \in buried'),
         \A s \in Streams : stage[s] = "orphan" => stage'[s] \in {"orphan", "done"},
         \A s \in Streams : stage[s] \notin {"running", "orphan"} => stage'[s] = stage[s]
  PROVE  WatchInv'
<1> USE WatchAssumption DEF WatchInv, Opening, Informed, Begun, Early
<1>1. \A s \in Streams : stage'[s] # "running" BY DEF Stage
<1>2. \A s \in Streams : stage'[s] = "opening" <=> stage[s] = "opening" BY DEF Stage
<1>3. \A s \in Streams : Begun(s) => Begun(s)' BY DEF Stage
<1>4. TypeOK'
  <2>1. \A c \in Conns : pc'[c] = "open" <=> pc[c] = "open" OBVIOUS
  <2> QED BY <1>2, <2>1 DEF TypeOK
<1>5. Requests' BY DEF Requests
<1>6. Backend' BY <1>1 DEF Backend
<1>7. Known'
  <2>1. entry # None => stage'[entry] \in {"running", "eof"} BY DEF Known, TypeOK
  <2>2. \A s \in closing' : Begun(s)'
    <3>1. \A s \in closing : s \in Streams /\ Begun(s) BY DEF Known, TypeOK
    <3> QED BY <1>3, <3>1
  <2>3. ASSUME NEW c \in Conns, pc'[c] \in {"insert", "reply"} PROVE stage'[mine[c]] \notin Early
    <3>1. pc[c] = pc'[c] BY <2>3
    <3>2. mine[c] \in Streams /\ Begun(mine[c]) BY <2>3, <3>1 DEF Requests, Known
    <3> QED BY <3>2, <1>3
  <2>4. ASSUME NEW c \in Conns, acked[c] # None PROVE stage'[acked[c]] \notin Early
    <3>1. acked[c] \in Streams BY <2>4 DEF TypeOK
    <3>2. Begun(acked[c]) BY <2>4 DEF Known
    <3> QED BY <3>1, <3>2, <1>3
  <2> QED BY <2>1, <2>2, <2>3, <2>4 DEF Known
<1>8. Holding'
  <2>1. \A c \in Conns : Informed(c)' => mine[c] \in Streams BY DEF Requests
  <2> QED BY <1>1, <2>1 DEF Holding
<1>9. Reasons'
  <2>1. entry # None /\ stage'[entry] = "eof" => entry \in buried' \cup displaced
    BY DEF Reasons, Known, TypeOK
  <2> QED BY <2>1 DEF Reasons
<1>10. WatchesDie' BY DEF WatchesDie
<1>11. Served'
  <2>1. \A c \in Conns : acked[c] # None => acked[c] \in Streams BY DEF TypeOK
  <2> QED BY <1>1, <2>1 DEF Served
<1>12. ClosedMeansGone' BY DEF ClosedMeansGone
<1> QED BY <1>4, <1>5, <1>6, <1>7, <1>8, <1>9, <1>10, <1>11, <1>12

LEMMA CloseHolds == ASSUME WatchInv, NEW s \in Streams, CloseStream(s) PROVE WatchInv'
<1> USE WatchAssumption DEF WatchInv
<1>1. /\ closing' = closing \ {s}
      /\ \A c \in Conns : pc'[c] = pc[c] \/ (pc[c] = "close" /\ pc'[c] = "forget")
      /\ pc' \in [Conns -> PC]
      /\ UNCHANGED <<entry, refs, alive, status, mine, watched, queue, acked, heard, buried, displaced>>
  BY DEF CloseStream, registry, client, ends, TypeOK, PC
<1>2. s \in closing BY DEF CloseStream
<1>3. CASE live = s
  <2>1. live' = None /\ stage' = Replaced BY <1>3 DEF CloseStream
  <2>2. \A r \in Streams : r # s => stage[r] # "running" BY <1>3 DEF Backend
  <2>3. /\ stage' \in [Streams -> Stage] /\ stage'[s] = (IF stage[s] = "running" THEN "eof" ELSE "done")
        /\ \A r \in Streams : r # s => stage'[r] = stage[r]
    BY <1>3, <2>1, Detached, WatchAssumption
  <2>4. stage[s] \in {"running", "orphan"} BY <1>3, WatchAssumption DEF Backend
  <2>5. alive' \in BOOLEAN /\ buried' \subseteq Streams BY <1>1 DEF TypeOK
  <2> QED BY <1>1, <1>2, <2>1, <2>2, <2>3, <2>4, <2>5, EndHolds
<1>4. CASE live # s
  <2>1. live' = live /\ stage' = stage BY <1>4 DEF CloseStream
  <2>2. stage[s] # "running" BY <1>4 DEF Backend
  <2> USE DEF Opening, Informed, Begun, Early
  <2>3. TypeOK'
    <3>1. \A c \in Conns : pc'[c] = "open" <=> pc[c] = "open" BY <1>1
    <3> QED BY <1>1, <2>1, <3>1 DEF TypeOK
  <2>4. Requests' BY <1>1 DEF Requests
  <2>5. Backend' BY <1>1, <2>1 DEF Backend
  <2>6. Known' BY <1>1, <2>1 DEF Known
  <2>7. Holding' BY <1>1, <2>1 DEF Holding
  <2>8. Reasons' BY <1>1, <2>1 DEF Reasons
  <2>9. WatchesDie' BY <1>1 DEF WatchesDie
  <2>10. Served' BY <1>1, <2>1, <2>2 DEF Served
  <2>11. ClosedMeansGone' BY <1>1 DEF ClosedMeansGone
  <2> QED BY <2>3, <2>4, <2>5, <2>6, <2>7, <2>8, <2>9, <2>10, <2>11
<1> QED BY <1>3, <1>4

LEMMA GoneHolds == ASSUME WatchInv, Output \/ WindowGone PROVE WatchInv'
<1> USE WatchAssumption DEF WatchInv
<1>1. CASE Output
  <2>1. /\ live # None /\ stage[live] = "orphan" /\ live' = None /\ stage' = Replaced
        /\ UNCHANGED <<entry, refs, alive, closing, status, pc, mine, watched, queue, acked, heard,
                       buried, displaced>>
    BY <1>1 DEF Output, registry, client, ends
  <2>2. \A r \in Streams : stage[r] # "running" BY <2>1 DEF Backend
  <2>3. /\ stage' \in [Streams -> Stage] /\ stage'[live] = "done"
        /\ \A r \in Streams : r # live => stage'[r] = stage[r]
    BY <2>1, Detached
  <2>4. pc' \in [Conns -> PC] /\ alive' \in BOOLEAN /\ buried' \subseteq Streams
    BY <2>1 DEF TypeOK
  <2> QED BY <2>1, <2>2, <2>3, <2>4, EndHolds
<1>2. CASE WindowGone
  <2>1. /\ live' = None /\ alive' = FALSE
        /\ buried' = buried \cup {s \in Streams : stage[s] = "running"}
        /\ UNCHANGED <<entry, refs, closing, status, pc, mine, watched, queue, acked, heard, displaced>>
    BY <1>2 DEF WindowGone, registry, client
  <2>2. /\ stage' \in [Streams -> Stage]
        /\ \A s \in Streams :
             stage'[s] = CASE stage[s] = "running" -> "eof"
                           [] stage[s] = "orphan" -> "done"
                           [] OTHER -> stage[s]
    BY <1>2 DEF WindowGone, TypeOK, Stage
  <2>3. /\ pc' \in [Conns -> PC] /\ alive' \in BOOLEAN /\ buried' \subseteq Streams
        /\ buried \subseteq buried'
    BY <2>1 DEF TypeOK
  <2>4. \A s \in Streams : stage[s] = "running" => stage'[s] = "eof" /\ s \in buried'
    BY <2>1, <2>2
  <2>5. \A s \in Streams : stage[s] = "orphan" => stage'[s] = "done" BY <2>2
  <2>6. \A s \in Streams : stage[s] \notin {"running", "orphan"} => stage'[s] = stage[s]
    BY <2>2
  <2> QED BY <2>1, <2>2, <2>3, <2>4, <2>5, <2>6, EndHolds
<1> QED BY <1>1, <1>2

\* A forwarder cleans up only the entry it owns, and broadcasts an end with a reason.
LEMMA EofHolds == ASSUME WatchInv, NEW s \in Streams, Eof(s) PROVE WatchInv'
<1> USE WatchAssumption DEF WatchInv, Opening, Informed, Begun, Early
<1>1. /\ stage[s] = "eof" /\ stage' = [stage EXCEPT ![s] = "done"]
      /\ \A c \in Conns : pc[c] # "open"
      /\ UNCHANGED <<alive, live, closing, status, pc, mine, watched, acked, heard, buried, displaced>>
  BY DEF Eof, Locked, client, ends
<1>2. /\ entry' = (IF entry = s THEN None ELSE entry)
      /\ refs' = (IF entry = s THEN {} ELSE refs)
  BY DEF Eof, registry
<1>3. /\ stage' \in [Streams -> Stage] /\ stage'[s] = "done"
      /\ \A r \in Streams : r # s => stage'[r] = stage[r]
  BY <1>1 DEF TypeOK, Stage
<1>4. \A r \in Streams : (stage'[r] = "running" <=> stage[r] = "running")
                         /\ (Begun(r) <=> Begun(r)')
  BY <1>1, <1>3
<1>5. /\ queue' \in [Conns -> Seq(Streams)]
      /\ \A c \in Conns : \A i \in 1..Len(queue'[c]) : queue'[c][i] \in buried \cup displaced
  <2>1. CASE entry # s BY <2>1 DEF Eof, Reasons, TypeOK
  <2>2. CASE entry = s
    <3>1. s \in buried \cup displaced BY <1>1, <2>2 DEF Reasons
    <3>2. queue' = [c \in Conns |-> IF status[c] = "down" THEN queue[c] ELSE Append(queue[c], s)]
      BY <2>2 DEF Eof, PublishClosed
    <3>3. queue \in [Conns -> Seq(Streams)] BY DEF TypeOK
    <3>4. ASSUME NEW c \in Conns
          PROVE  /\ queue'[c] \in Seq(Streams)
                 /\ \A i \in 1..Len(queue'[c]) : queue'[c][i] \in buried \cup displaced
      <4>1. CASE status[c] = "down" BY <3>2, <3>3, <4>1 DEF Reasons
      <4>2. CASE status[c] # "down"
        <5>1. queue'[c] = Append(queue[c], s) /\ queue[c] \in Seq(Streams) BY <3>2, <3>3, <4>2
        <5>2. \A i \in 1..Len(queue[c]) : queue[c][i] \in buried \cup displaced BY DEF Reasons
        <5> QED BY <3>1, <5>1, <5>2
      <4> QED BY <4>1, <4>2
    <3> QED BY <3>2, <3>4
  <2> QED BY <2>1, <2>2
<1>6. TypeOK'
  <2>1. \A r \in Streams : stage'[r] = "opening" <=> stage[r] = "opening" BY <1>1, <1>3
  <2> QED BY <1>1, <1>2, <1>3, <1>5, <2>1 DEF TypeOK
<1>7. Requests' BY <1>1 DEF Requests
<1>8. Backend'
  <2>1. live # s BY <1>1 DEF Backend
  <2> QED BY <1>1, <1>3, <1>4, <2>1 DEF Backend, TypeOK
<1>9. Known'
  <2>1. \A r \in closing : Begun(r)' BY <1>4 DEF Known, TypeOK
  <2>2. \A c \in Conns : pc[c] \in {"insert", "reply"} => stage'[mine[c]] \notin Early
    BY <1>4 DEF Known, Requests
  <2>3. ASSUME NEW c \in Conns, acked[c] # None PROVE stage'[acked[c]] \notin Early
    <3>1. acked[c] \in Streams BY <2>3 DEF TypeOK
    <3>2. Begun(acked[c]) BY <2>3 DEF Known
    <3> QED BY <3>1, <3>2, <1>4
  <2>4. entry' # None => stage'[entry'] \in {"running", "eof"} /\ entry' \notin closing
    BY <1>2, <1>3 DEF Known, TypeOK
  <2> QED BY <1>1, <2>1, <2>2, <2>3, <2>4 DEF Known
<1>10. Holding'
  <2>1. \A c \in Conns : pc[c] \in {"insert", "reply"} /\ stage'[mine[c]] = "running" =>
          stage[mine[c]] = "running" /\ mine[c] # s
    BY <1>1, <1>4 DEF Requests
  <2> QED BY <1>1, <1>2, <2>1 DEF Holding
<1>11. Reasons'
  <2>1. entry' # None => entry' = entry /\ stage'[entry'] = stage[entry]
    BY <1>2, <1>3 DEF TypeOK
  <2> QED BY <1>1, <1>5, <2>1 DEF Reasons
<1>12. WatchesDie' BY <1>1, <1>2 DEF WatchesDie
<1>13. Served'
  <2>1. \A c \in Conns : acked[c] # None /\ stage'[acked[c]] = "running" =>
          stage[acked[c]] = "running" /\ acked[c] # s
    BY <1>1, <1>4 DEF TypeOK
  <2>2. \A r \in Streams : stage'[r] = "running" => stage[r] = "running" /\ r # s
    BY <1>1, <1>4
  <2> QED BY <1>1, <1>2, <2>1, <2>2 DEF Served
<1>14. ClosedMeansGone' BY <1>1 DEF ClosedMeansGone
<1> QED BY <1>6, <1>7, <1>8, <1>9, <1>10, <1>11, <1>12, <1>13, <1>14
----------------------------------------------------------------------------
(* The steps that touch neither the registry nor the backend *)

LEMMA QuietHolds ==
  ASSUME WatchInv, NEW c \in Conns,
         Insert(c) \/ Reply(c) \/ OffWindow(c) \/ OffLane(c) \/ Forget(c)
  PROVE  WatchInv'
<1> USE WatchAssumption DEF WatchInv, Opening, Informed, Begun, Early, registry, backend, client, ends
<1>1. /\ UNCHANGED <<entry, refs, alive, live, stage, closing, status, mine, queue, heard, buried,
                     displaced>>
      /\ pc[c] # "open" /\ status[c] = "up"
  BY DEF Insert, Reply, OffWindow, OffLane, Forget, Idle, Requests
<1>2. /\ pc' \in [Conns -> PC] /\ pc'[c] \notin {"open", "insert", "close"}
      /\ \A d \in Conns : d # c => pc'[d] = pc[d] /\ acked'[d] = acked[d]
                                   /\ (d \in watched' <=> d \in watched)
      /\ watched' \subseteq Conns
  <2>1. pc \in [Conns -> PC] /\ acked \in [Conns -> Streams \cup {None}] /\ watched \subseteq Conns
    BY DEF TypeOK
  <2>2. CASE Insert(c) BY <2>1, <2>2 DEF Insert, Goto, PC
  <2>3. CASE Reply(c) BY <2>1, <2>3 DEF Reply, Goto, PC
  <2>4. CASE OffWindow(c) BY <2>1, <2>4 DEF OffWindow, Goto, Forgotten, PC
  <2>5. CASE OffLane(c)
    <3>1. watched' \in {watched, watched \ {c}} BY <2>5 DEF OffLane
    <3>2. /\ pc' = [pc EXCEPT ![c] = "unwatch"] \/ pc' = [pc EXCEPT ![c] = "idle"]
          /\ acked' = [acked EXCEPT ![c] = None]
      BY <2>5 DEF OffLane, Goto, Forgotten
    <3> QED BY <2>1, <3>1, <3>2 DEF PC
  <2>6. CASE Forget(c) BY <2>1, <2>6 DEF Forget, Goto, PC
  <2> QED BY <2>2, <2>3, <2>4, <2>5, <2>6
<1>3. /\ acked' \in [Conns -> Streams \cup {None}]
      /\ acked'[c] \in {None, acked[c]} \/ (pc[c] = "reply" /\ acked'[c] = mine[c])
      /\ pc'[c] = "idle" => acked'[c] = None \/ (pc[c] = "reply" /\ acked'[c] = mine[c])
      /\ pc'[c] \in {"unwatch", "forget", "close"} => acked'[c] = None
      /\ pc'[c] = "reply" => pc[c] = "insert" /\ c \in watched'
      /\ pc[c] = "reply" => c \in watched'
  <2>1. mine[c] \in Streams \cup {None} /\ acked \in [Conns -> Streams \cup {None}]
    BY DEF TypeOK
  <2>2. CASE Insert(c) BY <2>1, <2>2 DEF Insert, Goto, TypeOK
  <2>3. CASE Reply(c) BY <2>1, <2>3 DEF Reply, Goto, TypeOK, Holding
  <2>4. CASE OffWindow(c) BY <2>1, <2>4 DEF OffWindow, Idle, Goto, Forgotten, TypeOK
  <2>5. CASE OffLane(c) BY <2>1, <2>5 DEF OffLane, Idle, Goto, Forgotten, TypeOK
  <2>6. CASE Forget(c) BY <2>1, <2>6 DEF Forget, Goto, TypeOK, Holding
  <2> QED BY <2>2, <2>3, <2>4, <2>5, <2>6
<1>4. TypeOK'
  <2>1. \A d \in Conns : pc'[d] = "open" <=> pc[d] = "open" BY <1>1, <1>2
  <2> QED BY <1>1, <1>2, <1>3, <2>1 DEF TypeOK
<1>5. Requests' BY <1>1, <1>2, <1>3 DEF Requests
<1>6. Backend' BY <1>1 DEF Backend
<1>7. Known' BY <1>1, <1>2, <1>3 DEF Known
<1>8. Holding' BY <1>1, <1>2, <1>3 DEF Holding
<1>9. Reasons' BY <1>1 DEF Reasons
<1>10. WatchesDie' BY <1>1 DEF WatchesDie
<1>11. Served'
  <2>1. ASSUME NEW d \in Conns, acked'[d] # None, pc'[d] = "idle", stage[acked'[d]] = "running"
        PROVE  entry = acked'[d] /\ live = entry /\ d \in refs /\ d \in watched'
    <3>1. CASE d # c BY <1>2, <2>1, <3>1 DEF Served
    <3>2. CASE d = c
      <4>1. pc[c] = "reply" /\ acked'[c] = mine[c] /\ c \in watched' BY <1>3, <2>1, <3>2
      <4>2. mine[c] \in Streams BY <4>1 DEF Requests
      <4> QED BY <2>1, <3>2, <4>1, <4>2 DEF Holding, Backend
    <3> QED BY <3>1, <3>2
  <2> QED BY <1>1, <2>1 DEF Served
<1>12. ClosedMeansGone' BY <1>1 DEF ClosedMeansGone
<1> QED BY <1>4, <1>5, <1>6, <1>7, <1>8, <1>9, <1>10, <1>11, <1>12

LEMMA DeliverHolds == ASSUME WatchInv, NEW c \in Conns, Deliver(c) PROVE WatchInv'
<1> USE WatchAssumption DEF WatchInv, Opening, Informed, Begun, Early, registry, backend, ends
<1>1. /\ queue[c] # <<>> /\ queue' = [queue EXCEPT ![c] = Tail(queue[c])]
      /\ heard' \in {heard, [heard EXCEPT ![c] = @ \cup {Head(queue[c])}]}
      /\ UNCHANGED <<entry, refs, alive, live, stage, closing, status, pc, mine, watched, acked,
                     buried, displaced>>
  BY DEF Deliver
<1>2. /\ queue \in [Conns -> Seq(Streams)] /\ heard \in [Conns -> SUBSET Streams]
      /\ queue[c] \in Seq(Streams)
      /\ Head(queue[c]) \in Streams /\ Head(queue[c]) \in buried \cup displaced
  <2>1. queue[c] \in Seq(Streams) /\ queue[c] # <<>> BY <1>1 DEF TypeOK
  <2>2. 1 \in 1..Len(queue[c]) /\ Head(queue[c]) = queue[c][1] BY <2>1
  <2> QED BY <2>1, <2>2 DEF TypeOK, Reasons
<1>3. queue' \in [Conns -> Seq(Streams)] /\ heard' \in [Conns -> SUBSET Streams]
  BY <1>1, <1>2
<1>4. TypeOK' BY <1>1, <1>3 DEF TypeOK
<1>5. Requests' BY <1>1 DEF Requests
<1>6. Backend' BY <1>1 DEF Backend
<1>7. Known' BY <1>1 DEF Known
<1>8. Holding' BY <1>1 DEF Holding
<1>9. Reasons'
  <2>1. \A i \in 1..Len(Tail(queue[c])) : Tail(queue[c])[i] \in buried \cup displaced
    <3>1. /\ Len(Tail(queue[c])) = Len(queue[c]) - 1 /\ Len(queue[c]) \in Nat
          /\ \A i \in 1..Len(Tail(queue[c])) : Tail(queue[c])[i] = queue[c][i + 1]
      BY <1>1, <1>2
    <3>2. \A i \in 1..Len(queue[c]) : queue[c][i] \in buried \cup displaced BY DEF Reasons
    <3> QED BY <3>1, <3>2
  <2>2. \A d \in Conns : d # c => queue'[d] = queue[d] BY <1>1, <1>2
  <2>3. queue'[c] = Tail(queue[c]) BY <1>1, <1>2
  <2> QED BY <1>1, <2>1, <2>2, <2>3 DEF Reasons
<1>10. WatchesDie' BY <1>1 DEF WatchesDie
<1>11. Served' BY <1>1 DEF Served
<1>12. ClosedMeansGone' BY <1>1, <1>2 DEF ClosedMeansGone
<1> QED BY <1>4, <1>5, <1>6, <1>7, <1>8, <1>9, <1>10, <1>11, <1>12

\* A client hangs up; the open it waits for is left to itself.
LEMMA HangUpHolds ==
  ASSUME WatchInv, NEW c \in Conns, HangUp(c) \/ HangUpRemote(c) PROVE WatchInv'
<1> USE WatchAssumption
    DEF WatchInv, Opening, Informed, Begun, Early, registry, backend, client, ends
<1>1. /\ status' = [status EXCEPT ![c] = "hungup"] /\ status[c] = "up"
      /\ acked' = [acked EXCEPT ![c] = None] /\ queue' = [queue EXCEPT ![c] = <<>>]
      /\ UNCHANGED <<entry, refs, alive, live, closing, mine, watched, heard, buried, displaced>>
  BY DEF HangUp, HangUpRemote, Idle
<1>2. pc' = [pc EXCEPT ![c] = "idle"]
  BY DEF HangUp, HangUpRemote, Idle, Goto, TypeOK
<1>3. stage' = IF pc[c] = "open" THEN [stage EXCEPT ![mine[c]] = "abandoned"] ELSE stage
  BY DEF HangUp, HangUpRemote, Aborted, Idle
<1>4. pc[c] = "open" => mine[c] \in Streams /\ stage[mine[c]] = "opening"
  BY DEF Requests, TypeOK
<1>5. /\ stage' \in [Streams -> Stage]
      /\ \A s \in Streams : stage[s] # "opening" => stage'[s] = stage[s]
      /\ \A s \in Streams : stage[s] = "opening" =>
           stage'[s] = IF pc[c] = "open" /\ s = mine[c] THEN "abandoned" ELSE "opening"
  BY <1>3, <1>4 DEF TypeOK, Stage
<1>6. \A s \in Streams : (stage'[s] = "running" <=> stage[s] = "running")
                         /\ (Begun(s) <=> Begun(s)')
  BY <1>5
<1>7. TypeOK'
  <2>1. \A s \in Streams :
          stage'[s] = "opening" <=> \E d \in Conns : pc'[d] = "open" /\ mine[d] = s
    <3>1. \A d \in Conns : d # c => pc'[d] = pc[d] BY <1>2 DEF TypeOK
    <3>2. pc'[c] = "idle" BY <1>2 DEF TypeOK
    <3>3. CASE pc[c] = "open"
      <4>1. \A d \in Conns : pc'[d] # "open" BY <3>1, <3>2, <3>3 DEF Requests
      <4>2. \A s \in Streams : stage[s] = "opening" => s = mine[c]
        BY <3>3 DEF Requests, TypeOK
      <4> QED BY <1>5, <3>3, <4>1, <4>2
    <3>4. CASE pc[c] # "open"
      <4>1. \A d \in Conns : pc'[d] = "open" <=> pc[d] = "open" BY <3>1, <3>2, <3>4
      <4>2. stage' = stage BY <1>3, <3>4
      <4> QED BY <4>1, <4>2 DEF TypeOK
    <3> QED BY <3>3, <3>4
  <2>2. /\ pc' \in [Conns -> PC] /\ status' \in [Conns -> {"up", "hungup", "down"}]
        /\ acked' \in [Conns -> Streams \cup {None}]
    BY <1>1, <1>2 DEF TypeOK, PC
  <2>3. queue' \in [Conns -> Seq(Streams)]
    <3>1. queue \in [Conns -> Seq(Streams)] /\ <<>> \in Seq(Streams) BY DEF TypeOK
    <3> QED BY <1>1, <3>1
  <2> QED BY <1>1, <1>5, <2>1, <2>2, <2>3 DEF TypeOK
<1>8. Requests' BY <1>1, <1>2 DEF Requests, TypeOK
<1>9. Backend' BY <1>1, <1>5, <1>6 DEF Backend, TypeOK
<1>10. Known'
  <2>1. \A s \in closing : Begun(s)' BY <1>6 DEF Known, TypeOK
  <2>2. ASSUME NEW d \in Conns, pc'[d] \in {"insert", "reply"} PROVE stage'[mine[d]] \notin Early
    <3>1. pc[d] \in {"insert", "reply"} BY <1>2, <2>2 DEF TypeOK
    <3>2. mine[d] \in Streams /\ Begun(mine[d]) BY <3>1 DEF Requests, Known
    <3> QED BY <3>2, <1>6
  <2>3. ASSUME NEW d \in Conns, acked'[d] # None PROVE stage'[acked'[d]] \notin Early
    <3>1. acked'[d] = acked[d] /\ acked[d] \in Streams BY <1>1, <2>3 DEF TypeOK
    <3>2. Begun(acked[d]) BY <2>3, <3>1 DEF Known
    <3> QED BY <3>1, <3>2, <1>6
  <2>4. entry # None => stage'[entry] \in {"running", "eof"} BY <1>5 DEF Known, TypeOK
  <2> QED BY <1>1, <2>1, <2>2, <2>3, <2>4 DEF Known
<1>11. Holding'
  <2>1. \A d \in Conns : pc'[d] # "idle" => d # c /\ pc'[d] = pc[d] /\ acked'[d] = acked[d]
    BY <1>1, <1>2 DEF TypeOK
  <2>2. \A d \in Conns : pc[d] \in {"insert", "reply"} => mine[d] \in Streams
    BY DEF Requests
  <2> QED BY <1>1, <1>6, <2>1, <2>2 DEF Holding
<1>12. Reasons'
  <2>1. entry # None => stage'[entry] = stage[entry] BY <1>5 DEF Known, TypeOK
  <2>2. \A d \in Conns : queue'[d] = queue[d] \/ queue'[d] = <<>> BY <1>1 DEF TypeOK
  <2> QED BY <1>1, <2>1, <2>2 DEF Reasons
<1>13. WatchesDie' BY <1>1 DEF WatchesDie, TypeOK
<1>14. Served'
  <2>1. \A d \in Conns : acked'[d] # None =>
          d # c /\ acked'[d] = acked[d] /\ acked[d] \in Streams /\ pc'[d] = pc[d]
    BY <1>1, <1>2 DEF TypeOK
  <2>2. \A d \in Conns :
          acked'[d] # None /\ pc'[d] = "idle" /\ stage'[acked'[d]] = "running" =>
            entry = acked'[d] /\ live = entry /\ d \in refs /\ d \in watched
    BY <1>6, <2>1 DEF Served
  <2>3. \A s \in Streams : stage'[s] = "running" => s = entry \/ s \in closing
    BY <1>6 DEF Served
  <2> QED BY <1>1, <2>2, <2>3 DEF Served
<1>15. ClosedMeansGone' BY <1>1 DEF ClosedMeansGone
<1> QED BY <1>7, <1>8, <1>9, <1>10, <1>11, <1>12, <1>13, <1>14, <1>15

LEMMA ReusedHolds == ASSUME WatchInv, WindowReused PROVE WatchInv'
BY DEF WindowReused, registry, client, ends, WatchInv, TypeOK, Requests, Backend, Known, Holding,
       Reasons, WatchesDie, Served, ClosedMeansGone, Opening, Informed, Begun, Early
----------------------------------------------------------------------------
LEMMA ConnectionHolds ==
  ASSUME WatchInv, NEW c \in Conns, Connection(c) PROVE WatchInv'
BY JoinHolds, OpenHolds, OpenedHolds, OpenFailedHolds, QuietHolds, UnwatchHolds, DeliverHolds,
   HangUpHolds, CloseSessionHolds
   DEF Connection

LEMMA StepHolds == ASSUME WatchInv, [Next]_vars PROVE WatchInv'
<1>1. ASSUME NEW c \in Conns, Connection(c) PROVE WatchInv' BY <1>1, ConnectionHolds
<1>2. ASSUME NEW s \in Streams, StreamStep(s) PROVE WatchInv'
  BY <1>2, AbandonedHolds, CloseHolds, EofHolds DEF StreamStep
<1>3. CASE Output \/ WindowGone BY <1>3, GoneHolds
<1>4. CASE WindowReused BY <1>4, ReusedHolds
<1>5. CASE UNCHANGED vars
  BY <1>5 DEF vars, registry, backend, client, ends, WatchInv, TypeOK, Requests, Backend, Known,
              Holding, Reasons, WatchesDie, Served, ClosedMeansGone, Opening, Informed, Begun, Early
<1> QED BY <1>1, <1>2, <1>3, <1>4, <1>5 DEF Next, Connection, StreamStep

LEMMA Invariance == Spec => []WatchInv
<1>1. Init => WatchInv BY InitHolds
<1>2. WatchInv /\ [Next]_vars => WatchInv' BY StepHolds
<1> QED BY <1>1, <1>2, PTL DEF Spec
----------------------------------------------------------------------------
\* Registry, backend, requests, sessions and clients keep their types, and a stream is
\* being opened exactly when a request waits for it under the lock.
THEOREM TypeCorrect == Spec => []TypeOK
<1>1. WatchInv => TypeOK BY DEF WatchInv
<1> QED BY <1>1, Invariance, PTL

\* No reference outlives its connection, and the entry exists exactly as long as
\* somebody holds one.
THEOREM WatchesDieWithConnections == Spec => []WatchesDie
<1>1. WatchInv => WatchesDie BY DEF WatchInv
<1> QED BY <1>1, Invariance, PTL

\* Whoever was told it watches a stream that runs is served by it, and no stream runs
\* for nobody.
THEOREM WatchersServed == Spec => []Served
<1>1. WatchInv => Served BY DEF WatchInv
<1> QED BY <1>1, Invariance, PTL

\* A client hears stream_closed only for a stream whose window disappeared, or that an
\* aborted open displaced.
THEOREM ClosesTruthful == Spec => []ClosedMeansGone
<1>1. WatchInv => ClosedMeansGone BY DEF WatchInv
<1> QED BY <1>1, Invariance, PTL
=============================================================================
