------------------------- MODULE OverlayCacheProofs -------------------------
(* The overlay cache never serves a list older than an invalidation its caller  *)
(* came after: for every set of callers, every number of changes, every order.  *)
EXTENDS OverlayCache, TLAPS

\* the steps of one call, and of a scan
Call(r) ==
  \/ Begin(r) \/ Look(r) \/ Acquire(r) \/ Scan(r) \/ Return(r)
  \/ HangUp(r) \/ Peek(r) \/ Peeked(r)

\* OverlayCache.entry, sniff, flight and every call's bookkeeping keep their types.
LEMMA InitType == Init => TypeOK
  BY OverlayAssumption, SMT
  DEF Init, TypeOK, PC, Scanning, Overlay, Nothing, Never, Start, Changes

LEMMA HandlersType ==
  ASSUME TypeOK, Handlers PROVE TypeOK'
<1> USE OverlayAssumption DEF TypeOK, Changes, Overlay, fleet, terminal, caches, calls
<1>1. CASE Change BY <1>1 DEF Change
<1>2. ASSUME NEW v \in Changes, Invalidate(v) PROVE TypeOK'
  <2>1. settled' \in Nat /\ generation' \in Nat /\ entry' = None
    BY <1>2 DEF Invalidate, Later
  <2>2. invalidated' \subseteq Changes
    BY <1>2 DEF Invalidate
  <2> QED BY <1>2, <2>1, <2>2 DEF Invalidate
<1>3. CASE Repaint BY <1>3 DEF Repaint
<1>4. CASE SendKeys BY <1>4 DEF SendKeys
<1>5. CASE MarkInput BY <1>5 DEF MarkInput
<1>6. CASE Answered BY <1>6 DEF Answered
<1>7. CASE EntryExpires BY <1>7 DEF EntryExpires
<1>8. CASE SniffExpires BY <1>8 DEF SniffExpires
<1> QED BY <1>1, <1>2, <1>3, <1>4, <1>5, <1>6, <1>7, <1>8 DEF Handlers

\* A call that finds an overlay returns it as it is.
LEMMA GotType ==
  ASSUME TypeOK, NEW r \in Readers, entry # None
  PROVE  [got EXCEPT ![r] = entry] \in [Readers -> Overlay]
BY DEF TypeOK

\* The mutex: whoever scans holds it, a call gives it back when it ends.
LEMMA CallHolder ==
  ASSUME TypeOK, NEW r \in Readers, Call(r)
  PROVE  /\ pc' \in [Readers -> PC] /\ flight' \in Readers \cup {None}
         /\ \A q \in Readers : pc'[q] \in Scanning <=> flight' = q
<1>1. /\ pc \in [Readers -> PC] /\ flight \in Readers \cup {None} /\ None \notin Readers
      /\ \A q \in Readers : pc[q] \in Scanning <=> flight = q
  BY OverlayAssumption DEF TypeOK
<1> USE DEF PC, Scanning, Goto
<1>2. CASE Begin(r) BY <1>1, <1>2 DEF Begin, caches
<1>3. CASE Look(r) BY <1>1, <1>3 DEF Look, caches
<1>4. CASE Acquire(r) BY <1>1, <1>4 DEF Acquire
<1>5. CASE Recheck(r)
  <2>1. CASE entry = None
    <3>1. /\ pc[r] = "recheck" /\ pc' = [pc EXCEPT ![r] = "lanes"] /\ flight' = flight
      BY <2>1, <1>5 DEF Recheck
    <3> QED BY <1>1, <3>1
  <2>2. CASE entry # None
    <3>1. /\ pc[r] = "recheck" /\ pc' = [pc EXCEPT ![r] = "return"] /\ flight' = None
      BY <2>2, <1>5 DEF Recheck
    <3> QED BY <1>1, <3>1
  <2> QED BY <2>1, <2>2
<1>6. CASE ListLanes(r) BY <1>1, <1>6 DEF ListLanes, caches
<1>7. CASE Sniff(r) BY <1>1, <1>7 DEF Sniff, caches
<1>8. CASE Capture(r) BY <1>1, <1>8 DEF Capture, caches
<1>9. CASE Store(r) BY <1>1, <1>9 DEF Store
<1>10. CASE Publish(r) BY <1>1, <1>10 DEF Publish
<1>11. CASE Return(r) BY <1>1, <1>11 DEF Return, Over, caches
<1>12. CASE HangUp(r) BY <1>1, <1>12 DEF HangUp, Over
<1>13. CASE Peek(r) BY <1>1, <1>13 DEF Peek, caches
<1>14. CASE Peeked(r) BY <1>1, <1>14 DEF Peeked, Over
<1> QED BY <1>2, <1>3, <1>4, <1>5, <1>6, <1>7, <1>8, <1>9, <1>10, <1>11, <1>12, <1>13,
           <1>14 DEF Call, Scan

LEMMA CallType ==
  ASSUME TypeOK, NEW r \in Readers, Call(r) PROVE TypeOK'
<1>0. got' \in [Readers -> Overlay]
  <2>1. got \in [Readers -> Overlay] /\ Nothing \in Overlay
    BY DEF TypeOK, Nothing, Overlay
  <2>2. world \in Nat /\ pane \in Nat /\ sniff \in Nat \cup {None} BY DEF TypeOK
  <2>3. CASE Begin(r) \/ Acquire(r) \/ Store(r) \/ Publish(r)
    BY <2>1, <2>3 DEF Begin, Acquire, Store, Publish
  <2>4. CASE Look(r) BY <2>1, <2>4, GotType DEF Look
  <2>5. CASE Recheck(r) BY <2>1, <2>5, GotType DEF Recheck
  <2>6. CASE ListLanes(r) BY <2>6, <2>2, <2>1 DEF ListLanes, Overlay
  <2>7. CASE Capture(r) \/ Peek(r) BY <2>7, <2>2, <2>1 DEF Capture, Peek, Overlay
  <2>9. CASE Sniff(r)
    <3>1. CASE sniff = None BY <3>1, <2>1, <2>9 DEF Sniff
    <3>2. CASE sniff # None
      <4>1. sniff \in Nat BY <3>2, <2>2
      <4>2. got' = [got EXCEPT ![r].pane = sniff] BY <3>2, <2>9 DEF Sniff
      <4> HIDE <2>9
      <4> QED BY <4>1, <4>2, <2>1 DEF Overlay
    <3> QED BY <3>1, <3>2
  <2>8. CASE Return(r) \/ HangUp(r) \/ Peeked(r)
    BY <2>1, <2>8 DEF Return, HangUp, Peeked, Over
  <2> QED BY <2>3, <2>4, <2>5, <2>6, <2>7, <2>8, <2>9 DEF Call, Scan
<1>1. pc' \in [Readers -> PC] /\ flight' \in Readers \cup {None}
      /\ \A q \in Readers : pc'[q] \in Scanning <=> flight' = q
  BY CallHolder
<1>2. seen' \in [Readers -> Nat] /\ since' \in [Readers -> Start]
  <2>1. /\ seen \in [Readers -> Nat] /\ since \in [Readers -> Start]
        /\ generation \in Nat /\ settled \in Nat /\ answered \in Nat
    BY DEF TypeOK
  <2>2. CASE Begin(r) BY <2>1, <2>2 DEF Begin, Start
  <2>3. CASE Look(r) \/ Acquire(r) \/ Peek(r) BY <2>1, <2>3 DEF Look, Acquire, Peek, caches
  <2>4. CASE Recheck(r) BY <2>1, <2>4 DEF Recheck
  <2>5. CASE ListLanes(r) \/ Sniff(r) \/ Capture(r) \/ Store(r) \/ Publish(r)
    BY <2>1, <2>5 DEF ListLanes, Sniff, Capture, Store, Publish, caches
  <2>6. CASE Return(r) \/ HangUp(r) \/ Peeked(r)
    BY <2>1, <2>6 DEF Return, HangUp, Peeked, Over, Never, Start
  <2> QED BY <2>2, <2>3, <2>4, <2>5, <2>6 DEF Call, Scan
<1>3. entry' \in Overlay \cup {None} /\ sniff' \in Nat \cup {None}
  <2>1. /\ entry \in Overlay \cup {None} /\ sniff \in Nat \cup {None}
        /\ got[r] \in Overlay /\ got[r].pane \in Nat
    BY DEF TypeOK, Overlay
  <2>2. CASE Begin(r) \/ Look(r) \/ Acquire(r) \/ Peek(r)
    BY <2>1, <2>2 DEF Begin, Look, Acquire, Peek, caches
  <2>3. CASE Recheck(r) \/ ListLanes(r) \/ Sniff(r) \/ Capture(r)
    BY <2>1, <2>3 DEF Recheck, ListLanes, Sniff, Capture, caches
  <2>4. CASE Store(r) BY <2>1, <2>4 DEF Store
  <2>5. CASE Publish(r) BY <2>1, <2>5 DEF Publish
  <2>6. CASE Return(r) \/ HangUp(r) \/ Peeked(r)
    BY <2>1, <2>6 DEF Return, HangUp, Peeked, caches
  <2> QED BY <2>2, <2>3, <2>4, <2>5, <2>6 DEF Call, Scan
<1>4. UNCHANGED <<fleet, terminal, generation>>
  BY DEF Call, Scan, Begin, Look, Acquire, Recheck, ListLanes, Sniff, Capture, Store, Publish,
         Return, HangUp, Peek, Peeked, caches
<1>5. UNCHANGED <<world, invalidated, settled, pane, answering, answered, generation>>
  BY <1>4 DEF fleet, terminal
<1>6. /\ world' \in Nat /\ invalidated' \subseteq Changes /\ settled' \in Nat
      /\ pane' \in Nat /\ answering' \in {"no", "keys", "marked"} /\ answered' \in Nat
      /\ generation' \in Nat
  BY <1>5 DEF TypeOK
<1>7. shown' \in Nat
  <2>1. shown \in Nat /\ got[r].lanes \in Nat /\ (entry # None => entry.lanes \in Nat)
    BY DEF TypeOK, Overlay
  <2>2. \/ shown' = shown \/ shown' = got[r].lanes
        \/ entry # None /\ shown' = entry.lanes
    BY DEF Call, Scan, Begin, Look, Acquire, Recheck, ListLanes, Sniff, Capture, Store, Publish,
           Return, HangUp, Peek, Peeked
  <2> QED BY <2>1, <2>2
<1> QED BY <1>0, <1>1, <1>2, <1>3, <1>6, <1>7 DEF TypeOK

LEMMA StepType ==
  ASSUME TypeOK, [Next]_vars PROVE TypeOK'
<1>1. CASE UNCHANGED vars BY <1>1 DEF TypeOK, vars, fleet, terminal, caches, calls
<1>2. CASE Handlers BY <1>2, HandlersType
<1>3. ASSUME NEW r \in Readers, Call(r) PROVE TypeOK' BY <1>3, CallType
<1> QED BY <1>1, <1>2, <1>3 DEF Next, Call

\* Every reachable state is well typed, and the mutex is held by the one scan
\* there is, wherever calls are dropped.
THEOREM TypeCorrect == Spec => []TypeOK
<1>1. Init => TypeOK BY InitType
<1>2. TypeOK /\ [Next]_vars => TypeOK' BY StepType
<1> QED BY <1>1, <1>2, PTL DEF Spec
----------------------------------------------------------------------------
\* what CacheInv says of one call
Told(r) ==
  /\ since[r].settled <= settled
  /\ pc[r] \in Scanning \ {"recheck"} => seen[r] <= generation
  /\ Listed(r) => got[r].lanes >= since[r].settled
  /\ Listed(r) /\ pc[r] # "return" /\ seen[r] = generation => got[r].lanes >= settled

LEMMA CacheParts ==
  CacheInv <=> /\ TypeOK /\ settled <= world
               /\ entry # None => entry.lanes >= settled
               /\ \A r \in Readers : Told(r)
BY DEF CacheInv, Told

\* Numbers of a well-typed state.
LEMMA Numbers ==
  ASSUME TypeOK
  PROVE  /\ world \in Nat /\ settled \in Nat /\ generation \in Nat
         /\ entry # None => entry.lanes \in Nat
         /\ \A r \in Readers :
              since[r].settled \in Nat /\ seen[r] \in Nat /\ got[r].lanes \in Nat
BY DEF TypeOK, Overlay, Start

LEMMA HandlersCache ==
  ASSUME CacheInv, Handlers PROVE CacheInv'
<1>1. TypeOK /\ TypeOK' BY HandlersType DEF CacheInv
<1>2. settled <= world /\ (entry # None => entry.lanes >= settled) /\ \A r \in Readers : Told(r)
  BY CacheParts
<1>3. ASSUME NEW v \in Changes, Invalidate(v) PROVE CacheInv'
  <2>1. v \in Nat /\ v <= world BY <1>3, OverlayAssumption DEF Invalidate, Changes
  <2>2. settled <= settled' /\ settled' <= world' /\ generation' = generation + 1 /\ entry' = None
    BY <1>1, <1>2, <1>3, <2>1, Numbers DEF Invalidate, Later
  <2>3. ASSUME NEW r \in Readers PROVE Told(r)'
    <3>1. UNCHANGED <<pc, seen, got, since>> BY <1>3 DEF Invalidate, calls
    <3>2. /\ settled' \in Nat /\ settled \in Nat /\ generation \in Nat
          /\ since[r].settled \in Nat /\ seen[r] \in Nat /\ got[r].lanes \in Nat
      BY <1>1, Numbers DEF TypeOK
    <3>3. Told(r) BY <1>2
    <3> QED BY <2>2, <3>1, <3>2, <3>3 DEF Told, Listed, Scanning
  <2> QED BY <1>1, <2>2, <2>3 DEF CacheInv, Told
<1>4. ASSUME Answered PROVE CacheInv'
  <2>1. ASSUME NEW r \in Readers PROVE Told(r)'
    <3>1. UNCHANGED <<pc, seen, got, since, settled>> /\ generation' = generation + 1
      BY <1>4 DEF Answered, calls, fleet
    <3>2. generation \in Nat /\ seen[r] \in Nat BY <1>1, Numbers
    <3>3. Told(r) BY <1>2
    <3> QED BY <3>1, <3>2, <3>3 DEF Told, Listed, Scanning
  <2> QED BY <1>1, <1>2, <1>4, <2>1 DEF CacheInv, Told, Answered, fleet
<1>5. ASSUME Change PROVE CacheInv'
  BY <1>1, <1>2, <1>5, Numbers DEF Change, CacheInv, Told, Listed, caches, calls
<1>6. ASSUME EntryExpires PROVE CacheInv'
  BY <1>1, <1>2, <1>6 DEF EntryExpires, CacheInv, Told, Listed, fleet, calls
<1>7. ASSUME Repaint \/ SendKeys \/ MarkInput \/ SniffExpires
      PROVE CacheInv'
  <2>1. UNCHANGED <<world, settled, generation, entry, pc, seen, got, since>>
    BY <1>7 DEF Repaint, SendKeys, MarkInput, SniffExpires, fleet, caches, calls
  <2> QED BY <1>1, <1>2, <2>1 DEF CacheInv, Told, Listed
<1> QED BY <1>3, <1>4, <1>5, <1>6, <1>7 DEF Handlers

LEMMA CallCache ==
  ASSUME CacheInv, NEW r \in Readers, Call(r) PROVE CacheInv'
<1>1. TypeOK /\ TypeOK' BY CallType DEF CacheInv
<1>2. settled <= world /\ (entry # None => entry.lanes >= settled) /\ \A q \in Readers : Told(q)
  BY CacheParts
<1>3. UNCHANGED <<world, settled, generation>>
  BY DEF Call, Scan, Begin, Look, Acquire, Recheck, ListLanes, Sniff, Capture, Store,
         Publish, Return, HangUp, Peek, Peeked, fleet, caches
<1>4. entry' # None => entry'.lanes >= settled'
  <2>1. CASE entry' = entry BY <1>2, <1>3, <2>1
  <2>2. CASE entry' # entry
    <3>1. Publish(r) /\ seen[r] = generation /\ entry' = got[r]
      BY <2>2 DEF Call, Scan, Begin, Look, Acquire, Recheck, ListLanes, Sniff, Capture,
                  Store, Publish, Return, HangUp, Peek, Peeked, caches
    <3>2. got[r].lanes >= settled BY <1>2, <3>1 DEF Told, Listed, Publish
    <3> QED BY <1>3, <3>1, <3>2
  <2> QED BY <2>1, <2>2
<1>5. ASSUME NEW q \in Readers, q # r PROVE Told(q)'
  <2>1. /\ pc'[q] = pc[q] /\ seen'[q] = seen[q] /\ got'[q] = got[q] /\ since'[q] = since[q]
    BY <1>1, <1>5 DEF Call, Scan, Begin, Look, Acquire, Recheck, ListLanes, Sniff, Capture,
         Store, Publish, Return, HangUp, Peek, Peeked, Over, Goto, TypeOK
  <2> QED BY <1>2, <1>3, <2>1 DEF Told, Listed
<1>6. Told(r)'
  <2>0. Told(r) /\ pc \in [Readers -> PC] /\ seen \in [Readers -> Nat]
        /\ got \in [Readers -> Overlay] /\ since \in [Readers -> Start]
        /\ settled \in Nat /\ generation \in Nat
    BY <1>1, <1>2 DEF TypeOK
  <2>1. CASE Begin(r)
    BY <2>0, <2>1, <1>3 DEF Begin, Goto, Told, Listed, Scanning, Start
  <2>2. CASE Look(r)
    BY <2>0, <2>2, <1>2, <1>3, Numbers, <1>1 DEF Look, Goto, Told, Listed, Scanning
  <2>3. CASE Acquire(r)
    BY <2>0, <2>3, <1>3 DEF Acquire, Goto, Told, Listed, Scanning
  <2>4. CASE Recheck(r)
    BY <2>0, <2>4, <1>2, <1>3, Numbers, <1>1 DEF Recheck, Goto, Told, Listed, Scanning
  <2>5. CASE ListLanes(r)
    BY <2>0, <2>5, <1>2, <1>3, Numbers, <1>1 DEF ListLanes, Goto, Told, Listed, Scanning, Overlay, calls
  <2>6. CASE Sniff(r) \/ Capture(r)
    <3>1. got'[r].lanes = got[r].lanes
      BY <2>0, <2>6 DEF Sniff, Capture, Overlay
    <3>2. /\ pc[r] \in {"sniff", "capture"} /\ pc'[r] \in {"capture", "publish", "store"}
          /\ UNCHANGED <<seen, since>>
      BY <2>0, <2>6 DEF Sniff, Capture, Goto
    <3> QED BY <2>0, <3>1, <3>2, <1>3 DEF Told, Listed, Scanning
  <2>7. CASE Store(r) \/ Publish(r)
    <3>1. /\ pc[r] \in {"store", "publish"} /\ pc'[r] \in {"publish", "return"}
          /\ UNCHANGED <<seen, got, since>>
      BY <2>0, <2>7 DEF Store, Publish, Goto
    <3> QED BY <2>0, <3>1, <1>3 DEF Told, Listed, Scanning
  <2>8. CASE Return(r) \/ HangUp(r) \/ Peeked(r)
    BY <2>0, <2>8, <1>3 DEF Return, HangUp, Peeked, Over, Goto, Told, Listed, Scanning, Never
  <2>9. CASE Peek(r)
    BY <2>0, <2>9, <1>3 DEF Peek, Goto, Told, Listed, Scanning
  <2> QED BY <2>1, <2>2, <2>3, <2>4, <2>5, <2>6, <2>7, <2>8, <2>9 DEF Call, Scan
<1> QED BY <1>1, <1>2, <1>3, <1>4, <1>5, <1>6 DEF CacheInv, Told

\* The cache, and every scan that may still publish into it, is as new as the last
\* invalidation.
THEOREM CacheFresh == Spec => []CacheInv
<1>1. Init => CacheInv
  BY InitType, OverlayAssumption DEF Init, CacheInv, Listed, Scanning, Never, Nothing
<1>2. CacheInv /\ [Next]_vars => CacheInv'
  <2> SUFFICES ASSUME CacheInv, [Next]_vars PROVE CacheInv' OBVIOUS
  <2>1. CASE UNCHANGED vars
    <3>1. TypeOK' BY <2>1, StepType DEF CacheInv
    <3> QED BY <2>1, <3>1 DEF CacheInv, Listed, vars, fleet, terminal, caches, calls
  <2>2. CASE Handlers BY <2>2, HandlersCache
  <2>3. ASSUME NEW r \in Readers, Call(r) PROVE CacheInv' BY <2>3, CallCache
  <2> QED BY <2>1, <2>2, <2>3 DEF Next, Call
<1> QED BY <1>1, <1>2, PTL DEF Spec

\* invalidate_overlay promises that "the action shows up immediately": no caller of
\* lanes_with_agents gets a list older than an invalidation it came after.
THEOREM InvalidationSeen == Spec => []SeesChanges
<1>1. CacheInv => SeesChanges BY DEF CacheInv, SeesChanges, Listed
<1> QED BY <1>1, CacheFresh, PTL
----------------------------------------------------------------------------
(* OverlayCache implements FreshReads *)

\* Lists come out in the order they were made: while one is made the cache is empty, so none
\* is told in between, and nothing in the cache or in the making is older than what was told.
Making(r) == pc[r] \in Scanning \ {"recheck"}
ServedInv ==
  /\ shown <= world
  /\ entry # None => shown <= entry.lanes /\ entry.lanes <= world
  /\ \A r \in Readers :
       /\ Making(r) => entry = None
       /\ Making(r) /\ Listed(r) => shown <= got[r].lanes
       /\ Listed(r) => got[r].lanes <= world

\* what ServedInv says of one call
Orderly(r) ==
  /\ Making(r) => entry = None
  /\ Making(r) /\ Listed(r) => shown <= got[r].lanes
  /\ Listed(r) => got[r].lanes <= world

LEMMA ServedParts ==
  ServedInv <=> /\ shown <= world
                /\ entry # None => shown <= entry.lanes /\ entry.lanes <= world
                /\ \A r \in Readers : Orderly(r)
BY DEF ServedInv, Orderly

LEMMA HandlersServed == ASSUME TypeOK, ServedInv, Handlers PROVE ServedInv'
<1>1. /\ UNCHANGED <<pc, got, shown>> /\ world' \in {world, world + 1}
      /\ entry' \in {entry, None}
  BY DEF Handlers, Change, Invalidate, Repaint, SendKeys, MarkInput, Answered, EntryExpires,
         SniffExpires, fleet, caches, calls
<1>2. /\ world \in Nat /\ shown \in Nat /\ (entry # None => entry.lanes \in Nat)
      /\ \A r \in Readers : got[r].lanes \in Nat
  BY DEF TypeOK, Overlay
<1> QED BY <1>1, <1>2 DEF ServedInv, Making, Listed

\* Only one call makes a list.
LEMMA OneMaking ==
  ASSUME TypeOK, NEW r \in Readers, NEW q \in Readers, pc[r] \in Scanning, pc[q] \in Scanning
  PROVE  q = r
BY DEF TypeOK

LEMMA CallServed == ASSUME TypeOK, ServedInv, NEW r \in Readers, Call(r) PROVE ServedInv'
<1>1. /\ world \in Nat /\ shown \in Nat /\ got \in [Readers -> Overlay]
      /\ pc \in [Readers -> PC] /\ (entry # None => entry.lanes \in Nat)
      /\ \A q \in Readers : got[q].lanes \in Nat
  BY DEF TypeOK, Overlay
<1>2. /\ shown <= world /\ (entry # None => shown <= entry.lanes /\ entry.lanes <= world)
      /\ \A q \in Readers : Orderly(q)
  BY ServedParts
<1>3. world' = world
  BY DEF Call, Scan, Begin, Look, Acquire, Recheck, ListLanes, Sniff, Capture, Store, Publish,
         Return, HangUp, Peek, Peeked, fleet
<1>4. \A q \in Readers : q # r => pc'[q] = pc[q] /\ got'[q] = got[q]
  BY <1>1 DEF Call, Scan, Begin, Look, Acquire, Recheck, ListLanes, Sniff, Capture, Store,
              Publish, Return, HangUp, Peek, Peeked, Over, Goto
\* a list out of the cache
<1>5. CASE (Look(r) \/ Recheck(r)) /\ entry # None
  <2>1. /\ pc'[r] = "return" /\ got'[r] = entry /\ shown' = entry.lanes /\ entry' = entry
    BY <1>1, <1>5 DEF Look, Recheck, Goto, caches
  <2>2. \A q \in Readers : ~Making(q) BY <1>2, <1>5 DEF Orderly
  <2>3. entry.lanes \in Nat /\ shown <= entry.lanes /\ entry.lanes <= world
    BY <1>1, <1>2, <1>5
  <2>4. ASSUME NEW q \in Readers PROVE Orderly(q)'
    <3>1. CASE q = r BY <1>3, <2>1, <2>3, <3>1 DEF Orderly, Making, Listed, Scanning
    <3>2. CASE q # r
      <4>1. Orderly(q) /\ ~Making(q) BY <1>2, <2>2
      <4> QED BY <1>3, <1>4, <3>2, <4>1 DEF Orderly, Making, Listed
    <3> QED BY <3>1, <3>2
  <2>5. /\ shown' <= world'
        /\ entry' # None => shown' <= entry'.lanes /\ entry'.lanes <= world'
    BY <1>3, <2>1, <2>3
  <2> QED BY <2>4, <2>5 DEF ServedInv, Orderly
\* a list that was made
<1>6. CASE Publish(r)
  <2>1. /\ pc[r] = "publish" /\ pc'[r] = "return" /\ got' = got /\ shown' = got[r].lanes
        /\ entry' \in {got[r], entry}
    BY <1>1, <1>6 DEF Publish, Goto
  <2>2. /\ shown <= got[r].lanes /\ got[r].lanes <= world /\ entry = None
    BY <1>2, <2>1 DEF Orderly, Making, Listed, Scanning
  <2>3. \A q \in Readers : q # r => pc[q] \notin Scanning
    BY <2>1, OneMaking DEF Scanning
  <2>4. \A q \in Readers : Orderly(q)'
    BY <1>1, <1>2, <1>3, <1>4, <2>1, <2>2, <2>3 DEF Orderly, Making, Listed, Scanning
  <2> QED BY <1>1, <1>3, <2>1, <2>2, <2>4 DEF ServedInv, Orderly
\* a scan begins, and lists the fleet
<1>7. CASE Recheck(r) /\ entry = None
  <2>1. /\ pc'[r] = "lanes" /\ UNCHANGED <<got, shown, entry>>
    BY <1>1, <1>7 DEF Recheck, Goto
  <2>2. \A q \in Readers : Orderly(q)'
    BY <1>2, <1>3, <1>4, <1>7, <2>1 DEF Orderly, Making, Listed
  <2> QED BY <1>2, <1>3, <2>1, <2>2 DEF ServedInv, Orderly
<1>8. CASE ListLanes(r)
  <2>1. /\ pc[r] = "lanes" /\ pc'[r] = "sniff" /\ UNCHANGED <<shown, entry>>
        /\ got'[r].lanes = world
    BY <1>1, <1>8 DEF ListLanes, Goto, caches, Overlay
  <2>2. \A q \in Readers : Orderly(q)'
    BY <1>1, <1>2, <1>3, <1>4, <2>1 DEF Orderly, Making, Listed, Scanning
  <2> QED BY <1>2, <1>3, <2>1, <2>2 DEF ServedInv, Orderly
<1>9. CASE Sniff(r) \/ Capture(r) \/ Store(r)
  <2>1. /\ pc[r] \in {"sniff", "capture", "store"} /\ pc'[r] \in {"capture", "store", "publish"}
        /\ got'[r].lanes = got[r].lanes /\ UNCHANGED <<shown, entry>>
    BY <1>1, <1>9 DEF Sniff, Capture, Store, Goto, caches, Overlay
  <2>2. \A q \in Readers : Orderly(q)'
    BY <1>2, <1>3, <1>4, <2>1 DEF Orderly, Making, Listed, Scanning
  <2> QED BY <1>2, <1>3, <2>1, <2>2 DEF ServedInv, Orderly
\* a call that has no list to tell
<1>10. CASE \/ Begin(r) \/ (Look(r) /\ entry = None) \/ Acquire(r) \/ Return(r) \/ HangUp(r)
            \/ Peek(r) \/ Peeked(r)
  <2>1. /\ pc'[r] \in {"look", "wait", "recheck", "idle", "peeked"} /\ UNCHANGED <<shown, entry>>
    BY <1>1, <1>10 DEF Begin, Look, Acquire, Return, HangUp, Peek, Peeked, Over, Goto, caches
  <2>2. \A q \in Readers : Orderly(q)'
    BY <1>2, <1>3, <1>4, <2>1 DEF Orderly, Making, Listed, Scanning
  <2> QED BY <1>2, <1>3, <2>1, <2>2 DEF ServedInv, Orderly
<1> QED BY <1>5, <1>6, <1>7, <1>8, <1>9, <1>10 DEF Call, Scan

LEMMA ServedInvariance == Spec => []ServedInv
<1>1. Init => ServedInv
  BY OverlayAssumption DEF Init, ServedInv, Making, Listed, Scanning
<1>2. TypeOK /\ ServedInv /\ [Next]_vars => ServedInv'
  <2> SUFFICES ASSUME TypeOK, ServedInv, [Next]_vars PROVE ServedInv' OBVIOUS
  <2>1. CASE UNCHANGED vars
    BY <2>1 DEF ServedInv, Making, Listed, vars, fleet, terminal, caches, calls
  <2>2. CASE Handlers BY <2>2, HandlersServed
  <2>3. ASSUME NEW r \in Readers, Call(r) PROVE ServedInv' BY <2>3, CallServed
  <2> QED BY <2>1, <2>2, <2>3 DEF Next, Call
<1> QED BY <1>1, <1>2, TypeCorrect, PTL DEF Spec

Calling == [r \in Readers |-> CallOf(r)]
From == [r \in Readers |-> since[r].settled]
ListOf(r) == IF pc[r] = "return" THEN got[r].lanes ELSE 0
Lists == [r \in Readers |-> ListOf(r)]

\* A step of one call is one of its own in the mapping, too.
LEMMA CallMaps ==
  ASSUME TypeOK, NEW r \in Readers, Call(r)
  PROVE  /\ Calling' = [Calling EXCEPT ![r] = CallOf(r)']
         /\ From' = [From EXCEPT ![r] = since'[r].settled]
         /\ Lists' = [Lists EXCEPT ![r] = ListOf(r)']
         /\ UNCHANGED <<world, settled>>
<1>1. \A q \in Readers : q # r => /\ pc'[q] = pc[q] /\ got'[q] = got[q]
                                   /\ since'[q] = since[q]
  BY DEF Call, Scan, Begin, Look, Acquire, Recheck, ListLanes, Sniff, Capture, Store,
         Publish, Return, HangUp, Peek, Peeked, Over, Goto, TypeOK
<1>2. UNCHANGED <<world, settled>>
  BY DEF Call, Scan, Begin, Look, Acquire, Recheck, ListLanes, Sniff, Capture, Store, Publish,
         Return, HangUp, Peek, Peeked, fleet
<1>3. \A q \in Readers : q # r => CallOf(q)' = CallOf(q) /\ ListOf(q)' = ListOf(q)
  BY <1>1 DEF CallOf, ListOf
<1>4. Calling' = [Calling EXCEPT ![r] = CallOf(r)'] BY <1>3 DEF Calling
<1>5. From' = [From EXCEPT ![r] = since'[r].settled] BY <1>1 DEF From
<1>6. Lists' = [Lists EXCEPT ![r] = ListOf(r)'] BY <1>3 DEF Lists
<1> QED BY <1>2, <1>4, <1>5, <1>6

LEMMA HandlersMap ==
  ASSUME CacheInv, Handlers PROVE Reads!Change \/ Reads!Acknowledge
<1>1. UNCHANGED <<pc, got, since, shown>>
  BY DEF Handlers, Change, Invalidate, Repaint, SendKeys, MarkInput, Answered, EntryExpires,
         SniffExpires, calls
<1>2. Calling' = Calling /\ From' = From /\ Lists' = Lists /\ shown' = shown
  BY <1>1 DEF Calling, CallOf, From, Lists, ListOf
<1>3. world \in Nat /\ settled \in Nat /\ settled <= world BY DEF CacheInv, TypeOK
<1>4. CASE Change
  <2>1. world' = world + 1 /\ settled' = settled BY <1>4 DEF Change
  <2> QED BY <1>2, <2>1 DEF Reads!Change, Calling, From, Lists, ListOf
<1>5. CASE ~Change
  <2>1. world' = world /\ settled' \in settled..world
    <3>1. ASSUME NEW v \in Changes, Invalidate(v) PROVE world' = world /\ settled' \in settled..world
      <4>1. v \in Nat BY OverlayAssumption DEF Changes
      <4> QED BY <1>3, <3>1, <4>1 DEF Invalidate, Later
    <3>2. CASE UNCHANGED fleet BY <1>3, <3>2 DEF fleet
    <3> QED
      BY <1>5, <3>1, <3>2
      DEF Handlers, Repaint, SendKeys, MarkInput, Answered, EntryExpires, SniffExpires, fleet
  <2> QED BY <1>2, <2>1 DEF Reads!Acknowledge, Calling, From, Lists, ListOf
<1> QED BY <1>4, <1>5

LEMMA CallImplements ==
  ASSUME CacheInv, CacheInv', ServedInv, ServedInv', NEW r \in Readers, Call(r)
  PROVE  [Reads!Next]_(Reads!reads)
<1>1. /\ TypeOK /\ pc \in [Readers -> PC] /\ since \in [Readers -> Start]
      /\ got \in [Readers -> Overlay] /\ world \in Nat /\ shown \in Nat /\ settled \in Nat
      /\ shown' \in Nat
  BY DEF CacheInv, TypeOK
<1>2. /\ Calling' = [Calling EXCEPT ![r] = CallOf(r)']
      /\ From' = [From EXCEPT ![r] = since'[r].settled]
      /\ Lists' = [Lists EXCEPT ![r] = ListOf(r)']
      /\ UNCHANGED <<world, settled>>
  BY <1>1, CallMaps
<1>3. Calling[r] = CallOf(r) /\ From[r] = since[r].settled /\ Lists[r] = ListOf(r)
  BY DEF Calling, From, Lists
<1>4. CASE Begin(r)
  <2>1. /\ CallOf(r) = "none" /\ CallOf(r)' = "asked" /\ ListOf(r) = 0 /\ ListOf(r)' = 0
        /\ since'[r].settled = settled /\ shown' = shown
    BY <1>1, <1>4 DEF Begin, Goto, CallOf, ListOf
  <2>2. Lists' = Lists BY <1>2, <1>3, <2>1 DEF Lists
  <2>3. Reads!Ask(r)
    BY <1>2, <1>3, <2>1, <2>2 DEF Reads!Ask, Calling, From, Lists, ListOf
  <2> QED BY <2>3 DEF Reads!Next
\* the moment a call gets its list
<1>5. CASE Publish(r) \/ ((Look(r) \/ Recheck(r)) /\ entry # None)
  <2>1. /\ pc[r] \in {"look", "recheck", "publish"} /\ pc'[r] = "return"
        /\ shown' = got'[r].lanes /\ since' = since
    BY <1>1, <1>5 DEF Publish, Look, Recheck, Goto
  <2>2. /\ CallOf(r) = "asked" /\ CallOf(r)' = "told" /\ ListOf(r)' = shown'
    BY <2>1 DEF CallOf, ListOf
  <2>3. shown <= shown'
    <3>1. CASE Publish(r)
      <4>1. pc[r] = "publish" /\ shown' = got[r].lanes BY <3>1 DEF Publish
      <4> QED BY <4>1 DEF ServedInv, Making, Listed, Scanning
    <3>2. CASE (Look(r) \/ Recheck(r)) /\ entry # None
      <4>1. shown' = entry.lanes BY <3>2 DEF Look, Recheck
      <4> QED BY <3>2, <4>1 DEF ServedInv
    <3> QED BY <1>5, <3>1, <3>2
  <2>4. shown' <= world' BY DEF ServedInv
  <2>5. shown' >= since[r].settled
    <3>1. got'[r].lanes >= since'[r].settled BY <2>1 DEF CacheInv, Listed
    <3> QED BY <2>1, <3>1
  <2>6. From' = From BY <2>1 DEF From
  <2>7. shown' \in shown..world BY <1>1, <1>2, <2>3, <2>4
  <2>8. Reads!Tell(r)
    BY <1>2, <1>3, <2>2, <2>5, <2>6, <2>7 DEF Reads!Tell, Calling, From, Lists, ListOf
  <2> QED BY <2>8 DEF Reads!Next
<1>6. CASE Return(r) \/ HangUp(r) \/ Peeked(r)
  <2>1. /\ CallOf(r)' = "none" /\ since'[r].settled = 0 /\ ListOf(r)' = 0 /\ shown' = shown
    BY <1>1, <1>6 DEF Return, HangUp, Peeked, Over, Goto, CallOf, ListOf, Never
  <2>2. Reads!End(r)
    BY <1>2, <2>1 DEF Reads!End, Calling, From, Lists, ListOf
  <2> QED BY <2>2 DEF Reads!Next
\* what the caller cannot see
<1>7. CASE \/ (Look(r) \/ Recheck(r)) /\ entry = None
           \/ Acquire(r) \/ ListLanes(r) \/ Sniff(r) \/ Capture(r) \/ Store(r) \/ Peek(r)
  <2>1. /\ pc[r] # "return" /\ pc'[r] # "return" /\ since' = since /\ shown' = shown
        /\ pc[r] \in {"idle", "peeked"} <=> pc'[r] \in {"idle", "peeked"}
    BY <1>1, <1>7 DEF Look, Recheck, Acquire, ListLanes, Sniff, Capture, Store, Peek, Goto
  <2>2. CallOf(r)' = CallOf(r) /\ ListOf(r)' = ListOf(r) /\ since'[r].settled = since[r].settled
    BY <2>1 DEF CallOf, ListOf
  <2>3. Calling' = Calling /\ From' = From /\ Lists' = Lists
    BY <1>2, <1>3, <2>2 DEF Calling, From, Lists
  <2> QED BY <1>2, <2>1, <2>3 DEF Reads!reads, Calling, From, Lists, ListOf
<1> QED BY <1>4, <1>5, <1>6, <1>7 DEF Call, Scan

\* OverlayCache implements FreshReads: however changes, invalidations, expiries, scans and
\* dropped calls interleave, a reader is told the fleet of some moment, not before the last
\* change acknowledged when it asked, and no two readers are told it in the wrong order.
THEOREM Refinement == Spec => ImplementsReads
<1>1. Init => Reads!Init
  <2> SUFFICES ASSUME Init PROVE Reads!Init OBVIOUS
  <2>1. \A r \in Readers : CallOf(r) = "none" /\ since[r].settled = 0 /\ ListOf(r) = 0
    BY DEF Init, CallOf, Never, ListOf
  <2> QED BY <2>1 DEF Init, Reads!Init, ListOf
<1>2. CacheInv /\ CacheInv' /\ ServedInv /\ ServedInv' /\ [Next]_vars
      => [Reads!Next]_(Reads!reads)
  <2> SUFFICES ASSUME CacheInv, CacheInv', ServedInv, ServedInv', [Next]_vars
               PROVE  [Reads!Next]_(Reads!reads)
    OBVIOUS
  <2>1. CASE UNCHANGED vars
    <3>1. UNCHANGED <<world, settled, shown, pc, since, got>>
      BY <2>1 DEF vars, fleet, calls
    <3> QED BY <3>1 DEF Reads!reads, CallOf
  <2>2. CASE Handlers BY <2>2, HandlersMap DEF Reads!Next
  <2>3. ASSUME NEW r \in Readers, Call(r) PROVE [Reads!Next]_(Reads!reads)
    BY <2>3, CallImplements
  <2> QED BY <2>1, <2>2, <2>3 DEF Next, Call
<1> QED BY <1>1, <1>2, CacheFresh, ServedInvariance, PTL DEF Spec, ImplementsReads, Reads!Spec
=============================================================================
