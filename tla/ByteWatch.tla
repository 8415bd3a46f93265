----------------------------- MODULE ByteWatch -----------------------------
(***************************************************************************)
(* The shared raw-terminal stream of one window: the registry of watches    *)
(* (bytes_stream.rs), the control stream of the tmux backend it owns, the    *)
(* forwarder task of every stream instance, and the connections that watch,  *)
(* release, receive events and disconnect (rpc.rs, socket.rs, remote.rs).    *)
(*                                                                         *)
(* The registry lock is a tokio mutex: `watch` keeps it across the backend   *)
(* call that opens the stream, everybody else takes and drops it in a step.  *)
(* Streams of different windows share nothing but that lock. The bytes, their *)
(* sequence numbers and the initial grid are left out.                       *)
(***************************************************************************)
EXTENDS Naturals, Sequences

CONSTANTS
  Conns,       \* connections
  Remote,      \* those of the WebSocket bridge; the rest use the local socket
  Streams,     \* stream instances: generation and backend tag in one, 1..n
  None

ASSUME WatchAssumption ==
  /\ Remote \subseteq Conns
  /\ Streams \subseteq Nat
  /\ None \notin Streams

VARIABLES
  \* the registry
  entry,     \* stream owned by the window's WatchEntry, or None
  refs,      \* its connection ids
  \* the backend and the forwarders
  alive,     \* the tmux window exists
  live,      \* the control stream the backend has on record for the window
  stage,     \* of every stream instance, see Stage
  closing,   \* close_byte_stream calls not yet executed
  \* the connections
  status,    \* up, hung up (session still registered), or down
  pc, mine,  \* control point of a watch_bytes request, and the stream it is about
  watched,   \* ConnSession.watched_bytes names the window
  queue,     \* stream_closed events broadcast that the connection has not pulled yet
  \* the clients
  acked,     \* stream the client believes it is watching
  heard,     \* streams whose stream_closed the client received
  \* history
  buried,    \* streams that ended because their window disappeared
  displaced  \* streams an abandoned open of the same window took the place of

registry == <<entry, refs>>
backend == <<alive, live, stage, closing>>
client == <<acked, heard>>
ends == <<buried, displaced>>
vars == <<registry, backend, status, pc, mine, watched, queue, client, ends>>

\* opening: open_byte_stream runs and its caller waits; abandoned: it runs and
\* its caller was cancelled; running: the forwarder drains it; orphan: open,
\* with its receiver dropped; eof: the forwarder has still to clean up
Stage == {"unused", "opening", "abandoned", "running", "orphan", "eof", "done"}
PC == {"idle", "open", "insert", "reply", "unwatch", "close", "forget"}

TypeOK ==
  /\ entry \in Streams \cup {None} /\ refs \subseteq Conns
  /\ alive \in BOOLEAN /\ live \in Streams \cup {None}
  /\ stage \in [Streams -> Stage] /\ closing \subseteq Streams
  /\ status \in [Conns -> {"up", "hungup", "down"}]
  /\ pc \in [Conns -> PC]
  /\ mine \in [Conns -> Streams \cup {None}]
  /\ \A s \in Streams : stage[s] = "opening" <=> \E c \in Conns : pc[c] = "open" /\ mine[c] = s
  /\ watched \subseteq Conns
  /\ queue \in [Conns -> Seq(Streams)]
  /\ acked \in [Conns -> Streams \cup {None}]
  /\ heard \in [Conns -> SUBSET Streams]
  /\ buried \subseteq Streams /\ displaced \subseteq Streams

Init ==
  /\ entry = None /\ refs = {}
  /\ alive = TRUE /\ live = None
  /\ stage = [s \in Streams |-> "unused"] /\ closing = {}
  /\ status = [c \in Conns |-> "up"]
  /\ pc = [c \in Conns |-> "idle"] /\ mine = [c \in Conns |-> None]
  /\ watched = {}
  /\ queue = [c \in Conns |-> <<>>]
  /\ acked = [c \in Conns |-> None] /\ heard = [c \in Conns |-> {}]
  /\ buried = {} /\ displaced = {}

----------------------------------------------------------------------------
(* Helpers *)

Locked == \E c \in Conns : pc[c] = "open"
Goto(c, label) == pc' = [pc EXCEPT ![c] = label]
Idle(c) == status[c] = "up" /\ pc[c] = "idle"

\* broadcast the end of a stream to every connection
PublishClosed(s) ==
  queue' = [c \in Conns |-> IF status[c] = "down" THEN queue[c] ELSE Append(queue[c], s)]

----------------------------------------------------------------------------
(* agent.watch_bytes on:true *)

\* join the entry that is there
WatchJoin(c) ==
  /\ Idle(c) /\ ~Locked /\ entry # None
  /\ refs' = refs \cup {c}
  /\ mine' = [mine EXCEPT ![c] = entry]
  /\ Goto(c, "insert")
  /\ UNCHANGED <<entry, backend, status, watched, queue, client, ends>>

\* take a fresh generation and open a stream, holding the lock
WatchOpen(c) ==
  /\ Idle(c) /\ ~Locked /\ entry = None
  /\ \E s \in Streams :
       /\ stage[s] = "unused" /\ \A r \in Streams : stage[r] = "unused" => s <= r
       /\ stage' = [stage EXCEPT ![s] = "opening"]
       /\ mine' = [mine EXCEPT ![c] = s]
  /\ Goto(c, "open")
  /\ UNCHANGED <<registry, alive, live, closing, status, watched, queue, client, ends>>

\* open_byte_stream puts the new control stream on record; the one that was
\* there is told to detach, which ends it
Replaced == [stage EXCEPT ![live] = IF @ = "running" THEN "eof" ELSE "done"]
Recorded(s) == IF live = None THEN stage ELSE Replaced

\* the open succeeds and its caller inserts the entry (it holds the lock, so
\* nobody sees the backend's record without the entry)
Opened(c) ==
  LET s == mine[c] IN
  /\ pc[c] = "open" /\ alive
  /\ live' = s /\ stage' = [Recorded(s) EXCEPT ![s] = "running"]
  /\ entry' = s /\ refs' = {c}
  /\ Goto(c, "insert")
  /\ UNCHANGED <<alive, closing, status, mine, watched, queue, client, ends>>

\* the open fails: the request answers with the error
OpenFailed(c) ==
  /\ pc[c] = "open" /\ ~alive
  /\ stage' = [stage EXCEPT ![mine[c]] = "done"]
  /\ Goto(c, "idle")
  /\ UNCHANGED <<registry, alive, live, closing, status, mine, watched, queue, client,
                 ends>>

\* the blocking open of a cancelled request runs on: its stream has no reader
AbandonedOpen(s) ==
  /\ stage[s] = "abandoned"
  /\ IF alive THEN /\ live' = s
                   /\ stage' = [Recorded(s) EXCEPT ![s] = "orphan"]
                   /\ displaced' = displaced \cup ({live} \cap Streams)
              ELSE /\ stage' = [stage EXCEPT ![s] = "done"]
                   /\ UNCHANGED <<live, displaced>>
  /\ UNCHANGED <<registry, alive, closing, status, pc, mine, watched, queue, client,
                 buried>>

\* the session's filter learns of the window after `watch` has returned
Insert(c) ==
  /\ pc[c] = "insert" /\ Goto(c, "reply")
  /\ watched' = watched \cup {c}
  /\ UNCHANGED <<registry, backend, status, mine, queue, client, ends>>

\* size_named, then the answer with the stream cursor
Reply(c) ==
  /\ pc[c] = "reply" /\ Goto(c, "idle")
  /\ acked' = [acked EXCEPT ![c] = mine[c]]
  /\ UNCHANGED <<registry, backend, status, mine, watched, queue, heard, ends>>

----------------------------------------------------------------------------
(* agent.watch_bytes on:false *)

Forgotten(c) == acked' = [acked EXCEPT ![c] = None]

\* with a window: release it
OffWindow(c) ==
  /\ Idle(c) /\ Goto(c, "unwatch") /\ Forgotten(c)
  /\ UNCHANGED <<registry, backend, status, mine, watched, queue, heard, ends>>

\* with a lane only: drop names the registry does not know, release the rest
OffLane(c) ==
  /\ Idle(c) /\ ~Locked /\ Forgotten(c)
  /\ watched' = IF entry = None THEN watched \ {c} ELSE watched
  /\ Goto(c, IF c \in watched' THEN "unwatch" ELSE "idle")
  /\ UNCHANGED <<registry, backend, status, mine, queue, heard, ends>>

\* unwatch: the last reference takes the entry out before the backend is closed
UnwatchBug(c) ==
  /\ pc[c] = "unwatch" /\ ~Locked
  /\ IF entry # None /\ refs \subseteq {c}
     THEN /\ refs' = {} /\ UNCHANGED entry
          /\ closing' = closing \cup {entry}
          /\ mine' = [mine EXCEPT ![c] = entry] /\ Goto(c, "close")
     ELSE /\ refs' = refs \ {c} /\ Goto(c, "forget")
          /\ UNCHANGED <<entry, closing, mine>>
  /\ UNCHANGED <<alive, live, stage, status, watched, queue, client, ends>>
Unwatch(c) ==
  /\ pc[c] = "unwatch" /\ ~Locked
  /\ IF entry # None /\ refs \subseteq {c}
     THEN /\ entry' = None /\ refs' = {}
          /\ closing' = closing \cup {entry}
          /\ mine' = [mine EXCEPT ![c] = entry] /\ Goto(c, "close")
     ELSE /\ refs' = refs \ {c} /\ Goto(c, "forget")
          /\ UNCHANGED <<entry, closing, mine>>
  /\ UNCHANGED <<alive, live, stage, status, watched, queue, client, ends>>

\* close_byte_stream by tag, in the blocking pool: nobody can cancel it
CloseStream(s) ==
  /\ s \in closing /\ closing' = closing \ {s}
  /\ IF live = s THEN live' = None /\ stage' = Replaced
                 ELSE UNCHANGED <<live, stage>>
  /\ pc' = [c \in Conns |-> IF pc[c] = "close" /\ mine[c] = s THEN "forget" ELSE pc[c]]
  /\ UNCHANGED <<registry, alive, status, mine, watched, queue, client, ends>>

\* the session's filter forgets the window
Forget(c) ==
  /\ pc[c] = "forget" /\ Goto(c, "idle")
  /\ watched' = watched \ {c}
  /\ UNCHANGED <<registry, backend, status, mine, queue, client, ends>>

----------------------------------------------------------------------------
(* The stream and its forwarder *)

\* the pane prints: an orphan notices that its receiver is gone, and ends
Output ==
  /\ alive /\ live # None /\ stage[live] = "orphan"
  /\ live' = None /\ stage' = Replaced
  /\ UNCHANGED <<registry, alive, closing, status, pc, mine, watched, queue, client, ends>>

\* the window disappears and every stream of it with it
WindowGone ==
  /\ alive /\ alive' = FALSE /\ live' = None
  /\ stage' = [s \in Streams |-> CASE stage[s] = "running" -> "eof"
                                   [] stage[s] = "orphan" -> "done"
                                   [] OTHER -> stage[s]]
  /\ buried' = buried \cup {s \in Streams : stage[s] = "running"}
  /\ UNCHANGED <<registry, closing, status, pc, mine, watched, queue, client, displaced>>

\* another agent is spawned under the same window name
WindowReused ==
  /\ ~alive /\ alive' = TRUE
  /\ UNCHANGED <<registry, live, stage, closing, status, pc, mine, watched, queue, client,
                 ends>>

\* end of stream: the forwarder removes the entry it still owns, and says so
EofBug(s) ==
  /\ stage[s] = "eof" /\ ~Locked
  /\ stage' = [stage EXCEPT ![s] = "done"]
  /\ IF entry # None THEN /\ entry' = None /\ refs' = {}
                          /\ PublishClosed(s)
                     ELSE UNCHANGED <<registry, queue>>
  /\ UNCHANGED <<alive, live, closing, status, pc, mine, watched, client, ends>>
EofSilentBug(s) ==
  /\ stage[s] = "eof" /\ ~Locked
  /\ stage' = [stage EXCEPT ![s] = "done"]
  /\ IF entry = s THEN entry' = None /\ refs' = {} ELSE UNCHANGED registry
  /\ UNCHANGED <<alive, live, closing, status, pc, mine, watched, queue, client, ends>>
Eof(s) ==
  /\ stage[s] = "eof" /\ ~Locked
  /\ stage' = [stage EXCEPT ![s] = "done"]
  /\ IF entry = s THEN /\ entry' = None /\ refs' = {}
                       /\ PublishClosed(s)
                  ELSE UNCHANGED <<registry, queue>>
  /\ UNCHANGED <<alive, live, closing, status, pc, mine, watched, client, ends>>

\* the connection pulls an event: the filter is the one of this moment. The
\* bridge serves requests and events from one loop, the socket from two tasks.
Deliver(c) ==
  /\ status[c] = "up" /\ queue[c] # <<>>
  /\ c \in Remote => pc[c] = "idle"
  /\ queue' = [queue EXCEPT ![c] = Tail(@)]
  /\ heard' = IF c \in watched THEN [heard EXCEPT ![c] = @ \cup {Head(queue[c])}] ELSE heard
  /\ UNCHANGED <<registry, backend, status, pc, mine, watched, acked, ends>>

----------------------------------------------------------------------------
(* Disconnection *)

\* a local client hangs up: its requests are cancelled where they wait
Aborted(c) == IF pc[c] = "open" THEN [stage EXCEPT ![mine[c]] = "abandoned"] ELSE stage
HangUp(c) ==
  /\ status[c] = "up" /\ c \notin Remote /\ pc[c] # "insert"
  /\ status' = [status EXCEPT ![c] = "hungup"]
  /\ stage' = Aborted(c)
  /\ Goto(c, "idle")
  /\ acked' = [acked EXCEPT ![c] = None]
  /\ queue' = [queue EXCEPT ![c] = <<>>]
  /\ UNCHANGED <<registry, alive, live, closing, mine, watched, heard, ends>>

\* a remote client hangs up: the loop sees it after the request it is serving
HangUpRemote(c) ==
  /\ Idle(c) /\ c \in Remote
  /\ status' = [status EXCEPT ![c] = "hungup"]
  /\ acked' = [acked EXCEPT ![c] = None]
  /\ queue' = [queue EXCEPT ![c] = <<>>]
  /\ UNCHANGED <<registry, backend, pc, mine, watched, heard, ends>>

\* the session guard's task: close_session and unwatch_all
CloseSessionBug(c) ==
  /\ status[c] = "hungup" /\ ~Locked
  /\ status' = [status EXCEPT ![c] = "down"]
  /\ refs' = refs \ {c}
  /\ UNCHANGED <<entry, closing, alive, live, stage, pc, mine, watched, queue, client, ends>>
CloseSession(c) ==
  /\ status[c] = "hungup" /\ ~Locked
  /\ status' = [status EXCEPT ![c] = "down"]
  /\ refs' = refs \ {c}
  /\ IF entry # None /\ refs \subseteq {c}
     THEN entry' = None /\ closing' = closing \cup {entry}
     ELSE UNCHANGED <<entry, closing>>
  /\ UNCHANGED <<alive, live, stage, pc, mine, watched, queue, client, ends>>

Next ==
  \/ \E c \in Conns :
       \/ WatchJoin(c) \/ WatchOpen(c) \/ Opened(c) \/ OpenFailed(c) \/ Insert(c) \/ Reply(c)
       \/ OffWindow(c) \/ OffLane(c) \/ Unwatch(c) \/ Forget(c)
       \/ Deliver(c) \/ HangUp(c) \/ HangUpRemote(c) \/ CloseSession(c)
  \/ \E s \in Streams : AbandonedOpen(s) \/ CloseStream(s) \/ Eof(s)
  \/ Output \/ WindowGone \/ WindowReused

Spec == Init /\ [][Next]_vars

\* a request runs to its end, a connection pulls its events between requests, and
\* the lock, which each call keeps for a moment, is handed to the forwarders
Fairness ==
  /\ \A c \in Conns :
       /\ WF_vars(Opened(c) \/ OpenFailed(c)) /\ WF_vars(Insert(c) \/ Reply(c))
       /\ SF_vars(Deliver(c))
  /\ \A s \in Streams : SF_vars(Eof(s))
FairSpec == Spec /\ Fairness
----------------------------------------------------------------------------
(* Properties *)

\* The registry and its references agree, and nobody's watch outlives the
\* connection it was made on, whatever the connection was doing when it ended
\* (Ctx::close_session: "a connection's byte watches die with it").
WatchesDie ==
  /\ entry = None <=> refs = {}
  /\ \A c \in refs : status[c] # "down"

\* A client that was told it watches a stream is served for as long as that
\* stream runs: late ends of older streams, other clients' releases and
\* disconnections never take the running stream away from it.
\* And no stream runs for nobody: a running one is the entry's, or its close is
\* under way.
Served ==
  /\ \A c \in Conns :
       acked[c] # None /\ pc[c] = "idle" /\ stage[acked[c]] = "running"
         => entry = acked[c] /\ live = entry /\ c \in refs /\ c \in watched
  /\ \A s \in Streams : stage[s] = "running" => s = entry \/ s \in closing

\* pubsub.rs, docs/protocol.md: stream_closed means that the watched target
\* disappeared. A release never produces one, nor does the replacement of a stream
\* by a later watch; an open whose request was aborted does, when it ends late
\* (socket.rs, abort_all).
ClosedMeansGone == \A c \in Conns : heard[c] \subseteq buried \cup displaced

\* A client that holds a stream's acknowledgement when the stream ends is told,
\* unless it lets go first.
Told(c, s) == s \in heard[c] \/ acked[c] # s
DeathHeard ==
  \A c \in Conns, s \in Streams : acked[c] = s /\ stage[s] = "eof" ~> Told(c, s)
=============================================================================
