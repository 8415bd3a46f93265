----------------------------- MODULE ClientLink -----------------------------
(***************************************************************************)
(* The daemon client (DaemonClient): its clones share one connection; a call    *)
(* that finds it lost reconnects under a lock and replays the watch the client  *)
(* has recorded, and is tried a second time if the connection goes while it    *)
(* waits. Connections are numbered; the daemon may close any of them.           *)
(*                                                                         *)
(* There is one watch, of one window. The channel to the writer never fills.    *)
(* The daemon serves the requests of a connection in their order, although a     *)
(* ping may overtake a watch.                                                  *)
(***************************************************************************)
EXTENDS Naturals, Sequences, FiniteSets

CONSTANTS
  Callers, Keepalive,   \* the tasks that call; Keepalive only pings
  MaxCalls,     \* bound: calls of a task
  MaxLinks      \* bound: connections; beyond it connecting fails

Links == 1..MaxLinks
Nobody == "nobody"

ASSUME LinkAssumption ==
  /\ Keepalive \in Callers /\ Nobody \notin Callers
  /\ MaxCalls \in Nat /\ MaxLinks \in Nat \ {0}

Methods == {"ping", "watch", "unwatch"}
\* a try of a call, or the replay of a connection
Tries == [by : Callers, call : 1..MaxCalls, try : {1, 2}]
Replays == [by : {Nobody}, call : Links, try : {1}]

VARIABLES
  \* the client
  connected, epoch,
  out_tx,      \* the connection its channel belongs to
  pending,     \* tries awaiting their response
  recorded,    \* active_watches has the window
  holder,      \* of the reconnecting lock
  \* a call: its state, method, number, try, and what its oneshot holds
  pc, method, calls, try, oneshot,
  \* the connections
  socket,      \* "none", "open", "lost"
  writer,      \* connections whose writer task runs
  reader,      \* "reading", "cleanup" (it has compared the epoch), "gone"
  requests,    \* on their way to the daemon: [id, method]
  responses,   \* on their way to the client
  \* the daemon
  watching,    \* connections that watch the window
  executed     \* tries it has executed, with their connection

clientState == <<connected, epoch, out_tx, pending, recorded, holder>>
callState == <<pc, method, calls, try, oneshot>>
wires == <<socket, writer, reader, requests, responses>>
daemonSide == <<watching, executed>>
linkVars == <<clientState, callState, wires, daemonSide>>

Stages == {"idle", "check", "lock", "connect", "replay", "insert", "send", "wait"}
Id(c) == [by |-> c, call |-> calls[c], try |-> try[c]]

LinkTypeOK ==
  /\ {connected, recorded} \subseteq BOOLEAN /\ {epoch, out_tx} \subseteq Links
  /\ pending \subseteq Tries /\ holder \in Callers \cup {Nobody}
  /\ pc \in [Callers -> Stages] /\ method \in [Callers -> Methods]
  /\ calls \in [Callers -> 0..MaxCalls] /\ try \in [Callers -> {1, 2}]
  /\ oneshot \in [Callers -> {"empty", "answer", "closed"}]
  /\ socket \in [Links -> {"none", "open", "lost"}] /\ writer \subseteq Links
  /\ reader \in [Links -> {"none", "reading", "cleanup", "gone"}]
  /\ \A e \in Links : \A i \in DOMAIN requests[e] :
       requests[e][i] \in [id : Tries \cup Replays, method : Methods]
  /\ \A e \in Links : \A i \in DOMAIN responses[e] : responses[e][i] \in Tries \cup Replays
  /\ watching \subseteq Links /\ executed \subseteq [id : Tries, link : Links]
  /\ \A c \in Callers : pc[c] \in {"connect", "replay"} <=> holder = c

LinkInit ==
  /\ connected = TRUE /\ epoch = 1 /\ out_tx = 1 /\ pending = {} /\ recorded = FALSE
  /\ holder = Nobody
  /\ pc = [c \in Callers |-> "idle"] /\ method = [c \in Callers |-> "ping"]
  /\ calls = [c \in Callers |-> 0] /\ try = [c \in Callers |-> 1]
  /\ oneshot = [c \in Callers |-> "empty"]
  /\ socket = [e \in Links |-> IF e = 1 THEN "open" ELSE "none"] /\ writer = {1}
  /\ reader = [e \in Links |-> IF e = 1 THEN "reading" ELSE "none"]
  /\ requests = [e \in Links |-> <<>>] /\ responses = [e \in Links |-> <<>>]
  /\ watching = {} /\ executed = {}

To(c, stage) == pc' = [pc EXCEPT ![c] = stage]
At(c, stage) == pc[c] = stage
SendOn(e, id, m) == requests' = [requests EXCEPT ![e] = Append(@, [id |-> id, method |-> m])]
----------------------------------------------------------------------------
(* DaemonClient::call *)

Begin(c) ==
  /\ At(c, "idle") /\ calls[c] < MaxCalls /\ To(c, "check")
  /\ calls' = [calls EXCEPT ![c] = @ + 1] /\ try' = [try EXCEPT ![c] = 1]
  /\ \E m \in IF c = Keepalive THEN {"ping"} ELSE {"watch", "unwatch"} :
       method' = [method EXCEPT ![c] = m]
  /\ UNCHANGED <<clientState, oneshot, wires, daemonSide>>

Check(c) ==
  /\ At(c, "check") /\ To(c, IF connected THEN "insert" ELSE "lock")
  /\ UNCHANGED <<clientState, method, calls, try, oneshot, wires, daemonSide>>

\* reconnect: a no-op if another caller already did
Lock(c) ==
  /\ At(c, "lock") /\ holder = Nobody
  /\ \/ connected /\ To(c, "insert") /\ UNCHANGED holder
     \/ ~connected /\ To(c, "connect") /\ holder' = c
  /\ UNCHANGED <<connected, epoch, out_tx, pending, recorded, method, calls, try, oneshot, wires, daemonSide>>

\* spawn_io on a new connection
Connect(c) ==
  /\ At(c, "connect") /\ epoch < MaxLinks /\ To(c, "replay")
  /\ epoch' = epoch + 1 /\ out_tx' = epoch' /\ connected' = TRUE
  /\ socket' = [socket EXCEPT ![epoch'] = "open"] /\ writer' = writer \cup {epoch'}
  /\ reader' = [reader EXCEPT ![epoch'] = "reading"]
  /\ UNCHANGED <<pending, recorded, holder, method, calls, try, oneshot, requests, responses, daemonSide>>

ConnectFails(c) ==
  /\ At(c, "connect") /\ To(c, "idle") /\ holder' = Nobody
  /\ UNCHANGED <<connected, epoch, out_tx, pending, recorded, method, calls, try, oneshot, wires, daemonSide>>

Replay(c) ==
  /\ At(c, "replay") /\ To(c, "insert") /\ holder' = Nobody
  /\ IF recorded /\ out_tx \in writer
     THEN SendOn(out_tx, [by |-> Nobody, call |-> out_tx, try |-> 1], "watch")
     ELSE UNCHANGED requests
  /\ UNCHANGED <<connected, epoch, out_tx, pending, recorded, method, calls, try, oneshot,
                 socket, writer, reader, responses, daemonSide>>

Insert(c) ==
  /\ At(c, "insert") /\ To(c, "send")
  /\ pending' = pending \cup {Id(c)} /\ oneshot' = [oneshot EXCEPT ![c] = "empty"]
  /\ UNCHANGED <<connected, epoch, out_tx, recorded, holder, method, calls, try, wires, daemonSide>>

\* the first try is followed by a second one, the second by an error
Again(c) ==
  IF try[c] = 1 THEN To(c, "check") /\ try' = [try EXCEPT ![c] = 2]
                ELSE To(c, "idle") /\ UNCHANGED try

Send(c) ==
  /\ At(c, "send")
  /\ \/ /\ out_tx \in writer /\ SendOn(out_tx, Id(c), method[c]) /\ To(c, "wait")
        /\ UNCHANGED <<connected, pending, try>>
     \/ /\ out_tx \notin writer /\ pending' = pending \ {Id(c)} /\ connected' = FALSE
        /\ Again(c) /\ UNCHANGED requests
  /\ UNCHANGED <<epoch, out_tx, recorded, holder, method, calls, oneshot,
                 socket, writer, reader, responses, daemonSide>>

Return(c) ==
  /\ At(c, "wait") /\ oneshot[c] = "answer" /\ To(c, "idle")
  /\ recorded' = CASE method[c] = "watch" -> TRUE
                   [] method[c] = "unwatch" -> FALSE
                   [] OTHER -> recorded
  /\ UNCHANGED <<connected, epoch, out_tx, pending, holder, method, calls, try, oneshot, wires, daemonSide>>

SenderDropped(c) ==
  /\ At(c, "wait") /\ oneshot[c] = "closed" /\ connected' = FALSE /\ Again(c)
  /\ UNCHANGED <<epoch, out_tx, pending, recorded, holder, method, calls, oneshot, wires, daemonSide>>

\* CALL_TIMEOUT
CallTimeoutRetried(c) ==
  /\ At(c, "wait") /\ oneshot[c] = "empty" /\ Again(c)
  /\ pending' = pending \ {Id(c)}
  /\ UNCHANGED <<connected, epoch, out_tx, recorded, holder, method, calls, oneshot, wires, daemonSide>>
CallTimeoutNever(c) == At(c, "wait") /\ UNCHANGED linkVars
CallTimeout(c) ==
  /\ At(c, "wait") /\ oneshot[c] = "empty" /\ To(c, "idle")
  /\ pending' = pending \ {Id(c)}
  /\ UNCHANGED <<connected, epoch, out_tx, recorded, holder, method, calls, try, oneshot, wires, daemonSide>>
----------------------------------------------------------------------------
(* The connections' tasks *)

\* an answer nobody waits for is dropped
ReadResponse(e) ==
  /\ reader[e] = "reading" /\ responses[e] # <<>>
  /\ LET id == Head(responses[e])
     IN /\ pending' = pending \ {id}
        /\ oneshot' = [c \in Callers |-> IF id \in pending /\ id.by = c THEN "answer" ELSE oneshot[c]]
  /\ responses' = [responses EXCEPT ![e] = Tail(@)]
  /\ UNCHANGED <<connected, epoch, out_tx, recorded, holder, pc, method, calls, try,
                 socket, writer, reader, requests, daemonSide>>

\* the reader's loop ends; it cleans up if it belongs to the current connection
ReaderEnds(e) ==
  /\ reader[e] = "reading" /\ socket[e] = "lost" /\ responses[e] = <<>>
  /\ reader' = [reader EXCEPT ![e] = IF epoch = e THEN "cleanup" ELSE "gone"]
  /\ UNCHANGED <<clientState, callState, socket, writer, requests, responses, daemonSide>>

CleanupTrusts(e) ==
  /\ reader[e] = "cleanup" /\ reader' = [reader EXCEPT ![e] = "gone"]
  /\ pending' = {}
  /\ oneshot' = [c \in Callers |-> IF Id(c) \in pending THEN "closed" ELSE oneshot[c]]
  /\ UNCHANGED <<connected, epoch, out_tx, recorded, holder, pc, method, calls, try,
                 socket, writer, requests, responses, daemonSide>>
Cleanup(e) ==
  /\ reader[e] = "cleanup" /\ reader' = [reader EXCEPT ![e] = "gone"]
  /\ connected' = FALSE /\ pending' = {}
  /\ oneshot' = [c \in Callers |-> IF Id(c) \in pending THEN "closed" ELSE oneshot[c]]
  /\ UNCHANGED <<epoch, out_tx, recorded, holder, pc, method, calls, try,
                 socket, writer, requests, responses, daemonSide>>

\* writing on a lost connection fails, or vanishes in a buffer
WriteLost(e) ==
  /\ socket[e] = "lost" /\ requests[e] # <<>>
  /\ \/ requests' = [requests EXCEPT ![e] = <<>>] /\ writer' = writer \ {e}
     \/ requests' = [requests EXCEPT ![e] = Tail(@)] /\ UNCHANGED writer
  /\ UNCHANGED <<clientState, callState, socket, reader, responses, daemonSide>>
----------------------------------------------------------------------------
(* The daemon *)

Serve(e) ==
  /\ socket[e] = "open" /\ requests[e] # <<>>
  /\ LET r == Head(requests[e])
     IN /\ executed' = executed \cup {[id |-> id, link |-> e] : id \in {r.id} \cap Tries}
        /\ watching' = CASE r.method = "watch" -> watching \cup {e}
                         [] r.method = "unwatch" -> watching \ {e}
                         [] OTHER -> watching
        /\ responses' = [responses EXCEPT ![e] = Append(@, r.id)]
  /\ requests' = [requests EXCEPT ![e] = Tail(@)]
  /\ UNCHANGED <<clientState, callState, socket, writer, reader>>

\* the daemon stops, or reaps an idle connection; the client may still read what was answered
Lose(e) ==
  /\ socket[e] = "open" /\ socket' = [socket EXCEPT ![e] = "lost"]
  /\ watching' = watching \ {e}
  /\ \E n \in 0..Len(responses[e]) : responses' = [responses EXCEPT ![e] = SubSeq(@, 1, n)]
  /\ UNCHANGED <<clientState, callState, writer, reader, requests, executed>>

CallStep(c) ==
  \/ Check(c) \/ Connect(c) \/ ConnectFails(c) \/ Replay(c) \/ Insert(c) \/ Send(c)
  \/ Return(c) \/ SenderDropped(c) \/ CallTimeout(c)
ReaderStep(e) == ReadResponse(e) \/ ReaderEnds(e) \/ Cleanup(e)
LinkNext ==
  \/ \E c \in Callers : Begin(c) \/ Lock(c) \/ CallStep(c)
  \/ \E e \in Links : ReaderStep(e) \/ WriteLost(e) \/ Serve(e) \/ Lose(e)
LinkSpec == LinkInit /\ [][LinkNext]_linkVars
\* calls and readers run, time passes; tokio's mutex is handed over in order
LinkFairSpec ==
  /\ LinkSpec
  /\ \A c \in Callers : WF_linkVars(CallStep(c)) /\ SF_linkVars(Lock(c))
  /\ \A e \in Links : WF_linkVars(ReaderStep(e))
----------------------------------------------------------------------------
(* Properties *)

\* client.rs:42, "a burst of concurrent calls opens exactly one new socket".
OneSocket == \A e, f \in Links : socket[e] = "open" /\ socket[f] = "open" => e = f

\* client.rs:96, "the second runs only after a reconnect": what the daemon executes twice it
\* executes on two connections.
TwiceOnTwoLinks ==
  \A x, y \in executed :
    x.id.by = y.id.by /\ x.id.call = y.id.call /\ x.id.try # y.id.try
      => x.link # y.link

\* Every call ends (their number is bounded).
LinkCallsEnd == []<>(\A c \in Callers : At(c, "idle"))

\* "so call knows to reconnect": the client does not go on trusting a connection that is lost.
LossNoticed == (connected /\ socket[out_tx] = "lost") ~> (~connected \/ socket[out_tx] = "open")

\* A window the client watches is watched on its connection, once nothing is under way.
Quiet ==
  /\ connected /\ socket[out_tx] = "open" /\ \A c \in Callers : At(c, "idle")
  /\ \A e \in Links : requests[e] = <<>> /\ responses[e] = <<>>
WatchKept == Quiet /\ recorded => out_tx \in watching
=============================================================================
