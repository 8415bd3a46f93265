---------------------------- MODULE MCConnection ----------------------------
(* The ends of a connection: the daemon's (OrderedRpc), the client's           *)
(* (ClientLink), and the terminal stream over it (TermStream). They share no    *)
(* variable, so each behaviour moves one of them, chosen at the start.          *)
EXTENDS OrderedRpc, ClientLink, TermStream

VARIABLE part

\* six requests: a chain of three, a chain of two, and an independent read
Six == 1..6
Chains == <<"fleet", "lane-1", "fleet", "free", "lane-1", "fleet">>

ConnectionInit ==
  /\ part \in {"daemon", "client", "terminal"} /\ Init /\ LinkInit
  /\ TermInit /\ (part # "terminal" => others = 0)
ConnectionNext ==
  \/ part = "daemon" /\ Next /\ UNCHANGED <<part, linkVars, termVars>>
  \/ part = "client" /\ LinkNext /\ UNCHANGED <<part, vars, termVars>>
  \/ part = "terminal" /\ TermNext /\ UNCHANGED <<part, vars, linkVars>>

\* the fairness of each module, for the part that moves (weak where the module allows strong:
\* the calls are few)
ConnectionSpec ==
  /\ ConnectionInit /\ [][ConnectionNext]_<<part, vars, linkVars, termVars>>
  /\ WF_vars(part = "daemon" /\ Write)
  /\ WF_vars(part = "daemon" /\ \E r \in Requests : Read(r))
  /\ WF_vars(part = "daemon" /\ \E r \in Requests : Task(r))
  /\ \A c \in Callers : WF_linkVars(part = "client" /\ (CallStep(c) \/ Lock(c)))
  /\ \A e \in Links : WF_linkVars(part = "client" /\ ReaderStep(e))
  /\ WF_termVars(part = "terminal" /\ Forward) /\ WF_termVars(part = "terminal" /\ Eof)
  /\ WF_termVars(part = "terminal" /\ Rewatch) /\ WF_termVars(part = "terminal" /\ CaptureStep)
  /\ WF_termVars(part = "terminal" /\ ~alive /\ Deadline)
  /\ WF_termVars(part = "terminal" /\ Receive) /\ WF_termVars(part = "terminal" /\ ResyncTick)

\* of the part that moves
Answers == part = "daemon" => EveryoneAnswered
CallsReturn == part = "client" => LinkCallsEnd
ScreenSettles == part = "terminal" => CatchesUp
=============================================================================
