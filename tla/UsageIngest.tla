---------------------------- MODULE UsageIngest ----------------------------
(***************************************************************************)
(* The usage ledger's ingest: passes read the transcripts of one session (its  *)
(* own, and those of its subagents) from where the last read ended, and        *)
(* publish events, digest and cursor of a source in one transaction. A new     *)
(* reader revision recounts every source, a few in a pass. Transcripts grow,   *)
(* vanish and fail meanwhile, and the daemon may stop at any point.            *)
(*                                                                         *)
(* A line of a transcript is a block of an assistant message, with the usage    *)
(* the message had so far, or anything else. Offsets count lines.              *)
(***************************************************************************)
EXTENDS Naturals, Sequences, FiniteSets

CONSTANTS
  Sources,
  REINGEST_BATCH,
  MaxLines, MaxTokens,   \* bounds: of the transcripts together, of a message
  MaxUpsets          \* bound: torn lines, vanishings, errors, restarts, new readers

ASSUME UsageAssumption ==
  /\ IsFiniteSet(Sources) /\ "none" \notin Sources
  /\ REINGEST_BATCH \in Nat \ {0} /\ {MaxLines, MaxTokens, MaxUpsets} \subseteq Nat

VARIABLES
  \* the transcripts
  lines, torn,       \* torn: the last line is not complete
  present,
  \* the store
  cursors,           \* usage_ingest_cursors
  events,            \* usage_events: of each source, offsets to [tokens, reader]
  digest,            \* usage_sessions: turns, and counts_version
  \* the daemon
  reader,            \* INGEST_VERSION
  batch, walk,       \* sources of the pass: the recount's, the rest
  attempts,          \* recount_attempts
  hand,              \* the source being read, with its print and stale
  \* history
  kept,              \* retired without being read by this reader
  miscounted,        \* some source was retired, or vanished while it was read
  upsets

transcripts == <<lines, torn, present>>
ledger == <<cursors, events, digest>>
ingest == <<batch, walk, attempts, hand>>
usageVars == <<transcripts, ledger, reader, ingest, kept, miscounted, upsets>>

Other == [m |-> 0, t |-> 0]
BlockLines == [m : 1..MaxLines, t : 1..MaxTokens]
NoCursor == [known |-> FALSE, offset |-> 0, print |-> 0, error |-> FALSE, version |-> 0,
             failures |-> 0]
NoHand == [src |-> "none", print |-> 0, stale |-> FALSE]

Cursor == [known : BOOLEAN, offset : 0..MaxLines, print : Nat, error : BOOLEAN, version : 0..2,
           failures : 0..2]
Event == [tokens : 1..MaxTokens, reader : {1, 2}]

UsageTypeOK ==
  /\ lines \in [Sources -> Seq(BlockLines \cup {Other})] /\ cursors \in [Sources -> Cursor]
  /\ DOMAIN events = Sources
  /\ \A s \in Sources :
       /\ Len(lines[s]) <= MaxLines /\ cursors[s].offset <= Len(lines[s])
       /\ DOMAIN events[s] \subseteq 0..MaxLines /\ events[s] \in [DOMAIN events[s] -> Event]
  /\ {torn, present, kept} \subseteq [Sources -> BOOLEAN] /\ reader \in {1, 2}
  /\ digest \in [turns : Nat, version : 0..2]
  /\ batch \subseteq Sources /\ walk \subseteq Sources \ batch
  /\ hand = NoHand \/ hand \in [src : Sources, print : Nat, stale : BOOLEAN]
  /\ attempts \in 0..REINGEST_BATCH /\ miscounted \in BOOLEAN /\ upsets \in 0..MaxUpsets

UsageInit ==
  /\ lines = [s \in Sources |-> <<>>] /\ torn = [s \in Sources |-> FALSE] /\ present = torn
  /\ cursors = [s \in Sources |-> NoCursor] /\ events = lines
  /\ digest = [turns |-> 0, version |-> 0] /\ reader = 1
  /\ batch = {} /\ walk = {} /\ attempts = 0 /\ hand = NoHand
  /\ kept = torn /\ miscounted = FALSE /\ upsets = 0
----------------------------------------------------------------------------
(* scan.rs: scan_claude_transcript *)

LeastOf(S) == CHOOSE i \in S : \A j \in S : i <= j
MostOf(S) == CHOOSE i \in S : \A j \in S : i >= j

\* the lines of one message, from an offset on
Blocks(file, from, m) == {i \in (from + 1)..Len(file) : file[i].m = m}

Messages(file, from) == {file[i].m : i \in (from + 1)..Len(file)} \ {0}
\* the message of the last line may not be finished: it is emitted, but not
\* counted as a turn, and the next scan starts at it
Open(file, from) == IF from >= Len(file) THEN 0 ELSE file[Len(file)].m
Finished(file, from) == Messages(file, from) \ {Open(file, from)}

Scan(file, from) ==
  LET first(m) == LeastOf(Blocks(file, from, m)) - 1 IN
  [events |-> [o \in {first(m) : m \in Messages(file, from)} |->
                 MostOf({file[i].t : i \in Blocks(file, from, file[o + 1].m)})],
   turns |-> Cardinality(Finished(file, from)),
   session |-> Messages(file, from) # {},
   next |-> IF Open(file, from) = 0 THEN Len(file) ELSE first(Open(file, from))]

\* size and modification time; 0 for a missing file
Fingerprint(s) == IF ~present[s] THEN 0 ELSE 2 * Len(lines[s]) + (IF torn[s] THEN 2 ELSE 1)
----------------------------------------------------------------------------
(* The agents *)

Upset == upsets < MaxUpsets /\ upsets' = upsets + 1
LastBlock(s) == IF lines[s] = <<>> THEN 0 ELSE lines[s][Len(lines[s])].m
Newest(s) == MostOf({0} \cup {lines[s][i].m : i \in 1..Len(lines[s])})
Written == {x \in Sources \X (1..MaxLines) : x[2] <= Len(lines[x[1]])}
\* the blocks of a message follow one another, as in the fixtures of the scanner
AppendLine(s) ==
  /\ Cardinality(Written) < MaxLines /\ (present[s] \/ lines[s] = <<>>)
  /\ \E line \in BlockLines \cup {Other} :
       /\ line.m \in {0, Newest(s) + 1, LastBlock(s)}
       /\ lines' = [lines EXCEPT ![s] = Append(@, line)]
  /\ torn' = [torn EXCEPT ![s] = FALSE] /\ present' = [present EXCEPT ![s] = TRUE]
  /\ UNCHANGED <<ledger, reader, ingest, kept, miscounted, upsets>>
Tear(s) ==
  /\ Upset /\ present[s] /\ ~torn[s] /\ torn' = [torn EXCEPT ![s] = TRUE]
  /\ UNCHANGED <<lines, present, ledger, reader, ingest, kept, miscounted>>

Vanish(s) ==
  /\ Upset /\ present[s] /\ present' = [present EXCEPT ![s] = FALSE]
  /\ UNCHANGED <<lines, torn, ledger, reader, ingest, kept, miscounted>>
\* its volume is mounted again
Reappear(s) ==
  /\ lines[s] # <<>> /\ ~present[s] /\ present' = [present EXCEPT ![s] = TRUE]
  /\ UNCHANGED <<lines, torn, ledger, reader, ingest, kept, miscounted, upsets>>

\* the daemon stops and is started again, perhaps with a new reader
Reload ==
  /\ Upset /\ reader' \in {reader, 2}
  /\ batch' = {} /\ walk' = {} /\ attempts' = 0 /\ hand' = NoHand
  /\ UNCHANGED <<transcripts, ledger, kept, miscounted>>
----------------------------------------------------------------------------
(* The pass *)

Stale(s) == cursors[s].known /\ cursors[s].version < reader

\* stale_batch retires the sources that are missing; the walk takes those that are not
IngestPass ==
  /\ batch = {} /\ walk = {} /\ hand = NoHand
  /\ \E chosen \in SUBSET {s \in Sources : Stale(s)} :
       LET gone == {s \in chosen : ~present[s]} IN
       /\ Cardinality(chosen) = IF Cardinality({s \in Sources : Stale(s)}) < REINGEST_BATCH
                                THEN Cardinality({s \in Sources : Stale(s)}) ELSE REINGEST_BATCH
       /\ batch' = chosen \ gone /\ walk' = {s \in Sources \ chosen : present[s]}
       /\ cursors' = [s \in Sources |->
                        IF s \in gone THEN [cursors[s] EXCEPT !.version = reader, !.failures = 0]
                        ELSE cursors[s]]
       /\ kept' = [s \in Sources |-> kept[s] \/ s \in gone]
       /\ miscounted' = (miscounted \/ gone # {})
       /\ attempts' = Cardinality(gone)
  /\ UNCHANGED <<transcripts, events, digest, reader, hand, upsets>>

\* a recount waits for its turn; a source read to its end is left alone
UnchangedBug(s) == cursors[s].known /\ cursors[s].print = Fingerprint(s) /\ ~cursors[s].error
Unchanged(s) == cursors[s].known /\ cursors[s].print = Fingerprint(s) /\ ~cursors[s].error /\ ~Stale(s)
Leaves(s) == (Stale(s) /\ attempts >= REINGEST_BATCH) \/ Unchanged(s)
Consider(s) ==
  /\ hand = NoHand /\ s \in (IF batch # {} THEN batch ELSE walk)
  /\ batch' = batch \ {s} /\ walk' = walk \ {s}
  /\ IF Leaves(s) THEN UNCHANGED <<attempts, hand>>
     ELSE /\ hand' = [src |-> s, print |-> Fingerprint(s), stale |-> Stale(s)]
          /\ attempts' = IF Stale(s) THEN attempts + 1 ELSE attempts
  /\ UNCHANGED <<transcripts, ledger, reader, kept, miscounted, upsets>>

\* record_usage_events: counts are raised to their maxima
Merged(old, new) ==
  [o \in DOMAIN old \cup DOMAIN new |->
     IF o \notin DOMAIN old THEN [tokens |-> new[o], reader |-> reader]
     ELSE IF o \in DOMAIN new THEN [old[o] EXCEPT !.tokens = MostOf({@, new[o]})]
     ELSE old[o]]
\* upsert_usage_sessions: a newer revision's counters replace, others add up
DigestWith(scan) ==
  IF ~scan.session THEN digest
  ELSE [turns |-> IF digest.version < reader THEN scan.turns ELSE digest.turns + scan.turns,
        version |-> MostOf({digest.version, reader})]

\* the read, and commit_usage_source
ReplacedBug(s) == events[s]
Replaced(s) == IF hand.stale THEN <<>> ELSE events[s]
Publish(s) ==
  /\ hand.src = s /\ present[s] /\ hand' = NoHand
  /\ LET scan == Scan(lines[s], IF hand.stale THEN 0 ELSE cursors[s].offset) IN
     /\ events' = [events EXCEPT ![s] = Merged(Replaced(s), scan.events)]
     /\ digest' = DigestWith(scan)
     /\ cursors' = [cursors EXCEPT ![s] = [NoCursor EXCEPT !.known = TRUE, !.offset = scan.next,
                                             !.print = hand.print, !.version = reader]]
  /\ kept' = [kept EXCEPT ![s] = @ /\ ~hand.stale]
  /\ UNCHANGED <<transcripts, reader, batch, walk, attempts, miscounted, upsets>>
\* the store fails: the transaction is rolled back, and the pass is over
PublishFault ==
  /\ Upset /\ hand # NoHand /\ hand' = NoHand /\ batch' = {} /\ walk' = {}
  /\ UNCHANGED <<transcripts, ledger, reader, attempts, kept, miscounted>>

\* the read fails; fail_usage_recount counts at most one failure a minute, and the
\* third retires the source
ReadFails(s) ==
  /\ hand.src = s /\ hand' = NoHand
  /\ IF present[s] THEN Upset ELSE UNCHANGED upsets
  /\ LET c == cursors[s] IN
     \/ /\ hand.stale /\ present[s]
        /\ \/ cursors' = [cursors EXCEPT ![s] =
                IF c.failures + 1 >= 3
                THEN [c EXCEPT !.error = TRUE, !.version = reader, !.failures = 0]
                ELSE [c EXCEPT !.error = TRUE, !.failures = c.failures + 1]]
           \/ UNCHANGED cursors
     \/ /\ ~(hand.stale /\ present[s])
        /\ cursors' = [cursors EXCEPT ![s] =
             [known |-> TRUE, offset |-> IF hand.stale THEN 0 ELSE c.offset, print |-> hand.print,
              error |-> TRUE, version |-> IF hand.stale \/ ~c.known THEN reader ELSE c.version,
              failures |-> 0]]
  /\ kept' = [kept EXCEPT ![s] = @ \/ (hand.stale /\ cursors'[s].version = reader)]
  /\ miscounted' = (miscounted \/ kept' # kept)
  /\ UNCHANGED <<transcripts, events, digest, reader, batch, walk, attempts>>

PassStep ==
  \/ IngestPass
  \/ \E s \in Sources : Consider(s) \/ Publish(s) \/ (~present[s] /\ ReadFails(s))
UsageNext ==
  \/ PassStep \/ Reload \/ PublishFault
  \/ \E s \in Sources : AppendLine(s) \/ Tear(s) \/ Vanish(s) \/ Reappear(s)
                        \/ (present[s] /\ ReadFails(s))
UsageSpec == UsageInit /\ [][UsageNext]_usageVars
\* the ingest loop goes on
UsageFairSpec == UsageSpec /\ WF_usageVars(PassStep)
----------------------------------------------------------------------------
(* Properties *)

CaughtUp(s) == /\ cursors[s].known /\ ~cursors[s].error /\ ~Stale(s)
               /\ present[s] /\ cursors[s].print = Fingerprint(s)
FirstLine(s, i) == \A j \in 1..(i - 1) : lines[s][j].m # lines[s][i].m
Usage(s, m) == MostOf({lines[s][i].t : i \in Blocks(lines[s], 0, m)})

\* docs/desktop.md: "a message is counted once, at the highest figure its lines
\* reported, rather than once per block".
MessageOnce(s, o) ==
  FirstLine(s, o + 1) /\ events[s][o].tokens <= Usage(s, lines[s][o + 1].m)

\* "converges", "replacing what they produced": the ledger never holds two events of a message or
\* more than its usage, and what incremental reads, recounts, errors and restarts leave of a source
\* that was read to its end is what one read of the whole file by the current reader gives;
\* the session has the turns of its sources, unless one was retired.
LedgerExact ==
  /\ \A s \in Sources : \A o \in DOMAIN events[s] : MessageOnce(s, o)
  /\ \A s \in Sources : CaughtUp(s) /\ ~kept[s] =>
       events[s] = Merged(<<>>, Scan(lines[s], 0).events)
  /\ ~miscounted /\ (\A s \in Sources : lines[s] = <<>> \/ CaughtUp(s)) =>
       digest.turns = Cardinality({x \in Sources \X (1..MaxLines) : x[2] \in Finished(lines[x[1]], 0)})

\* "so progress cannot stay stuck forever": sooner or later every source that is there is caught up.
LedgerSettles == []<>(\A s \in Sources : present[s] => CaughtUp(s))
=============================================================================
