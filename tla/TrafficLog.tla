----------------------------- MODULE TrafficLog ------------------------------
(***************************************************************************)
(* Message traffic as the agent counts it: the log of an endpoint's         *)
(* container is read over windows that overlap, by two readers that may be   *)
(* at it at once, and an accumulator counts every line once.                *)
(*                                                                         *)
(* Time is relative: a line, a read and the last successful read have an    *)
(* age, in units of the sampling interval, that Tick (module Telemetry)     *)
(* advances.  Operators marked "Defect" are variants of the definition that  *)
(* follows them, as a plausible bug would have it.                          *)
(***************************************************************************)
EXTENDS Naturals, FiniteSets

Sets == INSTANCE FiniteSetsExt

CONSTANTS
  Window,      \* what the accumulator keeps, and the most a read asks for
  MinSince,    \* the least a read asks for
  Overlap,     \* how far a read reaches back before the start of the last one
  Skew,        \* how far in the future of a read's start a line may be
  TrafficAge,  \* a summary younger than this is given again
  MaxRead,     \* bound: the longest a read takes; the time limit of the client
  Tail,        \* most lines a read returns
  Slots,       \* bound: the lines that are ever logged
  None

ASSUME TrafficAssumption ==
  /\ {Window, MinSince, Overlap, Skew, TrafficAge, MaxRead, Tail} \subseteq Nat \ {0}
  /\ MinSince <= Window /\ Overlap <= Skew /\ Overlap <= MaxRead
  /\ IsFiniteSet(Slots)

VARIABLES
  lines,    \* the log: one slot per line
  traffic,  \* ages of the last successful read's start and of the summary
  reads     \* the reads in progress

trafficVars == <<lines, traffic, reads>>

Readers == {"main", "flight"}
Horizon == Window + MaxRead + 1

\* `known`: the parsers make something of the line; `logged`: the container still
\* has it; `owed`: history, it is known, came after the first read of this agent,
\* and no read was cut off above it; `counted`: how often the accumulator has it.
Line == [age: 0..Horizon, known: BOOLEAN, logged: BOOLEAN, owed: BOOLEAN, counted: 0..2]

\* `got` is None until the log answers.
Read == [since: 1..Window, elapsed: 0..MaxRead, got: (SUBSET Slots) \cup {None}]

\* The code's `null` and `undefined` are no numbers, lists or records.
ASSUME NoneAssumption == None \notin Nat /\ None \notin Line /\ \A got \in SUBSET Slots: got # None

TrafficTypeOK ==
  /\ lines \in [Slots -> Line \cup {None}]
  /\ traffic \in [last: (0..Horizon) \cup {None}, cached: (0..TrafficAge) \cup {None}]
  /\ reads \in [Readers -> Read \cup {None}]

NoTraffic == [last |-> None, cached |-> None]
NoReads == [r \in Readers |-> None]
Present == {i \in Slots: lines[i] # None}

TrafficInit ==
  /\ lines = [i \in Slots |-> None]
  /\ traffic = NoTraffic
  /\ reads = NoReads

-----------------------------------------------------------------------------
(* The parsers.  A text is the set of the marks they look for that it holds. *)

Statuses == {"reconnecting", "disconnected", "error", "connected", "listening"}
HasAny(text, marks) == text \cap marks # {}

parseNapCatTrafficLine(text) == HasAny(text, {"received", "sent"})
parseNapCatConnectionLine(text) ==
  HasAny(text, {"client", "server"}) /\ HasAny(text, Statuses)

parseSnowlumaTrafficLine(text) == "event" \in text
parseSnowlumaConnectionLine(text) ==
  HasAny(text, {"ws-client", "ws-server"}) /\ HasAny(text, Statuses)

\* LLBot's event report makes a line one of a client, and one of a connection.
parseLLBotTrafficLine(text) == HasAny(text, {"received", "sent"})
parseLLBotConnectionLine(text) ==
  \/ "event report" \in text
  \/ HasAny(text, {"reverse", "forward", "service", "listening"}) /\ HasAny(text, Statuses)

\* The accumulator of each provider is made with the parsers of its own.
Known(provider, text) ==
  CASE provider = "napcat"   -> parseNapCatTrafficLine(text) \/ parseNapCatConnectionLine(text)
    [] provider = "snowluma" -> parseSnowlumaTrafficLine(text) \/ parseSnowlumaConnectionLine(text)
    [] provider = "llbot"    -> parseLLBotTrafficLine(text) \/ parseLLBotConnectionLine(text)

-----------------------------------------------------------------------------
(* The accumulator *)

\* An event older than the window at the start of the read is dropped.
Pruned(l, elapsed) ==
  IF l # None /\ l.age > Window + elapsed THEN [l EXCEPT !.counted = 0] ELSE l

\* Defect: without the memory of lines seen.
CountsAgain(l, elapsed) ==
  /\ l.known
  /\ l.age <= Window + elapsed
  /\ elapsed <= l.age + Skew

\* A known line the accumulator has not seen, and that is neither older than the
\* window nor too far in the future of the read's start.
Counts(l, elapsed) ==
  /\ l.known /\ l.counted = 0
  /\ l.age <= Window + elapsed
  /\ elapsed <= l.age + Skew

Ingest(got, elapsed) ==
  [i \in Slots |->
     LET l == Pruned(lines[i], elapsed) IN
     IF i \in got /\ Counts(l, elapsed) THEN [l EXCEPT !.counted = Sets!Min({@ + 1, 2})] ELSE l]

-----------------------------------------------------------------------------
(* Reading the log *)

\* Back to the start of the last successful read and a little further; the first
\* read has nothing to reach back to.
Since(first) ==
  IF traffic.last = None THEN first
  ELSE Sets!Min({Window, Sets!Max({MinSince, traffic.last + Overlap})})

Summarised == traffic.cached # None /\ traffic.cached < TrafficAge

ReadStarts(r, first) ==
  /\ reads[r] = None
  /\ reads' = [reads EXCEPT ![r] = [since |-> Since(first), elapsed |-> 0, got |-> None]]
  /\ UNCHANGED <<lines, traffic>>

\* The newest lines of `range`, at most Tail of them.
Newest(range) ==
  IF Cardinality(range) <= Tail THEN {range}
  ELSE {got \in Sets!kSubset(Tail, range):
          \A i \in got, j \in range \ got: lines[i].age <= lines[j].age}

\* The log is read as it is now; its lines are on their way from here on.  What
\* a read is cut off at is lost, and the summary says so ("partial").
LogAnswers(r) ==
  /\ reads[r] # None /\ reads[r].got = None
  /\ LET range == {i \in Present: lines[i].logged /\ lines[i].age <= reads[r].since} IN
     \E got \in Newest(range):
       /\ reads' = [reads EXCEPT ![r].got = got]
       /\ lines' = [i \in Slots |-> IF i \in range \ got THEN [lines[i] EXCEPT !.owed = FALSE]
                                    ELSE lines[i]]
       /\ UNCHANGED traffic

\* The last successful read is as old as the start of this one.
ReadAt(elapsed) == [last |-> elapsed, cached |-> Sets!Min({elapsed, TrafficAge})]

ReadEnds(r) ==
  /\ reads[r] # None /\ reads[r].got # None
  /\ lines' = Ingest(reads[r].got, reads[r].elapsed)
  /\ traffic' = ReadAt(reads[r].elapsed)
  /\ reads' = [reads EXCEPT ![r] = None]

\* The log cannot be read, or not in time: the summary says "unavailable", and
\* the next read reaches back to the last one that succeeded.
ReadFails(r) ==
  /\ reads[r] # None
  /\ lines' = [i \in Slots |-> Pruned(lines[i], reads[r].elapsed)]
  /\ traffic' = [traffic EXCEPT !.cached = Sets!Min({reads[r].elapsed, TrafficAge})]
  /\ reads' = [reads EXCEPT ![r] = None]

-----------------------------------------------------------------------------
(* The endpoint and time *)

LogLine(i, known) ==
  /\ lines[i] = None
  /\ lines' = [lines EXCEPT ![i] = [age |-> 0, known |-> known, logged |-> TRUE,
                                    owed |-> known /\ traffic.last # None, counted |-> 0]]
  /\ UNCHANGED <<traffic, reads>>

\* A container that is replaced takes its log along; a pod that is gone answers
\* with an empty one.
LogGone ==
  lines' = [i \in Slots |-> IF lines[i] = None THEN None
                            ELSE [lines[i] EXCEPT !.logged = FALSE,
                                                  !.owed = @ /\ lines[i].counted > 0]]

\* The agent's process ends, and with it all it counted.
ForgetTraffic ==
  /\ lines' = [i \in Slots |-> IF lines[i] = None THEN None
                               ELSE [lines[i] EXCEPT !.owed = FALSE, !.counted = 0]]
  /\ traffic' = NoTraffic
  /\ reads' = NoReads

\* A request reaches the log within the overlap, and ends within MaxRead.
MayWait == \A r \in Readers:
  reads[r] # None => reads[r].elapsed < IF reads[r].got = None THEN Overlap ELSE MaxRead

Older(age, most) == IF age = None THEN None ELSE Sets!Min({age + 1, most})

TrafficAges ==
  /\ lines' = [i \in Slots |-> IF lines[i] = None THEN None
                               ELSE [lines[i] EXCEPT !.age = Older(@, Horizon)]]
  /\ traffic' = [last |-> Older(traffic.last, Horizon), cached |-> Older(traffic.cached, TrafficAge)]
  /\ reads' = [r \in Readers |-> IF reads[r] = None THEN None ELSE [reads[r] EXCEPT !.elapsed = @ + 1]]

-----------------------------------------------------------------------------
(* Properties *)

\* Each line is counted once, however the windows of the reads overlap: once a
\* read that started after it has succeeded, while it is in the window, no read
\* missed it and none counted it twice (protocolTraffic, ingest).
TrafficIsExact ==
  \A i \in Present:
    LET l == lines[i] IN
    /\ l.counted <= 1
    /\ /\ l.owed /\ traffic.last # None /\ traffic.last < l.age
       /\ l.age + Overlap <= traffic.last + Window /\ l.age <= Window
       => l.counted = 1
=============================================================================
