--------------------------- MODULE TelemetryProofs ---------------------------
(***************************************************************************)
(* Proofs about TrafficLog and Telemetry.  Traffic: a line is either        *)
(* counted, or the read in progress that has to bring it still can.         *)
(* Metadata: whatever is cached, being read or stored with the accepted     *)
(* generation was read after that generation's floor.                       *)
(***************************************************************************)
EXTENDS Telemetry, TLAPS

-----------------------------------------------------------------------------
(* Numbers *)

LEMMA MinOfTwo ==
  ASSUME NEW a \in Nat, NEW b \in Nat
  PROVE  Sets!Min({a, b}) = IF a <= b THEN a ELSE b
<1>1. CASE a <= b
  <2>1. a \in {a, b} /\ \A y \in {a, b}: a <= y
    BY <1>1
  <2>2. \A x \in {a, b}: (\A y \in {a, b}: x <= y) => x = a
    BY <1>1
  <2> QED BY <1>1, <2>1, <2>2 DEF Sets!Min
<1>2. CASE ~(a <= b)
  <2>1. b \in {a, b} /\ \A y \in {a, b}: b <= y
    BY <1>2
  <2>2. \A x \in {a, b}: (\A y \in {a, b}: x <= y) => x = b
    BY <1>2
  <2> QED BY <1>2, <2>1, <2>2 DEF Sets!Min
<1> QED BY <1>1, <1>2

LEMMA MaxOfTwo ==
  ASSUME NEW a \in Nat, NEW b \in Nat
  PROVE  Sets!Max({a, b}) = IF a >= b THEN a ELSE b
<1>1. CASE a >= b
  <2>1. a \in {a, b} /\ \A y \in {a, b}: a >= y
    BY <1>1
  <2>2. \A x \in {a, b}: (\A y \in {a, b}: x >= y) => x = a
    BY <1>1
  <2> QED BY <1>1, <2>1, <2>2 DEF Sets!Max
<1>2. CASE ~(a >= b)
  <2>1. b \in {a, b} /\ \A y \in {a, b}: b >= y
    BY <1>2
  <2>2. \A x \in {a, b}: (\A y \in {a, b}: x >= y) => x = b
    BY <1>2
  <2> QED BY <1>2, <2>1, <2>2 DEF Sets!Max
<1> QED BY <1>1, <1>2

LEMMA Bounds ==
  /\ {Window, MinSince, Overlap, Skew, TrafficAge, MaxRead, Tail} \subseteq Nat \ {0}
  /\ MinSince <= Window /\ Overlap <= Skew /\ Overlap <= MaxRead
  /\ Horizon \in Nat /\ Horizon > Window + MaxRead
  /\ None \notin Nat
BY TrafficAssumption, NoneAssumption DEF Horizon

LEMMA NoneIsNoLine == None \notin Line
BY NoneAssumption

LEMMA OlderAge ==
  ASSUME NEW most \in Nat, NEW age \in (0..most) \cup {None}
  PROVE  /\ Older(age, most) \in (0..most) \cup {None}
         /\ (Older(age, most) = None) = (age = None)
         /\ age # None => Older(age, most) = IF age < most THEN age + 1 ELSE most
<1>1. CASE age = None
  BY <1>1 DEF Older
<1>2. CASE age # None
  <2>1. age \in Nat /\ age <= most
    BY <1>2
  <2>2. Older(age, most) = IF age + 1 <= most THEN age + 1 ELSE most
    BY <1>2, <2>1, MinOfTwo DEF Older
  <2> QED BY <2>1, <2>2, Bounds
<1> QED BY <1>1, <1>2

-----------------------------------------------------------------------------
(* Traffic *)

\* A line that is still in the window, and was logged before a read that started
\* `start` ago and reaches back to it.
InWindow(l, start) ==
  l.owed /\ start < l.age /\ l.age + Overlap <= start + Window /\ l.age <= Window

\* What is known of single lines.  A line goes with its container only when it was
\* counted, or is not owed any more.
LinesOK ==
  \A i \in Present:
    LET l == lines[i] IN
    /\ l.counted <= 1
    /\ l.owed => traffic.last # None /\ l.known
    /\ l.owed /\ ~l.logged /\ l.age <= Window => l.counted = 1
    /\ traffic.last # None /\ InWindow(l, traffic.last) => l.counted = 1

\* A read is going to bring the lines its success promises, except those counted
\* already: before the log answers they are in its range, then in its answer.
ReadsOK ==
  \A r \in Readers: reads[r] # None =>
    LET q == reads[r] IN
    /\ q.got = None => q.elapsed <= Overlap
    /\ q.got # None => q.got \subseteq Present
    /\ \A i \in Present: InWindow(lines[i], q.elapsed) =>
         \/ lines[i].counted = 1
         \/ q.got = None /\ lines[i].age + Overlap <= q.elapsed + q.since
         \/ q.got # None /\ i \in q.got

TrafficInv == TrafficTypeOK /\ LinesOK /\ ReadsOK

LEMMA LineTypes ==
  ASSUME TrafficTypeOK, NEW i \in Present
  PROVE  i \in Slots /\ lines[i] \in Line /\ lines[i].age \in Nat /\ lines[i].counted \in 0..2
BY DEF TrafficTypeOK, Present, Line

LEMMA ReadTypes ==
  ASSUME TrafficTypeOK, NEW r \in Readers, reads[r] # None
  PROVE  /\ reads[r] \in Read
         /\ reads[r].since \in 1..Window /\ reads[r].elapsed \in 0..MaxRead
         /\ reads[r].since \in Nat /\ reads[r].elapsed \in Nat
         /\ reads[r].got # None => reads[r].got \in SUBSET Slots
<1>1. reads[r] \in Read
  BY DEF TrafficTypeOK
<1> QED BY <1>1, Bounds DEF Read

\* The invariant depends on the lines only by what stays of them.
LEMMA SameTraffic ==
  ASSUME TrafficInv, UNCHANGED trafficVars
  PROVE  TrafficInv'
BY DEF TrafficInv, TrafficTypeOK, LinesOK, ReadsOK, InWindow, Present, trafficVars

LEMMA SinceReaches ==
  ASSUME TrafficTypeOK, NEW first \in 1..Window
  PROVE  /\ Since(first) \in 1..Window
         /\ traffic.last # None => Since(first) = Window \/ Since(first) >= traffic.last + Overlap
<1>1. CASE traffic.last = None
  BY <1>1 DEF Since
<1>2. CASE traffic.last # None
  <2>1. traffic.last \in Nat
    BY <1>2 DEF TrafficTypeOK
  <2>2. traffic.last + Overlap \in Nat /\ MinSince \in Nat
    BY <2>1, Bounds
  <2> DEFINE most == Sets!Max({MinSince, traffic.last + Overlap})
  <2>3. most = IF MinSince >= traffic.last + Overlap THEN MinSince ELSE traffic.last + Overlap
    BY <2>2, MaxOfTwo
  <2>4. most \in Nat /\ most >= 1 /\ most >= traffic.last + Overlap
    BY <2>1, <2>2, <2>3, Bounds
  <2>5. Since(first) = Sets!Min({Window, most})
    BY <1>2 DEF Since
  <2> HIDE DEF most
  <2>6. Since(first) = IF Window <= most THEN Window ELSE most
    BY <2>4, <2>5, MinOfTwo, Bounds
  <2> QED BY <2>1, <2>4, <2>6, Bounds
<1> QED BY <1>1, <1>2

LEMMA ReadStartsOK ==
  ASSUME TrafficInv, NEW r \in Readers, NEW first \in 1..Window, ReadStarts(r, first)
  PROVE  TrafficInv'
<1> DEFINE q == [since |-> Since(first), elapsed |-> 0, got |-> None]
<1>1. reads' = [reads EXCEPT ![r] = q] /\ UNCHANGED <<lines, traffic>>
  BY DEF ReadStarts
<1>2. TrafficTypeOK
  BY DEF TrafficInv
<1>3. q \in Read
  BY <1>2, SinceReaches, Bounds DEF Read
<1>4. TrafficTypeOK'
  BY <1>1, <1>2, <1>3 DEF TrafficTypeOK
<1>5. LinesOK' /\ Present' = Present
  BY <1>1 DEF TrafficInv, LinesOK, InWindow, Present
<1>6. ASSUME NEW i \in Present, InWindow(lines[i], 0)
      PROVE  lines[i].counted = 1 \/ lines[i].age + Overlap <= q.since
  <2>1. lines[i].age \in Nat
    BY <1>2, LineTypes
  <2>2. traffic.last # None
    BY <1>6 DEF TrafficInv, LinesOK, InWindow
  <2>3. traffic.last \in Nat
    BY <1>2, <2>2 DEF TrafficTypeOK
  <2>4. CASE traffic.last < lines[i].age
    <3>1. InWindow(lines[i], traffic.last)
      BY <1>6, <2>1, <2>3, <2>4, Bounds DEF InWindow
    <3> QED BY <2>2, <3>1 DEF TrafficInv, LinesOK
  <2>5. CASE ~(traffic.last < lines[i].age)
    <3>1. lines[i].age + Overlap <= Window
      BY <1>6, <2>1, Bounds DEF InWindow
    <3>2. Since(first) = Window \/ Since(first) >= traffic.last + Overlap
      BY <1>2, <2>2, SinceReaches
    <3>3. Since(first) \in Nat
      BY <1>2, SinceReaches, Bounds
    <3> QED BY <2>1, <2>3, <2>5, <3>1, <3>2, <3>3, Bounds
  <2> QED BY <2>4, <2>5
<1>7. ReadsOK'
  <2> SUFFICES ASSUME NEW s \in Readers, reads'[s] # None
               PROVE  /\ reads'[s].got = None => reads'[s].elapsed <= Overlap
                      /\ reads'[s].got # None => reads'[s].got \subseteq Present
                      /\ \A i \in Present: InWindow(lines[i], reads'[s].elapsed) =>
                           \/ lines[i].counted = 1
                           \/ reads'[s].got = None /\ lines[i].age + Overlap <= reads'[s].elapsed + reads'[s].since
                           \/ reads'[s].got # None /\ i \in reads'[s].got
    BY <1>1, <1>5 DEF ReadsOK, InWindow
  <2>1. CASE s = r
    <3>1. reads'[s] = q
      BY <1>1, <1>2, <2>1 DEF TrafficTypeOK
    <3>2. q.got = None /\ q.elapsed = 0 /\ q.since \in Nat
      BY <1>3, Bounds DEF Read
    <3>3. 0 <= Overlap
      BY Bounds
    <3>4. \A i \in Present: InWindow(lines[i], 0) => lines[i].counted = 1 \/ lines[i].age + Overlap <= 0 + q.since
      BY <1>6, <3>2
    <3> HIDE DEF q
    <3> QED BY <3>1, <3>2, <3>3, <3>4
  <2>2. CASE s # r
    <3>1. reads'[s] = reads[s]
      BY <1>1, <1>2, <2>2 DEF TrafficTypeOK
    <3> QED BY <3>1 DEF TrafficInv, ReadsOK
  <2> QED BY <2>1, <2>2
<1> QED BY <1>4, <1>5, <1>7 DEF TrafficInv

LEMMA LogAnswersOK ==
  ASSUME TrafficInv, NEW r \in Readers, LogAnswers(r)
  PROVE  TrafficInv'
<1> DEFINE range == {i \in Present: lines[i].logged /\ lines[i].age <= reads[r].since}
<1>1. TrafficTypeOK /\ reads[r] # None /\ reads[r].got = None
  BY DEF TrafficInv, LogAnswers
<1>2. PICK got \in Newest(range):
        /\ reads' = [reads EXCEPT ![r].got = got]
        /\ lines' = [i \in Slots |-> IF i \in range \ got THEN [lines[i] EXCEPT !.owed = FALSE]
                                     ELSE lines[i]]
        /\ UNCHANGED traffic
  BY Zenon DEF LogAnswers
<1>3. range \subseteq Present /\ Present \subseteq Slots
  BY DEF Present
<1>4. got \subseteq range
  BY <1>2 DEF Newest, Sets!kSubset
<1> HIDE DEF range
<1>5. got \in SUBSET Slots /\ got # None
  BY <1>3, <1>4, NoneAssumption
<1>6. reads[r] \in Read /\ reads[r].elapsed \in Nat /\ reads[r].since \in Nat
  BY <1>1, ReadTypes
<1>7. /\ reads'[r] = [reads[r] EXCEPT !.got = got]
      /\ \A s \in Readers \ {r}: reads'[s] = reads[s]
  BY <1>1, <1>2 DEF TrafficTypeOK
<1>8. ASSUME NEW i \in Slots
      PROVE  lines'[i] = IF i \in range \ got THEN [lines[i] EXCEPT !.owed = FALSE] ELSE lines[i]
  BY <1>2
<1>9. ASSUME NEW i \in Slots
      PROVE  /\ lines'[i] \in Line \cup {None}
             /\ i \in Present => lines[i] \in Line
             /\ i \notin Present => lines'[i] = None
             /\ i \in Present => /\ lines'[i].age = lines[i].age /\ lines'[i].counted = lines[i].counted
                                /\ lines'[i].known = lines[i].known /\ lines'[i].logged = lines[i].logged
                                /\ lines'[i].owed = (lines[i].owed /\ i \notin range \ got)
  <2>1. i \in Present => lines[i] \in Line
    BY <1>1, LineTypes
  <2>2. i \notin Present => lines[i] = None
    BY DEF Present
  <2> QED BY <1>3, <1>8, <2>1, <2>2 DEF Line
<1>10. TrafficTypeOK'
  <2>1. reads' \in [Readers -> Read \cup {None}]
    <3>1. [reads[r] EXCEPT !.got = got] \in Read
      BY <1>5, <1>6 DEF Read
    <3> QED BY <1>1, <1>2, <1>7, <3>1 DEF TrafficTypeOK
  <2>2. lines' \in [Slots -> Line \cup {None}]
    BY <1>2, <1>9
  <2> QED BY <1>1, <1>2, <2>1, <2>2 DEF TrafficTypeOK
<1>11. Present' \subseteq Present
  BY <1>9 DEF Present
<1>12. \A i \in Present': \A start: InWindow(lines'[i], start) => InWindow(lines[i], start) /\ i \notin range \ got
  BY <1>9, <1>11, <1>3 DEF InWindow
<1>13. LinesOK'
  BY <1>2, <1>3, <1>9, <1>11, <1>12 DEF LinesOK, TrafficInv
<1>14. Present \subseteq Present'
  <2> SUFFICES ASSUME NEW i \in Present PROVE lines'[i] # None
    BY <1>3 DEF Present
  <2>1. i \in Slots /\ lines[i] # None
    BY <1>3 DEF Present
  <2>2. CASE i \notin range \ got
    BY <1>8, <2>1, <2>2
  <2>3. CASE i \in range \ got
    <3>1. lines'[i] = [lines[i] EXCEPT !.owed = FALSE]
      BY <1>8, <2>1, <2>3
    <3>2. lines[i] \in Line
      BY <1>9, <2>1
    <3>3. [lines[i] EXCEPT !.owed = FALSE] \in Line
      BY <3>2 DEF Line
    <3> QED BY <3>1, <3>3, NoneIsNoLine
  <2> QED BY <2>2, <2>3
<1>15. ReadsOK'
  <2> SUFFICES ASSUME NEW s \in Readers, reads'[s] # None
               PROVE  /\ reads'[s].got = None => reads'[s].elapsed <= Overlap
                      /\ reads'[s].got # None => reads'[s].got \subseteq Present
                      /\ \A i \in Present: InWindow(lines'[i], reads'[s].elapsed) =>
                           \/ lines'[i].counted = 1
                           \/ reads'[s].got = None /\ lines'[i].age + Overlap <= reads'[s].elapsed + reads'[s].since
                           \/ reads'[s].got # None /\ i \in reads'[s].got
    BY <1>11, <1>14 DEF ReadsOK, InWindow
  <2>1. CASE s # r
    BY <1>3, <1>7, <1>9, <1>11, <1>12, <1>14, <2>1 DEF ReadsOK, TrafficInv
  <2>2. CASE s = r
    <3>1. reads'[s].got = got /\ reads'[s].elapsed = reads[r].elapsed
      BY <1>6, <1>7, <2>2 DEF Read
    <3>2. ASSUME NEW i \in Present, InWindow(lines'[i], reads[r].elapsed)
          PROVE  lines'[i].counted = 1 \/ i \in got
      <4>1. InWindow(lines[i], reads[r].elapsed) /\ i \notin range \ got
        BY <1>12, <1>14, <3>2
      <4>2. lines[i].counted = 1 \/ lines[i].age + Overlap <= reads[r].elapsed + reads[r].since
        BY <1>1, <4>1 DEF TrafficInv, ReadsOK
      <4>3. reads[r].elapsed <= Overlap
        BY <1>1 DEF TrafficInv, ReadsOK
      <4>4. lines[i].age \in Nat
        BY <1>1, LineTypes
      <4>5. lines[i].counted = 1 \/ lines[i].age <= reads[r].since
        BY <1>6, <4>2, <4>3, <4>4, Bounds
      <4>6. lines[i].counted = 1 \/ lines[i].logged
        <5>1. lines[i].owed /\ lines[i].age <= Window
          BY <4>1 DEF InWindow
        <5> QED BY <5>1 DEF TrafficInv, LinesOK
      <4>7. lines[i].counted = 1 \/ i \in range
        BY <4>5, <4>6 DEF range
      <4> QED BY <1>3, <1>9, <4>1, <4>7
    <3> QED BY <1>3, <1>4, <1>5, <3>1, <3>2
  <2> QED BY <2>1, <2>2
<1> QED BY <1>10, <1>13, <1>15 DEF TrafficInv

LEMMA PrunedLine ==
  ASSUME TrafficTypeOK, NEW i \in Slots, NEW elapsed \in 0..MaxRead
  PROVE  /\ i \notin Present => Pruned(lines[i], elapsed) = None
         /\ i \in Present =>
              /\ Pruned(lines[i], elapsed) \in Line /\ Pruned(lines[i], elapsed) # None
              /\ Pruned(lines[i], elapsed) = IF lines[i].age > Window + elapsed THEN [lines[i] EXCEPT !.counted = 0] ELSE lines[i]
<1>1. i \notin Present => lines[i] = None
  BY DEF Present
<1>2. i \in Present => lines[i] # None /\ lines[i] \in Line
  BY LineTypes DEF Present
<1>3. \A l \in Line: [l EXCEPT !.counted = 0] \in Line
  BY DEF Line
<1> QED BY <1>1, <1>2, <1>3, NoneIsNoLine DEF Pruned

LEMMA IngestLine ==
  ASSUME TrafficTypeOK, NEW i \in Slots, NEW elapsed \in 0..MaxRead, NEW got \in SUBSET Present
  PROVE  LET m == Ingest(got, elapsed)[i] IN
         /\ i \notin Present => m = None
         /\ i \in Present =>
              /\ m \in Line /\ m # None
              /\ m.age = lines[i].age /\ m.known = lines[i].known
              /\ m.logged = lines[i].logged /\ m.owed = lines[i].owed
              /\ lines[i].counted <= 1 => m.counted <= 1
              /\ lines[i].counted = 1 /\ lines[i].age <= Window + elapsed => m.counted = 1
              /\ lines[i].known /\ lines[i].counted <= 1 /\ i \in got
                   /\ elapsed < lines[i].age /\ lines[i].age <= Window + elapsed => m.counted = 1
<1> DEFINE l == Pruned(lines[i], elapsed)
           m == Ingest(got, elapsed)[i]
<1>1. m = IF i \in got /\ Counts(l, elapsed) THEN [l EXCEPT !.counted = Sets!Min({@ + 1, 2})] ELSE l
  BY DEF Ingest
<1>2. /\ i \notin Present => l = None
      /\ i \in Present =>
           /\ l \in Line /\ l # None
           /\ l = IF lines[i].age > Window + elapsed THEN [lines[i] EXCEPT !.counted = 0] ELSE lines[i]
  BY PrunedLine
<1> HIDE DEF l, m
<1>3. CASE i \notin Present
  BY <1>1, <1>2, <1>3 DEF m
<1>4. CASE i \in Present
  <2>1. lines[i] \in Line /\ lines[i].age \in Nat /\ lines[i].counted \in 0..2
    BY LineTypes, <1>4
  <2>2. /\ l \in Line /\ l.age = lines[i].age /\ l.known = lines[i].known
        /\ l.logged = lines[i].logged /\ l.owed = lines[i].owed
        /\ l.counted = IF lines[i].age > Window + elapsed THEN 0 ELSE lines[i].counted
    BY <1>2, <1>4, <2>1 DEF Line
  <2>3. CASE i \in got /\ Counts(l, elapsed)
    <3>1. l.counted = 0
      BY <2>3 DEF Counts
    <3>2. Sets!Min({l.counted + 1, 2}) = 1
      BY <3>1, MinOfTwo
    <3>3. m = [l EXCEPT !.counted = 1]
      BY <1>1, <2>3, <3>2
    <3>4. /\ m \in Line /\ m.age = l.age /\ m.known = l.known
          /\ m.logged = l.logged /\ m.owed = l.owed /\ m.counted = 1
      BY <2>2, <3>3 DEF Line
    <3> QED BY <1>4, <2>2, <3>4, NoneIsNoLine DEF m
  <2>4. CASE ~(i \in got /\ Counts(l, elapsed))
    <3>1. m = l
      BY <1>1, <2>4
    <3>2. lines[i].counted <= 1 => l.counted <= 1
      BY <2>1, <2>2
    <3>3. lines[i].age <= Window + elapsed => l.counted = lines[i].counted
      BY <2>1, <2>2, Bounds
    <3>4. lines[i].known /\ lines[i].counted <= 1 /\ i \in got
            /\ elapsed < lines[i].age /\ lines[i].age <= Window + elapsed => l.counted = 1
      <4>1. elapsed < lines[i].age => elapsed <= l.age + Skew
        BY <2>1, <2>2, Bounds
      <4> QED BY <2>1, <2>2, <2>4, <3>3, <4>1 DEF Counts
    <3> QED BY <1>2, <1>4, <2>2, <3>1, <3>2, <3>3, <3>4 DEF m
  <2> QED BY <2>3, <2>4
<1> QED BY <1>3, <1>4 DEF m

LEMMA ReadEndsOK ==
  ASSUME TrafficInv, NEW r \in Readers, ReadEnds(r)
  PROVE  TrafficInv'
<1> DEFINE e == reads[r].elapsed
           got == reads[r].got
<1>1. /\ TrafficTypeOK /\ reads[r] # None /\ got # None
      /\ lines' = Ingest(got, e)
      /\ traffic' = ReadAt(e) /\ reads' = [reads EXCEPT ![r] = None]
  BY DEF TrafficInv, ReadEnds
<1>2. e \in 0..MaxRead /\ e \in Nat /\ got \in SUBSET Present
  BY <1>1, ReadTypes DEF TrafficInv, ReadsOK
<1>3. ASSUME NEW i \in Present, InWindow(lines[i], e)
      PROVE  lines[i].counted = 1 \/ i \in got
  BY <1>1, <1>3 DEF TrafficInv, ReadsOK
<1> HIDE DEF e, got
<1>4. ASSUME NEW i \in Slots
      PROVE  /\ i \notin Present => lines'[i] = None
             /\ i \in Present =>
                  /\ lines'[i] \in Line /\ lines'[i] # None
                  /\ lines'[i].age = lines[i].age /\ lines'[i].known = lines[i].known
                  /\ lines'[i].logged = lines[i].logged /\ lines'[i].owed = lines[i].owed
                  /\ lines[i].counted <= 1 => lines'[i].counted <= 1
                  /\ lines[i].counted = 1 /\ lines[i].age <= Window + e => lines'[i].counted = 1
                  /\ lines[i].known /\ lines[i].counted <= 1 /\ i \in got
                       /\ e < lines[i].age /\ lines[i].age <= Window + e => lines'[i].counted = 1
  BY <1>1, <1>2, IngestLine
<1>5. Present' = Present /\ Present \subseteq Slots
  BY <1>4 DEF Present
<1>6. traffic' \in [last: 0..Horizon, cached: 0..TrafficAge] /\ traffic'.last = e
  <2>1. Sets!Min({e, TrafficAge}) = IF e <= TrafficAge THEN e ELSE TrafficAge
    BY <1>2, Bounds, MinOfTwo
  <2> QED BY <1>1, <1>2, <2>1, Bounds DEF ReadAt
<1>7. TrafficTypeOK'
  <2>1. lines' \in [Slots -> Line \cup {None}]
    <3>1. lines' = [i \in Slots |-> lines'[i]]
      BY <1>1 DEF Ingest
    <3> QED BY <1>4, <3>1
  <2>2. reads' \in [Readers -> Read \cup {None}]
    BY <1>1 DEF TrafficTypeOK
  <2> QED BY <1>6, <2>1, <2>2 DEF TrafficTypeOK
<1>8. ASSUME NEW i \in Present
      PROVE  lines[i].age \in Nat /\ (lines[i].age <= Window => lines[i].age <= Window + e)
  BY <1>1, <1>2, LineTypes, Bounds
<1>9. \A i \in Present: lines[i].counted <= 1 /\ (lines[i].owed => lines[i].known)
  BY DEF TrafficInv, LinesOK
<1>10. traffic'.last # None
  BY <1>2, <1>6, Bounds
<1>11. LinesOK'
  <2> SUFFICES ASSUME NEW i \in Present
               PROVE  /\ lines'[i].counted <= 1
                      /\ lines'[i].owed => lines'[i].known
                      /\ lines'[i].owed /\ ~lines'[i].logged /\ lines'[i].age <= Window => lines'[i].counted = 1
                      /\ InWindow(lines'[i], e) => lines'[i].counted = 1
    BY <1>5, <1>6, <1>10 DEF LinesOK, InWindow
  <2>1. lines'[i].counted <= 1 /\ (lines'[i].owed => lines'[i].known)
    BY <1>4, <1>5, <1>9
  <2>2. lines'[i].owed /\ ~lines'[i].logged /\ lines'[i].age <= Window => lines'[i].counted = 1
    BY <1>4, <1>5, <1>8 DEF TrafficInv, LinesOK
  <2>3. ASSUME InWindow(lines'[i], e) PROVE lines'[i].counted = 1
    <3>1. InWindow(lines[i], e)
      BY <1>4, <1>5, <2>3 DEF InWindow
    <3>2. e < lines[i].age /\ lines[i].age <= Window /\ lines[i].owed
      BY <3>1 DEF InWindow
    <3> QED BY <1>3, <1>4, <1>5, <1>8, <1>9, <3>1, <3>2
  <2> QED BY <2>1, <2>2, <2>3
<1>12. ReadsOK'
  <2> SUFFICES ASSUME NEW s \in Readers, reads'[s] # None
               PROVE  /\ reads'[s].got = None => reads'[s].elapsed <= Overlap
                      /\ reads'[s].got # None => reads'[s].got \subseteq Present
                      /\ \A i \in Present: InWindow(lines'[i], reads'[s].elapsed) =>
                           \/ lines'[i].counted = 1
                           \/ reads'[s].got = None /\ lines'[i].age + Overlap <= reads'[s].elapsed + reads'[s].since
                           \/ reads'[s].got # None /\ i \in reads'[s].got
    BY <1>5 DEF ReadsOK, InWindow
  <2>1. reads'[s] = reads[s]
    BY <1>1 DEF TrafficTypeOK
  <2>2. ASSUME NEW i \in Present, InWindow(lines'[i], reads[s].elapsed)
        PROVE  \/ lines'[i].counted = 1
               \/ reads[s].got = None /\ lines'[i].age + Overlap <= reads[s].elapsed + reads[s].since
               \/ reads[s].got # None /\ i \in reads[s].got
    <3>1. InWindow(lines[i], reads[s].elapsed)
      BY <1>4, <1>5, <2>2 DEF InWindow
    <3>2. lines[i].counted = 1 => lines'[i].counted = 1
      BY <1>4, <1>5, <1>8, <3>1 DEF InWindow
    <3>3. lines'[i].age = lines[i].age
      BY <1>4, <1>5
    <3> QED BY <2>1, <3>1, <3>2, <3>3 DEF TrafficInv, ReadsOK
  <2> QED BY <2>1, <2>2 DEF TrafficInv, ReadsOK
<1> QED BY <1>7, <1>11, <1>12 DEF TrafficInv

LEMMA ReadFailsOK ==
  ASSUME TrafficInv, NEW r \in Readers, ReadFails(r)
  PROVE  TrafficInv'
<1> DEFINE e == reads[r].elapsed
<1>1. /\ TrafficTypeOK /\ reads[r] # None
      /\ lines' = [i \in Slots |-> Pruned(lines[i], e)]
      /\ traffic' = [traffic EXCEPT !.cached = Sets!Min({e, TrafficAge})]
      /\ reads' = [reads EXCEPT ![r] = None]
  BY DEF TrafficInv, ReadFails
<1>2. e \in 0..MaxRead /\ e \in Nat
  BY <1>1, ReadTypes
<1> HIDE DEF e
<1>3. ASSUME NEW i \in Slots
      PROVE  /\ i \notin Present => lines'[i] = None
             /\ i \in Present =>
                  /\ lines'[i] \in Line /\ lines'[i] # None
                  /\ lines'[i].age = lines[i].age /\ lines'[i].known = lines[i].known
                  /\ lines'[i].logged = lines[i].logged /\ lines'[i].owed = lines[i].owed
                  /\ lines[i].counted <= 1 => lines'[i].counted <= 1
                  /\ lines[i].age <= Window => lines'[i].counted = lines[i].counted
  <2>1. lines'[i] = Pruned(lines[i], e)
    BY <1>1
  <2>2. CASE i \notin Present
    BY <1>1, <1>2, <2>1, <2>2, PrunedLine
  <2>3. CASE i \in Present
    <3>1. lines[i] \in Line /\ lines[i].age \in Nat /\ lines[i].counted \in 0..2
      BY <1>1, LineTypes, <2>3
    <3>2. /\ lines'[i] \in Line /\ lines'[i] # None
          /\ lines'[i] = IF lines[i].age > Window + e THEN [lines[i] EXCEPT !.counted = 0] ELSE lines[i]
      BY <1>1, <1>2, <2>1, <2>3, PrunedLine
    <3>3. lines[i].age <= Window => ~(lines[i].age > Window + e)
      BY <1>2, <3>1, Bounds
    <3> QED BY <2>3, <3>1, <3>2, <3>3 DEF Line
  <2> QED BY <2>2, <2>3
<1>4. Present' = Present /\ Present \subseteq Slots
  BY <1>3 DEF Present
<1>5. traffic'.last = traffic.last /\ traffic' \in [last: (0..Horizon) \cup {None}, cached: (0..TrafficAge) \cup {None}]
  <2>1. Sets!Min({e, TrafficAge}) = IF e <= TrafficAge THEN e ELSE TrafficAge
    BY <1>2, Bounds, MinOfTwo
  <2>2. Sets!Min({e, TrafficAge}) \in 0..TrafficAge
    BY <1>2, <2>1, Bounds
  <2> QED BY <1>1, <2>2 DEF TrafficTypeOK
<1>6. TrafficTypeOK'
  <2>1. lines' \in [Slots -> Line \cup {None}]
    <3>1. lines' = [i \in Slots |-> lines'[i]]
      BY <1>1
    <3> QED BY <1>3, <3>1
  <2>2. reads' \in [Readers -> Read \cup {None}]
    BY <1>1 DEF TrafficTypeOK
  <2> QED BY <1>5, <2>1, <2>2 DEF TrafficTypeOK
<1>7. ASSUME NEW i \in Present, NEW start, InWindow(lines'[i], start)
      PROVE  InWindow(lines[i], start) /\ lines'[i].counted = lines[i].counted
  BY <1>3, <1>4, <1>7 DEF InWindow
<1>8. LinesOK'
  BY <1>3, <1>4, <1>5, <1>7 DEF LinesOK, TrafficInv
<1>9. ReadsOK'
  <2> SUFFICES ASSUME NEW s \in Readers, reads'[s] # None
               PROVE  /\ reads'[s].got = None => reads'[s].elapsed <= Overlap
                      /\ reads'[s].got # None => reads'[s].got \subseteq Present
                      /\ \A i \in Present: InWindow(lines'[i], reads'[s].elapsed) =>
                           \/ lines'[i].counted = 1
                           \/ reads'[s].got = None /\ lines'[i].age + Overlap <= reads'[s].elapsed + reads'[s].since
                           \/ reads'[s].got # None /\ i \in reads'[s].got
    BY <1>4 DEF ReadsOK, InWindow
  <2>1. reads'[s] = reads[s]
    BY <1>1 DEF TrafficTypeOK
  <2> QED BY <1>3, <1>4, <1>7, <2>1 DEF TrafficInv, ReadsOK
<1> QED BY <1>6, <1>8, <1>9 DEF TrafficInv

LEMMA LogLineOK ==
  ASSUME TrafficInv, NEW i \in Slots, NEW known \in BOOLEAN, LogLine(i, known)
  PROVE  TrafficInv'
<1> DEFINE l == [age |-> 0, known |-> known, logged |-> TRUE,
                 owed |-> known /\ traffic.last # None, counted |-> 0]
<1>1. /\ TrafficTypeOK /\ lines[i] = None
      /\ lines' = [lines EXCEPT ![i] = l] /\ UNCHANGED <<traffic, reads>>
  BY DEF TrafficInv, LogLine
<1>2. l \in Line
  BY Bounds DEF Line
<1>3. lines'[i] = l /\ i \notin Present /\ \A j \in Present: j \in Slots /\ lines'[j] = lines[j]
  BY <1>1 DEF TrafficTypeOK, Present
<1>4. TrafficTypeOK'
  BY <1>1, <1>2 DEF TrafficTypeOK
<1>5. Present \subseteq Present' /\ Present' \subseteq Present \cup {i}
  BY <1>1, <1>3 DEF Present, TrafficTypeOK
<1>6. traffic.last # None => ~(traffic.last < 0)
  BY <1>1, Bounds DEF TrafficTypeOK
<1>7. LinesOK'
  <2> SUFFICES ASSUME NEW j \in Present'
               PROVE  /\ lines'[j].counted <= 1
                      /\ lines'[j].owed => traffic.last # None /\ lines'[j].known
                      /\ lines'[j].owed /\ ~lines'[j].logged /\ lines'[j].age <= Window => lines'[j].counted = 1
                      /\ traffic.last # None /\ InWindow(lines'[j], traffic.last) => lines'[j].counted = 1
    BY <1>1 DEF LinesOK, InWindow
  <2>1. CASE j = i
    <3>1. l.age = 0 /\ l.logged = TRUE /\ l.counted = 0 /\ l.known = known
      OBVIOUS
    <3>2. l.owed => known /\ traffic.last # None
      OBVIOUS
    <3> HIDE DEF l
    <3>3. traffic.last # None => ~InWindow(l, traffic.last)
      BY <1>6, <3>1 DEF InWindow
    <3>4. lines'[j] = l
      BY <1>3, <2>1
    <3> QED BY <3>1, <3>2, <3>3, <3>4
  <2>2. CASE j # i
    BY <1>3, <1>5, <2>2 DEF TrafficInv, LinesOK
  <2> QED BY <2>1, <2>2
<1>8. ReadsOK'
  <2> SUFFICES ASSUME NEW s \in Readers, reads[s] # None
               PROVE  /\ reads[s].got = None => reads[s].elapsed <= Overlap
                      /\ reads[s].got # None => reads[s].got \subseteq Present'
                      /\ \A j \in Present': InWindow(lines'[j], reads[s].elapsed) =>
                           \/ lines'[j].counted = 1
                           \/ reads[s].got = None /\ lines'[j].age + Overlap <= reads[s].elapsed + reads[s].since
                           \/ reads[s].got # None /\ j \in reads[s].got
    BY <1>1 DEF ReadsOK, InWindow
  <2>1. reads[s].elapsed \in Nat
    BY <1>1, ReadTypes
  <2>2. ~InWindow(l, reads[s].elapsed)
    BY <2>1 DEF InWindow
  <2> HIDE DEF l
  <2> QED BY <1>3, <1>5, <2>2 DEF TrafficInv, ReadsOK
<1> QED BY <1>4, <1>7, <1>8 DEF TrafficInv

LEMMA LogGoneOK ==
  ASSUME TrafficInv, LogGone, UNCHANGED <<traffic, reads>>
  PROVE  TrafficInv'
<1>1. TrafficTypeOK
  BY DEF TrafficInv
<1>2. lines' = [i \in Slots |-> IF lines[i] = None THEN None
                                ELSE [lines[i] EXCEPT !.logged = FALSE,
                                                      !.owed = @ /\ lines[i].counted > 0]]
  BY DEF LogGone
<1>3. ASSUME NEW i \in Slots
      PROVE  /\ i \notin Present => lines'[i] = None
             /\ i \in Present =>
                  /\ lines'[i] \in Line /\ lines'[i] # None
                  /\ lines'[i].age = lines[i].age /\ lines'[i].known = lines[i].known
                  /\ lines'[i].counted = lines[i].counted
                  /\ lines'[i].owed => lines[i].owed /\ lines[i].counted > 0
  <2>1. CASE i \notin Present
    BY <1>2, <2>1 DEF Present
  <2>2. CASE i \in Present
    <3>1. lines[i] \in Line /\ lines[i] # None
      BY <1>1, <2>2, LineTypes DEF Present
    <3>2. lines'[i] = [lines[i] EXCEPT !.logged = FALSE, !.owed = lines[i].owed /\ lines[i].counted > 0]
      BY <1>2, <3>1
    <3>3. /\ lines'[i] \in Line /\ lines'[i].age = lines[i].age /\ lines'[i].known = lines[i].known
          /\ lines'[i].counted = lines[i].counted
          /\ lines'[i].owed => lines[i].owed /\ lines[i].counted > 0
      BY <3>1, <3>2 DEF Line
    <3> QED BY <2>2, <3>3, NoneIsNoLine
  <2> QED BY <2>1, <2>2
<1>4. Present' = Present /\ Present \subseteq Slots
  BY <1>3 DEF Present
<1>5. TrafficTypeOK'
  <2>1. lines' = [i \in Slots |-> lines'[i]]
    BY <1>2
  <2>2. lines' \in [Slots -> Line \cup {None}]
    BY <1>3, <2>1
  <2> QED BY <1>1, <2>2 DEF TrafficTypeOK
<1>6. ASSUME NEW i \in Present, lines'[i].owed
      PROVE  lines[i].owed /\ lines'[i].counted = 1
  <2>1. lines[i].owed /\ lines[i].counted > 0 /\ lines'[i].counted = lines[i].counted
    BY <1>3, <1>4, <1>6
  <2>2. lines[i].counted \in 0..2 /\ lines[i].counted <= 1
    BY <1>1, LineTypes DEF TrafficInv, LinesOK
  <2> QED BY <2>1, <2>2
<1>7. LinesOK'
  BY <1>3, <1>4, <1>6 DEF TrafficInv, LinesOK, InWindow
<1>8. ReadsOK'
  <2>1. \A i \in Present: \A start: InWindow(lines'[i], start) => lines'[i].counted = 1
    BY <1>6 DEF InWindow
  <2> SUFFICES ASSUME NEW s \in Readers, reads[s] # None
               PROVE  /\ reads[s].got = None => reads[s].elapsed <= Overlap
                      /\ reads[s].got # None => reads[s].got \subseteq Present
                      /\ \A i \in Present: InWindow(lines'[i], reads[s].elapsed) => lines'[i].counted = 1
    BY <1>4 DEF ReadsOK, InWindow
  <2> QED BY <2>1 DEF TrafficInv, ReadsOK
<1> QED BY <1>5, <1>7, <1>8 DEF TrafficInv

LEMMA ForgottenLine ==
  ASSUME NEW l \in Line
  PROVE  LET m == [l EXCEPT !.owed = FALSE, !.counted = 0] IN
         m \in Line /\ ~m.owed /\ m.counted = 0
<1> DEFINE n == [l EXCEPT !.counted = 0]
           m == [n EXCEPT !.owed = FALSE]
<1>1. n \in Line /\ n.counted = 0
  BY DEF Line
<1> HIDE DEF n
<1>2. m \in Line /\ m.counted = 0
  BY <1>1 DEF Line
<1>3. ~m.owed
  BY <1>1 DEF Line
<1> HIDE DEF m
<1>4. m = [l EXCEPT !.owed = FALSE, !.counted = 0]
  BY DEF m, n, Line
<1> QED BY <1>2, <1>3, <1>4

LEMMA ForgetTrafficOK ==
  ASSUME TrafficInv, ForgetTraffic
  PROVE  TrafficInv'
<1>1. /\ TrafficTypeOK /\ traffic' = NoTraffic /\ reads' = NoReads
      /\ lines' = [i \in Slots |-> IF lines[i] = None THEN None
                                   ELSE [lines[i] EXCEPT !.owed = FALSE, !.counted = 0]]
  BY DEF TrafficInv, ForgetTraffic
<1>2. ASSUME NEW i \in Slots
      PROVE  lines'[i] \in Line \cup {None} /\ (lines'[i] # None => ~lines'[i].owed /\ lines'[i].counted = 0)
  <2>1. CASE lines[i] = None
    BY <1>1, <2>1
  <2>2. CASE lines[i] # None
    <3>1. lines[i] \in Line
      BY <1>1, <2>2 DEF TrafficTypeOK
    <3>2. lines'[i] = [lines[i] EXCEPT !.owed = FALSE, !.counted = 0]
      BY <1>1, <2>2
    <3> QED BY <3>1, <3>2, ForgottenLine
  <2> QED BY <2>1, <2>2
<1>3. TrafficTypeOK'
  <2>1. lines' = [i \in Slots |-> lines'[i]]
    BY <1>1
  <2>2. lines' \in [Slots -> Line \cup {None}]
    BY <1>2, <2>1
  <2> QED BY <1>1, <2>2 DEF TrafficTypeOK, NoTraffic, NoReads
<1>4. LinesOK'
  <2> SUFFICES ASSUME NEW i \in Slots, lines'[i] # None
               PROVE  /\ lines'[i].counted <= 1
                      /\ lines'[i].owed => traffic'.last # None /\ lines'[i].known
                      /\ lines'[i].owed /\ ~lines'[i].logged /\ lines'[i].age <= Window => lines'[i].counted = 1
                      /\ traffic'.last # None /\ InWindow(lines'[i], traffic'.last) => lines'[i].counted = 1
    BY DEF LinesOK, InWindow, Present
  <2>1. ~lines'[i].owed /\ lines'[i].counted = 0
    BY <1>2
  <2> QED BY <2>1 DEF InWindow
<1>5. ReadsOK'
  BY <1>1 DEF ReadsOK, NoReads
<1> QED BY <1>3, <1>4, <1>5 DEF TrafficInv

LEMMA TrafficAgesOK ==
  ASSUME TrafficInv, MayWait, TrafficAges
  PROVE  TrafficInv'
<1>1. /\ TrafficTypeOK
      /\ lines' = [i \in Slots |-> IF lines[i] = None THEN None
                                   ELSE [lines[i] EXCEPT !.age = Older(@, Horizon)]]
      /\ traffic' = [last |-> Older(traffic.last, Horizon), cached |-> Older(traffic.cached, TrafficAge)]
      /\ reads' = [r \in Readers |-> IF reads[r] = None THEN None ELSE [reads[r] EXCEPT !.elapsed = @ + 1]]
  BY DEF TrafficInv, TrafficAges
<1>2. ASSUME NEW i \in Slots
      PROVE  /\ i \notin Present => lines'[i] = None
             /\ i \in Present =>
                  /\ lines'[i] \in Line /\ lines'[i] # None
                  /\ lines'[i].age = IF lines[i].age < Horizon THEN lines[i].age + 1 ELSE Horizon
                  /\ lines'[i].known = lines[i].known
                  /\ lines'[i].logged = lines[i].logged /\ lines'[i].owed = lines[i].owed
                  /\ lines'[i].counted = lines[i].counted
  <2>1. CASE i \notin Present
    BY <1>1, <2>1 DEF Present
  <2>2. CASE i \in Present
    <3>1. lines[i] \in Line /\ lines[i] # None /\ lines[i].age \in 0..Horizon
      BY <1>1, <2>2, LineTypes DEF Present, Line
    <3>2. lines'[i] = [lines[i] EXCEPT !.age = Older(lines[i].age, Horizon)]
      BY <1>1, <3>1
    <3>3. Older(lines[i].age, Horizon) = IF lines[i].age < Horizon THEN lines[i].age + 1 ELSE Horizon
      BY <3>1, OlderAge, Bounds
    <3>4. Older(lines[i].age, Horizon) \in 0..Horizon
      BY <3>1, <3>3, Bounds
    <3> QED BY <2>2, <3>1, <3>2, <3>3, <3>4, NoneIsNoLine DEF Line
  <2> QED BY <2>1, <2>2
<1>3. Present' = Present /\ Present \subseteq Slots
  BY <1>2 DEF Present
<1>4. /\ traffic'.last \in (0..Horizon) \cup {None} /\ (traffic'.last = None) = (traffic.last = None)
      /\ traffic.last # None => traffic'.last = IF traffic.last < Horizon THEN traffic.last + 1 ELSE Horizon
      /\ traffic' \in [last: (0..Horizon) \cup {None}, cached: (0..TrafficAge) \cup {None}]
  <2>1. traffic.last \in (0..Horizon) \cup {None} /\ traffic.cached \in (0..TrafficAge) \cup {None}
    BY <1>1 DEF TrafficTypeOK
  <2>2. Older(traffic.cached, TrafficAge) \in (0..TrafficAge) \cup {None}
    BY <2>1, OlderAge, Bounds
  <2>3. /\ Older(traffic.last, Horizon) \in (0..Horizon) \cup {None}
        /\ (Older(traffic.last, Horizon) = None) = (traffic.last = None)
        /\ traffic.last # None => Older(traffic.last, Horizon) = IF traffic.last < Horizon THEN traffic.last + 1 ELSE Horizon
    BY <2>1, OlderAge, Bounds
  <2> QED BY <1>1, <2>2, <2>3
<1>5. ASSUME NEW s \in Readers
      PROVE  /\ reads[s] = None => reads'[s] = None
             /\ reads[s] # None =>
                  /\ reads'[s] \in Read
                  /\ reads'[s].elapsed = reads[s].elapsed + 1
                  /\ reads'[s].since = reads[s].since /\ reads'[s].got = reads[s].got
                  /\ reads'[s].got = None => reads'[s].elapsed <= Overlap
  <2>1. CASE reads[s] = None
    BY <1>1, <2>1
  <2>2. CASE reads[s] # None
    <3>1. reads[s] \in Read /\ reads[s].elapsed \in Nat
      BY <1>1, <2>2, ReadTypes
    <3>2. reads'[s] = [reads[s] EXCEPT !.elapsed = reads[s].elapsed + 1]
      BY <1>1, <2>2
    <3>3. reads[s].elapsed < IF reads[s].got = None THEN Overlap ELSE MaxRead
      BY <2>2 DEF MayWait
    <3>4. reads[s].elapsed + 1 \in 0..MaxRead /\ (reads[s].got = None => reads[s].elapsed + 1 <= Overlap)
      BY <3>1, <3>3, Bounds
    <3> QED BY <2>2, <3>1, <3>2, <3>4 DEF Read
  <2> QED BY <2>1, <2>2
<1>6. TrafficTypeOK'
  <2>1. lines' \in [Slots -> Line \cup {None}]
    <3>1. lines' = [i \in Slots |-> lines'[i]]
      BY <1>1
    <3> QED BY <1>2, <3>1
  <2>2. reads' \in [Readers -> Read \cup {None}]
    <3>1. reads' = [r \in Readers |-> reads'[r]]
      BY <1>1
    <3> QED BY <1>5, <3>1
  <2> QED BY <1>4, <2>1, <2>2 DEF TrafficTypeOK
<1>7. ASSUME NEW i \in Present
      PROVE  /\ lines[i].age \in Nat
             /\ lines'[i].age <= Window => lines'[i].age = lines[i].age + 1 /\ lines[i].age <= Window
  <2>1. lines[i].age \in Nat
    BY <1>1, LineTypes
  <2>2. lines'[i].age = IF lines[i].age < Horizon THEN lines[i].age + 1 ELSE Horizon
    BY <1>2, <1>3
  <2>3. Horizon \in Nat /\ Window \in Nat /\ Window < Horizon
    BY Bounds
  <2> QED BY <2>1, <2>2, <2>3
<1>8. ASSUME NEW i \in Present, NEW start \in Nat, InWindow(lines'[i], start + 1)
      PROVE  InWindow(lines[i], start) /\ lines'[i].age = lines[i].age + 1
  BY <1>2, <1>3, <1>7, <1>8, Bounds DEF InWindow
<1>9. LinesOK'
  <2> SUFFICES ASSUME NEW i \in Present
               PROVE  /\ lines'[i].counted <= 1
                      /\ lines'[i].owed => traffic'.last # None /\ lines'[i].known
                      /\ lines'[i].owed /\ ~lines'[i].logged /\ lines'[i].age <= Window => lines'[i].counted = 1
                      /\ traffic'.last # None /\ InWindow(lines'[i], traffic'.last) => lines'[i].counted = 1
    BY <1>3 DEF LinesOK, InWindow
  <2>1. lines'[i].counted <= 1 /\ (lines'[i].owed => traffic'.last # None /\ lines'[i].known)
    BY <1>2, <1>3, <1>4 DEF TrafficInv, LinesOK
  <2>2. lines'[i].owed /\ ~lines'[i].logged /\ lines'[i].age <= Window => lines'[i].counted = 1
    BY <1>2, <1>3, <1>7 DEF TrafficInv, LinesOK
  <2>3. ASSUME traffic'.last # None, InWindow(lines'[i], traffic'.last)
        PROVE  lines'[i].counted = 1
    <3>1. traffic.last # None /\ traffic.last \in 0..Horizon
      BY <1>1, <1>4, <2>3 DEF TrafficTypeOK
    <3>2. traffic'.last < Horizon
      <4>1. traffic'.last < lines'[i].age /\ lines'[i].age <= Window
        BY <2>3 DEF InWindow
      <4> QED BY <1>4, <1>7, <2>3, <4>1, Bounds
    <3>3. traffic'.last = traffic.last + 1 /\ traffic.last \in Nat
      BY <1>4, <3>1, <3>2, Bounds
    <3>4. InWindow(lines[i], traffic.last)
      BY <1>8, <2>3, <3>3
    <3> QED BY <1>2, <1>3, <3>1, <3>4 DEF TrafficInv, LinesOK
  <2> QED BY <2>1, <2>2, <2>3
<1>10. ReadsOK'
  <2> SUFFICES ASSUME NEW s \in Readers, reads'[s] # None
               PROVE  /\ reads'[s].got = None => reads'[s].elapsed <= Overlap
                      /\ reads'[s].got # None => reads'[s].got \subseteq Present
                      /\ \A i \in Present: InWindow(lines'[i], reads'[s].elapsed) =>
                           \/ lines'[i].counted = 1
                           \/ reads'[s].got = None /\ lines'[i].age + Overlap <= reads'[s].elapsed + reads'[s].since
                           \/ reads'[s].got # None /\ i \in reads'[s].got
    BY <1>3 DEF ReadsOK, InWindow
  <2>1. reads[s] # None
    BY <1>5
  <2>2. reads[s].elapsed \in Nat /\ reads[s].since \in Nat
    BY <1>1, <2>1, ReadTypes
  <2>3. ASSUME NEW i \in Present, InWindow(lines'[i], reads[s].elapsed + 1)
        PROVE  \/ lines[i].counted = 1
               \/ reads[s].got = None /\ lines'[i].age + Overlap <= (reads[s].elapsed + 1) + reads[s].since
               \/ reads[s].got # None /\ i \in reads[s].got
    <3>1. InWindow(lines[i], reads[s].elapsed) /\ lines'[i].age = lines[i].age + 1
      BY <1>8, <2>2, <2>3
    <3>2. \/ lines[i].counted = 1
          \/ reads[s].got = None /\ lines[i].age + Overlap <= reads[s].elapsed + reads[s].since
          \/ reads[s].got # None /\ i \in reads[s].got
      BY <2>1, <3>1 DEF TrafficInv, ReadsOK
    <3> QED BY <1>7, <2>2, <3>1, <3>2, Bounds
  <2>4. reads[s].got # None => reads[s].got \subseteq Present
    BY <2>1 DEF TrafficInv, ReadsOK
  <2> QED BY <1>2, <1>3, <1>5, <2>1, <2>3, <2>4
<1> QED BY <1>6, <1>9, <1>10 DEF TrafficInv

-----------------------------------------------------------------------------
(* Metadata *)

Typed ==
  /\ setup \in Setups
  /\ box \in [on: BOOLEAN, inc: Starts, qq: BOOLEAN, config: Configs]
  /\ agent \in [runtime: {"starting", "warm", "cold"}, gen: Starts, floor: Starts,
                snapshot: Snapshot \cup {None}, cred: Starts \cup {None}]
  /\ threads \in [Readers -> Thread]
  /\ plane \in [gen: Starts, todo: Actions \cup {None}, seen: Report \cup {None}]
  /\ left \in [commands: Nat, events: Nat, faults: Nat]

\* Metadata for generation `gen` that may be kept or stored, with the agent as `a`:
\* an older generation's is never shown again as the present one's.
Fits(a, gen, meta) ==
  meta # None => gen <= a.gen /\ (gen = a.gen => meta.inc >= a.floor)

\* Thread `t` may be as `th`, with the agent as `a` and the control plane as `p`.
\* A command is not older than the generation accepted; what others have read
\* fits; where the configuration is due, its start of the runtime is known.
GoodThread(a, p, t, th) ==
  /\ th.step # "idle" => (th.of = "flight") = (t = "flight")
  /\ th.step # "idle" /\ th.of = "command" =>
       a.gen <= th.gen /\ th.gen = p.gen /\ p.todo # None
  /\ th.of # "command" =>
       th.gen <= a.gen /\ (th.inc # None /\ th.gen = a.gen => th.inc >= a.floor)
  /\ th.step \in {"config", "offline"} => th.inc # None
  /\ ~NapCat /\ th.step \in {"traffic", "reading"} => th.inc # None
  /\ th.step = "health" => th.of = "pass"
  /\ th.step = "effect" => th.of = "command"

MetaInv ==
  /\ Typed
  /\ agent.floor <= box.inc /\ agent.gen <= plane.gen
  /\ Cached # None => Fits(agent, Cached.gen, Cached.meta)
  /\ plane.seen # None => Fits(agent, plane.seen.gen, plane.seen.meta)
  /\ \A t \in Readers: GoodThread(agent, plane, t, threads[t])

LEMMA TypedFields ==
  ASSUME MetaInv, NEW t \in Readers
  PROVE  /\ setup \in Setups /\ box.inc \in Starts /\ box.inc \in Nat /\ box.config \in Configs
         /\ agent.gen \in Starts /\ agent.floor \in Starts /\ agent.gen \in Nat /\ agent.floor \in Nat
         /\ agent.snapshot # None => /\ agent.snapshot \in Snapshot /\ agent.snapshot.gen \in Nat
                                     /\ agent.snapshot.meta \in Metadata \cup {None}
         /\ plane.gen \in Starts /\ plane.gen \in Nat /\ plane.todo \in Actions \cup {None}
         /\ plane.seen # None => /\ plane.seen \in Report /\ plane.seen.gen \in Nat
                                 /\ plane.seen.meta \in Metadata \cup {None}
         /\ threads[t] \in Thread /\ threads[t].gen \in Nat
         /\ threads[t].inc \in Starts \cup {None} /\ threads[t].config \in Configs \cup {None}
         /\ GoodThread(agent, plane, t, threads[t])
<1>1. Typed /\ GoodThread(agent, plane, t, threads[t])
  BY DEF MetaInv
<1>2. threads[t] \in Thread
  BY <1>1 DEF Typed
<1>3. threads[t].gen \in Nat /\ threads[t].inc \in Starts \cup {None} /\ threads[t].config \in Configs \cup {None}
  BY <1>2 DEF Thread
<1>4. agent.snapshot # None => /\ agent.snapshot \in Snapshot /\ agent.snapshot.gen \in Nat
                               /\ agent.snapshot.meta \in Metadata \cup {None}
  BY <1>1 DEF Typed, Snapshot
<1>5. plane.seen # None => /\ plane.seen \in Report /\ plane.seen.gen \in Nat
                           /\ plane.seen.meta \in Metadata \cup {None}
  BY <1>1 DEF Typed, Report
<1> QED BY <1>1, <1>2, <1>3, <1>4, <1>5 DEF Typed, Starts

\* A step that leaves the generation and its floor alone.
LEMMA SameGeneration ==
  ASSUME MetaInv, UNCHANGED setup, Typed',
         agent'.gen = agent.gen, agent'.floor = agent.floor,
         agent'.floor <= box'.inc, plane'.gen = plane.gen,
         agent'.snapshot \notin {agent.snapshot, None} => Fits(agent, agent'.snapshot.gen, agent'.snapshot.meta),
         plane'.seen \notin {plane.seen, None} => Fits(agent, plane'.seen.gen, plane'.seen.meta),
         \A t \in Readers: GoodThread(agent, plane', t, threads'[t])
  PROVE  MetaInv'
<1>1. agent'.gen <= plane'.gen
  BY DEF MetaInv
<1>2. \A gen, meta: Fits(agent, gen, meta) => Fits(agent', gen, meta)
  BY DEF Fits
<1>3. agent'.snapshot # None => Fits(agent', agent'.snapshot.gen, agent'.snapshot.meta)
  <2>1. CASE agent'.snapshot = agent.snapshot
    BY <1>2, <2>1 DEF MetaInv, Cached
  <2>2. CASE agent'.snapshot # agent.snapshot
    BY <1>2, <2>2
  <2> QED BY <2>1, <2>2
<1>4. plane'.seen # None => Fits(agent', plane'.seen.gen, plane'.seen.meta)
  <2>1. CASE plane'.seen = plane.seen
    BY <1>2, <2>1 DEF MetaInv
  <2>2. CASE plane'.seen # plane.seen
    BY <1>2, <2>2
  <2> QED BY <2>1, <2>2
<1>5. ASSUME NEW t \in Readers PROVE GoodThread(agent, plane, t, threads[t])'
  <2>1. GoodThread(agent, plane', t, threads'[t])
    OBVIOUS
  <2> QED BY <2>1 DEF GoodThread, NapCat
<1>6. Cached' # None => Fits(agent', Cached'.gen, Cached'.meta)
  BY <1>3 DEF Cached
<1>7. (Cached # None => Fits(agent, Cached.gen, Cached.meta))'
  BY <1>6 DEF Fits
<1>8. (plane.seen # None => Fits(agent, plane.seen.gen, plane.seen.meta))'
  BY <1>4 DEF Fits
<1>9. (\A t \in Readers: GoodThread(agent, plane, t, threads[t]))'
  BY <1>5 DEF Readers
<1>10. (agent.floor <= box.inc /\ agent.gen <= plane.gen)'
  BY <1>1
<1> QED BY <1>7, <1>8, <1>9, <1>10 DEF MetaInv

\* Only one thread moves.
LEMMA ThreadMoves ==
  ASSUME MetaInv, NEW t \in Readers, NEW th \in Thread, GoodThread(agent, plane, t, th),
         threads' = [threads EXCEPT ![t] = th],
         left' \in [commands: Nat, events: Nat, faults: Nat], UNCHANGED <<setup, box, agent, plane>>
  PROVE  MetaInv'
<1>1. Typed'
  BY DEF MetaInv, Typed
<1>2. \A s \in Readers: GoodThread(agent, plane', s, threads'[s])
  <2> SUFFICES ASSUME NEW s \in Readers PROVE GoodThread(agent, plane, s, threads'[s])
    OBVIOUS
  <2>1. threads'[s] = IF s = t THEN th ELSE threads[s]
    BY DEF MetaInv, Typed
  <2> QED BY <2>1 DEF MetaInv
<1>3. agent.floor <= box.inc
  BY DEF MetaInv
<1> QED BY <1>1, <1>2, <1>3, SameGeneration

LEMMA IdleIsGood ==
  ASSUME MetaInv, NEW p, NEW t \in Readers
  PROVE  IdleThread \in Thread /\ GoodThread(agent, p, t, IdleThread)
<1>1. IdleThread \in Thread
  BY DEF IdleThread, Thread, Steps
<1>2. 0 <= agent.gen
  BY TypedFields
<1> QED BY <1>1, <1>2 DEF IdleThread, GoodThread

LEMMA StoresFits ==
  ASSUME MetaInv, NEW gen \in Nat, NEW meta \in Metadata \cup {None}, NEW todo \in Actions \cup {None},
         Fits(agent, gen, meta), Stores(gen, meta, todo)
  PROVE  /\ plane' \in [gen: Starts, todo: Actions \cup {None}, seen: Report \cup {None}]
         /\ plane'.gen = plane.gen /\ plane'.todo = todo
         /\ plane'.seen \notin {plane.seen, None} => Fits(agent, plane'.seen.gen, plane'.seen.meta)
<1> DEFINE seen == IF gen = plane.gen THEN [gen |-> gen, meta |-> meta] ELSE plane.seen
<1>1. plane \in [gen: Starts, todo: Actions \cup {None}, seen: Report \cup {None}]
  BY DEF MetaInv, Typed
<1>2. [gen |-> gen, meta |-> meta] \in Report
  BY DEF Report
<1>3. plane' = [plane EXCEPT !.todo = todo, !.seen = seen]
  BY DEF Stores
<1>4. seen \in Report \cup {None}
  BY <1>1, <1>2
<1>5. seen # plane.seen => Fits(agent, seen.gen, seen.meta)
  OBVIOUS
<1> HIDE DEF seen
<1>6. plane'.seen = seen /\ plane'.gen = plane.gen /\ plane'.todo = todo
  BY <1>1, <1>3
<1> QED BY <1>1, <1>3, <1>4, <1>5, <1>6

\* A thread ends with metadata that fits, or without.
LEMMA ThreadEnds ==
  ASSUME MetaInv, NEW t \in Readers, ~At(t, "idle"), NEW meta \in Metadata \cup {None},
         Rests(t), left' \in [commands: Nat, events: Nat, faults: Nat], UNCHANGED <<setup, box>>,
         threads[t].of # "command" => Fits(agent, threads[t].gen, meta),
         agent' \in {agent, [agent EXCEPT !.snapshot = None],
                     [agent EXCEPT !.snapshot = [gen |-> threads[t].gen, meta |-> meta, age |-> 0]]},
         \/ UNCHANGED plane
         \/ threads[t].of = "command" /\ Stores(threads[t].gen, None, None) /\ UNCHANGED agent
         \/ threads[t].of = "pass" /\ Stores(threads[t].gen, meta, plane.todo),
         threads[t].of = "command" => UNCHANGED agent
  PROVE  MetaInv'
<1>1. /\ threads[t] \in Thread /\ threads[t].gen \in Nat /\ plane.todo \in Actions \cup {None}
      /\ GoodThread(agent, plane, t, threads[t]) /\ Typed
  BY TypedFields DEF MetaInv
<1>2. [gen |-> threads[t].gen, meta |-> meta, age |-> 0] \in Snapshot
  BY <1>1 DEF Snapshot
<1>3. /\ agent' \in [runtime: {"starting", "warm", "cold"}, gen: Starts, floor: Starts,
                     snapshot: Snapshot \cup {None}, cred: Starts \cup {None}]
      /\ agent'.gen = agent.gen /\ agent'.floor = agent.floor
      /\ agent'.snapshot \in {agent.snapshot, None, [gen |-> threads[t].gen, meta |-> meta, age |-> 0]}
  BY <1>1, <1>2 DEF Typed
<1>4. agent'.snapshot \notin {agent.snapshot, None} => Fits(agent, agent'.snapshot.gen, agent'.snapshot.meta)
  BY <1>3 DEF Fits
<1>5. /\ plane' \in [gen: Starts, todo: Actions \cup {None}, seen: Report \cup {None}]
      /\ plane'.gen = plane.gen
      /\ plane'.todo = plane.todo \/ threads[t].of = "command"
      /\ plane'.seen \notin {plane.seen, None} => Fits(agent, plane'.seen.gen, plane'.seen.meta)
  <2>1. CASE UNCHANGED plane
    BY <1>1, <2>1 DEF Typed
  <2>2. CASE threads[t].of = "command" /\ Stores(threads[t].gen, None, None)
    BY <1>1, <2>2, StoresFits DEF Fits
  <2>3. CASE threads[t].of = "pass" /\ Stores(threads[t].gen, meta, plane.todo)
    BY <1>1, <2>3, StoresFits
  <2> QED BY <2>1, <2>2, <2>3
<1>6. IdleThread \in Thread /\ \A s \in Readers: GoodThread(agent, plane', s, IdleThread)
  BY IdleIsGood
<1>7. Typed'
  BY <1>1, <1>3, <1>5, <1>6 DEF Typed, Rests
<1>8. ASSUME NEW s \in Readers PROVE GoodThread(agent, plane', s, threads'[s])
  <2>1. CASE s = t
    <3>1. threads'[s] = IdleThread
      BY <1>1, <2>1 DEF Rests, Typed
    <3> QED BY <1>6, <3>1
  <2>2. CASE s # t
    <3>1. threads'[s] = threads[s]
      BY <1>1, <2>2 DEF Rests, Typed
    <3>2. GoodThread(agent, plane, s, threads[s])
      BY DEF MetaInv
    <3>3. threads[s].step # "idle" /\ threads[s].of = "command" => threads[t].of # "command"
      <4>1. s # "flight" /\ t # "flight" => s = t
        BY DEF Readers
      <4> QED BY <1>1, <2>2, <3>2, <4>1 DEF GoodThread, At
    <3>4. threads[s].step # "idle" /\ threads[s].of = "command" => plane'.todo = plane.todo
      BY <1>5, <3>3
    <3> QED BY <1>5, <3>1, <3>2, <3>4 DEF GoodThread
  <2> QED BY <2>1, <2>2
<1>9. agent.floor <= box.inc
  BY DEF MetaInv
<1> QED BY <1>3, <1>4, <1>5, <1>7, <1>8, <1>9, SameGeneration

LEMMA SnapshotEndsOK ==
  ASSUME MetaInv, NEW t \in Readers, ~At(t, "idle"), NEW meta \in Metadata \cup {None},
         left' \in [commands: Nat, events: Nat, faults: Nat], UNCHANGED <<setup, box>>,
         threads[t].of # "command" => Fits(agent, threads[t].gen, meta),
         SnapshotEnds(t, meta)
  PROVE  MetaInv'
<1>1. Rests(t)
  BY DEF SnapshotEnds
<1>2. threads[t].of \in {"pass", "command", "flight"}
  BY TypedFields DEF Thread
<1>3. CASE threads[t].of = "command"
  <2>1. Stores(threads[t].gen, None, None) /\ UNCHANGED agent
    BY <1>3 DEF SnapshotEnds
  <2> QED BY <1>1, <1>3, <2>1, ThreadEnds
<1>4. CASE threads[t].of = "flight"
  <2>1. /\ agent' \in {agent, [agent EXCEPT !.snapshot = [gen |-> threads[t].gen, meta |-> meta, age |-> 0]]}
        /\ UNCHANGED plane
    BY <1>4 DEF SnapshotEnds
  <2> QED BY <1>1, <1>4, <2>1, ThreadEnds
<1>5. CASE threads[t].of = "pass"
  <2>1. /\ agent' = [agent EXCEPT !.snapshot = [gen |-> threads[t].gen, meta |-> meta, age |-> 0]]
        /\ Stores(threads[t].gen, meta, plane.todo)
    BY <1>5 DEF SnapshotEnds
  <2> QED BY <1>1, <1>5, <2>1, ThreadEnds
<1> QED BY <1>2, <1>3, <1>4, <1>5

LEMMA ThrowsOK ==
  ASSUME MetaInv, NEW t \in Readers, ~At(t, "idle"),
         left' \in [commands: Nat, events: Nat, faults: Nat], UNCHANGED <<setup, box>>, Throws(t)
  PROVE  MetaInv'
<1>1. Rests(t) /\ Fits(agent, threads[t].gen, None)
  BY DEF Throws, Fits
<1>2. threads[t].of \in {"pass", "command", "flight"}
  BY TypedFields DEF Thread
<1>3. CASE threads[t].of = "command"
  <2>1. Stores(threads[t].gen, None, None) /\ UNCHANGED agent
    BY <1>3 DEF Throws
  <2> QED BY <1>1, <1>3, <2>1, ThreadEnds
<1>4. CASE threads[t].of = "flight"
  <2>1. UNCHANGED <<agent, plane>>
    BY <1>4 DEF Throws
  <2> QED BY <1>1, <1>4, <2>1, ThreadEnds
<1>5. CASE threads[t].of = "pass"
  <2>1. agent' = [agent EXCEPT !.snapshot = None] /\ Stores(threads[t].gen, None, plane.todo)
    BY <1>5 DEF Throws
  <2> QED BY <1>1, <1>5, <2>1, ThreadEnds
<1> QED BY <1>2, <1>3, <1>4, <1>5

-----------------------------------------------------------------------------
(* The threads at their work *)

\* The budgets, whichever of them a step uses.
Lefts == [commands: Nat, events: Nat, faults: Nat]

LEMMA OneFaultLess ==
  ASSUME MetaInv, left.faults > 0, left' = [left EXCEPT !.faults = @ - 1]
  PROVE  left' \in Lefts
BY DEF MetaInv, Typed, Lefts

LEMMA SameLeft ==
  ASSUME MetaInv, UNCHANGED left
  PROVE  left' \in Lefts
BY DEF MetaInv, Typed, Lefts

\* A step of the agent by which no snapshot comes in.
LEMMA AgentMoves ==
  ASSUME MetaInv, UNCHANGED <<setup, box, plane>>, left' \in Lefts,
         agent' \in [runtime: {"starting", "warm", "cold"}, gen: Starts, floor: Starts,
                     snapshot: Snapshot \cup {None}, cred: Starts \cup {None}],
         agent'.gen = agent.gen, agent'.floor = agent.floor,
         agent'.snapshot \in {agent.snapshot, None},
         threads' \in [Readers -> Thread],
         \A s \in Readers: GoodThread(agent, plane, s, threads'[s])
  PROVE  MetaInv'
<1>1. Typed'
  BY DEF MetaInv, Typed, Lefts
<1>2. agent.floor <= box.inc
  BY DEF MetaInv
<1> QED BY <1>1, <1>2, SameGeneration

LEMMA OneThread ==
  ASSUME MetaInv, NEW t \in Readers, NEW th \in Thread, GoodThread(agent, plane, t, th),
         threads' = [threads EXCEPT ![t] = th]
  PROVE  /\ threads' \in [Readers -> Thread]
         /\ \A s \in Readers: GoodThread(agent, plane, s, threads'[s])
<1>1. threads \in [Readers -> Thread] /\ \A s \in Readers: GoodThread(agent, plane, s, threads[s])
  BY DEF MetaInv, Typed
<1>2. ASSUME NEW s \in Readers PROVE GoodThread(agent, plane, s, threads'[s])
  <2>1. threads'[s] = IF s = t THEN th ELSE threads[s]
    BY <1>1
  <2> QED BY <1>1, <2>1
<1> QED BY <1>1, <1>2

\* A thread that goes on with what it is doing.
LEMMA GoesOn ==
  ASSUME MetaInv, NEW t \in Readers, NEW th, ~At(t, "idle"),
         th.of = threads[t].of, th.gen = threads[t].gen, th.inc = threads[t].inc,
         th.step \in {"config", "offline"} => th.inc # None,
         ~NapCat /\ th.step \in {"traffic", "reading"} => th.inc # None,
         th.step = "health" => th.of = "pass", th.step # "effect"
  PROVE  GoodThread(agent, plane, t, th)
BY TypedFields DEF GoodThread, At

\* It knows the start of the runtime from here on.
LEMMA KnowsInc ==
  ASSUME MetaInv, NEW t \in Readers, NEW th, ~At(t, "idle"),
         th.of = threads[t].of, th.gen = threads[t].gen, th.inc = box.inc, th.step \notin {"health", "effect"}
  PROVE  GoodThread(agent, plane, t, th)
<1>1. agent.floor <= box.inc /\ box.inc # None
  BY TypedFields, Bounds DEF MetaInv, Starts
<1> QED BY <1>1, TypedFields DEF GoodThread, At

LEMMA GoesThread ==
  ASSUME MetaInv, NEW t \in Readers, NEW step \in Steps, Goes(t, step)
  PROVE  \E th \in Thread:
           /\ threads' = [threads EXCEPT ![t] = th]
           /\ th.step = step /\ th.of = threads[t].of /\ th.gen = threads[t].gen
           /\ th.inc = threads[t].inc
<1> DEFINE th == [threads[t] EXCEPT !.step = step, !.retry = FALSE]
<1>1. threads \in [Readers -> Thread]
  BY DEF MetaInv, Typed
<1>2. th \in Thread
  BY <1>1 DEF Thread
<1>3. th.step = step /\ th.of = threads[t].of /\ th.gen = threads[t].gen /\ th.inc = threads[t].inc
  BY <1>1 DEF Thread
<1>4. threads' = [threads EXCEPT ![t] = th]
  BY <1>1 DEF Goes
<1> QED BY <1>2, <1>3, <1>4

LEMMA LogsInOK ==
  ASSUME MetaInv, NEW t \in Readers, LogsIn(t)
  PROVE  MetaInv'
<1>1. /\ agent \in [runtime: {"starting", "warm", "cold"}, gen: Starts, floor: Starts,
                    snapshot: Snapshot \cup {None}, cred: Starts \cup {None}]
      /\ threads \in [Readers -> Thread] /\ box.inc \in Starts
      /\ \A s \in Readers: GoodThread(agent, plane, s, threads[s])
  BY TypedFields DEF MetaInv, Typed
<1>2. agent' = [agent EXCEPT !.cred = box.inc] /\ UNCHANGED <<setup, box, plane, threads, left>>
  BY DEF LogsIn
<1> QED BY <1>1, <1>2, AgentMoves, SameLeft

LEMMA HasCredentialOK ==
  ASSUME MetaInv, NEW t \in Readers, HasCredential(t)
  PROVE  MetaInv'
<1> DEFINE step == IF threads[t].of = "pass" THEN "health"
                   ELSE IF threads[t].inc = None THEN "login" ELSE "config"
           th == [threads[t] EXCEPT !.token = agent.cred, !.step = step]
<1>1. /\ At(t, "credential") /\ threads[t] \in Thread /\ threads \in [Readers -> Thread]
      /\ agent.cred \in Starts \cup {None}
  BY TypedFields DEF HasCredential, MetaInv, Typed
<1>2. threads' = [threads EXCEPT ![t] = th] /\ UNCHANGED <<setup, box, agent, plane, left>>
  BY <1>1 DEF HasCredential
<1>3. /\ th \in Thread
      /\ th.step = step /\ th.of = threads[t].of /\ th.gen = threads[t].gen /\ th.inc = threads[t].inc
  BY <1>1 DEF Thread, Steps
<1> HIDE DEF th
<1>4. GoodThread(agent, plane, t, th)
  BY <1>1, <1>3, GoesOn DEF At
<1> QED BY <1>2, <1>3, <1>4, ThreadMoves, SameLeft DEF Lefts

LEMMA RejectedOK ==
  ASSUME MetaInv, NEW t \in Readers, Rejected(t)
  PROVE  MetaInv'
<1> DEFINE th == [threads[t] EXCEPT !.retry = TRUE]
<1>1. /\ Asking(t) /\ ~At(t, "idle") /\ threads[t] \in Thread /\ threads \in [Readers -> Thread]
      /\ agent \in [runtime: {"starting", "warm", "cold"}, gen: Starts, floor: Starts,
                    snapshot: Snapshot \cup {None}, cred: Starts \cup {None}]
      /\ GoodThread(agent, plane, t, threads[t])
  BY TypedFields DEF Rejected, MetaInv, Typed, At, Asking
<1>2. /\ threads' = [threads EXCEPT ![t] = th] /\ UNCHANGED <<setup, box, plane, left>>
      /\ agent' = [agent EXCEPT !.cred = None]
  BY <1>1 DEF Rejected
<1>3. /\ th \in Thread /\ th.step = threads[t].step
      /\ th.of = threads[t].of /\ th.gen = threads[t].gen /\ th.inc = threads[t].inc
  BY <1>1 DEF Thread
<1> HIDE DEF th
<1>4. GoodThread(agent, plane, t, th)
  BY <1>1, <1>3, GoesOn DEF GoodThread
<1>5. /\ threads' \in [Readers -> Thread]
      /\ \A s \in Readers: GoodThread(agent, plane, s, threads'[s])
  BY <1>2, <1>3, <1>4, OneThread
<1>6. /\ agent' \in [runtime: {"starting", "warm", "cold"}, gen: Starts, floor: Starts,
                     snapshot: Snapshot \cup {None}, cred: Starts \cup {None}]
      /\ agent'.gen = agent.gen /\ agent'.floor = agent.floor /\ agent'.snapshot = agent.snapshot
  BY <1>1, <1>2
<1> QED BY <1>2, <1>5, <1>6, AgentMoves, SameLeft

LEMMA UnansweredOK ==
  ASSUME MetaInv, NEW t \in Readers, Unanswered(t)
  PROVE  MetaInv'
<1>1. ~At(t, "idle") /\ Throws(t) /\ UNCHANGED <<setup, box, left>>
  BY DEF Unanswered, Asking, At
<1> QED BY <1>1, ThrowsOK, SameLeft DEF Lefts

LEMMA NapCatIsNoOther == (SnowLuma \/ LLBot) => ~NapCat
BY DEF SnowLuma, LLBot, NapCat

LEMMA TrafficBeginsOK ==
  ASSUME MetaInv, NEW t \in Readers, NEW first, TrafficBegins(t, first)
  PROVE  MetaInv'
<1>1. /\ At(t, "traffic") /\ Goes(t, "reading") /\ UNCHANGED <<setup, box, agent, plane, left>>
      /\ GoodThread(agent, plane, t, threads[t]) /\ ~At(t, "idle")
  BY TypedFields DEF TrafficBegins, At
<1>2. PICK th \in Thread:
        /\ threads' = [threads EXCEPT ![t] = th]
        /\ th.step = "reading" /\ th.of = threads[t].of /\ th.gen = threads[t].gen
        /\ th.inc = threads[t].inc
  BY <1>1, GoesThread DEF Steps
<1>3. GoodThread(agent, plane, t, th)
  BY <1>1, <1>2, GoesOn DEF GoodThread, At
<1> QED BY <1>1, <1>2, <1>3, ThreadMoves, SameLeft DEF Lefts

LEMMA AsksLoginOK ==
  ASSUME MetaInv, NEW t \in Readers, AsksLogin(t)
  PROVE  MetaInv'
<1>1. /\ At(t, "reading") /\ Goes(t, "credential") /\ UNCHANGED <<setup, box, agent, plane, left>>
      /\ ~At(t, "idle")
  BY DEF AsksLogin, TrafficEnded, At
<1>2. PICK th \in Thread:
        /\ threads' = [threads EXCEPT ![t] = th]
        /\ th.step = "credential" /\ th.of = threads[t].of /\ th.gen = threads[t].gen
        /\ th.inc = threads[t].inc
  BY <1>1, GoesThread DEF Steps
<1>3. GoodThread(agent, plane, t, th)
  BY <1>1, <1>2, GoesOn
<1> QED BY <1>1, <1>2, <1>3, ThreadMoves, SameLeft DEF Lefts

\* A snapshot without metadata.
LEMMA EndsEmpty ==
  ASSUME MetaInv, NEW t \in Readers, ~At(t, "idle"), left' \in Lefts, UNCHANGED <<setup, box>>,
         SnapshotEnds(t, None)
  PROVE  MetaInv'
BY SnapshotEndsOK DEF Fits, Lefts

\* A snapshot of the start that the thread asked about first.
LEMMA EndsWithInc ==
  ASSUME MetaInv, NEW t \in Readers, ~At(t, "idle"), left' \in Lefts, UNCHANGED <<setup, box>>,
         threads[t].inc # None, NEW config \in Configs,
         SnapshotEnds(t, [inc |-> threads[t].inc, config |-> config])
  PROVE  MetaInv'
<1> DEFINE meta == [inc |-> threads[t].inc, config |-> config]
<1>1. threads[t].inc \in Starts /\ GoodThread(agent, plane, t, threads[t])
  BY TypedFields
<1>2. meta \in Metadata /\ meta.inc = threads[t].inc
  BY <1>1 DEF Metadata
<1>3. threads[t].of # "command" => Fits(agent, threads[t].gen, meta)
  BY <1>1, <1>2 DEF GoodThread, Fits
<1> HIDE DEF meta
<1>4. SnapshotEnds(t, meta)
  BY DEF meta
<1> QED BY <1>2, <1>3, <1>4, SnapshotEndsOK DEF Lefts

LEMMA LoginAnsweredOK ==
  ASSUME MetaInv, NEW t \in Readers, LoginAnswered(t)
  PROVE  MetaInv'
<1>1. ~At(t, "idle") /\ UNCHANGED <<setup, box, left>>
  BY DEF LoginAnswered, At
<1>2. CASE /\ threads' = [threads EXCEPT ![t].step = "credential", ![t].retry = FALSE, ![t].inc = box.inc]
           /\ UNCHANGED <<agent, plane>>
  <2> DEFINE th == [threads[t] EXCEPT !.step = "credential", !.retry = FALSE, !.inc = box.inc]
  <2>1. threads[t] \in Thread /\ threads \in [Readers -> Thread] /\ box.inc \in Starts
    BY TypedFields DEF MetaInv, Typed
  <2>2. th \in Thread /\ th.of = threads[t].of /\ th.gen = threads[t].gen
        /\ th.inc = box.inc /\ th.step = "credential"
    BY <2>1 DEF Thread, Steps
  <2>3. threads' = [threads EXCEPT ![t] = th]
    BY <1>2, <2>1
  <2> HIDE DEF th
  <2>4. GoodThread(agent, plane, t, th)
    BY <1>1, <2>2, KnowsInc
  <2> QED BY <1>1, <1>2, <2>2, <2>3, <2>4, ThreadMoves, SameLeft DEF Lefts
<1>3. CASE SnapshotEnds(t, None)
  BY <1>1, <1>3, EndsEmpty, SameLeft
<1> QED BY <1>2, <1>3 DEF LoginAnswered

LEMMA ConfigAnsweredOK ==
  ASSUME MetaInv, NEW t \in Readers, ConfigAnswered(t)
  PROVE  MetaInv'
<1>1. /\ ~At(t, "idle") /\ UNCHANGED <<setup, box, left>> /\ box.config \in Configs
      /\ threads[t].inc # None
  BY TypedFields DEF ConfigAnswered, At, GoodThread
<1>2. SnapshotEnds(t, [inc |-> threads[t].inc, config |-> box.config])
  BY DEF ConfigAnswered
<1> QED BY <1>1, <1>2, EndsWithInc, SameLeft

LEMMA NapCatFailsOK ==
  ASSUME MetaInv, NEW t \in Readers, NapCatFails(t)
  PROVE  MetaInv'
<1>1. ~At(t, "idle") /\ Throws(t) /\ UNCHANGED <<setup, box>> /\ left' \in Lefts
  BY OneFaultLess DEF NapCatFails, Asking, At
<1> QED BY <1>1, ThrowsOK DEF Lefts

LEMMA ReachesOK ==
  ASSUME MetaInv, NEW t \in Readers, ~At(t, "idle"), NEW step \in {"config", "offline"},
         Reaches(t, step), left' \in Lefts, UNCHANGED <<setup, box>>
  PROVE  MetaInv'
<1> DEFINE th == [threads[t] EXCEPT !.step = step, !.inc = box.inc]
<1>1. threads[t] \in Thread /\ threads \in [Readers -> Thread] /\ box.inc \in Starts
  BY TypedFields DEF MetaInv, Typed
<1>2. th \in Thread /\ th.of = threads[t].of /\ th.gen = threads[t].gen /\ th.inc = box.inc /\ th.step = step
  BY <1>1 DEF Thread, Steps
<1>3. threads' = [threads EXCEPT ![t] = th] /\ UNCHANGED <<agent, plane>>
  BY <1>1 DEF Reaches
<1> HIDE DEF th
<1>4. GoodThread(agent, plane, t, th)
  BY <1>2, KnowsInc
<1> QED BY <1>2, <1>3, <1>4, ThreadMoves DEF Lefts

LEMMA ProbesOK ==
  ASSUME MetaInv, NEW t \in Readers, Probes(t)
  PROVE  MetaInv'
<1>1. ~At(t, "idle") /\ UNCHANGED <<setup, box, left>>
  BY DEF Probes, At
<1>2. CASE Reaches(t, "config") \/ Reaches(t, "offline")
  BY <1>1, <1>2, ReachesOK, SameLeft
<1>3. CASE SnapshotEnds(t, None)
  BY <1>1, <1>3, EndsEmpty, SameLeft
<1> QED BY <1>2, <1>3 DEF Probes

LEMMA ProbeFailsOK ==
  ASSUME MetaInv, NEW t \in Readers, ProbeFails(t), SnapshotEnds(t, None) \/ Reaches(t, "offline")
  PROVE  MetaInv'
<1>1. ~At(t, "idle") /\ UNCHANGED <<setup, box>> /\ left' \in Lefts
  BY OneFaultLess DEF ProbeFails, At
<1>2. CASE Reaches(t, "offline")
  BY <1>1, <1>2, ReachesOK
<1>3. CASE SnapshotEnds(t, None)
  BY <1>1, <1>3, EndsEmpty
<1> QED BY <1>2, <1>3

LEMMA EditsOK ==
  ASSUME MetaInv, NEW t \in Readers, NEW config \in Configs \cup {None}, Edits(t, config), left' \in Lefts
  PROVE  MetaInv'
<1>1. UNCHANGED <<setup, box>> /\ GoodThread(agent, plane, t, threads[t]) /\ threads[t] \in Thread
  BY TypedFields DEF Edits
<1>2. CASE /\ At(t, "config") /\ UNCHANGED <<agent, plane>>
           /\ threads' = [threads EXCEPT ![t].step = "traffic", ![t].config = config]
  <2> DEFINE th == [threads[t] EXCEPT !.step = "traffic", !.config = config]
  <2>1. th \in Thread /\ th.of = threads[t].of /\ th.gen = threads[t].gen /\ th.inc = threads[t].inc
        /\ th.step = "traffic"
    BY <1>1 DEF Thread, Steps
  <2>2. threads' = [threads EXCEPT ![t] = th]
    <3>1. threads \in [Readers -> Thread]
      BY DEF MetaInv, Typed
    <3> QED BY <1>2, <3>1
  <2> HIDE DEF th
  <2>3. GoodThread(agent, plane, t, th)
    BY <1>1, <1>2, <2>1, GoesOn DEF GoodThread, At
  <2> QED BY <1>1, <1>2, <2>1, <2>2, <2>3, ThreadMoves DEF Lefts
<1>3. CASE At(t, "offline") /\ SnapshotEnds(t, Meta(threads[t].inc, config))
  <2>1. threads[t].inc # None /\ ~At(t, "idle")
    BY <1>1, <1>3 DEF GoodThread, At
  <2>2. CASE config = None
    BY <1>1, <1>3, <2>1, <2>2, EndsEmpty DEF Meta
  <2>3. CASE config # None
    BY <1>1, <1>3, <2>1, <2>3, EndsWithInc DEF Meta
  <2> QED BY <2>2, <2>3
<1> QED BY <1>2, <1>3 DEF Edits

LEMMA ReadConfigIsOne == ASSUME MetaInv PROVE ReadConfig \in Configs \cup {None}
<1>1. box.config \in Configs
  BY DEF MetaInv, Typed
<1> QED BY <1>1 DEF ReadConfig

LEMMA OnlineEndsOK ==
  ASSUME MetaInv, NEW t \in Readers, ~NapCat, OnlineEnds(t)
  PROVE  MetaInv'
<1>1. /\ UNCHANGED <<setup, box, left>> /\ At(t, "reading") /\ ~At(t, "idle")
      /\ SnapshotEnds(t, Meta(threads[t].inc, threads[t].config))
  BY DEF OnlineEnds, TrafficEnded, At
<1>2. threads[t].inc # None /\ threads[t].config \in Configs \cup {None}
  BY <1>1, TypedFields DEF GoodThread, At
<1>3. CASE threads[t].config = None
  BY <1>1, <1>3, EndsEmpty, SameLeft DEF Meta
<1>4. CASE threads[t].config # None
  BY <1>1, <1>2, <1>4, EndsWithInc, SameLeft DEF Meta
<1> QED BY <1>3, <1>4

-----------------------------------------------------------------------------
(* Steps of the agent that report, and commands *)

\* A report is stored, and the threads are as they may be with it.
LEMMA ReportsOK ==
  ASSUME MetaInv, NEW gen \in Nat, NEW meta \in Metadata \cup {None}, NEW todo \in Actions \cup {None},
         Fits(agent, gen, meta), Stores(gen, meta, todo), UNCHANGED <<setup, box>>, left' \in Lefts,
         agent' \in {agent, [agent EXCEPT !.snapshot = [gen |-> gen, meta |-> meta, age |-> 0]]},
         threads' \in [Readers -> Thread],
         \A s \in Readers: GoodThread(agent, [plane EXCEPT !.todo = todo], s, threads'[s])
  PROVE  MetaInv'
<1>1. /\ plane' \in [gen: Starts, todo: Actions \cup {None}, seen: Report \cup {None}]
      /\ plane'.gen = plane.gen /\ plane'.todo = todo
      /\ plane'.seen \notin {plane.seen, None} => Fits(agent, plane'.seen.gen, plane'.seen.meta)
  BY StoresFits
<1>2. [gen |-> gen, meta |-> meta, age |-> 0] \in Snapshot
  BY DEF Snapshot
<1>3. /\ agent \in [runtime: {"starting", "warm", "cold"}, gen: Starts, floor: Starts,
                    snapshot: Snapshot \cup {None}, cred: Starts \cup {None}]
      /\ plane \in [gen: Starts, todo: Actions \cup {None}, seen: Report \cup {None}]
      /\ agent.floor <= box.inc
  BY DEF MetaInv, Typed
<1>4. /\ agent' \in [runtime: {"starting", "warm", "cold"}, gen: Starts, floor: Starts,
                     snapshot: Snapshot \cup {None}, cred: Starts \cup {None}]
      /\ agent'.gen = agent.gen /\ agent'.floor = agent.floor
      /\ agent'.snapshot \in {agent.snapshot, [gen |-> gen, meta |-> meta, age |-> 0]}
  BY <1>2, <1>3
<1>5. agent'.snapshot \notin {agent.snapshot, None} => Fits(agent, agent'.snapshot.gen, agent'.snapshot.meta)
  BY <1>4
<1>6. Typed'
  BY <1>1, <1>4 DEF MetaInv, Typed, Lefts
<1>7. ASSUME NEW s \in Readers PROVE GoodThread(agent, plane', s, threads'[s])
  <2>1. GoodThread(agent, [plane EXCEPT !.todo = todo], s, threads'[s])
    OBVIOUS
  <2>2. [plane EXCEPT !.todo = todo].gen = plane.gen /\ [plane EXCEPT !.todo = todo].todo = todo
    BY <1>3
  <2> QED BY <1>1, <2>1, <2>2 DEF GoodThread
<1> QED BY <1>1, <1>3, <1>4, <1>5, <1>6, <1>7, SameGeneration

\* The main thread begins something else than a command.
LEMMA BeginsThread ==
  ASSUME MetaInv, NEW of \in {"pass", "command", "flight"}, NEW step \in Steps, NEW gen \in Nat,
         Begins("main", of, step, gen)
  PROVE  \E th \in Thread:
           /\ threads' = [threads EXCEPT !["main"] = th]
           /\ th.of = of /\ th.step = step /\ th.gen = gen /\ th.inc = None
<1> DEFINE th == [IdleThread EXCEPT !.of = of, !.step = step, !.gen = gen]
<1>1. /\ th \in Thread
      /\ th.of = of /\ th.step = step /\ th.gen = gen /\ th.inc = None
  BY IdleIsGood DEF Thread, IdleThread, Readers
<1>2. threads' = [threads EXCEPT !["main"] = th]
  BY DEF Begins
<1> QED BY <1>1, <1>2

LEMMA PassBeginsOK ==
  ASSUME MetaInv, NEW step \in {"credential", "probe"}, Begins("main", "pass", step, agent.gen),
         UNCHANGED <<setup, box, agent, plane, left>>
  PROVE  MetaInv'
<1>1. "main" \in Readers /\ step \in Steps /\ agent.gen \in Nat
  BY TypedFields DEF Readers, Steps
<1>2. PICK th \in Thread:
        /\ threads' = [threads EXCEPT !["main"] = th]
        /\ th.of = "pass" /\ th.step = step /\ th.gen = agent.gen /\ th.inc = None
  BY <1>1, BeginsThread
<1>3. GoodThread(agent, plane, "main", th)
  BY <1>1, <1>2 DEF GoodThread
<1> QED BY <1>1, <1>2, <1>3, ThreadMoves, SameLeft DEF Lefts

\* Nobody is at a command.
LEMMA NoCommand ==
  ASSUME MetaInv, NEW p, NEW s \in Readers, plane.todo = None \/ At("main", "idle")
  PROVE  GoodThread(agent, p, s, threads[s])
<1>1. GoodThread(agent, plane, s, threads[s])
  BY DEF MetaInv
<1>2. threads[s].step # "idle" => threads[s].of # "command"
  BY <1>1 DEF GoodThread, At, Readers
<1> QED BY <1>1, <1>2 DEF GoodThread

LEMMA StoppedOK ==
  ASSUME MetaInv, plane.todo = None \/ At("main", "idle"), NEW gen \in {agent.gen, plane.gen},
         Stores(gen, None, None), UNCHANGED <<setup, box, threads, left>>,
         agent' \in {agent, [agent EXCEPT !.snapshot = [gen |-> gen, meta |-> None, age |-> 0]]}
  PROVE  MetaInv'
<1>1. gen \in Nat /\ Fits(agent, gen, None) /\ threads' \in [Readers -> Thread]
  BY TypedFields DEF Readers, MetaInv, Typed, Fits
<1>2. \A s \in Readers: GoodThread(agent, [plane EXCEPT !.todo = None], s, threads'[s])
  BY NoCommand
<1> QED BY <1>1, <1>2, ReportsOK, SameLeft

LEMMA NapCatPassOK ==
  ASSUME MetaInv, NapCatPass
  PROVE  MetaInv'
<1>1. plane.todo = None /\ UNCHANGED <<setup, box, agent, left>>
  BY DEF NapCatPass, PassTurn
<1>2. CASE box.on
  BY <1>1, <1>2, PassBeginsOK DEF NapCatPass
<1>3. CASE ~box.on
  BY <1>1, <1>3, StoppedOK DEF NapCatPass, ReportsStopped
<1> QED BY <1>2, <1>3

LEMMA CachedPassOK ==
  ASSUME MetaInv, CachedPass
  PROVE  MetaInv'
<1>1. plane.todo = None /\ UNCHANGED <<setup, box, left>>
  BY DEF CachedPass, PassTurn
<1>2. CASE /\ agent' = [agent EXCEPT !.snapshot = [gen |-> agent.gen, meta |-> None, age |-> 0]]
           /\ ReportsStopped(agent.gen, None) /\ UNCHANGED threads
  BY <1>1, <1>2, StoppedOK DEF ReportsStopped
<1>3. CASE /\ Younger(SnapshotAge) /\ Stores(Cached.gen, Cached.meta, None)
           /\ UNCHANGED <<agent, threads>>
  <2>1. /\ Cached # None /\ Fits(agent, Cached.gen, Cached.meta)
        /\ Cached.gen \in Nat /\ Cached.meta \in Metadata \cup {None}
        /\ threads' \in [Readers -> Thread]
    BY <1>3, TypedFields DEF MetaInv, Typed, Younger, Cached, Readers
  <2>2. \A s \in Readers: GoodThread(agent, [plane EXCEPT !.todo = None], s, threads'[s])
    BY <1>1, <1>3, NoCommand
  <2> QED BY <1>1, <1>3, <2>1, <2>2, ReportsOK, SameLeft
<1>4. CASE Begins("main", "pass", "probe", agent.gen) /\ UNCHANGED <<agent, plane>>
  BY <1>1, <1>4, PassBeginsOK
<1> QED BY <1>2, <1>3, <1>4 DEF CachedPass

LEMMA HealthAnsweredOK ==
  ASSUME MetaInv, HealthAnswered
  PROVE  MetaInv'
<1> DEFINE gen == threads["main"].gen
           meta == Attached(gen)
           flight == [IdleThread EXCEPT !.of = "flight", !.step = "traffic", !.gen = gen]
<1>1. "main" \in Readers /\ At("main", "health") /\ NapCat /\ UNCHANGED <<setup, box, agent, left>>
  BY DEF HealthAnswered, Answered, Asking, Readers
<1>2. /\ threads["main"].of = "pass" /\ gen \in Nat /\ gen <= agent.gen
      /\ GoodThread(agent, plane, "main", threads["main"]) /\ plane.todo \in Actions \cup {None}
      /\ threads \in [Readers -> Thread]
  BY <1>1, TypedFields DEF GoodThread, At, MetaInv, Typed
<1>3. meta \in Metadata \cup {None} /\ Fits(agent, gen, meta)
  <2>1. CASE Cached # None /\ Cached.gen = gen
    BY <1>1, <2>1, TypedFields DEF Attached, Cached, MetaInv
  <2>2. CASE ~(Cached # None /\ Cached.gen = gen)
    BY <2>2 DEF Attached, Fits
  <2> QED BY <2>1, <2>2
<1>4. Stores(gen, meta, plane.todo)
  BY DEF HealthAnswered
<1>5. /\ flight \in Thread
      /\ flight.of = "flight" /\ flight.step = "traffic" /\ flight.gen = gen /\ flight.inc = None
  BY <1>1, <1>2, IdleIsGood DEF Thread, Steps, IdleThread
<1>6. \A s \in Readers: threads'[s] \in IF s = "main" THEN {IdleThread} ELSE {threads[s], flight}
  BY <1>2 DEF HealthAnswered, Readers
<1>7. threads' \in [Readers -> Thread]
  BY <1>1, <1>2, <1>5, IdleIsGood DEF HealthAnswered
<1> HIDE DEF flight
<1>8. ASSUME NEW s \in Readers
      PROVE  GoodThread(agent, [plane EXCEPT !.todo = plane.todo], s, threads'[s])
  <2>1. [plane EXCEPT !.todo = plane.todo] = plane
    BY DEF MetaInv, Typed
  <2>2. GoodThread(agent, plane, s, IdleThread) /\ GoodThread(agent, plane, s, threads[s])
    BY IdleIsGood DEF MetaInv
  <2>3. s # "main" => s = "flight"
    BY DEF Readers
  <2>4. s = "flight" => GoodThread(agent, plane, s, flight)
    BY <1>1, <1>2, <1>5 DEF GoodThread
  <2> QED BY <1>6, <2>1, <2>2, <2>3, <2>4
<1> HIDE DEF gen, meta
<1> QED BY <1>1, <1>2, <1>3, <1>4, <1>7, <1>8, ReportsOK, SameLeft

LEMMA RuntimeUnavailableOK ==
  ASSUME MetaInv, RuntimeUnavailable
  PROVE  MetaInv'
BY StoppedOK DEF RuntimeUnavailable

\* What may become of the runtime: no step takes it back to an earlier start.
LEMMA BoxMoves ==
  ASSUME MetaInv, NEW new \in BoxEvents \cup UNION {Partial(a): a \in Actions}
  PROVE  new \in [on: BOOLEAN, inc: Starts, qq: BOOLEAN, config: Configs] /\ new.inc >= box.inc
<1> DEFINE B == [on: BOOLEAN, inc: Starts, qq: BOOLEAN, config: Configs]
<1>1. box \in B /\ box.inc \in Nat
  BY DEF MetaInv, Typed, Starts
<1>2. Started \in B /\ Started.inc >= box.inc
  <2> DEFINE b == [box EXCEPT !.on = TRUE]
  <2>1. b \in B /\ b.inc = box.inc
    BY <1>1
  <2>2. Started = [b EXCEPT !.inc = @ + 1]
    BY <1>1 DEF Started
  <2> HIDE DEF b
  <2> QED BY <1>1, <2>1, <2>2 DEF Starts
<1> DEFINE off == [box EXCEPT !.on = FALSE]
           flipped == [box EXCEPT !.qq = ~@]
<1>3. off \in B /\ off.inc = box.inc
  BY <1>1
<1>4. flipped \in B /\ flipped.inc = box.inc
  BY <1>1
<1>5. \A b \in Reconfigured: b \in B /\ b.inc = box.inc
  BY <1>1 DEF Reconfigured
<1>6. \A b \in NapCatSets \cup SnowLumaWrites \cup LLBotWrites: b \in Reconfigured
  BY DEF NapCatSets, SnowLumaWrites, LLBotWrites
<1>7. \A b \in LLBotRestarts: b \in B /\ b.inc >= box.inc
  <2> SUFFICES ASSUME NEW c \in LLBotWrites PROVE [c EXCEPT !.inc = @ + 1] \in B /\ [c EXCEPT !.inc = @ + 1].inc >= box.inc
    BY DEF LLBotRestarts
  <2>1. c \in B /\ c.inc = box.inc
    BY <1>5, <1>6
  <2> QED BY <1>1, <2>1 DEF Starts
<1>8. \A b \in UpdateEffect: b \in B /\ b.inc >= box.inc
  BY <1>1, <1>5, <1>6, <1>7 DEF UpdateEffect
<1>9. \A b \in StartEffect: b \in B /\ b.inc >= box.inc
  BY <1>1, <1>2 DEF StartEffect
<1>10. ASSUME NEW a \in Actions, NEW b \in Effect(a) PROVE b \in B /\ b.inc >= box.inc
  <2>1. CASE a = "stop"
    <3>1. b = off
      BY <1>10, <2>1 DEF Effect
    <3> HIDE DEF off
    <3> QED BY <1>1, <1>3, <3>1
  <2>2. CASE a = "start"
    BY <1>9, <1>10, <2>2 DEF Effect
  <2>3. CASE a \in {"restart", "force-restart"}
    BY <1>2, <1>10, <2>3 DEF Effect
  <2>4. CASE a = "update-onebot-websockets"
    BY <1>8, <1>10, <2>4 DEF Effect
  <2> QED BY <1>10, <2>1, <2>2, <2>3, <2>4 DEF Actions
<1>11. ASSUME NEW a \in Actions, NEW b \in Partial(a) PROVE b \in B /\ b.inc >= box.inc
  BY <1>1, <1>5, <1>6, <1>10, <1>11 DEF Partial
<1>12. \A b \in BoxEvents: b \in B /\ b.inc >= box.inc
  <2>1. BoxEvents = {off, flipped, Started} \cup Reconfigured
    BY DEF BoxEvents, Reconfigured
  <2> HIDE DEF off, flipped
  <2> QED BY <1>1, <1>2, <1>3, <1>4, <1>5, <2>1
<1> HIDE DEF B
<1>13. new \in B /\ new.inc >= box.inc
  BY <1>11, <1>12
<1> QED BY <1>13 DEF B

LEMMA EffectIsPartial == \A a \in Actions: Effect(a) \subseteq Partial(a)
BY DEF Partial

\* A newer generation is accepted: no metadata of it is about, so what there is fits.
LEMMA NewGeneration ==
  ASSUME MetaInv, UNCHANGED setup, Typed',
         agent'.gen > agent.gen, agent'.gen <= plane'.gen,
         agent'.floor <= box'.inc,
         agent'.snapshot \in {agent.snapshot, None},
         plane'.seen \notin {plane.seen, None} => plane'.seen.meta = None,
         \A t \in Readers: GoodThread(agent', plane', t, threads'[t])
  PROVE  MetaInv'
<1>1. agent.gen \in Nat /\ agent'.gen \in Nat
  BY DEF MetaInv, Typed, Starts
<1>2. ASSUME NEW gen \in Nat, NEW meta, Fits(agent, gen, meta) PROVE Fits(agent', gen, meta)
  BY <1>1, <1>2 DEF Fits
<1>3. agent'.snapshot # None => Fits(agent', agent'.snapshot.gen, agent'.snapshot.meta)
  BY <1>2 DEF MetaInv, Cached, Typed, Snapshot
<1>4. plane'.seen # None => Fits(agent', plane'.seen.gen, plane'.seen.meta)
  <2>1. CASE plane'.seen = plane.seen
    BY <1>2, <2>1 DEF MetaInv, Typed, Report
  <2>2. CASE plane'.seen # plane.seen
    BY <2>2 DEF Fits
  <2> QED BY <2>1, <2>2
<1>5. ASSUME NEW t \in Readers PROVE GoodThread(agent, plane, t, threads[t])'
  <2>1. GoodThread(agent', plane', t, threads'[t])
    OBVIOUS
  <2> QED BY <2>1 DEF GoodThread, NapCat
<1>6. Cached' # None => Fits(agent', Cached'.gen, Cached'.meta)
  BY <1>3 DEF Cached
<1>7. (Cached # None => Fits(agent, Cached.gen, Cached.meta))'
  BY <1>6 DEF Fits
<1>8. (plane.seen # None => Fits(agent, plane.seen.gen, plane.seen.meta))'
  BY <1>4 DEF Fits
<1>9. (\A t \in Readers: GoodThread(agent, plane, t, threads[t]))'
  BY <1>5 DEF Readers
<1>10. (agent.floor <= box.inc /\ agent.gen <= plane.gen)'
  OBVIOUS
<1> QED BY <1>7, <1>8, <1>9, <1>10 DEF MetaInv

\* The flight, when the generation moves on: it is behind.
LEMMA FlightFallsBehind ==
  ASSUME MetaInv, NEW a, a.gen \in Nat, a.gen > agent.gen, NEW p
  PROVE  GoodThread(a, p, "flight", threads["flight"])
<1>1. "flight" \in Readers
  BY DEF Readers
<1>2. /\ GoodThread(agent, plane, "flight", threads["flight"])
      /\ threads["flight"].gen \in Nat /\ agent.gen \in Nat
  BY <1>1, TypedFields
<1> QED BY <1>2 DEF GoodThread

LEMMA AgentTypes ==
  ASSUME MetaInv
  PROVE  /\ agent \in [runtime: {"starting", "warm", "cold"}, gen: Starts, floor: Starts,
                       snapshot: Snapshot \cup {None}, cred: Starts \cup {None}]
         /\ threads \in [Readers -> Thread]
         /\ plane \in [gen: Starts, todo: Actions \cup {None}, seen: Report \cup {None}]
         /\ box \in [on: BOOLEAN, inc: Starts, qq: BOOLEAN, config: Configs]
         /\ box.inc \in Nat /\ agent.gen \in Nat /\ plane.gen \in Nat
BY DEF MetaInv, Typed, Starts

LEMMA AcceptedView ==
  ASSUME MetaInv, NEW gen \in Starts
  PROVE  /\ Accepts(agent, gen) \in
              [runtime: {"starting", "warm", "cold"}, gen: Starts, floor: Starts,
               snapshot: Snapshot \cup {None}, cred: Starts \cup {None}]
         /\ Accepts(agent, gen).gen = gen
         /\ Accepts(agent, gen).floor = IF agent.gen = gen THEN agent.floor ELSE box.inc
         /\ Accepts(agent, gen).snapshot = agent.snapshot
BY AgentTypes DEF Accepts

LEMMA CommandBeginsOK ==
  ASSUME MetaInv, NEW view \in {agent, Accepts(agent, plane.gen)}, CommandBegins(view)
  PROVE  MetaInv'
<1> DEFINE A == [runtime: {"starting", "warm", "cold"}, gen: Starts, floor: Starts,
                 snapshot: Snapshot \cup {None}, cred: Starts \cup {None}]
           warm == RuntimeFor(view)
<1>1. /\ At("main", "idle") /\ plane.todo # None /\ UNCHANGED <<setup, box, plane, left>>
      /\ Begins("main", "command", "effect", plane.gen)
      /\ agent' = Dropped(warm, plane.todo, TRUE)
  BY DEF CommandBegins
<1>2. /\ agent \in A /\ agent.gen \in Nat /\ plane.gen \in Nat /\ plane.gen \in Starts
      /\ agent.gen <= plane.gen /\ agent.floor <= box.inc /\ box.inc \in Nat
      /\ threads \in [Readers -> Thread]
  BY AgentTypes DEF MetaInv, Starts
<1>3. /\ view \in A /\ view.snapshot = agent.snapshot
      /\ \/ view.gen = agent.gen /\ view.floor = agent.floor
         \/ agent.gen # plane.gen /\ view.gen = plane.gen /\ view.floor = box.inc
  <2>1. /\ Accepts(agent, plane.gen) \in A /\ Accepts(agent, plane.gen).gen = plane.gen
        /\ Accepts(agent, plane.gen).snapshot = agent.snapshot
        /\ Accepts(agent, plane.gen).floor = IF agent.gen = plane.gen THEN agent.floor ELSE box.inc
    BY <1>2, AcceptedView
  <2> QED BY <1>2, <2>1
<1>4. warm \in A /\ warm.gen = view.gen /\ warm.floor = view.floor /\ warm.snapshot = view.snapshot
  BY <1>3 DEF RuntimeFor
<1> HIDE DEF warm
<1>5. /\ agent' \in A /\ agent'.gen = view.gen /\ agent'.floor = view.floor
      /\ agent'.snapshot \in {agent.snapshot, None}
  BY <1>1, <1>3, <1>4 DEF Dropped
<1>6. PICK th \in Thread:
        /\ threads' = [threads EXCEPT !["main"] = th]
        /\ th.of = "command" /\ th.step = "effect" /\ th.gen = plane.gen /\ th.inc = None
  BY <1>1, <1>2, BeginsThread DEF Steps
<1>7. \A a: a.gen <= plane.gen => GoodThread(a, plane, "main", th)
  BY <1>1, <1>6 DEF GoodThread
<1>8. CASE view.gen = agent.gen /\ view.floor = agent.floor
  <2>1. GoodThread(agent, plane, "main", th) /\ "main" \in Readers
    BY <1>2, <1>7 DEF Readers
  <2>2. threads' \in [Readers -> Thread] /\ \A s \in Readers: GoodThread(agent, plane, s, threads'[s])
    BY <1>6, <2>1, OneThread
  <2> QED BY <1>1, <1>5, <1>8, <2>2, AgentMoves, SameLeft
<1>9. CASE agent.gen # plane.gen /\ view.gen = plane.gen /\ view.floor = box.inc
  <2>1. threads' \in [Readers -> Thread] /\ threads'["main"] = th /\ threads'["flight"] = threads["flight"]
    BY <1>2, <1>6 DEF Readers
  <2>2. agent'.gen > agent.gen /\ agent'.gen = plane.gen /\ agent'.gen \in Nat
    BY <1>2, <1>5, <1>9
  <2>3. \A s \in Readers: GoodThread(agent', plane', s, threads'[s])
    <3>1. GoodThread(agent', plane, "main", th)
      BY <1>2, <1>7, <2>2
    <3>2. GoodThread(agent', plane, "flight", threads["flight"])
      BY <2>2, FlightFallsBehind
    <3> QED BY <1>1, <2>1, <3>1, <3>2 DEF Readers
  <2>4. Typed'
    BY <1>1, <1>5, <2>1 DEF MetaInv, Typed
  <2>5. agent'.floor <= box'.inc /\ agent'.gen <= plane'.gen
    <3>1. box' = box /\ plane' = plane
      BY <1>1
    <3>2. agent'.floor = box.inc
      BY <1>5, <1>9
    <3> QED BY <1>2, <2>2, <3>1, <3>2
  <2> HIDE DEF A
  <2> QED BY <1>1, <1>5, <2>2, <2>3, <2>4, <2>5, NewGeneration
<1> QED BY <1>3, <1>8, <1>9

\* A command at work is the control plane's, of a generation not yet accepted or
\* the accepted one.
LEMMA CommandAtWork ==
  ASSUME MetaInv, At("main", "effect")
  PROVE  /\ "main" \in Readers
         /\ threads["main"].of = "command" /\ threads["main"].gen = plane.gen
         /\ plane.todo \in Actions /\ plane.todo # None
<1>1. "main" \in Readers
  BY DEF Readers
<1>2. GoodThread(agent, plane, "main", threads["main"]) /\ plane.todo \in Actions \cup {None}
  BY <1>1, TypedFields
<1> QED BY <1>1, <1>2 DEF GoodThread, At

\* What the thread goes on to after the command, or its end.
LEMMA CommandActsOK ==
  ASSUME MetaInv, CommandActs
  PROVE  MetaInv'
<1> DEFINE A == [runtime: {"starting", "warm", "cold"}, gen: Starts, floor: Starts,
                 snapshot: Snapshot \cup {None}, cred: Starts \cup {None}]
           B == [on: BOOLEAN, inc: Starts, qq: BOOLEAN, config: Configs]
           P == [gen: Starts, todo: Actions \cup {None}, seen: Report \cup {None}]
           gen == plane.gen
           accepted == Accepts(agent, gen)
           view == [accepted EXCEPT !.floor = IF agent.gen = gen THEN @ ELSE box'.inc]
<1>1. /\ At("main", "effect") /\ UNCHANGED <<setup, left>>
      /\ "main" \in Readers
      /\ threads["main"].of = "command" /\ threads["main"].gen = gen
      /\ plane.todo \in Actions
  BY CommandAtWork DEF CommandActs
<1>2. /\ agent \in A /\ agent.gen \in Nat /\ gen \in Nat /\ gen \in Starts /\ plane \in P
      /\ agent.gen <= gen /\ agent.floor <= box.inc /\ box.inc \in Nat /\ agent.floor \in Nat
      /\ threads \in [Readers -> Thread]
  BY <1>1, AgentTypes, TypedFields DEF MetaInv
<1>3. box' \in B /\ box'.inc >= box.inc /\ box'.inc \in Starts /\ box'.inc \in Nat
  <2>1. PICK new \in Effect(plane.todo): box' = new
    BY <1>1 DEF CommandActs, BoxBecomes
  <2>2. box' \in B /\ box'.inc >= box.inc
    BY <1>1, <2>1, BoxMoves, EffectIsPartial
  <2> QED BY <2>2 DEF Starts
<1>4. /\ accepted \in A /\ accepted.gen = gen /\ accepted.snapshot = agent.snapshot
      /\ agent.gen = gen => accepted.floor = agent.floor
  BY <1>2, AcceptedView
<1> HIDE DEF accepted
<1>5. /\ view \in A /\ view.gen = gen /\ view.snapshot = agent.snapshot
      /\ view.floor = IF agent.gen = gen THEN agent.floor ELSE box'.inc
  BY <1>3, <1>4
<1>6. agent' = Dropped(view, plane.todo, FALSE)
  BY <1>1 DEF CommandActs, accepted
<1> HIDE DEF view
<1>7. /\ agent' \in A /\ agent'.gen = gen
      /\ agent'.floor = IF agent.gen = gen THEN agent.floor ELSE box'.inc
      /\ agent'.snapshot \in {agent.snapshot, None}
  BY <1>5, <1>6 DEF Dropped
<1>8. agent'.floor <= box'.inc
  BY <1>2, <1>3, <1>7
<1>9. \/ /\ \E step \in Steps: /\ Goes("main", step)
                               /\ step \in {"traffic", "probe"} /\ (~NapCat => step = "probe")
         /\ UNCHANGED plane
      \/ Rests("main") /\ Stores(gen, None, None)
  BY <1>1 DEF CommandActs, Steps
<1>10. /\ plane' \in P /\ plane'.gen = gen
       /\ plane'.seen \notin {plane.seen, None} => plane'.seen.meta = None
       /\ threads' \in [Readers -> Thread]
       /\ threads'["flight"] = threads["flight"]
       /\ \A a: a.gen = gen /\ a.floor = agent'.floor => GoodThread(a, plane', "main", threads'["main"])
  <2>1. ASSUME NEW step \in {"traffic", "probe"}, ~NapCat => step = "probe", Goes("main", step),
               UNCHANGED plane
        PROVE  <1>10
    <3>1. PICK th \in Thread:
            /\ threads' = [threads EXCEPT !["main"] = th]
            /\ th.step = step /\ th.of = "command" /\ th.gen = gen
      BY <1>1, <2>1, GoesThread DEF Steps
    <3>2. /\ threads' \in [Readers -> Thread] /\ threads'["main"] = th
          /\ threads'["flight"] = threads["flight"]
      BY <1>1, <1>2, <3>1 DEF Readers
    <3>3. plane.todo # None
      BY <1>1, CommandAtWork
    <3>4. \A a: a.gen = gen => GoodThread(a, plane', "main", th)
      BY <1>2, <2>1, <3>1, <3>3 DEF GoodThread
    <3> QED BY <1>2, <2>1, <3>2, <3>4
  <2>2. CASE Rests("main") /\ Stores(gen, None, None)
    <3>1. /\ plane' \in P /\ plane'.gen = gen
          /\ plane'.seen \notin {plane.seen, None} => plane'.seen.meta = None
      <4> DEFINE seen == IF gen = plane.gen THEN [gen |-> gen, meta |-> None] ELSE plane.seen
      <4>1. seen \in Report
        BY <1>2 DEF Report
      <4>2. plane' = [plane EXCEPT !.todo = None, !.seen = seen]
        BY <2>2 DEF Stores
      <4>3. seen.meta = None
        OBVIOUS
      <4> HIDE DEF seen
      <4> QED BY <1>2, <4>1, <4>2, <4>3
    <3>2. /\ threads' \in [Readers -> Thread] /\ threads'["main"] = IdleThread
          /\ threads'["flight"] = threads["flight"]
      BY <1>1, <1>2, <2>2, IdleIsGood DEF Rests, Readers
    <3>3. \A a: a.gen = gen => GoodThread(a, plane', "main", IdleThread)
      BY <1>2 DEF GoodThread, IdleThread
    <3> QED BY <3>1, <3>2, <3>3
  <2> QED BY <1>9, <2>1, <2>2
<1>11. Typed'
  BY <1>1, <1>3, <1>7, <1>10 DEF MetaInv, Typed
<1>12. CASE agent.gen = gen
  <2>1. ASSUME NEW s \in Readers PROVE GoodThread(agent, plane', s, threads'[s])
    <3>1. GoodThread(agent, plane', "main", threads'["main"])
      BY <1>7, <1>10, <1>12
    <3>2. GoodThread(agent, plane', "flight", threads'["flight"])
      <4>1. GoodThread(agent, plane, "flight", threads["flight"])
        BY DEF MetaInv, Readers
      <4> QED BY <1>10, <4>1 DEF GoodThread
    <3> QED BY <3>1, <3>2 DEF Readers
  <2>2. plane'.seen \notin {plane.seen, None} => Fits(agent, plane'.seen.gen, plane'.seen.meta)
    BY <1>10 DEF Fits
  <2>3. agent'.gen = agent.gen /\ agent'.floor = agent.floor /\ plane'.gen = plane.gen
    BY <1>7, <1>10, <1>12
  <2> QED BY <1>1, <1>7, <1>8, <1>11, <2>1, <2>2, <2>3, SameGeneration
<1>13. CASE agent.gen # gen
  <2>1. agent'.gen > agent.gen /\ agent'.gen <= plane'.gen /\ agent'.gen \in Nat
    BY <1>2, <1>7, <1>10, <1>13
  <2>2. ASSUME NEW s \in Readers PROVE GoodThread(agent', plane', s, threads'[s])
    <3>1. GoodThread(agent', plane', "main", threads'["main"])
      BY <1>7, <1>10
    <3>2. GoodThread(agent', plane', "flight", threads["flight"])
      BY <2>1, FlightFallsBehind
    <3> QED BY <1>10, <3>1, <3>2 DEF Readers
  <2> QED BY <1>1, <1>7, <1>8, <1>10, <1>11, <2>1, <2>2, NewGeneration
<1> QED BY <1>12, <1>13

LEMMA CommandFailsOK ==
  ASSUME MetaInv, CommandFails
  PROVE  MetaInv'
<1>1. /\ At("main", "effect") /\ ~At("main", "idle") /\ UNCHANGED <<setup, agent>> /\ Rests("main")
      /\ "main" \in Readers /\ threads["main"].of = "command" /\ threads["main"].gen = plane.gen
      /\ plane.todo \in Actions /\ plane.gen \in Nat
  BY CommandAtWork, AgentTypes DEF CommandFails, At
<1>2. box' \in [on: BOOLEAN, inc: Starts, qq: BOOLEAN, config: Configs] /\ box'.inc >= box.inc
  <2>1. PICK new \in Partial(plane.todo): box' = new
    BY DEF CommandFails, BoxBecomes
  <2> QED BY <1>1, <2>1, BoxMoves
<1>3. left' \in Lefts
  <2>1. left \in Lefts
    BY DEF MetaInv, Typed, Lefts
  <2> QED BY <2>1 DEF CommandFails, Lefts
<1>4. /\ plane' \in [gen: Starts, todo: Actions \cup {None}, seen: Report \cup {None}]
      /\ plane'.gen = plane.gen
      /\ plane'.seen \notin {plane.seen, None} => Fits(agent, plane'.seen.gen, plane'.seen.meta)
  <2>1. CASE UNCHANGED plane
    BY <2>1, AgentTypes
  <2>2. CASE Stores(plane.gen, None, None)
    BY <1>1, <2>2, StoresFits DEF Fits
  <2> QED BY <1>1, <2>1, <2>2 DEF CommandFails
<1>5. /\ threads' \in [Readers -> Thread] /\ threads'["main"] = IdleThread
      /\ threads'["flight"] = threads["flight"]
  BY <1>1, AgentTypes, IdleIsGood DEF Rests, Readers
<1>6. ASSUME NEW s \in Readers PROVE GoodThread(agent, plane', s, threads'[s])
  <2>1. GoodThread(agent, plane', "main", IdleThread)
    BY <1>1, IdleIsGood
  <2>2. GoodThread(agent, plane', "flight", threads["flight"])
    <3>1. GoodThread(agent, plane, "flight", threads["flight"])
      BY DEF MetaInv, Readers
    <3> QED BY <3>1 DEF GoodThread
  <2> QED BY <1>5, <2>1, <2>2 DEF Readers
<1>7. Typed'
  BY <1>1, <1>2, <1>3, <1>4, <1>5 DEF MetaInv, Typed, Lefts
<1>8. agent.floor <= box'.inc
  BY <1>2, AgentTypes DEF MetaInv, Starts
<1> QED BY <1>1, <1>4, <1>6, <1>7, <1>8, SameGeneration

-----------------------------------------------------------------------------
(* The rest *)

\* The agent's runtime comes and goes.
LEMMA WarmsOK ==
  ASSUME MetaInv, Warms \/ WarmFails
  PROVE  MetaInv'
<1>1. /\ UNCHANGED <<setup, box, plane, threads>> /\ left' \in Lefts
      /\ \E w \in {"warm", "cold"}: agent' = [agent EXCEPT !.runtime = w]
  BY OneFaultLess, SameLeft DEF Warms, WarmFails
<1>2. /\ agent' \in [runtime: {"starting", "warm", "cold"}, gen: Starts, floor: Starts,
                     snapshot: Snapshot \cup {None}, cred: Starts \cup {None}]
      /\ agent'.gen = agent.gen /\ agent'.floor = agent.floor /\ agent'.snapshot = agent.snapshot
  BY <1>1, AgentTypes
<1>3. threads' \in [Readers -> Thread] /\ \A s \in Readers: GoodThread(agent, plane, s, threads'[s])
  BY <1>1 DEF MetaInv, Typed
<1> QED BY <1>1, <1>2, <1>3, AgentMoves

LEMMA AgentDiesOK ==
  ASSUME MetaInv, AgentDies
  PROVE  MetaInv'
<1>1. /\ UNCHANGED <<setup, box, plane>> /\ left' \in Lefts
      /\ agent' = [agent EXCEPT !.runtime = "starting", !.snapshot = None, !.cred = None]
      /\ threads' = [t \in Readers |-> IdleThread]
  BY OneFaultLess DEF AgentDies
<1>2. /\ agent' \in [runtime: {"starting", "warm", "cold"}, gen: Starts, floor: Starts,
                     snapshot: Snapshot \cup {None}, cred: Starts \cup {None}]
      /\ agent'.gen = agent.gen /\ agent'.floor = agent.floor /\ agent'.snapshot = None
  BY <1>1, AgentTypes
<1>3. threads' \in [Readers -> Thread] /\ \A s \in Readers: GoodThread(agent, plane, s, threads'[s])
  BY <1>1, IdleIsGood DEF Readers
<1> QED BY <1>1, <1>2, <1>3, AgentMoves

LEMMA RequestOK ==
  ASSUME MetaInv, NEW a \in Actions, Request(a)
  PROVE  MetaInv'
<1> DEFINE gen == IF a = "update-onebot-websockets" THEN plane.gen ELSE plane.gen + 1
<1>1. /\ plane.todo = None /\ UNCHANGED <<setup, box, agent, threads>>
      /\ plane' = [plane EXCEPT !.todo = a, !.gen = gen]
      /\ left.commands > 0 /\ left' = [left EXCEPT !.commands = @ - 1]
  BY DEF Request
<1>2. left' \in Lefts
  BY <1>1 DEF MetaInv, Typed, Lefts
<1>3. /\ plane' \in [gen: Starts, todo: Actions \cup {None}, seen: Report \cup {None}]
      /\ plane'.seen = plane.seen /\ plane'.gen >= plane.gen
  <2>1. gen \in Starts /\ gen >= plane.gen
    BY AgentTypes DEF Starts
  <2> HIDE DEF gen
  <2> QED BY <1>1, <2>1, AgentTypes
<1>4. Typed'
  BY <1>1, <1>2, <1>3 DEF MetaInv, Typed, Lefts
<1>5. \A s \in Readers: GoodThread(agent, plane', s, threads[s])
  BY <1>1, NoCommand
<1>6. agent.gen <= plane'.gen /\ agent.floor <= box.inc
  BY <1>3, AgentTypes DEF MetaInv, Starts
<1>7. (agent.floor <= box.inc /\ agent.gen <= plane.gen)'
  BY <1>1, <1>6
<1>8. (Cached # None => Fits(agent, Cached.gen, Cached.meta))'
  BY <1>1 DEF MetaInv, Cached, Fits
<1>9. (plane.seen # None => Fits(agent, plane.seen.gen, plane.seen.meta))'
  BY <1>1, <1>3 DEF MetaInv, Fits
<1>10. (\A s \in Readers: GoodThread(agent, plane, s, threads[s]))'
  BY <1>1, <1>5 DEF GoodThread, NapCat, Readers
<1> QED BY <1>4, <1>7, <1>8, <1>9, <1>10 DEF MetaInv

LEMMA BoxChangesOK ==
  ASSUME MetaInv, BoxChanges
  PROVE  MetaInv'
<1>1. /\ UNCHANGED <<setup, agent, threads, plane>>
      /\ left.events > 0 /\ left' = [left EXCEPT !.events = @ - 1]
  BY DEF BoxChanges
<1>2. left' \in Lefts
  BY <1>1 DEF MetaInv, Typed, Lefts
<1>3. box' \in [on: BOOLEAN, inc: Starts, qq: BOOLEAN, config: Configs] /\ box'.inc >= box.inc
  <2>1. PICK new \in BoxEvents: box' = new
    BY DEF BoxChanges, BoxBecomes
  <2> QED BY <2>1, BoxMoves
<1>4. Typed'
  BY <1>1, <1>2, <1>3 DEF MetaInv, Typed, Lefts
<1>5. agent.floor <= box'.inc
  BY <1>3, AgentTypes DEF MetaInv, Starts
<1>6. \A s \in Readers: GoodThread(agent, plane', s, threads'[s])
  BY <1>1 DEF MetaInv
<1> QED BY <1>1, <1>4, <1>5, <1>6, SameGeneration

\* A step that concerns the traffic alone.
LEMMA SameMeta ==
  ASSUME MetaInv, UNCHANGED <<setup, box, agent, threads, plane, left>>
  PROVE  MetaInv'
BY DEF MetaInv, Typed, Cached, Fits, GoodThread, NapCat

LEMMA TickMetaOK ==
  ASSUME MetaInv, Tick
  PROVE  MetaInv'
<1> DEFINE most == Sets!Max({EnrichAge, SnapshotAge})
           age == Older(Cached.age, most)
           snapshot == [Cached EXCEPT !.age = age]
<1>1. UNCHANGED <<setup, box, threads, plane, left>>
  BY DEF Tick
<1>2. CASE Cached = None
  BY <1>1, <1>2, SameMeta DEF Tick
<1>3. CASE Cached # None
  <2>1. Cached \in Snapshot /\ Cached.age \in Nat /\ Cached = agent.snapshot
    BY <1>3, AgentTypes DEF Cached, Snapshot
  <2>2. most \in Nat
    BY TelemetryAssumption, MaxOfTwo
  <2> HIDE DEF most
  <2>3. age \in Nat
    <3>1. Cached.age + 1 \in Nat /\ Cached.age # None
      BY <2>1, Bounds
    <3> QED BY <2>2, <3>1, MinOfTwo DEF Older
  <2>4. agent' = [agent EXCEPT !.snapshot = snapshot]
    BY <1>3, <2>1, AgentTypes DEF Tick, most
  <2> HIDE DEF age
  <2>5. snapshot \in Snapshot /\ snapshot.gen = Cached.gen /\ snapshot.meta = Cached.meta
    BY <2>1, <2>3 DEF Snapshot
  <2> HIDE DEF snapshot
  <2>6. /\ agent' \in [runtime: {"starting", "warm", "cold"}, gen: Starts, floor: Starts,
                       snapshot: Snapshot \cup {None}, cred: Starts \cup {None}]
        /\ agent'.gen = agent.gen /\ agent'.floor = agent.floor /\ agent'.snapshot = snapshot
    BY <2>4, <2>5, AgentTypes
  <2>7. Fits(agent, agent'.snapshot.gen, agent'.snapshot.meta)
    BY <1>3, <2>5, <2>6 DEF MetaInv
  <2>8. Typed'
    BY <1>1, <2>6 DEF MetaInv, Typed
  <2>9. agent.floor <= box.inc /\ \A s \in Readers: GoodThread(agent, plane', s, threads'[s])
    BY <1>1 DEF MetaInv
  <2> QED BY <1>1, <2>6, <2>7, <2>8, <2>9, SameGeneration
<1> QED BY <1>2, <1>3

-----------------------------------------------------------------------------
(* Every step *)

\* What the threads do to the traffic: they start reads.
LEMMA ThreadTraffic ==
  ASSUME NEW t \in Readers, ThreadStep(t) \/ ThreadFault(t)
  PROVE  UNCHANGED trafficVars \/ \E first \in 1..Window: ReadStarts(t, first)
<1>1. ASSUME NEW first \in {MinSince, Window}, TrafficBegins(t, first)
      PROVE  UNCHANGED trafficVars \/ \E f \in 1..Window: ReadStarts(t, f)
  <2>1. first \in 1..Window
    BY Bounds
  <2> QED BY <1>1, <2>1 DEF TrafficBegins
<1>2. CASE NapCatTraffic(t) \/ SnowLumaTraffic(t) \/ LLBotTraffic(t)
  BY <1>1, <1>2 DEF NapCatTraffic, SnowLumaTraffic, LLBotTraffic
<1>3. CASE LogsIn(t) \/ HasCredential(t) \/ Rejected(t) \/ Unanswered(t)
  BY <1>3 DEF LogsIn, HasCredential, Rejected, Unanswered, trafficVars
<1>4. CASE AsksLogin(t) \/ LoginAnswered(t) \/ ConfigAnswered(t) \/ NapCatFails(t)
  BY <1>4 DEF AsksLogin, LoginAnswered, ConfigAnswered, NapCatFails, trafficVars
<1>5. CASE SnowLumaProbes(t) \/ LLBotProbes(t) \/ SnowLumaProbeFails(t) \/ LLBotProbeFails(t)
  BY <1>5 DEF SnowLumaProbes, LLBotProbes, SnowLumaProbeFails, LLBotProbeFails, Probes, ProbeFails,
              trafficVars
<1>6. CASE SnowLumaConfig(t) \/ LLBotConfig(t) \/ FileFails(t)
  BY <1>6 DEF SnowLumaConfig, LLBotConfig, FileFails, Edits, trafficVars
<1>7. CASE SnowLumaEnds(t) \/ LLBotEnds(t)
  BY <1>7 DEF SnowLumaEnds, LLBotEnds, OnlineEnds, trafficVars
<1> QED BY <1>2, <1>3, <1>4, <1>5, <1>6, <1>7 DEF ThreadStep, ThreadFault

LEMMA ThreadMeta ==
  ASSUME MetaInv, NEW t \in Readers, ThreadStep(t) \/ ThreadFault(t)
  PROVE  MetaInv'
<1>1. CASE LogsIn(t) \/ HasCredential(t) \/ Rejected(t) \/ Unanswered(t)
  BY <1>1, LogsInOK, HasCredentialOK, RejectedOK, UnansweredOK
<1>2. CASE AsksLogin(t) \/ LoginAnswered(t) \/ ConfigAnswered(t) \/ NapCatFails(t)
  BY <1>2, AsksLoginOK, LoginAnsweredOK, ConfigAnsweredOK, NapCatFailsOK
<1>3. CASE NapCatTraffic(t) \/ SnowLumaTraffic(t) \/ LLBotTraffic(t)
  BY <1>3, TrafficBeginsOK DEF NapCatTraffic, SnowLumaTraffic, LLBotTraffic
<1>4. CASE SnowLumaProbes(t) \/ LLBotProbes(t)
  BY <1>4, ProbesOK DEF SnowLumaProbes, LLBotProbes
<1>5. CASE SnowLumaProbeFails(t) \/ LLBotProbeFails(t)
  BY <1>5, ProbeFailsOK DEF SnowLumaProbeFails, LLBotProbeFails
<1>6. CASE SnowLumaConfig(t) \/ LLBotConfig(t)
  BY <1>6, EditsOK, ReadConfigIsOne, SameLeft DEF SnowLumaConfig, LLBotConfig
<1>7. CASE FileFails(t)
  BY <1>7, EditsOK, OneFaultLess DEF FileFails
<1>8. CASE SnowLumaEnds(t) \/ LLBotEnds(t)
  BY <1>8, OnlineEndsOK, NapCatIsNoOther DEF SnowLumaEnds, LLBotEnds
<1> QED BY <1>1, <1>2, <1>3, <1>4, <1>5, <1>6, <1>7, <1>8 DEF ThreadStep, ThreadFault

LEMMA LogsTraffic ==
  ASSUME TrafficInv, MetaInv, Logs
  PROVE  TrafficInv'
<1>1. PICK next \in DOMAIN setup.lines: LogLine(next, Known(setup.provider, setup.lines[next]))
  BY DEF Logs
<1>2. setup \in Setups
  BY DEF MetaInv, Typed
<1>3. next \in Slots
  BY <1>1, <1>2, TelemetryAssumption
<1>4. Known(setup.provider, setup.lines[next]) \in BOOLEAN
  <2>1. setup.provider \in {"napcat", "snowluma", "llbot"}
    BY <1>2, TelemetryAssumption
  <2> QED BY <2>1 DEF Known, parseNapCatTrafficLine, parseNapCatConnectionLine, parseSnowlumaTrafficLine,
                      parseSnowlumaConnectionLine, parseLLBotTrafficLine, parseLLBotConnectionLine, HasAny
<1> QED BY <1>1, <1>3, <1>4, LogLineOK

LEMMA BoxTraffic ==
  ASSUME TrafficInv, NEW new, BoxBecomes(new), UNCHANGED <<traffic, reads>>
  PROVE  TrafficInv'
<1>1. CASE LogGone
  BY <1>1, LogGoneOK
<1>2. CASE UNCHANGED lines
  BY <1>2, SameTraffic DEF trafficVars
<1> QED BY <1>1, <1>2 DEF BoxBecomes

LEMMA TrafficStep ==
  ASSUME TrafficInv, MetaInv, [Next]_vars
  PROVE  TrafficInv'
<1>1. ASSUME NEW t \in Readers, ThreadStep(t) \/ ThreadFault(t) PROVE TrafficInv'
  <2>1. UNCHANGED trafficVars \/ \E first \in 1..Window: ReadStarts(t, first)
    BY <1>1, ThreadTraffic
  <2> QED BY <2>1, SameTraffic, ReadStartsOK
<1>2. CASE Warms \/ HealthAnswered \/ NapCatPass \/ SnowLumaPass \/ LLBotPass
           \/ NapCatBegins \/ SnowLumaBegins \/ LLBotBegins \/ WarmFails \/ RuntimeUnavailable
           \/ \E a \in Actions: Request(a)
  <2>1. UNCHANGED trafficVars
    BY <1>2 DEF Warms, HealthAnswered, NapCatPass, SnowLumaPass, LLBotPass, CachedPass, NapCatBegins,
                SnowLumaBegins, LLBotBegins, CommandBegins, WarmFails, RuntimeUnavailable, Request, trafficVars
  <2> QED BY <2>1, SameTraffic
<1>3. CASE CommandActs \/ CommandFails \/ BoxChanges
  BY <1>3, BoxTraffic DEF CommandActs, CommandFails, BoxChanges
<1>4. CASE AgentDies
  BY <1>4, ForgetTrafficOK DEF AgentDies
<1>5. CASE Logs
  BY <1>5, LogsTraffic
<1>6. CASE Tick
  BY <1>6, TrafficAgesOK DEF Tick
<1>7. ASSUME NEW t \in Readers, ReadProceeds(t) PROVE TrafficInv'
  BY <1>7, LogAnswersOK, ReadEndsOK, ReadFailsOK DEF ReadProceeds
<1>8. CASE UNCHANGED vars
  BY <1>8, SameTraffic DEF vars, trafficVars
<1> QED BY <1>1, <1>2, <1>3, <1>4, <1>5, <1>6, <1>7, <1>8 DEF Next, MainStep, Readers

LEMMA MetaStep ==
  ASSUME MetaInv, [Next]_vars
  PROVE  MetaInv'
<1>1. ASSUME NEW t \in Readers, ThreadStep(t) \/ ThreadFault(t) PROVE MetaInv'
  BY <1>1, ThreadMeta
<1>2. CASE Warms \/ WarmFails
  BY <1>2, WarmsOK
<1>3. CASE HealthAnswered
  BY <1>3, HealthAnsweredOK
<1>4. CASE NapCatPass \/ SnowLumaPass \/ LLBotPass
  BY <1>4, NapCatPassOK, CachedPassOK DEF SnowLumaPass, LLBotPass
<1>5. CASE NapCatBegins \/ SnowLumaBegins \/ LLBotBegins
  BY <1>5, CommandBeginsOK DEF NapCatBegins, SnowLumaBegins, LLBotBegins
<1>6. CASE CommandActs \/ CommandFails \/ RuntimeUnavailable
  BY <1>6, CommandActsOK, CommandFailsOK, RuntimeUnavailableOK
<1>7. CASE \E a \in Actions: Request(a)
  BY <1>7, RequestOK
<1>8. CASE AgentDies \/ BoxChanges
  BY <1>8, AgentDiesOK, BoxChangesOK
<1>9. CASE Tick
  BY <1>9, TickMetaOK
<1>10. CASE Logs \/ \E t \in Readers: ReadProceeds(t)
  BY <1>10, SameMeta DEF Logs, ReadProceeds
<1>11. CASE UNCHANGED vars
  BY <1>11, SameMeta DEF vars
<1> QED BY <1>1, <1>2, <1>3, <1>4, <1>5, <1>6, <1>7, <1>8, <1>9, <1>10, <1>11 DEF Next, MainStep, Readers

LEMMA TrafficStarts ==
  ASSUME TrafficInit
  PROVE  TrafficInv
<1>1. Present = {} /\ \A r \in Readers: reads[r] = None
  BY DEF TrafficInit, Present, NoReads
<1>2. TrafficTypeOK
  BY DEF TrafficInit, TrafficTypeOK, NoTraffic, NoReads
<1> QED BY <1>1, <1>2 DEF TrafficInv, LinesOK, ReadsOK

LEMMA MetaStarts ==
  ASSUME Init
  PROVE  MetaInv
<1>1. /\ \A s \in Setups: s.commands \in Nat /\ s.events \in Nat /\ s.faults \in Nat
      /\ IdleThread \in Thread
  BY TelemetryAssumption DEF Budgets, IdleThread, Thread, Steps
<1>2. Typed
  BY <1>1 DEF Init, Typed, Starts, Configs
<1>3. \A t \in Readers: GoodThread(agent, plane, t, threads[t])
  BY DEF Init, GoodThread, IdleThread
<1> QED BY <1>2, <1>3 DEF Init, MetaInv, Cached

LEMMA Invariant == Spec => [](TrafficInv /\ MetaInv)
<1>1. Init => TrafficInv /\ MetaInv
  BY TrafficStarts, MetaStarts DEF Init
<1>2. TrafficInv /\ MetaInv /\ [Next]_vars => (TrafficInv /\ MetaInv)'
  BY TrafficStep, MetaStep
<1> QED BY <1>1, <1>2, PTL DEF Spec

-----------------------------------------------------------------------------
(* Theorems *)

\* All that the agent keeps of an endpoint, and what its threads and the control
\* plane are at, has its type: for every provider, budget and size of the window.
THEOREM TypeCorrect == Spec => []TypeOK
<1>1. TrafficInv /\ MetaInv => TypeOK
  BY DEF TrafficInv, MetaInv, Typed, TypeOK
<1> QED BY <1>1, Invariant, PTL

\* Every line of the log is counted once: for any window, overlap and number of
\* lines, with two readers at it, reads that fail or are cut off, and containers
\* that are replaced (protocolTraffic, ingest).
THEOREM TrafficExact == Spec => []TrafficIsExact
<1>1. TrafficInv => TrafficIsExact
  BY DEF TrafficInv, LinesOK, InWindow, TrafficIsExact
<1> QED BY <1>1, Invariant, PTL

\* No cached snapshot, and none that comes home late, is stored as the state after
\* a newer command: for every provider and any number of commands and failures.
THEOREM MetadataOfGeneration == Spec => []MetadataIsOfGeneration
<1>1. MetaInv => MetadataIsOfGeneration
  BY DEF MetaInv, Fits, MetadataIsOfGeneration
<1> QED BY <1>1, Invariant, PTL
=============================================================================
