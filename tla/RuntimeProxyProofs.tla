------------------------- MODULE RuntimeProxyProofs -------------------------
(***************************************************************************)
(* The websocket bridge of RuntimeProxy gives the runtime what it heard of  *)
(* the browser, in order, and its tickets work until Limit newer ones are   *)
(* there: proved for any number of mounts, requests, tickets and frames.    *)
(*                                                                          *)
(* FramesKeepOrder is not inductive: the handshake's end moves the queue    *)
(* behind what was received, and a later frame goes there directly, so      *)
(* nothing may stay queued; and a request that is bridged anew must start   *)
(* with a socket nobody listened to.                                        *)
(***************************************************************************)
EXTENDS RuntimeProxy, FiniteSetTheorems, SequenceTheorems, WellFoundedInduction, TLAPS

RequestRow ==
  [kind: Kinds \cup {None}, mount: Mounts \cup {None}, ticketed: BOOLEAN,
   at: {"idle", "authorizing", "routing", "upstream", "bridged"}]

SocketRow ==
  [browser: {"none", "open", "closed"}, upstream: {"none", "connecting", "open", "closing"},
   sent: Nat, seen: Seq(Nat), queued: Seq(Nat), received: Seq(Nat)]

\* A request that is bridged has a connection to the runtime, and no other has.
BridgedIsDialled(q, s) == q.at = "bridged" <=> s.upstream # "none"

\* Before the connection nothing was heard, and after its handshake nothing waits.
NothingHeard(s) == s.seen = <<>> /\ s.queued = <<>> /\ s.received = <<>>
QueueIsForHandshake(s) ==
  /\ s.upstream = "none" => NothingHeard(s)
  /\ s.upstream = "open" => s.queued = <<>>

InOrder(s) == s.upstream \in {"connecting", "open"} => s.received \o s.queued = s.seen

GoodPair(q, s) ==
  /\ q \in RequestRow /\ s \in SocketRow
  /\ BridgedIsDialled(q, s) /\ QueueIsForHandshake(s) /\ InOrder(s)

BridgeInv ==
  /\ requests = [r \in Requests |-> requests[r]]
  /\ sockets = [r \in Requests |-> sockets[r]]
  /\ \A r \in Requests: GoodPair(requests[r], sockets[r])

-----------------------------------------------------------------------------
(* What a step may do to one pair *)

LEMMA IdlePair == GoodPair(Idle, NoSocket)
<1>1. Idle \in RequestRow
  BY DEF Idle, Request, RequestRow
<1>2. NoSocket \in SocketRow
  BY DEF NoSocket, SocketRow
<1>3. BridgedIsDialled(Idle, NoSocket) /\ QueueIsForHandshake(NoSocket) /\ InOrder(NoSocket)
  BY DEF Idle, Request, NoSocket, BridgedIsDialled, QueueIsForHandshake, NothingHeard, InOrder
<1> QED BY <1>1, <1>2, <1>3 DEF GoodPair

\* Every step changes one pair at most, and leaves a good one.
LEMMA PairStep ==
  ASSUME BridgeInv, NEW r \in Requests, NEW q, NEW s, GoodPair(q, s),
         requests' = [requests EXCEPT ![r] = q], sockets' = [sockets EXCEPT ![r] = s]
  PROVE  BridgeInv'
<1>1. /\ requests' = [x \in Requests |-> IF x = r THEN q ELSE requests[x]]
      /\ sockets' = [x \in Requests |-> IF x = r THEN s ELSE sockets[x]]
  BY DEF BridgeInv
<1>2. \A x \in Requests: GoodPair(requests[x], sockets[x])
  BY DEF BridgeInv
<1>3. \A x \in Requests: GoodPair(requests'[x], sockets'[x])
  <2> SUFFICES ASSUME NEW x \in Requests PROVE GoodPair(requests'[x], sockets'[x])
    OBVIOUS
  <2>1. CASE x = r
    <3>1. requests'[x] = q /\ sockets'[x] = s
      BY <1>1, <2>1
    <3> QED BY <3>1
  <2>2. CASE x # r
    <3>1. requests'[x] = requests[x] /\ sockets'[x] = sockets[x]
      BY <1>1, <2>2
    <3> QED BY <3>1, <1>2
  <2> QED BY <2>1, <2>2
<1>4. requests' = [x \in Requests |-> requests'[x]] /\ sockets' = [x \in Requests |-> sockets'[x]]
  BY <1>1
<1> QED BY <1>3, <1>4 DEF BridgeInv

\* Steps on the request alone, or on the socket alone.
LEMMA RequestStep ==
  ASSUME BridgeInv, NEW r \in Requests, NEW q, GoodPair(q, sockets[r]),
         requests' = [requests EXCEPT ![r] = q], sockets' = sockets
  PROVE  BridgeInv'
<1>1. sockets' = [sockets EXCEPT ![r] = sockets[r]]
  BY DEF BridgeInv
<1> QED BY <1>1, PairStep

LEMMA SocketStep ==
  ASSUME BridgeInv, NEW r \in Requests, NEW s, GoodPair(requests[r], s),
         requests' = requests, sockets' = [sockets EXCEPT ![r] = s]
  PROVE  BridgeInv'
<1>1. requests' = [requests EXCEPT ![r] = requests[r]]
  BY DEF BridgeInv
<1> QED BY <1>1, PairStep

\* A request that was answered starts over.
LEMMA AnsweredStep ==
  ASSUME BridgeInv, NEW r \in Requests, Answered(r)
  PROVE  BridgeInv'
BY IdlePair, PairStep DEF Answered

-----------------------------------------------------------------------------
(* The steps of a handler before the bridge *)

LEMMA PairOf ==
  ASSUME BridgeInv, NEW r \in Requests
  PROVE  GoodPair(requests[r], sockets[r])
BY DEF BridgeInv

\* A request that is not bridged moves to another place that is not.
LEMMA MoveKeepsPair ==
  ASSUME NEW q, NEW s, GoodPair(q, s), q.at # "bridged",
         NEW where \in {"routing", "upstream"}
  PROVE  GoodPair([q EXCEPT !.at = where], s)
<1> DEFINE moved == [q EXCEPT !.at = where]
<1>1. q \in RequestRow
  BY DEF GoodPair
<1>2. moved \in RequestRow /\ moved.at = where
  BY <1>1 DEF RequestRow
<1>3. BridgedIsDialled(q, s) /\ QueueIsForHandshake(s) /\ InOrder(s) /\ s \in SocketRow
  BY DEF GoodPair
<1>4. BridgedIsDialled(moved, s)
  BY <1>2, <1>3 DEF BridgedIsDialled
<1> QED BY <1>2, <1>3, <1>4 DEF GoodPair

LEMMA MoveStep ==
  ASSUME BridgeInv, NEW r \in Requests, requests[r].at # "bridged",
         NEW where \in {"routing", "upstream"}, At(r, where), sockets' = sockets
  PROVE  BridgeInv'
<1> DEFINE q == [requests[r] EXCEPT !.at = where]
<1>1. GoodPair(q, sockets[r])
  BY PairOf, MoveKeepsPair
<1>2. requests' = [requests EXCEPT ![r] = q]
  BY DEF At
<1> HIDE DEF q
<1> QED BY <1>1, <1>2, RequestStep

\* Admission: a new request on a socket that has no connection yet.
LEMMA AdmittedStep ==
  ASSUME BridgeInv, NEW r \in Requests, requests[r].at = "idle",
         NEW kind \in Kinds, NEW mount \in Mounts, NEW ticketed \in BOOLEAN,
         Admitted(r, kind, mount, ticketed)
  PROVE  BridgeInv'
<1> DEFINE q == Request(kind, IF kind = "document" /\ ~ticketed THEN mount ELSE None, ticketed,
                        IF ticketed THEN "routing" ELSE "authorizing")
           b == IF kind = "socket" THEN "open" ELSE "none"
           s == [sockets[r] EXCEPT !.browser = b]
<1>1. q \in RequestRow /\ q.at # "bridged"
  BY DEF Request, RequestRow
<1>2. GoodPair(requests[r], sockets[r])
  BY PairOf
<1>3. sockets[r] \in SocketRow /\ sockets[r].upstream = "none" /\ NothingHeard(sockets[r])
  BY <1>2 DEF GoodPair, BridgedIsDialled, QueueIsForHandshake
<1>4. /\ s \in SocketRow /\ s.upstream = "none"
      /\ s.seen = sockets[r].seen /\ s.queued = sockets[r].queued
      /\ s.received = sockets[r].received
  BY <1>3 DEF SocketRow
<1>5. requests' = [requests EXCEPT ![r] = q]
  BY DEF Admitted
<1>6. sockets' = [sockets EXCEPT ![r] = s]
  BY DEF Admitted
<1> HIDE DEF q, s
<1>7. BridgedIsDialled(q, s) /\ QueueIsForHandshake(s) /\ InOrder(s)
  BY <1>1, <1>3, <1>4 DEF BridgedIsDialled, QueueIsForHandshake, NothingHeard, InOrder
<1>8. GoodPair(q, s)
  BY <1>1, <1>4, <1>7 DEF GoodPair
<1> QED BY <1>5, <1>6, <1>8, PairStep

LEMMA ArriveStep ==
  ASSUME BridgeInv, NEW r \in Requests, Arrive(r)
  PROVE  BridgeInv'
<1>1. PICK kind \in Kinds, mount \in Mounts:
        requests[r].at = "idle" /\ (\/ Answered(r)
                                    \/ Admitted(r, kind, mount, TRUE)
                                    \/ Admitted(r, kind, mount, FALSE))
  BY DEF Arrive
<1> QED BY <1>1, AnsweredStep, AdmittedStep

-----------------------------------------------------------------------------
(* The steps of the bridge *)

LEMMA DialStep ==
  ASSUME BridgeInv, NEW r \in Requests, Dial(r)
  PROVE  BridgeInv'
<1> DEFINE q == [requests[r] EXCEPT !.at = "bridged"]
           s == [sockets[r] EXCEPT !.upstream = "connecting"]
<1>1. GoodPair(requests[r], sockets[r]) /\ requests[r].at = "routing"
  BY PairOf DEF Dial, Routed
<1>2. requests[r] \in RequestRow /\ sockets[r] \in SocketRow /\ NothingHeard(sockets[r])
  BY <1>1 DEF GoodPair, BridgedIsDialled, QueueIsForHandshake
<1>3. q \in RequestRow /\ q.at = "bridged"
  BY <1>2 DEF RequestRow
<1>4. /\ s \in SocketRow /\ s.upstream = "connecting"
      /\ s.seen = <<>> /\ s.queued = <<>> /\ s.received = <<>>
  BY <1>2 DEF SocketRow, NothingHeard
<1>5. requests' = [requests EXCEPT ![r] = q] /\ sockets' = [sockets EXCEPT ![r] = s]
  BY DEF Dial, At, Socket
<1> HIDE DEF q, s
<1>6. BridgedIsDialled(q, s) /\ QueueIsForHandshake(s)
  BY <1>3, <1>4 DEF BridgedIsDialled, QueueIsForHandshake
<1>7. InOrder(s)
  BY <1>4 DEF InOrder
<1> QED BY <1>3, <1>4, <1>5, <1>6, <1>7, PairStep DEF GoodPair

\* A frame goes to the end of what was seen, and to the end of what was received
\* and queued together.
LEMMA AppendBehindConcat ==
  ASSUME NEW f \in Seq(Nat), NEW g \in Seq(Nat), NEW n \in Nat
  PROVE  f \o Append(g, n) = Append(f \o g, n)
<1>1. Append(g, n) = g \o <<n>> /\ <<n>> \in Seq(Nat)
  BY AppendIsConcat
<1>2. f \o g \in Seq(Nat) /\ f \o (g \o <<n>>) = (f \o g) \o <<n>>
  BY <1>1, ConcatProperties, ConcatAssociative
<1>3. Append(f \o g, n) = (f \o g) \o <<n>>
  BY <1>2, AppendIsConcat
<1> QED BY <1>1, <1>2, <1>3

LEMMA HeardPair ==
  ASSUME NEW q, NEW t, GoodPair(q, t), q.at = "bridged", NEW n \in Nat, NEW m \in Nat
  PROVE  GoodPair(q, Heard([[t EXCEPT !.sent = m] EXCEPT !.seen = Append(@, n)], n))
<1> DEFINE c == [t EXCEPT !.sent = m]
           u == [c EXCEPT !.seen = Append(@, n)]
           s == Heard(u, n)
<1> SUFFICES GoodPair(q, s)
  OBVIOUS
<1>1. /\ q \in RequestRow /\ t \in SocketRow /\ t.upstream # "none"
      /\ QueueIsForHandshake(t) /\ InOrder(t)
  BY DEF GoodPair, BridgedIsDialled
<1>2. t.seen \in Seq(Nat) /\ t.queued \in Seq(Nat) /\ t.received \in Seq(Nat)
  BY <1>1 DEF SocketRow
<1>3. /\ c \in SocketRow /\ c.seen = t.seen
      /\ c.upstream = t.upstream /\ c.queued = t.queued /\ c.received = t.received
  BY <1>1 DEF SocketRow
<1> HIDE DEF c
<1>4. Append(c.seen, n) \in Seq(Nat)
  BY <1>2, <1>3, AppendProperties
<1>5. /\ u \in SocketRow /\ u.seen = Append(t.seen, n)
      /\ u.upstream = t.upstream /\ u.queued = t.queued /\ u.received = t.received
  BY <1>3, <1>4 DEF SocketRow
<1> HIDE DEF u
<1>6. CASE t.upstream = "open"
  <2>1. t.queued = <<>> /\ t.received \o <<>> = t.seen
    BY <1>1, <1>6 DEF QueueIsForHandshake, InOrder
  <2>2. t.received = t.seen
    BY <1>2, <2>1, ConcatEmptySeq
  <2>3. Append(u.received, n) \in Seq(Nat)
    BY <1>2, <1>5, AppendProperties
  <2>4. s = [u EXCEPT !.received = Append(@, n)]
    BY <1>5, <1>6 DEF Heard
  <2>5. /\ s \in SocketRow /\ s.upstream = "open" /\ s.queued = <<>>
        /\ s.seen = Append(t.seen, n) /\ s.received = Append(t.received, n)
    BY <1>5, <1>6, <2>1, <2>3, <2>4 DEF SocketRow
  <2> HIDE DEF s
  <2>6. s.received \in Seq(Nat) /\ s.received = s.seen
    BY <2>2, <2>5 DEF SocketRow
  <2>7. s.received \o s.queued = s.seen
    BY <2>5, <2>6, ConcatEmptySeq
  <2> QED BY <1>1, <2>5, <2>7 DEF GoodPair, BridgedIsDialled, QueueIsForHandshake, InOrder
<1>7. CASE t.upstream = "connecting"
  <2>1. t.received \o t.queued = t.seen
    BY <1>1, <1>7 DEF InOrder
  <2>2. Append(u.queued, n) \in Seq(Nat)
    BY <1>2, <1>5, AppendProperties
  <2>3. s = [u EXCEPT !.queued = Append(@, n)]
    BY <1>5, <1>7 DEF Heard
  <2>4. /\ s \in SocketRow /\ s.upstream = "connecting" /\ s.queued = Append(t.queued, n)
        /\ s.seen = Append(t.seen, n) /\ s.received = t.received
    BY <1>5, <1>7, <2>2, <2>3 DEF SocketRow
  <2> HIDE DEF s
  <2>5. s.received \o s.queued = s.seen
    BY <1>2, <2>1, <2>4, AppendBehindConcat
  <2> QED BY <1>1, <2>4, <2>5 DEF GoodPair, BridgedIsDialled, QueueIsForHandshake, InOrder
<1>8. CASE t.upstream = "closing"
  <2>1. s = u
    BY <1>5, <1>8 DEF Heard
  <2> HIDE DEF s
  <2> QED BY <1>1, <1>5, <1>8, <2>1 DEF GoodPair, BridgedIsDialled, QueueIsForHandshake, InOrder
<1>9. t.upstream \in {"none", "connecting", "open", "closing"}
  BY <1>1 DEF SocketRow
<1> HIDE DEF s
<1> QED BY <1>1, <1>6, <1>7, <1>8, <1>9

LEMMA BrowserSendsStep ==
  ASSUME BridgeInv, NEW r \in Requests, BrowserSends(r)
  PROVE  BridgeInv'
<1> DEFINE t == sockets[r]
           m == t.sent + 1
           c == [t EXCEPT !.sent = m]
<1>1. GoodPair(requests[r], t)
  BY PairOf
<1>2. t \in SocketRow /\ m \in Nat
  BY <1>1 DEF GoodPair, SocketRow
<1>3. c.sent = m
  BY <1>2 DEF SocketRow
<1>4. /\ requests' = requests
      /\ sockets' = [sockets EXCEPT ![r] =
           IF requests[r].at = "bridged" THEN Heard([c EXCEPT !.seen = Append(@, c.sent)], c.sent)
           ELSE c]
  BY DEF BrowserSends, Socket
<1>5. CASE requests[r].at = "bridged"
  <2>1. GoodPair(requests[r], Heard([c EXCEPT !.seen = Append(@, m)], m))
    BY <1>1, <1>2, <1>5, HeardPair
  <2>2. sockets' = [sockets EXCEPT ![r] = Heard([c EXCEPT !.seen = Append(@, m)], m)]
    BY <1>3, <1>4, <1>5
  <2> HIDE DEF c, m
  <2> QED BY <1>4, <2>1, <2>2, SocketStep
<1>6. CASE requests[r].at # "bridged"
  <2>1. /\ c \in SocketRow /\ c.upstream = t.upstream
        /\ c.seen = t.seen /\ c.queued = t.queued /\ c.received = t.received
    BY <1>2 DEF SocketRow
  <2>2. sockets' = [sockets EXCEPT ![r] = c]
    BY <1>4, <1>6
  <2> HIDE DEF c
  <2>3. GoodPair(requests[r], c)
    BY <1>1, <2>1 DEF GoodPair, BridgedIsDialled, QueueIsForHandshake, NothingHeard, InOrder
  <2> QED BY <1>4, <2>2, <2>3, SocketStep
<1> QED BY <1>5, <1>6

LEMMA BrowserClosesStep ==
  ASSUME BridgeInv, NEW r \in Requests, BrowserCloses(r)
  PROVE  BridgeInv'
<1> DEFINE t == sockets[r]
           c == [t EXCEPT !.browser = "closed"]
           d == [c EXCEPT !.upstream = "closing"]
<1>1. GoodPair(requests[r], t)
  BY PairOf
<1>2. /\ c \in SocketRow /\ c.upstream = t.upstream
      /\ c.seen = t.seen /\ c.queued = t.queued /\ c.received = t.received
  BY <1>1 DEF GoodPair, SocketRow
<1>3. requests' = requests
      /\ sockets' = [sockets EXCEPT ![r] = IF requests[r].at = "bridged" THEN d ELSE c]
  BY DEF BrowserCloses, Socket
<1> HIDE DEF c
<1>4. d \in SocketRow /\ d.upstream = "closing"
  BY <1>2 DEF SocketRow
<1> HIDE DEF d
<1>5. requests[r].at = "bridged" => GoodPair(requests[r], d)
  BY <1>1, <1>4 DEF GoodPair, BridgedIsDialled, QueueIsForHandshake, InOrder
<1>6. GoodPair(requests[r], c)
  BY <1>1, <1>2 DEF GoodPair, BridgedIsDialled, QueueIsForHandshake, NothingHeard, InOrder
<1> QED BY <1>3, <1>5, <1>6, SocketStep

\* The end of the handshake: the queue goes out as one.
LEMMA UpstreamOpensStep ==
  ASSUME BridgeInv, NEW r \in Requests, UpstreamOpens(r)
  PROVE  BridgeInv'
<1> DEFINE t == sockets[r]
           s == [t EXCEPT !.upstream = "open", !.queued = <<>>, !.received = @ \o t.queued]
<1>1. GoodPair(requests[r], t) /\ t.upstream = "connecting"
  BY PairOf DEF UpstreamOpens
<1>2. t \in SocketRow /\ t.received \o t.queued = t.seen
  BY <1>1 DEF GoodPair, InOrder
<1>3. t.seen \in Seq(Nat)
  BY <1>2 DEF SocketRow
<1> DEFINE flushed == [t EXCEPT !.upstream = "open", !.queued = <<>>, !.received = t.seen]
<1>4. s = flushed
  BY <1>2
<1>5. <<>> \in Seq(Nat)
  OBVIOUS
<1>6. /\ s \in SocketRow /\ s.upstream = "open"
      /\ s.queued = <<>> /\ s.seen = t.seen /\ s.received = t.seen
  <2>1. /\ flushed \in SocketRow /\ flushed.upstream = "open"
        /\ flushed.queued = <<>> /\ flushed.seen = t.seen /\ flushed.received = t.seen
    BY <1>2, <1>3, <1>5 DEF SocketRow
  <2> HIDE DEF s, flushed
  <2> QED BY <2>1, <1>4
<1>7. requests' = requests /\ sockets' = [sockets EXCEPT ![r] = s]
  BY DEF UpstreamOpens, Socket
<1> HIDE DEF s
<1>8. s.received \o s.queued = s.seen
  BY <1>3, <1>6, ConcatEmptySeq
<1>9. GoodPair(requests[r], s)
  BY <1>1, <1>6, <1>8 DEF GoodPair, BridgedIsDialled, QueueIsForHandshake, InOrder
<1> QED BY <1>7, <1>9, SocketStep

-----------------------------------------------------------------------------
(* The theorem *)

LEMMA BridgeInit == Init => BridgeInv
<1> SUFFICES ASSUME Init PROVE BridgeInv
  OBVIOUS
<1>1. requests = [r \in Requests |-> Idle] /\ sockets = [r \in Requests |-> NoSocket]
  BY DEF Init
<1>2. \A r \in Requests: GoodPair(requests[r], sockets[r])
  BY <1>1, IdlePair
<1> QED BY <1>1, <1>2 DEF BridgeInv

LEMMA BridgeNext == BridgeInv /\ [Next]_vars => BridgeInv'
<1> SUFFICES ASSUME BridgeInv, [Next]_vars PROVE BridgeInv'
  OBVIOUS
<1>1. ASSUME NEW r \in Requests,
             \/ Arrive(r) \/ Authorized(r) \/ Refused(r) \/ Redirect(r) \/ AnswerPreflight(r)
             \/ Forward(r) \/ Answers(r) \/ TimesOut(r) \/ UpstreamEnds(r)
      PROVE  BridgeInv'
  <2>1. CASE Arrive(r)
    BY <2>1, ArriveStep
  <2>2. CASE Authorized(r)
    BY <2>2, MoveStep DEF Authorized
  <2>3. CASE Forward(r)
    <3>1. requests[r].at = "routing"
      BY <2>3 DEF Forward, Routed
    <3> QED BY <2>3, <3>1, MoveStep DEF Forward
  <2>4. CASE Refused(r) \/ Redirect(r) \/ AnswerPreflight(r) \/ Answers(r) \/ TimesOut(r)
             \/ UpstreamEnds(r)
    BY <2>4, AnsweredStep
       DEF Refused, Redirect, AnswerPreflight, Answers, TimesOut, UpstreamEnds
  <2> QED BY <1>1, <2>1, <2>2, <2>3, <2>4
<1>2. ASSUME NEW r \in Requests,
             Dial(r) \/ BrowserSends(r) \/ BrowserCloses(r) \/ UpstreamOpens(r)
      PROVE  BridgeInv'
  BY <1>2, DialStep, BrowserSendsStep, BrowserClosesStep, UpstreamOpensStep
<1>3. CASE Tick \/ UNCHANGED vars
  <2>1. requests' = requests /\ sockets' = sockets
    BY <1>3 DEF Tick, vars
  <2> QED BY <2>1 DEF BridgeInv
<1> QED BY <1>1, <1>2, <1>3 DEF Next

\* Whatever requests, tickets and other websockets do meanwhile, and wherever the
\* handshake with the runtime ends between two frames (bridgeWebSocket, the frames
\* it queued and their flush on "open").
THEOREM BridgeKeepsOrder == Spec => []FramesKeepOrder
<1>1. BridgeInv => FramesKeepOrder
  BY DEF BridgeInv, GoodPair, InOrder, FramesKeepOrder
<1> QED BY <1>1, BridgeInit, BridgeNext, PTL DEF Spec

-----------------------------------------------------------------------------
(* Tickets *)

Ticket == [mount: Mounts \cup {None}, age: Nat]

TicketInv ==
  /\ minted \in Seq(Ticket)
  /\ entries \subseteq DOMAIN minted
  /\ LiveTicketWorks

\* The first of at least Limit tickets is not among the last Limit - 1.
LEMMA OldestIsOld ==
  ASSUME NEW n \in Nat, NEW kept \in SUBSET (1..n), Cardinality(kept) >= Limit
  PROVE  Oldest(kept) \in kept /\ Oldest(kept) <= n + 1 - Limit
<1>1. IsFiniteSet(kept) /\ Cardinality(kept) \in Nat
  <2>1. IsFiniteSet(1..n)
    BY FS_Interval
  <2>2. IsFiniteSet(kept)
    BY <2>1, FS_Subset
  <2> QED BY <2>2, FS_CardinalityType
<1>2. kept # {}
  BY <1>1, FS_EmptySet, ProxyAssumption
<1>3. \E t \in kept: \A u \in kept: t <= u
  <2>1. PICK t \in kept: \A u \in kept: <<u, t>> \notin OpToRel(<, Nat)
    <3>1. kept \subseteq Nat
      OBVIOUS
    <3> QED BY <1>2, <3>1, NatLessThanWellFounded, WFMin
  <2>2. ASSUME NEW u \in kept PROVE ~(u < t)
    <3>1. u \in Nat /\ t \in Nat
      OBVIOUS
    <3>2. u < t => <<u, t>> \in OpToRel(<, Nat)
      BY <3>1, Zenon DEF OpToRel
    <3> QED BY <2>1, <3>2
  <2> QED BY <2>2
<1> DEFINE m == Oldest(kept)
<1>4. m \in kept /\ \A u \in kept: m <= u
  BY <1>3 DEF Oldest
<1> HIDE DEF m
<1>5. kept \subseteq m..n
  BY <1>4
<1>6. IsFiniteSet(m..n) /\ Cardinality(m..n) = n - m + 1
  BY <1>4, FS_Interval
<1>7. Cardinality(kept) <= n - m + 1
  BY <1>5, <1>6, FS_Subset
<1>8. m <= n + 1 - Limit
  BY <1>1, <1>4, <1>7, ProxyAssumption
<1> QED BY <1>4, <1>8 DEF m

\* A ticket that is kept, or leaves as an expired one, works as before; what was
\* minted grows older only.
LEMMA TicketsStay ==
  ASSUME TicketInv, minted' = minted, NEW ticket, entries' = entries \/ entries' = Redeemed(ticket)
  PROVE  TicketInv'
<1>1. entries' \subseteq entries
  BY DEF Redeemed
<1>2. \A t \in entries: ~Expired(t) => t \in entries'
  BY DEF Redeemed
<1> QED BY <1>1, <1>2 DEF TicketInv, LiveTicketWorks, Redeems, Expired

LEMMA MintedTicket ==
  ASSUME TicketInv, NEW m \in Mounts \cup {None}, Mint(m)
  PROVE  TicketInv'
<1> DEFINE n == Len(minted)
           kept == {t \in entries: ~Expired(t)}
           new == [mount |-> m, age |-> 0]
<1>1. n \in Nat /\ DOMAIN minted = 1..n /\ minted \in Seq(Ticket) /\ entries \subseteq 1..n
  BY DEF TicketInv
<1>2. new \in Ticket
  BY DEF Ticket
<1>3. minted' = Append(minted, new) /\ entries' = Keep(kept) \cup {n + 1}
  BY DEF Mint
<1> HIDE DEF new
<1>4. /\ minted' \in Seq(Ticket) /\ Len(minted') = n + 1 /\ DOMAIN minted' = 1..(n + 1)
      /\ minted'[n + 1] = new /\ \A t \in 1..n: minted'[t] = minted[t]
  <2>1. /\ Append(minted, new) \in Seq(Ticket) /\ Len(Append(minted, new)) = n + 1
        /\ Append(minted, new)[n + 1] = new
        /\ \A t \in 1..n: Append(minted, new)[t] = minted[t]
    BY <1>1, <1>2, AppendProperties
  <2> QED BY <2>1, <1>1, <1>3
<1>5. Keep(kept) \subseteq kept
  BY DEF Keep
<1>6. entries' \subseteq DOMAIN minted'
  <2>1. kept \subseteq 1..n
    BY <1>1
  <2>2. n + 1 \in 1..(n + 1) /\ \A t \in 1..n: t \in 1..(n + 1)
    BY <1>1
  <2>3. entries' \subseteq 1..(n + 1)
    <3> HIDE DEF kept, n
    <3> QED BY <2>1, <2>2, <1>3, <1>5
  <2> QED BY <2>3, <1>4
<1>7. ASSUME NEW t \in DOMAIN minted', ~Expired(t)', t > n + 1 - Limit
      PROVE  t \in entries'
  <2>1. CASE t = n + 1
    BY <2>1, <1>3
  <2>2. CASE t \in 1..n
    <3>1. ~Expired(t)
      BY <2>2, <1>4, <1>7 DEF Expired
    <3>2. t > n - Limit
      BY <2>2, <1>1, <1>7, ProxyAssumption
    <3>3. t \in kept
      BY <2>2, <3>1, <3>2, <1>1 DEF TicketInv, LiveTicketWorks, Redeems
    <3>4. CASE Cardinality(kept) >= Limit
      <4>1. kept \in SUBSET (1..n)
        BY <1>1
      <4>2. Oldest(kept) <= n + 1 - Limit
        BY <4>1, <3>4, <1>1, OldestIsOld
      <4>3. t # Oldest(kept)
        BY <4>2, <1>1, <1>7, <2>2, ProxyAssumption
      <4> QED BY <4>3, <3>3, <3>4, <1>3 DEF Keep
    <3>5. CASE ~(Cardinality(kept) >= Limit)
      BY <3>5, <3>3, <1>3 DEF Keep
    <3> QED BY <3>4, <3>5
  <2> QED BY <2>1, <2>2, <1>1, <1>4
<1>8. LiveTicketWorks'
  <2> SUFFICES ASSUME NEW t \in DOMAIN minted', ~Expired(t)', t > Len(minted') - Limit
               PROVE  Redeems(t, minted[t].mount)'
    BY DEF LiveTicketWorks
  <2>1. t > n + 1 - Limit
    BY <1>1, <1>4, ProxyAssumption
  <2>2. t \in entries'
    BY <2>1, <1>7
  <2> QED BY <2>2 DEF Redeems
<1> QED BY <1>4, <1>6, <1>8 DEF TicketInv

LEMMA TicketsAge ==
  ASSUME TicketInv, Tick
  PROVE  TicketInv'
<1> DEFINE n == Len(minted)
<1>1. n \in Nat /\ DOMAIN minted = 1..n /\ minted \in [1..n -> Ticket]
  BY LenProperties DEF TicketInv
<1>2. minted' = [t \in 1..n |->
        IF minted[t].age < Lifetime THEN [minted[t] EXCEPT !.age = @ + 1] ELSE minted[t]]
  BY <1>1 DEF Tick
<1>3. ASSUME NEW t \in 1..n
      PROVE  /\ minted'[t] \in Ticket /\ minted'[t].mount = minted[t].mount
             /\ minted[t].age \in Nat /\ minted[t].age <= minted'[t].age
  <2>1. minted[t] \in Ticket
    BY <1>1
  <2>2. minted[t].age \in Nat
    BY <2>1 DEF Ticket
  <2> QED BY <2>1, <2>2, <1>2 DEF Ticket
<1>4. minted' \in Seq(Ticket) /\ DOMAIN minted' = 1..n /\ Len(minted') = n
  <2>1. minted' \in [1..n -> Ticket]
    BY <1>2, <1>3
  <2> QED BY <2>1, <1>1, SeqDef, LenProperties
<1>5. entries' = entries
  BY DEF Tick
<1>6. ASSUME NEW t \in 1..n, ~Expired(t)'
      PROVE  ~Expired(t)
  <2>1. ~(minted'[t].age >= Lifetime)
    BY <1>6 DEF Expired
  <2>2. minted[t].age \in Nat /\ minted'[t].age \in Nat /\ minted[t].age <= minted'[t].age
    BY <1>3 DEF Ticket
  <2> QED BY <2>1, <2>2, ProxyAssumption DEF Expired
<1>7. LiveTicketWorks'
  BY <1>1, <1>4, <1>5, <1>6 DEF TicketInv, LiveTicketWorks, Redeems
<1> QED BY <1>1, <1>4, <1>5, <1>7 DEF TicketInv

LEMMA TicketInit == Init => TicketInv
<1> SUFFICES ASSUME Init PROVE TicketInv
  OBVIOUS
<1>1. minted = <<>> /\ entries = {}
  BY DEF Init
<1>2. minted \in Seq(Ticket) /\ DOMAIN minted = {}
  BY <1>1, EmptySeq
<1> QED BY <1>1, <1>2 DEF TicketInv, LiveTicketWorks

LEMMA TicketNext == BridgeInv /\ TicketInv /\ [Next]_vars => TicketInv'
<1> SUFFICES ASSUME BridgeInv, TicketInv, [Next]_vars PROVE TicketInv'
  OBVIOUS
<1>1. ASSUME NEW r \in Requests, Arrive(r)
      PROVE  TicketInv'
  <2>1. minted' = minted /\ \E ticket: entries' = entries \/ entries' = Redeemed(ticket)
    BY <1>1 DEF Arrive
  <2> QED BY <2>1, TicketsStay
<1>2. ASSUME NEW r \in Requests, Redirect(r)
      PROVE  TicketInv'
  <2>1. requests[r].mount \in Mounts \cup {None}
    BY DEF BridgeInv, GoodPair, RequestRow
  <2> QED BY <1>2, <2>1, MintedTicket DEF Redirect
<1>3. ASSUME NEW r \in Requests,
             \/ Authorized(r) \/ Refused(r) \/ AnswerPreflight(r) \/ Forward(r) \/ Answers(r)
             \/ TimesOut(r) \/ Dial(r) \/ BrowserSends(r) \/ BrowserCloses(r)
             \/ UpstreamOpens(r) \/ UpstreamEnds(r)
      PROVE  TicketInv'
  <2>1. minted' = minted /\ entries' = entries
    BY <1>3 DEF Authorized, Refused, AnswerPreflight, Forward, Answers, TimesOut, Dial, BrowserSends,
                BrowserCloses, UpstreamOpens, UpstreamEnds
  <2> QED BY <2>1, TicketsStay
<1>4. CASE Tick
  BY <1>4, TicketsAge
<1>5. CASE UNCHANGED vars
  BY <1>5, TicketsStay DEF vars
<1> QED BY <1>1, <1>2, <1>3, <1>4, <1>5 DEF Next

\* A live ticket is kept through every sweep and every ticket found expired, and it
\* is never the one that makes room, unless Limit newer ones were minted (TicketStore.
\* mint, sweep and redeem).
THEOREM LiveTicketsWork == Spec => []LiveTicketWorks
<1>1. TicketInv => LiveTicketWorks
  BY DEF TicketInv
<1> QED BY <1>1, BridgeInit, BridgeNext, TicketInit, TicketNext, PTL DEF Spec
=============================================================================
