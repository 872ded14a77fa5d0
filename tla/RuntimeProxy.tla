---------------------------- MODULE RuntimeProxy ----------------------------
(***************************************************************************)
(* The proxy through which the console shows the user interface of a         *)
(* runtime: documents mint tickets, what the sandboxed frame asks for next   *)
(* presents them, and websockets are bridged. A mount is an endpoint and one *)
(* of its published ports.                                                   *)
(*                                                                          *)
(* One process serves every request; a handler runs without interruption up  *)
(* to its next await. Operators marked "Defect" are variants of the           *)
(* definition that follows them, as a plausible bug would have it.           *)
(***************************************************************************)
EXTENDS Naturals, Sequences, FiniteSets

CONSTANTS
  Mounts, Requests,
  Limit,       \* TICKET_LIMIT
  Lifetime,    \* ticketTtlMs, in ticks
  MaxTickets,  \* bound: tickets minted
  MaxFrames,   \* bound: frames of one websocket
  None

ASSUME ProxyAssumption ==
  /\ Limit \in Nat \ {0} /\ Lifetime \in Nat \ {0}
  /\ MaxTickets \in Nat /\ MaxFrames \in Nat
  /\ None \notin Nat

VARIABLES
  entries,   \* TicketStore.entries: the tickets kept, numbered in the order of the Map
  minted,    \* history: mount and age of every ticket minted
  requests,  \* requests: what is asked, and how far its handler is
  sockets    \* their websockets

vars == <<entries, minted, requests, sockets>>

\* A navigation, any other request, one that changes something and does not come
\* from the console, a preflight, a websocket, and one of a foreign origin.
Kinds == {"document", "call", "foreignCall", "preflight", "socket", "foreignSocket"}

Request(kind, mount, ticketed, at) == [kind |-> kind, mount |-> mount, ticketed |-> ticketed, at |-> at]
Idle == Request(None, None, FALSE, "idle")
NoSocket == [browser |-> "none", upstream |-> "none", sent |-> 0, seen |-> <<>>, queued |-> <<>>, received |-> <<>>]

-----------------------------------------------------------------------------
(* Tickets *)

Expired(ticket) == minted[ticket].age >= Lifetime

\* The Map's first key: a ticket enters it when it is minted and never again.
Oldest(kept) == CHOOSE t \in kept: \A u \in kept: t <= u

\* Defect: the newest entry makes room.
KeepEvictingNewest(kept) ==
  IF Cardinality(kept) >= Limit THEN {t \in kept: \E u \in kept: t < u} ELSE kept

\* What is kept of them when one more is minted.
Keep(kept) == IF Cardinality(kept) >= Limit THEN kept \ {Oldest(kept)} ELSE kept

Mint(mount) ==
  /\ Len(minted) < MaxTickets
  /\ entries' = Keep({t \in entries: ~Expired(t)}) \cup {Len(minted) + 1}
  /\ minted' = Append(minted, [mount |-> mount, age |-> 0])

Redeems(ticket, mount) == ticket \in entries /\ ~Expired(ticket) /\ minted[ticket].mount = mount
\* redeem drops a ticket it finds expired.
Redeemed(ticket) == IF Expired(ticket) THEN entries \ {ticket} ELSE entries

-----------------------------------------------------------------------------
(* resolveTarget *)

At(r, where) == requests' = [requests EXCEPT ![r].at = where]

\* The request has its answer, a refusal or a redirect, say, and its websocket is
\* closed with it.
Answered(r) ==
  /\ requests' = [requests EXCEPT ![r] = Idle]
  /\ sockets' = [sockets EXCEPT ![r] = NoSocket]

\* From here on the mount matters to the ticket of a document alone.
Admitted(r, kind, mount, ticketed) ==
  /\ requests' = [requests EXCEPT ![r] =
       Request(kind, IF kind = "document" /\ ~ticketed THEN mount ELSE None, ticketed,
               IF ticketed THEN "routing" ELSE "authorizing")]
  /\ sockets' = [sockets EXCEPT ![r].browser = IF kind = "socket" THEN "open" ELSE "none"]

\* Up to the first await: what is not from the console and carries no ticket is
\* refused, a ticket is the credential, and all else is authorised by its session.
Arrive(r) ==
  \E kind \in Kinds, mount \in Mounts, ticket \in {None} \cup DOMAIN minted:
    /\ requests[r].at = "idle"
    /\ \/ /\ kind = "foreignSocket" \/ (kind = "foreignCall" /\ ticket = None)
          /\ Answered(r) /\ UNCHANGED entries
       \/ /\ kind # "foreignSocket" /\ ticket # None
          /\ IF Redeems(ticket, mount) THEN Admitted(r, kind, mount, TRUE) ELSE Answered(r)
          /\ entries' = Redeemed(ticket)
       \/ /\ kind \notin {"foreignSocket", "foreignCall"} /\ ticket = None
          /\ Admitted(r, kind, mount, FALSE) /\ UNCHANGED entries
    /\ UNCHANGED minted

Authorized(r) ==
  /\ requests[r].at = "authorizing" /\ At(r, "routing")
  /\ UNCHANGED <<entries, minted, sockets>>

\* The user may not operate the endpoint; the lookup of the route fails, or the node
\* reports no reachable user interface.
Refused(r) ==
  /\ requests[r].at \in {"authorizing", "routing"} /\ Answered(r)
  /\ UNCHANGED <<entries, minted>>

Routed(r, kinds) == requests[r].at = "routing" /\ requests[r].kind \in kinds

\* The document navigation carries the session: it gets a ticket and goes on under it.
Redirect(r) ==
  /\ Routed(r, {"document"}) /\ ~requests[r].ticketed
  /\ Mint(requests[r].mount) /\ Answered(r)

AnswerPreflight(r) ==
  /\ Routed(r, {"preflight"}) /\ requests[r].ticketed /\ Answered(r)
  /\ UNCHANGED <<entries, minted>>

Forward(r) ==
  /\ IF requests[r].ticketed THEN Routed(r, Kinds \ {"socket", "preflight"})
     ELSE Routed(r, Kinds \ {"socket", "document"})
  /\ At(r, "upstream")
  /\ UNCHANGED <<entries, minted, sockets>>

-----------------------------------------------------------------------------
(* bridgeHttp *)

\* It answers, refuses the connection or drops it: 502.
Answers(r) ==
  /\ requests[r].at = "upstream" /\ Answered(r)
  /\ UNCHANGED <<entries, minted>>

\* What has been upstream for 30 s times out, whatever the runtime does: 504.
TimesOut(r) ==
  /\ requests[r].at = "upstream" /\ Answered(r)
  /\ UNCHANGED <<entries, minted>>

-----------------------------------------------------------------------------
(* bridgeWebSocket *)

Socket(r, s) == sockets' = [sockets EXCEPT ![r] = s]

\* Only now does the proxy listen to the browser's socket.
Dial(r) ==
  /\ Routed(r, {"socket"})
  /\ At(r, "bridged") /\ Socket(r, [sockets[r] EXCEPT !.upstream = "connecting"])
  /\ UNCHANGED <<entries, minted>>

\* Defect: what comes before the handshake is over is dropped.
HeardWhenOpen(s, frame) ==
  IF s.upstream = "open" THEN [s EXCEPT !.received = Append(@, frame)] ELSE s

\* A frame is sent on, or kept until the handshake with the runtime is over.
Heard(s, frame) ==
  CASE s.upstream = "open" -> [s EXCEPT !.received = Append(@, frame)]
    [] s.upstream = "connecting" -> [s EXCEPT !.queued = Append(@, frame)]
    [] OTHER -> s

\* Without a listener yet, nobody hears the frame.
BrowserSends(r) ==
  LET s == sockets[r]
      sent == [s EXCEPT !.sent = @ + 1] IN
  /\ s.browser = "open" /\ s.sent < MaxFrames
  /\ Socket(r, IF requests[r].at = "bridged"
               THEN Heard([sent EXCEPT !.seen = Append(@, sent.sent)], sent.sent) ELSE sent)
  /\ UNCHANGED <<entries, minted, requests>>

BrowserCloses(r) ==
  LET s == [sockets[r] EXCEPT !.browser = "closed"] IN
  /\ sockets[r].browser = "open"
  /\ Socket(r, IF requests[r].at = "bridged" THEN [s EXCEPT !.upstream = "closing"] ELSE s)
  /\ UNCHANGED <<entries, minted, requests>>

UpstreamOpens(r) ==
  /\ sockets[r].upstream = "connecting"
  /\ Socket(r, [sockets[r] EXCEPT !.upstream = "open", !.queued = <<>>, !.received = @ \o sockets[r].queued])
  /\ UNCHANGED <<entries, minted, requests>>

\* The handshake fails, the runtime closes, or a close of the proxy's completes.
UpstreamEnds(r) ==
  /\ requests[r].at = "bridged" /\ Answered(r)
  /\ UNCHANGED <<entries, minted>>

Tick ==
  /\ \E t \in DOMAIN minted: minted[t].age < Lifetime
  /\ minted' = [t \in DOMAIN minted |->
       IF minted[t].age < Lifetime THEN [minted[t] EXCEPT !.age = @ + 1] ELSE minted[t]]
  /\ UNCHANGED <<entries, requests, sockets>>

Init ==
  /\ entries = {} /\ minted = <<>>
  /\ requests = [r \in Requests |-> Idle]
  /\ sockets = [r \in Requests |-> NoSocket]

Next ==
  \/ \E r \in Requests:
       \/ Arrive(r) \/ Authorized(r) \/ Refused(r) \/ Redirect(r) \/ AnswerPreflight(r)
       \/ Forward(r) \/ Answers(r) \/ TimesOut(r)
       \/ Dial(r) \/ BrowserSends(r) \/ BrowserCloses(r) \/ UpstreamOpens(r) \/ UpstreamEnds(r)
  \/ Tick

Spec == Init /\ [][Next]_vars

-----------------------------------------------------------------------------
(* Properties *)

\* A ticket that has not expired opens its mount, whatever else was minted, found
\* expired or presented for another mount, unless Limit newer ones displaced it.
LiveTicketWorks ==
  \A t \in DOMAIN minted:
    ~Expired(t) /\ t > Len(minted) - Limit => Redeems(t, minted[t].mount)

\* From the moment the proxy listens to the browser, the runtime has the frames the
\* browser sent in their order and without a gap, those still queued excepted: also
\* when the handshake ends between two of them.
FramesKeepOrder ==
  \A r \in Requests: sockets[r].upstream \in {"connecting", "open"} =>
    sockets[r].received \o sockets[r].queued = sockets[r].seen
=============================================================================
