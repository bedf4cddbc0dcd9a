-------------------------- MODULE DataPlaneProofs --------------------------
(***************************************************************************)
(* Proofs about DataPlane, for any number of requests, hosts, routing      *)
(* tables and places in the channel.                                       *)
(***************************************************************************)
EXTENDS DataPlane, SequenceTheorems, FiniteSetTheorems, TLAPS

\* A request that has arrived has its input; an https one shakes hands first.
InputInv ==
    \A r \in Requests : /\ pc[r] # "new" => listener[r] \in Listeners /\ host[r] \in Hosts
                        /\ pc[r] = "handshake" => listener[r] = "https"

\* The listener that was shut down first has no requests left, before the deadline.
StopInv ==
    stage = "stopHTTPS" /\ ~expired => \A r \in Requests : Active(r) => listener[r] = "https"

\* Before a request has its handler nothing is known of it.
Fresh(r) ==
    pc[r] \in {"new", "redirect", "handshake", "limit", "lookup"} =>
        /\ route[r] = None /\ event[r] = None /\ answer[r] = None
        /\ ~blocked[r] /\ ~detected[r] /\ ~wrote[r]

\* Up to the upstream's answer nobody has answered, and until the deferred function
\* there is no event.  A recorder that was written to has the final status or a 1xx.
Underway(r) ==
    /\ pc[r] \in {"headers", "body"} => Inspected(r) /\ answer[r] = None /\ ~wrote[r]
    /\ pc[r] = "upstream" =>
          /\ answer[r] = None
          /\ wrote[r] => recorded[r] = "info"
    /\ pc[r] = "copy" =>
          /\ answer[r] \in UpstreamStatuses \cup {"badgateway"}
          /\ Inspected(r) => recorded[r] \in {"info", answer[r]}
    /\ pc[r] \in {"headers", "body", "upstream", "copy"} => ~blocked[r] /\ event[r] = None
    /\ pc[r] = "log" => Inspected(r) /\ event[r] = None

\* From the deferred function on: an interruption is what the client was told, and so
\* is the status, with the two exceptions the code makes.
Settled(r) ==
    /\ blocked[r] => /\ answer[r] = "deny" /\ status[r] = "deny" /\ ~wrote[r]
                     /\ route[r] # None /\ route[r].waf = "on"
    /\ ~blocked[r] => answer[r] # "deny"
    /\ pc[r] \in {"log", "submit"} /\ r \notin aborted /\ recorded[r] # "info" =>
          status[r] = answer[r]

\* The event says what the request's variables say.
Evented(r) ==
    /\ pc[r] = "submit" => Inspected(r) /\ (blocked[r] \/ detected[r]) /\ event[r] # None
    /\ event[r] # None =>
          /\ pc[r] \in {"submit", "done", "cut"}
          /\ event[r] = [req |-> r, blocked |-> blocked[r], status |-> status[r]]
          /\ r \notin aborted /\ recorded[r] # "info" => status[r] = answer[r]

PathInv(r) == Fresh(r) /\ Underway(r) /\ Settled(r) /\ Evented(r)
RequestInv == \A r \in Requests : PathInv(r)

\* The places the event of a request can be in.
InQueue(r) == \E i \in DOMAIN queue : queue[i].req = r
InHand(r) == hand # None /\ hand.req = r
InStored(r) == \E i \in DOMAIN stored : stored[i].req = r

Somewhere(r) == InQueue(r) \/ InHand(r) \/ InStored(r) \/ r \in dropped \cup failed \cup lost

OnePlace(r) ==
    /\ InQueue(r) => ~InHand(r) /\ ~InStored(r) /\ r \notin dropped \cup failed \cup lost
    /\ InHand(r) => ~InStored(r) /\ r \notin dropped \cup failed \cup lost
    /\ InStored(r) => r \notin dropped \cup failed \cup lost
    /\ r \in dropped => r \notin failed \cup lost
    /\ r \in failed => r \notin lost

\* The request is over and was to leave an event.
Reporting(r) == pc[r] = "done" /\ Inspected(r) /\ (blocked[r] \/ detected[r])

\* No request is twice in the channel or twice in the table.
NoTwins(s) == \A i, j \in DOMAIN s : s[i].req = s[j].req => i = j

\* Just the requests that are to leave an event have one, in one place, and it is the
\* one that was built for them.
PlacesInv ==
    /\ NoTwins(queue) /\ NoTwins(stored)
    /\ \A r \in Requests : OnePlace(r) /\ (Somewhere(r) <=> Reporting(r))
    /\ \A i \in DOMAIN queue : queue[i] = event[queue[i].req]
    /\ \A i \in DOMAIN stored : stored[i] = event[stored[i].req]
    /\ hand # None => hand = event[hand.req]

DataInv == TypeOK /\ InputInv /\ StopInv /\ RequestInv /\ PlacesInv
-----------------------------------------------------------------------------
\* A step is one of these.
RequestStep(r) ==
    \/ \E l \in Listeners, h \in Hosts : Arrive(r, l, h)
    \/ \E sni \in Domains : GetCertificate(r, sni)
    \/ Redirect(r) \/ Limit(r) \/ Lookup(r)
    \/ InspectHeaders(r) \/ InspectBody(r)
    \/ Informational(r)
    \/ \E s \in UpstreamStatuses \cup {"badgateway"} : WriteHeader(r, s)
    \/ CopyBody(r) \/ AbortCopy(r)
    \/ BuildEvent(r) \/ Submit(r)

ServerStep ==
    \/ \E t \in Tables : Reload(t) \/ Start(t)
    \/ Signal \/ Deadline \/ NextServer

LEMMA Steps ==
    ASSUME [Next]_vars
    PROVE  \/ \E r \in Requests : RequestStep(r)
           \/ Take \/ Insert
           \/ ServerStep
           \/ MainReturns \/ Kill
           \/ UNCHANGED vars
BY DEF Next, Serve, Peer, Worker, Stop, RequestStep, ServerStep

\* What is left alone, variable by variable.
SameRequest ==
    /\ pc' = pc /\ listener' = listener /\ host' = host /\ route' = route
    /\ blocked' = blocked /\ status' = status /\ detected' = detected
    /\ recorded' = recorded /\ wrote' = wrote /\ aborted' = aborted
    /\ answer' = answer /\ event' = event

SameSink ==
    /\ queue' = queue /\ hand' = hand /\ stored' = stored
    /\ dropped' = dropped /\ failed' = failed /\ lost' = lost

SameEnv == stage' = stage /\ expired' = expired /\ table' = table /\ cached' = cached

LEMMA Same ==
    /\ UNCHANGED request => SameRequest
    /\ UNCHANGED sink => SameSink
    /\ UNCHANGED env => SameEnv
BY DEF request, input, verdict, recorder, sink, history, env, SameRequest, SameSink, SameEnv

\* The types of the three parts of the state.
EnvType ==
    /\ stage \in {"serving", "stopHTTP", "stopHTTPS", "down"}
    /\ expired \in BOOLEAN
    /\ table \in Table
    /\ cached \in SUBSET Domains

RequestType ==
    /\ pc \in [Requests -> Labels]
    /\ listener \in [Requests -> Listeners \cup {None}]
    /\ host \in [Requests -> Hosts \cup {None}]
    /\ route \in [Requests -> Route \cup {None}]
    /\ blocked \in [Requests -> BOOLEAN]
    /\ status \in [Requests -> Statuses]
    /\ detected \in [Requests -> BOOLEAN]
    /\ recorded \in [Requests -> Statuses]
    /\ wrote \in [Requests -> BOOLEAN]
    /\ aborted \in SUBSET Requests
    /\ answer \in [Requests -> Statuses \cup OwnAnswers \cup {None}]
    /\ event \in [Requests -> Event \cup {None}]

SinkType ==
    /\ queue \in Seq(Event) /\ Len(queue) <= Buffer
    /\ hand \in Event \cup {None}
    /\ stored \in Seq(Event)
    /\ dropped \in SUBSET Requests
    /\ failed \in SUBSET Requests
    /\ lost \in SUBSET Requests

LEMMA TypeParts ==
    /\ TypeOK <=> EnvType /\ RequestType /\ SinkType
    /\ TypeOK' <=> EnvType' /\ RequestType' /\ SinkType'
BY DEF TypeOK, EnvType, RequestType, SinkType

LEMMA RequestTypeStep ==
    ASSUME EnvType, RequestType, InputInv, NEW r \in Requests, RequestStep(r)
    PROVE  RequestType'
<1> USE DEF RequestType, Goto, Answer, input, verdict, recorder
<1>1. ASSUME NEW l \in Listeners, NEW h \in Hosts, Arrive(r, l, h) PROVE RequestType'
  BY <1>1 DEF Arrive, Labels
<1>2. ASSUME NEW sni \in Domains, GetCertificate(r, sni) PROVE RequestType'
  BY <1>2 DEF GetCertificate, Labels, OwnAnswers
<1>3. CASE Redirect(r)
  BY <1>3 DEF Redirect, Labels, OwnAnswers
<1>4. CASE Limit(r)
  BY <1>4 DEF Limit, Labels, OwnAnswers
<1>5. CASE Lookup(r)
  <2>1. host[r] \in Hosts
    BY <1>5 DEF Lookup, InputInv
  <2>2. table.handlers[Domain(r)] \in Route \cup {None}
    BY <2>1, DataAssumption DEF EnvType, Table, Domain
  <2>3. QED BY <1>5, <2>2 DEF Lookup, Labels, OwnAnswers
<1>6. ASSUME Matches(r) PROVE detected' \in [Requests -> BOOLEAN]
  BY <1>6 DEF Matches
<1>7. ASSUME Block(r)
      PROVE  /\ blocked' \in [Requests -> BOOLEAN] /\ status' \in [Requests -> Statuses]
             /\ pc' \in [Requests -> Labels]
             /\ answer' \in [Requests -> Statuses \cup OwnAnswers \cup {None}]
  BY <1>7 DEF Block, Labels, Statuses
<1>8. CASE InspectHeaders(r)
  BY <1>6, <1>7, <1>8 DEF InspectHeaders, Labels
<1>9. CASE InspectBody(r)
  BY <1>6, <1>7, <1>9 DEF InspectBody, Labels, Statuses
<1>10. CASE Informational(r)
  BY <1>10 DEF Informational, Record, Statuses
<1>11. ASSUME NEW s \in UpstreamStatuses \cup {"badgateway"}, WriteHeader(r, s)
       PROVE  RequestType'
  BY <1>11 DEF WriteHeader, Record, Statuses, Labels
<1>12. CASE CopyBody(r)
  BY <1>6, <1>12 DEF CopyBody, StatusAfterCall, Labels
<1>13. CASE AbortCopy(r)
  BY <1>13 DEF AbortCopy, Labels
<1>14. CASE BuildEvent(r)
  BY <1>6, <1>14 DEF BuildEvent, Labels, Event
<1>15. CASE Submit(r)
  BY <1>15 DEF Submit, Labels
<1>16. QED BY <1>1, <1>2, <1>3, <1>4, <1>5, <1>8, <1>9, <1>10, <1>11, <1>12, <1>13, <1>14, <1>15
           DEF RequestStep

-----------------------------------------------------------------------------
\* A request's step leaves the other requests alone.
SameElsewhere(r) ==
    \A q \in Requests : q # r =>
        /\ pc'[q] = pc[q] /\ listener'[q] = listener[q] /\ host'[q] = host[q]
        /\ route'[q] = route[q]
        /\ blocked'[q] = blocked[q] /\ status'[q] = status[q] /\ detected'[q] = detected[q]
        /\ recorded'[q] = recorded[q] /\ wrote'[q] = wrote[q] /\ (q \in aborted' <=> q \in aborted)
        /\ answer'[q] = answer[q] /\ event'[q] = event[q]

LEMMA Elsewhere ==
    ASSUME RequestType, NEW r \in Requests, RequestStep(r)
    PROVE  SameElsewhere(r)
<1> USE DEF RequestType, Goto, Answer, input, verdict, recorder, SameElsewhere
<1>1. ASSUME NEW l \in Listeners, NEW h \in Hosts, Arrive(r, l, h) PROVE SameElsewhere(r)
  BY <1>1 DEF Arrive
<1>2. ASSUME NEW sni \in Domains, GetCertificate(r, sni) PROVE SameElsewhere(r)
  BY <1>2 DEF GetCertificate
<1>3. CASE Redirect(r)
  BY <1>3 DEF Redirect
<1>4. CASE Limit(r)
  BY <1>4 DEF Limit
<1>5. CASE Lookup(r)
  BY <1>5 DEF Lookup
<1>6. CASE InspectHeaders(r)
  BY <1>6 DEF InspectHeaders, Matches, Block
<1>7. CASE InspectBody(r)
  BY <1>7 DEF InspectBody, Matches, Block
<1>8. CASE Informational(r)
  BY <1>8 DEF Informational, Record
<1>9. ASSUME NEW s \in UpstreamStatuses \cup {"badgateway"}, WriteHeader(r, s)
      PROVE  SameElsewhere(r)
  BY <1>9 DEF WriteHeader, Record
<1>10. CASE CopyBody(r)
  BY <1>10 DEF CopyBody, Matches
<1>11. CASE AbortCopy(r)
  BY <1>11 DEF AbortCopy
<1>12. CASE BuildEvent(r)
  BY <1>12 DEF BuildEvent, Matches
<1>13. CASE Submit(r)
  BY <1>13 DEF Submit
<1>14. QED BY <1>1, <1>2, <1>3, <1>4, <1>5, <1>6, <1>7, <1>8, <1>9, <1>10, <1>11, <1>12, <1>13
           DEF RequestStep

\* Each step of a request keeps what is known of it.
LEMMA PathStep ==
    ASSUME EnvType, RequestType, InputInv, NEW r \in Requests, PathInv(r), RequestStep(r)
    PROVE  PathInv(r)'
<1> USE DataAssumption
    DEF PathInv, Fresh, Underway, Settled, Evented, RequestType, Goto, Answer, input, verdict,
        recorder, Inspected
<1>1. ASSUME NEW l \in Listeners, NEW h \in Hosts, Arrive(r, l, h) PROVE PathInv(r)'
  BY <1>1 DEF Arrive
<1>2. ASSUME NEW sni \in Domains, GetCertificate(r, sni) PROVE PathInv(r)'
  BY <1>2 DEF GetCertificate
<1>3. CASE Redirect(r)
  BY <1>3 DEF Redirect
<1>4. CASE Limit(r)
  BY <1>4 DEF Limit
<1>5. CASE Lookup(r)
  BY <1>5 DEF Lookup
<1>6. CASE InspectHeaders(r)
  BY <1>6 DEF InspectHeaders, Matches, Block, MayInterrupt
<1>7. CASE InspectBody(r)
  BY <1>7 DEF InspectBody, Matches, Block, MayInterrupt
<1>8. CASE Informational(r)
  BY <1>8 DEF Informational, Record
<1>9. ASSUME NEW s \in UpstreamStatuses \cup {"badgateway"}, WriteHeader(r, s)
      PROVE  PathInv(r)'
  BY <1>9 DEF WriteHeader, Record, UpstreamStatuses
<1>10. CASE CopyBody(r)
  BY <1>10 DEF CopyBody, Matches, StatusAfterCall
<1>11. CASE AbortCopy(r)
  BY <1>11 DEF AbortCopy
<1>12. CASE BuildEvent(r)
  <2>1. /\ pc[r] = "log" /\ Inspected(r) /\ event[r] = None
        /\ route' = route /\ blocked' = blocked /\ status' = status /\ answer' = answer
        /\ recorded' = recorded /\ wrote' = wrote /\ aborted' = aborted
    BY <1>12 DEF BuildEvent
  <2>2. CASE blocked[r] \/ detected'[r]
    <3>1. /\ pc'[r] = "submit"
          /\ event'[r] = [req |-> r, blocked |-> blocked[r], status |-> status[r]]
      BY <1>12, <2>2 DEF BuildEvent
    <3>2. event'[r] # None
      BY <3>1 DEF Event
    <3>3. QED BY <2>1, <2>2, <3>1, <3>2
  <2>3. CASE ~(blocked[r] \/ detected'[r])
    <3>1. pc'[r] = "done" /\ event'[r] = None
      BY <1>12, <2>1, <2>3 DEF BuildEvent
    <3>2. QED BY <2>1, <3>1
  <2>4. QED BY <2>2, <2>3
<1>13. CASE Submit(r)
  BY <1>13 DEF Submit
<1>14. QED BY <1>1, <1>2, <1>3, <1>4, <1>5, <1>6, <1>7, <1>8, <1>9, <1>10, <1>11, <1>12, <1>13
           DEF RequestStep

\* What a request's step means for its event: only Submit ends one that is to leave
\* an event, and no step is made by a request that is over.
LEMMA ReportingStep ==
    ASSUME RequestType, NEW r \in Requests, PathInv(r), RequestStep(r)
    PROVE  /\ pc[r] # "done" /\ ~Reporting(r)
           /\ ~Submit(r) => ~Reporting(r)'
           /\ Submit(r) => Reporting(r)' /\ event'[r] = event[r] /\ event[r] # None
                           /\ event[r].req = r
<1> USE DEF PathInv, RequestType, Goto, Answer, Reporting, Inspected
<1>1. ASSUME NEW l \in Listeners, NEW h \in Hosts, Arrive(r, l, h)
      PROVE  pc[r] # "done" /\ ~Reporting(r)' /\ ~Submit(r)
  BY <1>1 DEF Arrive, Submit
<1>2. ASSUME NEW sni \in Domains, GetCertificate(r, sni)
      PROVE  pc[r] # "done" /\ ~Reporting(r)' /\ ~Submit(r)
  BY <1>2 DEF GetCertificate, Submit, Fresh
<1>3. ASSUME Redirect(r) \/ Limit(r) PROVE pc[r] # "done" /\ ~Reporting(r)' /\ ~Submit(r)
  BY <1>3 DEF Redirect, Limit, Submit, Fresh
<1>4. ASSUME Lookup(r) PROVE pc[r] # "done" /\ ~Reporting(r)' /\ ~Submit(r)
  BY <1>4 DEF Lookup, Submit, Fresh
<1>5. ASSUME InspectHeaders(r) PROVE pc[r] # "done" /\ ~Reporting(r)' /\ ~Submit(r)
  BY <1>5 DEF InspectHeaders, Block, Submit
<1>6. ASSUME InspectBody(r) PROVE pc[r] # "done" /\ ~Reporting(r)' /\ ~Submit(r)
  BY <1>6 DEF InspectBody, Block, Submit
<1>7. ASSUME Informational(r) PROVE pc[r] # "done" /\ ~Reporting(r)' /\ ~Submit(r)
  BY <1>7 DEF Informational, Submit
<1>8. ASSUME NEW s \in UpstreamStatuses \cup {"badgateway"}, WriteHeader(r, s)
      PROVE  pc[r] # "done" /\ ~Reporting(r)' /\ ~Submit(r)
  BY <1>8 DEF WriteHeader, Submit
<1>9. ASSUME CopyBody(r) \/ AbortCopy(r)
      PROVE  pc[r] # "done" /\ ~Reporting(r)' /\ ~Submit(r)
  BY <1>9 DEF CopyBody, AbortCopy, Submit
<1>10. ASSUME BuildEvent(r) PROVE pc[r] # "done" /\ ~Reporting(r)' /\ ~Submit(r)
  BY <1>10 DEF BuildEvent, Submit
<1>11. ASSUME Submit(r)
       PROVE  /\ pc[r] # "done" /\ Reporting(r)' /\ event'[r] = event[r]
              /\ event[r] # None /\ event[r].req = r
  BY <1>11 DEF Submit, Evented, verdict
<1>12. QED BY <1>1, <1>2, <1>3, <1>4, <1>5, <1>6, <1>7, <1>8, <1>9, <1>10, <1>11 DEF RequestStep

LEMMA NotSubmit ==
    ASSUME NEW r \in Requests, RequestStep(r)
    PROVE  /\ ~Submit(r) => SameSink
           /\ stage' = stage /\ expired' = expired /\ table' = table
           /\ cached \in SUBSET Domains => cached' \in SUBSET Domains
<1> USE Same DEF env, SameEnv
<1>1. ASSUME NEW l \in Listeners, NEW h \in Hosts, Arrive(r, l, h) PROVE SameSink /\ SameEnv
  BY <1>1 DEF Arrive
<1>2. ASSUME NEW sni \in Domains, GetCertificate(r, sni)
      PROVE  /\ SameSink /\ stage' = stage /\ expired' = expired /\ table' = table
             /\ cached \in SUBSET Domains => cached' \in SUBSET Domains
  BY <1>2 DEF GetCertificate
<1>3. ASSUME Redirect(r) \/ Limit(r) \/ Lookup(r) PROVE SameSink /\ SameEnv
  BY <1>3 DEF Redirect, Limit, Lookup
<1>4. ASSUME InspectHeaders(r) \/ InspectBody(r) \/ Informational(r) PROVE SameSink /\ SameEnv
  BY <1>4 DEF InspectHeaders, InspectBody, Informational
<1>5. ASSUME NEW s \in UpstreamStatuses \cup {"badgateway"}, WriteHeader(r, s)
      PROVE  SameSink /\ SameEnv
  BY <1>5 DEF WriteHeader
<1>6. ASSUME CopyBody(r) \/ AbortCopy(r) \/ BuildEvent(r) PROVE SameSink /\ SameEnv
  BY <1>6 DEF CopyBody, AbortCopy, BuildEvent
<1>7. ASSUME Submit(r) PROVE SameEnv
  BY <1>7 DEF Submit
<1>8. QED BY <1>1, <1>2, <1>3, <1>4, <1>5, <1>6, <1>7 DEF RequestStep

-----------------------------------------------------------------------------
\* Arrivals and the listeners.
LEMMA ArrivalStep ==
    ASSUME EnvType, RequestType, InputInv, StopInv, NEW r \in Requests, RequestStep(r)
    PROVE  InputInv' /\ StopInv'
<1>1. stage' = stage /\ expired' = expired
  BY NotSubmit
<1>2. SameElsewhere(r)
  BY Elsewhere
<1>3. CASE pc[r] = "new"
  <2>1. PICK l \in Listeners, h \in Hosts : Arrive(r, l, h)
    BY <1>3 DEF RequestStep, GetCertificate, Redirect, Limit, Lookup, InspectHeaders, InspectBody,
                Informational, WriteHeader, CopyBody, AbortCopy, BuildEvent, Submit
  <2>2. /\ listener'[r] = l /\ host'[r] = h
        /\ pc'[r] = IF l = "http" THEN "redirect" ELSE "handshake"
    BY <2>1 DEF Arrive, Goto, RequestType
  <2>3. InputInv'
    BY <1>2, <2>2 DEF InputInv, SameElsewhere, Listeners
  <2>4. StopInv'
    <3>1. stage # "stopHTTPS"
      BY <2>1 DEF Arrive, Open
    <3>2. QED BY <1>1, <3>1 DEF StopInv
  <2>5. QED BY <2>3, <2>4
<1>4. CASE pc[r] # "new"
  <2>1. listener'[r] = listener[r] /\ host'[r] = host[r]
    BY <1>4 DEF RequestStep, Arrive, GetCertificate, Redirect, Limit, Lookup, InspectHeaders,
                InspectBody, Informational, WriteHeader, CopyBody, AbortCopy, BuildEvent, Submit,
                input
  <2>2. pc'[r] # "handshake"
    BY <1>4 DEF RequestStep, Arrive, GetCertificate, Redirect, Limit, Lookup, InspectHeaders,
                InspectBody, Block, Informational, WriteHeader, CopyBody, AbortCopy, BuildEvent,
                Submit, Goto, Answer, RequestType
  <2>3. Active(r)' => Active(r) \/ pc[r] = "handshake"
    BY <1>4 DEF RequestStep, Arrive, GetCertificate, Redirect, Limit, Lookup, InspectHeaders,
                InspectBody, Informational, WriteHeader, CopyBody, AbortCopy, BuildEvent, Submit,
                Active
  <2>4. InputInv'
    BY <1>2, <1>4, <2>1, <2>2 DEF InputInv, SameElsewhere
  <2>5. StopInv'
    BY <1>1, <1>2, <2>1, <2>3 DEF StopInv, InputInv, SameElsewhere, Active
  <2>6. QED BY <2>4, <2>5
<1>5. QED BY <1>3, <1>4

\* A request's step leaves the other requests' share of the invariants alone.
LEMMA RequestInvStep ==
    ASSUME EnvType, RequestType, InputInv, RequestInv, NEW r \in Requests, RequestStep(r)
    PROVE  /\ RequestInv'
           /\ \A q \in Requests : q # r => (Reporting(q)' <=> Reporting(q)) /\ event'[q] = event[q]
<1>1. SameElsewhere(r)
  BY Elsewhere
<1>2. PathInv(r)'
  BY PathStep DEF RequestInv
<1>3. ASSUME NEW q \in Requests, q # r
      PROVE  PathInv(q)' /\ (Reporting(q)' <=> Reporting(q)) /\ event'[q] = event[q]
  BY <1>1, <1>3 DEF RequestInv, SameElsewhere, PathInv, Fresh, Underway, Settled, Evented,
                    Reporting, Inspected
<1>4. QED BY <1>2, <1>3 DEF RequestInv

\* Who is where follows from the sink's variables.
LEMMA PlacesSame ==
    ASSUME SameSink, NEW r PROVE (Somewhere(r)' <=> Somewhere(r)) /\ (OnePlace(r)' <=> OnePlace(r))
BY DEF SameSink, Somewhere, OnePlace, InQueue, InHand, InStored

\* The events of the sink are events of requests.
LEMMA SinkTypes ==
    ASSUME SinkType
    PROVE  /\ \A i \in DOMAIN queue : queue[i] \in Event /\ queue[i].req \in Requests
           /\ \A i \in DOMAIN stored : stored[i] \in Event /\ stored[i].req \in Requests
           /\ hand # None => hand \in Event /\ hand.req \in Requests
           /\ DOMAIN queue = 1..Len(queue) /\ Len(queue) \in Nat
           /\ DOMAIN stored = 1..Len(stored) /\ Len(stored) \in Nat
<1>1. \A e \in Event : e.req \in Requests
  BY DEF Event
<1>2. /\ DOMAIN queue = 1..Len(queue) /\ Len(queue) \in Nat
      /\ DOMAIN stored = 1..Len(stored) /\ Len(stored) \in Nat
  BY DEF SinkType
<1>3. /\ \A i \in DOMAIN queue : queue[i] \in Event
      /\ \A i \in DOMAIN stored : stored[i] \in Event
      /\ hand # None => hand \in Event
  BY <1>2 DEF SinkType
<1>4. QED BY <1>1, <1>2, <1>3

LEMMA QuietStep ==
    ASSUME DataInv, SinkType, EnvType, RequestType, NEW r \in Requests, RequestStep(r), ~Submit(r)
    PROVE  PlacesInv'
<1> USE DEF DataInv
<1>1. SameSink
  BY NotSubmit
<1>2. /\ pc[r] # "done" /\ ~Reporting(r) /\ ~Reporting(r)'
      /\ \A q \in Requests : q # r => (Reporting(q)' <=> Reporting(q)) /\ event'[q] = event[q]
  BY ReportingStep, RequestInvStep DEF RequestInv
<1>3. \A q \in Requests : OnePlace(q)' /\ (Somewhere(q)' <=> Reporting(q)')
  BY <1>1, <1>2, PlacesSame DEF PlacesInv
<1>4. ~InQueue(r) /\ ~InHand(r) /\ ~InStored(r)
  BY <1>2 DEF PlacesInv, Somewhere
<1>5. /\ \A i \in DOMAIN queue : event'[queue[i].req] = event[queue[i].req]
      /\ \A i \in DOMAIN stored : event'[stored[i].req] = event[stored[i].req]
      /\ hand # None => event'[hand.req] = event[hand.req]
  BY <1>2, <1>4, SinkTypes DEF InQueue, InHand, InStored
<1>6. QED BY <1>1, <1>3, <1>5 DEF PlacesInv, SameSink, NoTwins

-----------------------------------------------------------------------------
\* Submit puts the event into the channel or drops it.
LEMMA SubmitStep ==
    ASSUME DataInv, SinkType, EnvType, RequestType, NEW r \in Requests, Submit(r)
    PROVE  PlacesInv' /\ SinkType'
<1> USE DEF DataInv
<1>1. /\ Reporting(r)' /\ ~Reporting(r) /\ event'[r] = event[r] /\ event[r] # None
      /\ event[r].req = r
      /\ \A q \in Requests : q # r => (Reporting(q)' <=> Reporting(q)) /\ event'[q] = event[q]
  BY ReportingStep, RequestInvStep DEF RequestInv, RequestStep
<1>2. event[r] \in Event
  BY <1>1 DEF RequestType
<1>3. /\ hand' = hand /\ stored' = stored /\ failed' = failed /\ lost' = lost
  BY DEF Submit
<1>4. ~Somewhere(r)
  BY <1>1 DEF PlacesInv
<1>5. /\ \A i \in DOMAIN queue : event'[queue[i].req] = event[queue[i].req]
      /\ \A i \in DOMAIN stored : event'[stored[i].req] = event[stored[i].req]
      /\ hand # None => event'[hand.req] = event[hand.req]
  BY <1>1, SinkTypes
<1>6. CASE Send(r)
  <2>1. queue' = Append(queue, event[r]) /\ dropped' = dropped /\ Len(queue) < Buffer
    BY <1>6 DEF Send
  <2>2. /\ DOMAIN queue' = DOMAIN queue \cup {Len(queue) + 1}
        /\ Len(queue) + 1 \notin DOMAIN queue
        /\ queue'[Len(queue) + 1] = event[r]
        /\ \A i \in DOMAIN queue : queue'[i] = queue[i]
    BY <1>2, <2>1, SinkTypes DEF SinkType
  <2>3. \A q : InQueue(q)' <=> InQueue(q) \/ q = r
    BY <1>1, <2>2 DEF InQueue
  <2>4. \A q : (InHand(q)' <=> InHand(q)) /\ (InStored(q)' <=> InStored(q))
    BY <1>3 DEF InHand, InStored
  <2>5. \A q \in Requests : OnePlace(q)' /\ (Somewhere(q)' <=> Reporting(q)')
    BY <1>1, <1>3, <1>4, <2>1, <2>3, <2>4 DEF PlacesInv, OnePlace, Somewhere
  <2>6. NoTwins(queue)'
    BY <1>1, <1>4, <2>2 DEF PlacesInv, NoTwins, Somewhere, InQueue
  <2>7. \A i \in DOMAIN queue' : queue'[i] = event'[queue'[i].req]
    BY <1>1, <1>5, <2>2 DEF PlacesInv
  <2>8. PlacesInv'
    BY <1>3, <1>5, <2>5, <2>6, <2>7 DEF PlacesInv, NoTwins
  <2>9. SinkType'
    BY <1>2, <1>3, <2>1, DataAssumption DEF SinkType
  <2>10. QED BY <2>8, <2>9
<1>7. CASE Drop(r)
  <2>1. queue' = queue /\ dropped' = dropped \cup {r}
    BY <1>7 DEF Drop
  <2>2. \A q : /\ InQueue(q)' <=> InQueue(q)
               /\ InHand(q)' <=> InHand(q)
               /\ InStored(q)' <=> InStored(q)
    BY <1>3, <2>1 DEF InHand, InStored, InQueue
  <2>3. \A q \in Requests : OnePlace(q)' /\ (Somewhere(q)' <=> Reporting(q)')
    BY <1>1, <1>3, <1>4, <2>1, <2>2 DEF PlacesInv, OnePlace, Somewhere
  <2>4. PlacesInv'
    BY <1>3, <1>5, <2>1, <2>3 DEF PlacesInv, NoTwins
  <2>5. SinkType'
    BY <1>3, <2>1 DEF SinkType
  <2>6. QED BY <2>4, <2>5
<1>8. QED BY <1>6, <1>7 DEF Submit

\* The worker takes the oldest event.
LEMMA TakeStep == ASSUME DataInv, SinkType, Take PROVE PlacesInv' /\ SinkType'
<1> USE DEF DataInv
<1>1. SameRequest
  BY Same DEF Take
<1>2. /\ hand = None /\ queue # <<>> /\ hand' = Head(queue) /\ queue' = Tail(queue)
      /\ stored' = stored /\ dropped' = dropped /\ failed' = failed /\ lost' = lost
  BY DEF Take, history
<1>3. /\ Len(queue) >= 1 /\ hand' = queue[1] /\ queue[1] \in Event /\ hand' # None
      /\ queue' \in Seq(Event) /\ Len(queue') = Len(queue) - 1
      /\ \A i \in DOMAIN queue' : i + 1 \in DOMAIN queue /\ queue'[i] = queue[i + 1]
      /\ \A i \in DOMAIN queue : i # 1 => i - 1 \in DOMAIN queue' /\ queue'[i - 1] = queue[i]
      /\ 1 \in DOMAIN queue /\ \A i \in DOMAIN queue : i \in Int
  <2>1. queue \in Seq(Event) /\ queue # <<>>
    BY <1>2 DEF SinkType
  <2>2. Len(queue) \in Nat /\ Len(queue) # 0 /\ DOMAIN queue = 1..Len(queue)
    BY <2>1, EmptySeq
  <2>3. queue' \in Seq(Event) /\ Len(queue') = Len(queue) - 1
    BY <1>2, <2>1, <2>2
  <2>4. DOMAIN queue' = 1..(Len(queue) - 1)
    BY <2>2, <2>3
  <2>5. \A i \in 1..(Len(queue) - 1) : queue'[i] = queue[i + 1]
    BY <1>2, <2>1, <2>2
  <2>6. hand' = queue[1] /\ queue[1] \in Event
    BY <1>2, <2>1, <2>2
  <2>7. hand' # None
    BY <2>6, DataAssumption
  <2>8. QED BY <2>2, <2>3, <2>4, <2>5, <2>6, <2>7
<1>4. SinkType'
  BY <1>2, <1>3, DataAssumption DEF SinkType
<1>5. PICK first \in Requests : first = queue[1].req
  BY <1>3, SinkTypes
<1>6. \A q : /\ Reporting(q)' <=> Reporting(q)
             /\ InStored(q)' <=> InStored(q)
             /\ InHand(q)' <=> q = first
             /\ ~InHand(q)
  BY <1>1, <1>2, <1>3, <1>5 DEF SameRequest, Reporting, Inspected, InStored, InHand
<1>7. \A q : InQueue(q) <=> InQueue(q)' \/ q = first
  <2>1. ASSUME NEW q, InQueue(q) PROVE InQueue(q)' \/ q = first
    BY <1>3, <1>5, <2>1 DEF InQueue
  <2>2. ASSUME NEW q, InQueue(q)' \/ q = first PROVE InQueue(q)
    BY <1>3, <1>5, <2>2 DEF InQueue
  <2>3. QED BY <2>1, <2>2
<1>8. ~InQueue(first)'
  <2>1. ASSUME NEW i \in DOMAIN queue', queue'[i].req = first PROVE FALSE
    <3>1. i + 1 \in DOMAIN queue /\ queue[i + 1].req = queue[1].req /\ i \in Int
      BY <1>3, <1>5, <2>1
    <3>2. i + 1 = 1
      BY <1>3, <3>1 DEF PlacesInv, NoTwins
    <3>3. i \in 1..Len(queue')
      BY <1>3, <2>1
    <3>4. QED BY <3>2, <3>3
  <2>2. QED BY <2>1 DEF InQueue
<1>9. \A r \in Requests : OnePlace(r)' /\ (Somewhere(r)' <=> Reporting(r)')
  BY <1>2, <1>6, <1>7, <1>8 DEF PlacesInv, OnePlace, Somewhere
<1>10. NoTwins(queue)'
  BY <1>3 DEF PlacesInv, NoTwins
<1>11. PlacesInv'
  BY <1>1, <1>2, <1>3, <1>9, <1>10 DEF PlacesInv, NoTwins, SameRequest
<1>12. QED BY <1>4, <1>11

\* The worker writes the event it holds, or fails to.
LEMMA InsertStep == ASSUME DataInv, SinkType, Insert PROVE PlacesInv' /\ SinkType'
<1> USE DEF DataInv
<1>1. SameRequest
  BY Same DEF Insert
<1>2. /\ hand # None /\ hand' = None /\ queue' = queue /\ dropped' = dropped /\ lost' = lost
      /\ hand \in Event /\ hand.req \in Requests
  BY SinkTypes DEF Insert
<1>3. \A q : /\ Reporting(q)' <=> Reporting(q)
             /\ InQueue(q)' <=> InQueue(q)
             /\ InHand(q) <=> q = hand.req
             /\ ~InHand(q)'
  BY <1>1, <1>2 DEF SameRequest, Reporting, Inspected, InHand, InQueue
<1>4. CASE stored' = Append(stored, hand) /\ UNCHANGED failed
  <2>1. /\ DOMAIN stored' = DOMAIN stored \cup {Len(stored) + 1}
        /\ Len(stored) + 1 \notin DOMAIN stored
        /\ stored'[Len(stored) + 1] = hand
        /\ \A i \in DOMAIN stored : stored'[i] = stored[i]
    BY <1>2, <1>4, SinkTypes DEF SinkType
  <2>2. \A q : InStored(q)' <=> InStored(q) \/ q = hand.req
    BY <2>1 DEF InStored
  <2>3. \A r \in Requests : OnePlace(r)' /\ (Somewhere(r)' <=> Reporting(r)')
    BY <1>2, <1>3, <1>4, <2>2 DEF PlacesInv, OnePlace, Somewhere
  <2>4. ~InStored(hand.req)
    BY <1>2, <1>3 DEF PlacesInv, OnePlace
  <2>5. NoTwins(stored)'
    BY <2>1, <2>4 DEF PlacesInv, NoTwins, InStored
  <2>6. \A i \in DOMAIN stored' : stored'[i] = event'[stored'[i].req]
    BY <1>1, <1>2, <2>1 DEF PlacesInv, SameRequest
  <2>7. PlacesInv'
    BY <1>1, <1>2, <2>3, <2>5, <2>6 DEF PlacesInv, NoTwins, SameRequest
  <2>8. SinkType'
    BY <1>2, <1>4 DEF SinkType
  <2>9. QED BY <2>7, <2>8
<1>5. CASE failed' = failed \cup {hand.req} /\ UNCHANGED stored
  <2>1. \A q : InStored(q)' <=> InStored(q)
    BY <1>5 DEF InStored
  <2>2. \A r \in Requests : OnePlace(r)' /\ (Somewhere(r)' <=> Reporting(r)')
    BY <1>2, <1>3, <1>5, <2>1 DEF PlacesInv, OnePlace, Somewhere
  <2>3. PlacesInv'
    BY <1>1, <1>2, <1>5, <2>2 DEF PlacesInv, NoTwins, SameRequest
  <2>4. SinkType'
    BY <1>2, <1>5 DEF SinkType
  <2>5. QED BY <2>3, <2>4
<1>6. QED BY <1>4, <1>5 DEF Insert

-----------------------------------------------------------------------------
\* The process ends: requests are cut off, and what the sink holds is lost.
LEMMA EndStep ==
    ASSUME DataInv, EnvType, RequestType, SinkType, End
    PROVE  /\ stage' = "down" /\ table' = table /\ cached' = cached
           /\ RequestType' /\ SinkType' /\ InputInv' /\ StopInv' /\ RequestInv' /\ PlacesInv'
<1> USE DEF DataInv
<1>1. /\ stage' = "down" /\ table' = table /\ cached' = cached
      /\ listener' = listener /\ host' = host /\ route' = route
      /\ blocked' = blocked /\ status' = status /\ detected' = detected
      /\ recorded' = recorded /\ wrote' = wrote /\ aborted' = aborted
      /\ answer' = answer /\ event' = event
      /\ queue' = <<>> /\ hand' = None /\ stored' = stored /\ dropped' = dropped /\ failed' = failed
  BY DEF End, input, verdict, recorder
<1>2. \A r \in Requests :
         pc'[r] = IF pc[r] \notin {"new", "handshake", "done", "cut"} THEN "cut"
                  ELSE IF pc[r] = "handshake" THEN "done" ELSE pc[r]
  BY DEF End, Active
<1>3. pc' \in [Requests -> Labels]
  BY DEF End, RequestType, Labels
<1>4. RequestType'
  BY <1>1, <1>3 DEF RequestType
<1>5. \A q : q \in lost' <=> q \in lost \/ InQueue(q) \/ InHand(q)
  <2>1. \A q : (\E e \in Held : q = e.req) <=> InQueue(q) \/ InHand(q)
    BY DEF Held, InQueue, InHand
  <2>2. QED BY <2>1 DEF End
<1>6. Len(queue') = 0 /\ queue' \in Seq(Event) /\ DOMAIN queue' = {}
  <2>1. queue' \in Seq(Event)
    BY <1>1
  <2>2. Len(queue') = 0
    BY <1>1
  <2>3. QED BY <1>1, <2>1, <2>2
<1>7. SinkType'
  <2>1. lost' \subseteq Requests
    BY <1>5, SinkTypes DEF SinkType, InQueue, InHand
  <2>2. QED BY <1>1, <1>6, <2>1, DataAssumption DEF SinkType
<1>8. InputInv' /\ StopInv'
  BY <1>1, <1>2 DEF InputInv, StopInv
<1>9. RequestInv'
  BY <1>1, <1>2 DEF RequestInv, PathInv, Fresh, Underway, Settled, Evented, Inspected
<1>10. \A r \in Requests : Reporting(r)' <=> Reporting(r)
  BY <1>1, <1>2 DEF RequestInv, PathInv, Fresh, Reporting, Inspected
<1>11. \A q : ~InQueue(q)' /\ ~InHand(q)' /\ (InStored(q)' <=> InStored(q))
  BY <1>1, <1>6 DEF InQueue, InHand, InStored
<1>12. \A r \in Requests : OnePlace(r)' /\ (Somewhere(r)' <=> Reporting(r)')
  BY <1>1, <1>5, <1>10, <1>11 DEF PlacesInv, OnePlace, Somewhere
<1>13. PlacesInv'
  BY <1>1, <1>6, <1>12 DEF PlacesInv, NoTwins
<1>14. QED BY <1>1, <1>4, <1>7, <1>8, <1>9, <1>13

\* Steps of the server and reloads leave requests and sink alone.
LEMMA ServerEffect ==
    ASSUME EnvType, InputInv, StopInv, ServerStep
    PROVE  SameRequest /\ SameSink /\ EnvType' /\ StopInv'
<1>1. SameRequest /\ SameSink
  BY Same DEF ServerStep, Reload, Start, Signal, Deadline, NextServer
<1>2. EnvType'
  BY DataAssumption DEF ServerStep, Reload, Start, Signal, Deadline, NextServer, EnvType
<1>3. \A r \in Requests : (Active(r)' <=> Active(r)) /\ listener'[r] = listener[r]
  BY <1>1 DEF SameRequest, Active
<1>4. ASSUME NextServer PROVE StopInv'
  <2>1. \A r \in Requests : Active(r) => listener[r] \in Listeners
    BY DEF InputInv, Active
  <2>2. QED BY <1>3, <1>4, <2>1 DEF NextServer, Drained, StopInv, Listeners
<1>5. ASSUME ~NextServer PROVE StopInv'
  BY <1>3, <1>5 DEF ServerStep, Reload, Start, Signal, Deadline, StopInv
<1>6. QED BY <1>1, <1>2, <1>4, <1>5

\* Where only the server or the table changes, or nothing does.
LEMMA SameInv ==
    ASSUME DataInv, SameRequest, SameSink
    PROVE  RequestType' /\ SinkType' /\ InputInv' /\ RequestInv' /\ PlacesInv'
<1> USE DEF DataInv, SameRequest, SameSink
<1>1. RequestType' /\ SinkType'
  BY TypeParts DEF RequestType, SinkType
<1>2. InputInv'
  BY DEF InputInv
<1>3. RequestInv'
  BY DEF RequestInv, PathInv, Fresh, Underway, Settled, Evented, Inspected
<1>4. \A r : Reporting(r)' <=> Reporting(r)
  BY DEF Reporting, Inspected
<1>5. PlacesInv'
  BY <1>4, PlacesSame DEF PlacesInv, NoTwins
<1>6. QED BY <1>1, <1>2, <1>3, <1>5

LEMMA DataInit == ASSUME Init PROVE DataInv
<1> USE DataAssumption DEF Init
<1>1. queue \in Seq(Event) /\ Len(queue) = 0 /\ stored \in Seq(Event) /\ Len(stored) = 0
  OBVIOUS
<1>2. DOMAIN queue = {} /\ DOMAIN stored = {}
  BY <1>1
<1>3. TypeOK
  <2>1. EnvType
    BY DEF EnvType
  <2>2. RequestType
    BY DEF RequestType, Labels, Statuses, UpstreamStatuses
  <2>3. SinkType
    BY <1>1 DEF SinkType
  <2>4. QED BY <2>1, <2>2, <2>3, TypeParts
<1>4. InputInv /\ StopInv
  BY DEF InputInv, StopInv
<1>5. RequestInv
  BY DEF RequestInv, PathInv, Fresh, Underway, Settled, Evented, Statuses, OwnAnswers
<1>6. PlacesInv
  BY <1>2 DEF PlacesInv, NoTwins, OnePlace, Somewhere, InQueue, InHand, InStored, Reporting
<1>7. QED BY <1>3, <1>4, <1>5, <1>6 DEF DataInv

LEMMA DataStep == ASSUME DataInv, [Next]_vars PROVE DataInv'
<1> USE DEF DataInv
<1>1. EnvType /\ RequestType /\ SinkType
  BY TypeParts
<1>2. ASSUME NEW r \in Requests, RequestStep(r) PROVE DataInv'
  <2>1. EnvType'
    BY <1>1, <1>2, NotSubmit DEF EnvType
  <2>2. RequestType' /\ InputInv' /\ StopInv' /\ RequestInv'
    BY <1>1, <1>2, RequestTypeStep, ArrivalStep, RequestInvStep
  <2>3. CASE Submit(r)
    BY <1>1, <2>1, <2>2, <2>3, SubmitStep, TypeParts
  <2>4. CASE ~Submit(r)
    <3>1. PlacesInv'
      BY <1>1, <1>2, <2>4, QuietStep
    <3>2. SinkType'
      BY <1>1, <1>2, <2>4, NotSubmit DEF SameSink, SinkType
    <3>3. QED BY <2>1, <2>2, <3>1, <3>2, TypeParts
  <2>5. QED BY <2>3, <2>4
<1>3. ASSUME Take \/ Insert PROVE DataInv'
  <2>1. SameRequest /\ SameEnv
    BY <1>3, Same DEF Take, Insert
  <2>2. EnvType' /\ StopInv' /\ RequestType' /\ InputInv'
    BY <1>1, <2>1 DEF SameRequest, SameEnv, EnvType, StopInv, Active, RequestType, InputInv
  <2>3. RequestInv'
    BY <2>1 DEF SameRequest, RequestInv, PathInv, Fresh, Underway, Settled, Evented, Inspected
  <2>4. PlacesInv' /\ SinkType'
    BY <1>1, <1>3, TakeStep, InsertStep
  <2>5. QED BY <2>2, <2>3, <2>4, TypeParts
<1>4. CASE ServerStep
  BY <1>1, <1>4, ServerEffect, SameInv, TypeParts
<1>5. ASSUME MainReturns \/ Kill PROVE DataInv'
  <2>1. End /\ expired' \in BOOLEAN
    BY <1>1, <1>5 DEF MainReturns, Kill, EnvType
  <2>2. EnvType'
    BY <1>1, <2>1, EndStep DEF EnvType
  <2>3. QED BY <1>1, <2>1, <2>2, EndStep, TypeParts
<1>6. CASE UNCHANGED vars
  <2>1. SameRequest /\ SameSink /\ SameEnv
    BY <1>6, Same DEF vars
  <2>2. EnvType' /\ StopInv'
    BY <1>1, <2>1 DEF SameRequest, SameEnv, EnvType, StopInv, Active
  <2>3. QED BY <2>1, <2>2, SameInv, TypeParts
<1>7. QED BY <1>2, <1>3, <1>4, <1>5, <1>6, Steps

-----------------------------------------------------------------------------
(***************************************************************************)
(* The state of the data plane has its types; the channel never holds more *)
(* than its capacity (newEventSink).                                       *)
(***************************************************************************)
THEOREM DataTypeCorrect == Spec => []TypeOK
<1>1. Init => DataInv
  BY DataInit
<1>2. DataInv /\ [Next]_vars => DataInv'
  BY DataStep
<1>3. DataInv => TypeOK
  BY DEF DataInv
<1>4. QED BY <1>1, <1>2, <1>3, PTL DEF Spec

\* A reported event is the one that was built for its request.
LEMMA ReportedEvents ==
    ASSUME DataInv, NEW e \in Reported
    PROVE  e.req \in Requests /\ e = event[e.req] /\ event[e.req] # None
<1>1. SinkType
  BY TypeParts DEF DataInv
<1>2. e \in Event /\ e.req \in Requests /\ e = event[e.req]
  BY <1>1, SinkTypes DEF Reported, Held, DataInv, PlacesInv
<1>3. QED BY <1>2, DataAssumption

(***************************************************************************)
(* Events say the truth about blocking, for any requests, tables and       *)
(* reloads: marked as blocked exactly when the client was turned away by   *)
(* an engine in mode "on", without a call of the upstream (Middleware).    *)
(***************************************************************************)
THEOREM BlockingIsTold == Spec => []BlockedTold
<1>1. Init => DataInv
  BY DataInit
<1>2. DataInv /\ [Next]_vars => DataInv'
  BY DataStep
<1>3. DataInv => BlockedTold
  <2> SUFFICES ASSUME DataInv PROVE BlockedTold
    OBVIOUS
  <2>1. ASSUME NEW e \in Reported
        PROVE  /\ e.blocked <=> answer[e.req] = "deny"
               /\ e.blocked => e.status = "deny" /\ route[e.req].waf = "on"
    <3>1. e.req \in Requests /\ e = event[e.req] /\ event[e.req] # None
      BY ReportedEvents
    <3>2. /\ PathInv(e.req) /\ blocked[e.req] \in BOOLEAN
      BY <3>1 DEF DataInv, RequestInv, TypeOK
    <3>3. e.blocked = blocked[e.req] /\ e.status = status[e.req]
      BY <3>1, <3>2 DEF PathInv, Evented
    <3>4. QED BY <3>2, <3>3 DEF PathInv, Settled
  <2>2. \A r \in Requests : blocked[r] => answer[r] = "deny" /\ ~wrote[r]
    BY DEF DataInv, RequestInv, PathInv, Settled
  <2>3. QED BY <2>1, <2>2 DEF BlockedTold
<1>4. QED BY <1>1, <1>2, <1>3, PTL DEF Spec

(***************************************************************************)
(* The status of an event is the one the client was sent, whoever answered,*)
(* but for the two exceptions StatusTold names (statusRecorder).           *)
(***************************************************************************)
THEOREM StatusIsTold == Spec => []StatusTold
<1>1. Init => DataInv
  BY DataInit
<1>2. DataInv /\ [Next]_vars => DataInv'
  BY DataStep
<1>3. DataInv => StatusTold
  <2> SUFFICES ASSUME DataInv, NEW e \in Reported,
                      e.req \notin aborted, recorded[e.req] # "info"
               PROVE  e.status = answer[e.req]
    BY DEF StatusTold
  <2>1. e.req \in Requests /\ e = event[e.req] /\ event[e.req] # None
    BY ReportedEvents
  <2>2. PathInv(e.req)
    BY <2>1 DEF DataInv, RequestInv
  <2>3. QED BY <2>1, <2>2 DEF PathInv, Evented
<1>4. QED BY <1>1, <1>2, <1>3, PTL DEF Spec

\* Counting what there is at most one of.
LEMMA CountOne ==
    ASSUME NEW S, \A x, y \in S : x = y
    PROVE  Cardinality(S) = IF S = {} THEN 0 ELSE 1
<1>1. CASE S = {}
  BY <1>1, FS_EmptySet
<1>2. CASE S # {}
  <2>1. PICK x \in S : S = {x}
    BY <1>2
  <2>2. QED BY <1>2, <2>1, FS_Singleton
<1>3. QED BY <1>1, <1>2

(***************************************************************************)
(* Every inspected request that was blocked or matched a detection rule    *)
(* leaves exactly one event in exactly one place, and no other leaves any, *)
(* through panics, full channels, failed inserts, shutdowns and kills.     *)
(***************************************************************************)
THEOREM EachReportedOnce == Spec => []ReportedOnce
<1>1. Init => DataInv
  BY DataInit
<1>2. DataInv /\ [Next]_vars => DataInv'
  BY DataStep
<1>3. DataInv => ReportedOnce
  <2> SUFFICES ASSUME DataInv, NEW r \in Requests
               PROVE  Fates(r) = IF pc[r] = "done" /\ Inspected(r) /\ (blocked[r] \/ detected[r])
                                 THEN 1 ELSE 0
    BY DEF ReportedOnce
  <2> DEFINE Q == {i \in DOMAIN queue : queue[i].req = r}
             T == {i \in DOMAIN stored : stored[i].req = r}
             H == {x \in {"hand"} : hand # None /\ hand.req = r}
             O == {s \in {<<"dropped", dropped>>, <<"failed", failed>>, <<"lost", lost>>} :
                      r \in s[2]}
  <2>1. Cardinality(Q) = IF InQueue(r) THEN 1 ELSE 0
    <3>1. \A x, y \in Q : x = y
      BY DEF DataInv, PlacesInv, NoTwins
    <3>2. Q = {} <=> ~InQueue(r)
      BY DEF InQueue
    <3>3. QED BY <3>1, <3>2, CountOne
  <2>2. Cardinality(T) = IF InStored(r) THEN 1 ELSE 0
    <3>1. \A x, y \in T : x = y
      BY DEF DataInv, PlacesInv, NoTwins
    <3>2. T = {} <=> ~InStored(r)
      BY DEF InStored
    <3>3. QED BY <3>1, <3>2, CountOne
  <2>3. Cardinality(H) = IF InHand(r) THEN 1 ELSE 0
    <3>1. \A x, y \in H : x = y
      OBVIOUS
    <3>2. H = {} <=> ~InHand(r)
      BY DEF InHand
    <3>3. QED BY <3>1, <3>2, CountOne
  <2>4. OnePlace(r) /\ (Somewhere(r) <=> Reporting(r))
    BY DEF DataInv, PlacesInv
  <2>5. Cardinality(O) = IF r \in dropped \cup failed \cup lost THEN 1 ELSE 0
    <3>1. \A x, y \in O : x = y
      BY <2>4 DEF OnePlace
    <3>2. O = {} <=> r \notin dropped \cup failed \cup lost
      <4>1. /\ <<"dropped", dropped>>[2] = dropped /\ <<"failed", failed>>[2] = failed
            /\ <<"lost", lost>>[2] = lost
        OBVIOUS
      <4>2. /\ <<"dropped", dropped>> \in O <=> r \in dropped
            /\ <<"failed", failed>> \in O <=> r \in failed
            /\ <<"lost", lost>> \in O <=> r \in lost
        BY <4>1
      <4>3. O \subseteq {<<"dropped", dropped>>, <<"failed", failed>>, <<"lost", lost>>}
        OBVIOUS
      <4> HIDE DEF O
      <4>4. QED BY <4>2, <4>3, Zenon
    <3>3. QED BY <3>1, <3>2, CountOne
  <2>6. Fates(r) = Cardinality(Q) + Cardinality(T) + Cardinality(H) + Cardinality(O)
    BY DEF Fates, Rows
  <2> HIDE DEF Q, T, H, O
  <2>7. QED BY <2>1, <2>2, <2>3, <2>4, <2>5, <2>6 DEF OnePlace, Somewhere, Reporting
<1>4. QED BY <1>1, <1>2, <1>3, PTL DEF Spec

(***************************************************************************)
(* An orderly shutdown cuts no request off before the deadline, although   *)
(* requests go on arriving on the second listener while the first drains   *)
(* (waitForShutdown).                                                      *)
(***************************************************************************)
THEOREM ShutdownIsOrderly == Spec => ShutdownWaits
<1>1. Init => DataInv
  BY DataInit
<1>2. DataInv /\ [Next]_vars => DataInv'
  BY DataStep
<1>3. DataInv /\ [Next]_vars =>
         [\A r \in Requests : pc[r] # "cut" /\ pc'[r] = "cut" => expired']_vars
  <2> SUFFICES ASSUME DataInv, [Next]_vars, NEW r \in Requests,
                      pc[r] # "cut", pc'[r] = "cut"
               PROVE  expired'
    OBVIOUS
  <2>1. RequestType
    BY TypeParts DEF DataInv
  <2>2. ASSUME NEW q \in Requests, RequestStep(q) PROVE FALSE
    <3>1. CASE q # r
      BY <2>1, <2>2, <3>1, Elsewhere DEF SameElsewhere
    <3>2. CASE q = r
      BY <2>1, <2>2, <3>2 DEF RequestStep, Arrive, GetCertificate, Redirect, Limit, Lookup,
            InspectHeaders, InspectBody, Block, Informational, WriteHeader, CopyBody, AbortCopy,
            BuildEvent, Submit, Goto, Answer, RequestType
    <3>3. QED BY <3>1, <3>2
  <2>3. CASE MainReturns
    <3>1. stage = "stopHTTPS" /\ Drained("https") /\ expired' = expired /\ Active(r)
      BY <2>3 DEF MainReturns, End
    <3>2. QED BY <3>1 DEF Drained, DataInv, StopInv
  <2>4. CASE Kill
    BY <2>4 DEF Kill
  <2>5. ASSUME Take \/ Insert \/ ServerStep \/ UNCHANGED vars PROVE pc' = pc
    BY <2>5 DEF Take, Insert, ServerStep, Reload, Start, Signal, Deadline, NextServer, vars, request
  <2>6. QED BY <2>2, <2>3, <2>4, <2>5, Steps
<1>4. QED BY <1>1, <1>2, <1>3, PTL DEF Spec, ShutdownWaits

-----------------------------------------------------------------------------
\* What the log has taken and not written: the event in the worker's hand, then the
\* channel (the refinement mapping).
Pending == (IF hand = None THEN <<>> ELSE <<hand>>) \o queue

\* A first element put before a sequence, and taken off again.
LEMMA ConsSeq ==
    ASSUME NEW S, NEW h \in S, NEW q \in Seq(S)
    PROVE  /\ <<h>> \o q \in Seq(S) /\ <<h>> \o q # <<>>
           /\ Len(<<h>> \o q) = Len(q) + 1
           /\ (<<h>> \o q)[1] = h
           /\ \A i \in 1..Len(q) : (<<h>> \o q)[i + 1] = q[i]
           /\ Head(<<h>> \o q) = h /\ Tail(<<h>> \o q) = q
<1>1. <<h>> \in Seq(S) /\ Len(<<h>>) = 1 /\ <<h>>[1] = h /\ Len(q) \in Nat
  OBVIOUS
<1>2. PICK s \in Seq(S) : s = <<h>>
  BY <1>1
<1>3. PICK t : t = s \o q
  OBVIOUS
<1>4. /\ t \in Seq(S) /\ Len(t) = 1 + Len(q)
      /\ \A i \in 1..1 + Len(q) : t[i] = IF i <= 1 THEN s[i] ELSE q[i - 1]
  BY <1>1, <1>2, <1>3, ConcatProperties
<1>5. t[1] = h /\ \A i \in 1..Len(q) : t[i + 1] = q[i]
  BY <1>1, <1>2, <1>4
<1>6. t # <<>> /\ Head(t) = h
  BY <1>1, <1>4, <1>5
<1>7. Tail(t) = q
  <2>1. /\ Tail(t) \in Seq(S) /\ Len(Tail(t)) = Len(q)
        /\ \A i \in 1..Len(q) : Tail(t)[i] = t[i + 1]
    BY <1>1, <1>4, <1>6, HeadTailProperties
  <2>2. QED BY <1>5, <2>1, SeqEqual
<1>8. QED BY <1>2, <1>3, <1>4, <1>5, <1>6, <1>7

\* A sequence is its head before its tail.
LEMMA HeadBeforeTail ==
    ASSUME NEW S, NEW q \in Seq(S), q # <<>> PROVE <<Head(q)>> \o Tail(q) = q
<1>1. /\ Head(q) \in S /\ Tail(q) \in Seq(S) /\ Len(Tail(q)) = Len(q) - 1
      /\ \A i \in 1..Len(Tail(q)) : Tail(q)[i] = q[i + 1]
  BY HeadTailProperties
<1>2. PICK t : t = <<Head(q)>> \o Tail(q)
  OBVIOUS
<1>3. /\ t \in Seq(S) /\ Len(t) = Len(Tail(q)) + 1 /\ t[1] = Head(q)
      /\ \A i \in 1..Len(Tail(q)) : t[i + 1] = Tail(q)[i]
  BY <1>1, <1>2, ConsSeq
<1>4. Len(q) \in Nat /\ Len(q) # 0 /\ Head(q) = q[1]
  BY EmptySeq
<1>5. \A i \in 1..Len(q) : t[i] = q[i]
  <2> TAKE i \in 1..Len(q)
  <2>1. CASE i = 1
    BY <1>3, <1>4, <2>1
  <2>2. CASE i # 1
    <3>1. i - 1 \in 1..Len(Tail(q)) /\ (i - 1) + 1 = i
      BY <1>1, <1>4, <2>2
    <3>2. t[(i - 1) + 1] = Tail(q)[i - 1] /\ Tail(q)[i - 1] = q[(i - 1) + 1]
      BY <1>1, <1>3, <3>1
    <3>3. QED BY <3>1, <3>2
  <2>3. QED BY <2>1, <2>2
<1>6. QED BY <1>1, <1>2, <1>3, <1>4, <1>5, SeqEqual

\* Appending behind a prefix.
LEMMA AppendBehind ==
    ASSUME NEW S, NEW s \in Seq(S), NEW q \in Seq(S), NEW e \in S
    PROVE  s \o Append(q, e) = Append(s \o q, e)
<1>1. \A t \in Seq(S) : Append(t, e) \in Seq(S) /\ Append(t, e) = t \o <<e>>
  BY AppendIsConcat, AppendProperties
<1>2. <<e>> \in Seq(S) /\ s \o q \in Seq(S)
  BY ConcatProperties
<1>3. (s \o q) \o <<e>> = s \o (q \o <<e>>)
  BY <1>2, ConcatAssociative
<1>4. QED BY <1>1, <1>2, <1>3

LEMMA PendingTypes ==
    ASSUME SinkType
    PROVE  /\ Pending \in Seq(Event) /\ Len(Pending) <= Len(queue) + 1
           /\ hand = None => Pending = queue
           /\ hand # None => Pending = <<hand>> \o queue /\ Pending # <<>>
                             /\ Head(Pending) = hand /\ Tail(Pending) = queue
           /\ \A i \in DOMAIN Pending : InQueue(Pending[i].req) \/ InHand(Pending[i].req)
<1>1. queue \in Seq(Event) /\ Len(queue) \in Nat /\ DOMAIN queue = 1..Len(queue)
  BY DEF SinkType
<1>2. CASE hand = None
  <2>1. Pending = queue
    BY <1>1, <1>2, ConcatEmptySeq DEF Pending
  <2>2. QED BY <1>1, <1>2, <2>1 DEF InQueue
<1>3. CASE hand # None
  <2>1. hand \in Event /\ Pending = <<hand>> \o queue
    BY <1>3 DEF SinkType, Pending
  <2>2. /\ Pending \in Seq(Event) /\ Len(Pending) = Len(queue) + 1 /\ Pending # <<>>
        /\ Pending[1] = hand /\ \A i \in 1..Len(queue) : Pending[i + 1] = queue[i]
        /\ Head(Pending) = hand /\ Tail(Pending) = queue
    BY <1>1, <2>1, ConsSeq
  <2>3. ASSUME NEW i \in DOMAIN Pending PROVE InQueue(Pending[i].req) \/ InHand(Pending[i].req)
    <3>1. i \in 1..Len(queue) + 1
      BY <2>2
    <3>2. CASE i = 1
      BY <1>3, <2>2, <3>2 DEF InHand
    <3>3. CASE i # 1
      <4>1. i - 1 \in 1..Len(queue) /\ (i - 1) + 1 = i
        BY <1>1, <3>1, <3>3
      <4>2. Pending[i] = queue[i - 1]
        BY <2>2, <4>1
      <4>3. QED BY <1>1, <4>1, <4>2 DEF InQueue
    <3>4. QED BY <3>2, <3>3
  <2>4. Len(Pending) <= Len(queue) + 1
    BY <1>1, <2>2
  <2>5. QED BY <1>3, <2>1, <2>2, <2>3, <2>4, Zenon
<1>4. QED BY <1>2, <1>3

(***************************************************************************)
(* The channel and its worker implement the event log: what is written was *)
(* taken once, in that order, and at most Buffer + 1 events are            *)
(* outstanding, for any number of requests and any capacity (eventSink).   *)
(***************************************************************************)
THEOREM SinkImplementsLog == Spec => LogRefined
<1>1. Init => DataInv
  BY DataInit
<1>2. DataInv /\ [Next]_vars => DataInv'
  BY DataStep
<1>3. Init => Log!LogInit
  <2> SUFFICES ASSUME Init PROVE Pending = <<>> /\ stored = <<>>
    BY DEF Log!LogInit, Pending
  <2>1. hand = None /\ queue = <<>> /\ stored = <<>> /\ queue \in Seq(Event)
    BY DEF Init
  <2>2. QED BY <2>1, ConcatEmptySeq DEF Pending
<1>4. DataInv /\ [Next]_vars => [Log!LogNext]_(Log!logVars)
  <2> SUFFICES ASSUME DataInv, [Next]_vars
               PROVE  Log!LogNext \/ (Pending' = Pending /\ stored' = stored)
    BY DEF Log!logVars, Pending
  <2>1. EnvType /\ RequestType /\ SinkType /\ SinkType'
    BY DataStep, TypeParts DEF DataInv
  <2>2. ASSUME SameSink PROVE Pending' = Pending /\ stored' = stored
    BY <2>2 DEF SameSink, Pending
  <2>3. ASSUME NEW r \in Requests, RequestStep(r)
        PROVE  Log!LogNext \/ (Pending' = Pending /\ stored' = stored)
    <3>1. CASE ~Submit(r)
      BY <2>2, <2>3, <3>1, NotSubmit
    <3>2. CASE Submit(r) /\ Drop(r)
      BY <3>2 DEF Submit, Drop, Pending
    <3>3. CASE Submit(r) /\ Send(r)
      <4>1. PICK e \in Event : e = event[r] /\ e.req = r
        <5>1. event[r] # None /\ event[r].req = r
          BY <2>1, <2>3, <3>3, ReportingStep DEF DataInv, RequestInv
        <5>2. QED BY <2>1, <5>1 DEF RequestType
      <4>2. ~Somewhere(r)
        BY <2>1, <2>3, ReportingStep DEF DataInv, PlacesInv, RequestInv
      <4>3. /\ queue' = Append(queue, e) /\ hand' = hand /\ stored' = stored
            /\ Len(queue) < Buffer /\ queue \in Seq(Event)
        BY <2>1, <3>3, <4>1 DEF Submit, Send, SinkType
      <4>4. Pending' = Append(Pending, e)
        <5>1. (IF hand = None THEN <<>> ELSE <<hand>>) \in Seq(Event)
          BY <2>1 DEF SinkType
        <5>2. QED BY <4>3, <5>1, AppendBehind DEF Pending
      <4>5. Len(Pending) < Buffer + 1
        BY <2>1, <4>3, PendingTypes, DataAssumption
      <4>6. \A i \in DOMAIN Pending : Pending[i] # e
        BY <2>1, <4>1, <4>2, PendingTypes DEF Somewhere
      <4>7. \A i \in DOMAIN stored : stored[i] # e
        BY <4>1, <4>2 DEF Somewhere, InStored
      <4>8. Log!Report(e)
        BY <4>3, <4>4, <4>5, <4>6, <4>7 DEF Log!Report, Log!Known, Log!Written, Pending
      <4>9. QED BY <4>8 DEF Log!LogNext
    <3>4. QED BY <3>1, <3>2, <3>3 DEF Submit
  <2>4. CASE Take
    <3>1. /\ hand = None /\ queue # <<>> /\ hand' = Head(queue) /\ queue' = Tail(queue)
          /\ stored' = stored
      BY <2>4 DEF Take
    <3>2. hand' # None
      <4>1. Head(queue) \in Event
        BY <2>1, <3>1, HeadTailProperties DEF SinkType
      <4>2. QED BY <3>1, <4>1, DataAssumption
    <3>3. Pending = queue /\ Pending' = <<Head(queue)>> \o Tail(queue)
      BY <2>1, <3>1, <3>2, PendingTypes DEF Pending
    <3>4. QED BY <2>1, <3>1, <3>3, HeadBeforeTail DEF SinkType
  <2>5. CASE Insert
    <3>1. /\ hand # None /\ hand' = None /\ queue' = queue
          /\ stored' = Append(stored, hand) \/ stored' = stored
      BY <2>5 DEF Insert
    <3>2. Pending # <<>> /\ Head(Pending) = hand /\ Tail(Pending) = queue
      BY <2>1, <3>1, PendingTypes
    <3>3. Pending' = queue
      BY <2>1, <3>1, ConcatEmptySeq DEF Pending, SinkType
    <3>4. Log!Write \/ Log!Fail
      BY <3>1, <3>2, <3>3 DEF Log!Write, Log!Fail, Pending
    <3>5. QED BY <3>4 DEF Log!LogNext
  <2>6. CASE ServerStep
    BY <2>1, <2>2, <2>6, ServerEffect DEF DataInv
  <2>7. ASSUME MainReturns \/ Kill PROVE Log!LogNext
    <3>1. hand' = None /\ queue' = <<>> /\ stored' = stored
      BY <2>7 DEF MainReturns, Kill, End
    <3>2. Pending' = <<>>
      BY <2>1, <3>1, ConcatEmptySeq DEF Pending, SinkType
    <3>3. Log!Lose
      BY <3>1, <3>2 DEF Log!Lose, Pending
    <3>4. QED BY <3>3 DEF Log!LogNext
  <2>8. CASE UNCHANGED vars
    BY <2>2, <2>8, Same DEF vars
  <2>9. QED BY <2>3, <2>4, <2>5, <2>6, <2>7, <2>8, Steps
<1>5. QED BY <1>1, <1>2, <1>3, <1>4, PTL DEF Spec, LogRefined, Log!LogSpec
=============================================================================
