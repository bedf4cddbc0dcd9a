------------------------------ MODULE DataPlane ------------------------------
(***************************************************************************)
(* The data plane of wafportal: a request from its arrival on a proxy      *)
(* listener, through the redirect to HTTPS, the rate limiter, the routing  *)
(* table and the WAF middleware to the upstream and back, and the event it *)
(* leaves behind, through the bounded channel of the event sink and its    *)
(* single worker into the store.                                           *)
(*                                                                         *)
(* Each request runs on a goroutine of its own while reloads swap the      *)
(* routing table under it (ControlPlane says which tables), the worker     *)
(* drains the channel, and the process is stopped or killed.               *)
(***************************************************************************)
EXTENDS Naturals, Sequences, FiniteSets

CONSTANTS
    Requests,   \* HTTP requests, each sent once
    Hosts,      \* values of the Host header
    Domains,    \* lower-case domains without a port, the keys of the table
    DomainOf,   \* a Host header lower-cased, with its port cut off
    Tables,     \* the routing tables reloads install
    Limited,    \* whether rate limiting is on
    Buffer,     \* capacity of the event channel
    None        \* nil, or nothing yet

Listeners == {"http", "https"}

\* A handler of the table: the modes of the row it was built from.
Route == [waf : {"on", "detection", "off"}, tls : {"auto", "manual", "off"}]

\* Proxy.handlers, autoDomains and the keys of manualCerts.
Table == [handlers : [Domains -> Route \cup {None}],
          autoDomains : SUBSET Domains,
          manualDomains : SUBSET Domains]

\* 1xx, a final status of the upstream, 502, the status of an interruption, and
\* the answers the proxy gives by itself.
UpstreamStatuses == {"ok", "failed"}
Statuses == UpstreamStatuses \cup {"info", "badgateway", "deny"}
OwnAnswers == {"handshake", "challenge", "redirected", "limited", "notfound"}

\* A row of "events": the request it is about and what was recorded of it.
Event == [req : Requests, blocked : BOOLEAN, status : Statuses]

ASSUME DataAssumption ==
    /\ DomainOf \in [Hosts -> Domains]
    /\ Tables \subseteq Table
    /\ Limited \in BOOLEAN
    /\ Buffer \in Nat \ {0}
    /\ None \notin Route \cup Event \cup Statuses \cup OwnAnswers \cup Hosts \cup Listeners

VARIABLES
    stage,              \* "serving", "stopHTTP", "stopHTTPS" (shutting down) or "down"
    expired,            \* the 10 s of the shutdown are over
    table,              \* the routing table
    cached,             \* domains autocert has a certificate for (persistent)
    pc,                 \* where each request is
    listener, host,     \* its input
    route,              \* the handler it was given
    blocked, status,    \* locals of Middleware
    detected,           \* its transaction matched a rule that makes an event
    recorded, wrote,    \* statusRecorder.status and wroteHeader
    aborted,            \* history: requests whose response broke off
    answer,             \* the final status the client was sent
    event,              \* the event built for it
    queue,              \* the channel of the sink
    hand,               \* the event the worker holds
    stored,             \* the table "events" (persistent)
    dropped, failed,    \* history: requests whose event was dropped / not inserted /
    lost                \*          lost with the process

env == <<stage, expired, table, cached>>
input == <<listener, host>>
verdict == <<blocked, status, detected>>
recorder == <<recorded, wrote, aborted>>
request == <<pc, input, route, verdict, recorder, answer, event>>
history == <<dropped, failed, lost>>
sink == <<queue, hand, stored, history>>
vars == <<env, request, sink>>

\* "new" has not arrived, "done" is answered, "cut" was cut off by the end of the
\* process; the others are points in the handlers.
Labels == {"new", "redirect", "handshake", "limit", "lookup", "headers", "body",
           "upstream", "copy", "log", "submit", "done", "cut"}

\* A request is being handled; during the handshake there is none yet.
Active(r) == pc[r] \notin {"new", "handshake", "done", "cut"}

TypeOK ==
    /\ stage \in {"serving", "stopHTTP", "stopHTTPS", "down"}
    /\ expired \in BOOLEAN
    /\ table \in Table
    /\ cached \in SUBSET Domains
    /\ pc \in [Requests -> Labels]
    /\ listener \in [Requests -> Listeners \cup {None}]
    /\ host \in [Requests -> Hosts \cup {None}]
    /\ route \in [Requests -> Route \cup {None}]
    /\ blocked \in [Requests -> BOOLEAN]
    /\ status \in [Requests -> Statuses]
    /\ detected \in [Requests -> BOOLEAN]
    /\ recorded \in [Requests -> Statuses]
    /\ wrote \in [Requests -> BOOLEAN]
    /\ aborted \in SUBSET Requests
    /\ answer \in [Requests -> Statuses \cup OwnAnswers \cup {None}]
    /\ event \in [Requests -> Event \cup {None}]
    /\ queue \in Seq(Event) /\ Len(queue) <= Buffer
    /\ hand \in Event \cup {None}
    /\ stored \in Seq(Event)
    /\ dropped \in SUBSET Requests
    /\ failed \in SUBSET Requests
    /\ lost \in SUBSET Requests

Init ==
    /\ stage = "serving" /\ expired = FALSE
    /\ table \in Tables /\ cached = {}
    /\ pc = [r \in Requests |-> "new"]
    /\ listener = [r \in Requests |-> None]
    /\ host = [r \in Requests |-> None]
    /\ route = [r \in Requests |-> None]
    /\ blocked = [r \in Requests |-> FALSE]
    /\ status = [r \in Requests |-> "ok"]
    /\ detected = [r \in Requests |-> FALSE]
    /\ recorded = [r \in Requests |-> "ok"]
    /\ wrote = [r \in Requests |-> FALSE]
    /\ aborted = {}
    /\ answer = [r \in Requests |-> None]
    /\ event = [r \in Requests |-> None]
    /\ queue = <<>> /\ hand = None /\ stored = <<>>
    /\ dropped = {} /\ failed = {} /\ lost = {}

Goto(r, label) == pc' = [pc EXCEPT ![r] = label]

\* The proxy answers by itself, without the middleware.
Answer(r, a) ==
    /\ Goto(r, "done")
    /\ answer' = [answer EXCEPT ![r] = a]

-----------------------------------------------------------------------------
(***************************************************************************)
(* internal/proxy                                                          *)
(***************************************************************************)
Domain(r) == DomainOf[host[r]]
usesTLS(d) == d \in table.autoDomains \cup table.manualDomains
hostPolicy(d) == d \in table.autoDomains

\* Each listener closes when its Shutdown begins.
Open == CASE stage = "serving" -> Listeners
          [] stage = "stopHTTP" -> {"https"}
          [] OTHER -> {}

Arrive(r, l, h) ==
    /\ pc[r] = "new" /\ l \in Open
    /\ listener' = [listener EXCEPT ![r] = l]
    /\ host' = [host EXCEPT ![r] = h]
    /\ Goto(r, IF l = "http" THEN "redirect" ELSE "handshake")
    /\ UNCHANGED <<env, route, verdict, recorder, answer, event, sink>>

\* getCertificate for the name of the client's hello, which need not be the Host
\* it asks for later: an operator's certificate first, else autocert, which has
\* one cached or asks hostPolicy before it orders one, and may fail.
GetCertificate(r, sni) ==
    /\ pc[r] = "handshake"
    /\ \/ /\ sni \in table.manualDomains
          /\ Goto(r, "limit")
          /\ UNCHANGED <<answer, cached>>
       \/ /\ sni \notin table.manualDomains
          /\ sni \in cached \/ hostPolicy(sni)
          /\ cached' = cached \cup {sni}
          /\ Goto(r, "limit")
          /\ UNCHANGED answer
       \/ /\ sni \notin table.manualDomains
          /\ Answer(r, "handshake")
          /\ UNCHANGED cached
    /\ UNCHANGED <<stage, expired, table, input, route, verdict, recorder, event, sink>>

\* HTTPHandler: autocert answers the ACME challenges; for the rest, usesTLS is
\* asked under a read lock of its own.
Redirect(r) ==
    /\ pc[r] = "redirect"
    /\ \/ Answer(r, "challenge")
       \/ usesTLS(Domain(r)) /\ Answer(r, "redirected")
       \/ ~usesTLS(Domain(r)) /\ Goto(r, "limit") /\ UNCHANGED answer
    /\ UNCHANGED <<env, input, route, verdict, recorder, event, sink>>

\* ServeHTTP up to the limiter's decision, which is any.
Limit(r) ==
    /\ pc[r] = "limit"
    /\ \/ Limited /\ Answer(r, "limited")
       \/ Goto(r, "lookup") /\ UNCHANGED answer
    /\ UNCHANGED <<env, input, route, verdict, recorder, event, sink>>

\* handlerFor, under a second read lock: the request keeps the handler it finds
\* whatever becomes of the table.
Lookup(r) ==
    LET h == table.handlers[Domain(r)] IN
    /\ pc[r] = "lookup"
    /\ \/ /\ h = None
          /\ Answer(r, "notfound")
          /\ UNCHANGED route
       \/ /\ h # None
          /\ route' = [route EXCEPT ![r] = h]
          /\ Goto(r, IF h.waf = "off" THEN "upstream" ELSE "headers")
          /\ UNCHANGED answer
    /\ UNCHANGED <<env, input, verdict, recorder, event, sink>>

-----------------------------------------------------------------------------
(***************************************************************************)
(* internal/waf: Middleware.  In each phase Coraza may match a rule that   *)
(* counts as a detection, and in the mode "on" it may interrupt, with or   *)
(* without such a match.                                                   *)
(***************************************************************************)
Inspected(r) == route[r] # None /\ route[r].waf # "off"
Matches(r) == \E d \in BOOLEAN : detected' = [detected EXCEPT ![r] = @ \/ d]
MayInterrupt(r) == route[r].waf = "on"

\* Mutant: the early return after an interruption is missing.
BlockFallsThrough(r) ==
    /\ blocked' = [blocked EXCEPT ![r] = TRUE]
    /\ status' = [status EXCEPT ![r] = "deny"]
    /\ answer' = [answer EXCEPT ![r] = "deny"]
    /\ Goto(r, "upstream")

\* An interruption: the upstream is not called.
Block(r) ==
    /\ blocked' = [blocked EXCEPT ![r] = TRUE]
    /\ status' = [status EXCEPT ![r] = "deny"]
    /\ answer' = [answer EXCEPT ![r] = "deny"]
    /\ Goto(r, "log")

InspectHeaders(r) ==
    /\ pc[r] = "headers"
    /\ Matches(r)
    /\ \/ MayInterrupt(r) /\ Block(r)
       \/ Goto(r, "body") /\ UNCHANGED <<blocked, status, answer>>
    /\ UNCHANGED <<env, input, route, recorder, event, sink>>

\* The body: it may fail to be read, which is answered with 502.
InspectBody(r) ==
    /\ pc[r] = "body"
    /\ Matches(r)
    /\ \/ MayInterrupt(r) /\ Block(r)
       \/ /\ status' = [status EXCEPT ![r] = "badgateway"]
          /\ answer' = [answer EXCEPT ![r] = "badgateway"]
          /\ Goto(r, "log")
          /\ UNCHANGED blocked
       \/ Goto(r, "upstream") /\ UNCHANGED <<blocked, status, answer>>
    /\ UNCHANGED <<env, input, route, recorder, event, sink>>

\* statusRecorder.WriteHeader keeps the first code it sees; the handler of a site
\* in mode "off" writes to no recorder.
Record(r, s) ==
    IF Inspected(r) /\ ~wrote[r]
    THEN /\ recorded' = [recorded EXCEPT ![r] = s]
         /\ wrote' = [wrote EXCEPT ![r] = TRUE]
         /\ UNCHANGED aborted
    ELSE UNCHANGED recorder

\* The reverse proxy passes a 1xx response on as it comes (external).
Informational(r) ==
    /\ pc[r] = "upstream"
    /\ Record(r, "info")
    /\ UNCHANGED <<env, pc, input, route, verdict, answer, event, sink>>

\* The final header: the upstream's, or the 502 of ErrorHandler.
WriteHeader(r, s) ==
    /\ pc[r] = "upstream"
    /\ Record(r, s)
    /\ answer' = [answer EXCEPT ![r] = s]
    /\ Goto(r, "copy")
    /\ UNCHANGED <<env, input, route, verdict, event, sink>>

\* Mutant: the recorder is read before the upstream is called.
StatusBeforeCall(r) == "ok"

\* The status Middleware takes over when upstream.ServeHTTP has returned.
StatusAfterCall(r) == recorded[r]

\* The body has been copied: upstream.ServeHTTP returns, and the response headers
\* are inspected for the log.
CopyBody(r) ==
    /\ pc[r] = "copy"
    /\ \/ /\ Inspected(r)
          /\ status' = [status EXCEPT ![r] = StatusAfterCall(r)]
          /\ Matches(r)
          /\ Goto(r, "log")
       \/ /\ ~Inspected(r)
          /\ Goto(r, "done")
          /\ UNCHANGED <<status, detected>>
    /\ UNCHANGED <<env, input, route, blocked, recorder, answer, event, sink>>

\* Mutant: the event is built after the call instead of in a deferred function.
AbortSkipsEvent(r) ==
    /\ pc[r] = "copy"
    /\ Goto(r, "done")
    /\ UNCHANGED <<env, input, route, verdict, recorder, answer, event, sink>>

\* The copy breaks off and the reverse proxy panics with ErrAbortHandler: only the
\* deferred function of Middleware still runs.
AbortCopy(r) ==
    /\ pc[r] = "copy"
    /\ Goto(r, IF Inspected(r) THEN "log" ELSE "done")
    /\ aborted' = aborted \cup {r}
    /\ UNCHANGED <<env, input, route, verdict, recorded, wrote, answer, event, sink>>

\* The deferred function: the logging phase, then buildEvent.
BuildEvent(r) ==
    /\ pc[r] = "log"
    /\ Matches(r)
    /\ IF blocked[r] \/ detected'[r]
       THEN /\ event' = [event EXCEPT ![r] = [req |-> r, blocked |-> blocked[r],
                                              status |-> status[r]]]
            /\ Goto(r, "submit")
       ELSE /\ Goto(r, "done")
            /\ UNCHANGED event
    /\ UNCHANGED <<env, input, route, blocked, status, recorder, answer, sink>>

-----------------------------------------------------------------------------
(***************************************************************************)
(* The event sink of main.                                                 *)
(***************************************************************************)
\* The two cases of Submit's select, which never waits.
Send(r) ==
    /\ Len(queue) < Buffer
    /\ queue' = Append(queue, event[r])
    /\ UNCHANGED dropped

\* Mutant: the send has no default case and waits for room.
WaitForRoom(r) == FALSE

Drop(r) ==
    /\ Len(queue) = Buffer
    /\ dropped' = dropped \cup {r}
    /\ UNCHANGED queue

\* Mutant: the channel has no bound.
SubmitUnbounded(r) ==
    /\ pc[r] = "submit"
    /\ queue' = Append(queue, event[r])
    /\ Goto(r, "done")
    /\ UNCHANGED <<env, input, route, verdict, recorder, answer, event, hand, stored, history>>

Submit(r) ==
    /\ pc[r] = "submit"
    /\ Send(r) \/ Drop(r)
    /\ Goto(r, "done")
    /\ UNCHANGED <<env, input, route, verdict, recorder, answer, event, hand, stored,
                   failed, lost>>

\* Mutant: the worker stops taking events when the shutdown begins.
TakeUntilSignal ==
    /\ stage = "serving"
    /\ hand = None /\ queue # <<>>
    /\ hand' = Head(queue)
    /\ queue' = Tail(queue)
    /\ UNCHANGED <<env, request, stored, history>>

\* Mutant: the worker takes the newest event first.
TakeNewest ==
    /\ stage # "down"
    /\ hand = None /\ queue # <<>>
    /\ hand' = queue[Len(queue)]
    /\ queue' = SubSeq(queue, 1, Len(queue) - 1)
    /\ UNCHANGED <<env, request, stored, history>>

Take ==
    /\ stage # "down"
    /\ hand = None /\ queue # <<>>
    /\ hand' = Head(queue)
    /\ queue' = Tail(queue)
    /\ UNCHANGED <<env, request, stored, history>>

\* InsertEvent; its error is logged and the event is gone.
Insert ==
    /\ hand # None
    /\ \/ stored' = Append(stored, hand) /\ UNCHANGED failed
       \/ failed' = failed \cup {hand.req} /\ UNCHANGED stored
    /\ hand' = None
    /\ UNCHANGED <<env, request, queue, dropped, lost>>

-----------------------------------------------------------------------------
\* A reload installs another table in one critical section.
Reload(t) ==
    /\ stage # "down"
    /\ table' = t
    /\ UNCHANGED <<stage, expired, cached, request, sink>>

(***************************************************************************)
(* waitForShutdown: after the signal and the admin server, the HTTP and    *)
(* then the HTTPS server shut down.  Each Shutdown closes its listener and *)
(* waits for its requests until the shared deadline; then main returns,    *)
(* and with it the process ends, whatever the sink still holds.            *)
(***************************************************************************)
Drained(l) == expired \/ \A r \in Requests : Active(r) => listener[r] # l

Signal ==
    /\ stage = "serving"
    /\ stage' = "stopHTTP"
    /\ UNCHANGED <<expired, table, cached, request, sink>>

Deadline ==
    /\ stage \in {"stopHTTP", "stopHTTPS"}
    /\ expired' = TRUE
    /\ UNCHANGED <<stage, table, cached, request, sink>>

\* Mutant: the first Shutdown does not wait for its requests.
NextServerAtOnce ==
    /\ stage = "stopHTTP"
    /\ stage' = "stopHTTPS"
    /\ UNCHANGED <<expired, table, cached, request, sink>>

NextServer ==
    /\ stage = "stopHTTP" /\ Drained("http")
    /\ stage' = "stopHTTPS"
    /\ UNCHANGED <<expired, table, cached, request, sink>>

\* The events the sink has accepted and not written.
Held == {queue[i] : i \in DOMAIN queue} \cup ({hand} \ {None})

End ==
    /\ stage' = "down"
    /\ pc' = [r \in Requests |-> IF Active(r) THEN "cut"
                                 ELSE IF pc[r] = "handshake" THEN "done" ELSE pc[r]]
    /\ lost' = lost \cup {e.req : e \in Held}
    /\ queue' = <<>> /\ hand' = None
    /\ UNCHANGED <<table, cached, input, route, verdict, recorder, answer, event, stored,
                   dropped, failed>>

MainReturns ==
    /\ stage = "stopHTTPS" /\ Drained("https")
    /\ End
    /\ UNCHANGED expired

\* The process is killed; no deadline was kept.
Kill ==
    /\ stage # "down"
    /\ End
    /\ expired' = TRUE

\* systemd starts the process again.
Start(t) ==
    /\ stage = "down"
    /\ stage' = "serving" /\ expired' = FALSE
    /\ table' = t
    /\ UNCHANGED <<cached, request, sink>>

-----------------------------------------------------------------------------
\* Steps that wait for the client or for the upstream, neither of which has a
\* deadline once the headers are read.
Peer(r) == \/ InspectBody(r)
           \/ Informational(r)
           \/ \E s \in UpstreamStatuses \cup {"badgateway"} : WriteHeader(r, s)
           \/ CopyBody(r)
           \/ AbortCopy(r)

\* The steps of a request that wait for nobody.
Serve(r) == \/ \E sni \in Domains : GetCertificate(r, sni)
            \/ Redirect(r) \/ Limit(r) \/ Lookup(r)
            \/ InspectHeaders(r)
            \/ BuildEvent(r) \/ Submit(r)

Worker == Take \/ Insert

Stop == Signal \/ Deadline \/ NextServer \/ MainReturns \/ Kill

Next == \/ \E r \in Requests : \/ \E l \in Listeners, h \in Hosts : Arrive(r, l, h)
                               \/ Serve(r)
                               \/ Peer(r)
        \/ Worker
        \/ \E t \in Tables : Reload(t) \/ Start(t)
        \/ Stop

\* A goroutine that can run is run.  Nothing is assumed of clients and upstreams,
\* nor, in ServeFairness, of the worker, which waits for SQLite.
ServeFairness == \A r \in Requests : WF_vars(Serve(r))
WorkerFairness == WF_vars(Worker)

Spec == Init /\ [][Next]_vars

-----------------------------------------------------------------------------
(***************************************************************************)
(* Properties.                                                             *)
(***************************************************************************)
\* How often request r's event is in the table.
Rows(r) == Cardinality({i \in DOMAIN stored : stored[i].req = r})

\* How many fates r's event has met.
Fates(r) ==
    Cardinality({i \in DOMAIN queue : queue[i].req = r}) + Rows(r)
    + Cardinality({x \in {"hand"} : hand # None /\ hand.req = r})
    + Cardinality({s \in {<<"dropped", dropped>>, <<"failed", failed>>, <<"lost", lost>>} :
                      r \in s[2]})

(***************************************************************************)
(* Every inspected request that was blocked or matched a detection rule    *)
(* leaves exactly one event, also when its response broke off in a panic,  *)
(* and the event is in exactly one place; no other request leaves any      *)
(* (the deferred function of Middleware, Submit, run).                     *)
(***************************************************************************)
ReportedOnce ==
    \A r \in Requests :
        Fates(r) = IF pc[r] = "done" /\ Inspected(r) /\ (blocked[r] \/ detected[r])
                   THEN 1 ELSE 0

(***************************************************************************)
(* Events say the truth about blocking: an event that is queued, held or   *)
(* stored is marked as blocked exactly when its client was turned away by  *)
(* an engine in mode "on" and the upstream was not called, whatever table  *)
(* was installed since (Middleware's early return).                        *)
(***************************************************************************)
Reported == Held \cup {stored[i] : i \in DOMAIN stored}

BlockedTold ==
    /\ \A e \in Reported :
          /\ e.blocked <=> answer[e.req] = "deny"
          /\ e.blocked => e.status = "deny" /\ route[e.req].waf = "on"
    /\ \A r \in Requests : blocked[r] => answer[r] = "deny" /\ ~wrote[r]

(***************************************************************************)
(* The sink and its worker behave as the event log promises: no event is   *)
(* stored twice or out of order, and no more than the channel and the      *)
(* worker's hand hold are outstanding.                                     *)
(***************************************************************************)
Log == INSTANCE EventLog WITH
    Events <- Event,
    Capacity <- Buffer + 1,
    pending <- (IF hand = None THEN <<>> ELSE <<hand>>) \o queue,
    log <- stored

LogRefined == Log!LogSpec

(***************************************************************************)
(* An orderly shutdown cuts no request off before the deadline, on either  *)
(* listener, although the servers are shut down one after the other.       *)
(***************************************************************************)
ShutdownWaits ==
    [][\A r \in Requests : pc[r] # "cut" /\ pc'[r] = "cut" => expired']_vars

(***************************************************************************)
(* Traffic never waits for the event log: a request that waits neither for *)
(* its client nor for the upstream gets on, even if the worker never runs  *)
(* again and the channel is full.                                          *)
(***************************************************************************)
Waiting(r) == pc[r] \in {"body", "upstream", "copy"}

SinkNeverBlocks ==
    \A r \in Requests : Active(r) /\ ~Waiting(r) ~> Waiting(r) \/ pc[r] \in {"done", "cut"}

(***************************************************************************)
(* Every event the sink accepts is written sooner or later, unless its     *)
(* insert fails or the process ends, provided the worker is run when it    *)
(* can run (the goroutine of eventSink.run).                               *)
(***************************************************************************)
EventsWritten ==
    WorkerFairness =>
        \A r \in Requests : (\E e \in Held : e.req = r)
                                ~> Rows(r) = 1 \/ r \in failed \cup lost

(***************************************************************************)
(* The status of an event is the final one the client was sent, whoever    *)
(* answered: the engine, the body's failure, the upstream or ErrorHandler  *)
(* (statusRecorder, and the status the deferred function reads).  Two      *)
(* cases are excepted because the code gets them wrong: a response that    *)
(* broke off is reported as 200, and one that a 1xx preceded as that 1xx.  *)
(***************************************************************************)
StatusTold ==
    \A e \in Reported :
        e.req \notin aborted /\ recorded[e.req] # "info" => e.status = answer[e.req]
=============================================================================
