# Verification of wafportal

TLA+ specifications of wafportal, TLC configurations that check them on small
instances, and TLAPS proofs, for every instance, of all the safety properties
those runs check. wafportal is a web application firewall: a reverse proxy that
inspects requests with Coraza, and an admin portal that edits, at run time,
which sites it serves and with which rules.

## 1. The system

| Component | State | Operations | Hard because |
|---|---|---|---|
| Admin API (`internal/api`) | none of its own | create/update/delete of sites and rules, each followed by a reload; login, password; reads | one goroutine per request, no lock across a reload; errors of a reload are logged, reported or rolled back depending on the handler |
| Store (`internal/store`) | tables `sites`, `rules`, `events`, `settings` in SQLite | single statements over one pooled connection | a handler is several statements; a crash may fall between them |
| WAF manager (`internal/waf/manager.go`) | two compiled engines, on and detection | `Reload` (compile both, swap or fail), `Engine` | overlapping reloads; compile errors |
| Proxy (`internal/proxy`) | handlers, auto-TLS domains, manual certificates | `Reload` (rebuild, swap), serving, certificate choice | readers take the lock several times per request; engines are read one site at a time |
| Middleware (`internal/waf/middleware.go`) | a transaction per request | inspect, block or forward, record the status, report an event | panics of the reverse proxy, 1xx responses, body errors |
| Event sink (`cmd/wafportal/main.go`) | channel of 4096 events, one worker | non-blocking submit, insert | full channel, failing insert, end of the process |
| main, systemd unit | the process | initial reload (fatal on error), shutdown with a 10 s deadline, restart | crash loops, order of shutdown |
| Authentication (`internal/auth`) | settings rows, signing secret | bootstrap, check, change password, cookies | bootstrap interrupted by a crash; check-then-set |
| Rate limiter (`internal/ratelimit`) | a token bucket per client | allow, periodic eviction | eviction races with use |
| Statistics (`Store.Stats`) | none | four queries | not one transaction, one connection |
| Portal (`web/src`) | fetched records | polling, full-record updates | stale and out-of-order answers |

A mutating request writes the store and then calls the `reload` closure of
main: it reads the enabled rules, compiles both engines, swaps them, reads the
sites, builds the routing table and swaps it. Requests on the proxy listeners
read that table, hold on to the handler they found, and hand events to the sink,
which shares the store's single connection with the admin API.

What makes each part correct:

- control plane: an inspected site is never served without its engine; what
  `createRule` undid stays undone and what it confirmed stays; after the last
  answer the live table is what the store says; the process can always start
  again;
- data plane: a blocked request never reaches the upstream; each detection
  leaves one event that tells the truth; traffic never waits for the log; a
  shutdown cuts nobody off early;
- authentication: a session survives restarts and ends with its cookie; nobody
  is let in without a login; the stored password is known to somebody and a
  restart does not replace it;
- rate limiter: a client never gets more through than its burst and rate allow,
  is never refused before that, and does not occupy memory for ever;
- events: an event exists for every block and every detection, and speaks of the
  most severe rule;
- monitoring: numbers on one page agree, a slow answer never overwrites a newer
  one, and what was inserted is shown in the end.

## 2. Modules

| Module | Models | Kind |
|---|---|---|
| `ControlPlane` | mutating API handlers, sites and rules tables, reload, engine map, routing table, start and crash | specification |
| `MCControlPlane` | instances of it | for TLC |
| `ControlPlaneProofs` | type correctness and three safety theorems | proofs |
| `SyncProofs` | changes made one at a time take effect | proofs |
| `LoadableProofs` | when the stored rules can be relied on to compile | proofs |
| `DataPlane` | request path, middleware, event sink and worker, shutdown and kill | specification |
| `EventLog` | what sink, worker and table promise together | abstract specification |
| `MCDataPlane` | instances of `DataPlane` | for TLC |
| `DataPlaneProofs` | six theorems, one of them the refinement of `EventLog` | proofs |
| `Auth` | account and session secret, start, login, logout, change of password, cookies, crash | specification |
| `MCAuth` | the instance of it | for TLC |
| `AuthProofs` | type correctness and four theorems | proofs |
| `RateLimit` | the limiter's map, its cleanup, and how a request's client is named | specification |
| `TokenBucket` | one everlasting bucket per client | abstract specification |
| `MCRateLimit` | the instance of `RateLimit` | for TLC |
| `RateLimitProofs` | four theorems, one of them the refinement of `TokenBucket` | proofs |
| `BuildEvent` | the loop of `buildEvent` over the matched rules | specification |
| `MCBuildEvent` | the instance of it | for TLC |
| `BuildEventProofs` | four theorems, for every sequence of matched rules | proofs |
| `Dashboard` | `useAsync` on the monitoring pages, `stats` and `listEvents`, `Stats` and `ListEvents`, the worker's inserts | specification composing portal, API, store and worker |
| `MCDashboard` | the instance of it | for TLC |
| `DashboardProofs` | three invariants and `NeverBackwards` | proofs |

Definitions prefixed in their comment with "Mutant" are deliberate bugs; no
specification uses them. Each shows, put in the place of the definition that
follows it, that some property fails.

### ControlPlane

Persistent state is the two tables and their AUTOINCREMENT counters; they
survive `Crash`. Volatile state is `engines`, `live` (the three maps of the
proxy) and, per goroutine, its program counter and the locals of a reload. What
is atomic is one SQL statement (`SetMaxOpenConns(1)`) or one critical section of
a mutex:

| Label | Next step in the code |
|---|---|
| `idle` | no request; `CreateSite` ... `DeleteRule` run a handler up to and including its statement |
| `read` | `EnabledRuleDirectives` |
| `compile` | `Manager.Reload`: `SwapEngines`, or `ReloadFails` |
| `list` | `ListSites` |
| `route` | the loop of `Proxy.Reload`, one site per step since each takes the engine lock anew, then `SwapTable` |
| `rollback` | `createRule`'s `DeleteRule` |

`onErr` says what the caller of the reload does with an error: main ends the
process, `createRule` rolls back, the others report or log it. Requests that are
refused by validation or by the UNIQUE constraint change nothing and are
stuttering steps. SecLang texts are opaque: `Compiles(list, mode)` is a
parameter, and a directive list keeps each text at its rule's position, so that
order and duplicates matter to it. Domains are numbers, whose order is that of
SQLite; `Lower` is `strings.ToLower`. Certificate and key file are one value.
`acked`, `rejected` and `removed` are history variables: the creations that were
confirmed, those whose rollback took effect, and what operators deleted. With
`StoreFaults` the statements of a reload and of a rollback may fail; `createRule`
ignores the error of the latter, and the row then stays although the answer says
that the rule was rejected.

### DataPlane

Each request has a program counter that moves through the plaintext redirect or
the TLS handshake, the limiter, the table lookup, the two request phases, the
upstream, and the deferred function. The routing table is changed by `Reload`,
to any of the tables in `Tables`; `ControlPlane` says how tables come about.
Coraza, the reverse proxy, autocert and `http.Server.Shutdown` are external:

- in each phase Coraza may match a rule that counts as a detection (severity
  set, id not 0), and interrupts only in the mode "on";
- the reverse proxy passes on any number of 1xx headers, then writes one final
  header (502 from `ErrorHandler` included), then copies the body, which ends
  well or in a panic with `ErrAbortHandler`;
- autocert serves a cached certificate, or asks `hostPolicy` and orders one, or
  fails; it answers ACME challenges itself;
- `Shutdown` closes its listener and waits for requests that have been read, not
  for connections still in their handshake. It does not wait for hijacked
  connections either: a protocol upgrade (a WebSocket) that the reverse proxy
  passes on, which it can where no recorder wraps the writer, that is for sites
  in the mode "off", ends with the process. Upgrades are outside the model, and
  `ShutdownWaits` does not speak of them.

Statuses are abstracted to a 1xx, two final codes of the upstream, 502, and the
status of an interruption. The HTTPS listener is assumed to be configured.
`aborted` is a history variable: the requests whose response broke off.

### EventLog

Events pending in order, and rows. An event is reported once, written in order
at most once, or lost. `DataPlane` implements it with `pending` the worker's
event followed by the channel, and `log` the table (`LogRefined`).

### Auth

`settings` is the settings table and survives `Crash`; `memory` is the
`Authenticator`; `jar` holds the cookies, in the browsers. `proc` walks through
`auth.New` (`secret`, `username`, `hash`) and main's log line (`log`) to `up`.
Each step has at most one statement that writes, and until `up` no other
goroutine touches the table, so the reads before it need no step of their own.
While serving, only the hash is written; a change of password is a step that
checks (`CheckCurrent`) and one that stores (`setPassword`), and other changes
may come in between. A login checks, then issues the cookie; a crash in between
loses the answer. A refused login, a 401 of the middleware and a body that is
not JSON change nothing and are stuttering steps.

With `StoreFaults` every statement may fail. New returns the errors, except that
of reading the username, which reads as "no name stored"; `Username` and `Check`
ignore errors. bcrypt and HMAC are external: a hash is represented by its
password, a signature by the secret, and bcrypt refuses long passwords. A cookie
whose username contains the separator `|` never verifies (`BarUsers`). main's
initial reload, which comes before `auth.New`, is in `ControlPlane`. `known`,
`unread` and `loggedIn` are history variables.

### RateLimit and TokenBucket

`Allow` is two steps, as in the code: `Lookup` under the lock, which finds or
creates the bucket and notes the time, and `Decide` after the unlock, which
charges it. The cleanup is two steps as well: the cutoff is read before the lock
is taken (`ReadCutoff`, `Evict`). A bucket object nothing refers to is free to be
used again, which is what the garbage collector does. `rate.Limiter` is external:
a level that gains `Rate` tokens per tick up to `Burst`; it computes the gain
when it is asked, the model when time passes, which is the same.

Goroutines may be delayed anywhere, but not by more than `MaxDelay`, between
noting the time and charging the bucket, and between the ticker's due time and
the end of a cleanup. `RefillAssumption` names what the code relies on without
saying so: goroutines are delayed by less than the ttl, and the burst refills in
what is left of it. With the defaults (20 per second, burst 40, 10 minutes) it
holds by far; a configuration with a burst of more than 600 times the rate
breaks it, and eviction then hands out a fresh burst early.

`LimiterRefined` shows that a client cannot tell: `TokenBucket`'s level is that
of the mapped bucket, or full where there is none. `RateBound` says the same as
a number: `watched` and `start` are any client and any time, chosen at the start
and never changed, and `granted` counts what that client got through since.

The comment of `New` says that the cleanup "evicts buckets unused for ~3x the
cleanup interval". `IdleEvicted` is the half of it that is so: what has been
unused for three intervals is gone. `UnusedForThree` is the other half, that
only such buckets are evicted, with two intervals for "~3x"; it fails
(`ratelimit_idle`), since a bucket goes after between one and two.

### BuildEvent

One step per matched rule, then the event. Messages are opaque; `ScoreOf` is the
number `anomalyScoreRE` finds in one. `TopRuleReported` is about severity and
message, which `internal/store/models.go` describes as those of the top matched
rule. Of `RuleID` it says "rule that caused the interruption, if any", which is
`InterrupterReported` and fails (`buildevent_rule`): the code takes the most
severe detection's id, and the interruption's only if that one has no id. A block
without any detection has `Severity` 0, which the portal labels "Emergency".

`EventWhenRelevant` follows the comment of `buildEvent` itself: only detections,
rules with a severity, or a block produce an event. The comments of `EventSink`
and `Middleware` (`internal/waf/middleware.go:17` and `:23`), that every request
that matches a rule is reported, are looser: a request that matches only rules
without a severity, as every request does with the CRS, is not.

### Dashboard

A fetch is a record that moves from the browser (`sent`) through the handler's
queries (`query` waits for the connection, `rows` holds it) to `answered` or
`failed` and back to the browser, where `Deliver` applies it unless the effect
that started it was cleaned up (`cancelled`). `Show` is a change of page, which
mounts new state, or of the page's filter, which keeps what is on display.
Events come from `Feed` in order; `aged` says how many of them the short window
has left behind, and the long one never loses any. A query's result is the set
of the rows it counts; grouping and the limits are those of the SQL text, and
ties among groups are broken in any way. What `ListEvents` lists is left out, no
property is about it; that it is one query on the same connection is not.

`Poll` is the interval of `useAsync`: it fires whether or not an answer is
outstanding, and the run it starts cancels the one before it. The number of
fetches under way at once is bounded, the number of polls is not.

Failures are a failing query, a lost answer, and a result set that breaks off.
The last is noticed by `ListEvents` and not by the loops of `Stats`; the answer
is then marked `cut`, its lists are not looked at any further, and
`StatsCoherent` excepts it. `error` is never cleared while a page is mounted, as
in the code, so the banner of one failed poll stays although the numbers below
it are brought up to date.

`Refreshed` holds after failures too, but it assumes that polls do not overtake
the answers again and again (`Overtakes`). Without this exception TLC refutes it
on the instance of `dashboard`: the interval fires before each answer, the answer
is dropped, and the page never changes. In the code the interval is 5 s, and
nothing makes it wait; where `Stats` takes longer than that, the dashboard, which
calls itself "live, refreshes every 5s" (`web/src/pages/Dashboard.tsx:127`),
shows nothing at all, or for ever what it showed before.

## 3. Runs

| Run | Instance | Result |
|---|---|---|
| `control_concurrent` | 2 admins, 1 site row in 2 modes, 2 rules, statements may fail | `TypeOK`, `InspectedSitesGuarded`, `RejectedRuleGone`, `AckedRuleSurvives` hold |
| `control_sequential` | 1 admin, 2 sites from 8 bodies (valid, refused, not routable), 2 rules | `InSyncWhenQuiet` holds |
| `control_update_rule` | 1 admin | `LoadableWhenQuiet` fails |
| `control_overlap` | 2 admins | `InSyncWhenQuiet` fails |
| `control_restart` | 1 admin, fair | `RestartRecovers` fails |
| `data` | 3 requests, channel of 2, 4 kinds of table, worker not fair | `TypeOK`, `BlockedTold`, `ReportedOnce`, `StatusTold`, `LogRefined`, `ShutdownWaits`, `SinkNeverBlocks`, `EventsWritten` hold |
| `auth` | 2 browsers, passwords of each kind, 2 secrets, sessions of 1 tick | `TypeOK`, `SessionsSurvive`, `PasswordKnown`, `AdmittedAfterLogin`, `RestartKeepsPassword` hold |
| `ratelimit` | 2 clients, one behind a trusted proxy, 2 requests at once | `TypeOK`, `RateBound`, `IdleEvicted`, `LimiterRefined` hold |
| `ratelimit_idle` | the same | `UnusedForThree` fails |
| `buildevent` | all sequences of up to 3 of 27 rules, blocked or not, interrupted or not | `TypeOK`, `EventWhenRelevant`, `TopRuleReported`, `ScoreReported` hold |
| `buildevent_rule` | sequences of up to 2 rules | `InterrupterReported` fails |
| `dashboard` | 2 events, 2 fetches at once, 4 views, 1 click, 1 failure, any number of polls, fair | `TypeOK`, `ShownForView`, `StatsCoherent`, `NeverBackwards`, `Refreshed` hold |

The runs that fail state what a comment or the README of wafportal says; the
`findings` of `PROJECT.json` quote it and describe the counterexample. In short:
a rejected *update* of a rule stays in the store; overlapping reloads leave a
live table that does not match the store; a crash at the wrong moment of a
rule's creation keeps the process from ever starting again; idle buckets are
evicted earlier than documented; and an event may name another rule than the one
that blocked the request.

Some behaviours are part of the models and of no run of their own:

- `sites.domain` is unique as it is spelled, while the proxy's maps have
  lower-case keys: of two sites that differ only in case the later one in
  SQLite's order takes the host, and the TLS maps may come from the other.
  `InSyncWhenQuiet` fails on an instance with two such spellings; the instances
  here have one spelling with capitals and no two of one host.
- An event records 200 for a response that broke off, whatever its status was,
  and a 1xx where one came before the final header. `StatusTold` excepts these
  two cases and holds in all others, so it would not notice them.
- A reload that turns TLS on between `Redirect` and `Lookup` lets a plaintext
  request in; a manual-TLS site whose certificate does not load is in neither
  TLS map and is served in plaintext.
- In the same way `PasswordKnown` excepts a crash between storing a generated
  password and logging it, and `SessionsSurvive` a username with a `|`; both are
  what the code does. `RefillAssumption` excludes bursts that the ttl does not
  refill and requests that stop for the ttl between lookup and charge.
- The events still queued at an orderly shutdown are lost (`lost`, which
  `ReportedOnce` and `EventsWritten` count as a fate).

### Bounds

- Two admins, plus the main goroutine: the interference is pairwise (one reload
  overtakes, fails on, or rolls back under another).
- `MaxRules` = 2 gives every case of "this row and another one", ids newer than
  the one rolled back, and two rules that only fail to compile together.
  `MaxSites` = 2 where the table matters, 1 where only its engine does.
- `MCCompiles` refuses a text that does not parse and a text used twice (Coraza
  refuses duplicate rule ids).
- A channel of two and three requests make the channel empty, full and overflow,
  and let two events wait in it while a third is with the worker, so that a
  worker that took them from the wrong end would show. All interleavings of
  three requests from their arrival on are too many for TLC. `MCSpec` therefore
  starts in two kinds of reachable states: one request is still to come and the
  others were limited before (every path, under every table and reload); or one
  response is being copied on HTTPS and the others have just been turned away on
  HTTP (requests meet only in the channel and at shutdown). The theorems of
  `DataPlaneProofs` are about `Spec`, from the start of the process on.
- Sessions of one tick and a clock of two let a cookie be used at its last
  moment, one too late, and be renewed. Two secrets tell a stored one from a new
  one; they and the browsers are symmetric.
- `ratelimit`: rate, burst and ttl of 2 and a delay of 1 meet
  `RefillAssumption` with nothing to spare, so that an eviction one tick early,
  or one charge late, would show. Six ticks hold three cleanups. Three buckets
  are one more than there are clients.
- `buildevent`: three rules give a first, a better and an equally good one, with
  a rule that is no detection anywhere among them; severities are none, the most
  severe and another, ids none and two others, scores none and two others.
- `dashboard`: one click, or a poll before the answer, is enough for two fetches
  to be under way for the same view or for different ones; limits of 1 and two
  events in different groups make the limits cut. One failure is enough for the
  error to stay through later answers.
- Admins and browsers are symmetric, and so are the requests and buckets of
  `ratelimit`; symmetry sets are used only in runs without liveness properties.

### Fairness

- `FairSpec` of `ControlPlane`: weak fairness of every goroutine's steps (the Go
  scheduler) and of `Boot` (`Restart=on-failure` in the unit). Nothing forces an
  operator to act or the process to crash. `RestartRecovers` discounts
  behaviours in which the process is killed from outside for ever.
- `ServeFairness` of `DataPlane`: weak fairness of the steps of a request that wait
  for nobody. Reading a body, the upstream's answer and the copy have no
  deadline in the code and get no fairness; neither does the worker.
- `Spec` of `Dashboard`: weak fairness of the handlers' steps, of the delivery of
  answers and of the poll's interval. None is assumed of clicks, failures or
  inserts. That the connection is handed to those who wait for it (`database/sql`
  serves them in order) is not needed as long as polls do not overtake answers
  for ever, which is the assumption `Refreshed` states.
- `EventsWritten` is conditional on weak fairness of the worker, which
  `MCSpec` does not include.

## 4. Proofs

`ControlPlaneProofs` proves for every value of the constants, assuming only the
named assumptions of `ControlPlane` (the types of the parameters, and that
`None` is none of the other values):

- `TypeCorrect`: `TypeOK` is not inductive by itself, since confirming or
  rolling back uses `rid`, which may be `None`. `RollbackOwned` adds that a
  goroutine that may roll back has inserted a row.
- `NeverUnguarded` (`InspectedSitesGuarded`). The inductive invariant
  `GuardInv` adds: an engine in the map has its key's mode and compiled
  (`EnginesSound`); from its own swap until it is done, a reload finds both
  engines in the map, whoever else swaps (`EnginesReady`); every table under
  construction is guarded (`DraftsGuarded`). It holds with failing statements
  and crashes at any step.
- `ConfirmedStays` (`AckedRuleSurvives`) and `RejectedStaysOut`
  (`RejectedRuleGone`), both with failing statements and crashes. The invariant `OutcomeInv` says that
  the ids of pending, confirmed and rejected creations are pairwise different and
  have all been handed out (`IdsDistinct`, `IdsAssigned`), and that a pending
  creation's row is there unless an operator deleted it (`PendingStored`). It is
  AUTOINCREMENT, not the primary key alone, that makes a late rollback safe.

`AuthProofs` proves, for every value of the constants, under the named
assumptions of `Auth` (`None` is no other value, random passwords are neither
typed ones nor too long, durations are natural numbers), with statements that
fail and crashes at any step, all five properties of the run `auth`. Its
inductive invariant `AuthInv` is `TypeOK` with
  - `SecretInv`: the secret in memory, once loaded, and that of every cookie is
    the stored one, and only the running process handles requests; without it
    neither `SessionsSurvive` nor the type of a cookie is inductive;
  - `NextInv`: a request that is to store a password has one;
  - `KnownInv`: the stored password is known in every state but the one between
    storing and logging it, which is where a crash sets `unread`;
  - `LoginInv`: a cookie ends `sessionDuration` after its browser's last login.

`PasswordSurvivesRestart` is an action property and follows from `TypeOK`, one
action at a time.

`SyncProofs` proves `ChangesTakeEffect` (`InSyncWhenQuiet`) under three
hypotheses, each of which is needed: one admin request at a time (`OneAdmin`;
`control_overlap` shows what happens otherwise), one spelling per host in the
requests (`OneSpelling`; see "Some behaviours" above), and no failing statement
(a reload whose query fails leaves the store changed and the table as it was).
Crashes are allowed everywhere, and the compiler is arbitrary. The instance of
`control_sequential` meets the hypotheses. The invariant `SyncInv`:

- `Turns`: main reloads before the listeners serve, an admin only while they do,
  so that with one admin one goroutine at most is under way;
- `RowsDistinct`: no two rows have one domain, and every domain came from a
  request, so that no two rows have one host;
- `ReloadCurrent`: what a reload has read, compiled and built is what the store
  says now; in the loop, the draft serves exactly the sites already visited
  (`Served`). `AddRouteServes` is the step of that loop: a site is added under a
  host nobody has, and disturbs no other;
- `UndoInSync`: while a rule's creation is under way, the live table is the one
  for the rules without it, which is what the rollback restores. Without this
  conjunct the step `Rollback` could not be shown to end in sync.

`LoadableProofs` is the positive side of `control_update_rule` and
`control_restart`. `CarefulSpec` is `Spec` without two kinds of steps
(`Harmless`): updates of a rule that do more than switch it off, and crashes
while a rule's creation is under way. `CreationsStayLoadable` says that then
`LoadableWhenQuiet` holds, for any number of admins whose creations and deletions
overlap in any way. It assumes that no statement fails, and `Independent`: what
compiles still does with some texts left out. That holds of rules that only clash
(duplicate ids, syntax errors) and not of a text that names another custom rule,
or ends in the middle of a chain. The invariant `CarefulInv` says of every stored
rule whose own reload has compiled it that it compiled together with all rules of
smaller ids that are still there (`SettledCompile`), because that reload read
after its insert (`ReadEnough`); when nobody is under way the rule with the
largest id then speaks for all. The case without rules is that of the first
reload (`BaseCompiles`). The invariant, and `LoadableWhenQuiet` with it, were checked
with TLC on the instance of `control_concurrent`, restricted to `Harmless` steps.

`DataPlaneProofs` proves the four safety properties of the run `data`,
`TypeOK` and the refinement of `EventLog`, for any requests, tables, hosts and
capacity, under `DataAssumption` (types; `None` is no other value; the capacity
is positive). The invariant `DataInv` is `TypeOK` with

- `InputInv` and `StopInv`: who is on which listener, and that the one shut down
  first has drained, from which `ShutdownWaits` follows action by action;
- `RequestInv`: per request, what is known before it has its handler (`Fresh`),
  while it is inspected and forwarded (`Underway`), what an interruption and the
  recorded status mean (`Settled`), and that an event says what the request's
  variables say (`Evented`);
- `PlacesInv`: a finished request that was to report has its event in exactly one
  of channel, worker, table, dropped, failed and lost, no other request has one,
  and neither channel nor table holds two of one request.

The refinement maps `pending` to the worker's event followed by the channel;
`Submit`, `Insert` with its failure, and the end of the process become steps of
`EventLog`; all others, `Take` and a dropped event among them, stutter. It needs of `DataInv` that an event
being submitted is in no place yet.

`RateLimitProofs` proves all four properties of `ratelimit`, for any clients,
requests, buckets, rate, burst and ttl that meet `RefillAssumption`. The
invariant `LimiterInv`: two clients never share a bucket (`BucketsDistinct`); a
request about to charge holds the bucket its client is still mapped to, for at
most `MaxDelay` and not since after `lastSeen` (`HeldMapped`); a mapped bucket is
full or has gained `Rate` for every tick since `lastSeen` beyond `MaxDelay`
(`Filling`); the cleanup is never later than its delay (`SweepInv`). Together
they give the central lemma: what is evicted is full and held by nobody. With
the mapping `Level` (a missing bucket is a full one) eviction and recreation are
stuttering steps of `TokenBucket`. `RateBound` needs `GrantInv` besides: what was
granted and what is left come out of burst and rate.

`BuildEventProofs` proves all four properties of `buildevent` for rules, ids,
scores and sequences of any size. The invariant `LoopInv` says of the turns that
are over (`Past`) what the properties say of all: the ids collected, the first of
the most severe detections, the first score, and what the event is made of.

`DashboardProofs` proves `TypeOK`, `ShownForView`, `StatsCoherent` and
`NeverBackwards`, for any feed, limits, number of fetches, clicks and failures,
without using fairness. The invariant `PageInv`:

- `HandlerInv`: how many results a handler has (`Progress`), that each of them
  lies within its window as it is now, and that the first is the window as it was
  when `seen` was noted (`Coherent`); a handler reading rows has the connection,
  so nothing is inserted then. The window only grows, because its start is fixed
  once: this is why the timeline, read last, contains the others;
- `WantedInv`: at most one fetch is not cancelled, and it is for the view;
- `SeenInv`: a fetch that is not cancelled and has looked at the table saw no
  less than is on display. `NeverBackwards` is not provable without it: it is
  what the cleanup of the effect achieves.

Each inductive invariant was checked with TLC on an instance of its module before
it was proved. The proofs assume only the named assumptions of the modules, which
TLC evaluates on every run.

Only model-checked: the liveness properties `SinkNeverBlocks`, `EventsWritten`
and `Refreshed` (liveness under fairness is outside what TLAPS's backends do),
and, of course, the runs that fail.

## 5. Plan

Done: all modules of section 2. Every invariant, action property and refinement
that a run shows to hold is also proved. A module that composes `ControlPlane`
and `DataPlane` through the live table was considered and left out: `DataPlane`
lets a reload install any table of a parameter, so that whatever holds of it
holds of the tables reloads build.

Left to do: lemmas about what `Top` and the limits of the lists return, and a
sharper `OneSpelling` that also says which of two spellings is served.

## 6. Not modelled

- Configuration: read once at start, defaults overlaid by a file; it fixes
  constants of the models (`Buffer`, `Limited`, `Rate`, `Burst`,
  `TrustForwarded`).
- The installer and build files, rendering in the portal, the read-only
  endpoints for sites and rules, JSON helpers and the SPA handler: they keep no
  state.
- The forms of the pages Sites and Rules: they send back whole records that may
  be stale; `ControlPlane` takes any record as the body of an update, so that
  what this does to the store is in it.
- The redirect to the login page on a 401, and the admin server's own shutdown.
- Coraza's matching, SQLite, autocert, `rate.Limiter`, React and net/http are
  external. Timestamps, names and log lines are left out.

`PROJECT.json` lists every component with its status, and every hazard with the
properties that cover it or the reason why none does.
