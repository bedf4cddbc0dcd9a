---------------------------- MODULE ControlPlane ----------------------------
(***************************************************************************)
(* The control plane of wafportal: the mutating handlers of the admin API  *)
(* (internal/api), the tables they write (internal/store), and the reload  *)
(* closure of main that each of them runs afterwards to bring the compiled *)
(* engines (internal/waf) and the routing table (internal/proxy) in line   *)
(* with the tables.                                                        *)
(*                                                                         *)
(* Every admin request runs on a goroutine of its own and no lock is held  *)
(* across a reload.  What is atomic is one SQL statement (the pool has a   *)
(* single connection) and one critical section of an RWMutex; everything   *)
(* between two of those is a step of its own.                              *)
(***************************************************************************)
EXTENDS Naturals

CONSTANTS
    Admins,         \* concurrent admin requests, one handler goroutine each
    Main,           \* the main goroutine, which runs the first reload
    Domains,        \* spellings of site domains; naturals, ordered as SQLite orders them
    Lower,          \* strings.ToLower, a function on Domains
    Upstreams,      \* upstream URLs
    ValidUpstreams, \* those url.Parse accepts and that have a host
    Certs,          \* certificate / key file pairs
    LoadableCerts,  \* those tls.LoadX509KeyPair can load
    Directives,     \* SecLang texts of custom rules
    Compiles(_, _), \* coraza.NewWAF succeeds on a directive list in a mode
    SiteBodies,     \* JSON bodies of site requests
    RuleBodies,     \* JSON bodies of rule requests
    MaxSites,       \* bound on the rows ever inserted into "sites"
    MaxRules,       \* bound on the rows ever inserted into "rules"
    StoreFaults,    \* whether a statement of a reload or a rollback may fail
    None            \* nil, the empty string, a missing row

WAFModes == {"on", "detection", "off"}
InspectModes == {"on", "detection"}
TLSModes == {"auto", "manual", "off"}

SiteIds == 1..MaxSites
RuleIds == 1..MaxRules
Procs == Admins \cup {Main}

\* A row of "sites"; the timestamps are left out.
Site == [domain : Domains, upstream : Upstreams, waf : WAFModes,
         tls : TLSModes, cert : Certs \cup {None}, enabled : BOOLEAN]

\* A row of "rules"; the name and the description are left out.
Rule == [directive : Directives, enabled : BOOLEAN]

\* Request bodies before validation: any field may be missing, and a mode may
\* be a word that is none of the modes.
SiteBody == [domain : Domains \cup {None}, upstream : Upstreams \cup {None},
             waf : WAFModes \cup {"unknown", None},
             tls : TLSModes \cup {"unknown", None},
             cert : Certs \cup {None}, enabled : BOOLEAN]
RuleBody == [directive : Directives \cup {None}, enabled : BOOLEAN]

ASSUME ConstantsAssumption ==
    /\ Main \notin Admins
    /\ Domains \subseteq Nat
    /\ Lower \in [Domains -> Domains]
    /\ ValidUpstreams \subseteq Upstreams
    /\ LoadableCerts \subseteq Certs
    /\ SiteBodies \subseteq SiteBody
    /\ RuleBodies \subseteq RuleBody
    /\ MaxSites \in Nat
    /\ MaxRules \in Nat
    /\ StoreFaults \in BOOLEAN

ASSUME NoneAssumption ==
    /\ None \notin Domains
    /\ None \notin Upstreams
    /\ None \notin Certs
    /\ None \notin Directives
    /\ None \notin WAFModes \cup TLSModes
    /\ None \notin RuleIds
    /\ None \notin Site
    /\ None \notin Rule

(***************************************************************************)
(* What an engine is compiled from: the directive of every enabled rule at *)
(* the position of its id, None where there is nothing to join in.         *)
(***************************************************************************)
DirectiveList == [RuleIds -> Directives \cup {None}]

\* A compiled coraza.WAF.
WAF == [mode : InspectModes, directives : DirectiveList]

\* A routed site: the row its closure was built from and the engine wrapped
\* around its reverse proxy, None when requests bypass the WAF.
Handler == [site : Site, engine : WAF \cup {None}]

\* The three maps Proxy.Reload builds and installs together.
Table == [handlers : [Domains -> Handler \cup {None}],
          autoDomains : SUBSET Domains,
          manualCerts : [Domains -> Certs \cup {None}]]

EmptyTable == [handlers |-> [d \in Domains |-> None],
               autoDomains |-> {},
               manualCerts |-> [d \in Domains |-> None]]

NoEngines == [m \in InspectModes |-> None]
NoDirectives == [i \in RuleIds |-> None]

ASSUME NoneNotBuilt == None \notin WAF /\ None \notin Handler

VARIABLES
    sites, rules,       \* the tables: id -> row or None (persistent)
    siteSeq, ruleSeq,   \* their AUTOINCREMENT counters (persistent)
    up,                 \* the listeners are serving
    engines,            \* Manager.engines
    live,               \* Proxy.handlers, autoDomains, manualCerts
    pc,                 \* where each goroutine is in its request or reload
    onErr,              \* what its caller does when the reload fails
    rid,                \* the id createRule inserted
    dirs,               \* the directives a reload has read
    todo,               \* the sites a reload has listed and not yet routed
    draft,              \* the table it is building
    acked, rejected,    \* history: rule ids whose creation was confirmed / undone
    removed             \* history: rule ids an operator asked to delete

store == <<sites, rules, siteSeq, ruleSeq>>
locals == <<onErr, rid, dirs, todo, draft>>
history == <<acked, rejected, removed>>
vars == <<store, up, engines, live, pc, locals, history>>

Labels == {"idle", "read", "compile", "list", "route", "rollback"}

TypeOK ==
    /\ sites \in [SiteIds -> Site \cup {None}]
    /\ rules \in [RuleIds -> Rule \cup {None}]
    /\ siteSeq \in 0..MaxSites
    /\ ruleSeq \in 0..MaxRules
    /\ up \in BOOLEAN
    /\ engines \in [InspectModes -> WAF \cup {None}]
    /\ live \in Table
    /\ pc \in [Procs -> Labels]
    /\ onErr \in [Procs -> {"fatal", "rollback", "report"}]
    /\ rid \in [Procs -> RuleIds \cup {None}]
    /\ dirs \in [Procs -> DirectiveList]
    /\ todo \in [Procs -> SUBSET Site]
    /\ draft \in [Procs -> Table]
    /\ acked \in SUBSET RuleIds
    /\ rejected \in SUBSET RuleIds
    /\ removed \in SUBSET RuleIds

-----------------------------------------------------------------------------
(***************************************************************************)
(* internal/store                                                          *)
(***************************************************************************)
ListSites(tbl) == {tbl[i] : i \in {j \in SiteIds : tbl[j] # None}}

EnabledRuleDirectives(tbl) ==
    [i \in RuleIds |-> IF tbl[i] # None /\ tbl[i].enabled
                       THEN tbl[i].directive ELSE None]

\* UNIQUE(domain), in SQLite's case-sensitive collation, for a write to row i.
UniqueDomain(i, d) == \A j \in SiteIds \ {i} : sites[j] # None => sites[j].domain # d

\* The statements that write: INSERT takes the next id and never one used before,
\* UPDATE and DELETE of an id without a row change nothing and are no error.
StoreCreateSite(s) ==
    /\ siteSeq < MaxSites
    /\ UniqueDomain(siteSeq + 1, s.domain)
    /\ sites' = [sites EXCEPT ![siteSeq + 1] = s]
    /\ siteSeq' = siteSeq + 1

StoreUpdateSite(i, s) ==
    /\ sites[i] # None => UniqueDomain(i, s.domain)
    /\ sites' = [sites EXCEPT ![i] = IF @ = None THEN None ELSE s]

StoreDeleteSite(i) == sites' = [sites EXCEPT ![i] = None]

StoreCreateRule(r) ==
    /\ ruleSeq < MaxRules
    /\ rules' = [rules EXCEPT ![ruleSeq + 1] = r]
    /\ ruleSeq' = ruleSeq + 1

StoreUpdateRule(i, r) == rules' = [rules EXCEPT ![i] = IF @ = None THEN None ELSE r]

StoreDeleteRule(i) == rules' = [rules EXCEPT ![i] = None]

(***************************************************************************)
(* validateSite: a missing mode gets its default, anything else that is    *)
(* missing or unknown is refused.                                          *)
(***************************************************************************)
WithDefaults(b) == [b EXCEPT !.waf = IF @ = None THEN "on" ELSE @,
                             !.tls = IF @ = None THEN "auto" ELSE @]

\* Mutant: the modes are checked where present and never defaulted.
ValidatedWithoutDefaults(b) == {s \in {b} :
                    /\ s.domain # None
                    /\ s.upstream # None
                    /\ s.waf \in WAFModes \cup {None}
                    /\ s.tls \in TLSModes \cup {None}}

Validated(b) == {s \in {WithDefaults(b)} :
                    /\ s.domain # None
                    /\ s.upstream # None
                    /\ s.waf \in WAFModes
                    /\ s.tls \in TLSModes
                    /\ s.tls = "manual" => s.cert # None}

-----------------------------------------------------------------------------
(***************************************************************************)
(* Goroutine bookkeeping.                                                  *)
(***************************************************************************)
Goto(p, label) == pc' = [pc EXCEPT ![p] = label]

\* The handler answers and its goroutine is gone.
Return(p) ==
    /\ Goto(p, "idle")
    /\ onErr' = [onErr EXCEPT ![p] = "report"]
    /\ rid' = [rid EXCEPT ![p] = None]
    /\ dirs' = [dirs EXCEPT ![p] = NoDirectives]
    /\ todo' = [todo EXCEPT ![p] = {}]
    /\ draft' = [draft EXCEPT ![p] = EmptyTable]

\* The process is gone: everything but the database is lost.
Exit ==
    /\ up' = FALSE
    /\ engines' = NoEngines
    /\ live' = EmptyTable
    /\ pc' = [p \in Procs |-> "idle"]
    /\ onErr' = [p \in Procs |-> "report"]
    /\ rid' = [p \in Procs |-> None]
    /\ dirs' = [p \in Procs |-> NoDirectives]
    /\ todo' = [p \in Procs |-> {}]
    /\ draft' = [p \in Procs |-> EmptyTable]

Init ==
    /\ sites = [i \in SiteIds |-> None] /\ siteSeq = 0
    /\ rules = [i \in RuleIds |-> None] /\ ruleSeq = 0
    /\ up = FALSE
    /\ engines = NoEngines
    /\ live = EmptyTable
    /\ pc = [p \in Procs |-> "idle"]
    /\ onErr = [p \in Procs |-> "report"]
    /\ rid = [p \in Procs |-> None]
    /\ dirs = [p \in Procs |-> NoDirectives]
    /\ todo = [p \in Procs |-> {}]
    /\ draft = [p \in Procs |-> EmptyTable]
    /\ acked = {} /\ rejected = {} /\ removed = {}

-----------------------------------------------------------------------------
(***************************************************************************)
(* The handlers up to their store statement.  A request that is refused    *)
(* with 400 before or by that statement changes nothing: it is a           *)
(* stuttering step.  The reload runs also when the statement found no row. *)
(***************************************************************************)
Accepts(a) == up /\ pc[a] = "idle"

StartReload(a, whenItFails) ==
    /\ Goto(a, "read")
    /\ onErr' = [onErr EXCEPT ![a] = whenItFails]
    /\ UNCHANGED <<up, engines, live, dirs, todo, draft>>

CreateSite(a, b) ==
    /\ Accepts(a)
    /\ \E s \in Validated(b) : StoreCreateSite(s)
    /\ StartReload(a, "report")
    /\ UNCHANGED <<rules, ruleSeq, rid, history>>

UpdateSite(a, i, b) ==
    /\ Accepts(a)
    /\ \E s \in Validated(b) : StoreUpdateSite(i, s)
    /\ StartReload(a, "report")
    /\ UNCHANGED <<siteSeq, rules, ruleSeq, rid, history>>

DeleteSite(a, i) ==
    /\ Accepts(a)
    /\ StoreDeleteSite(i)
    /\ StartReload(a, "report")
    /\ UNCHANGED <<siteSeq, rules, ruleSeq, rid, history>>

CreateRule(a, b) ==
    /\ Accepts(a)
    /\ b.directive # None
    /\ StoreCreateRule(b)
    /\ rid' = [rid EXCEPT ![a] = ruleSeq + 1]
    /\ StartReload(a, "rollback")
    /\ UNCHANGED <<sites, siteSeq, history>>

UpdateRule(a, i, b) ==
    /\ Accepts(a)
    /\ b.directive # None
    /\ StoreUpdateRule(i, b)
    /\ StartReload(a, "report")
    /\ UNCHANGED <<sites, siteSeq, ruleSeq, rid, history>>

DeleteRule(a, i) ==
    /\ Accepts(a)
    /\ StoreDeleteRule(i)
    /\ removed' = removed \cup {i}
    /\ StartReload(a, "report")
    /\ UNCHANGED <<sites, siteSeq, ruleSeq, rid, acked, rejected>>

-----------------------------------------------------------------------------
(***************************************************************************)
(* The reload closure of main, with Manager.Reload and Proxy.Reload.       *)
(***************************************************************************)
\* Mutant: a reload empties the engine map before it compiles the new engines.
ClearThenRead(p) ==
    /\ pc[p] = "read"
    /\ dirs' = [dirs EXCEPT ![p] = EnabledRuleDirectives(rules)]
    /\ engines' = NoEngines
    /\ Goto(p, "compile")
    /\ UNCHANGED <<store, up, live, onErr, rid, todo, draft, history>>

ReadDirectives(p) ==
    /\ pc[p] = "read"
    /\ dirs' = [dirs EXCEPT ![p] = EnabledRuleDirectives(rules)]
    /\ Goto(p, "compile")
    /\ UNCHANGED <<store, up, engines, live, onErr, rid, todo, draft, history>>

\* Both engines compile: the map of engines is swapped under the write lock.
SwapEngines(p) ==
    /\ pc[p] = "compile"
    /\ \A m \in InspectModes : Compiles(dirs[p], m)
    /\ engines' = [m \in InspectModes |-> [mode |-> m, directives |-> dirs[p]]]
    /\ Goto(p, "list")
    /\ UNCHANGED <<store, up, live, locals, history>>

ReadSites(p) ==
    /\ pc[p] = "list"
    /\ todo' = [todo EXCEPT ![p] = ListSites(sites)]
    /\ Goto(p, "route")
    /\ UNCHANGED <<store, up, engines, live, onErr, rid, dirs, draft, history>>

\* Manager.Engine: nil for the mode "off", which is no key of the map.
Engine(mode) == IF mode \in InspectModes THEN engines[mode] ELSE None

Routable(s) == s.enabled /\ s.upstream \in ValidUpstreams

\* One turn of Proxy.Reload's loop: the table t with site s added to it.
AddRoute(t, s) ==
    LET host == Lower[s.domain] IN
    [handlers |-> [t.handlers EXCEPT ![host] = [site |-> s, engine |-> Engine(s.waf)]],
     autoDomains |-> t.autoDomains \cup (IF s.tls = "auto" THEN {host} ELSE {}),
     manualCerts |-> IF s.tls = "manual" /\ s.cert \in LoadableCerts
                     THEN [t.manualCerts EXCEPT ![host] = s.cert]
                     ELSE t.manualCerts]

\* The loop visits the rows ORDER BY domain.
RouteSite(p) ==
    /\ pc[p] = "route"
    /\ \E s \in todo[p] :
          /\ \A t \in todo[p] : s.domain <= t.domain
          /\ todo' = [todo EXCEPT ![p] = @ \ {s}]
          /\ draft' = [draft EXCEPT ![p] = IF Routable(s) THEN AddRoute(@, s) ELSE @]
    /\ UNCHANGED <<store, up, engines, live, pc, onErr, rid, dirs, history>>

\* Mutant: the new routes are merged into the old map.
MergeTable(p) ==
    /\ pc[p] = "route"
    /\ todo[p] = {}
    /\ live' = [draft[p] EXCEPT !.handlers =
                   [d \in Domains |-> IF @[d] = None THEN live.handlers[d] ELSE @[d]]]
    /\ up' = TRUE
    /\ acked' = IF onErr[p] = "rollback" THEN acked \cup {rid[p]} ELSE acked
    /\ Return(p)
    /\ UNCHANGED <<store, engines, rejected, removed>>

\* The loop is over: the three maps are swapped, the reload returns nil and the
\* caller answers (the main goroutine goes on to start the listeners).
SwapTable(p) ==
    /\ pc[p] = "route"
    /\ todo[p] = {}
    /\ live' = draft[p]
    /\ up' = TRUE
    /\ acked' = IF onErr[p] = "rollback" THEN acked \cup {rid[p]} ELSE acked
    /\ Return(p)
    /\ UNCHANGED <<store, engines, rejected, removed>>

(***************************************************************************)
(* The reload returns an error: an engine does not compile, or a query     *)
(* fails.  createRule goes on to undo its insert, main ends the process,   *)
(* the other handlers log or report the error and leave the store as it    *)
(* is.                                                                     *)
(***************************************************************************)
ReloadFails(p) ==
    /\ \/ pc[p] = "compile" /\ \E m \in InspectModes : ~Compiles(dirs[p], m)
       \/ StoreFaults /\ pc[p] \in {"read", "list"}
    /\ \/ /\ onErr[p] = "rollback"
          /\ Goto(p, "rollback")
          /\ UNCHANGED <<up, engines, live, locals>>
       \/ /\ onErr[p] = "report"
          /\ Return(p)
          /\ UNCHANGED <<up, engines, live>>
       \/ /\ onErr[p] = "fatal"
          /\ Exit
    /\ UNCHANGED <<store, history>>

\* Mutant: the newest row is deleted instead of the one that was inserted.
RollbackNewest(p) ==
    /\ pc[p] = "rollback"
    /\ rules' = [rules EXCEPT ![ruleSeq] = None]
    /\ rejected' = rejected \cup {rid[p]}
    /\ Return(p)
    /\ UNCHANGED <<sites, siteSeq, ruleSeq, up, engines, live, acked, removed>>

\* createRule deletes the row it inserted and answers "rule rejected"; an error
\* of that statement is ignored.
Rollback(p) ==
    /\ pc[p] = "rollback"
    /\ \/ StoreDeleteRule(rid[p]) /\ rejected' = rejected \cup {rid[p]}
       \/ StoreFaults /\ UNCHANGED <<rules, rejected>>
    /\ Return(p)
    /\ UNCHANGED <<sites, siteSeq, ruleSeq, up, engines, live, acked, removed>>

-----------------------------------------------------------------------------
\* systemd starts the process; main runs the initial reload before it listens.
Boot ==
    /\ ~up /\ pc[Main] = "idle"
    /\ StartReload(Main, "fatal")
    /\ UNCHANGED <<store, rid, history>>

\* The process is killed or the machine goes down, at any point.
Crash ==
    /\ up \/ pc[Main] # "idle"
    /\ Exit
    /\ UNCHANGED <<store, history>>

Step(p) == \/ ReadDirectives(p) \/ SwapEngines(p) \/ ReadSites(p)
           \/ RouteSite(p) \/ SwapTable(p) \/ ReloadFails(p) \/ Rollback(p)

Request(a) == \/ \E b \in SiteBodies : CreateSite(a, b)
              \/ \E i \in SiteIds, b \in SiteBodies : UpdateSite(a, i, b)
              \/ \E i \in SiteIds : DeleteSite(a, i)
              \/ \E b \in RuleBodies : CreateRule(a, b)
              \/ \E i \in RuleIds, b \in RuleBodies : UpdateRule(a, i, b)
              \/ \E i \in RuleIds : DeleteRule(a, i)

Next == \/ \E a \in Admins : Request(a)
        \/ \E p \in Procs : Step(p)
        \/ Boot
        \/ Crash

\* A goroutine that can run is eventually run, and systemd starts the service
\* again; nothing forces an operator to act or the process to crash.
Fairness == WF_vars(Boot) /\ \A p \in Procs : WF_vars(Step(p))

Spec == Init /\ [][Next]_vars
FairSpec == Spec /\ Fairness

-----------------------------------------------------------------------------
(***************************************************************************)
(* Properties.                                                             *)
(***************************************************************************)
\* The process serves and no admin request is under way.
Quiet == up /\ \A p \in Procs : pc[p] = "idle"

\* The rules in the store compile, so a reload that reads them gets through.
Loadable(tbl) == \A m \in InspectModes : Compiles(EnabledRuleDirectives(tbl), m)

\* Table t does for site s what its row asks for, with the given rules: its host
\* is routed to it, inspected in its WAF mode and served with its TLS mode.
ServesAs(t, s, rulesTbl) ==
    LET host == Lower[s.domain] IN
    /\ t.handlers[host] =
          [site |-> s,
           engine |-> IF s.waf = "off" THEN None
                      ELSE [mode |-> s.waf, directives |-> EnabledRuleDirectives(rulesTbl)]]
    /\ host \in t.autoDomains <=> s.tls = "auto"
    /\ t.manualCerts[host] = IF s.tls = "manual" /\ s.cert \in LoadableCerts
                             THEN s.cert ELSE None

\* Table t is the one the given tables describe: every enabled site with a usable
\* upstream is served as its row says, and nothing else is served.
InSync(t, sitesTbl, rulesTbl) ==
    /\ \A s \in ListSites(sitesTbl) : Routable(s) => ServesAs(t, s, rulesTbl)
    /\ \A d \in Domains :
          (~\E s \in ListSites(sitesTbl) : Routable(s) /\ Lower[s.domain] = d)
             => /\ t.handlers[d] = None
                /\ d \notin t.autoDomains
                /\ t.manualCerts[d] = None

(***************************************************************************)
(* A site whose mode is "on" or "detection" is never routed around the     *)
(* WAF, whatever reloads overlap, fail or are cut short: its handler holds *)
(* an engine of its own mode whose directives compiled (Manager.Engine     *)
(* returning nil would make Proxy.Reload install the bare reverse proxy).  *)
(***************************************************************************)
GuardedBy(h) ==
    /\ h.site.waf \in InspectModes =>
          /\ h.engine # None
          /\ h.engine.mode = h.site.waf
          /\ \A m \in InspectModes : Compiles(h.engine.directives, m)
    /\ h.site.waf = "off" => h.engine = None

InspectedSitesGuarded ==
    \A d \in Domains : live.handlers[d] # None => GuardedBy(live.handlers[d])

(***************************************************************************)
(* A rule whose creation was turned down and undone is not in the store,   *)
(* and no later request of anyone brings it back, although the rollback    *)
(* goes by an id taken before the reload (createRule).  Where the          *)
(* rollback's own DELETE fails the row stays: its error is ignored, and    *)
(* the history does not count the creation as undone.                      *)
(***************************************************************************)
RejectedRuleGone == \A i \in rejected : rules[i] = None

(***************************************************************************)
(* A rule whose creation was confirmed stays in the store until an         *)
(* operator deletes it: no other request's rollback, and no crash, takes   *)
(* it away.                                                                *)
(***************************************************************************)
AckedRuleSurvives == \A i \in acked \ removed : rules[i] # None

(***************************************************************************)
(* Changes take effect: when no request is under way and the rules in the  *)
(* store compile, the live table is the one the store describes.           *)
(***************************************************************************)
InSyncWhenQuiet == Quiet /\ Loadable(rules) => InSync(live, sites, rules)

(***************************************************************************)
(* Once every request is answered, the rules in the store compile, so that *)
(* the next reload and the next start of the process succeed.              *)
(***************************************************************************)
LoadableWhenQuiet == Quiet => Loadable(rules)

(***************************************************************************)
(* After a crash the service comes back, unless it is killed over and over *)
(* from outside: the stored rules never keep the process from starting.    *)
(***************************************************************************)
KilledFromOutside ==
    /\ Crash
    /\ ~(pc[Main] = "compile" /\ \E m \in InspectModes : ~Compiles(dirs[Main], m))

RestartRecovers == (~up ~> up) \/ []<><<KilledFromOutside>>_vars

=============================================================================
