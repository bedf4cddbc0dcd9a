----------------------------- MODULE SyncProofs -----------------------------
(***************************************************************************)
(* Changes made one at a time take effect: the proof of InSyncWhenQuiet of *)
(* ControlPlane, for every set of sites, rules and bodies and every        *)
(* behaviour of the compiler, with crashes at any point.  Requests that    *)
(* overlap, spellings of one host that differ and statements that fail     *)
(* each break it, so the theorem is about the other case.                  *)
(***************************************************************************)
EXTENDS ControlPlaneProofs

USE DEF StoreCreateSite, StoreUpdateSite, StoreDeleteSite,
        StoreCreateRule, StoreUpdateRule, StoreDeleteRule

\* One admin request at a time.
OneAdmin == \A a, b \in Admins : a = b

\* Requests spell a host in one way (UNIQUE(domain) tells spellings apart, the routing
\* table does not).
OneSpelling ==
    \A b, c \in SiteBodies :
        b.domain # None /\ c.domain # None /\ Lower[b.domain] = Lower[c.domain]
            => b.domain = c.domain

-----------------------------------------------------------------------------
\* Table t serves the sites in S as their rows say, and nothing else.
Served(t, S, R) ==
    /\ \A s \in S : Routable(s) => ServesAs(t, s, R)
    /\ \A d \in Domains :
          (~\E s \in S : Routable(s) /\ Lower[s.domain] = d)
             => t.handlers[d] = None /\ d \notin t.autoDomains /\ t.manualCerts[d] = None

\* The main goroutine reloads before the listeners serve, the admins after.
Turns == /\ \A a \in Admins : pc[a] # "idle" => up
         /\ pc[Main] # "idle" => ~up

\* The rows of "sites" came from requests, and no two of them have one domain.
RowsDistinct ==
    /\ \A i \in SiteIds : sites[i] # None =>
          \E b \in SiteBodies : b.domain # None /\ sites[i].domain = b.domain
    /\ \A i, j \in SiteIds : sites[i] # None /\ sites[j] # None
                             /\ sites[i].domain = sites[j].domain => i = j

EnginesFor(R) == [m \in InspectModes |-> [mode |-> m, directives |-> EnabledRuleDirectives(R)]]

\* What a reload has read, compiled and built so far is what the store says now.
ReloadCurrent == \A p \in Procs :
    /\ pc[p] = "compile" => dirs[p] = EnabledRuleDirectives(rules)
    /\ pc[p] \in {"list", "route"} => engines = EnginesFor(rules)
    /\ pc[p] \in {"idle", "read", "compile", "list"} => draft[p] = EmptyTable
    /\ pc[p] = "route" =>
          /\ todo[p] \subseteq ListSites(sites)
          /\ Served(draft[p], ListSites(sites) \ todo[p], rules)

\* The rules without the one that createRule is about.
Undone(p) == [rules EXCEPT ![rid[p]] = None]

\* Until createRule ends, what is live is what its rollback goes back to.
UndoInSync == \A p \in Procs :
    up /\ pc[p] # "idle" /\ onErr[p] = "rollback" /\ Loadable(Undone(p))
        => InSync(live, sites, Undone(p))

SyncInv == Turns /\ RowsDistinct /\ ReloadCurrent /\ UndoInSync /\ InSyncWhenQuiet

-----------------------------------------------------------------------------
(***************************************************************************)
(* The tables.                                                             *)
(***************************************************************************)
LEMMA ServedInSync ==
    ASSUME NEW t, NEW A, NEW R
    PROVE  InSync(t, A, R) <=> Served(t, ListSites(A), R)
BY DEF InSync, Served

\* Two rows are never routed under one host.
LEMMA HostsDistinct ==
    ASSUME TypeOK, OneSpelling, RowsDistinct,
           NEW s \in ListSites(sites), NEW t \in ListSites(sites),
           Lower[s.domain] = Lower[t.domain]
    PROVE  s = t
<1>1. PICK i \in SiteIds, j \in SiteIds :
          sites[i] # None /\ sites[j] # None /\ s = sites[i] /\ t = sites[j]
  BY DEF ListSites
<1>2. PICK b \in SiteBodies, c \in SiteBodies :
          /\ b.domain # None /\ s.domain = b.domain
          /\ c.domain # None /\ t.domain = c.domain
  BY <1>1 DEF RowsDistinct
<1>3. s.domain = t.domain
  BY <1>2 DEF OneSpelling
<1>4. QED BY <1>1, <1>3 DEF RowsDistinct

\* Nothing is served at first.
LEMMA EmptyServes == ASSUME NEW R PROVE Served(EmptyTable, {}, R)
BY DEF Served, EmptyTable

\* One turn of the loop adds a site, and disturbs no other.
LEMMA AddRouteServes ==
    ASSUME NEW t \in Table, NEW S \in SUBSET Site, NEW s \in Site, Routable(s),
           engines = EnginesFor(rules), Served(t, S, rules),
           \A x \in S : Lower[x.domain] # Lower[s.domain]
    PROVE  Served(AddRoute(t, s), S \cup {s}, rules)
<1> DEFINE host == Lower[s.domain]
           u == AddRoute(t, s)
<1>1. host \in Domains /\ \A x \in S : Lower[x.domain] \in Domains
  BY ConstantsAssumption DEF Site
<1>2. t.handlers[host] = None /\ host \notin t.autoDomains /\ t.manualCerts[host] = None
  BY <1>1 DEF Served
<1>3. /\ u.handlers = [t.handlers EXCEPT ![host] = [site |-> s, engine |-> Engine(s.waf)]]
      /\ u.autoDomains = t.autoDomains \cup (IF s.tls = "auto" THEN {host} ELSE {})
      /\ u.manualCerts = IF s.tls = "manual" /\ s.cert \in LoadableCerts
                         THEN [t.manualCerts EXCEPT ![host] = s.cert] ELSE t.manualCerts
  BY DEF AddRoute
<1>4. t.handlers \in [Domains -> Handler \cup {None}] /\ t.manualCerts \in [Domains -> Certs \cup {None}]
  BY DEF Table
<1>5. \A d \in Domains : d # host =>
          /\ u.handlers[d] = t.handlers[d]
          /\ d \in u.autoDomains <=> d \in t.autoDomains
          /\ u.manualCerts[d] = t.manualCerts[d]
  BY <1>3, <1>4
<1>6. Engine(s.waf) = IF s.waf = "off" THEN None
                      ELSE [mode |-> s.waf, directives |-> EnabledRuleDirectives(rules)]
  BY DEF Engine, EnginesFor, Site, WAFModes, InspectModes
<1>7. ServesAs(u, s, rules)
  <2>1. u.handlers[host] = [site |-> s, engine |-> Engine(s.waf)]
    BY <1>1, <1>3, <1>4
  <2>2. host \in u.autoDomains <=> s.tls = "auto"
    BY <1>2, <1>3
  <2>3. u.manualCerts[host] = IF s.tls = "manual" /\ s.cert \in LoadableCerts
                              THEN s.cert ELSE None
    BY <1>1, <1>2, <1>3, <1>4
  <2>4. QED BY <1>6, <2>1, <2>2, <2>3 DEF ServesAs
<1>8. ASSUME NEW x \in S, Routable(x) PROVE ServesAs(u, x, rules)
  <2>1. Lower[x.domain] \in Domains /\ Lower[x.domain] # host
    BY <1>1
  <2>2. ServesAs(t, x, rules)
    BY <1>8 DEF Served
  <2>3. QED BY <1>5, <2>1, <2>2 DEF ServesAs
<1>9. ASSUME NEW d \in Domains, ~\E x \in S \cup {s} : Routable(x) /\ Lower[x.domain] = d
      PROVE  u.handlers[d] = None /\ d \notin u.autoDomains /\ u.manualCerts[d] = None
  <2>1. d # host
    BY <1>9
  <2>2. t.handlers[d] = None /\ d \notin t.autoDomains /\ t.manualCerts[d] = None
    BY <1>9 DEF Served
  <2>3. QED BY <1>5, <2>1, <2>2
<1>10. QED BY <1>7, <1>8, <1>9 DEF Served

\* A site that cannot be routed is passed over.
LEMMA SkipServes ==
    ASSUME NEW t, NEW S, NEW s, NEW R, ~Routable(s), Served(t, S, R)
    PROVE  Served(t, S \cup {s}, R)
BY DEF Served

-----------------------------------------------------------------------------
(***************************************************************************)
(* One goroutine at a time is under way.                                   *)
(***************************************************************************)
LEMMA Alone ==
    ASSUME OneAdmin, Turns, NEW p \in Procs, NEW q \in Procs,
           pc[p] # "idle", pc[q] # "idle"
    PROVE  p = q
BY DEF OneAdmin, Turns, Procs

\* A reload starts when nobody else is under way.
LEMMA StartReloadSync ==
    ASSUME TypeOK, SyncInv, NEW p \in Procs, NEW w, StartReload(p, w),
           \A q \in Procs : pc[q] = "idle", p \in Admins <=> up,
           RowsDistinct',
           up /\ w = "rollback" =>
              \E R : R = Undone(p)' /\ (Loadable(R) => InSync(live, sites', R))
    PROVE  SyncInv'
<1>1. /\ pc'[p] = "read" /\ onErr'[p] = w /\ up' = up /\ live' = live /\ engines' = engines
      /\ draft' = draft /\ todo' = todo /\ dirs' = dirs
      /\ \A q \in Procs : q # p => pc'[q] = "idle"
  BY DEF StartReload, Goto, TypeOK
<1>2. Turns'
  BY <1>1, ConstantsAssumption DEF Turns, Procs
<1>3. ReloadCurrent'
  BY <1>1 DEF ReloadCurrent, SyncInv
<1>4. UndoInSync'
  BY <1>1 DEF UndoInSync, InSync
<1>5. InSyncWhenQuiet'
  BY <1>1 DEF InSyncWhenQuiet, Quiet
<1>6. QED BY <1>2, <1>3, <1>4, <1>5 DEF SyncInv

\* A request is accepted when nobody is under way.
LEMMA AcceptsAlone ==
    ASSUME OneAdmin, Turns, NEW a \in Admins, Accepts(a)
    PROVE  up /\ a \in Procs /\ (\A q \in Procs : pc[q] = "idle") /\ (a \in Admins <=> up) /\ Quiet
BY DEF OneAdmin, Turns, Accepts, Procs, Quiet

LEMMA CreateSiteSync ==
    ASSUME OneAdmin, TypeOK, SyncInv, NEW a \in Admins, NEW b \in SiteBodies, CreateSite(a, b)
    PROVE  SyncInv'
<1>1. PICK s \in Validated(b) : StoreCreateSite(s)
  BY DEF CreateSite
<1>2. s.domain = b.domain /\ b.domain # None
  <2>1. b \in SiteBody
    BY ConstantsAssumption
  <2>2. QED BY <2>1 DEF Validated, WithDefaults, SiteBody
<1>3. siteSeq + 1 \in SiteIds
  BY <1>1, ConstantsAssumption DEF SiteIds, TypeOK
<1>4. /\ sites'[siteSeq + 1] = s
      /\ \A i \in SiteIds : i # siteSeq + 1 => sites'[i] = sites[i]
      /\ \A i \in SiteIds : i # siteSeq + 1 /\ sites[i] # None => sites[i].domain # s.domain
  BY <1>1, <1>3 DEF TypeOK, UniqueDomain
<1>5. RowsDistinct'
  BY <1>2, <1>4 DEF RowsDistinct, SyncInv
<1>6. Accepts(a) /\ StartReload(a, "report")
  BY DEF CreateSite
<1>7. QED BY <1>5, <1>6, AcceptsAlone, StartReloadSync DEF SyncInv

LEMMA UpdateSiteSync ==
    ASSUME OneAdmin, TypeOK, SyncInv, NEW a \in Admins, NEW i \in SiteIds, NEW b \in SiteBodies,
           UpdateSite(a, i, b)
    PROVE  SyncInv'
<1>1. PICK s \in Validated(b) : StoreUpdateSite(i, s)
  BY DEF UpdateSite
<1>2. s.domain = b.domain /\ b.domain # None
  <2>1. b \in SiteBody
    BY ConstantsAssumption
  <2>2. QED BY <2>1 DEF Validated, WithDefaults, SiteBody
<1>3. /\ sites[i] = None => sites'[i] = None
      /\ sites[i] # None => sites'[i] = s
      /\ \A j \in SiteIds : j # i => sites'[j] = sites[j]
      /\ sites[i] # None =>
            \A j \in SiteIds : j # i /\ sites[j] # None => sites[j].domain # s.domain
  BY <1>1 DEF TypeOK, UniqueDomain
<1>4. RowsDistinct'
  BY <1>2, <1>3 DEF RowsDistinct, SyncInv
<1>5. Accepts(a) /\ StartReload(a, "report")
  BY DEF UpdateSite
<1>6. QED BY <1>4, <1>5, AcceptsAlone, StartReloadSync DEF SyncInv

\* The rollback that createRule may come to would restore the rules that are live.
LEMMA CreateRuleSync ==
    ASSUME OneAdmin, TypeOK, OutcomeInv, SyncInv, NEW a \in Admins, NEW b \in RuleBodies,
           CreateRule(a, b)
    PROVE  SyncInv'
<1>1. Accepts(a) /\ StartReload(a, "rollback") /\ sites' = sites
  BY DEF CreateRule
<1>2. a \in Procs
  BY DEF Procs
<1>3. ruleSeq + 1 \in RuleIds /\ ruleSeq \in Nat
  BY ConstantsAssumption DEF CreateRule, RuleIds, TypeOK
<1>4. rules[ruleSeq + 1] = None
  BY <1>3 DEF OutcomeInv, IdsAssigned
<1>5. rules' = [rules EXCEPT ![ruleSeq + 1] = b] /\ rid'[a] = ruleSeq + 1
  BY <1>2 DEF CreateRule, TypeOK
<1>6. [rules' EXCEPT ![rid'[a]] = None] = rules
  BY <1>3, <1>4, <1>5 DEF TypeOK
<1>7. Undone(a)' = rules
  BY <1>6 DEF Undone
<1>8. Loadable(rules) => InSync(live, sites, rules)
  BY <1>1, AcceptsAlone DEF SyncInv, InSyncWhenQuiet
<1>9. RowsDistinct'
  BY <1>1 DEF SyncInv, RowsDistinct
<1>10. QED BY <1>1, <1>7, <1>8, <1>9, AcceptsAlone, StartReloadSync DEF SyncInv

LEMMA OtherRequestsSync ==
    ASSUME OneAdmin, TypeOK, SyncInv, NEW a \in Admins,
           \/ \E i \in SiteIds : DeleteSite(a, i)
           \/ \E i \in RuleIds, b \in RuleBodies : UpdateRule(a, i, b)
           \/ \E i \in RuleIds : DeleteRule(a, i)
    PROVE  SyncInv'
<1>1. Accepts(a) /\ StartReload(a, "report")
  BY DEF DeleteSite, UpdateRule, DeleteRule
<1>2. \A i \in SiteIds : sites'[i] = None \/ sites'[i] = sites[i]
  BY DEF DeleteSite, UpdateRule, DeleteRule, TypeOK
<1>3. RowsDistinct'
  BY <1>2 DEF RowsDistinct, SyncInv
<1>4. QED BY <1>1, <1>3, AcceptsAlone, StartReloadSync DEF SyncInv

LEMMA BootSync == ASSUME OneAdmin, TypeOK, SyncInv, Boot PROVE SyncInv'
<1>1. /\ Main \in Procs /\ StartReload(Main, "fatal") /\ ~up
      /\ \A q \in Procs : pc[q] = "idle"
  BY DEF Boot, Procs, SyncInv, Turns
<1>2. RowsDistinct'
  BY DEF Boot, store, SyncInv, RowsDistinct
<1>3. Main \in Admins <=> up
  BY <1>1, ConstantsAssumption
<1>4. QED BY <1>1, <1>2, <1>3, StartReloadSync

\* A crash leaves the tables, and nothing else.
LEMMA ExitSync == ASSUME SyncInv, Exit, UNCHANGED store PROVE SyncInv'
<1>1. Turns' /\ UndoInSync' /\ InSyncWhenQuiet'
  BY DEF Exit, Turns, UndoInSync, InSyncWhenQuiet, Quiet, Procs
<1>2. RowsDistinct'
  BY DEF store, SyncInv, RowsDistinct
<1>3. ReloadCurrent'
  BY DEF Exit, ReloadCurrent
<1>4. QED BY <1>1, <1>2, <1>3 DEF SyncInv

-----------------------------------------------------------------------------
(***************************************************************************)
(* The steps of a reload and of the rollback.                              *)
(***************************************************************************)
\* The goroutine goes on: what it has built must be current, the rest is as it was.
LEMMA GoOnSync ==
    ASSUME OneAdmin, TypeOK, SyncInv, NEW p \in Procs, pc[p] # "idle", NEW l, l # "idle",
           pc'[p] = l, \A q \in Procs : q # p => pc'[q] = pc[q] /\ draft'[q] = draft[q],
           UNCHANGED <<sites, rules, up, live, onErr, rid>>,
           l = "compile" => dirs'[p] = EnabledRuleDirectives(rules),
           l \in {"list", "route"} => engines' = EnginesFor(rules),
           l \in {"read", "compile", "list"} => draft'[p] = EmptyTable,
           l = "route" => /\ todo'[p] \subseteq ListSites(sites)
                          /\ Served(draft'[p], ListSites(sites) \ todo'[p], rules)
    PROVE  SyncInv'
<1>1. \A q \in Procs : q # p => pc[q] = "idle" /\ pc'[q] = "idle" /\ draft'[q] = EmptyTable
  BY Alone DEF SyncInv, ReloadCurrent
<1>2. Turns'
  BY <1>1 DEF SyncInv, Turns, Procs
<1>3. RowsDistinct'
  BY DEF SyncInv, RowsDistinct
<1>4. ReloadCurrent'
  <2>1. \A q \in Procs :
          /\ pc'[q] = "compile" => dirs'[q] = EnabledRuleDirectives(rules)
          /\ pc'[q] \in {"list", "route"} => engines' = EnginesFor(rules)
          /\ pc'[q] \in {"idle", "read", "compile", "list"} => draft'[q] = EmptyTable
          /\ pc'[q] = "route" =>
                /\ todo'[q] \subseteq ListSites(sites)
                /\ Served(draft'[q], ListSites(sites) \ todo'[q], rules)
    BY <1>1
  <2>2. QED BY <2>1 DEF ReloadCurrent
<1>5. UndoInSync'
  <2>1. ASSUME NEW q \in Procs, up, pc'[q] # "idle", onErr[q] = "rollback", Loadable(Undone(q))
        PROVE  InSync(live, sites, Undone(q))
    BY <1>1, <2>1 DEF SyncInv, UndoInSync
  <2>2. QED BY <2>1 DEF UndoInSync, Undone, Loadable
<1>6. InSyncWhenQuiet'
  BY DEF InSyncWhenQuiet, Quiet
<1>7. QED BY <1>2, <1>3, <1>4, <1>5, <1>6 DEF SyncInv

\* The goroutine ends and nobody is under way.
LEMMA ReturnSync ==
    ASSUME OneAdmin, TypeOK, SyncInv, NEW p \in Procs, pc[p] # "idle", Return(p),
           sites' = sites, InSyncWhenQuiet'
    PROVE  SyncInv'
<1>1. \A q \in Procs : pc'[q] = "idle" /\ draft'[q] = EmptyTable
  BY Alone DEF SyncInv, ReloadCurrent, Return, Goto, TypeOK
<1>2. Turns' /\ UndoInSync' /\ ReloadCurrent'
  BY <1>1 DEF Turns, UndoInSync, ReloadCurrent, Procs
<1>3. RowsDistinct'
  BY DEF SyncInv, RowsDistinct
<1>4. QED BY <1>2, <1>3 DEF SyncInv

LEMMA ReadDirectivesSync ==
    ASSUME OneAdmin, TypeOK, SyncInv, NEW p \in Procs, ReadDirectives(p)
    PROVE  SyncInv'
<1>1. /\ pc[p] = "read" /\ pc'[p] = "compile" /\ draft' = draft
      /\ \A q \in Procs : q # p => pc'[q] = pc[q] /\ draft'[q] = draft[q]
      /\ UNCHANGED <<sites, rules, up, live, onErr, rid>>
      /\ dirs'[p] = EnabledRuleDirectives(rules)
  BY DEF ReadDirectives, Goto, TypeOK, store
<1>2. draft'[p] = EmptyTable
  BY <1>1 DEF SyncInv, ReloadCurrent
<1>3. QED BY <1>1, <1>2, GoOnSync

LEMMA SwapEnginesSync ==
    ASSUME OneAdmin, TypeOK, SyncInv, NEW p \in Procs, SwapEngines(p)
    PROVE  SyncInv'
<1>1. /\ pc[p] = "compile" /\ pc'[p] = "list" /\ draft' = draft
      /\ \A q \in Procs : q # p => pc'[q] = pc[q] /\ draft'[q] = draft[q]
      /\ UNCHANGED <<sites, rules, up, live, onErr, rid>>
      /\ engines' = [m \in InspectModes |-> [mode |-> m, directives |-> dirs[p]]]
  BY DEF SwapEngines, Goto, TypeOK, store, locals
<1>2. draft'[p] = EmptyTable /\ dirs[p] = EnabledRuleDirectives(rules)
  BY <1>1 DEF SyncInv, ReloadCurrent
<1>3. engines' = EnginesFor(rules)
  BY <1>1, <1>2 DEF EnginesFor
<1>4. QED BY <1>1, <1>2, <1>3, GoOnSync

LEMMA ReadSitesSync ==
    ASSUME OneAdmin, TypeOK, SyncInv, NEW p \in Procs, ReadSites(p)
    PROVE  SyncInv'
<1>1. /\ pc[p] = "list" /\ pc'[p] = "route" /\ draft' = draft /\ engines' = engines
      /\ \A q \in Procs : q # p => pc'[q] = pc[q] /\ draft'[q] = draft[q]
      /\ UNCHANGED <<sites, rules, up, live, onErr, rid>>
      /\ todo'[p] = ListSites(sites)
  BY DEF ReadSites, Goto, TypeOK, store
<1>2. draft'[p] = EmptyTable /\ engines' = EnginesFor(rules)
  BY <1>1 DEF SyncInv, ReloadCurrent
<1>3. ListSites(sites) \ todo'[p] = {}
  BY <1>1
<1>4. Served(draft'[p], ListSites(sites) \ todo'[p], rules)
  BY <1>2, <1>3, EmptyServes
<1>5. QED BY <1>1, <1>2, <1>4, GoOnSync

LEMMA RouteSiteSync ==
    ASSUME OneAdmin, OneSpelling, TypeOK, SyncInv, NEW p \in Procs, RouteSite(p)
    PROVE  SyncInv'
<1>1. PICK s \in todo[p] :
          /\ todo' = [todo EXCEPT ![p] = @ \ {s}]
          /\ draft' = [draft EXCEPT ![p] = IF Routable(s) THEN AddRoute(@, s) ELSE @]
  BY DEF RouteSite
<1>2. /\ pc[p] = "route" /\ pc' = pc /\ engines' = engines
      /\ UNCHANGED <<sites, rules, up, live, onErr, rid>>
  BY DEF RouteSite, store
<1>3. /\ todo'[p] = todo[p] \ {s}
      /\ draft'[p] = IF Routable(s) THEN AddRoute(draft[p], s) ELSE draft[p]
      /\ \A q \in Procs : q # p => draft'[q] = draft[q]
      /\ draft[p] \in Table /\ todo[p] \subseteq Site /\ s \in Site
  BY <1>1 DEF TypeOK
<1>4. /\ engines = EnginesFor(rules) /\ todo[p] \subseteq ListSites(sites)
      /\ Served(draft[p], ListSites(sites) \ todo[p], rules)
  BY <1>2 DEF SyncInv, ReloadCurrent
<1> DEFINE S == ListSites(sites) \ todo[p]
<1>5. ListSites(sites) \ todo'[p] = S \cup {s}
  BY <1>3, <1>4
<1>6. S \in SUBSET Site
  BY ListSitesTyped DEF TypeOK
<1>7. \A x \in S : Lower[x.domain] # Lower[s.domain]
  <2>1. ASSUME NEW x \in S, Lower[x.domain] = Lower[s.domain] PROVE FALSE
    <3>1. x \in ListSites(sites) /\ s \in ListSites(sites) /\ x # s
      BY <1>4
    <3>2. QED BY <2>1, <3>1, HostsDistinct DEF SyncInv
  <2>2. QED BY <2>1
<1>8. Served(draft'[p], S \cup {s}, rules)
  <2>1. CASE Routable(s)
    BY <1>3, <1>4, <1>6, <1>7, <2>1, AddRouteServes
  <2>2. CASE ~Routable(s)
    BY <1>3, <1>4, <2>2, SkipServes
  <2>3. QED BY <2>1, <2>2
<1>9. Served(draft'[p], ListSites(sites) \ todo'[p], rules) /\ todo'[p] \subseteq ListSites(sites)
  BY <1>3, <1>4, <1>5, <1>8
<1>10. QED BY <1>2, <1>3, <1>4, <1>9, GoOnSync

LEMMA SwapTableSync ==
    ASSUME OneAdmin, TypeOK, SyncInv, NEW p \in Procs, SwapTable(p)
    PROVE  SyncInv'
<1>1. /\ pc[p] = "route" /\ todo[p] = {} /\ live' = draft[p] /\ Return(p)
      /\ sites' = sites /\ rules' = rules
  BY DEF SwapTable, store
<1>2. Served(draft[p], ListSites(sites) \ todo[p], rules)
  BY <1>1 DEF SyncInv, ReloadCurrent
<1>3. ListSites(sites) \ todo[p] = ListSites(sites)
  BY <1>1
<1>4. InSync(draft[p], sites, rules)
  BY <1>2, <1>3, ServedInSync
<1>5. InSyncWhenQuiet'
  BY <1>1, <1>4 DEF InSyncWhenQuiet, InSync
<1>6. QED BY <1>1, <1>5, ReturnSync

\* A reload that fails read rules that do not compile, and they are still there.
LEMMA ReloadFailsSync ==
    ASSUME OneAdmin, ~StoreFaults, TypeOK, SyncInv, NEW p \in Procs, ReloadFails(p)
    PROVE  SyncInv'
<1>1. /\ pc[p] = "compile" /\ \E m \in InspectModes : ~Compiles(dirs[p], m)
      /\ UNCHANGED <<sites, rules, siteSeq, ruleSeq>>
  BY DEF ReloadFails, store
<1>2. ~Loadable(rules)
  BY <1>1 DEF SyncInv, ReloadCurrent, Loadable
<1>3. CASE onErr[p] = "rollback" /\ Goto(p, "rollback") /\ UNCHANGED <<up, engines, live, locals>>
  <2>1. /\ pc'[p] = "rollback" /\ draft' = draft
        /\ \A q \in Procs : q # p => pc'[q] = pc[q] /\ draft'[q] = draft[q]
        /\ UNCHANGED <<sites, rules, up, live, onErr, rid>>
    BY <1>1, <1>3 DEF Goto, TypeOK, locals
  <2>2. QED BY <1>1, <2>1, GoOnSync
<1>4. CASE Return(p) /\ UNCHANGED <<up, engines, live>>
  <2>1. InSyncWhenQuiet'
    BY <1>1, <1>2 DEF InSyncWhenQuiet, Loadable
  <2>2. QED BY <1>1, <1>4, <2>1, ReturnSync
<1>5. CASE Exit
  BY <1>1, <1>5, ExitSync DEF store
<1>6. QED BY <1>3, <1>4, <1>5 DEF ReloadFails

LEMMA RollbackSync ==
    ASSUME OneAdmin, ~StoreFaults, TypeOK, RollbackOwned, SyncInv, NEW p \in Procs, Rollback(p)
    PROVE  SyncInv'
<1>1. /\ pc[p] = "rollback" /\ onErr[p] = "rollback" /\ Return(p)
      /\ sites' = sites /\ up' = up /\ live' = live /\ rules' = [rules EXCEPT ![rid[p]] = None]
  BY DEF Rollback, RollbackOwned
<1>2. rules' = Undone(p)
  BY <1>1 DEF Undone
<1>3. up /\ Loadable(rules') => InSync(live, sites, rules')
  BY <1>1, <1>2 DEF SyncInv, UndoInSync
<1>4. InSyncWhenQuiet'
  BY <1>1, <1>3 DEF InSyncWhenQuiet, Quiet, Loadable, InSync
<1>5. QED BY <1>1, <1>4, ReturnSync
-----------------------------------------------------------------------------
\* The invariant holds at first, and every step keeps it.
LEMMA InitSync == Init => SyncInv
<1> SUFFICES ASSUME Init PROVE SyncInv
  OBVIOUS
<1>1. ~up /\ \A p \in Procs : pc[p] = "idle" /\ draft[p] = EmptyTable
  BY DEF Init
<1>2. Turns /\ ReloadCurrent /\ UndoInSync /\ InSyncWhenQuiet
  BY <1>1 DEF Turns, ReloadCurrent, UndoInSync, InSyncWhenQuiet, Quiet, Procs
<1>3. RowsDistinct
  BY DEF Init, RowsDistinct
<1>4. QED BY <1>2, <1>3 DEF SyncInv

LEMMA NextSync ==
    ASSUME OneAdmin, OneSpelling, ~StoreFaults,
           TypeOK, RollbackOwned, OutcomeInv, SyncInv, [Next]_vars
    PROVE  SyncInv'
<1>1. ASSUME NEW a \in Admins, Request(a) PROVE SyncInv'
  BY <1>1, CreateSiteSync, UpdateSiteSync, CreateRuleSync, OtherRequestsSync DEF Request
<1>2. ASSUME NEW p \in Procs, Step(p) PROVE SyncInv'
  BY <1>2, ReadDirectivesSync, SwapEnginesSync, ReadSitesSync, RouteSiteSync, SwapTableSync,
     ReloadFailsSync, RollbackSync DEF Step
<1>3. CASE Boot
  BY <1>3, BootSync
<1>4. CASE Crash
  BY <1>4, ExitSync DEF Crash
<1>5. CASE UNCHANGED vars
  BY <1>5 DEF vars, store, locals, SyncInv, Turns, RowsDistinct, ReloadCurrent, UndoInSync,
              Undone, InSyncWhenQuiet, Quiet, Loadable
<1>6. QED BY <1>1, <1>2, <1>3, <1>4, <1>5 DEF Next

(***************************************************************************)
(* Where requests come one at a time, spell a host in one way, and no      *)
(* statement fails, every change takes effect: between requests, and after *)
(* any crash and restart, the routing table is the one the store           *)
(* describes, provided the stored rules compile (reload, createRule's      *)
(* rollback).                                                              *)
(***************************************************************************)
THEOREM ChangesTakeEffect ==
    OneAdmin /\ OneSpelling /\ ~StoreFaults => (Spec => []InSyncWhenQuiet)
<1> SUFFICES ASSUME OneAdmin, OneSpelling, ~StoreFaults PROVE Spec => []InSyncWhenQuiet
  OBVIOUS
<1>1. TypeOK /\ RollbackOwned /\ OutcomeInv /\ SyncInv /\ [Next]_vars => SyncInv'
  BY NextSync
<1>2. SyncInv => InSyncWhenQuiet
  BY DEF SyncInv
<1>3. QED BY <1>1, <1>2, InitSync, TypeCorrect, OutcomeInvariant, PTL DEF Spec
=============================================================================
