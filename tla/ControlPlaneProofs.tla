------------------------- MODULE ControlPlaneProofs -------------------------
(***************************************************************************)
(* Theorems about ControlPlane, for every number of admins, every set of   *)
(* domains, directives and bodies, and every behaviour of the compiler.    *)
(***************************************************************************)
EXTENDS ControlPlane, TLAPS

USE DEF StoreCreateSite, StoreUpdateSite, StoreDeleteSite,
        StoreCreateRule, StoreUpdateRule, StoreDeleteRule

(***************************************************************************)
(* Type correctness.                                                       *)
(***************************************************************************)
\* The part of TypeOK about a goroutine's own state.
LocalsOK ==
    /\ pc \in [Procs -> Labels]
    /\ onErr \in [Procs -> {"fatal", "rollback", "report"}]
    /\ rid \in [Procs -> RuleIds \cup {None}]
    /\ dirs \in [Procs -> DirectiveList]
    /\ todo \in [Procs -> SUBSET Site]
    /\ draft \in [Procs -> Table]

LEMMA DefaultsTyped ==
    /\ EmptyTable \in Table
    /\ NoDirectives \in DirectiveList
    /\ NoEngines \in [InspectModes -> WAF \cup {None}]
BY DEF EmptyTable, Table, NoDirectives, DirectiveList, NoEngines

\* A body that validateSite lets through is a row.
LEMMA ValidatedTyped ==
    ASSUME NEW b \in SiteBodies, NEW s \in Validated(b)
    PROVE  s \in Site
<1>1. b \in SiteBody
  BY ConstantsAssumption
<1>2. s = WithDefaults(b)
  BY DEF Validated
<1>3. s = [domain |-> b.domain, upstream |-> b.upstream,
           waf |-> IF b.waf = None THEN "on" ELSE b.waf,
           tls |-> IF b.tls = None THEN "auto" ELSE b.tls,
           cert |-> b.cert, enabled |-> b.enabled]
  BY <1>1, <1>2 DEF WithDefaults, SiteBody
<1>4. /\ s.domain # None
      /\ s.upstream # None
      /\ s.waf \in WAFModes
      /\ s.tls \in TLSModes
  BY DEF Validated
<1> QED
  BY <1>1, <1>3, <1>4 DEF SiteBody, Site

LEMMA AddRouteTyped ==
    ASSUME NEW t \in Table, NEW s \in Site,
           engines \in [InspectModes -> WAF \cup {None}]
    PROVE  AddRoute(t, s) \in Table
<1>1. Lower[s.domain] \in Domains
  BY ConstantsAssumption DEF Site
<1>2. Engine(s.waf) \in WAF \cup {None}
  BY DEF Engine
<1>3. [site |-> s, engine |-> Engine(s.waf)] \in Handler
  BY <1>2 DEF Handler
<1> QED
  BY <1>1, <1>3, ConstantsAssumption DEF AddRoute, Table

LEMMA ReturnTyped ==
    ASSUME LocalsOK, NEW p \in Procs, Return(p)
    PROVE  LocalsOK'
BY DefaultsTyped DEF LocalsOK, Return, Goto, Labels

LEMMA ExitTyped ==
    ASSUME Exit
    PROVE  /\ LocalsOK'
           /\ up' \in BOOLEAN
           /\ engines' \in [InspectModes -> WAF \cup {None}]
           /\ live' \in Table
BY DefaultsTyped DEF LocalsOK, Exit, Labels

LEMMA StartReloadTyped ==
    ASSUME TypeOK, NEW p \in Procs,
           NEW w \in {"fatal", "rollback", "report"}, StartReload(p, w),
           rid' \in [Procs -> RuleIds \cup {None}]
    PROVE  /\ LocalsOK'
           /\ up' \in BOOLEAN
           /\ engines' \in [InspectModes -> WAF \cup {None}]
           /\ live' \in Table
BY DEF TypeOK, LocalsOK, StartReload, Goto, Labels

LEMMA ListSitesTyped ==
    ASSUME NEW tbl \in [SiteIds -> Site \cup {None}]
    PROVE  ListSites(tbl) \subseteq Site
BY DEF ListSites

LEMMA DirectivesTyped ==
    ASSUME NEW tbl \in [RuleIds -> Rule \cup {None}]
    PROVE  EnabledRuleDirectives(tbl) \in DirectiveList
BY DEF EnabledRuleDirectives, DirectiveList, Rule

LEMMA RequestTyped ==
    ASSUME TypeOK, NEW a \in Admins, Request(a)
    PROVE  TypeOK'
<1> USE DEF SiteIds, RuleIds
<1>0. a \in Procs
  BY DEF Procs
<1>1. ASSUME NEW b \in SiteBodies, CreateSite(a, b)
      PROVE  TypeOK'
  <2>1. sites' \in [SiteIds -> Site \cup {None}] /\ siteSeq' \in 0..MaxSites
    BY <1>1, ValidatedTyped, ConstantsAssumption DEF CreateSite, TypeOK
  <2> QED
    BY <1>0, <1>1, <2>1, StartReloadTyped
    DEF CreateSite, TypeOK, LocalsOK, history
<1>2. ASSUME NEW i \in SiteIds, NEW b \in SiteBodies, UpdateSite(a, i, b)
      PROVE  TypeOK'
  <2>1. sites' \in [SiteIds -> Site \cup {None}]
    BY <1>2, ValidatedTyped DEF UpdateSite, TypeOK
  <2> QED
    BY <1>0, <1>2, <2>1, StartReloadTyped
    DEF UpdateSite, TypeOK, LocalsOK, history
<1>3. ASSUME NEW i \in SiteIds, DeleteSite(a, i)
      PROVE  TypeOK'
  BY <1>0, <1>3, StartReloadTyped DEF DeleteSite, TypeOK, LocalsOK, history
<1>4. ASSUME NEW b \in RuleBodies, CreateRule(a, b)
      PROVE  TypeOK'
  <2>1. b \in Rule
    BY <1>4, ConstantsAssumption DEF CreateRule, RuleBody, Rule
  <2>2. ruleSeq + 1 \in RuleIds /\ ruleSeq' \in 0..MaxRules
    BY <1>4, ConstantsAssumption DEF CreateRule, TypeOK
  <2>3. /\ rules' \in [RuleIds -> Rule \cup {None}]
        /\ rid' \in [Procs -> RuleIds \cup {None}]
    BY <1>4, <2>1, <2>2 DEF CreateRule, TypeOK
  <2> QED
    BY <1>0, <1>4, <2>2, <2>3, StartReloadTyped
    DEF CreateRule, TypeOK, LocalsOK, history
<1>5. ASSUME NEW i \in RuleIds, NEW b \in RuleBodies, UpdateRule(a, i, b)
      PROVE  TypeOK'
  <2>1. b \in Rule
    BY <1>5, ConstantsAssumption DEF UpdateRule, RuleBody, Rule
  <2>2. rules' \in [RuleIds -> Rule \cup {None}]
    BY <1>5, <2>1 DEF UpdateRule, TypeOK
  <2> QED
    BY <1>0, <1>5, <2>2, StartReloadTyped DEF UpdateRule, TypeOK, LocalsOK, history
<1>6. ASSUME NEW i \in RuleIds, DeleteRule(a, i)
      PROVE  TypeOK'
  <2>1. rules' \in [RuleIds -> Rule \cup {None}] /\ removed' \in SUBSET RuleIds
    BY <1>6 DEF DeleteRule, TypeOK
  <2> QED
    BY <1>0, <1>6, <2>1, StartReloadTyped DEF DeleteRule, TypeOK, LocalsOK, history
<1> QED
  BY <1>1, <1>2, <1>3, <1>4, <1>5, <1>6 DEF Request

(***************************************************************************)
(* TypeOK alone is not inductive: that a confirmed or rejected id is an id *)
(* rests on createRule, and only createRule, having inserted a row before  *)
(* its reload.                                                             *)
(***************************************************************************)
RollbackOwned ==
    \A p \in Procs : /\ onErr[p] = "rollback" => rid[p] \in RuleIds
                     /\ pc[p] = "rollback" => onErr[p] = "rollback"

LEMMA RequestOwned ==
    ASSUME TypeOK, RollbackOwned, NEW a \in Admins, Request(a)
    PROVE  RollbackOwned'
<1> USE DEF RollbackOwned, StartReload, Goto, TypeOK, Procs
<1>1. ASSUME NEW b \in RuleBodies, CreateRule(a, b)
      PROVE  RollbackOwned'
  <2>1. ruleSeq + 1 \in RuleIds
    BY <1>1, ConstantsAssumption DEF CreateRule, RuleIds
  <2> QED
    BY <1>1, <2>1 DEF CreateRule
<1>2. CASE \/ \E b \in SiteBodies : CreateSite(a, b)
           \/ \E i \in SiteIds, b \in SiteBodies : UpdateSite(a, i, b)
           \/ \E i \in SiteIds : DeleteSite(a, i)
  BY <1>2 DEF CreateSite, UpdateSite, DeleteSite
<1>3. CASE \/ \E i \in RuleIds, b \in RuleBodies : UpdateRule(a, i, b)
           \/ \E i \in RuleIds : DeleteRule(a, i)
  BY <1>3 DEF UpdateRule, DeleteRule
<1> QED
  BY <1>1, <1>2, <1>3 DEF Request

LEMMA StepTyped ==
    ASSUME TypeOK, RollbackOwned, NEW p \in Procs, Step(p)
    PROVE  TypeOK' /\ RollbackOwned'
<1>0. LocalsOK
  BY DEF TypeOK, LocalsOK
<1>1. CASE ReadDirectives(p)
  BY <1>1, DirectivesTyped
  DEF ReadDirectives, TypeOK, RollbackOwned, Goto, Labels, store, history
<1>2. CASE SwapEngines(p)
  BY <1>2
  DEF SwapEngines, TypeOK, RollbackOwned, Goto, Labels, WAF, store, locals, history
<1>3. CASE ReadSites(p)
  BY <1>3, ListSitesTyped
  DEF ReadSites, TypeOK, RollbackOwned, Goto, Labels, store, history
<1>4. CASE RouteSite(p)
  <2>1. PICK s \in todo[p] :
           /\ todo' = [todo EXCEPT ![p] = @ \ {s}]
           /\ draft' = [draft EXCEPT ![p] = IF Routable(s) THEN AddRoute(@, s) ELSE @]
    BY <1>4 DEF RouteSite
  <2>2. s \in Site /\ draft[p] \in Table
    BY DEF TypeOK
  <2>3. AddRoute(draft[p], s) \in Table
    BY <2>2, AddRouteTyped DEF TypeOK
  <2>4. todo' \in [Procs -> SUBSET Site] /\ draft' \in [Procs -> Table]
    BY <2>1, <2>2, <2>3 DEF TypeOK
  <2> QED
    BY <1>4, <2>4 DEF RouteSite, TypeOK, RollbackOwned, store, history
<1>5. CASE SwapTable(p)
  <2>1. LocalsOK'
    BY <1>0, <1>5, ReturnTyped DEF SwapTable
  <2>2. acked' \in SUBSET RuleIds
    BY <1>5 DEF SwapTable, TypeOK, RollbackOwned
  <2>3. RollbackOwned'
    BY <1>5 DEF SwapTable, TypeOK, RollbackOwned, Return, Goto
  <2> QED
    BY <1>5, <2>1, <2>2, <2>3 DEF SwapTable, TypeOK, LocalsOK, store
<1>6. CASE ReloadFails(p)
  <2>1. CASE onErr[p] = "rollback" /\ Goto(p, "rollback")
             /\ UNCHANGED <<up, engines, live, locals>>
    BY <1>6, <2>1
    DEF ReloadFails, TypeOK, RollbackOwned, Goto, Labels, store, locals, history
  <2>2. CASE Return(p) /\ UNCHANGED <<up, engines, live>>
    <3>1. LocalsOK'
      BY <1>0, <2>2, ReturnTyped
    <3>2. RollbackOwned'
      BY <2>2 DEF TypeOK, RollbackOwned, Return, Goto
    <3> QED
      BY <1>6, <2>2, <3>1, <3>2 DEF ReloadFails, TypeOK, LocalsOK, store, history
  <2>3. CASE Exit
    <3>1. RollbackOwned'
      BY <2>3 DEF RollbackOwned, Exit
    <3> QED
      BY <1>6, <2>3, <3>1, ExitTyped DEF ReloadFails, TypeOK, LocalsOK, store, history
  <2> QED
    BY <1>6, <2>1, <2>2, <2>3 DEF ReloadFails
<1>7. CASE Rollback(p)
  <2>1. LocalsOK'
    BY <1>0, <1>7, ReturnTyped DEF Rollback
  <2>2. rid[p] \in RuleIds
    BY <1>7 DEF Rollback, RollbackOwned
  <2>3. rules' \in [RuleIds -> Rule \cup {None}] /\ rejected' \in SUBSET RuleIds
    BY <1>7, <2>2 DEF Rollback, TypeOK
  <2>4. RollbackOwned'
    BY <1>7 DEF Rollback, TypeOK, RollbackOwned, Return, Goto
  <2> QED
    BY <1>7, <2>1, <2>3, <2>4 DEF Rollback, TypeOK, LocalsOK
<1> QED
  BY <1>1, <1>2, <1>3, <1>4, <1>5, <1>6, <1>7 DEF Step

LEMMA BootTyped ==
    ASSUME TypeOK, RollbackOwned, Boot
    PROVE  TypeOK' /\ RollbackOwned'
<1>1. Main \in Procs
  BY DEF Procs
<1>2. RollbackOwned'
  BY <1>1 DEF Boot, StartReload, Goto, TypeOK, RollbackOwned
<1> QED
  BY <1>1, <1>2, StartReloadTyped DEF Boot, TypeOK, LocalsOK, store, history

LEMMA CrashTyped ==
    ASSUME TypeOK, Crash
    PROVE  TypeOK' /\ RollbackOwned'
<1>1. RollbackOwned'
  BY DEF Crash, Exit, RollbackOwned
<1> QED
  BY <1>1, ExitTyped DEF Crash, TypeOK, LocalsOK, store, history

(***************************************************************************)
(* Every state the portal reaches has the types the model declares, in     *)
(* particular every id it confirms or rejects is one it assigned.          *)
(***************************************************************************)
THEOREM TypeCorrect == Spec => [](TypeOK /\ RollbackOwned)
<1>1. Init => TypeOK /\ RollbackOwned
  <2> SUFFICES ASSUME Init PROVE TypeOK /\ RollbackOwned
    OBVIOUS
  <2>1. siteSeq \in 0..MaxSites /\ ruleSeq \in 0..MaxRules
    BY ConstantsAssumption DEF Init
  <2>2. TypeOK
    BY <2>1, DefaultsTyped DEF Init, TypeOK, Labels
  <2>3. RollbackOwned
    BY DEF Init, RollbackOwned
  <2> QED
    BY <2>2, <2>3
<1>2. TypeOK /\ RollbackOwned /\ [Next]_vars => TypeOK' /\ RollbackOwned'
  <2> SUFFICES ASSUME TypeOK, RollbackOwned, [Next]_vars
               PROVE  TypeOK' /\ RollbackOwned'
    OBVIOUS
  <2>1. CASE \E a \in Admins : Request(a)
    BY <2>1, RequestTyped, RequestOwned
  <2>2. CASE \E p \in Procs : Step(p)
    BY <2>2, StepTyped
  <2>3. CASE Boot
    BY <2>3, BootTyped
  <2>4. CASE Crash
    BY <2>4, CrashTyped
  <2>5. CASE UNCHANGED vars
    BY <2>5 DEF vars, store, locals, history, TypeOK, RollbackOwned
  <2> QED
    BY <2>1, <2>2, <2>3, <2>4, <2>5 DEF Next
<1> QED
  BY <1>1, <1>2, PTL DEF Spec

(***************************************************************************)
(* No inspected site bypasses the WAF.  The live table is a draft some     *)
(* reload built, so every draft is guarded as well; a draft takes its      *)
(* engines from the manager, so no mode may lack one from the moment a     *)
(* reload has passed its own swap until the table is installed, even when  *)
(* other reloads swap in between.                                          *)
(***************************************************************************)
EnginesSound ==
    \A m \in InspectModes : engines[m] # None =>
        /\ engines[m].mode = m
        /\ \A n \in InspectModes : Compiles(engines[m].directives, n)

EnginesReady ==
    \A p \in Procs : pc[p] \in {"list", "route"} =>
        \A m \in InspectModes : engines[m] # None

DraftsGuarded ==
    \A p \in Procs : \A d \in Domains :
        draft[p].handlers[d] # None => GuardedBy(draft[p].handlers[d])

GuardInv == EnginesSound /\ EnginesReady /\ DraftsGuarded /\ InspectedSitesGuarded

LEMMA AddRouteGuarded ==
    ASSUME EnginesSound, NEW t \in Table, NEW s \in Site,
           \A m \in InspectModes : engines[m] # None,
           \A d \in Domains : t.handlers[d] # None => GuardedBy(t.handlers[d])
    PROVE  \A d \in Domains : AddRoute(t, s).handlers[d] # None
                                 => GuardedBy(AddRoute(t, s).handlers[d])
<1> DEFINE host == Lower[s.domain]
           h == [site |-> s, engine |-> Engine(s.waf)]
<1>1. host \in Domains
  BY ConstantsAssumption DEF Site
<1>2. GuardedBy(h)
  BY DEF GuardedBy, Engine, EnginesSound, InspectModes, Site
<1>3. AddRoute(t, s).handlers = [t.handlers EXCEPT ![host] = h]
  BY DEF AddRoute
<1>4. t.handlers \in [Domains -> Handler \cup {None}]
  BY DEF Table
<1> HIDE DEF h, host
<1> QED
  BY <1>1, <1>2, <1>3, <1>4

LEMMA EmptyTableGuarded ==
    \A d \in Domains : EmptyTable.handlers[d] = None
BY DEF EmptyTable

LEMMA ReturnGuarded ==
    ASSUME TypeOK, DraftsGuarded, NEW p \in Procs, Return(p)
    PROVE  DraftsGuarded'
BY EmptyTableGuarded DEF TypeOK, DraftsGuarded, Return, GuardedBy

LEMMA ExitGuarded ==
    ASSUME Exit
    PROVE  GuardInv'
<1>1. EnginesSound' /\ EnginesReady'
  BY DEF Exit, EnginesSound, EnginesReady, NoEngines
<1>2. DraftsGuarded' /\ InspectedSitesGuarded'
  BY EmptyTableGuarded DEF Exit, DraftsGuarded, InspectedSitesGuarded, GuardedBy
<1> QED
  BY <1>1, <1>2 DEF GuardInv

LEMMA StartReloadGuarded ==
    ASSUME TypeOK, GuardInv, NEW p \in Procs, NEW w, StartReload(p, w)
    PROVE  GuardInv'
BY DEF TypeOK, GuardInv, EnginesSound, EnginesReady, DraftsGuarded,
       InspectedSitesGuarded, GuardedBy, StartReload, Goto

LEMMA StepGuarded ==
    ASSUME TypeOK, GuardInv, NEW p \in Procs, Step(p)
    PROVE  GuardInv'
<1> USE DEF GuardInv
<1>1. CASE ReadDirectives(p)
  BY <1>1 DEF ReadDirectives, TypeOK, Goto, EnginesSound, EnginesReady,
              DraftsGuarded, InspectedSitesGuarded, GuardedBy
<1>2. CASE SwapEngines(p)
  <2>1. EnginesSound'
    BY <1>2 DEF SwapEngines, EnginesSound
  <2>2. \A m \in InspectModes : engines'[m] # None
    <3>1. dirs[p] \in DirectiveList
      BY DEF TypeOK
    <3>2. \A m \in InspectModes : engines'[m] \in WAF
      BY <1>2, <3>1 DEF SwapEngines, WAF
    <3> QED
      BY <3>2, NoneNotBuilt
  <2>3. EnginesReady'
    BY <2>2 DEF EnginesReady
  <2>4. DraftsGuarded' /\ InspectedSitesGuarded'
    BY <1>2 DEF SwapEngines, locals, DraftsGuarded, InspectedSitesGuarded, GuardedBy
  <2> QED
    BY <2>1, <2>3, <2>4
<1>3. CASE ReadSites(p)
  BY <1>3 DEF ReadSites, TypeOK, Goto, EnginesSound, EnginesReady,
              DraftsGuarded, InspectedSitesGuarded, GuardedBy
<1>4. CASE RouteSite(p)
  <2>1. PICK s \in todo[p] :
           draft' = [draft EXCEPT ![p] = IF Routable(s) THEN AddRoute(@, s) ELSE @]
    BY <1>4 DEF RouteSite
  <2>2. s \in Site /\ draft[p] \in Table
    BY DEF TypeOK
  <2>3. \A m \in InspectModes : engines[m] # None
    BY <1>4 DEF RouteSite, EnginesReady
  <2>4. \A d \in Domains : AddRoute(draft[p], s).handlers[d] # None
                             => GuardedBy(AddRoute(draft[p], s).handlers[d])
    BY <2>2, <2>3, AddRouteGuarded DEF DraftsGuarded
  <2>5. \A q \in Procs : draft'[q] = draft[q] \/ (q = p /\ draft'[q] = AddRoute(draft[p], s))
    BY <2>1 DEF TypeOK
  <2>6. DraftsGuarded'
    BY <2>4, <2>5 DEF DraftsGuarded, GuardedBy
  <2> QED
    BY <1>4, <2>6 DEF RouteSite, EnginesSound, EnginesReady, InspectedSitesGuarded, GuardedBy
<1>5. CASE SwapTable(p)
  <2>1. DraftsGuarded'
    BY <1>5, ReturnGuarded DEF SwapTable
  <2>2. InspectedSitesGuarded'
    BY <1>5 DEF SwapTable, DraftsGuarded, InspectedSitesGuarded, GuardedBy
  <2>3. EnginesSound' /\ EnginesReady'
    BY <1>5 DEF SwapTable, Return, Goto, TypeOK, EnginesSound, EnginesReady
  <2> QED
    BY <2>1, <2>2, <2>3
<1>6. CASE ReloadFails(p)
  <2>1. CASE Goto(p, "rollback") /\ UNCHANGED <<up, engines, live, locals>>
    BY <2>1 DEF Goto, locals, TypeOK, EnginesSound, EnginesReady,
                DraftsGuarded, InspectedSitesGuarded, GuardedBy
  <2>2. CASE Return(p) /\ UNCHANGED <<up, engines, live>>
    <3>1. DraftsGuarded'
      BY <2>2, ReturnGuarded
    <3> QED
      BY <2>2, <3>1 DEF Return, Goto, TypeOK, EnginesSound, EnginesReady,
                        InspectedSitesGuarded, GuardedBy
  <2>3. CASE Exit
    BY <2>3, ExitGuarded
  <2> QED
    BY <1>6, <2>1, <2>2, <2>3 DEF ReloadFails
<1>7. CASE Rollback(p)
  <2>1. DraftsGuarded'
    BY <1>7, ReturnGuarded DEF Rollback
  <2> QED
    BY <1>7, <2>1 DEF Rollback, Return, Goto, TypeOK, EnginesSound, EnginesReady,
                      InspectedSitesGuarded, GuardedBy
<1> QED
  BY <1>1, <1>2, <1>3, <1>4, <1>5, <1>6, <1>7 DEF Step

(***************************************************************************)
(* However reloads overlap, fail or are cut short by a crash, and whatever *)
(* the store statements do, a site in mode "on" or "detection" is only     *)
(* ever served behind an engine of that mode that compiled.                *)
(***************************************************************************)
THEOREM NeverUnguarded == Spec => []InspectedSitesGuarded
<1>1. Init => GuardInv
  <2> SUFFICES ASSUME Init PROVE GuardInv
    OBVIOUS
  <2>1. EnginesSound /\ EnginesReady
    BY DEF Init, EnginesSound, EnginesReady, NoEngines
  <2>2. DraftsGuarded /\ InspectedSitesGuarded
    BY EmptyTableGuarded DEF Init, DraftsGuarded, InspectedSitesGuarded
  <2> QED
    BY <2>1, <2>2 DEF GuardInv
<1>2. TypeOK /\ GuardInv /\ [Next]_vars => GuardInv'
  <2> SUFFICES ASSUME TypeOK, GuardInv, [Next]_vars
               PROVE  GuardInv'
    OBVIOUS
  <2>1. ASSUME NEW a \in Admins, Request(a) PROVE GuardInv'
    <3>1. a \in Procs /\ \E w \in {"report", "rollback"} : StartReload(a, w)
      BY <2>1 DEF Procs, Request, CreateSite, UpdateSite, DeleteSite,
                  CreateRule, UpdateRule, DeleteRule
    <3> QED
      BY <3>1, StartReloadGuarded
  <2>2. CASE \E p \in Procs : Step(p)
    BY <2>2, StepGuarded
  <2>3. CASE Boot
    BY <2>3, StartReloadGuarded DEF Boot, Procs
  <2>4. CASE Crash
    BY <2>4, ExitGuarded DEF Crash
  <2>5. CASE UNCHANGED vars
    BY <2>5 DEF vars, locals, GuardInv, EnginesSound, EnginesReady,
                DraftsGuarded, InspectedSitesGuarded, GuardedBy
  <2> QED
    BY <2>1, <2>2, <2>3, <2>4, <2>5 DEF Next
<1>3. GuardInv => InspectedSitesGuarded
  BY DEF GuardInv
<1> QED
  BY <1>1, <1>2, <1>3, TypeCorrect, PTL DEF Spec

(***************************************************************************)
(* The outcome of createRule is what the store holds.  A rollback deletes  *)
(* by id, after any number of other requests: it takes away the right row  *)
(* because AUTOINCREMENT never hands an id out twice, so that the ids of   *)
(* pending, confirmed and undone creations are all different.              *)
(***************************************************************************)
Creating(p) == onErr[p] = "rollback"

IdsAssigned ==
    /\ \A i \in RuleIds : rules[i] # None => i <= ruleSeq
    /\ \A i \in acked \cup rejected : i <= ruleSeq
    /\ \A p \in Procs : Creating(p) => rid[p] <= ruleSeq

IdsDistinct ==
    /\ acked \cap rejected = {}
    /\ \A p \in Procs : Creating(p) => rid[p] \notin acked \cup rejected
    /\ \A p, q \in Procs : p # q /\ Creating(p) /\ Creating(q) => rid[p] # rid[q]

PendingStored ==
    \A p \in Procs : Creating(p) => rules[rid[p]] # None \/ rid[p] \in removed

OutcomeInv ==
    /\ IdsAssigned
    /\ IdsDistinct
    /\ PendingStored
    /\ AckedRuleSurvives
    /\ RejectedRuleGone

\* A step that changes no row and starts or ends no creation.
LEMMA SameRules ==
    ASSUME TypeOK, OutcomeInv,
           UNCHANGED <<rules, ruleSeq, acked, rejected, removed>>,
           \A p \in Procs : Creating(p)' => Creating(p) /\ rid'[p] = rid[p]
    PROVE  OutcomeInv'
BY DEF OutcomeInv, IdsAssigned, IdsDistinct, PendingStored, AckedRuleSurvives,
       RejectedRuleGone, Creating

\* A goroutine that returns no longer creates; the others go on as before.
LEMMA ReturnEnds ==
    ASSUME TypeOK, NEW p \in Procs, Return(p)
    PROVE  \A q \in Procs : Creating(q)' => q # p /\ Creating(q) /\ rid'[q] = rid[q]
BY DEF TypeOK, Return, Creating

LEMMA StartReloadCreating ==
    ASSUME TypeOK, NEW p \in Procs, NEW w, StartReload(p, w)
    PROVE  \A q \in Procs : Creating(q)' => (q # p /\ Creating(q)) \/ (q = p /\ w = "rollback")
BY DEF TypeOK, StartReload, Creating

LEMMA RequestOutcome ==
    ASSUME TypeOK, RollbackOwned, OutcomeInv, NEW a \in Admins, Request(a)
    PROVE  OutcomeInv'
<1>0. a \in Procs
  BY DEF Procs
<1>1. CASE \/ \E b \in SiteBodies : CreateSite(a, b)
           \/ \E i \in SiteIds, b \in SiteBodies : UpdateSite(a, i, b)
           \/ \E i \in SiteIds : DeleteSite(a, i)
  <2>1. StartReload(a, "report") /\ UNCHANGED <<rules, ruleSeq, rid, acked, rejected, removed>>
    BY <1>1 DEF CreateSite, UpdateSite, DeleteSite, history
  <2> QED
    BY <1>0, <2>1, StartReloadCreating, SameRules
<1>2. ASSUME NEW b \in RuleBodies, CreateRule(a, b)
      PROVE  OutcomeInv'
  <2> DEFINE n == ruleSeq + 1
  <2>1. n \in RuleIds /\ b # None /\ ruleSeq \in Nat /\ RuleIds \subseteq Nat
    BY <1>2, ConstantsAssumption, NoneAssumption
    DEF CreateRule, TypeOK, RuleIds, RuleBody, Rule
  <2>2. /\ rules' = [rules EXCEPT ![n] = b]
        /\ ruleSeq' = n
        /\ rid' = [rid EXCEPT ![a] = n]
        /\ acked' = acked /\ rejected' = rejected /\ removed' = removed
    BY <1>2 DEF CreateRule, history
  <2>3. \A q \in Procs : Creating(q)' => q = a \/ (q # a /\ Creating(q))
    BY <1>0, <1>2, StartReloadCreating DEF CreateRule
  <2>4. \A q \in Procs : rid'[q] = IF q = a THEN n ELSE rid[q]
    BY <2>2 DEF TypeOK
  <2>5. \A q \in Procs : Creating(q) => rid[q] \in RuleIds
    BY DEF RollbackOwned, Creating
  <2>6. \A i \in RuleIds : rules'[i] = IF i = n THEN b ELSE rules[i]
    BY <2>2 DEF TypeOK
  <2>7. acked \subseteq RuleIds /\ rejected \subseteq RuleIds
    BY DEF TypeOK
  <2> HIDE DEF n
  <2>8. /\ ruleSeq < n /\ n <= n
        /\ \A i \in RuleIds : i <= ruleSeq => i <= n
    BY <2>1 DEF n
  <2>9. IdsAssigned'
    <3>1. \A i \in RuleIds : rules'[i] # None => i <= n
      BY <2>6, <2>8 DEF OutcomeInv, IdsAssigned
    <3>2. \A i \in acked \cup rejected : i <= n
      BY <2>7, <2>8 DEF OutcomeInv, IdsAssigned
    <3>3. \A q \in Procs : Creating(q)' => rid'[q] <= n
      BY <2>3, <2>4, <2>5, <2>8 DEF OutcomeInv, IdsAssigned
    <3> QED
      BY <2>2, <3>1, <3>2, <3>3 DEF IdsAssigned
  <2>10. n \notin acked \cup rejected /\ \A q \in Procs : Creating(q) => rid[q] # n
    BY <2>1, <2>5, <2>7, <2>8 DEF OutcomeInv, IdsAssigned
  <2>11. IdsDistinct'
    BY <2>2, <2>3, <2>4, <2>10 DEF OutcomeInv, IdsDistinct
  <2>12. PendingStored'
    BY <2>1, <2>2, <2>3, <2>4, <2>5, <2>6, <2>10 DEF OutcomeInv, PendingStored
  <2>13. AckedRuleSurvives' /\ RejectedRuleGone'
    BY <2>2, <2>6, <2>7, <2>10 DEF OutcomeInv, AckedRuleSurvives, RejectedRuleGone
  <2> QED
    BY <2>9, <2>11, <2>12, <2>13, ConstantsAssumption DEF OutcomeInv
<1>3. ASSUME NEW i \in RuleIds, NEW b \in RuleBodies, UpdateRule(a, i, b)
      PROVE  OutcomeInv'
  <2>1. b # None
    BY <1>3, ConstantsAssumption, NoneAssumption DEF UpdateRule, RuleBody, Rule
  <2>2. \A j \in RuleIds : rules'[j] = None <=> rules[j] = None
    BY <1>3, <2>1 DEF UpdateRule, TypeOK
  <2>3. \A q \in Procs : Creating(q)' => Creating(q) /\ rid'[q] = rid[q] /\ rid[q] \in RuleIds
    BY <1>0, <1>3, StartReloadCreating DEF UpdateRule, RollbackOwned, Creating
  <2>4. UNCHANGED <<ruleSeq, acked, rejected, removed>>
    BY <1>3 DEF UpdateRule, history
  <2>5. IdsAssigned' /\ IdsDistinct' /\ PendingStored'
    BY <2>2, <2>3, <2>4 DEF OutcomeInv, IdsAssigned, IdsDistinct, PendingStored
  <2>6. AckedRuleSurvives' /\ RejectedRuleGone'
    BY <2>2, <2>4 DEF OutcomeInv, AckedRuleSurvives, RejectedRuleGone, TypeOK
  <2> QED
    BY <2>5, <2>6 DEF OutcomeInv
<1>4. ASSUME NEW i \in RuleIds, DeleteRule(a, i)
      PROVE  OutcomeInv'
  <2>1. \A j \in RuleIds : rules'[j] = IF j = i THEN None ELSE rules[j]
    BY <1>4 DEF DeleteRule, TypeOK
  <2>2. \A q \in Procs : Creating(q)' => Creating(q) /\ rid'[q] = rid[q] /\ rid[q] \in RuleIds
    BY <1>0, <1>4, StartReloadCreating DEF DeleteRule, RollbackOwned, Creating
  <2>3. UNCHANGED <<ruleSeq, acked, rejected>> /\ removed' = removed \cup {i}
    BY <1>4 DEF DeleteRule
  <2>4. IdsAssigned' /\ IdsDistinct' /\ PendingStored'
    BY <2>1, <2>2, <2>3 DEF OutcomeInv, IdsAssigned, IdsDistinct, PendingStored
  <2>5. AckedRuleSurvives' /\ RejectedRuleGone'
    BY <2>1, <2>3 DEF OutcomeInv, AckedRuleSurvives, RejectedRuleGone, TypeOK
  <2> QED
    BY <2>4, <2>5 DEF OutcomeInv
<1> QED
  BY <1>1, <1>2, <1>3, <1>4 DEF Request

LEMMA StepOutcome ==
    ASSUME TypeOK, RollbackOwned, OutcomeInv, NEW p \in Procs, Step(p)
    PROVE  OutcomeInv'
<1>1. CASE ReadDirectives(p) \/ SwapEngines(p) \/ ReadSites(p) \/ RouteSite(p)
  <2>1. UNCHANGED <<rules, ruleSeq, rid, onErr, acked, rejected, removed>>
    BY <1>1 DEF ReadDirectives, SwapEngines, ReadSites, RouteSite, store, locals, history
  <2> QED
    BY <2>1, SameRules DEF Creating
<1>2. CASE SwapTable(p)
  <2>1. \A q \in Procs : Creating(q)' => q # p /\ Creating(q) /\ rid'[q] = rid[q]
    BY <1>2, ReturnEnds DEF SwapTable
  <2>2. UNCHANGED <<rules, ruleSeq, rejected, removed>>
    BY <1>2 DEF SwapTable, store
  <2>3. CASE Creating(p)
    <3>1. acked' = acked \cup {rid[p]}
      BY <1>2, <2>3 DEF SwapTable, Creating
    <3>2. IdsAssigned' /\ IdsDistinct' /\ PendingStored'
      BY <2>1, <2>2, <2>3, <3>1 DEF OutcomeInv, IdsAssigned, IdsDistinct, PendingStored
    <3>3. AckedRuleSurvives' /\ RejectedRuleGone'
      BY <2>2, <2>3, <3>1 DEF OutcomeInv, PendingStored, AckedRuleSurvives, RejectedRuleGone
    <3> QED
      BY <3>2, <3>3 DEF OutcomeInv
  <2>4. CASE ~Creating(p)
    BY <1>2, <2>1, <2>2, <2>4, SameRules DEF SwapTable, Creating
  <2> QED
    BY <2>3, <2>4
<1>3. CASE ReloadFails(p)
  <2>1. \A q \in Procs : Creating(q)' => Creating(q) /\ rid'[q] = rid[q]
    <3>1. CASE UNCHANGED locals
      BY <3>1 DEF locals, Creating
    <3>2. CASE Return(p)
      BY <3>2, ReturnEnds
    <3>3. CASE Exit
      BY <3>3 DEF Exit, Creating
    <3> QED
      BY <1>3, <3>1, <3>2, <3>3 DEF ReloadFails
  <2> QED
    BY <1>3, <2>1, SameRules DEF ReloadFails, store, history
<1>4. CASE Rollback(p)
  <2> DEFINE i == rid[p]
  <2>1. Creating(p) /\ i \in RuleIds
    BY <1>4 DEF Rollback, RollbackOwned, Creating
  <2>2. \A q \in Procs : Creating(q)' =>
           /\ q # p /\ Creating(q) /\ rid'[q] = rid[q]
           /\ rid[q] \in RuleIds /\ rid[q] # i
    BY <1>4, <2>1, ReturnEnds
    DEF Rollback, RollbackOwned, Creating, OutcomeInv, IdsDistinct
  <2>3. UNCHANGED <<ruleSeq, acked, removed>>
    BY <1>4 DEF Rollback
  <2>4. /\ \A j \in RuleIds \ {i} : rules'[j] = rules[j]
        /\ \/ rules'[i] = None /\ rejected' = rejected \cup {i}
           \/ rules'[i] = rules[i] /\ rejected' = rejected
    BY <1>4, <2>1 DEF Rollback, TypeOK
  <2>5. i \notin acked \cup rejected /\ i <= ruleSeq
    BY <2>1 DEF OutcomeInv, IdsAssigned, IdsDistinct
  <2> HIDE DEF i
  <2>6. IdsAssigned' /\ IdsDistinct' /\ PendingStored'
    BY <2>1, <2>2, <2>3, <2>4, <2>5 DEF OutcomeInv, IdsAssigned, IdsDistinct, PendingStored
  <2>7. AckedRuleSurvives' /\ RejectedRuleGone'
    BY <2>1, <2>3, <2>4, <2>5 DEF OutcomeInv, AckedRuleSurvives, RejectedRuleGone, TypeOK
  <2> QED
    BY <2>6, <2>7 DEF OutcomeInv
<1> QED
  BY <1>1, <1>2, <1>3, <1>4 DEF Step

LEMMA OutcomeInvariant == Spec => []OutcomeInv
<1>1. Init => OutcomeInv
  BY DEF Init, OutcomeInv, IdsAssigned, IdsDistinct, PendingStored, AckedRuleSurvives,
         RejectedRuleGone, Creating
<1>2. TypeOK /\ RollbackOwned /\ OutcomeInv /\ [Next]_vars => OutcomeInv'
  <2> SUFFICES ASSUME TypeOK, RollbackOwned, OutcomeInv, [Next]_vars
               PROVE  OutcomeInv'
    OBVIOUS
  <2>1. CASE \E a \in Admins : Request(a)
    BY <2>1, RequestOutcome
  <2>2. CASE \E p \in Procs : Step(p)
    BY <2>2, StepOutcome
  <2>3. CASE Boot
    <3>1. Main \in Procs /\ StartReload(Main, "fatal")
      BY <2>3 DEF Boot, Procs
    <3>2. UNCHANGED <<rules, ruleSeq, rid, acked, rejected, removed>>
      BY <2>3 DEF Boot, store, history
    <3> QED
      BY <3>1, <3>2, StartReloadCreating, SameRules
  <2>4. CASE Crash
    BY <2>4, SameRules DEF Crash, Exit, Creating, store, history
  <2>5. CASE UNCHANGED vars
    BY <2>5, SameRules DEF vars, locals, store, history, Creating
  <2> QED
    BY <2>1, <2>2, <2>3, <2>4, <2>5 DEF Next
<1> QED
  BY <1>1, <1>2, TypeCorrect, PTL DEF Spec

(***************************************************************************)
(* A rule whose creation createRule confirmed is in the store until an     *)
(* operator deletes it, even when rollbacks of other creations, crashes    *)
(* and failing statements come in between.                                 *)
(***************************************************************************)
THEOREM ConfirmedStays == Spec => []AckedRuleSurvives
<1>1. OutcomeInv => AckedRuleSurvives
  BY DEF OutcomeInv
<1> QED
  BY <1>1, OutcomeInvariant, PTL

(***************************************************************************)
(* A rule createRule turned down and whose row its rollback deleted never  *)
(* comes back, whatever other requests, crashes and failing statements do. *)
(***************************************************************************)
THEOREM RejectedStaysOut == Spec => []RejectedRuleGone
<1>1. OutcomeInv => RejectedRuleGone
  BY DEF OutcomeInv
<1> QED
  BY <1>1, OutcomeInvariant, PTL

=============================================================================
