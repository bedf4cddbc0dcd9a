--------------------------- MODULE LoadableProofs ---------------------------
(***************************************************************************)
(* When the stored rules can be relied on to compile.  Updates of rules,   *)
(* and crashes during a creation, may leave rules that do not compile (see *)
(* LoadableWhenQuiet and RestartRecovers of ControlPlane).  Nothing else   *)
(* does: creations and deletions never, however many overlap.              *)
(***************************************************************************)
EXTENDS SyncProofs, WellFoundedInduction

USE DEF StoreCreateSite, StoreUpdateSite, StoreDeleteSite,
        StoreCreateRule, StoreUpdateRule, StoreDeleteRule

\* The list x is y with some of its texts left out.
Fewer(x, y) == \A i \in RuleIds : x[i] = None \/ x[i] = y[i]

CompilesAll(ds) == \A m \in InspectModes : Compiles(ds, m)

\* No rule text needs another one: what compiles still does with some texts left out.
Independent == \A x, y \in DirectiveList : Fewer(x, y) /\ CompilesAll(y) => CompilesAll(x)

\* A step that is no update of a rule, or one that only switches a rule off or leaves its
\* text alone, and no crash while a rule's creation is under way.
Harmless ==
    /\ \A a \in Admins, i \in RuleIds, b \in RuleBodies : UpdateRule(a, i, b) =>
          Fewer(EnabledRuleDirectives(rules'), EnabledRuleDirectives(rules))
    /\ Crash => \A p \in Procs : ~Creating(p)

CarefulSpec == Init /\ [][Next /\ Harmless]_vars

-----------------------------------------------------------------------------
\* The directives of the rules that were created up to rule i.
UpTo(tbl, i) == [j \in RuleIds |-> IF j <= i THEN EnabledRuleDirectives(tbl)[j] ELSE None]

\* The reload of rule i's creation has not compiled it yet, or has failed to.
Unsettled(i) ==
    \E p \in Procs : Creating(p) /\ rid[p] = i /\ pc[p] \in {"read", "compile", "rollback"}

\* A settled rule compiled together with every rule before it that is still there.
SettledCompile == \A i \in RuleIds : rules[i] # None /\ ~Unsettled(i) => CompilesAll(UpTo(rules, i))

\* A creation's reload has read its own rule and every rule before it.
ReadEnough ==
    \A p \in Procs : Creating(p) /\ pc[p] = "compile" => Fewer(UpTo(rules, rid[p]), dirs[p])

\* The first reload showed that the engines compile without any custom rule.
BaseCompiles == up \/ pc[Main] \in {"list", "route"} => CompilesAll(NoDirectives)

\* Who reloads, and why: main to start, an admin for a request.
Roles == /\ \A a \in Admins : onErr[a] # "fatal"
         /\ pc[Main] # "idle" => onErr[Main] = "fatal"
         /\ \A p \in Procs : Creating(p) => pc[p] # "idle"

CarefulInv == Turns /\ Roles /\ SettledCompile /\ ReadEnough /\ BaseCompiles

-----------------------------------------------------------------------------
(***************************************************************************)
(* Lists of directives.                                                    *)
(***************************************************************************)
LEMMA UpToTyped ==
    ASSUME NEW tbl \in [RuleIds -> Rule \cup {None}], NEW i
    PROVE  UpTo(tbl, i) \in DirectiveList
BY DirectivesTyped DEF UpTo, DirectiveList

LEMMA UpToFewer ==
    ASSUME NEW x, NEW y, NEW i, Fewer(EnabledRuleDirectives(x), EnabledRuleDirectives(y))
    PROVE  Fewer(UpTo(x, i), UpTo(y, i))
BY DEF Fewer, UpTo

LEMMA UpToWhole ==
    ASSUME NEW x, NEW i
    PROVE  Fewer(UpTo(x, i), EnabledRuleDirectives(x))
BY DEF Fewer, UpTo

LEMMA FewerTransitive ==
    ASSUME NEW x, NEW y, NEW z, Fewer(x, y), Fewer(y, z)
    PROVE  Fewer(x, z)
BY DEF Fewer

LEMMA FewerSame == ASSUME NEW x PROVE Fewer(x, x)
BY DEF Fewer

\* Of the rules that are stored, one was created last.
LEMMA LastRule ==
    ASSUME NEW T \in SUBSET RuleIds, T # {}
    PROVE  \E x \in T : \A y \in T : y <= x
<1> DEFINE U == {n \in Nat : \E x \in T : x + n = MaxRules}
<1>1. \A x \in T : x \in Nat /\ x <= MaxRules
  BY ConstantsAssumption DEF RuleIds
<1>2. U # {}
  <2>1. PICK x \in T : TRUE
    OBVIOUS
  <2>2. MaxRules - x \in Nat /\ x + (MaxRules - x) = MaxRules
    BY <1>1, ConstantsAssumption
  <2>3. QED BY <2>2
<1>3. PICK n \in U : \A k \in U : ~(<<k, n>> \in OpToRel(<, Nat))
  <2>1. U \subseteq Nat
    OBVIOUS
  <2>2. QED BY <1>2, <2>1, WFMin, NatLessThanWellFounded
<1>4. \A k \in U : n <= k
  <2>1. ASSUME NEW k \in U, k < n PROVE FALSE
    <3>1. <<k, n>> \in OpToRel(<, Nat)
      BY <2>1 DEF OpToRel
    <3>2. QED BY <1>3, <3>1
  <2>2. QED BY <2>1
<1>5. PICK x \in T : x + n = MaxRules
  OBVIOUS
<1>6. ASSUME NEW y \in T PROVE y <= x
  <2>1. MaxRules - y \in U
    <3>1. MaxRules - y \in Nat /\ y + (MaxRules - y) = MaxRules
      BY <1>1, ConstantsAssumption
    <3>2. QED BY <3>1
  <2>2. n <= MaxRules - y /\ n \in Nat
    BY <1>4, <2>1
  <2>3. QED BY <1>1, <1>5, <2>2, ConstantsAssumption
<1>7. QED BY <1>6

\* When nobody is under way, the last rule's reload speaks for all of them.
LEMMA QuietLoadable ==
    ASSUME TypeOK, OutcomeInv, CarefulInv, Independent
    PROVE  LoadableWhenQuiet
<1> SUFFICES ASSUME Quiet PROVE CompilesAll(EnabledRuleDirectives(rules))
  BY DEF LoadableWhenQuiet, Loadable, CompilesAll
<1> DEFINE T == {i \in RuleIds : rules[i] # None}
<1>1. CASE T = {}
  <2>1. EnabledRuleDirectives(rules) = NoDirectives
    BY <1>1 DEF EnabledRuleDirectives, NoDirectives
  <2>2. QED BY <2>1 DEF Quiet, CarefulInv, BaseCompiles
<1>2. CASE T # {}
  <2>1. PICK i \in T : \A j \in T : j <= i
    BY <1>2, LastRule
  <2>2. ~Unsettled(i)
    BY DEF Unsettled, Quiet
  <2>3. CompilesAll(UpTo(rules, i))
    BY <2>2 DEF CarefulInv, SettledCompile
  <2>4. UpTo(rules, i) = EnabledRuleDirectives(rules)
    BY <2>1 DEF UpTo, EnabledRuleDirectives
  <2>5. QED BY <2>3, <2>4
<1>3. QED BY <1>1, <1>2
-----------------------------------------------------------------------------
(***************************************************************************)
(* Who is under way.                                                       *)
(***************************************************************************)
LEMMA ExitRoles == ASSUME Exit PROVE Turns' /\ Roles'
BY DEF Exit, Turns, Roles, Creating, Procs

LEMMA RolesStep ==
    ASSUME TypeOK, Turns, Roles, [Next]_vars
    PROVE  Turns' /\ Roles'
<1>1. ASSUME NEW a \in Admins, Request(a) PROVE Turns' /\ Roles'
  <2>1. up /\ pc[a] = "idle" /\ a \in Procs /\ a # Main /\ Main \in Procs
    BY <1>1, ConstantsAssumption
       DEF Procs, Request, Accepts, CreateSite, UpdateSite, DeleteSite, CreateRule, UpdateRule, DeleteRule
  <2>2. PICK w \in {"report", "rollback"} : StartReload(a, w)
    BY <1>1 DEF Request, CreateSite, UpdateSite, DeleteSite, CreateRule, UpdateRule, DeleteRule
  <2>3. QED BY <2>1, <2>2 DEF StartReload, Goto, Turns, Roles, Creating, TypeOK, Procs
<1>2. ASSUME NEW p \in Procs, Step(p) PROVE Turns' /\ Roles'
  <2>1. CASE ReadDirectives(p) \/ SwapEngines(p) \/ ReadSites(p) \/ RouteSite(p)
    <3>1. /\ pc[p] # "idle" /\ pc'[p] # "idle" /\ up' = up /\ onErr' = onErr
          /\ \A q \in Procs : q # p => pc'[q] = pc[q]
      BY <2>1 DEF ReadDirectives, SwapEngines, ReadSites, RouteSite, Goto, TypeOK, locals
    <3>2. QED BY <3>1 DEF Turns, Roles, Creating, Procs
  <2>2. ASSUME Return(p), pc[p] # "idle", up' = up \/ SwapTable(p) PROVE Turns' /\ Roles'
    <3>1. /\ pc'[p] = "idle" /\ onErr'[p] = "report"
          /\ \A q \in Procs : q # p => pc'[q] = pc[q] /\ onErr'[q] = onErr[q]
      BY <2>2 DEF Return, Goto, TypeOK
    <3>2. Roles'
      BY <3>1 DEF Roles, Creating, Procs
    <3>3. up' = up \/ up' = TRUE
      BY <2>2 DEF SwapTable
    <3>4. up' # up => p = Main
      BY <2>2, <3>3 DEF Turns, Procs, TypeOK
    <3>5. QED BY <3>1, <3>2, <3>3, <3>4 DEF Turns, Procs
  <2>3. CASE SwapTable(p)
    BY <2>2, <2>3 DEF SwapTable
  <2>4. CASE Rollback(p)
    BY <2>2, <2>4 DEF Rollback
  <2>5. CASE ReloadFails(p)
    <3>1. pc[p] # "idle"
      BY <2>5 DEF ReloadFails
    <3>2. CASE onErr[p] = "rollback" /\ Goto(p, "rollback") /\ UNCHANGED <<up, engines, live, locals>>
      <4>1. /\ pc'[p] = "rollback" /\ up' = up /\ onErr' = onErr
            /\ \A q \in Procs : q # p => pc'[q] = pc[q]
        BY <3>2 DEF Goto, TypeOK, locals
      <4>2. QED BY <3>1, <4>1 DEF Turns, Roles, Creating, Procs
    <3>3. CASE Return(p) /\ UNCHANGED <<up, engines, live>>
      BY <2>2, <3>1, <3>3
    <3>4. CASE Exit
      BY <3>4, ExitRoles
    <3>5. QED BY <2>5, <3>2, <3>3, <3>4 DEF ReloadFails
  <2>6. QED BY <1>2, <2>1, <2>3, <2>4, <2>5 DEF Step
<1>3. CASE Boot
  BY <1>3, ConstantsAssumption DEF Boot, StartReload, Goto, Turns, Roles, Creating, TypeOK, Procs
<1>4. CASE Crash
  BY <1>4, ExitRoles DEF Crash
<1>5. CASE UNCHANGED vars
  BY <1>5 DEF vars, locals, Turns, Roles, Creating
<1>6. QED BY <1>1, <1>2, <1>3, <1>4, <1>5 DEF Next

-----------------------------------------------------------------------------
(***************************************************************************)
(* What has compiled.                                                      *)
(***************************************************************************)
LEMMA BaseStep ==
    ASSUME Independent, TypeOK, Turns, BaseCompiles, [Next]_vars
    PROVE  BaseCompiles'
<1> SUFFICES ASSUME up' \/ pc'[Main] \in {"list", "route"} PROVE CompilesAll(NoDirectives)
  BY DEF BaseCompiles
<1>1. CASE up \/ pc[Main] \in {"list", "route"}
  BY <1>1 DEF BaseCompiles
<1>2. CASE ~up /\ pc[Main] \notin {"list", "route"}
  <2>1. SwapEngines(Main)
    <3>1. Main \in Procs
      BY DEF Procs
    <3>2. ASSUME NEW a \in Admins PROVE ~Request(a)
      BY <1>2 DEF Request, Accepts, CreateSite, UpdateSite, DeleteSite, CreateRule, UpdateRule, DeleteRule
    <3>3. ASSUME NEW a \in Admins PROVE ~Step(a)
      BY <1>2 DEF Turns, Step, ReadDirectives, SwapEngines, ReadSites, RouteSite, SwapTable, ReloadFails,
                  Rollback
    <3>4. ~Boot /\ ~Crash /\ ~UNCHANGED vars
      BY <1>2, <3>1 DEF Boot, StartReload, Goto, Crash, Exit, vars, TypeOK
    <3>5. Step(Main)
      BY <3>2, <3>3, <3>4 DEF Next, Procs
    <3>6. ~Rollback(Main) /\ ~ReadDirectives(Main) /\ ~ReloadFails(Main)
      BY <1>2, <3>1 DEF Rollback, ReadDirectives, ReloadFails, Return, Exit, Goto, TypeOK
    <3>7. ~ReadSites(Main) /\ ~RouteSite(Main) /\ ~SwapTable(Main)
      BY <1>2 DEF ReadSites, RouteSite, SwapTable
    <3>8. QED BY <3>5, <3>6, <3>7 DEF Step
  <2>2. CompilesAll(dirs[Main]) /\ dirs[Main] \in DirectiveList
    BY <2>1 DEF SwapEngines, CompilesAll, TypeOK, Procs
  <2>3. NoDirectives \in DirectiveList /\ Fewer(NoDirectives, dirs[Main])
    BY DEF NoDirectives, DirectiveList, Fewer
  <2>4. QED BY <2>2, <2>3 DEF Independent
<1>3. QED BY <1>1, <1>2

\* The goroutine p's rule is not settled.
Open(p) == Creating(p) /\ pc[p] \in {"read", "compile", "rollback"}

\* Steps after which no rule is new, no text has changed but for those that are gone, and
\* a rule that was not settled still is not or is gone.
Keeps ==
    /\ Fewer(EnabledRuleDirectives(rules'), EnabledRuleDirectives(rules))
    /\ \A i \in RuleIds : rules'[i] # None => rules[i] # None
    /\ \A p \in Procs : Open(p) => rules'[rid[p]] = None \/ (Open(p)' /\ rid'[p] = rid[p])
    /\ \A p \in Procs : Creating(p)' /\ pc'[p] = "compile" =>
          Creating(p) /\ pc[p] = "compile" /\ rid'[p] = rid[p] /\ dirs'[p] = dirs[p]

LEMMA KeepsCompile ==
    ASSUME Independent, TypeOK, TypeOK', SettledCompile, ReadEnough, Keeps
    PROVE  SettledCompile' /\ ReadEnough'
<1>1. rules \in [RuleIds -> Rule \cup {None}] /\ rules' \in [RuleIds -> Rule \cup {None}]
  BY DEF TypeOK
<1>2. \A i : Fewer(UpTo(rules', i), UpTo(rules, i))
  BY UpToFewer DEF Keeps
<1>3. ASSUME NEW i \in RuleIds, rules'[i] # None, ~Unsettled(i)'
      PROVE  CompilesAll(UpTo(rules', i))
  <2>1. ~Unsettled(i)
    <3>1. ASSUME NEW p \in Procs, Open(p), rid[p] = i PROVE FALSE
      <4>1. Open(p)' /\ rid'[p] = i
        BY <1>3, <3>1 DEF Keeps
      <4>2. QED BY <1>3, <4>1 DEF Unsettled, Open
    <3>2. QED BY <3>1 DEF Unsettled, Open
  <2>2. CompilesAll(UpTo(rules, i))
    BY <1>3, <2>1 DEF SettledCompile, Keeps
  <2>3. QED BY <1>1, <1>2, <2>2, UpToTyped DEF Independent
<1>4. SettledCompile'
  BY <1>3 DEF SettledCompile
<1>5. ASSUME NEW p \in Procs, Creating(p)', pc'[p] = "compile"
      PROVE  Fewer(UpTo(rules', rid'[p]), dirs'[p])
  <2>1. Fewer(UpTo(rules, rid[p]), dirs[p]) /\ rid'[p] = rid[p] /\ dirs'[p] = dirs[p]
    BY <1>5 DEF ReadEnough, Keeps
  <2>2. QED BY <1>2, <2>1, FewerTransitive
<1>6. ReadEnough'
  BY <1>5 DEF ReadEnough
<1>7. QED BY <1>4, <1>6

\* Rows that stay as they are.
LEMMA SameFewer ==
    ASSUME rules' = rules
    PROVE  /\ Fewer(EnabledRuleDirectives(rules'), EnabledRuleDirectives(rules))
           /\ \A i \in RuleIds : rules'[i] # None => rules[i] # None
BY FewerSame

\* A row that goes.
LEMMA GoneFewer ==
    ASSUME rules \in [RuleIds -> Rule \cup {None}], NEW k, rules' = [rules EXCEPT ![k] = None]
    PROVE  /\ Fewer(EnabledRuleDirectives(rules'), EnabledRuleDirectives(rules))
           /\ \A i \in RuleIds : rules'[i] # None => rules[i] # None
BY DEF Fewer, EnabledRuleDirectives

\* A request other than a creation leaves the goroutines that create alone.
LEMMA RequestKeeps ==
    ASSUME TypeOK, Roles, Harmless, NEW a \in Admins,
           \/ \E b \in SiteBodies : CreateSite(a, b)
           \/ \E i \in SiteIds, b \in SiteBodies : UpdateSite(a, i, b)
           \/ \E i \in SiteIds : DeleteSite(a, i)
           \/ \E i \in RuleIds, b \in RuleBodies : UpdateRule(a, i, b)
           \/ \E i \in RuleIds : DeleteRule(a, i)
    PROVE  Keeps
<1>1. /\ a \in Procs /\ StartReload(a, "report") /\ pc[a] = "idle" /\ rid' = rid
  BY DEF Procs, Accepts, CreateSite, UpdateSite, DeleteSite, UpdateRule, DeleteRule
<1>2. /\ onErr'[a] = "report" /\ dirs' = dirs /\ ~Creating(a)
      /\ \A q \in Procs : q # a => onErr'[q] = onErr[q] /\ pc'[q] = pc[q]
  BY <1>1 DEF StartReload, Goto, TypeOK, Roles
<1>3. /\ Fewer(EnabledRuleDirectives(rules'), EnabledRuleDirectives(rules))
      /\ \A i \in RuleIds : rules'[i] # None => rules[i] # None
  <2>1. CASE rules' = rules
    BY <2>1, SameFewer
  <2>2. ASSUME NEW i \in RuleIds, NEW b \in RuleBodies, UpdateRule(a, i, b)
        PROVE  /\ Fewer(EnabledRuleDirectives(rules'), EnabledRuleDirectives(rules))
               /\ \A j \in RuleIds : rules'[j] # None => rules[j] # None
    BY <2>2 DEF Harmless, UpdateRule, TypeOK
  <2>3. ASSUME NEW i \in RuleIds, DeleteRule(a, i)
        PROVE  /\ Fewer(EnabledRuleDirectives(rules'), EnabledRuleDirectives(rules))
               /\ \A j \in RuleIds : rules'[j] # None => rules[j] # None
    BY <2>3, GoneFewer DEF DeleteRule, TypeOK
  <2>4. QED BY <2>1, <2>2, <2>3 DEF CreateSite, UpdateSite, DeleteSite
<1>4. QED BY <1>1, <1>2, <1>3 DEF Keeps, Open, Creating

\* Nobody creates any more.
LEMMA ExitKeeps ==
    ASSUME Exit, rules' = rules, \A p \in Procs : ~Creating(p)
    PROVE  Keeps
<1>1. \A p \in Procs : ~Creating(p)'
  BY DEF Exit, Creating
<1>2. QED BY <1>1, SameFewer DEF Keeps, Open

LEMMA ReturnKeeps ==
    ASSUME TypeOK, NEW p \in Procs, Return(p), Open(p) => rules'[rid[p]] = None,
           Fewer(EnabledRuleDirectives(rules'), EnabledRuleDirectives(rules)),
           \A i \in RuleIds : rules'[i] # None => rules[i] # None
    PROVE  Keeps
<1>1. /\ onErr'[p] = "report"
      /\ \A q \in Procs : q # p => /\ onErr'[q] = onErr[q] /\ pc'[q] = pc[q]
                                   /\ rid'[q] = rid[q] /\ dirs'[q] = dirs[q]
  BY DEF Return, Goto, TypeOK
<1>2. QED BY <1>1 DEF Keeps, Open, Creating

\* The steps of a reload that settle nothing.
LEMMA StepKeeps ==
    ASSUME ~StoreFaults, TypeOK, RollbackOwned, Turns, Roles, NEW p \in Procs,
           \/ ReadSites(p) \/ RouteSite(p) \/ SwapTable(p) \/ ReloadFails(p) \/ Rollback(p)
    PROVE  Keeps
<1>1. CASE ReadSites(p) \/ RouteSite(p)
  <2>1. /\ pc[p] \in {"list", "route"} /\ pc'[p] = "route" /\ rules' = rules
        /\ onErr' = onErr /\ rid' = rid /\ dirs' = dirs
        /\ \A q \in Procs : q # p => pc'[q] = pc[q]
    BY <1>1 DEF ReadSites, RouteSite, Goto, TypeOK, store
  <2>2. QED BY <2>1, SameFewer DEF Keeps, Open, Creating
<1>2. CASE SwapTable(p)
  <2>1. pc[p] = "route" /\ Return(p) /\ rules' = rules
    BY <1>2 DEF SwapTable, store
  <2>2. QED BY <2>1, SameFewer, ReturnKeeps DEF Open
<1>3. CASE Rollback(p)
  <2>1. Return(p) /\ rules' = [rules EXCEPT ![rid[p]] = None] /\ rid[p] \in RuleIds
    BY <1>3 DEF Rollback, RollbackOwned
  <2>2. rules \in [RuleIds -> Rule \cup {None}]
    BY DEF TypeOK
  <2>3. rules'[rid[p]] = None
    BY <2>1, <2>2
  <2>4. QED BY <2>1, <2>2, <2>3, GoneFewer, ReturnKeeps
<1>4. CASE ReloadFails(p)
  <2>1. pc[p] = "compile" /\ rules' = rules
    BY <1>4 DEF ReloadFails, store
  <2>2. CASE onErr[p] = "rollback" /\ Goto(p, "rollback") /\ UNCHANGED <<up, engines, live, locals>>
    <3>1. /\ pc'[p] = "rollback" /\ onErr' = onErr /\ rid' = rid /\ dirs' = dirs
          /\ \A q \in Procs : q # p => pc'[q] = pc[q]
      BY <2>2 DEF Goto, TypeOK, locals
    <3>2. QED BY <2>1, <3>1, SameFewer DEF Keeps, Open, Creating
  <2>3. CASE onErr[p] = "report" /\ Return(p)
    BY <2>1, <2>3, SameFewer, ReturnKeeps DEF Open, Creating
  <2>4. CASE onErr[p] = "fatal" /\ Exit
    <3>1. p = Main /\ ~up
      BY <2>1, <2>4 DEF Roles, Turns, Procs
    <3>2. \A q \in Procs : ~Creating(q)
      BY <2>4, <3>1 DEF Roles, Turns, Creating, Procs
    <3>3. QED BY <2>1, <2>4, <3>2, ExitKeeps
  <2>5. QED BY <1>4, <2>2, <2>3, <2>4 DEF ReloadFails
<1>5. QED BY <1>1, <1>2, <1>3, <1>4

\* A new rule is not settled, and comes after every rule that is.
LEMMA CreateRuleCompile ==
    ASSUME TypeOK, RollbackOwned, OutcomeInv, Roles, SettledCompile, ReadEnough,
           NEW a \in Admins, NEW b \in RuleBodies, CreateRule(a, b)
    PROVE  SettledCompile' /\ ReadEnough'
<1>1. PICK n \in RuleIds : n = ruleSeq + 1
  BY ConstantsAssumption DEF CreateRule, RuleIds, TypeOK
<1>2. /\ a \in Procs /\ pc[a] = "idle" /\ ~Creating(a) /\ dirs' = dirs
      /\ pc'[a] = "read" /\ onErr'[a] = "rollback" /\ rid'[a] = n
      /\ \A q \in Procs : q # a => pc'[q] = pc[q] /\ onErr'[q] = onErr[q] /\ rid'[q] = rid[q]
  BY <1>1 DEF CreateRule, Accepts, StartReload, Goto, Procs, TypeOK, Roles
<1>3. \A j \in RuleIds : j # n => rules'[j] = rules[j]
  BY <1>1 DEF CreateRule, TypeOK
<1>4. \A i \in RuleIds : i <= ruleSeq => i < n
  BY <1>1 DEF RuleIds, TypeOK
<1>5. \A i, j \in RuleIds : i <= ruleSeq /\ j <= i => j # n
  BY <1>1 DEF RuleIds, TypeOK
<1>6. ASSUME NEW i \in RuleIds, i <= ruleSeq PROVE UpTo(rules', i) = UpTo(rules, i)
  BY <1>3, <1>5, <1>6 DEF UpTo, EnabledRuleDirectives
<1>7. ASSUME NEW i \in RuleIds, rules'[i] # None, ~Unsettled(i)'
      PROVE  CompilesAll(UpTo(rules', i))
  <2>1. i # n
    BY <1>2, <1>7 DEF Unsettled, Creating
  <2>2. rules[i] # None /\ i <= ruleSeq
    BY <1>3, <1>7, <2>1 DEF OutcomeInv, IdsAssigned
  <2>3. ~Unsettled(i)
    BY <1>2, <1>7 DEF Unsettled, Creating
  <2>4. QED BY <1>6, <2>2, <2>3 DEF SettledCompile
<1>8. ASSUME NEW p \in Procs, Creating(p)', pc'[p] = "compile"
      PROVE  Fewer(UpTo(rules', rid'[p]), dirs'[p])
  <2>1. Creating(p) /\ pc[p] = "compile" /\ rid'[p] = rid[p]
    BY <1>2, <1>8 DEF Creating
  <2>2. rid[p] <= ruleSeq /\ rid[p] \in RuleIds
    BY <2>1 DEF OutcomeInv, IdsAssigned, RollbackOwned, Creating
  <2>3. QED BY <1>2, <1>6, <2>1, <2>2 DEF ReadEnough
<1>9. QED BY <1>7, <1>8 DEF SettledCompile, ReadEnough

LEMMA ReadDirectivesCompile ==
    ASSUME TypeOK, SettledCompile, ReadEnough, NEW p \in Procs, ReadDirectives(p)
    PROVE  SettledCompile' /\ ReadEnough'
<1>1. /\ pc[p] = "read" /\ pc'[p] = "compile" /\ dirs'[p] = EnabledRuleDirectives(rules)
      /\ rules' = rules /\ onErr' = onErr /\ rid' = rid
      /\ \A q \in Procs : q # p => pc'[q] = pc[q] /\ dirs'[q] = dirs[q]
  BY DEF ReadDirectives, Goto, TypeOK, store
<1>2. \A i \in RuleIds : Unsettled(i) => Unsettled(i)'
  BY <1>1 DEF Unsettled, Creating
<1>3. SettledCompile'
  BY <1>1, <1>2 DEF SettledCompile
<1>4. ASSUME NEW q \in Procs, Creating(q)', pc'[q] = "compile"
      PROVE  Fewer(UpTo(rules', rid'[q]), dirs'[q])
  <2>1. CASE q = p
    BY <1>1, <2>1, UpToWhole
  <2>2. CASE q # p
    BY <1>1, <1>4, <2>2 DEF ReadEnough, Creating
  <2>3. QED BY <2>1, <2>2
<1>5. QED BY <1>3, <1>4 DEF ReadEnough

\* The engines compile: the rule this reload is for is settled.
LEMMA SwapEnginesCompile ==
    ASSUME Independent, TypeOK, SettledCompile, ReadEnough, NEW p \in Procs, SwapEngines(p)
    PROVE  SettledCompile' /\ ReadEnough'
<1>1. /\ pc[p] = "compile" /\ pc'[p] = "list" /\ CompilesAll(dirs[p])
      /\ rules' = rules /\ onErr' = onErr /\ rid' = rid /\ dirs' = dirs
      /\ \A q \in Procs : q # p => pc'[q] = pc[q]
  BY DEF SwapEngines, Goto, TypeOK, store, locals, CompilesAll
<1>2. ASSUME NEW i \in RuleIds, rules[i] # None, ~Unsettled(i)'
      PROVE  CompilesAll(UpTo(rules, i))
  <2>1. CASE ~Unsettled(i)
    BY <1>2, <2>1 DEF SettledCompile
  <2>2. CASE Unsettled(i)
    <3>1. Creating(p) /\ rid[p] = i
      BY <1>1, <1>2, <2>2 DEF Unsettled, Creating
    <3>2. Fewer(UpTo(rules, i), dirs[p])
      BY <1>1, <3>1 DEF ReadEnough
    <3>3. UpTo(rules, i) \in DirectiveList /\ dirs[p] \in DirectiveList
      BY UpToTyped DEF TypeOK
    <3>4. QED BY <1>1, <3>2, <3>3 DEF Independent
  <2>3. QED BY <2>1, <2>2
<1>3. SettledCompile'
  BY <1>1, <1>2 DEF SettledCompile
<1>4. ReadEnough'
  BY <1>1 DEF ReadEnough, Creating
<1>5. QED BY <1>3, <1>4

LEMMA CarefulStep ==
    ASSUME ~StoreFaults, Independent, TypeOK, TypeOK', RollbackOwned, OutcomeInv, CarefulInv,
           [Next /\ Harmless]_vars
    PROVE  CarefulInv'
<1> USE DEF CarefulInv
<1>0. Keeps => SettledCompile' /\ ReadEnough'
  BY KeepsCompile
<1>1. [Next]_vars
  OBVIOUS
<1>2. Turns' /\ Roles' /\ BaseCompiles'
  BY <1>1, RolesStep, BaseStep
<1>3. ASSUME NEW a \in Admins, Request(a), Harmless PROVE SettledCompile' /\ ReadEnough'
  BY <1>0, <1>3, RequestKeeps, CreateRuleCompile DEF Request
<1>4. ASSUME NEW p \in Procs, Step(p) PROVE SettledCompile' /\ ReadEnough'
  BY <1>0, <1>4, StepKeeps, ReadDirectivesCompile, SwapEnginesCompile DEF Step
<1>5. CASE Boot
  <2>1. /\ Main \in Procs /\ pc[Main] = "idle" /\ onErr'[Main] = "fatal" /\ rules' = rules
        /\ rid' = rid /\ dirs' = dirs
        /\ \A q \in Procs : q # Main => pc'[q] = pc[q] /\ onErr'[q] = onErr[q]
    BY <1>5 DEF Boot, StartReload, Goto, Procs, TypeOK, store
  <2>2. Keeps
    BY <2>1, SameFewer DEF Keeps, Open, Creating, Roles
  <2>3. QED BY <1>0, <1>2, <2>2
<1>6. CASE Crash /\ Harmless
  <2>1. Exit /\ rules' = rules /\ \A p \in Procs : ~Creating(p)
    BY <1>6 DEF Crash, Harmless, store
  <2>2. QED BY <1>0, <1>2, <2>1, ExitKeeps
<1>7. CASE UNCHANGED vars
  <2>1. Keeps
    BY <1>7, SameFewer DEF Keeps, Open, Creating, vars, store, locals
  <2>2. QED BY <1>0, <1>2, <2>1
<1>8. QED BY <1>2, <1>3, <1>4, <1>5, <1>6, <1>7 DEF Next

LEMMA CarefulInit == Init => CarefulInv
<1> SUFFICES ASSUME Init PROVE CarefulInv
  OBVIOUS
<1>1. /\ ~up /\ Main \in Procs
      /\ \A p \in Procs : pc[p] = "idle" /\ onErr[p] = "report"
      /\ \A i \in RuleIds : rules[i] = None
  BY DEF Init, Procs
<1>2. Turns /\ Roles /\ BaseCompiles
  BY <1>1 DEF Turns, Roles, BaseCompiles, Creating, Procs
<1>3. SettledCompile /\ ReadEnough
  BY <1>1 DEF SettledCompile, ReadEnough
<1>4. QED BY <1>2, <1>3 DEF CarefulInv

\* The steps of CarefulSpec are steps of Spec.
LEMMA CarefulIsSpec == CarefulSpec => Spec
<1>1. [Next /\ Harmless]_vars => [Next]_vars
  OBVIOUS
<1>2. QED BY <1>1, PTL DEF CarefulSpec, Spec

(***************************************************************************)
(* Where no rule text needs another and no statement fails, the stored     *)
(* rules compile whenever nobody is under way, for any number of admins    *)
(* who create and delete rules and sites at once: only an update of a      *)
(* rule, or a crash during a creation, can leave the store with rules that *)
(* keep the process from starting (createRule, updateRule, reload).        *)
(***************************************************************************)
THEOREM CreationsStayLoadable ==
    Independent /\ ~StoreFaults => (CarefulSpec => []LoadableWhenQuiet)
<1> SUFFICES ASSUME Independent, ~StoreFaults PROVE CarefulSpec => []LoadableWhenQuiet
  OBVIOUS
<1>1. TypeOK /\ TypeOK' /\ RollbackOwned /\ OutcomeInv /\ CarefulInv /\ [Next /\ Harmless]_vars
         => CarefulInv'
  BY CarefulStep
<1>2. TypeOK /\ OutcomeInv /\ CarefulInv => LoadableWhenQuiet
  BY QuietLoadable
<1>3. QED BY <1>1, <1>2, CarefulInit, CarefulIsSpec, TypeCorrect, OutcomeInvariant, PTL
          DEF CarefulSpec
=============================================================================
