--------------------------- MODULE MCControlPlane ---------------------------
(***************************************************************************)
(* Instances of ControlPlane for TLC.  A domain is a number, in SQLite's   *)
(* order; 1 is a spelling with capitals whose lower-case form is 2.  No    *)
(* two sites of an instance are spellings of the same host.                *)
(***************************************************************************)
EXTENDS ControlPlane, TLC

\* Coraza refuses a text it cannot parse ("bad") and a rule id used twice, that
\* is, the same rule text in two rules.
MCCompiles(ds, m) ==
    /\ \A i \in RuleIds : ds[i] # "bad"
    /\ \A i, j \in RuleIds : i # j /\ ds[i] # None => ds[i] # ds[j]

MCDomains == {1, 2, 3}
MCLower == [d \in MCDomains |-> IF d = 1 THEN 2 ELSE d]

MCDirectives == {"good", "bad"}

SiteB(d, u, w, t, c, e) ==
    [domain |-> d, upstream |-> u, waf |-> w, tls |-> t, cert |-> c, enabled |-> e]

\* One inspected site with a default TLS mode.
MCOneSite == {SiteB(1, "good", "on", None, None, TRUE)}

\* The same site inspected and not inspected.
MCTwoSites == {SiteB(1, "good", "on", None, None, TRUE),
               SiteB(1, "good", "detection", "off", None, TRUE)}

\* The same site in several modes, a second site, and bodies that are refused or
\* that are stored but cannot be routed.
MCSiteBodies ==
    {SiteB(1, "good", None, None, None, TRUE),
     SiteB(1, "good", "off", "manual", "pem", TRUE),
     SiteB(3, "good", "detection", "off", None, TRUE),
     SiteB(3, "bad", "on", "manual", "nopem", TRUE),
     SiteB(3, "good", "on", "manual", "nopem", FALSE),
     SiteB(1, "good", "unknown", "auto", None, TRUE),
     SiteB(1, "good", "on", "manual", None, TRUE),
     SiteB(None, "good", "on", "auto", None, TRUE)}

RuleB(d, e) == [directive |-> d, enabled |-> e]
MCRuleBodies == {RuleB("good", TRUE), RuleB("bad", TRUE), RuleB("bad", FALSE), RuleB(None, TRUE)}
MCTwoRules == {RuleB("good", TRUE), RuleB("bad", TRUE)}

Symmetry == Permutations(Admins)
=============================================================================
