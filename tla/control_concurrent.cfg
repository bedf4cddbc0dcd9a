SPECIFICATION Spec
CONSTANTS
    None = None
    Main = Main
    Admins = {a1, a2}
    Domains <- MCDomains
    Lower <- MCLower
    Upstreams = {"good", "bad"}
    ValidUpstreams = {"good"}
    Certs = {"pem", "nopem"}
    LoadableCerts = {"pem"}
    Directives <- MCDirectives
    Compiles <- MCCompiles
    SiteBodies <- MCTwoSites
    RuleBodies <- MCTwoRules
    MaxSites = 1
    MaxRules = 2
    StoreFaults = TRUE
INVARIANT TypeOK
INVARIANT InspectedSitesGuarded
INVARIANT RejectedRuleGone
INVARIANT AckedRuleSurvives
SYMMETRY Symmetry
