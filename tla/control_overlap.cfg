SPECIFICATION Spec
CONSTANTS
    None = None
    Main = Main
    Admins = {a1, a2}
    Domains <- MCDomains
    Lower <- MCLower
    Upstreams = {"good", "bad"}
    ValidUpstreams = {"good"}
    Certs = {"pem", "nopem"}
    LoadableCerts = {"pem"}
    Directives <- MCDirectives
    Compiles <- MCCompiles
    SiteBodies <- MCOneSite
    RuleBodies <- MCTwoRules
    MaxSites = 1
    MaxRules = 1
    StoreFaults = FALSE
INVARIANT InSyncWhenQuiet
