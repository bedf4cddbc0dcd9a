SPECIFICATION Spec
CONSTANTS
    None = None
    Main = Main
    Admins = {a1}
    Domains <- MCDomains
    Lower <- MCLower
    Upstreams = {"good", "bad"}
    ValidUpstreams = {"good"}
    Certs = {"pem", "nopem"}
    LoadableCerts = {"pem"}
    Directives <- MCDirectives
    Compiles <- MCCompiles
    SiteBodies <- MCSiteBodies
    RuleBodies <- MCRuleBodies
    MaxSites = 2
    MaxRules = 2
    StoreFaults = FALSE
INVARIANT InSyncWhenQuiet
