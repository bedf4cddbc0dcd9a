SPECIFICATION Spec
CONSTANTS
    None = None
    Clients = {c1, c2}
    Users = {"b|b"}
    BarUsers = {"b|b"}
    Passwords = {"chosen", "short", "long"}
    ShortPasswords = {"short"}
    LongPasswords = {"long"}
    RandomPasswords = {"random"}
    Secrets = {s1, s2}
    sessionDuration = 1
    MaxTime = 2
    StoreFaults = TRUE
INVARIANT TypeOK
INVARIANT SessionsSurvive
INVARIANT PasswordKnown
INVARIANT AdmittedAfterLogin
PROPERTY RestartKeepsPassword
SYMMETRY Symmetry
