SPECIFICATION Spec
CONSTANTS
    None = None
    Feed <- MCFeed
    Fetches = {f1, f2}
    TopLimit = 1
    MaxClicks = 1
    MaxFaults = 1
INVARIANT TypeOK
INVARIANT ShownForView
INVARIANT StatsCoherent
PROPERTY NeverBackwards
PROPERTY Refreshed
