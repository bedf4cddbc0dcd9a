SPECIFICATION MCSpec
CONSTANTS
    None = None
    Requests = {r1, r2, r3}
    Hosts <- MCHosts
    Domains <- MCDomains
    DomainOf <- MCDomainOf
    Tables <- MCTables
    Limited = TRUE
    Buffer = 2
INVARIANT TypeOK
INVARIANT BlockedTold
INVARIANT ReportedOnce
INVARIANT StatusTold
PROPERTY LogRefined
PROPERTY ShutdownWaits
PROPERTY SinkNeverBlocks
PROPERTY EventsWritten
