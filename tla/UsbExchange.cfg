SPECIFICATION FairSpec
CONSTANTS
    a = a
    q = q
    d1 = d1
    Names = {a, q}
    PcFiles = {d1}
    Partial = Partial
    Safe <- MCSafe
    NameOf <- MCNameOf
    NTabs = 2
    MaxJobs = 2
CHECK_DEADLOCK FALSE
INVARIANTS TypeOK ReportsAreTrue
PROPERTIES SavedUnderNewNames BusyEnds
