CONSTANTS
    Procs = {p1, p2}
    Subjects = {s1, s2}
    Dirs = {d1, d2}
    NoProc = NoProc
    NoDir = NoDir
    NoReg = NoReg
    MaxTokens = 2
    MaxDeaths = 1
    MaxFaults = 2
SPECIFICATION Spec
INVARIANTS RefreshSentOnce RequestUsesSession OpenDomainIntact
PROPERTIES CommittedOnCatalogSession
CHECK_DEADLOCK FALSE
SYMMETRY Symmetry
