\* A dial by name racing the first SetNameProxy (lines 584 and 594).
CONSTANTS
    Threads = {t1, t2}
    Endpoints = {p1, p2}
    NoService = NoService
    NoDest = NoDest
    Nets <- MCNets
    Dests <- MCDests
    Names <- MCNames
    NameKind <- MCNameKind
    NameDest <- MCNameDest
    fNameLookup = TRUE
    MaxSets = 2
SYMMETRY MCSymmetry
SPECIFICATION Spec
INVARIANTS
    NameProxyDialedValid
\* Every dial returns; a finished run has no further step.
CHECK_DEADLOCK FALSE
