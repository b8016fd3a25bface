\* Two dialers racing the configuring thread; -dns on.
CONSTANTS
    Threads = {t1, t2}
    Endpoints = {p1, p2}
    NoService = NoService
    NoDest = NoDest
    Nets <- MCNets
    Dests <- MCDests
    Names <- MCNames
    NameKind <- MCNameKind
    NameDest <- MCNameDest
    fNameLookup = TRUE
    MaxSets = 2
SYMMETRY MCSymmetry
SPECIFICATION Spec
INVARIANTS
    TypeOK
    NoSocketLeak
    ProxyNeverBypassed
    NoResolverLeak
PROPERTIES
    ImplementsConnectAbstract
\* Every dial returns; a finished run has no further step.
CHECK_DEADLOCK FALSE
