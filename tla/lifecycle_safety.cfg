SPECIFICATION Spec
CONSTANTS
    Listeners = {l1, l2}
    Conns = {c1, c2, c3}
    MaxConnections = 2
    Tls = TRUE
    ZeroTimeouts = {TRUE, FALSE}
SYMMETRY Symmetry
INVARIANTS
    PermitsConserved
    CutOnlyWhenForced
    ReturnStopsEverything
    AtMostOneLateAccept
