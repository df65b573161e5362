SPECIFICATION Spec
CONSTANTS
    Listeners = {l1}
    Conns = {c1}
    MaxConnections = 1
    Tls = FALSE
    ZeroTimeouts = {TRUE, FALSE}
INVARIANTS
    OkOnlyOnRequest
