SPECIFICATION Spec
CONSTANTS
    Listeners = {l1, l2}
    Conns = {c1}
    MaxConnections = 1
    Tls = FALSE
    ZeroTimeouts = {TRUE, FALSE}
PROPERTIES
    ConnectionsEnd
    ImplementsGracefulStop
