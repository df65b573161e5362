SPECIFICATION ExchangeSpec
CONSTANTS
    q1 = q1
    q2 = q2
    q3 = q3
    Requests = {q1, q2, q3}
    Limit = 1
    Queueing = {q1, q2}
    Readers = {q1}
    Configs <- MCConfigs
INVARIANTS
    SlotsConserved
    InFlightBounded
    ReportsAreTrue
    IdleCutsSilenceOnly
PROPERTIES
    WaitsEnd
    BoundedExchangesEnd
CHECK_DEADLOCK FALSE
