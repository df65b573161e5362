SPECIFICATION Spec
CONSTANTS
    Requests = {q1, q2, q3}
    Window <- BurstAndDaily
    Ceiling <- BurstAndDailyCeilings
    Allows = FALSE
    Unlucky = {q1}
    InFlight = 2
    StartTime = 4
    MaxTime = 8
SYMMETRY Symmetry
INVARIANTS
    RefusalSpendsNothing
    OvershootBounded
    RetryAfterSuffices
CHECK_DEADLOCK FALSE
