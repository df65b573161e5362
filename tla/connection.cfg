SPECIFICATION ConnectionSpec
CONSTANTS
    Streams = {r1, r2, r3}
    Tls = TRUE
    HasDeadline = TRUE
    HasIdle = TRUE
INVARIANTS
    TimersCutNothing
    IdleCloseAnnounced
    NoLostWakeup
PROPERTIES
    ResolvesOnlyWhenQuiet
    UnusedEnds
    StopIsSeen
