SPECIFICATION Spec
CONSTANTS
    Kinds = {"served", "asset", "directory", "plain"}
    Versions <- MCVersions
    Length <- MCLength
    Modified <- MCModified
    Stamp <- MCStamp
    Alike <- MCAlike
    OtherRanges <- MCRanges
    SPAN = 2
INVARIANTS
    NoSplicing
    ConfirmedIsCurrent
    DeliveredAsFramed
    BodyOfOneVersion
    OneTagOneRepresentation
