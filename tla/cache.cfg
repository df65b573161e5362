SPECIFICATION Spec
CONSTANTS
    Requests = {q1, q2, q3}
    Targets = {"t1"}
    Fields = {"origin"}
    v1 = v1
    v2 = v2
    Values = {v1, v2}
    Asked <- MCAsked
    Answers <- MCAnswers
    Unstated = Unstated
    Unreadable = Unreadable
    DefaultFreshness = 1
    MaxTime = 1
SYMMETRY Symmetry
CONSTRAINT InScope
INVARIANTS
    RightRepresentation
    NobodyElses
    GuardCoversOldEntries
    NeverFreshNeverReused
    SurvivorsWerePutLater
