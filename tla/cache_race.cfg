SPECIFICATION Spec
CONSTANTS
    Requests = {q1, q2, q3}
    Targets = {"t1"}
    Fields = {"origin"}
    v1 = v1
    v2 = v2
    Values = {v1, v2}
    Asked <- WriteAsked
    Answers <- WriteAnswers
    Unstated = Unstated
    Unreadable = Unreadable
    DefaultFreshness = Unstated
    MaxTime = 0
SYMMETRY Symmetry
INVARIANTS
    NextGetSeesWrite
