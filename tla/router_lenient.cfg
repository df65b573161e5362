SPECIFICATION Spec
CONSTANTS
    Endpoints <- Overlapping
    Interceptors = {}
    Cors = {}
    Override <- CrossingOverride
    GroupPrefixes <- NoPrefix
    NestPrefixes <- NoPrefix
    MaxCalls = 3
INVARIANTS
    DeclaredSpellingWins
