SPECIFICATION Spec
CONSTANTS
    Endpoints <- Crossing
    Interceptors = {"n1", "c1", "c2"}
    Cors = {"c1", "c2"}
    Override <- CrossingOverride
    GroupPrefixes <- NoPrefix
    NestPrefixes <- Grouped
    MaxCalls = 5
INVARIANTS
    ChainsAsWritten
    AllowIsTrue
    PreflightIsTrue
    SlashPoliciesAgree
