\* Tokens of two endpoints, refreshed, expiring, under restarts with other modes
\* and secrets.
CONSTANTS
    s1 = s1
    s2 = s2
    Tenant = {t1}
    Subject = {u1}
    RoleSet = {"reader"}
    NoRoles = NoRoles
    Blank = ""
    Secret = {s1, s2}
    Config <- AllConfigs
    Lifetime <- Lifetimes
    Second = 3
    Hour = 6
    Day = 9
    Month = 12
    Word = 32
    MaxLag = 2
    MaxClock = 10
    MaxTokens = 3
    MaxApproved = 1
    MaxRestarts = 2
SPECIFICATION Spec
INVARIANTS LifetimeIsBounded JWTIsAccepted ScopeComesFromGrant
PROPERTIES LapsedStaysLapsed
CHECK_DEADLOCK FALSE
