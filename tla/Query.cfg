\* Three events of two tenants and two streams become searchable in any order
\* while a client walks one of the routes, two events at most to a page.
CONSTANTS
    Event = {1, 2, 3}
    Stream = {s1, s2}
    Tenant = {t1, t2}
    Time = {0, 1, 2}
    Milli = 2
    NoStream = NoStream
    NoTenant = NoTenant
    Limit <- Limits
    Offset <- Offsets
    DefaultLimit = 1
    MaxLimit = 2
    MaxResultWindow = 4
SPECIFICATION Spec
SYMMETRY Symmetry
INVARIANTS TypeOK WalkIsComplete OnlyOwnEvents UndisturbedWalkIsExact
CHECK_DEADLOCK FALSE
