\* Three concurrent appends of two tenants to two streams: a stale snapshot can
\* be overtaken by a commit while another rival still waits for the same key.
CONSTANTS
    Event = {e1, e2, e3}
    Stream = {s1, s2}
    Tenant = {t1, t2}
SPECIFICATION FairSpec
INVARIANTS TypeOK GapFree AckedIsDurable
PROPERTIES AppendsAtTail ImplementsEventLog AppendTerminates
CHECK_DEADLOCK FALSE
