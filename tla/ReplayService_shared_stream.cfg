\* Two tenants use the same stream_id; one of them replays its own.
CONSTANTS
    Event = {e1, e2, e3}
    Stream = {s1}
    Tenant = {t1, t2}
    NonObject = {}
    NoStream = NoStream
    NoTenant = NoTenant
    Caller = {t1}
    Client = {c1}
    FromVersion <- FromStart
SPECIFICATION Spec
INVARIANTS GapMeansMissingVersion
