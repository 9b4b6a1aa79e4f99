\* Two tenants append to a stream; two clients replay it, from any version.
CONSTANTS
    Event = {e1, e2, e3, e4}
    Stream = {s1}
    Tenant = {t1, t2}
    NonObject = {e4}
    NoStream = NoStream
    NoTenant = NoTenant
    Caller = {t1, NoTenant}
    Client = {c1, c2}
    FromVersion <- FromVersions
SPECIFICATION Spec
INVARIANTS ReplayIsFaithful ResumedReplayIsComplete OwnStreamHasNoGap
