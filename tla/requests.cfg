SPECIFICATION RequestsSpec
CONSTANTS
    Shards <- Collide
    ShortLen = 1
    Reqs = {r1, r2}
    Auths = {k1}
    None = none
    Absent = absent
    Calls = {k1, k2}
    Missing = missing
    Short = short
    Wrong = wrong
    MaxRotations = 2
    Requests = {r1, r2}
    Apps = {app1}
    Clients = {"terminal", "peer"}
    Uris <- TwoUris
    Metas <- TwoMetas
    NoMeta = nometa
    NoRow = norow
    Never = never
    Unread = unread
    Nothing = nothing
    NoRule = norule
    Routable = {app1, app2}
    Containers = {c1, c2}
    MaxRoutable = 2
    MaxEntrypoints = 2
    Frequency = 1
    MaxTime = 1
    MaxChanges = 2
SYMMETRY Symmetry
INVARIANTS AuthenticatedByKey SecretDecides CacheFollows GrantedByRules AccessNoted ConfigSound
PROPERTY NoLateReturn
CHECK_DEADLOCK FALSE
