SPECIFICATION AccountsSpec
CONSTANTS
    Terms = {t1, t2, t3}
    Checks = {k1}
    Codes = {c1, c2}
    None = none
    MaxIssued = 2
    Ids = {a, b, c}
    Initial = a
    Reqs = {r1, r2}
    Fills = {f1}
    NoId = none
    i1 = i1
    i2 = i2
    prefix = prefix
    unknown = unknown
    Owners = {i1, i2}
    Names <- FourNames
    Glob <- TheirGlob
    Extensions = {png, jpg}
    Uploads = {r1, r2}
    NoName = none
SYMMETRY Symmetry
INVARIANTS GrantedRightly SettledTokensValid CodeSpent FirstNoticed
INVARIANTS DefaultKept CacheFollows LatestShown
CHECK_DEADLOCK FALSE
