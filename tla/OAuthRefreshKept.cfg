SPECIFICATION Spec
CONSTANTS
    TTL = 1
    NoCallback = NoCallback
    NoToken = NoToken
    NoAccount = NoAccount
    NoGrant = NoGrant
    States = {s1, s2, s3}
    Callbacks = {c1, c2, c3}
    Accounts = {a1}
    MaxTime = 0
SYMMETRY Symmetry
PROPERTIES
    StoredRefreshTokenIsKept
