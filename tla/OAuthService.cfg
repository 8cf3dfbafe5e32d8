SPECIFICATION FairSpec
CONSTANTS
    TTL = 1
    NoCallback = NoCallback
    NoToken = NoToken
    NoAccount = NoAccount
    NoGrant = NoGrant
    States = {s1, s2}
    Callbacks = {c1, c2}
    Accounts = {a1, a2}
    MaxTime = 1
INVARIANTS
    TypeOK
    AuthorisedOnce
    SpentMeansConnected
    TokensOfTheirAccount
PROPERTIES
    RefreshTokenSurvives
    EveryCallbackEnds
    ImplementsRegister
