SPECIFICATION FairSpec
CONSTANTS
    Requests = {r1, r2, r3}
    PoolSize = 1
    MaxOverflow = 1
    StartupCheck = TRUE
    Raised <- MCRaised
    MaxOutages = 1
INVARIANTS
    TypeOK
    OutagesAreNotRemembered
    ReadyMeansUp
    AnswerMatchesDatabase
    ConnectionsComeBack
PROPERTIES
    
    EverythingEnds
