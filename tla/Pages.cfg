SPECIFICATION Spec
CONSTANTS
    Emails <- MCEmails
    ReceivedAt <- MCReceivedAt
    Id <- MCId
    Limit = 2
INVARIANTS
    TypeOK
    WalkMissesNothing
    PageWithinTotal
    RepeatsAreArrivals
PROPERTIES
    ListedIsFound
