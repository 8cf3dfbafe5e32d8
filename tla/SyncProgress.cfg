SPECIFICATION FairSpec
CONSTANTS
    a1 = a1
    a2 = a2
    m1 = m1
    m2 = m2
    n1 = n1
    Accounts = {a1, a2}
    Mailbox <- MCMailbox
    Recency <- MCRecency
    Oversized = {}
    NoAccount = NoAccount
    NoRequest = NoRequest
    Syncs = {q1, q2}
    Callbacks = {k1}
    Limit = 2
PROPERTIES
    EverySyncEnds
