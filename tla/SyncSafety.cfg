SPECIFICATION Spec
CONSTANTS
    a1 = a1
    a2 = a2
    m1 = m1
    m2 = m2
    n1 = n1
    Accounts = {a1, a2}
    Mailbox <- MCMailbox
    Recency <- MCRecency
    Oversized = {m1}
    NoAccount = NoAccount
    NoRequest = NoRequest
    Syncs = {q1, q2}
    Callbacks = {k1, k2}
    Limit = 2
SYMMETRY Symmetry
INVARIANTS
    TypeOK
    StoredOnce
    ListedIsAccounted
PROPERTIES
    ImplementsRegister
