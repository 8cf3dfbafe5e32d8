SPECIFICATION PlainSpec
CONSTANTS
    sure = sure
    vague = vague
    ghost = ghost
    Emails = {sure, vague, ghost}
    Stored = {sure, vague}
    Confident = {sure}
    AiConfigured = TRUE
    NoRow = NoRow
    NoRequest = NoRequest
    Requests = {r1, r2}
    MaxAttempts = 2
PROPERTIES
    OnlyForceReplaces
