SPECIFICATION Spec
CONSTANTS
    Phrases <- MCPhrases
INVARIANTS
    WinnerIsFirstBest
    ConfidenceIsEvidence
PROPERTIES
    LongerTextKeepsEvidence
