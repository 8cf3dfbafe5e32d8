SPECIFICATION Spec
CONSTANTS
    Words <- MCWords
    WordOf <- MCWordOf
    PlainTexts <- MCPlainTexts
    Snippets <- MCSnippets
    Tags <- MCTags
    Data <- MCData
    MaxEvents = 5
    MaxParts = 2
CONSTRAINT LongOnlyOfHtml
INVARIANTS
    TypeOK
    ActiveTextIsHidden
    OutsideTextIsShown
    BodyIsReadableText
    
    FingerprintIsOfWords
