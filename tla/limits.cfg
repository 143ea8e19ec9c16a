\* Two accounts, three texts, one refill of a login bucket.
SPECIFICATION Spec
CONSTANTS
    Chars <- MCChars
    Small <- MCSmall
    MaxEmailLen = 6
    MaxUsers = 2
    Texts <- MCTexts
    Limit <- MCLimit
    Refills <- MCRefills
INVARIANTS
    TypeOK
    TriesPerAddress
    RefusalsEarned
    GuessesPerAccount
    SpellingsReachAccount
    
