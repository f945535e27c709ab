SPECIFICATION Spec
CONSTANTS
    Amal = Amal
    Phones <- OnePhone
    Inactive <- Nobody
    Devices = {d1, d2}
    Sessions = {1, 2}
    Codes = {1, 2}
    MaxAttempts = 1
    MaxTokens = 2
    MaxVersion = 2
    MaxRows = 3
INVARIANTS
    TypeOK
    TokensFollowPassword
    ClientTokenIsCurrent
PROPERTIES
    AccountsAreKept
    RevocationSticks
    SpentCodesStaySpent
SYMMETRY Symmetry
CHECK_DEADLOCK FALSE
