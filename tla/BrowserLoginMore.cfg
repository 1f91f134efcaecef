SPECIFICATION LoginSpec
CONSTANTS
    MaxTokens = 3
    MaxStarts = 2
    Tabs = {1, 2}
INVARIANTS
    TypeOK
    LoginTypeOK
PROPERTY WritesOnlyRotated
