SPECIFICATION LoginSpec
CONSTANTS
    MaxTokens = 2
    MaxStarts = 1
    Tabs = {1}
INVARIANT SignedOutForgets
PROPERTY PageIsSent
