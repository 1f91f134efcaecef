SPECIFICATION FairLogin
CONSTANTS
    MaxTokens = 3
    MaxStarts = 2
    Tabs = {1, 2}
INVARIANTS
    StoredIsTheSources
    FirstAnswerDecides
PROPERTY RequestsReturn
