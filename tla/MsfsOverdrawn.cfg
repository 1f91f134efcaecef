SPECIFICATION Spec
CONSTANT MaxMessages = 3
INVARIANT MenuIsNeverLive
PROPERTY DataComesFirst
