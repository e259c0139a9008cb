\* Every entry with a script of two steps; the connection ends.
SPECIFICATION ProfileSpec
CONSTANTS
    MaxScript = 2
    Pins <- OnePin
INVARIANTS ProfileInv AnswersAreOwn ScriptGetsThrough
CHECK_DEADLOCK FALSE
