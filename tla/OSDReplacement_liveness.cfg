SPECIFICATION FairSpec
CONSTANTS
    OSDs = {"o1"}
    Devices = {"o1"}
    Encrypted = {"o1"}
    Replaceable = {"o1"}
    Requestable = {"o1"}
    Meddled = {}
    Values = {"ok"}
    RemoveOut = TRUE
    Faulty = FALSE
    SkipListFails = FALSE
    MaxRestarts = 1
INVARIANT SwapIsSafe
PROPERTIES TeardownNotForgotten CancelRestores ReplacementAdvances
