SPECIFICATION Spec
CONSTANTS
    OSDs = {"o1"}
    Devices = {"o1"}
    Encrypted = {"o1"}
    Replaceable = {"o1"}
    Requestable = {"o1"}
    Meddled = {"o1"}
    Values = {"ok", "typo"}
    RemoveOut = FALSE
    Faulty = TRUE
    SkipListFails = FALSE
    MaxRestarts = 1
INVARIANTS TypeOK NoCloseUnderDaemon SwapIsSafe
PROPERTIES DestroyOnlyDrained NeverRevived
