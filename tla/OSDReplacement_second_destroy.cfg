SPECIFICATION Spec
CONSTANTS
    OSDs = {"o1"}
    Devices = {"o1", "d2"}
    Encrypted = {}
    Replaceable = {"o1"}
    Requestable = {"o1"}
    Meddled = {}
    Values = {"ok"}
    RemoveOut = FALSE
    Faulty = FALSE
    SkipListFails = FALSE
    MaxRestarts = 0
PROPERTY NewDiskNotDestroyed
