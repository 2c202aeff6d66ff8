SPECIFICATION FairSpec
CONSTANTS
    Osd <- MCOsd
    Scenarios <- MCScenarios
    PVC = {"pvc1", "pvc2", "pvc3"}
    Node = {"node1"}
    Domain <- MCDomain
    InitDisk <- MCDisk
    Spare = TRUE
    MaxEvents = 1
    OSDMaxUpdatesInParallel = 2
    UpgradeOSDRequiresHealthyPGs = FALSE
    ContinueUpgradeAfterChecks = FALSE
    SkipUpgradeChecks = FALSE
    PromptStop = TRUE
INVARIANTS TypeOK OneOSDAtATime DataAvailable SuccessMeansDone
PROPERTY Converges
