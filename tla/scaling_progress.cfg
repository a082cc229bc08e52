SPECIFICATION FairSpec
CONSTANTS
    Nil = Nil
    Slots <- MCSlots
    CpuSlots = {}
    DefaultMinChange = 1
    Pods = {p1}
    Specs <- MCAutoSpecs
    InitialTarget <- MCInitialTarget
    UserTargets <- MCUserTargets
    HpaStatuses <- MCScaleOutStatus
    Recommendations <- MCRecommendations
    MaintenanceTimes <- MCMaintenanceTimes
    MaxTime = 1
    MaxEdits = 1
    MaxKills = 0
    MaxFaults = 1
INVARIANTS
    TypeOK
PROPERTIES
    DueScalingHappens
CHECK_DEADLOCK FALSE
