SPECIFICATION Spec
CONSTANTS
    Nil = Nil
    Slots <- MCSlots
    CpuSlots = {}
    DefaultMinChange = 1
    Pods = {p1}
    Specs <- MCVpaOnlySpecs
    InitialTarget <- MCInitialTarget
    UserTargets <- MCUserTargets
    HpaStatuses <- MCHpaStatuses
    Recommendations <- MCRecommendations
    MaintenanceTimes <- MCMaintenanceTimes
    MaxTime = 1
    MaxEdits = 0
    MaxKills = 0
    MaxFaults = 1
PROPERTIES
    MinimumDelay
CHECK_DEADLOCK FALSE
