SPECIFICATION Spec
CONSTANTS
    Nil = Nil
    Slots <- MCSlots
    CpuSlots = {}
    DefaultMinChange = 1
    Pods = {p1}
    Specs <- MCAutoSpecs
    InitialTarget <- MCInitialTarget
    UserTargets <- MCUserTargets
    HpaStatuses <- MCHpaStatuses
    Recommendations <- MCRecommendations
    MaintenanceTimes <- MCMaintenanceTimes
    MaxTime = 1
    MaxEdits = 0
    MaxKills = 1
    MaxFaults = 0
PROPERTIES
    OverrideOnlyForScaleUp
CHECK_DEADLOCK FALSE
