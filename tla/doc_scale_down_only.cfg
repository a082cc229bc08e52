SPECIFICATION FairSpec
CONSTANTS
    Nil = Nil
    Slots <- MCSlots
    CpuSlots = {}
    DefaultMinChange = 1
    Pods = {p1}
    Specs <- MCOnlyDownSpecs
    InitialTarget <- MCLargeTarget
    UserTargets <- MCUserTargets
    HpaStatuses <- MCHpaStatuses
    Recommendations <- MCRecommendations
    MaintenanceTimes <- MCMaintenanceTimes
    MaxTime = 1
    MaxEdits = 0
    MaxKills = 0
    MaxFaults = 0
PROPERTIES
    ScaleDownWithScaleUpOff
CHECK_DEADLOCK FALSE
