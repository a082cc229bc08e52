SPECIFICATION Spec
CONSTANTS
    Nil = Nil
    Slots <- MCSlots
    CpuSlots = {}
    DefaultMinChange = 1
    Pods = {p1}
    Specs <- MCTwoSpecs
    InitialTarget <- MCInitialTarget
    UserTargets <- MCUserTargets
    HpaStatuses <- MCHpaStatuses
    Recommendations <- MCRecommendations
    MaintenanceTimes <- MCMaintenanceTimes
    MaxTime = 2
    MaxEdits = 1
    MaxKills = 0
    MaxFaults = 0

    
PROPERTIES
    StabilizationHonoured
    ScalesTowardsRecommendation
CHECK_DEADLOCK FALSE
