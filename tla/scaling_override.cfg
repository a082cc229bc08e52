SPECIFICATION Spec
CONSTANTS
    Nil = Nil
    Slots <- MCSlots
    CpuSlots = {}
    DefaultMinChange = 1
    Pods = {p1}
    Specs <- MCVpaOnlySpecs
    InitialTarget <- MCInitialTarget
    UserTargets <- MCUserTargets
    HpaStatuses <- MCHpaStatuses
    Recommendations <- MCRecommendations
    MaintenanceTimes <- MCMaintenanceTimes
    MaxTime = 2
    MaxEdits = 0
    MaxKills = 1
    MaxFaults = 1
INVARIANTS
    RecordKept
    RecordTruthful
PROPERTIES
    StabilizationHonoured
    OverrideOutlivesOldReconciles
    OverrideForUnansweredKill
CHECK_DEADLOCK FALSE
