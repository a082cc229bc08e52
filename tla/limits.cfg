SPECIFICATION Spec
CONSTANTS
    Slots = {"cpu", "memory"}
    CpuSlots = {"cpu"}
    DefaultMinChange = 200
    Nil = Nil
    Specs <- MCSpecs
    Containers <- MCContainers
    Recommendations <- MCRecommendations
    MaxEdits = 1
    MaxReports = 2
INVARIANTS
    TypeOK
    AcceptedByServer
    CpuShareNeverGrows
PROPERTIES
    EqualStaysEqual
    MovesTowardsRecommendation
    FollowsRecommendation
CHECK_DEADLOCK FALSE
