SPECIFICATION FairSpec
CONSTANTS
    Nil = Nil
    Rival = Rival
    Children = {c1, c2}
    Labels = {red, blue}
    Templates = {t, bare}
    Unsyncable = {bare}
    Incarnations = 1
    AutoscalingV2 = FALSE
    MaxEdits = 1
    MaxFaults = 1
PROPERTIES
    ClaimsAsDocumented
    Converges
CHECK_DEADLOCK FALSE
