SPECIFICATION Spec
CONSTANTS
    Nil = Nil
    Rival = Rival
    Children = {c1, c2}
    Labels = {red, blue}
    Templates = {t}
    Unsyncable = {}
    Incarnations = 1
    AutoscalingV2 = TRUE
    MaxEdits = 2
    MaxFaults = 1
SYMMETRY Symmetry
PROPERTIES
    ClaimsAsDocumented
CHECK_DEADLOCK FALSE
