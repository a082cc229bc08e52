SPECIFICATION Spec
CONSTANTS
    Nil = Nil
    Rival = Rival
    Children = {c1, c2}
    Labels = {red, blue}
    Templates = {t, u}
    Unsyncable = {}
    Incarnations = 2
    AutoscalingV2 = TRUE
    MaxEdits = 2
    MaxFaults = 1
SYMMETRY Symmetry
INVARIANTS
    TypeOK
PROPERTIES
    StrangersOnlyOvertaken
    SettlesInOnePass
CHECK_DEADLOCK FALSE
