SPECIFICATION FairSpec
CONSTANTS
    Nil = Nil
    Everything = Everything
    NoSelector = NoSelector
    Hvpas = {h1, h2}
    Labels = {red, blue}
    MaxEdits = 3
INVARIANTS
    TypeOK
    WellFormed
PROPERTIES
    ImplementsMap
    AnswersFromCache
    MissesOnlyMoved
    CatchesUp
