SPECIFICATION FairSpec
CONSTANTS
    Written <- MCWritten
    Unknown = Unknown
INVARIANTS
    TypeOK
    OpenInItsZone
PROPERTIES
    OpenForDuration
    OpensAgain
