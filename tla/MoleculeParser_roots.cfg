\* Whether the roots of the meta account are what their names say.
SPECIFICATION Spec
CONSTANTS
    TypeNames <- ParsedTypes
    Values <- MCValues
    NewerValues <- MCNewerValues
    Extras <- MCExtras
    Damages <- MCDamages
    Trailers <- MCTrailers
    MaxItems = 1
    DamagedUpTo = 8
INVARIANTS
    RootsInPlace
CHECK_DEADLOCK FALSE
