\* Every type of the parser: what is written is read back, and nothing else.
SPECIFICATION Spec
CONSTANTS
    TypeNames <- AllTypes
    Values <- MCValues
    NewerValues <- MCNewerValues
    Extras <- MCExtras
    Damages <- MCDamages
    Trailers <- MCTrailers
    MaxItems = 2
    DamagedUpTo = 80
INVARIANTS WrittenReadsBack AcceptedIsCanonical NewerIsCompatible BindReadsTheCount RepliesNameTheFields
CHECK_DEADLOCK FALSE
