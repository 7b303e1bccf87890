CONSTANTS
    emma = emma
    cut = cut
    Stylist = {emma}
    Manager = {admin}
    Apt = {cut}
    OwnerOf <- MCOwnerOf
    NoOne = NoOne
    Nothing = Nothing
    MaxPresses = 3
    MaxAwaited = 4
SPECIFICATION Spec
INVARIANTS
    TypeOK
    SpinnerMeansCall
    ToldTruly
PROPERTIES
    CallsAreOfSession
CHECK_DEADLOCK FALSE
