\* Process tapped twice: both taps read the same limit.
SPECIFICATION Spec
CONSTANTS
    Limit = 1
    Devices = {d1}
    Photos = {p1}
    NoPhoto = NoPhoto
    Budget <- MCBudget
    Known = TRUE
    Overlapping = TRUE
    Withheld = TRUE
    Setups = 0
    Taps = 2
    Names = 0
    Updates = 0
    Drops = 0
    Kills = 0
INVARIANT GrantedWithinLimit
CHECK_DEADLOCK FALSE
