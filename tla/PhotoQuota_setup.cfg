\* A profile picture is set while a first setup is under way.
SPECIFICATION Spec
CONSTANTS
    Limit = 1
    Devices = {d1, d2}
    Photos = {p1}
    NoPhoto = NoPhoto
    Budget <- MCBudget
    Known = FALSE
    Overlapping = TRUE
    Withheld = TRUE
    Setups = 1
    Taps = 0
    Names = 0
    Updates = 1
    Drops = 0
    Kills = 0
PROPERTY SetupKeepsChildren
CHECK_DEADLOCK FALSE
