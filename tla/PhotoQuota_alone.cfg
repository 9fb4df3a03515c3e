\* One device, one read at a time, a broken connection.
SPECIFICATION Spec
CONSTANTS
    Limit = 2
    Devices = {d1}
    Device = d1
    Photos = {p1}
    NoPhoto = NoPhoto
    Budget <- MCBudget
    Known = FALSE
    Overlapping = FALSE
    Withheld = FALSE
    Setups = 1
    Taps = 3
    Names = 0
    Updates = 1
    Drops = 2
PROPERTIES CountsExactly PictureStays
CHECK_DEADLOCK FALSE
