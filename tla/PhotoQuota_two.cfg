\* Two devices of one account, any overlap, a broken connection.
SPECIFICATION Spec
CONSTANTS
    Limit = 2
    Devices = {d1, d2}
    Photos = {p1}
    NoPhoto = NoPhoto
    Budget <- MCBudget
    Known = FALSE
    Overlapping = TRUE
    Withheld = TRUE
    Setups = 1
    Taps = 2
    Names = 1
    Updates = 0
    Drops = 1
    Kills = 0
SYMMETRY Symmetry
INVARIANTS NeverOvercharged AllFair AcksMatchWrites WaitingIsBlind
CHECK_DEADLOCK FALSE
