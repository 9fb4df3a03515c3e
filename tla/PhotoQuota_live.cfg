\* One device with a record, any overlap, a broken connection, a kill: everything ends.
SPECIFICATION FairSpec
CONSTANTS
    Limit = 1
    Devices = {d1}
    Photos = {p1, p2}
    NoPhoto = NoPhoto
    Budget <- MCBudget
    Known = TRUE
    Overlapping = TRUE
    Withheld = TRUE
    Setups = 0
    Taps = 2
    Names = 0
    Updates = 1
    Drops = 1
    Kills = 1
PROPERTIES SpinnerStops WritesConfirmed
INVARIANTS TypeOK SpinnerMeansWork ListensCounted CastHolds
CHECK_DEADLOCK FALSE
