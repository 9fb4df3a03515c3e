\* Buttons pressed in any order and at any time.
SPECIFICATION Spec
CONSTANTS
    Emails = {u1}
    Facebooks = {f1}
    Guests = {g1, g2}
    None = None
    Budget <- MCBudget
    Asks = 3
    SignOuts = 2
    Kills = 2
    Changes = 1
SYMMETRY Symmetry
INVARIANTS TypeOK GuestHasID AccountIsAuth SignedInIsShown RecordUnlessLost
CHECK_DEADLOCK FALSE
