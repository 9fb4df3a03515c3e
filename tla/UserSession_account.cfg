\* Skip while a registration is under way.
SPECIFICATION Spec
CONSTANTS
    Emails = {u1}
    Facebooks = {}
    Guests = {g1, g2}
    None = None
    Budget <- MCBudget
    Asks = 2
    SignOuts = 0
    Kills = 0
    Changes = 0
INVARIANT SignedInHasKey
CHECK_DEADLOCK FALSE
