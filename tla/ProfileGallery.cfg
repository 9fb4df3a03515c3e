\* One profile screen, other devices that save and delete.
SPECIFICATION FairSpec
CONSTANTS
    Preset = 1
    MaxEntry = 2
    Pictures = {p1, p2}
    NoPicture = NoPicture
    Budget <- MCBudget
    Profiles = 2
    Modals = 2
    Deletes = 1
    Fails = 1
INVARIANTS TypeOK RowsInRange CopiesBounded NothingMissed DeletedGone PictureStored
PROPERTIES AllShown
CHECK_DEADLOCK FALSE
