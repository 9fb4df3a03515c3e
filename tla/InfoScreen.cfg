\* Two cells for up to four sentences, two of which can be chosen.
SPECIFICATION Spec
CONSTANTS
    Words = {the}
    Word = the
    Stops = {stop}
    Cells = {c1, c2}
    MaxChosen = 2
    Length = 5
    Extracts <- MCExtracts
    NoDescription <- MCNoDescription
INVARIANTS TypeOK AtMostChosen ColourIsChoice SentencesCoverAnswer
CHECK_DEADLOCK FALSE
