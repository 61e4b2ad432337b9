SPECIFICATION FairSpec
CONSTANTS
    Names = {a, b}
    None = None
    Torn = Torn
    MaxRestored = 1
    MaxOthers = 3
    MaxFaults = 2
INVARIANT TypeOK
PROPERTIES FilesAfterData WipeFinishes
CHECK_DEADLOCK FALSE
