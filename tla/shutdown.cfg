CONSTANTS
    w1 = w1  w2 = w2
    Writers = {w1, w2}
    Top = 3
    MaxSignals = 2
    MaxFaults = 2
SPECIFICATION FairSpec
CHECK_DEADLOCK FALSE
INVARIANTS TypeOK NothingCutShort SavedIsIndexed
PROPERTY EndsAfterSignal
