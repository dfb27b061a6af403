SPECIFICATION Spec
CONSTANTS
    w1 = w1
    w2 = w2
    w3 = w3
    w4 = w4
    NoWord = NoWord
    Words <- TwoWords
    MaxDay = 0
    SlotLimit = 1
    CardsPerSession = 2
    m1 = m1
    m2 = m2
    m3 = m3
    NoMsg = NoMsg
    Msgs <- ThreeMsgs
    Staged <- BothStaged
    FaultKinds = {"db"}
    MaxFaults = 1
SYMMETRY Symmetry
INVARIANTS
    VisibleCardIsActive
