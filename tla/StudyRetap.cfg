SPECIFICATION HSpec
CONSTANTS
    w1 = w1
    w2 = w2
    NoWord = NoWord
    Words <- TwoWords
    MaxDay = 0
    SlotLimit = 2
    CardsPerSession = 2
    m1 = m1
    m2 = m2
    m3 = m3
    NoMsg = NoMsg
    Msgs <- ThreeMsgs
    Staged <- BothStaged
    FaultKinds = {"lost"}
    MaxFaults = 1
PROPERTIES
    RetapNeverRegrades
