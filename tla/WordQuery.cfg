SPECIFICATION Spec
CONSTANTS
    apple = apple
    apples = apples
    pear = pear
    tree = tree
    fruit = fruit
    menu = menu
    cancel = cancel
    Texts <- ThreeTexts
    MenuText = menu
    CancelText = cancel
    Words <- TwoWords
    NoWord = NoWord
    Limit = 2
    Cap = 2
    QueueSize = 1
    MaxUpdates = 6
    MaxDays = 2
    MaxFaults = 1
INVARIANTS
    TypeOK
    DeliveredWithinLimit
    OfferIsLive
PROPERTIES
    LedgerSpec
    DeliveredInputConsumed
CHECK_DEADLOCK FALSE
