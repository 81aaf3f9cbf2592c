SPECIFICATION LibrarySpec
CONSTANTS
    Programs = {p1, p2, p3}
    NoFile = NoFile
    MaxClients = 3
    MaxLine = 2
    MaxMsgs = 2
    MaxText = 2
    SZ_CYCLIC_STR = 8
    Commanders = {u1, u2}
    Settings <- TwoLevels
    MaxEntries = 2
    Workers = {w1, w2, h}
    Handler = h
    MaxSearches = 1
    Main = Main
    Head0 = Head0
    Nil = Nil
    Instances = {i1, i2}
    NoInstance = NoInstance
    SZ_CC_NO_MIN_LEN = 3
    SZ_CC_NO_MAX_LEN = 4
    CardDigits = {0, 4, 5, 9}
    MaxAmount = 40
    MaxPlaces = 2
    MaxField = 3
INVARIANTS LibraryTypeOK ReceiptSafe ClientSafe MergeIsUnion MessagesInOrder LogLineIntact
    CommandTakesEffect NamesFound OneServerReached HelpersAgree
PROPERTIES PromptReached MergeEnds
CHECK_DEADLOCK FALSE
