CONSTANTS
    Keys = {1, 2, 3, 4, 5, 6, 7, 8, 9, 10, 11, 12, 13, 14, 15, 16, 17, 18, 19, 20, 21, 22, 23, 24, 25}
    Values = {0, 1}
    Default = 0
    MaxSlots = 13
    SmallKeys = {1, 2, 3, 4}
    SmallCalls = 5
    MaxNodes = 9
    Points = {0, 4, 9}
    FarAt = 9
    MaxElems = 4
    MaxTree = 5
    DBCalls = 8
    Layouts <- MCLayouts
    Bytes = {1, 2}
    MaxLen = 3
    HeapCalls = 3
    MessageCalls = 4
    PoolCalls = 4
    AddrSize = 2
    Rate = 4
    DigestSize = 6
    Suites <- MCSuites
    Manifest <- MCManifest
    Registry <- MCRegistry
    Flags <- MCFlags
    MaxRuns = 2
SPECIFICATION MCSpec
INVARIANTS
    TreeSound
    IndexSound
    CalldataCanonical
    AbiFaithful
    DigestOfWholeMessage
    SlicesLikeList
    VotesSound
    InterfaceSound
    WireFaithful
    WellKnownSound
    MessagesConsistent
    PoolSound
    FilesAsWritten
    RunnerSound
    InstallSound
PROPERTIES
    ImplementsMap
    StorageIsValues
    ChangesStayInside
