SPECIFICATION Spec
CONSTANTS
    OSReserve = 2
    Ladder <- MCLadder
    MinUsefulContext = 1
    Overhead <- MCOverhead
    HeadroomPercent = 80
    FitsPercent = 92
    Machines <- MCMachines
    Catalogues <- MCCatalogues
    Inventories <- MCInventories
    Measurements <- MCMeasurements
    Requests <- MCRequests
    MaxRecommendations = 3
    PurposeContext <- MCPurposeContext
    LongContextMin = 4
    PurposeFactor <- MCPurposeFactor
    FitFactor <- MCFitFactor
    SpeedFactorTop = 5
    SpeedFloor = 1
    UnknownSpeedFactor = 3
    NeededRate <- MCNeededRate
    SizeFactor <- MCSizeFactor
    NoticeableSize = 14
    NoticeableSpeed = 13
    NoticeableContext = 20
INVARIANTS
    CategoryKeepsItsWord
    SuggestionsAgree
    MoreMemoryNeverWorse
    CardsAreTheBest
