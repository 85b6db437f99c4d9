SPECIFICATION Spec
CONSTANTS
    None = None
    Slot = Slot
    Broken = Broken
    NotFound = NotFound
    MaxHandshake = 9
    MaxRecorded = 11
    Known = {0, 10, 13, 16}
    Host = "measured"
    HostPlatform = "linux"
    Platforms <- MCPlatforms
    Catalogue <- MCCatalogue
    Embedded <- MCEmbedded
    Files <- MCFiles
    Number <- MCNumber
    Versions = 3
    Sends <- MCSends
    Variations <- MCVariations
    NameFor <- MCNameFor
    Shuffling = {"chrome", "ua1", "ua2", "ua3"}
    Given <- MCGiven
    Asked <- MCAsked
    ByHand <- MCByHand
    Added <- MCAdded
    MaxSaves = 2
    MaxByHand = 1
INVARIANTS RecorderBlindToSplit VerdictExact SavedIsWorn NewestMeasured
CHECK_DEADLOCK FALSE
