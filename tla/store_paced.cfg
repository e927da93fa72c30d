CONSTANTS
    Ids <- MCIds
    AutoKeys <- MCAutoKeys
    Contents <- MCContents
    Blank = "blank"
    Unbuildable = {"broken"}
    Banner = "banner"
    Malformed = Malformed
    Payloads <- StablePayloads
    AnonymousTtl = 1
    CheckPeriod = 2
    HasTarget = TRUE
    Paced = TRUE
    MaxNow = 8
SPECIFICATION FairSpec
INVARIANTS
    RenderedIsOnScreen
    ScreenMatchesItems
    NoTwinsInStore
PROPERTIES
    ItemsGetShown
    AnonymousLeaves
    ExitIsServed
CHECK_DEADLOCK FALSE
