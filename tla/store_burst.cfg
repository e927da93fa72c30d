CONSTANTS
    Ids <- MCIds
    AutoKeys <- MCAutoKeys
    Contents <- MCContents
    Blank = "blank"
    Unbuildable = {"broken"}
    Banner = "banner"
    Malformed = Malformed
    Payloads <- MixedPayloads
    AnonymousTtl = 1
    CheckPeriod = 2
    HasTarget = TRUE
    Paced = FALSE
    MaxNow = 8
SPECIFICATION FairSpec
INVARIANTS
    HiddenScreenIsBlank
    LastToggleWins
PROPERTIES
    NoItemLost
CHECK_DEADLOCK FALSE
