CONSTANTS
    Ids <- MCIds
    AutoKeys <- MCAutoKeys
    Contents <- MCContents
    Blank = "blank"
    Unbuildable = {"broken"}
    Banner = "banner"
    Malformed = Malformed
    Payloads <- RepeatedPayloads
    AnonymousTtl = 1
    CheckPeriod = 2
    HasTarget = FALSE
    Paced = FALSE
    MaxNow = 6
SPECIFICATION FairSpec
PROPERTIES
    ItemsGetShown
CHECK_DEADLOCK FALSE
