CONSTANTS
    r1 = r1
    p1 = p1
    m1 = m1
    Fragment = Fragment
    Updates <- ThreeUpdates
    ChannelsOf <- ChannelsOfThree
    MonikerOf <- MonikerOfThree
    MaxCrashes = 1
    MaxChanges = 1
SPECIFICATION FairSpec
INVARIANTS
    KnownMeansPublished
    OncePerRun
    JsonTellsTheText
PROPERTIES
    PushesOnlyAdd
    PublishedInTheEnd
