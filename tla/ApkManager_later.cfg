CONSTANTS
    Variants = {arm}
    MaxVersion = 2
    MaxReleases = 1
    MaxCrashes = 0
SPECIFICATION FairSpec
PROPERTY CheckedAgainLater
