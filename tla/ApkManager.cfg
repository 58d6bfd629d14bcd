CONSTANTS
    Variants = {arm, x86}
    MaxVersion = 2
    MaxReleases = 1
    MaxCrashes = 1
SPECIFICATION FairSpec
INVARIANTS
    AnnouncedByItsName
    DownloadedMeansQueued
PROPERTIES
    NoRepeatedAnnouncement
    SecondJobHasACause
    DownloadedInTheEnd
