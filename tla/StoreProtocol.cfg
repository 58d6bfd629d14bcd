CONSTANTS
    MaxChanges = 2
    MaxCrashes = 1
SPECIFICATION FairSpec
INVARIANT RecursionIsPaidFor
PROPERTY ChecksGoOn
