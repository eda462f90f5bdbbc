SPECIFICATION AccountSpec
CONSTANTS
    Old = Old
    New = New
    MaxKeys = 2
    MaxProfiles = 3
    MaxGeneration = 1
    MaxFaults = 2
INVARIANT FinishFollowsPublication
