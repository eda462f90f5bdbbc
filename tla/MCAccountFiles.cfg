SPECIFICATION AccountSpec
CONSTANTS
    Old = Old
    New = New
    MaxKeys = 2
    MaxProfiles = 3
    MaxGeneration = 2
    MaxFaults = 3
INVARIANTS EnrollmentOpens CommittedStoreSurvives DeletedTakesStore
PROPERTIES FinishedForGood
