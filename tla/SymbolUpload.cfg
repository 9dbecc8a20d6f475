SPECIFICATION UploadSpec
CONSTANTS
    Idents = {1, 2}
    Forms = {arm64, x64}
    Workers = 1
    UploadBudget = 3
    CliTries = 2
    CliDelay = 1
    ConfirmBudget = 4
    RoundDelay = 1
    RetryAfter = 3
    MaxRounds = 3
    MaxTime = 6
CHECK_DEADLOCK FALSE
INVARIANTS
    ReportIsHonest
    PausesInTime
PROPERTIES
    Ends
