SPECIFICATION Spec
CONSTANTS
    MaxRevision = 3
    MaxLaunch = 3
    VerifyPeerPid = TRUE
CHECK_DEADLOCK FALSE
INVARIANTS
    NoCoreForgotten
    OneCore
    PhaseAgrees
    AnswersAreTrue
PROPERTIES
    KeepsPromise
    EveryCommandSettles
