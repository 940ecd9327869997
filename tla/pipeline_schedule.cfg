CONSTANTS
    Stages <- MCStages
    Parents <- MCParents
    Index <- MCIndex
    Gated <- MCGated
    On <- MCOn
    MaxActive = 2
    MaxAttempts <- MCMaxAttempts
    Asking = {"a", "b", "f"}
    Failing = {"b", "c"}
    Unprepared = {"e"}
    MaxLoops = 4
    AnswersAtRest = TRUE
    Cancellable = TRUE
SPECIFICATION FairSpec
INVARIANT StartedWhenReady
INVARIANT TypeOK
INVARIANT SucceededAsRouted
INVARIANT OutcomeExplained
PROPERTY SettledStays
PROPERTY RunSettles
CHECK_DEADLOCK FALSE
