CONSTANTS
    Stages <- MCFork
    Parents <- MCForkParents
    Index <- MCForkIndex
    Gated = {}
    On <- MCForkOn
    MaxActive = 2
    MaxAttempts <- MCForkAttempts
    Asking = {"b"}
    Failing = {}
    Unprepared = {}
    MaxLoops = 2
    AnswersAtRest = FALSE
    Cancellable = FALSE
SPECIFICATION Spec
INVARIANT OutcomeFromStages
CHECK_DEADLOCK FALSE
