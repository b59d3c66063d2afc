SPECIFICATION FairSpec
CONSTANTS
    Keys = {"a", "b"}
    Answers <- MCAnswers
    MaxReflections = 2
    MaxReplans = 1
    MaxRounds = 2
    Judge = TRUE
    MaxTakeovers = 1
INVARIANTS DependenciesFirst StepsAreNotRepeated CompletionIsEarned
PROPERTIES FinalCheckpointIsLast PlansAreHistory PlanTerminates
