SPECIFICATION Spec
CONSTANTS
    MaxTurns = 2
    MaxRuns = 5
    MaxInterventions = 1
INVARIANTS OneTurnActive HistoryIsWhole
PROPERTIES CompletedTurnIsFinal SummaryKeepsAnswers
CHECK_DEADLOCK FALSE
