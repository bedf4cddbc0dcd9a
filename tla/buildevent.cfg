SPECIFICATION Spec
CONSTANTS
    None = None
    Ids = {0, 1, 2}
    Severities <- MCSeverities
    Messages = {"", "Total Score: 5", "Total Score: 8"}
    ScoreOf <- MCScoreOf
    NoMessage = ""
    MaxMatches = 3
INVARIANT TypeOK
INVARIANT EventWhenRelevant
INVARIANT TopRuleReported
INVARIANT ScoreReported
CHECK_DEADLOCK FALSE
