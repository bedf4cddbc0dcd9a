SPECIFICATION Spec
CONSTANTS
    None = None
    Ids = {1, 2}
    Severities <- MCSeverities
    Messages = {"", "Total Score: 5", "Total Score: 8"}
    ScoreOf <- MCScoreOf
    NoMessage = ""
    MaxMatches = 2
INVARIANT InterrupterReported
CHECK_DEADLOCK FALSE
