CONSTANTS
    Identities = {1, 2, 3}
    Contents = {"ace", "fault"}
    Payloads <- MCPayloads
    MaxVersion = 4
    None = None
    NoScore = NoScore
SPECIFICATION Spec
CHECK_DEADLOCK FALSE
INVARIANT EverySaveCommits
