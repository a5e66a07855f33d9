SPECIFICATION Spec
CONSTANTS
    ChallengeWindow = 3
    ChallengeLookback = 1
    SubmitConfidence = 1
    ChallengeConfidence = 1
    ProvingStart = 1
    MaxHeight = 6
    MaxReorgs = 0
    MaxMissed = 1
    Ids = {1, 2}
    None = None
INVARIANTS
    RevertResubmits
CHECK_DEADLOCK FALSE
