SPECIFICATION Spec
CONSTANTS
    ChallengeWindow = 3
    ChallengeLookback = 1
    SubmitConfidence = 1
    ChallengeConfidence = 1
    ProvingStart = 2
    MaxHeight = 6
    MaxReorgs = 1
    MaxMissed = 1
    Ids = {1, 2}
    None = None
INVARIANTS
    TypeOK
    SubmittingTracked
    NoLostProof
    ExpiredAborted
    CurrentIsRunning
    
CHECK_DEADLOCK FALSE
