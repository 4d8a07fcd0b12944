SPECIFICATION Spec
CONSTANTS
    none = none
    zero = zero
    yes = yes
    Opinions <- MCOpinions
    NoOpinion = none
    Zero = zero
    NoDecision = NoDecision
    MaxConn = 2
    MaxLosses = 1
    MaxPresses = 1
    MaxCancels = 1
INVARIANTS
    OneLine CallsHaveALine RecordShown ResubmissionsAgree
PROPERTIES
    RevokeRestores PopupCloses
CHECK_DEADLOCK FALSE
