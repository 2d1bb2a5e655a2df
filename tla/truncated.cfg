CONSTANTS
    Requests = {r1, r2}
    Keys <- MCKeys
    Configs <- MCConfigs
    Inputs <- MCInputs
    Threshold = 1
    Timeout = 1
    Strategy = "round_robin"
SPECIFICATION HSpec
INVARIANT CutAnswersFailOver
