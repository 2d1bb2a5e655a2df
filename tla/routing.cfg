CONSTANTS
    Requests = {r1}
    Keys <- MCKeys
    Configs <- MCConfigs
    Inputs <- MCInputs
    Threshold = 3
    Timeout = 1
    Strategy = "random"
SPECIFICATION HealthySpec
INVARIANTS
    FunnelRespected
    NamedModelOnly
