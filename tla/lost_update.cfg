CONSTANTS
    rules = rules
    Names = {opus}
    KeyNames = {alice}
    RoutingValues = {rules}
    Unset = Unset
    DefaultRouting = DefaultRouting
    NoKey = NoKey
    Admins = {ann, ben}
    Boot = Boot
    InitialFiles <- MCFresh
    MaxModels = 1
    Absent = Absent
    Empty = Empty
    Garbled = Garbled
    NoConfig = NoConfig
SPECIFICATION StoreSpec
PROPERTY RoutingSaveKeepsModels
