CONSTANTS
    rules = rules
    Names = {opus}
    KeyNames = {alice}
    RoutingValues = {rules}
    Unset = Unset
    DefaultRouting = DefaultRouting
    NoKey = NoKey
    Admins = {ann}
    Boot = Boot
    InitialFiles <- MCFiles
    MaxModels = 1
    Absent = Absent
    Empty = Empty
    Garbled = Garbled
    NoConfig = NoConfig
SPECIFICATION StoreSpec
PROPERTY SeedsWhenNoneConfigured
