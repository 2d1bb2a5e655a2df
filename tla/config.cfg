CONSTANTS
    rules = rules
    Names = {opus, sonnet}
    KeyNames = {alice, bob}
    RoutingValues = {rules}
    Unset = Unset
    DefaultRouting = DefaultRouting
    NoKey = NoKey
    Admins = {admin}
    Boot = Boot
    InitialFiles <- MCFiles
    MaxModels = 2
    Absent = Absent
    Empty = Empty
    Garbled = Garbled
    NoConfig = NoConfig
SPECIFICATION StoreSpec
VIEW SaveView
SYMMETRY Renamings
INVARIANTS
    TypeOK
    MemoryAgrees
    AckedIsStored
    RevokedKeyRefused
PROPERTY ImplementsAtomic
