CONSTANTS
    Sessions = {1, 2}
    reader = reader
    Admins = {reader, visitor}
    Asks <- MCAsks
    Clients = {c1}
    Keys = {k1}
    alice = alice
    Username <- MCUsername
    MaxAge = 0
    NoSession = 0
    NoKey = NoKey
    Users = {alice}
    StatusCodes = {200, 429}
    QueueSize = 1
    Limit = 2
    MaxCalls = 3
    MaxFaults = 2
    NoEntry = NoEntry
    Torn = Torn
    AnyUser = AnyUser
SPECIFICATION Spec
INVARIANTS
    TypeOK
    DeadTokenRefused
    LiveTokenServed
    NewestFirst
    DamageBounded
    ShownRowsStay
PROPERTIES
    ImplementsRowLog
    RowsSettle
