\* A server that nobody stops.
SPECIFICATION ServerSpec
CONSTANTS
    Clients = {c1, c2}
    Length = 2
    PoolSize = 2
    ShutdownTimeout = 2
INVARIANT
    StopsOnlyWhenSignalled
