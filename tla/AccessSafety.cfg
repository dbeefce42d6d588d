\* Two users, one of them an administrator; two requests at once; a token lives for
\* two ticks.
CONSTANTS
    Users = {u1, u2}
    Root = u1
    Nobody = Nobody
    Clients = {c1, c2}
    Lifetime = 2
SPECIFICATION AccessSpec
INVARIANT AccessTypeOK
PROPERTIES
    LastAdministratorStays
    DemotionTakesEffect
    OutdatedRunsOut
