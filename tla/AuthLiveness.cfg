\* The same requests with fairness; no symmetry, which is unsound for liveness.
SPECIFICATION FairAuthSpec
CONSTANTS
    Tokens = {t1, t2}
    Users = {u1}
    Clients = {c1, c2}
    RefreshTtl = 0
    MaxTime = 0
    NoToken = NoToken
    NoUser = NoUser
    Passwords = {p1}
    NoPassword = NoPassword
    AccessTtl = 1
    Leeway = 0
PROPERTIES
    EveryRequestEnds
    UsesTokenService
