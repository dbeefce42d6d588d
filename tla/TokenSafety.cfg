\* Two clients, two users, three tokens: overlapping rotations, expiry, aborts.
SPECIFICATION TokenSpec
CONSTANTS
    Tokens = {t1, t2, t3}
    Users = {u1, u2}
    Clients = {c1, c2}
    RefreshTtl = 1
    MaxTime = 2
    NoToken = NoToken
    NoUser = NoUser
SYMMETRY TokenSymmetry
PROPERTIES
    RevokedIsFinal
    LedgerSpec
INVARIANTS
    TokenTypeOK
    OneSuccessorPerClient
