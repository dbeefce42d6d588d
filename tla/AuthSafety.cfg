\* Two clients at one account: every pair of operations may overlap, with wrong
\* passwords, password changes and expiry of both kinds of token.
SPECIFICATION AuthSpec
CONSTANTS
    Tokens = {t1, t2}
    Users = {u1}
    Clients = {c1, c2}
    RefreshTtl = 0
    MaxTime = 1
    NoToken = NoToken
    NoUser = NoUser
    Passwords = {p1, p2}
    NoPassword = NoPassword
    AccessTtl = 0
    Leeway = 0
SYMMETRY AuthSymmetry
INVARIANTS
    AuthTypeOK
    BarredGetsNoSession
    SweepIsComplete
    AnswerCarriesLiveToken
    AnswerIsFresh
PROPERTIES
    SignedOutStays
    HandlersKeepRegistry
