\* A refresh overlaps a logout.
SPECIFICATION AuthSpec
CONSTANTS
    Tokens = {t1, t2, t3}
    Users = {u1}
    Clients = {c1, c2}
    RefreshTtl = 0
    MaxTime = 0
    NoToken = NoToken
    NoUser = NoUser
    Passwords = {p1}
    NoPassword = NoPassword
    AccessTtl = 1
    Leeway = 0
INVARIANT
    LogoutEndsSessions
