\* Two clients, two emails (so two accounts at most), one identity at one of two
\* providers.
SPECIFICATION AccountsSpec
CONSTANTS
    Users = {u1, u2}
    Emails = {e1, e2}
    Usernames = {n1, n2}
    Identities = {i1}
    Providers = {google, github}
    ProviderOf <- AtGoogle
    google = google
    Clients = {c1, c2}
    None = None
SYMMETRY AccountSymmetry
INVARIANTS
    AccountsTypeOK
    RegistrationIsWhole
    SameAccount
    DisabledGetsNoSession
    OAuthClaimIsTrue
PROPERTIES
    LinksNeverMove
    TablesKeepRegistry
