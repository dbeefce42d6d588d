\* An account loses its only credential, or never gets it.
SPECIFICATION AccountsSpec
CONSTANTS
    Users = {u1, u2}
    Emails = {e1, e2}
    Usernames = {n1, n2}
    Identities = {i1}
    Providers = {google, github}
    ProviderOf <- AtGoogle
    google = google
    Clients = {c1, c2}
    None = None
INVARIANT
    AtLeastOneCredential
