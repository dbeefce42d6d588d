----------------------------- MODULE MCAccounts -----------------------------
EXTENDS Accounts, TLC

CONSTANT google

\* every identity is one of Google's
AtGoogle == [i \in Identities |-> google]

AccountSymmetry ==
    Permutations(Users) \cup Permutations(Emails) \cup Permutations(Usernames)
        \cup Permutations(Clients)
=============================================================================
