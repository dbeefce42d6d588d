--------------------------- MODULE MCAuthService ---------------------------
EXTENDS AuthService, TLC

AuthSymmetry ==
    Permutations(Tokens) \cup Permutations(Users) \cup Permutations(Clients)
        \cup Permutations(Passwords)
=============================================================================
