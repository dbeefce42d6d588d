--------------------------- MODULE MCTokenService ---------------------------
(***************************************************************************)
(* Small instances of TokenService.  Tokens, users and clients are model   *)
(* values that no definition tells apart, so each set may be permuted.     *)
(***************************************************************************)
EXTENDS TokenService, TLC

TokenSymmetry ==
    Permutations(Tokens) \cup Permutations(Users) \cup Permutations(Clients)
=============================================================================
