-------------------------- MODULE AccountRegistry --------------------------
(***************************************************************************)
(* What the tables users and local_credentials promise to the rest of the  *)
(* program, whoever writes to them and in whatever order:                  *)
(*                                                                         *)
(*   - an account is made once, by a registration or by the login of an    *)
(*     identity, and is never removed;                                     *)
(*   - a password comes with the account it is registered with, in one     *)
(*     step, or never; it may change, and does not go away;                *)
(*   - an account may be deactivated, and is never activated again.        *)
(*                                                                         *)
(* Accounts.tla, which models the statements of services/user.rs one by    *)
(* one, and AuthService.tla, which has the sessions and one action per     *)
(* call of services/user.rs, are both shown to implement this module.      *)
(***************************************************************************)
CONSTANT Users

VARIABLES
    status,   \* of an account: "none", "active" or "inactive"
    secured   \* the accounts that have a password

registry == <<status, secured>>

RegistryInit ==
    /\ status = [u \in Users |-> "none"]
    /\ secured = {}

Make(u) ==
    /\ status[u] = "none"
    /\ status' = [status EXCEPT ![u] = "active"]

\* A registration: account and password at once.
Enrol(u) == Make(u) /\ secured' = secured \cup {u}

\* The first login of an identity whose email is of no account.
Import(u) == Make(u) /\ UNCHANGED secured

Retire(u) ==
    /\ status[u] # "none"
    /\ status' = [status EXCEPT ![u] = "inactive"]
    /\ UNCHANGED secured

RegistryNext == \E u \in Users : Enrol(u) \/ Import(u) \/ Retire(u)

RegistrySpec == RegistryInit /\ [][RegistryNext]_registry
=============================================================================
