---------------------------- MODULE OneConsent -----------------------------
(***************************************************************************)
(* What an OAuth flow promises to the user who begins it, whatever is      *)
(* repeated, lost or late on the way: the consent is in one place at a     *)
(* time, moves from place to place in one direction only,                  *)
(*                                                                         *)
(*   unborn -> asked -> answered -> parked -> claimed -> opened            *)
(*                                                                         *)
(* and opens a session when it leaves the last of them, at no other time.  *)
(* It may be lost on the way, and is not found again.                      *)
(*                                                                         *)
(* OAuthFlow.tla, with its two kinds of entries in Valkey and the requests *)
(* between them, is shown to implement this module.                        *)
(***************************************************************************)
EXTENDS Naturals

CONSTANT Flows

VARIABLES
    place,    \* where the consent of a flow is
    sessions  \* how many sessions it has opened

consent == <<place, sessions>>

ConsentInit ==
    /\ place = [f \in Flows |-> "unborn"]
    /\ sessions = [f \in Flows |-> 0]

Move(f, from, to) ==
    /\ place[f] = from
    /\ place' = [place EXCEPT ![f] = to]

\* The user is asked, a callback answers, its answer is parked, a request claims it.
Advance(f) ==
    /\ \/ Move(f, "unborn", "asked")
       \/ Move(f, "asked", "answered")
       \/ Move(f, "answered", "parked")
       \/ Move(f, "parked", "claimed")
    /\ UNCHANGED sessions

Open(f) ==
    /\ Move(f, "claimed", "opened")
    /\ sessions' = [sessions EXCEPT ![f] = @ + 1]

\* What is under way may be lost, several at once when their time is up.
Lose(F) ==
    /\ \A f \in F : place[f] \in {"asked", "answered", "parked", "claimed"}
    /\ place' = [f \in Flows |-> IF f \in F THEN "lost" ELSE place[f]]
    /\ UNCHANGED sessions

ConsentNext ==
    \/ \E F \in SUBSET Flows : Lose(F)
    \/ \E f \in Flows : Advance(f) \/ Open(f)

ConsentSpec == ConsentInit /\ [][ConsentNext]_consent
=============================================================================
