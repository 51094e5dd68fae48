-------------------------- MODULE MCRequestBoundary --------------------------
(* RequestBoundary at both sides of the limits of a webhook's timestamp.   *)
EXTENDS RequestBoundary, TLC

MCSkews  == {-60, 60, 61}
MCDelays == {0, 240, 241, 360, 361}

(* Contexts, users and tenants are interchangeable.                        *)
MCSymmetry == Permutations(Contexts) \cup Permutations(Users) \cup Permutations(Tenants)
=============================================================================
