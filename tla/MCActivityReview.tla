---------------------------- MODULE MCActivityReview ----------------------------
(* Small instances of ActivityReview for TLC. *)
EXTENDS ActivityReview, TLC

CONSTANTS ann, bob, cid, o1, o2

A == "AGENT_SAISIE"
S == "AGENT_VERIFICATEUR"
V == "VALIDATEUR_DEFINITIF"

(* Every way to start three accounts, and one account per role. *)
ThreeUsers == {ann, bob, cid}
AnyRoles == [ThreeUsers -> {A, S, V}]
OfficeRoles == {(ann :> A) @@ (bob :> S) @@ (cid :> V)}

OneOperation == {o1}
TwoOperations == {o1, o2}
OneYear == {2026}
TwoYears == {2026, 2027}
UserSymmetry == Permutations(ThreeUsers)
OperationSymmetry == Permutations(TwoOperations)
=============================================================================
