--------------------------- MODULE MCBudgetFunding ---------------------------
(* Instances of BudgetFunding for TLC. *)
EXTENDS BudgetFunding, TLC

CONSTANTS ann, bob, cid, o1, o2

(* One account in each role: what is owed does not depend on who asks. *)
OneOfEach == {(ann :> "AGENT_SAISIE") @@ (bob :> "AGENT_VERIFICATEUR")
              @@ (cid :> "VALIDATEUR_DEFINITIF")}

(* Any distribution of the roles. *)
AllRoles == [User -> Role]

Accounts == Permutations(User)
=============================================================================
