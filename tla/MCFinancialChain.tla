--------------------------- MODULE MCFinancialChain ---------------------------
(* Instances of FinancialChain for TLC. *)
EXTENDS FinancialChain, TLC

CONSTANTS ann, bob, cid, dan, o1, o2

(* One account in each role: amounts and dates do not depend on who asks. *)
OneOfEach == {(ann :> "AGENT_SAISIE") @@ (bob :> "AGENT_VERIFICATEUR")
              @@ (cid :> "VALIDATEUR_DEFINITIF")}

(* Any distribution of the roles. *)
AllRoles == [User -> Role]

Accounts == Permutations(User)
=============================================================================
