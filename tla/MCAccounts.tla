----------------------------- MODULE MCAccounts -----------------------------
(* An instance of Accounts for TLC. *)
EXTENDS Accounts

\* Two ordinary roles are enough for a change, and a change back.
TwoRoles == {"AGENT_SAISIE", "VALIDATEUR_DEFINITIF"}
=============================================================================
