---------------------------- MODULE OneTimeSecret ----------------------------
(***************************************************************************)
(* What the program promises of every secret it mails to the holder of an  *)
(* account: the link of an invitation, the link of a password reset and    *)
(* the six digits of a sign-in. Only the newest secret of a holder counts. *)
(* It is issued, it may become usable, it is redeemed at most once, and    *)
(* what has been replaced, redeemed or voided never becomes usable again.  *)
(* Accounts and SignIn implement this specification.                       *)
(***************************************************************************)
EXTENDS Naturals

CONSTANT Holder

VARIABLES issued,     \* issued[h]: how many secrets h was ever issued
          phase,      \* phase[h]: the state of the newest of them
          redeemed    \* redeemed[h]: those that were redeemed

vars == <<issued, phase, redeemed>>

Phase == {"idle", "issued", "usable", "spent", "void"}

TypeOK == /\ issued \in [Holder -> Nat]
          /\ phase \in [Holder -> Phase]
          /\ \A h \in Holder : redeemed[h] \subseteq 1..issued[h]

Init == /\ issued = [h \in Holder |-> 0]
        /\ phase = [h \in Holder |-> "idle"]
        /\ redeemed = [h \in Holder |-> {}]

\* Where the newest secret of h is issued, those of others may be lost: a browser
\* in which somebody else signs in keeps only the last challenge.
Issue(h) == /\ issued' = [issued EXCEPT ![h] = @ + 1]
            /\ \E H \in SUBSET (Holder \ {h}) :
                  /\ \A k \in H : phase[k] \in {"issued", "usable"}
                  /\ phase' = [k \in Holder |-> IF k = h THEN "issued"
                                    ELSE IF k \in H THEN "void" ELSE phase[k]]
            /\ UNCHANGED redeemed

Arm(h) == /\ phase[h] = "issued"
          /\ phase' = [phase EXCEPT ![h] = "usable"]
          /\ UNCHANGED <<issued, redeemed>>

Redeem(h) == /\ phase[h] = "usable"
             /\ phase' = [phase EXCEPT ![h] = "spent"]
             /\ redeemed' = [redeemed EXCEPT ![h] = @ \union {issued[h]}]
             /\ UNCHANGED issued

\* Time, a change of an account or a refusal can void many secrets at once.
Void(H) == /\ \A h \in H : phase[h] \in {"issued", "usable"}
           /\ phase' = [h \in Holder |-> IF h \in H THEN "void" ELSE phase[h]]
           /\ UNCHANGED <<issued, redeemed>>

Next == \/ \E h \in Holder : Issue(h) \/ Arm(h) \/ Redeem(h)
        \/ \E H \in SUBSET Holder : Void(H)

Spec == Init /\ [][Next]_vars
=============================================================================
