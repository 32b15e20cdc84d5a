------------------------------ MODULE Accounts ------------------------------
(***************************************************************************)
(* Accounts, the invitations that activate them and the links that reset   *)
(* their passwords (auth/service.py, auth/access.py).                       *)
(*                                                                         *)
(* Every command is one transaction under the advisory lock, so it is one  *)
(* action. Mail is sent between two transactions, outside of both: an      *)
(* invitation and a reset are each a task with several steps, and anything *)
(* may happen between two of them, the loss of the task included.          *)
(***************************************************************************)
EXTENDS Integers, Sequences, FiniteSets

CONSTANTS Account,        \* the e-mail addresses that can have an account
          Partner,        \* active Partners
          BusinessRole,   \* internal roles other than the administrator's
          None,           \* no Partner
          MaxOffers,      \* bound: generations of one invitation
          MaxRecoveries,  \* bound: reset links of one account
          MaxVersion,     \* bound: the version of an account
          MaxTasks        \* bound: tasks under way at once

Admin == "ADMIN_PLATEFORME"
PartnerRole == "PARTENAIRE"

ASSUME RoleAssumption == Admin \notin BusinessRole /\ PartnerRole \notin BusinessRole
ASSUME PartnerAssumption == None \notin Partner
ASSUME BoundAssumption == /\ MaxOffers \in Nat /\ MaxRecoveries \in Nat
                          /\ MaxVersion \in Nat /\ MaxTasks \in Nat

VARIABLES user,         \* user[a]: the row of a's account
          invitation,   \* invitation[a]: the row of a's invitation
          offers,       \* offers[a][g]: what the audit log says of generation g
          recovery,     \* recovery[a]: the row of a's reset link
          tasks,        \* deliveries under way in the server
          mailed,       \* links that have left the server
          redeemed      \* links that were used

rows == <<user, invitation, offers, recovery>>
vars == <<rows, tasks, mailed, redeemed>>
-----------------------------------------------------------------------------
Role == BusinessRole \union {Admin, PartnerRole}

User == [state : {"absent", "pending", "active", "inactive"}, role : Role,
         partner : Partner \union {None}, version : Nat, password : Nat]

NoUser == [state |-> "absent", role |-> Admin, partner |-> None,
           version |-> 0, password |-> 0]

Invitation == [state : {"absent", "prepared", "delivered", "consumed", "revoked"},
               version : Nat, expired : BOOLEAN]

NoInvitation == [state |-> "absent", version |-> 0, expired |-> FALSE]

Offer == [account : User, outcome : {"unconfirmed", "sent", "failed"}]

Recovery == [state : {"absent", "prepared", "delivered", "consumed"},
             generation : Nat, proof : User, expired : BOOLEAN]

NoRecovery == [state |-> "absent", generation |-> 0, proof |-> NoUser,
               expired |-> FALSE]

Link == [kind : {"invitation", "recovery"}, account : Account,
         generation : 0..(MaxOffers + MaxRecoveries)]

LinkOf(k, a, g) == [kind |-> k, account |-> a, generation |-> g]

\* "asked" is a reset whose task has not begun; "checked" one that was found
\* current just before its mail; "sent" and "failed" is what the mailer reported.
Step == {"asked", "prepared", "checked", "sent", "failed"}

Task == [link : Link, step : Step]

Init == /\ user = [a \in Account |-> NoUser]
        /\ invitation = [a \in Account |-> NoInvitation]
        /\ offers = [a \in Account |-> <<>>]
        /\ recovery = [a \in Account |-> NoRecovery]
        /\ tasks = {} /\ mailed = {} /\ redeemed = {}
-----------------------------------------------------------------------------
(***************************************************************************)
(* Invitations.                                                            *)
(***************************************************************************)

Generation(a) == Len(offers[a])

\* mutant: the hash leaves out the version and the password
Proof_RowOnly(a) == [user[a] EXCEPT !.version = 0, !.password = 0]

\* The proof of an account is a keyed hash of its whole row. A password is
\* named by the version that set it: hashes are salted, so no two are equal.
Proof(a) == user[a]

\* A new secret for a's invitation, on the row of a as this command leaves it.
\* The caller then mails it, which is a task of its own.
PrepareInvitation(a, row) ==
    /\ Generation(a) < MaxOffers
    /\ Cardinality(tasks) < MaxTasks
    /\ invitation' = [invitation EXCEPT ![a] = [state |-> "prepared",
                         version |-> @.version + 1, expired |-> FALSE]]
    /\ offers' = [offers EXCEPT ![a] =
                     Append(@, [account |-> row, outcome |-> "unconfirmed"])]
    /\ tasks' = tasks \union {[link |-> LinkOf("invitation", a, Generation(a) + 1),
                               step |-> "prepared"]}

\* The account is still what the newest offer was made to.
InvitationBound(a) ==
    LET facts == offers[a][Generation(a)].account
    IN  /\ facts.role = user[a].role /\ facts.partner = user[a].partner
        /\ facts.version = user[a].version /\ facts.state = user[a].state

NewAccount(role, partner) ==
    [state |-> "pending", role |-> role, partner |-> partner,
     version |-> 1, password |-> 0]

\* The operator's command for the first administrator, in an empty store.
Bootstrap(a) ==
    /\ \A b \in Account : user[b].state = "absent"
    /\ user' = [user EXCEPT ![a] = NewAccount(Admin, None)]
    /\ PrepareInvitation(a, user'[a])
    /\ UNCHANGED <<recovery, mailed, redeemed>>

ReissueBootstrap(a) ==
    /\ user[a].state = "pending" /\ user[a].role = Admin
    /\ invitation[a].state \notin {"consumed", "revoked"}
    /\ PrepareInvitation(a, user[a])
    /\ UNCHANGED <<user, recovery, mailed, redeemed>>

\* Every other command on accounts is an active administrator's.
Administered == \E b \in Account : user[b].state = "active" /\ user[b].role = Admin

Invite(a, role, partner) ==
    /\ Administered
    /\ (role = PartnerRole) <=> (partner # None)
    /\ user[a].state = "absent"
    /\ user' = [user EXCEPT ![a] = NewAccount(role, partner)]
    /\ PrepareInvitation(a, user'[a])
    /\ UNCHANGED <<recovery, mailed, redeemed>>

\* mutant: a revoked invitation can be made out again
Changeable_Revoked(a) == /\ Administered
                         /\ user[a].role # Admin /\ user[a].state = "pending"
                         /\ invitation[a].state # "consumed"
Changeable(a) == /\ Administered
                 /\ user[a].role # Admin /\ user[a].state = "pending"
                 /\ invitation[a].state \notin {"consumed", "revoked"}

Resend(a) == /\ Changeable(a)
             /\ PrepareInvitation(a, user[a])
             /\ UNCHANGED <<user, recovery, mailed, redeemed>>

Revoke(a) ==
    /\ Changeable(a)
    /\ invitation' = [invitation EXCEPT ![a].state = "revoked", ![a].version = @ + 1]
    /\ UNCHANGED <<user, offers, recovery, tasks, mailed, redeemed>>

\* mutant: a late delivery marks whatever generation is there
Deliverable_AnyGeneration(l) == /\ invitation[l.account].state = "prepared"
                                /\ user[l.account].state = "pending"
                                /\ InvitationBound(l.account)
\* The second transaction of a delivery, after the mailer answered.
Deliverable(l) == /\ l.generation = Generation(l.account)
                  /\ invitation[l.account].state = "prepared"
                  /\ user[l.account].state = "pending"
                  /\ InvitationBound(l.account)

DeliverInvitation(t) ==
    LET a == t.link.account
    IN  /\ t.link.kind = "invitation" /\ t.step \in {"sent", "failed"}
        /\ tasks' = tasks \ {t}
        /\ IF Deliverable(t.link)
           THEN /\ invitation' = [invitation EXCEPT
                      ![a].state = IF t.step = "sent" THEN "delivered" ELSE @,
                      ![a].version = @ + 1]
                /\ offers' = [offers EXCEPT ![a][Generation(a)].outcome = t.step]
           ELSE UNCHANGED <<invitation, offers>>
        /\ UNCHANGED <<user, recovery, mailed, redeemed>>

\* What invitation_item shows of the newest delivery.
DeliveryStatus(a) == CASE offers[a][Generation(a)].outcome = "sent" -> "delivered"
                       [] offers[a][Generation(a)].outcome = "failed" -> "failed"
                       [] OTHER -> "unconfirmed"

\* invitation() accepts the newest link only: its row holds one verifier.
Acceptable(l) == /\ l.kind = "invitation"
                 /\ user[l.account].state = "pending"
                 /\ InvitationBound(l.account)
                 /\ invitation[l.account].state = "delivered"
                 /\ ~invitation[l.account].expired
                 /\ l.generation = Generation(l.account)

Accept(l) ==
    LET a == l.account
    IN  /\ Acceptable(l)
        /\ user[a].version < MaxVersion
        /\ user' = [user EXCEPT ![a].state = "active", ![a].version = @ + 1,
                                ![a].password = user[a].version + 1]
        /\ invitation' = [invitation EXCEPT ![a].state = "consumed",
                                            ![a].version = @ + 1]
        /\ redeemed' = redeemed \union {l}
        /\ UNCHANGED <<offers, recovery, tasks, mailed>>
-----------------------------------------------------------------------------
(***************************************************************************)
(* Changes of an account by an administrator.                              *)
(***************************************************************************)

\* The guard of lifecycle(); that the account holds no assignment is the
\* subject of ActivityReview and left out here: it only refuses more.
Governable(a) == /\ Administered
                 /\ user[a].role # Admin /\ user[a].state = "active"
                 /\ user[a].version < MaxVersion

ChangeRole(a, role) ==
    /\ Governable(a) /\ user[a].role # PartnerRole /\ user[a].role # role
    /\ user' = [user EXCEPT ![a].role = role, ![a].version = @ + 1]
    /\ UNCHANGED <<invitation, offers, recovery, tasks, mailed, redeemed>>

Deactivate(a) ==
    /\ Governable(a)
    /\ user' = [user EXCEPT ![a].state = "inactive", ![a].version = @ + 1]
    /\ invitation' = IF invitation[a].state \in {"prepared", "delivered"}
                     THEN [invitation EXCEPT ![a].state = "revoked",
                                             ![a].version = @ + 1]
                     ELSE invitation
    /\ UNCHANGED <<offers, recovery, tasks, mailed, redeemed>>
-----------------------------------------------------------------------------
(***************************************************************************)
(* Password resets. A request answers at once; a background task prepares, *)
(* checks, mails and records, swallowing every failure.                    *)
(***************************************************************************)

\* mutant: the administrator may reset too
Recoverable_Admin(a) == user[a].state = "active"
Recoverable(a) == user[a].state = "active" /\ user[a].role # Admin

\* mutant: an expired link is preserved too
Preserved_Expired(a) == /\ recovery[a].state \in {"prepared", "delivered"}
                        /\ recovery[a].proof = Proof(a)

\* A link that another request must neither replace nor extend.
Preserved(a) == /\ recovery[a].state \in {"prepared", "delivered"}
                /\ ~recovery[a].expired
                /\ recovery[a].proof = Proof(a)

AskRecovery(a) ==
    LET t == [link |-> LinkOf("recovery", a, 0), step |-> "asked"]
    IN  /\ t \notin tasks /\ Cardinality(tasks) < MaxTasks
        /\ tasks' = tasks \union {t}
        /\ UNCHANGED <<rows, mailed, redeemed>>

PrepareRecovery(t) ==
    LET a == t.link.account
        g == recovery[a].generation + 1
    IN  /\ t.step = "asked"
        /\ IF Recoverable(a) /\ ~Preserved(a) /\ g <= MaxRecoveries
           THEN /\ recovery' = [recovery EXCEPT ![a] = [state |-> "prepared",
                      generation |-> g, proof |-> Proof(a), expired |-> FALSE]]
                /\ tasks' = (tasks \ {t}) \union
                      {[link |-> LinkOf("recovery", a, g), step |-> "prepared"]}
           ELSE /\ tasks' = tasks \ {t}
                /\ UNCHANGED recovery
        /\ UNCHANGED <<user, invitation, offers, mailed, redeemed>>

\* The test made before the mail and again after it.
RecoveryCurrent(l) == /\ l.generation = recovery[l.account].generation
                      /\ recovery[l.account].state = "prepared"
                      /\ ~recovery[l.account].expired
                      /\ Recoverable(l.account)
                      /\ recovery[l.account].proof = Proof(l.account)

CheckRecovery(t) ==
    /\ t.link.kind = "recovery" /\ t.step = "prepared"
    /\ tasks' = (tasks \ {t}) \union
          (IF RecoveryCurrent(t.link) THEN {[t EXCEPT !.step = "checked"]} ELSE {})
    /\ UNCHANGED <<rows, mailed, redeemed>>

DeliverRecovery(t) ==
    /\ t.link.kind = "recovery" /\ t.step \in {"sent", "failed"}
    /\ tasks' = tasks \ {t}
    /\ recovery' = IF RecoveryCurrent(t.link) /\ t.step = "sent"
                   THEN [recovery EXCEPT ![t.link.account].state = "delivered"]
                   ELSE recovery
    /\ UNCHANGED <<user, invitation, offers, mailed, redeemed>>

\* mutant: any link of the account opens its row
Resettable_AnySecret(l) == /\ l.kind = "recovery"
                           /\ recovery[l.account].state = "delivered"
                           /\ ~recovery[l.account].expired
                           /\ Recoverable(l.account)
                           /\ recovery[l.account].proof = Proof(l.account)

Resettable(l) == /\ l.kind = "recovery"
                 /\ l.generation = recovery[l.account].generation
                 /\ recovery[l.account].state = "delivered"
                 /\ ~recovery[l.account].expired
                 /\ Recoverable(l.account)
                 /\ recovery[l.account].proof = Proof(l.account)

CompleteRecovery(l) ==
    LET a == l.account
    IN  /\ Resettable(l)
        /\ user[a].version < MaxVersion
        /\ user' = [user EXCEPT ![a].version = @ + 1,
                                ![a].password = user[a].version + 1]
        /\ recovery' = [recovery EXCEPT ![a].state = "consumed"]
        /\ redeemed' = redeemed \union {l}
        /\ UNCHANGED <<invitation, offers, tasks, mailed>>
-----------------------------------------------------------------------------
(***************************************************************************)
(* The mail, the clock and the loss of a task.                             *)
(***************************************************************************)

\* An error of the mailer does not tell whether the mail has left.
Send(t) ==
    /\ \/ t.link.kind = "invitation" /\ t.step = "prepared"
       \/ t.step = "checked"
    /\ \/ /\ tasks' = (tasks \ {t}) \union {[t EXCEPT !.step = "sent"]}
          /\ mailed' = mailed \union {t.link}
       \/ /\ tasks' = (tasks \ {t}) \union {[t EXCEPT !.step = "failed"]}
          /\ mailed' \in {mailed, mailed \union {t.link}}
    /\ UNCHANGED <<rows, redeemed>>

\* A crash or a failed transaction ends the task wherever it is.
Lose(t) == /\ tasks' = tasks \ {t}
           /\ UNCHANGED <<rows, mailed, redeemed>>

ExpireInvitation(a) ==
    /\ invitation[a].state \in {"prepared", "delivered"} /\ ~invitation[a].expired
    /\ invitation' = [invitation EXCEPT ![a].expired = TRUE]
    /\ UNCHANGED <<user, offers, recovery, tasks, mailed, redeemed>>

ExpireRecovery(a) ==
    /\ recovery[a].state \in {"prepared", "delivered"} /\ ~recovery[a].expired
    /\ recovery' = [recovery EXCEPT ![a].expired = TRUE]
    /\ UNCHANGED <<user, invitation, offers, tasks, mailed, redeemed>>

Proceed(t) == \/ Send(t) \/ DeliverInvitation(t)
              \/ PrepareRecovery(t) \/ CheckRecovery(t) \/ DeliverRecovery(t)

Next ==
    \/ \E a \in Account :
          \/ Bootstrap(a) \/ ReissueBootstrap(a) \/ Resend(a) \/ Revoke(a)
          \/ Deactivate(a) \/ AskRecovery(a)
          \/ ExpireInvitation(a) \/ ExpireRecovery(a)
          \/ \E role \in BusinessRole \union {PartnerRole}, p \in Partner \union {None} :
                Invite(a, role, p)
          \/ \E role \in BusinessRole : ChangeRole(a, role)
    \/ \E t \in tasks : Proceed(t) \/ Lose(t)
    \/ \E l \in mailed : Accept(l) \/ CompleteRecovery(l)

Spec == Init /\ [][Next]_vars

\* A task goes on until it is done or lost, and time passes. Nobody is obliged
\* to ask for, mail or use anything.
Fairness == /\ \A l \in Link : WF_vars(\E t \in tasks : t.link = l /\ Proceed(t))
            /\ \A a \in Account : WF_vars(ExpireInvitation(a))
            /\ \A a \in Account : WF_vars(ExpireRecovery(a))

FairSpec == Spec /\ Fairness
-----------------------------------------------------------------------------
(***************************************************************************)
(* Safety.                                                                 *)
(***************************************************************************)

\* The types of the rows and of what is under way.
TypeOK == /\ user \in [Account -> User]
          /\ invitation \in [Account -> Invitation]
          /\ offers \in [Account -> Seq(Offer)]
          /\ recovery \in [Account -> Recovery]
          /\ tasks \subseteq Task
          /\ mailed \subseteq Link /\ redeemed \subseteq Link

\* A link is usable or used only if the mail with this very link has left the
\* server: a delivery that ends late never marks the link of a newer one.
UsableWasMailed ==
    \A a \in Account :
        /\ invitation[a].state \in {"delivered", "consumed"} =>
              LinkOf("invitation", a, Generation(a)) \in mailed
        /\ recovery[a].state \in {"delivered", "consumed"} =>
              LinkOf("recovery", a, recovery[a].generation) \in mailed

\* What the administrator is told of a delivery (invitation_item) agrees with what
\* the link can do: a link that can activate the account was reported as
\* delivered, and a delivery reported as failed left it unusable.
DeliveryReportedTruly ==
    \A a \in Account : invitation[a].state # "absent" =>
        /\ invitation[a].state \in {"delivered", "consumed"} => DeliveryStatus(a) = "delivered"
        /\ invitation[a].state = "prepared" => DeliveryStatus(a) # "delivered"

\* An account has a password exactly when its invitation was accepted, and the
\* links that were used account for every password ever set: as many resets as
\* the row has seen, and one acceptance (the role and Partner offered are the
\* ones it started with).
CredentialsExplained ==
    \A a \in Account :
        LET used(k) == {l \in redeemed : l.kind = k /\ l.account = a}
        IN  /\ user[a].state \in {"absent", "pending"} =>
                  user[a].password = 0 /\ used("invitation") = {} /\ used("recovery") = {}
            /\ user[a].state \in {"active", "inactive"} =>
                  /\ invitation[a].state = "consumed"
                  /\ used("invitation") = {LinkOf("invitation", a, Generation(a))}
                  /\ offers[a][Generation(a)].account.partner = user[a].partner
                  /\ (user[a].password = 2) <=> (used("recovery") = {})

\* There is one administrator, whatever is invited, resent or changed, and no
\* reset link is ever prepared for it.
OneAdministrator ==
    /\ Cardinality({a \in Account : user[a].state # "absent" /\ user[a].role = Admin}) <= 1
    /\ \A a \in Account : user[a].role = Admin =>
          /\ user[a].state # "inactive"
          /\ recovery[a].state = "absent"

\* The database accepts every row the commands write: a Partner account and no
\* other has a Partner (auth_user_partner_binding), whoever is not pending has a
\* password, and one e-mail is one account (one Partner binding for good).
DatabaseAccepts ==
    \A a \in Account : user[a].state # "absent" =>
        /\ (user[a].role = PartnerRole) <=> (user[a].partner # None)
        /\ user[a].state = "pending" \/ user[a].password # 0
        /\ invitation[a].version > 0
        /\ \A g \in 1..Generation(a) : offers[a][g].account.partner = user[a].partner

\* A link works only after its mail has left, and nobody is told otherwise.
LinksWereMailed == UsableWasMailed /\ DeliveryReportedTruly

\* The rows agree with each other and with what was done with the links: the
\* constraints of the tables, the one administrator, and a password for every link.
AccountsConsistent == /\ TypeOK
                      /\ CredentialsExplained
                      /\ OneAdministrator
                      /\ DatabaseAccepts
-----------------------------------------------------------------------------
(***************************************************************************)
(* What a step may never do.                                               *)
(***************************************************************************)

\* A password changes only through the newest link of its kind, mailed, never used
\* before, and no reset link issued earlier to the account works afterwards.
PasswordsByFreshLink ==
    [][\A a \in Account : user'[a].password # user[a].password =>
         /\ \E l \in mailed \ redeemed :
               /\ l.account = a /\ redeemed' = redeemed \union {l}
               /\ l.generation = IF l.kind = "invitation" THEN Generation(a)
                                                         ELSE recovery[a].generation
         /\ \A l \in mailed : l.account = a => ~Resettable(l)' /\ ~Acceptable(l)']_vars

\* What has ended stays as it ended, whatever deliveries were under way and whatever an
\* administrator or the operator does later: an invitation that was revoked or accepted
\* is never made out again, a revoked address never gets an account, and a deactivated
\* account never comes back or changes its password.
EndingsAreFinal ==
    [][\A a \in Account :
         /\ invitation[a].state \in {"revoked", "consumed"} =>
               invitation'[a] = invitation[a] /\ offers'[a] = offers[a]
         /\ invitation[a].state = "revoked" \/ user[a].state = "inactive" =>
               user'[a] = user[a]]_vars
-----------------------------------------------------------------------------
(***************************************************************************)
(* Each kind of link is a OneTimeSecret.                                   *)
(***************************************************************************)

InvitationPhase(a) ==
    CASE invitation[a].state = "absent" -> "idle"
      [] invitation[a].state = "consumed" -> "spent"
      [] \/ invitation[a].state = "revoked"
         \/ invitation[a].state \in {"prepared", "delivered"} /\ invitation[a].expired -> "void"
      [] invitation[a].state = "prepared" /\ ~invitation[a].expired -> "issued"
      [] invitation[a].state = "delivered" /\ ~invitation[a].expired -> "usable"

RecoveryPhase(a) ==
    CASE recovery[a].state = "absent" -> "idle"
      [] recovery[a].state = "consumed" -> "spent"
      [] recovery[a].state \in {"prepared", "delivered"} /\ ~Preserved(a) -> "void"
      [] recovery[a].state = "prepared" /\ Preserved(a) -> "issued"
      [] recovery[a].state = "delivered" /\ Preserved(a) -> "usable"

Redeemed(k, a) == {l.generation : l \in {r \in redeemed : r.kind = k /\ r.account = a}}

InvitationLinks == INSTANCE OneTimeSecret WITH Holder <- Account,
    issued <- [a \in Account |-> Generation(a)],
    phase <- [a \in Account |-> InvitationPhase(a)],
    redeemed <- [a \in Account |-> Redeemed("invitation", a)]

RecoveryLinks == INSTANCE OneTimeSecret WITH Holder <- Account,
    issued <- [a \in Account |-> recovery[a].generation],
    phase <- [a \in Account |-> RecoveryPhase(a)],
    redeemed <- [a \in Account |-> Redeemed("recovery", a)]

\* The invitations of all accounts are one-time secrets: a late delivery does not
\* revive a link that was replaced, revoked or ran out.
InvitationsAreOneTime == InvitationLinks!Spec

\* The reset links are: once the account changed in any way, or the link was
\* used or ran out, it never works again, whatever happens to the account later.
RecoveriesAreOneTime == RecoveryLinks!Spec

\* Both kinds of link keep the promise of OneTimeSecret.
LinksAreOneTime == InvitationsAreOneTime /\ RecoveriesAreOneTime
-----------------------------------------------------------------------------
(***************************************************************************)
(* Liveness.                                                               *)
(***************************************************************************)

\* A reset link whose mail failed, or whose task was lost, keeps the holder from
\* asking for another, but not for ever.
ResetsReopen == \A a \in Account : Preserved(a) ~> ~Preserved(a)
=============================================================================
