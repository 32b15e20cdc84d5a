--------------------------- MODULE AccountsProofs ---------------------------
(***************************************************************************)
(* Theorems about Accounts for any addresses, Partners, roles and bounds.  *)
(***************************************************************************)
EXTENDS Accounts, FiniteSetTheorems, SequenceTheorems, TLAPS

-----------------------------------------------------------------------------
\* The invariant: what is known of one account, by the state of its row.

\* An address nobody was invited at has no row at all.
AbsentSound(a) ==
    /\ user[a] = NoUser /\ invitation[a] = NoInvitation
    /\ offers[a] = <<>> /\ recovery[a] = NoRecovery

\* A pending account is still as it was made, and can reset nothing.
PendingSound(a) ==
    /\ user[a].version = 1 /\ user[a].password = 0
    /\ invitation[a].state \in {"prepared", "delivered", "revoked"}
    /\ recovery[a] = NoRecovery

\* An account that was activated has used its newest invitation, and its password
\* is named by a version it has had.
ActivatedSound(a) ==
    /\ 2 <= user[a].password /\ user[a].password <= user[a].version
    /\ invitation[a].state = "consumed"
    /\ LinkOf("invitation", a, Generation(a)) \in redeemed
    /\ user[a].password # 2 => \E l \in redeemed : l.kind = "recovery" /\ l.account = a

\* What holds of every row: the Partner it was offered with is the one it has.
RowSound(a) ==
    /\ (user[a].role = PartnerRole) <=> (user[a].partner # None)
    /\ invitation[a].version > 0
    /\ Generation(a) \in 1..MaxOffers
    /\ \A g \in 1..Generation(a) : offers[a][g].account.partner = user[a].partner

AccountSound(a) ==
    /\ user[a].state = "absent" => AbsentSound(a)
    /\ user[a].state = "pending" => PendingSound(a)
    /\ user[a].state \in {"active", "inactive"} => ActivatedSound(a)
    /\ user[a].state # "absent" => RowSound(a)
    /\ user[a].role = Admin => user[a].state # "inactive" /\ recovery[a] = NoRecovery

\* A reset link was issued for a version the account has had: a later one never
\* makes it current again.
RecoverySound(a) == /\ recovery[a].generation <= MaxRecoveries
                    /\ recovery[a].proof.version <= user[a].version

\* A link was used while it was the newest of its kind, and its row remembers.
UsedSound(a) ==
    \A l \in redeemed : l.account = a =>
        /\ user[a].state \in {"active", "inactive"}
        /\ l.kind = "invitation" => l.generation = Generation(a)
        /\ l.kind = "recovery" =>
              /\ user[a].password # 2
              /\ l.generation <= recovery[a].generation
              /\ l.generation = recovery[a].generation => recovery[a].state = "consumed"

\* What the rows and the log say of a mail is what happened to it.
MailSound(a) ==
    /\ invitation[a].state \in {"delivered", "consumed"} =>
          /\ LinkOf("invitation", a, Generation(a)) \in mailed
          /\ offers[a][Generation(a)].outcome = "sent"
    /\ invitation[a].state = "prepared" => offers[a][Generation(a)].outcome # "sent"
    /\ recovery[a].state \in {"delivered", "consumed"} =>
          LinkOf("recovery", a, recovery[a].generation) \in mailed

HolderSound(a) == AccountSound(a) /\ RecoverySound(a) /\ UsedSound(a) /\ MailSound(a)

\* Nobody becomes administrator but the first account.
IsAdministrator(a) == user[a].state # "absent" /\ user[a].role = Admin

AdministratorIsFirst ==
    \A a, b \in Account : IsAdministrator(a) /\ IsAdministrator(b) => a = b

\* A task says what was mailed, and only a reset waits to begin.
TaskSound(t) == /\ t.step = "asked" => t.link.kind = "recovery"
                /\ t.step = "sent" => t.link \in mailed

AccountsInv == /\ TypeOK /\ AdministratorIsFirst
               /\ \A a \in Account : HolderSound(a)
               /\ \A t \in tasks : TaskSound(t)
-----------------------------------------------------------------------------
\* The invariant says what the runs check.
LEMMA InvSuffices ==
    ASSUME AccountsInv
    PROVE  AccountsConsistent /\ LinksWereMailed
<1>1. ASSUME NEW a \in Account
      PROVE  /\ HolderSound(a)
             /\ user[a] \in User /\ invitation[a] \in Invitation
             /\ offers[a] \in Seq(Offer) /\ recovery[a] \in Recovery
  BY <1>1 DEF AccountsInv, TypeOK
<1>2. LinksWereMailed
  <2> SUFFICES ASSUME NEW a \in Account
               PROVE  /\ invitation[a].state \in {"delivered", "consumed"} =>
                            /\ LinkOf("invitation", a, Generation(a)) \in mailed
                            /\ DeliveryStatus(a) = "delivered"
                      /\ invitation[a].state = "prepared" => DeliveryStatus(a) # "delivered"
                      /\ recovery[a].state \in {"delivered", "consumed"} =>
                            LinkOf("recovery", a, recovery[a].generation) \in mailed
    BY Zenon DEF LinksWereMailed, UsableWasMailed, DeliveryReportedTruly
  <2>1. (DeliveryStatus(a) = "delivered") <=> (offers[a][Generation(a)].outcome = "sent")
    BY DEF DeliveryStatus
  <2> QED
    BY <1>1, <2>1 DEF HolderSound, MailSound
<1>3. CredentialsExplained
  <2> SUFFICES ASSUME NEW a \in Account
               PROVE  LET used(k) == {l \in redeemed : l.kind = k /\ l.account = a}
                      IN  /\ user[a].state \in {"absent", "pending"} =>
                                user[a].password = 0 /\ used("invitation") = {} /\ used("recovery") = {}
                          /\ user[a].state \in {"active", "inactive"} =>
                                /\ invitation[a].state = "consumed"
                                /\ used("invitation") = {LinkOf("invitation", a, Generation(a))}
                                /\ offers[a][Generation(a)].account.partner = user[a].partner
                                /\ (user[a].password = 2) <=> (used("recovery") = {})
    BY DEF CredentialsExplained
  <2> DEFINE used(k) == {l \in redeemed : l.kind = k /\ l.account = a}
  <2>1. AccountSound(a) /\ UsedSound(a)
    BY <1>1 DEF HolderSound
  <2>2. CASE user[a].state \in {"absent", "pending"}
    <3>1. user[a].password = 0
      BY <2>1, <2>2 DEF AccountSound, AbsentSound, PendingSound, NoUser
    <3>2. \A k : used(k) = {}
      BY <2>1, <2>2 DEF UsedSound
    <3> QED
      BY <2>2, <3>1, <3>2
  <2>3. CASE user[a].state \in {"active", "inactive"}
    <3>1. ActivatedSound(a) /\ RowSound(a)
      BY <2>1, <2>3 DEF AccountSound
    <3>2. used("invitation") = {LinkOf("invitation", a, Generation(a))}
      <4>1. \A l \in used("invitation") : l = LinkOf("invitation", a, Generation(a))
        <5> SUFFICES ASSUME NEW l \in redeemed, l.kind = "invitation", l.account = a
                     PROVE  l = LinkOf("invitation", a, Generation(a))
          OBVIOUS
        <5>1. l \in Link /\ l.generation = Generation(a)
          BY <2>1 DEF AccountsInv, TypeOK, UsedSound
        <5> QED
          BY <5>1 DEF Link, LinkOf
      <4>2. LinkOf("invitation", a, Generation(a)) \in used("invitation")
        BY <3>1 DEF ActivatedSound, LinkOf
      <4> QED
        BY <4>1, <4>2
    <3>3. offers[a][Generation(a)].account.partner = user[a].partner
      BY <3>1 DEF RowSound
    <3>4. (user[a].password = 2) <=> (used("recovery") = {})
      BY <2>1, <3>1 DEF UsedSound, ActivatedSound
    <3> QED
      BY <2>3, <3>1, <3>2, <3>3, <3>4 DEF ActivatedSound
  <2>4. user[a].state \in {"absent", "pending", "active", "inactive"}
    BY <1>1 DEF User
  <2> QED
    BY <2>2, <2>3, <2>4
<1>4. OneAdministrator
  <2>1. Cardinality({a \in Account : IsAdministrator(a)}) <= 1
    <3> DEFINE A == {a \in Account : IsAdministrator(a)}
    <3>1. CASE A = {}
      BY <3>1, FS_EmptySet
    <3>2. CASE A # {}
      <4>1. PICK a \in Account : a \in A
        BY <3>2
      <4>2. A = {a}
        BY <4>1 DEF AccountsInv, AdministratorIsFirst
      <4> QED
        BY <4>2, FS_Singleton
    <3> QED
      BY <3>1, <3>2
  <2>2. ASSUME NEW a \in Account, user[a].role = Admin
        PROVE  user[a].state # "inactive" /\ recovery[a].state = "absent"
    BY <1>1, <2>2 DEF HolderSound, AccountSound, NoRecovery
  <2> QED
    BY <2>1, <2>2 DEF OneAdministrator, IsAdministrator
<1>5. DatabaseAccepts
  <2> SUFFICES ASSUME NEW a \in Account, user[a].state # "absent"
               PROVE  /\ RowSound(a)
                      /\ user[a].state = "pending" \/ user[a].password # 0
    BY DEF DatabaseAccepts, RowSound
  <2>1. user[a].state \in {"pending", "active", "inactive"}
    BY <1>1 DEF User
  <2> QED
    BY <1>1, <2>1 DEF HolderSound, AccountSound, ActivatedSound
<1> QED
  BY <1>2, <1>3, <1>4, <1>5 DEF AccountsInv, AccountsConsistent
-----------------------------------------------------------------------------
\* The rows of one account.
LEMMA Rows ==
    ASSUME AccountsInv, NEW a \in Account
    PROVE  /\ HolderSound(a)
           /\ user[a] \in User /\ invitation[a] \in Invitation
           /\ offers[a] \in Seq(Offer) /\ recovery[a] \in Recovery
           /\ Generation(a) \in Nat
           /\ user[a].state \in {"absent", "pending", "active", "inactive"}
           /\ user[a].version \in Nat /\ user[a].password \in Nat
           /\ invitation[a].version \in Nat /\ invitation[a].expired \in BOOLEAN
           /\ recovery[a].generation \in Nat /\ recovery[a].proof \in User
           /\ recovery[a].proof.version \in Nat /\ recovery[a].expired \in BOOLEAN
           /\ \A g \in 1..Generation(a) : offers[a][g] \in Offer
<1>1. /\ HolderSound(a)
      /\ user[a] \in User /\ invitation[a] \in Invitation
      /\ offers[a] \in Seq(Offer) /\ recovery[a] \in Recovery
  BY DEF AccountsInv, TypeOK
<1>2. Generation(a) \in Nat /\ \A g \in 1..Generation(a) : offers[a][g] \in Offer
  BY <1>1, ElementOfSeq, LenProperties DEF Generation
<1>3. recovery[a].proof \in User /\ \A r \in User : r.version \in Nat
  BY <1>1 DEF Recovery, User
<1> QED
  BY <1>1, <1>2, <1>3 DEF User, Invitation, Recovery

\* A row keeps its type, and its other fields, when one field is set.
LEMMA UserUpdate ==
    ASSUME NEW r \in User
    PROVE  /\ \A v \in {"absent", "pending", "active", "inactive"} : [r EXCEPT !.state = v] \in User
           /\ \A v \in Role : [r EXCEPT !.role = v] \in User
           /\ \A v \in Nat : [r EXCEPT !.version = v] \in User
           /\ \A v \in Nat : [r EXCEPT !.password = v] \in User
BY DEF User

LEMMA InvitationUpdate ==
    ASSUME NEW r \in Invitation
    PROVE  /\ \A v \in {"absent", "prepared", "delivered", "consumed", "revoked"} :
                 [r EXCEPT !.state = v] \in Invitation
           /\ \A v \in Nat : [r EXCEPT !.version = v] \in Invitation
           /\ [r EXCEPT !.expired = TRUE] \in Invitation
BY DEF Invitation

LEMMA RecoveryUpdate ==
    ASSUME NEW r \in Recovery
    PROVE  /\ \A v \in {"absent", "prepared", "delivered", "consumed"} :
                 [r EXCEPT !.state = v] \in Recovery
           /\ [r EXCEPT !.expired = TRUE] \in Recovery
BY DEF Recovery

LEMMA NoRows == NoUser \in User /\ NoInvitation \in Invitation /\ NoRecovery \in Recovery
<1>1. NoUser \in User
  BY DEF NoUser, User, Role
<1> QED
  BY <1>1 DEF NoInvitation, Invitation, NoRecovery, Recovery

\* Only tasks and mails change: what is known of an account stays.
\* More links may be mailed, and more links of others used.
LEMMA SameHolder ==
    ASSUME NEW b \in Account, HolderSound(b),
           user'[b] = user[b], invitation'[b] = invitation[b],
           offers'[b] = offers[b], recovery'[b] = recovery[b],
           mailed \subseteq mailed', redeemed \subseteq redeemed',
           \A l \in redeemed' : l.account = b => l \in redeemed
    PROVE  HolderSound(b)'
<1>1. Generation(b)' = Generation(b)
  BY DEF Generation
<1>2. AccountSound(b)'
  <2>1. user[b].state = "absent" => AbsentSound(b)'
    BY DEF HolderSound, AccountSound, AbsentSound
  <2>2. user[b].state = "pending" => PendingSound(b)'
    BY DEF HolderSound, AccountSound, PendingSound
  <2>3. user[b].state \in {"active", "inactive"} => ActivatedSound(b)'
    BY <1>1 DEF HolderSound, AccountSound, ActivatedSound
  <2>4. user[b].state # "absent" => RowSound(b)'
    BY <1>1 DEF HolderSound, AccountSound, RowSound
  <2> QED
    BY <2>1, <2>2, <2>3, <2>4 DEF HolderSound, AccountSound
<1>3. RecoverySound(b)'
  BY DEF HolderSound, RecoverySound
<1>4. UsedSound(b)'
  BY <1>1 DEF HolderSound, UsedSound
<1>5. MailSound(b)'
  BY <1>1 DEF HolderSound, MailSound
<1> QED
  BY <1>2, <1>3, <1>4, <1>5 DEF HolderSound

\* A step that is about one account, and makes an administrator of the first only.
Promoted(a) == IsAdministrator(a)' /\ ~IsAdministrator(a)

Elsewhere(a) ==
    /\ \A b \in Account \ {a} :
          /\ user'[b] = user[b] /\ invitation'[b] = invitation[b]
          /\ offers'[b] = offers[b] /\ recovery'[b] = recovery[b]
    /\ mailed \subseteq mailed' /\ redeemed \subseteq redeemed'
    /\ \A l \in redeemed' : l \in redeemed \/ l.account = a
    /\ \A t \in tasks' : t \in tasks \/ TaskSound(t)'

LEMMA OneHolder ==
    ASSUME AccountsInv, NEW a \in Account, Elsewhere(a), TypeOK', HolderSound(a)',
           Promoted(a) => \A b \in Account : user[b].state = "absent"
    PROVE  AccountsInv'
<1>1. ASSUME NEW b \in Account
      PROVE  HolderSound(b)'
  <2>1. CASE b = a
    BY <2>1
  <2>2. CASE b # a
    <3>1. HolderSound(b)
      BY DEF AccountsInv
    <3> QED
      BY <2>2, <3>1, SameHolder DEF Elsewhere
  <2> QED
    BY <2>1, <2>2
<1>2. AdministratorIsFirst'
  <2> SUFFICES ASSUME NEW b \in Account, NEW c \in Account,
                      IsAdministrator(b)', IsAdministrator(c)'
               PROVE  b = c
    BY DEF AdministratorIsFirst
  <2>1. \A d \in Account \ {a} : IsAdministrator(d)' <=> IsAdministrator(d)
    BY DEF IsAdministrator, Elsewhere
  <2>2. CASE Promoted(a)
    BY <2>1, <2>2 DEF IsAdministrator
  <2>3. CASE ~Promoted(a)
    <3>1. IsAdministrator(b) /\ IsAdministrator(c)
      BY <2>1, <2>3 DEF Promoted
    <3> QED
      BY <3>1 DEF AccountsInv, AdministratorIsFirst
  <2> QED
    BY <2>2, <2>3
<1>3. \A t \in tasks' : TaskSound(t)'
  <2> SUFFICES ASSUME NEW t \in tasks'
               PROVE  TaskSound(t)'
    OBVIOUS
  <2>1. CASE t \in tasks
    BY <2>1 DEF AccountsInv, TaskSound, Elsewhere
  <2> QED
    BY <2>1 DEF Elsewhere
<1> QED
  BY <1>1, <1>2, <1>3 DEF AccountsInv
-----------------------------------------------------------------------------
LEMMA NewLink ==
    ASSUME NEW a \in Account, NEW k \in {"invitation", "recovery"}, NEW g \in Nat,
           g <= MaxOffers \/ g <= MaxRecoveries
    PROVE  LinkOf(k, a, g) \in Link
<1> DEFINE bound == MaxOffers + MaxRecoveries
<1>1. g \in 0..bound
  BY BoundAssumption
<1> HIDE DEF bound
<1> QED
  BY <1>1 DEF LinkOf, Link, bound

LEMMA NewTask ==
    ASSUME NEW l \in Link, NEW s \in Step
    PROVE  [link |-> l, step |-> s] \in Task
BY DEF Task

LEMMA TaskFields ==
    ASSUME AccountsInv, NEW t \in tasks
    PROVE  /\ t \in Task /\ t.link \in Link /\ t.link.account \in Account
           /\ t.link.generation \in Nat /\ TaskSound(t)
           /\ t = [link |-> t.link, step |-> t.step]
           /\ t.link = LinkOf(t.link.kind, t.link.account, t.link.generation)
<1> DEFINE bound == MaxOffers + MaxRecoveries
<1>1. t \in Task /\ TaskSound(t)
  BY DEF AccountsInv, TypeOK
<1>2. t.link \in Link /\ t = [link |-> t.link, step |-> t.step]
  BY <1>1 DEF Task
<1>3. 0..bound \subseteq Nat
  BY BoundAssumption
<1> HIDE DEF bound
<1> QED
  BY <1>1, <1>2, <1>3 DEF Link, LinkOf, bound

\* The row that is offered: a new account, or one that still is as it was offered.
Offered(a, row) ==
    \/ /\ user[a].state = "absent" /\ user' = [user EXCEPT ![a] = row]
       /\ \E r \in Role, p \in Partner \union {None} : row = NewAccount(r, p)
       /\ (row.role = PartnerRole) <=> (row.partner # None)
       /\ row.role = Admin => \A b \in Account : user[b].state = "absent"
    \/ /\ user[a].state = "pending" /\ user' = user /\ row = user[a]

LEMMA OfferedRow ==
    ASSUME AccountsInv, NEW a \in Account, NEW row, Offered(a, row)
    PROVE  /\ row \in User /\ user' \in [Account -> User] /\ user'[a] = row
           /\ \A b \in Account \ {a} : user'[b] = user[b]
           /\ row.state = "pending" /\ row.version = 1 /\ row.password = 0
           /\ (row.role = PartnerRole) <=> (row.partner # None)
           /\ recovery[a] = NoRecovery
           /\ \A g \in 1..Generation(a) : offers[a][g].account.partner = row.partner
           /\ Promoted(a) => \A b \in Account : user[b].state = "absent"
<1>1. AccountSound(a) /\ user \in [Account -> User]
  BY DEF AccountsInv, TypeOK, HolderSound
<1>2. CASE user[a].state = "absent"
  <2>1. PICK r \in Role, p \in Partner \union {None} : row = NewAccount(r, p)
    BY <1>2 DEF Offered
  <2>2. /\ row \in User /\ row.state = "pending" /\ row.version = 1 /\ row.password = 0
    BY <2>1 DEF NewAccount, User
  <2>3. user' = [user EXCEPT ![a] = row]
    BY <1>2 DEF Offered
  <2>4. AbsentSound(a)
    BY <1>1, <1>2 DEF AccountSound
  <2>5. Generation(a) = 0
    BY <2>4 DEF AbsentSound, Generation
  <2>6. /\ (row.role = PartnerRole) <=> (row.partner # None)
        /\ row.role = Admin => \A b \in Account : user[b].state = "absent"
    BY <1>2 DEF Offered
  <2>7. user' \in [Account -> User] /\ user'[a] = row
        /\ \A b \in Account \ {a} : user'[b] = user[b]
    BY <1>1, <2>2, <2>3
  <2> QED
    BY <2>2, <2>4, <2>5, <2>6, <2>7 DEF AbsentSound, Promoted, IsAdministrator
<1>3. CASE user[a].state # "absent"
  <2>1. user[a].state = "pending" /\ user' = user /\ row = user[a]
    BY <1>3 DEF Offered
  <2>2. PendingSound(a) /\ RowSound(a)
    BY <1>1, <2>1 DEF AccountSound
  <2> QED
    BY <1>1, <2>1, <2>2 DEF PendingSound, RowSound, Promoted, IsAdministrator
<1> QED
  BY <1>2, <1>3

\* A new invitation: the accounts made, and the mails sent again.
LEMMA OfferKeeps ==
    ASSUME AccountsInv, NEW a \in Account, NEW row, Offered(a, row),
           PrepareInvitation(a, row), UNCHANGED <<recovery, mailed, redeemed>>
    PROVE  AccountsInv'
<1> DEFINE offer == [account |-> row, outcome |-> "unconfirmed"]
           link == LinkOf("invitation", a, Generation(a) + 1)
           task == [link |-> link, step |-> "prepared"]
<1>1. /\ row \in User /\ user' \in [Account -> User] /\ user'[a] = row
      /\ \A b \in Account \ {a} : user'[b] = user[b]
      /\ row.state = "pending" /\ row.version = 1 /\ row.password = 0
      /\ (row.role = PartnerRole) <=> (row.partner # None)
      /\ recovery[a] = NoRecovery
      /\ \A g \in 1..Generation(a) : offers[a][g].account.partner = row.partner
      /\ Promoted(a) => \A b \in Account : user[b].state = "absent"
  BY OfferedRow
<1>2. /\ Generation(a) < MaxOffers
      /\ invitation' = [invitation EXCEPT ![a] = [state |-> "prepared",
                           version |-> invitation[a].version + 1, expired |-> FALSE]]
      /\ offers' = [offers EXCEPT ![a] = Append(offers[a], offer)]
      /\ tasks' = tasks \union {task}
  BY DEF PrepareInvitation
<1>3. /\ HolderSound(a) /\ invitation[a].version \in Nat /\ Generation(a) \in Nat
      /\ offers[a] \in Seq(Offer)
  BY Rows
<1>4. /\ invitation' \in [Account -> Invitation]
      /\ invitation'[a] = [state |-> "prepared", version |-> invitation[a].version + 1,
                           expired |-> FALSE]
      /\ \A b \in Account \ {a} : invitation'[b] = invitation[b]
  <2>1. [state |-> "prepared", version |-> invitation[a].version + 1,
         expired |-> FALSE] \in Invitation
    BY <1>3 DEF Invitation
  <2> QED
    BY <1>2, <2>1 DEF AccountsInv, TypeOK
<1>5. offer \in Offer
  BY <1>1 DEF Offer
<1>6. /\ offers' \in [Account -> Seq(Offer)]
      /\ offers'[a] = Append(offers[a], offer)
      /\ \A b \in Account \ {a} : offers'[b] = offers[b]
  <2>1. Append(offers[a], offer) \in Seq(Offer)
    BY <1>3, <1>5, AppendProperties
  <2> QED
    BY <1>2, <2>1 DEF AccountsInv, TypeOK
<1>7. /\ Generation(a)' = Generation(a) + 1
      /\ offers'[a][Generation(a) + 1] = offer
      /\ \A g \in 1..Generation(a) : offers'[a][g] = offers[a][g]
  <2> DEFINE log == offers[a]
  <2> HIDE DEF offer, log
  <2>1. /\ Len(Append(log, offer)) = Len(log) + 1
        /\ Append(log, offer)[Len(log) + 1] = offer
        /\ \A g \in 1..Len(log) : Append(log, offer)[g] = log[g]
    <3>1. log \in Seq(Offer)
      BY <1>3 DEF log
    <3> QED
      BY <1>5, <3>1, AppendProperties
  <2> QED
    BY <1>6, <2>1 DEF Generation, log
<1>8. task \in Task /\ task.step = "prepared"
  <2>1. link \in Link
    BY <1>2, <1>3, BoundAssumption, NewLink
  <2> HIDE DEF link
  <2> QED
    BY <2>1 DEF Task, Step
<1>9. TypeOK'
  <2> HIDE DEF task
  <2> QED
    BY <1>1, <1>2, <1>4, <1>6, <1>8 DEF AccountsInv, TypeOK
<1>10. HolderSound(a)'
  <2>1. PendingSound(a)'
    BY <1>1, <1>4 DEF PendingSound
  <2>2. RowSound(a)'
    <3>1. invitation'[a].version > 0
      BY <1>3, <1>4
    <3>2. Generation(a)' \in 1..MaxOffers
      BY <1>2, <1>3, <1>7, BoundAssumption
    <3>3. ASSUME NEW g \in 1..(Generation(a) + 1)
          PROVE  offers'[a][g].account.partner = row.partner
      <4>1. g \in 1..Generation(a) \/ g = Generation(a) + 1
        BY <1>3
      <4> QED
        BY <1>1, <1>7, <4>1
    <3> QED
      BY <1>1, <1>7, <3>1, <3>2, <3>3 DEF RowSound
  <2>3. AccountSound(a)'
    BY <1>1, <2>1, <2>2 DEF AccountSound
  <2>4. UsedSound(a)'
    <3>1. \A l \in redeemed : l.account # a
      <4>1. user[a].state \in {"absent", "pending"}
        BY DEF Offered
      <4> QED
        BY <1>3, <4>1 DEF HolderSound, UsedSound
    <3> QED
      BY <3>1 DEF UsedSound
  <2>5. RecoverySound(a)'
    BY <1>1, BoundAssumption DEF RecoverySound, NoRecovery, NoUser
  <2>6. MailSound(a)'
    BY <1>1, <1>4, <1>7 DEF MailSound, NoRecovery
  <2> QED
    BY <2>3, <2>4, <2>5, <2>6 DEF HolderSound
<1>11. Elsewhere(a)
  <2> HIDE DEF task
  <2> QED
    BY <1>1, <1>2, <1>4, <1>6, <1>8 DEF Elsewhere, TaskSound
<1> QED
  BY <1>1, <1>9, <1>10, <1>11, OneHolder

\* The actions that offer.
LEMMA Offers ==
    ASSUME AccountsInv, NEW a \in Account,
           \/ Bootstrap(a) \/ ReissueBootstrap(a) \/ Resend(a)
           \/ \E role \in BusinessRole \union {PartnerRole}, p \in Partner \union {None} :
                 Invite(a, role, p)
    PROVE  \E row \in User : /\ Offered(a, row) /\ PrepareInvitation(a, row)
                             /\ UNCHANGED <<recovery, mailed, redeemed>>
<1>1. user[a] \in User /\ user \in [Account -> User]
  BY DEF AccountsInv, TypeOK
<1>2. CASE ReissueBootstrap(a) \/ Resend(a)
  BY <1>1, <1>2 DEF ReissueBootstrap, Resend, Changeable, Offered
<1>3. CASE Bootstrap(a)
  <2> DEFINE row == NewAccount(Admin, None)
  <2>1. row \in User /\ row.role = Admin /\ row.partner = None
    BY DEF NewAccount, User, Role
  <2>2. user' = [user EXCEPT ![a] = row] /\ user'[a] = row
    BY <1>1, <1>3 DEF Bootstrap
  <2>3. Admin \in Role /\ None \in Partner \union {None} /\ Admin # PartnerRole
    BY DEF Role, Admin, PartnerRole
  <2>4. Offered(a, row)
    BY <1>3, <2>1, <2>2, <2>3 DEF Offered, Bootstrap
  <2> QED
    BY <1>3, <2>1, <2>2, <2>4 DEF Bootstrap
<1>4. ASSUME NEW role \in BusinessRole \union {PartnerRole},
             NEW p \in Partner \union {None}, Invite(a, role, p)
      PROVE  \E row \in User : /\ Offered(a, row) /\ PrepareInvitation(a, row)
                               /\ UNCHANGED <<recovery, mailed, redeemed>>
  <2> DEFINE row == NewAccount(role, p)
  <2>1. role \in Role /\ role # Admin
    BY RoleAssumption DEF Role, Admin, PartnerRole
  <2>2. row \in User /\ row.role = role /\ row.partner = p
    BY <2>1 DEF NewAccount, User
  <2>3. user' = [user EXCEPT ![a] = row] /\ user'[a] = row
    BY <1>1, <1>4 DEF Invite
  <2>4. (row.role = PartnerRole) <=> (row.partner # None)
    BY <1>4, <2>2 DEF Invite
  <2>5. Offered(a, row)
    BY <1>4, <2>1, <2>2, <2>3, <2>4 DEF Offered, Invite
  <2> QED
    BY <1>4, <2>2, <2>3, <2>5 DEF Invite
<1> QED
  BY <1>2, <1>3, <1>4
-----------------------------------------------------------------------------
\* An invitation that ends, revoked by an administrator or by time.
LEMMA InvitationEnds ==
    ASSUME AccountsInv, NEW a \in Account, Revoke(a) \/ ExpireInvitation(a)
    PROVE  AccountsInv'
<1> DEFINE inv == invitation'[a]
<1>1. /\ HolderSound(a) /\ user[a].state \in {"absent", "pending", "active", "inactive"}
      /\ invitation[a] \in Invitation /\ invitation[a].version \in Nat
  BY Rows
<1>2. UNCHANGED <<user, offers, recovery, tasks, mailed, redeemed>>
  BY DEF Revoke, ExpireInvitation
<1>3. user[a].state = "pending"
  <2>1. CASE Revoke(a)
    BY <2>1 DEF Revoke, Changeable
  <2>2. CASE ExpireInvitation(a)
    BY <1>1, <2>2 DEF ExpireInvitation, HolderSound, AccountSound, AbsentSound,
                      ActivatedSound, NoInvitation
  <2> QED
    BY <2>1, <2>2
<1>4. /\ invitation' \in [Account -> Invitation]
      /\ \A b \in Account \ {a} : invitation'[b] = invitation[b]
      /\ inv.state \in {"revoked", invitation[a].state}
      /\ inv.version > 0
  <2>1. invitation \in [Account -> Invitation] /\ invitation[a].version > 0
    BY <1>1, <1>3 DEF AccountsInv, TypeOK, HolderSound, AccountSound, RowSound
  <2>2. CASE Revoke(a)
    <3> DEFINE r1 == [invitation[a] EXCEPT !.state = "revoked"]
               r == [r1 EXCEPT !.version = invitation[a].version + 1]
    <3>1. invitation' = [invitation EXCEPT ![a] = r]
      BY <2>2 DEF Revoke
    <3>2. r1 \in Invitation
      BY <1>1, InvitationUpdate, Zenon
    <3>3. r.state = "revoked" /\ r.version = invitation[a].version + 1
      BY <1>1 DEF Invitation
    <3>4. r \in Invitation
      <4>1. invitation[a].version + 1 \in Nat
        BY <1>1
      <4> HIDE DEF r1
      <4> QED
        BY <3>2, <4>1, InvitationUpdate, Zenon
    <3> HIDE DEF r
    <3> QED
      BY <1>1, <2>1, <3>1, <3>3, <3>4
  <2>3. CASE ExpireInvitation(a)
    <3> DEFINE r == [invitation[a] EXCEPT !.expired = TRUE]
    <3>1. invitation' = [invitation EXCEPT ![a] = r]
      BY <2>3 DEF ExpireInvitation
    <3>2. r.state = invitation[a].state /\ r.version = invitation[a].version
      BY <1>1 DEF Invitation
    <3>3. r \in Invitation
      BY <1>1, InvitationUpdate
    <3> HIDE DEF r
    <3> QED
      BY <2>1, <3>1, <3>2, <3>3
  <2> QED
    BY <2>2, <2>3
<1> HIDE DEF inv
<1>5. TypeOK'
  BY <1>2, <1>4 DEF AccountsInv, TypeOK
<1>6. Generation(a)' = Generation(a)
  BY <1>2 DEF Generation
<1>7. AccountSound(a)'
  <2>1. PendingSound(a)'
    BY <1>1, <1>2, <1>3, <1>4 DEF HolderSound, AccountSound, PendingSound, inv
  <2>2. RowSound(a)'
    BY <1>1, <1>2, <1>3, <1>4, <1>6 DEF HolderSound, AccountSound, RowSound, inv
  <2> QED
    BY <1>1, <1>2, <1>3, <2>1, <2>2 DEF HolderSound, AccountSound
<1>8. RecoverySound(a)' /\ UsedSound(a)'
  BY <1>1, <1>2, <1>6 DEF HolderSound, RecoverySound, UsedSound
<1>9. MailSound(a)'
  BY <1>1, <1>2, <1>4, <1>6 DEF HolderSound, MailSound, inv
<1>10. Elsewhere(a) /\ ~Promoted(a)
  BY <1>2, <1>4 DEF Elsewhere, Promoted, IsAdministrator
<1> QED
  BY <1>5, <1>7, <1>8, <1>9, <1>10, OneHolder DEF HolderSound

\* The late transaction of an invitation's delivery.
LEMMA DeliverInvitationKeeps ==
    ASSUME AccountsInv, NEW t \in tasks, DeliverInvitation(t)
    PROVE  AccountsInv'
<1> DEFINE a == t.link.account
           n == Generation(a)
<1>1. /\ t.link \in Link /\ a \in Account /\ TaskSound(t)
      /\ t.link = LinkOf("invitation", a, t.link.generation)
      /\ t.step \in {"sent", "failed"}
  BY TaskFields DEF DeliverInvitation
<1> HIDE DEF a
<1>2. /\ HolderSound(a) /\ n \in Nat
      /\ invitation[a] \in Invitation /\ invitation[a].version \in Nat
      /\ offers[a] \in Seq(Offer) /\ \A g \in 1..n : offers[a][g] \in Offer
  BY <1>1, Rows
<1>3. tasks' = tasks \ {t} /\ UNCHANGED <<user, recovery, mailed, redeemed>>
  BY DEF DeliverInvitation
<1>4. CASE ~Deliverable(t.link)
  <2>1. UNCHANGED <<user, invitation, offers, recovery, mailed, redeemed>>
    BY <1>3, <1>4 DEF DeliverInvitation
  <2>2. TypeOK'
    BY <1>3, <2>1 DEF AccountsInv, TypeOK
  <2>3. HolderSound(a)'
    BY <1>1, <1>2, <2>1, SameHolder
  <2>4. Elsewhere(a) /\ ~Promoted(a)
    BY <1>3, <2>1 DEF Elsewhere, Promoted, IsAdministrator
  <2> QED
    BY <1>1, <2>2, <2>3, <2>4, OneHolder
<1>5. CASE Deliverable(t.link)
  <2> DEFINE s == IF t.step = "sent" THEN "delivered" ELSE invitation[a].state
             r1 == [invitation[a] EXCEPT !.state = s]
             r == [r1 EXCEPT !.version = invitation[a].version + 1]
             o == [offers[a][n] EXCEPT !.outcome = t.step]
             log == [offers[a] EXCEPT ![n] = o]
  <2>1. /\ t.link.generation = n /\ invitation[a].state = "prepared"
        /\ user[a].state = "pending"
    BY <1>5 DEF Deliverable, a
  <2>2. /\ invitation' = [invitation EXCEPT ![a] = r]
        /\ offers' = [offers EXCEPT ![a] = log]
    BY <1>5 DEF DeliverInvitation, a
  <2>3. AccountSound(a) /\ PendingSound(a) /\ RowSound(a)
    BY <1>2, <2>1 DEF HolderSound, AccountSound
  <2>4. n \in 1..n
    BY <1>2, <2>3 DEF RowSound
  <2>5. s \in {"prepared", "delivered"}
    BY <2>1
  <2>6. r \in Invitation /\ r.state = s /\ r.version > 0
    <3>1. r1 \in Invitation
      BY <1>2, <2>5, InvitationUpdate
    <3>2. r \in Invitation
      <4>1. invitation[a].version + 1 \in Nat
        BY <1>2
      <4> HIDE DEF r1
      <4> QED
        BY <3>1, <4>1, InvitationUpdate, Zenon
    <3>3. r.state = s /\ r.version = invitation[a].version + 1
      BY <1>2 DEF Invitation
    <3> QED
      BY <1>2, <3>2, <3>3
  <2>7. o \in Offer /\ o.account = offers[a][n].account /\ o.outcome = t.step
    BY <1>1, <1>2, <2>4 DEF Offer
  <2> HIDE DEF o, r, n
  <2>8. /\ log \in Seq(Offer) /\ Len(log) = n /\ log[n] = o
        /\ \A g \in 1..n : log[g] = IF g = n THEN o ELSE offers[a][g]
    <3>1. n = Len(offers[a])
      BY DEF n, Generation
    <3> QED
      BY <1>2, <2>4, <2>7, <3>1, ExceptSeq
  <2> HIDE DEF log
  <2>9. /\ invitation' \in [Account -> Invitation] /\ invitation'[a] = r
        /\ offers' \in [Account -> Seq(Offer)] /\ offers'[a] = log
        /\ \A b \in Account \ {a} : invitation'[b] = invitation[b] /\ offers'[b] = offers[b]
    BY <1>1, <2>2, <2>6, <2>8 DEF AccountsInv, TypeOK
  <2>10. TypeOK'
    BY <1>3, <2>9 DEF AccountsInv, TypeOK
  <2>11. Generation(a)' = n /\ Generation(a) = n
    BY <2>8, <2>9 DEF Generation, n
  <2>12. AccountSound(a)'
    <3>1. PendingSound(a)'
      BY <1>3, <2>3, <2>5, <2>6, <2>9 DEF PendingSound
    <3>2. RowSound(a)'
      <4>1. \A g \in 1..n : log[g].account.partner = user[a].partner
        BY <2>3, <2>4, <2>7, <2>8, <2>11 DEF RowSound
      <4> QED
        BY <1>3, <2>3, <2>6, <2>9, <2>11, <4>1 DEF RowSound
    <3> QED
      BY <1>3, <2>1, <2>3, <3>1, <3>2 DEF AccountSound
  <2>13. RecoverySound(a)' /\ UsedSound(a)'
    BY <1>2, <1>3, <2>11 DEF HolderSound, RecoverySound, UsedSound
  <2>14. MailSound(a)'
    <3>1. s = "delivered" <=> t.step = "sent"
      BY <2>1
    <3>2. t.step = "sent" => LinkOf("invitation", a, n) \in mailed
      BY <1>1, <2>1 DEF TaskSound
    <3> QED
      BY <1>1, <1>2, <1>3, <2>5, <2>6, <2>7, <2>8, <2>9, <2>11, <3>1, <3>2
         DEF HolderSound, MailSound
  <2>15. Elsewhere(a) /\ ~Promoted(a)
    BY <1>3, <2>9 DEF Elsewhere, Promoted, IsAdministrator
  <2> QED
    BY <1>1, <2>10, <2>12, <2>13, <2>14, <2>15, OneHolder DEF HolderSound
<1> QED
  BY <1>4, <1>5
-----------------------------------------------------------------------------
\* The holder of a pending account activates it.
LEMMA AcceptKeeps ==
    ASSUME AccountsInv, NEW l \in mailed, Accept(l)
    PROVE  AccountsInv'
<1> DEFINE a == l.account
           row == user'[a]
           inv == invitation'[a]
<1>1. l \in Link /\ a \in Account
  BY DEF AccountsInv, TypeOK, Link
<1>2. /\ HolderSound(a) /\ user[a] \in User /\ invitation[a] \in Invitation
      /\ Generation(a) \in Nat /\ invitation[a].version \in Nat
  BY <1>1, Rows
<1>3. /\ user[a].state = "pending" /\ invitation[a].state = "delivered"
      /\ l = LinkOf("invitation", a, Generation(a))
  BY <1>1 DEF Accept, Acceptable, Link, LinkOf
<1>4. PendingSound(a) /\ RowSound(a) /\ \A k \in redeemed : k.account # a
  BY <1>2, <1>3 DEF HolderSound, AccountSound, UsedSound
<1>5. /\ redeemed' = redeemed \union {l}
      /\ UNCHANGED <<offers, recovery, tasks, mailed>>
  BY DEF Accept
<1>6. /\ user' \in [Account -> User] /\ \A b \in Account \ {a} : user'[b] = user[b]
      /\ row.state = "active" /\ row.version = 2 /\ row.password = 2
      /\ row.role = user[a].role /\ row.partner = user[a].partner
  <2> DEFINE r1 == [user[a] EXCEPT !.state = "active"]
             r2 == [r1 EXCEPT !.version = user[a].version + 1]
             r == [r2 EXCEPT !.password = user[a].version + 1]
  <2>0. user[a].version + 1 = 2
    BY <1>4 DEF PendingSound
  <2>1. user' = [user EXCEPT ![a] = r]
    BY <1>2 DEF Accept
  <2>2. /\ r.state = "active" /\ r.version = 2 /\ r.password = 2
        /\ r.role = user[a].role /\ r.partner = user[a].partner
    BY <1>2, <2>0 DEF User
  <2>3. r \in User
    <3>1. r1 \in User
      BY <1>2, UserUpdate
    <3> HIDE DEF r1
    <3>2. r2 \in User
      BY <2>0, <3>1, UserUpdate
    <3> HIDE DEF r2
    <3> QED
      BY <2>0, <3>2, UserUpdate
  <2> HIDE DEF r
  <2> QED
    BY <1>1, <2>1, <2>2, <2>3 DEF AccountsInv, TypeOK
<1>7. /\ invitation' \in [Account -> Invitation]
      /\ \A b \in Account \ {a} : invitation'[b] = invitation[b]
      /\ inv.state = "consumed" /\ inv.version > 0
  <2> DEFINE r1 == [invitation[a] EXCEPT !.state = "consumed"]
             r == [r1 EXCEPT !.version = invitation[a].version + 1]
  <2>1. invitation' = [invitation EXCEPT ![a] = r]
    BY DEF Accept
  <2>2. r.state = "consumed" /\ r.version > 0
    BY <1>2 DEF Invitation
  <2>3. r \in Invitation
    <3>1. r1 \in Invitation
      BY <1>2, InvitationUpdate, Zenon
    <3>2. invitation[a].version + 1 \in Nat
      BY <1>2
    <3> HIDE DEF r1
    <3> QED
      BY <3>1, <3>2, InvitationUpdate, Zenon
  <2> HIDE DEF r
  <2> QED
    BY <1>1, <2>1, <2>2, <2>3 DEF AccountsInv, TypeOK
<1> HIDE DEF row, inv, a
<1>8. TypeOK'
  BY <1>1, <1>5, <1>6, <1>7 DEF AccountsInv, TypeOK
<1>9. Generation(a)' = Generation(a)
  BY <1>5 DEF Generation
<1>10. AccountSound(a)'
  <2>1. ActivatedSound(a)'
    BY <1>3, <1>5, <1>6, <1>7, <1>9 DEF ActivatedSound, row, inv
  <2>2. RowSound(a)'
    BY <1>4, <1>5, <1>6, <1>7, <1>9 DEF RowSound, row, inv
  <2>3. row.role = Admin => recovery'[a] = NoRecovery
    BY <1>4, <1>5 DEF PendingSound
  <2> QED
    BY <1>6, <2>1, <2>2, <2>3 DEF AccountSound, row
<1>11. RecoverySound(a)'
  <2>1. recovery'[a] = NoRecovery
    BY <1>4, <1>5 DEF PendingSound
  <2> QED
    BY <1>6, <2>1, BoundAssumption DEF RecoverySound, NoRecovery, NoUser, row
<1>12. UsedSound(a)'
  <2>1. \A k \in redeemed' : k.account = a => k = l
    BY <1>4, <1>5
  <2>2. l.kind = "invitation" /\ l.generation = Generation(a)
    BY <1>3 DEF LinkOf
  <2> QED
    BY <1>6, <1>9, <2>1, <2>2 DEF UsedSound, row
<1>13. MailSound(a)'
  BY <1>2, <1>3, <1>4, <1>5, <1>7, <1>9 DEF HolderSound, MailSound, PendingSound,
     NoRecovery, inv
<1>14. Elsewhere(a) /\ ~Promoted(a)
  <2>1. Elsewhere(a)
    BY <1>5, <1>6, <1>7 DEF Elsewhere, a
  <2> QED
    BY <1>3, <1>6, <2>1 DEF Promoted, IsAdministrator, row
<1> QED
  BY <1>1, <1>8, <1>10, <1>11, <1>12, <1>13, <1>14, OneHolder DEF HolderSound

\* An administrator changes the role of an active account, or deactivates it.
LEMMA GovernKeeps ==
    ASSUME AccountsInv, NEW a \in Account,
           Deactivate(a) \/ \E role \in BusinessRole : ChangeRole(a, role)
    PROVE  /\ AccountsInv'
           /\ UNCHANGED <<invitation, offers, recovery, tasks, mailed, redeemed>>
           /\ \A b \in Account \ {a} : user'[b] = user[b]
           /\ user'[a].version > user[a].version /\ user'[a].password = user[a].password
<1> DEFINE row == user'[a]
<1>1. /\ HolderSound(a) /\ user[a] \in User /\ user[a].version \in Nat
      /\ user[a].password \in Nat /\ recovery[a].proof.version \in Nat
  BY Rows
<1>2. Governable(a) /\ user[a].state = "active" /\ user[a].role # Admin
  BY DEF Deactivate, ChangeRole, Governable
<1>3. ActivatedSound(a) /\ RowSound(a)
  BY <1>1, <1>2 DEF HolderSound, AccountSound
<1>4. UNCHANGED <<invitation, offers, recovery, tasks, mailed, redeemed>>
  BY <1>3 DEF Deactivate, ChangeRole, ActivatedSound
<1>5. /\ user' \in [Account -> User] /\ \A b \in Account \ {a} : user'[b] = user[b]
      /\ row.state \in {"active", "inactive"} /\ row.version = user[a].version + 1
      /\ row.password = user[a].password
      /\ row.partner = user[a].partner /\ row.role # Admin
      /\ (row.role = PartnerRole) <=> (user[a].role = PartnerRole)
  <2>0. user[a].version + 1 \in Nat
    BY <1>1
  <2>1. CASE Deactivate(a)
    <3> DEFINE r1 == [user[a] EXCEPT !.state = "inactive"]
               r == [r1 EXCEPT !.version = user[a].version + 1]
    <3>1. user' = [user EXCEPT ![a] = r]
      BY <2>1 DEF Deactivate
    <3>2. /\ r.state = "inactive" /\ r.version = user[a].version + 1
          /\ r.password = user[a].password
          /\ r.partner = user[a].partner /\ r.role = user[a].role
      BY <1>1 DEF User
    <3>3. r1 \in User
      BY <1>1, UserUpdate
    <3>4. r \in User
      <4> HIDE DEF r1
      <4> QED
        BY <2>0, <3>3, UserUpdate, Zenon
    <3> HIDE DEF r
    <3> QED
      BY <1>2, <3>1, <3>2, <3>4 DEF AccountsInv, TypeOK
  <2>2. ASSUME NEW role \in BusinessRole, ChangeRole(a, role)
        PROVE  /\ user' \in [Account -> User] /\ \A b \in Account \ {a} : user'[b] = user[b]
               /\ row.state \in {"active", "inactive"} /\ row.version = user[a].version + 1
               /\ row.password = user[a].password
               /\ row.partner = user[a].partner /\ row.role # Admin
               /\ (row.role = PartnerRole) <=> (user[a].role = PartnerRole)
    <3> DEFINE r1 == [user[a] EXCEPT !.role = role]
               r == [r1 EXCEPT !.version = user[a].version + 1]
    <3>1. user' = [user EXCEPT ![a] = r]
      BY <2>2 DEF ChangeRole
    <3>2. /\ r.state = user[a].state /\ r.version = user[a].version + 1
          /\ r.password = user[a].password
          /\ r.partner = user[a].partner /\ r.role = role
      BY <1>1 DEF User
    <3>3. role \in Role /\ role # Admin /\ role # PartnerRole /\ user[a].role # PartnerRole
      BY <2>2, RoleAssumption DEF Role, ChangeRole
    <3>4. r1 \in User
      BY <1>1, <3>3, UserUpdate
    <3>5. r \in User
      <4> HIDE DEF r1
      <4> QED
        BY <2>0, <3>4, UserUpdate, Zenon
    <3> HIDE DEF r
    <3> QED
      BY <1>2, <3>1, <3>2, <3>3, <3>5 DEF AccountsInv, TypeOK
  <2> QED
    BY <2>1, <2>2
<1> HIDE DEF row
<1>6. TypeOK'
  BY <1>4, <1>5 DEF AccountsInv, TypeOK
<1>7. Generation(a)' = Generation(a)
  BY <1>4 DEF Generation
<1>8. AccountSound(a)'
  <2>1. ActivatedSound(a)'
    BY <1>1, <1>3, <1>4, <1>5, <1>7 DEF ActivatedSound, row
  <2>2. RowSound(a)'
    BY <1>3, <1>4, <1>5, <1>7 DEF RowSound, row
  <2> QED
    BY <1>5, <2>1, <2>2 DEF AccountSound, row
<1>9. RecoverySound(a)' /\ UsedSound(a)' /\ MailSound(a)'
  <2>1. RecoverySound(a)'
    BY <1>1, <1>4, <1>5 DEF HolderSound, RecoverySound, row
  <2>2. UsedSound(a)'
    BY <1>1, <1>4, <1>5, <1>7 DEF HolderSound, UsedSound, row
  <2>3. MailSound(a)'
    BY <1>1, <1>4, <1>7 DEF HolderSound, MailSound
  <2> QED
    BY <2>1, <2>2, <2>3
<1>10. Elsewhere(a) /\ ~Promoted(a)
  BY <1>4, <1>5 DEF Elsewhere, Promoted, IsAdministrator, row
<1>11. user'[a].version > user[a].version /\ user'[a].password = user[a].password
  BY <1>1, <1>5 DEF row
<1> QED
  BY <1>4, <1>5, <1>6, <1>8, <1>9, <1>10, <1>11, OneHolder DEF HolderSound
-----------------------------------------------------------------------------
\* Steps that only move tasks and mails.
LEMMA MailOnly ==
    ASSUME AccountsInv, UNCHANGED <<rows, redeemed>>,
           mailed \subseteq mailed', mailed' \subseteq Link, tasks' \subseteq Task,
           \A t \in tasks' : t \in tasks \/ TaskSound(t)'
    PROVE  AccountsInv'
<1>1. UNCHANGED <<user, invitation, offers, recovery, redeemed>>
  BY DEF rows
<1>2. TypeOK'
  BY <1>1 DEF AccountsInv, TypeOK
<1>3. \A a \in Account : HolderSound(a)'
  BY <1>1, SameHolder DEF AccountsInv
<1>4. AdministratorIsFirst'
  BY <1>1 DEF AccountsInv, AdministratorIsFirst, IsAdministrator
<1>5. \A t \in tasks' : TaskSound(t)'
  <2> SUFFICES ASSUME NEW t \in tasks'
               PROVE  TaskSound(t)'
    OBVIOUS
  <2>1. CASE t \in tasks
    BY <2>1 DEF AccountsInv, TaskSound
  <2> QED
    BY <2>1
<1> QED
  BY <1>2, <1>3, <1>4, <1>5 DEF AccountsInv

LEMMA TaskKeeps ==
    ASSUME AccountsInv,
           \/ \E a \in Account : AskRecovery(a)
           \/ \E t \in tasks : CheckRecovery(t) \/ Send(t) \/ Lose(t)
    PROVE  AccountsInv' /\ UNCHANGED <<rows, redeemed>>
<1>1. tasks \subseteq Task /\ mailed \subseteq Link
  BY DEF AccountsInv, TypeOK
<1>2. ASSUME NEW a \in Account, AskRecovery(a)
      PROVE  AccountsInv' /\ UNCHANGED <<rows, redeemed>>
  <2> DEFINE t == [link |-> LinkOf("recovery", a, 0), step |-> "asked"]
  <2>1. t \in Task /\ t.step = "asked" /\ t.link.kind = "recovery"
    <3>1. LinkOf("recovery", a, 0) \in Link
      BY NewLink, BoundAssumption
    <3>2. LinkOf("recovery", a, 0).kind = "recovery"
      BY DEF LinkOf
    <3> QED
      BY <3>1, <3>2 DEF Task, Step
  <2>2. tasks' = tasks \union {t} /\ UNCHANGED <<rows, mailed, redeemed>>
    BY <1>2 DEF AskRecovery
  <2> HIDE DEF t
  <2> QED
    BY <1>1, <2>1, <2>2, MailOnly DEF TaskSound
<1>3. ASSUME NEW t \in tasks, CheckRecovery(t)
      PROVE  AccountsInv' /\ UNCHANGED <<rows, redeemed>>
  <2> DEFINE n == [t EXCEPT !.step = "checked"]
  <2>1. n \in Task /\ n.step = "checked"
    BY <1>1 DEF Task, Step
  <2>2. /\ tasks' \subseteq tasks \union {n} /\ UNCHANGED <<rows, mailed, redeemed>>
    BY <1>3 DEF CheckRecovery
  <2> HIDE DEF n
  <2> QED
    BY <1>1, <2>1, <2>2, MailOnly DEF TaskSound
<1>4. ASSUME NEW t \in tasks, Send(t)
      PROVE  AccountsInv' /\ UNCHANGED <<rows, redeemed>>
  <2> DEFINE s == [t EXCEPT !.step = "sent"]
             f == [t EXCEPT !.step = "failed"]
  <2>1. /\ s \in Task /\ s.step = "sent" /\ s.link = t.link
        /\ f \in Task /\ f.step = "failed" /\ t.link \in Link
    BY <1>1 DEF Task, Step
  <2>2. /\ mailed' \in {mailed, mailed \union {t.link}}
        /\ UNCHANGED <<rows, redeemed>>
        /\ \/ tasks' = (tasks \ {t}) \union {s} /\ t.link \in mailed'
           \/ tasks' = (tasks \ {t}) \union {f}
    BY <1>4 DEF Send
  <2> HIDE DEF s, f
  <2> QED
    BY <1>1, <2>1, <2>2, MailOnly DEF TaskSound
<1>5. ASSUME NEW t \in tasks, Lose(t)
      PROVE  AccountsInv' /\ UNCHANGED <<rows, redeemed>>
  BY <1>1, <1>5, MailOnly DEF Lose
<1> QED
  BY <1>2, <1>3, <1>4, <1>5

\* The row of one reset link changes, of an account that was activated.
LEMMA RecoveryKeeps ==
    ASSUME AccountsInv, NEW a \in Account, NEW new \in Recovery,
           user[a].state \in {"active", "inactive"}, user[a].role # Admin,
           recovery' = [recovery EXCEPT ![a] = new],
           UNCHANGED <<user, invitation, offers, mailed, redeemed>>,
           tasks' \subseteq Task,
           \A t \in tasks' : t \in tasks \/ TaskSound(t)',
           new.generation <= MaxRecoveries,
           new.proof \in {user[a], recovery[a].proof},
           \/ new.generation = recovery[a].generation /\ new.state = recovery[a].state
           \/ new.generation = recovery[a].generation + 1 /\ new.state = "prepared"
           \/ /\ new.generation = recovery[a].generation
              /\ recovery[a].state = "prepared" /\ new.state = "delivered"
              /\ LinkOf("recovery", a, new.generation) \in mailed
    PROVE  AccountsInv'
<1>1. /\ HolderSound(a) /\ user[a].version \in Nat /\ recovery[a].generation \in Nat
      /\ recovery[a].proof.version \in Nat
  BY Rows
<1>2. /\ recovery' \in [Account -> Recovery] /\ recovery'[a] = new
      /\ \A b \in Account \ {a} : recovery'[b] = recovery[b]
  BY DEF AccountsInv, TypeOK
<1>3. TypeOK'
  BY <1>2 DEF AccountsInv, TypeOK
<1>4. Generation(a)' = Generation(a)
  BY DEF Generation
<1>5. AccountSound(a)'
  BY <1>1, <1>4 DEF HolderSound, AccountSound, ActivatedSound, RowSound
<1>6. RecoverySound(a)'
  BY <1>1, <1>2 DEF HolderSound, RecoverySound
<1>7. UsedSound(a)'
  <2> SUFFICES ASSUME NEW l \in redeemed, l.account = a
               PROVE  /\ l.kind = "invitation" => l.generation = Generation(a)
                      /\ l.kind = "recovery" =>
                            /\ user[a].password # 2
                            /\ l.generation <= new.generation
                            /\ l.generation = new.generation => new.state = "consumed"
    BY <1>2, <1>4 DEF UsedSound
  <2>1. /\ l.kind = "invitation" => l.generation = Generation(a)
        /\ l.kind = "recovery" =>
              /\ user[a].password # 2
              /\ l.generation <= recovery[a].generation
              /\ l.generation = recovery[a].generation => recovery[a].state = "consumed"
    BY <1>1 DEF HolderSound, UsedSound
  <2>2. l.generation \in Nat
    <3> DEFINE bound == MaxOffers + MaxRecoveries
    <3>1. 0..bound \subseteq Nat
      BY BoundAssumption
    <3> HIDE DEF bound
    <3> QED
      BY <3>1 DEF AccountsInv, TypeOK, Link, bound
  <2> QED
    BY <1>1, <2>1, <2>2
<1>8. MailSound(a)'
  BY <1>1, <1>2, <1>4 DEF HolderSound, MailSound
<1>9. Elsewhere(a) /\ ~Promoted(a)
  BY <1>2 DEF Elsewhere, Promoted, IsAdministrator
<1> QED
  BY <1>3, <1>5, <1>6, <1>7, <1>8, <1>9, OneHolder DEF HolderSound

LEMMA PrepareRecoveryKeeps ==
    ASSUME AccountsInv, NEW t \in tasks, PrepareRecovery(t)
    PROVE  AccountsInv'
<1> DEFINE a == t.link.account
           g == recovery[a].generation + 1
           new == [state |-> "prepared", generation |-> g, proof |-> Proof(a),
                   expired |-> FALSE]
           task == [link |-> LinkOf("recovery", a, g), step |-> "prepared"]
           begins == Recoverable(a) /\ ~Preserved(a) /\ g <= MaxRecoveries
<1>1. a \in Account
  BY TaskFields
<1>2. user[a] \in User /\ recovery[a].generation \in Nat
  BY <1>1, Rows
<1>3. UNCHANGED <<user, invitation, offers, mailed, redeemed>>
  BY DEF PrepareRecovery
<1>4. CASE begins
  <2>1. new \in Recovery
    BY <1>2 DEF Recovery, Proof
  <2>2. task \in Task /\ task.step = "prepared"
    <3>1. g \in Nat
      BY <1>2
    <3>2. LinkOf("recovery", a, g) \in Link
      <4> HIDE DEF a, g
      <4> QED
        BY <1>1, <1>4, <3>1, NewLink
    <3> QED
      BY <3>2 DEF Task, Step
  <2>3. /\ recovery' = [recovery EXCEPT ![a] = new]
        /\ tasks' = (tasks \ {t}) \union {task}
    BY <1>4 DEF PrepareRecovery
  <2>4. new.state = "prepared" /\ new.generation = g /\ new.proof = user[a]
    BY DEF Proof
  <2>5. tasks' \subseteq Task /\ \A s \in tasks' : s \in tasks \/ TaskSound(s)'
    <3> HIDE DEF task
    <3> QED
      BY <2>2, <2>3 DEF AccountsInv, TypeOK, TaskSound
  <2>6. user[a].state = "active" /\ user[a].role # Admin
    BY <1>4 DEF Recoverable
  <2>7. g <= MaxRecoveries
    BY <1>4
  <2> HIDE DEF new, a
  <2> QED
    BY <1>1, <1>3, <2>1, <2>3, <2>4, <2>5, <2>6, <2>7, RecoveryKeeps
<1>5. CASE ~begins
  <2>1. tasks' = tasks \ {t} /\ UNCHANGED recovery
    BY <1>5 DEF PrepareRecovery
  <2> QED
    BY <1>3, <2>1, MailOnly DEF rows, AccountsInv, TypeOK
<1> QED
  BY <1>4, <1>5

LEMMA DeliverRecoveryKeeps ==
    ASSUME AccountsInv, NEW t \in tasks, DeliverRecovery(t)
    PROVE  AccountsInv'
<1> DEFINE a == t.link.account
           new == [recovery[a] EXCEPT !.state = "delivered"]
           arrives == RecoveryCurrent(t.link) /\ t.step = "sent"
<1>1. /\ a \in Account /\ TaskSound(t) /\ t.link.kind = "recovery"
      /\ t.link = LinkOf("recovery", a, t.link.generation)
  BY TaskFields DEF DeliverRecovery
<1>2. /\ recovery[a] \in Recovery /\ recovery[a].generation \in Nat /\ HolderSound(a)
  BY <1>1, Rows
<1>3. tasks' = tasks \ {t} /\ UNCHANGED <<user, invitation, offers, mailed, redeemed>>
  BY DEF DeliverRecovery
<1>4. CASE arrives
  <2>1. /\ user[a].state = "active" /\ user[a].role # Admin
        /\ t.link.generation = recovery[a].generation /\ recovery[a].state = "prepared"
    BY <1>4 DEF RecoveryCurrent, Recoverable
  <2>2. recovery' = [recovery EXCEPT ![a] = new]
    BY <1>4 DEF DeliverRecovery
  <2>3. new \in Recovery
    BY <1>2, RecoveryUpdate
  <2>4. /\ new.state = "delivered" /\ new.generation = recovery[a].generation
        /\ new.proof = recovery[a].proof
    BY <1>2 DEF Recovery
  <2>5. LinkOf("recovery", a, new.generation) \in mailed
    BY <1>1, <1>4, <2>1, <2>4 DEF TaskSound
  <2>6. tasks' \subseteq Task
    BY <1>3 DEF AccountsInv, TypeOK
  <2>7. new.generation <= MaxRecoveries
    BY <1>2, <2>4 DEF HolderSound, RecoverySound
  <2> HIDE DEF new, a
  <2> QED
    BY <1>1, <1>3, <2>1, <2>2, <2>3, <2>4, <2>5, <2>6, <2>7, RecoveryKeeps
<1>5. CASE ~arrives
  <2>1. UNCHANGED recovery
    BY <1>5 DEF DeliverRecovery
  <2> QED
    BY <1>3, <2>1, MailOnly DEF rows, AccountsInv, TypeOK
<1> QED
  BY <1>4, <1>5

LEMMA ExpireRecoveryKeeps ==
    ASSUME AccountsInv, NEW a \in Account, ExpireRecovery(a)
    PROVE  AccountsInv'
<1> DEFINE new == [recovery[a] EXCEPT !.expired = TRUE]
<1>1. /\ recovery[a] \in Recovery /\ recovery[a].generation \in Nat /\ HolderSound(a)
      /\ user[a].state \in {"absent", "pending", "active", "inactive"}
  BY Rows
<1>2. user[a].state \in {"active", "inactive"} /\ user[a].role # Admin
  BY <1>1 DEF ExpireRecovery, HolderSound, AccountSound, AbsentSound, PendingSound,
              NoRecovery
<1>3. /\ recovery' = [recovery EXCEPT ![a] = new]
      /\ UNCHANGED <<user, invitation, offers, tasks, mailed, redeemed>>
  BY DEF ExpireRecovery
<1>4. /\ new \in Recovery /\ new.state = recovery[a].state
      /\ new.generation = recovery[a].generation /\ new.proof = recovery[a].proof
  BY <1>1, RecoveryUpdate DEF Recovery
<1>5. new.generation <= MaxRecoveries /\ tasks' \subseteq Task
  BY <1>1, <1>3, <1>4 DEF HolderSound, RecoverySound, AccountsInv, TypeOK
<1> HIDE DEF new
<1> QED
  BY <1>2, <1>3, <1>4, <1>5, RecoveryKeeps

\* The holder of an active account sets a new password by the newest reset link.
LEMMA CompleteRecoveryKeeps ==
    ASSUME AccountsInv, NEW l \in mailed, CompleteRecovery(l)
    PROVE  AccountsInv'
<1> DEFINE a == l.account
           row == user'[a]
           rec == recovery'[a]
<1>1. l \in Link /\ a \in Account
  BY DEF AccountsInv, TypeOK, Link
<1>2. /\ HolderSound(a) /\ user[a] \in User /\ recovery[a] \in Recovery
      /\ user[a].version \in Nat /\ user[a].password \in Nat
      /\ recovery[a].generation \in Nat /\ recovery[a].proof.version \in Nat
  BY <1>1, Rows
<1>3. /\ user[a].state = "active" /\ user[a].role # Admin
      /\ recovery[a].state = "delivered" /\ l.kind = "recovery"
      /\ l.generation = recovery[a].generation
  BY DEF CompleteRecovery, Resettable, Recoverable
<1>4. ActivatedSound(a) /\ RowSound(a)
  BY <1>2, <1>3 DEF HolderSound, AccountSound
<1>5. /\ redeemed' = redeemed \union {l}
      /\ UNCHANGED <<invitation, offers, tasks, mailed>>
  BY DEF CompleteRecovery
<1>6. /\ user' \in [Account -> User] /\ \A b \in Account \ {a} : user'[b] = user[b]
      /\ row.version = user[a].version + 1 /\ row.password = user[a].version + 1
      /\ row.state = "active" /\ row.role = user[a].role /\ row.partner = user[a].partner
  <2> DEFINE r1 == [user[a] EXCEPT !.version = user[a].version + 1]
             r == [r1 EXCEPT !.password = user[a].version + 1]
  <2>1. user' = [user EXCEPT ![a] = r]
    BY <1>2 DEF CompleteRecovery
  <2>2. /\ r.version = user[a].version + 1 /\ r.password = user[a].version + 1
        /\ r.state = "active" /\ r.role = user[a].role /\ r.partner = user[a].partner
    BY <1>2, <1>3 DEF User
  <2>3. r \in User
    <3>1. user[a].version + 1 \in Nat
      BY <1>2
    <3>2. r1 \in User
      BY <1>2, <3>1, UserUpdate, Zenon
    <3> HIDE DEF r1
    <3> QED
      BY <3>1, <3>2, UserUpdate, Zenon
  <2> HIDE DEF r
  <2> QED
    BY <1>1, <2>1, <2>2, <2>3 DEF AccountsInv, TypeOK
<1>7. /\ recovery' \in [Account -> Recovery]
      /\ \A b \in Account \ {a} : recovery'[b] = recovery[b]
      /\ rec.state = "consumed" /\ rec.generation = recovery[a].generation
      /\ rec.proof = recovery[a].proof
  <2> DEFINE r == [recovery[a] EXCEPT !.state = "consumed"]
  <2>1. recovery' = [recovery EXCEPT ![a] = r]
    BY DEF CompleteRecovery
  <2>2. r \in Recovery
    BY <1>2, RecoveryUpdate
  <2>3. /\ r.state = "consumed" /\ r.generation = recovery[a].generation
        /\ r.proof = recovery[a].proof
    BY <1>2 DEF Recovery
  <2> HIDE DEF r
  <2> QED
    BY <1>1, <2>1, <2>2, <2>3 DEF AccountsInv, TypeOK
<1> HIDE DEF row, rec, a
<1>8. TypeOK'
  BY <1>1, <1>5, <1>6, <1>7 DEF AccountsInv, TypeOK
<1>9. Generation(a)' = Generation(a)
  BY <1>5 DEF Generation
<1>10. l.account = a /\ l \in redeemed'
  BY <1>5 DEF a
<1>11. AccountSound(a)'
  <2>1. ActivatedSound(a)'
    BY <1>2, <1>3, <1>4, <1>5, <1>6, <1>9, <1>10 DEF ActivatedSound, row
  <2>2. RowSound(a)'
    BY <1>4, <1>5, <1>6, <1>9 DEF RowSound, row
  <2> QED
    BY <1>3, <1>6, <2>1, <2>2 DEF AccountSound, row
<1>12. RecoverySound(a)'
  BY <1>2, <1>6, <1>7 DEF HolderSound, RecoverySound, row, rec
<1>13. UsedSound(a)'
  <2>1. row.password # 2 /\ row.state = "active"
    BY <1>2, <1>4, <1>6 DEF ActivatedSound
  <2> SUFFICES ASSUME NEW k \in redeemed', k.account = a
               PROVE  /\ k.kind = "invitation" => k.generation = Generation(a)
                      /\ k.kind = "recovery" => k.generation <= recovery[a].generation
    BY <1>7, <1>9, <2>1 DEF UsedSound, row, rec
  <2>2. CASE k \in redeemed
    BY <1>2, <2>2 DEF HolderSound, UsedSound
  <2>3. CASE k = l
    BY <1>2, <1>3, <2>3
  <2> QED
    BY <1>5, <2>2, <2>3
<1>14. MailSound(a)'
  BY <1>2, <1>3, <1>5, <1>7, <1>9 DEF HolderSound, MailSound, rec
<1>15. Elsewhere(a) /\ ~Promoted(a)
  <2>1. Elsewhere(a)
    BY <1>5, <1>6, <1>7 DEF Elsewhere, a
  <2> QED
    BY <1>3, <1>6, <2>1 DEF Promoted, IsAdministrator, row
<1> QED
  BY <1>1, <1>8, <1>11, <1>12, <1>13, <1>14, <1>15, OneHolder DEF HolderSound
-----------------------------------------------------------------------------
LEMMA InitSound == Init => AccountsInv
<1> SUFFICES ASSUME Init
             PROVE  AccountsInv
  OBVIOUS
<1>1. TypeOK
  BY NoRows, EmptySeq DEF Init, TypeOK
<1>2. ASSUME NEW a \in Account
      PROVE  HolderSound(a)
  <2>1. /\ user[a] = NoUser /\ invitation[a] = NoInvitation /\ offers[a] = <<>>
        /\ recovery[a] = NoRecovery /\ redeemed = {}
    BY DEF Init
  <2>2. AccountSound(a)
    BY <2>1 DEF AccountSound, AbsentSound, NoUser
  <2>3. RecoverySound(a) /\ UsedSound(a) /\ MailSound(a)
    BY <2>1, BoundAssumption DEF RecoverySound, UsedSound, MailSound, NoUser, NoRecovery,
       NoInvitation
  <2> QED
    BY <2>2, <2>3 DEF HolderSound
<1>3. AdministratorIsFirst
  BY DEF Init, AdministratorIsFirst, IsAdministrator, NoUser
<1> QED
  BY <1>1, <1>2, <1>3 DEF Init, AccountsInv

LEMMA StepKeeps == AccountsInv /\ [Next]_vars => AccountsInv'
<1> SUFFICES ASSUME AccountsInv, [Next]_vars
             PROVE  AccountsInv'
  OBVIOUS
<1>1. CASE UNCHANGED vars
  BY <1>1, MailOnly DEF vars, AccountsInv, TypeOK
<1>2. ASSUME NEW a \in Account, Bootstrap(a) \/ ReissueBootstrap(a) \/ Resend(a)
      PROVE  AccountsInv'
  BY <1>2, Offers, OfferKeeps
<1>3. ASSUME NEW a \in Account, NEW role \in BusinessRole \union {PartnerRole},
             NEW p \in Partner \union {None}, Invite(a, role, p)
      PROVE  AccountsInv'
  BY <1>3, Offers, OfferKeeps
<1>4. ASSUME NEW a \in Account, Revoke(a) \/ ExpireInvitation(a)
      PROVE  AccountsInv'
  BY <1>4, InvitationEnds
<1>5. ASSUME NEW a \in Account, Deactivate(a) \/ \E role \in BusinessRole : ChangeRole(a, role)
      PROVE  AccountsInv'
  BY <1>5, GovernKeeps
<1>6. ASSUME NEW a \in Account, AskRecovery(a)
      PROVE  AccountsInv'
  BY <1>6, TaskKeeps
<1>7. ASSUME NEW a \in Account, ExpireRecovery(a)
      PROVE  AccountsInv'
  BY <1>7, ExpireRecoveryKeeps
<1>8. ASSUME NEW t \in tasks, Proceed(t) \/ Lose(t)
      PROVE  AccountsInv'
  BY <1>8, TaskKeeps, DeliverInvitationKeeps, PrepareRecoveryKeeps, DeliverRecoveryKeeps
     DEF Proceed
<1>9. ASSUME NEW l \in mailed, Accept(l) \/ CompleteRecovery(l)
      PROVE  AccountsInv'
  BY <1>9, AcceptKeeps, CompleteRecoveryKeeps
<1> QED
  BY <1>1, <1>2, <1>3, <1>4, <1>5, <1>6, <1>7, <1>8, <1>9 DEF Next

LEMMA Invariance == Spec => []AccountsInv
BY InitSound, StepKeeps, PTL DEF Spec

\* Whatever is invited, resent, revoked, accepted, reset or changed, in any order and
\* by any number of people: the rows agree with the links that were used, there is one
\* administrator at most, and the database's constraints hold.
THEOREM AccountsAlwaysConsistent == Spec => []AccountsConsistent
<1>1. AccountsInv => AccountsConsistent
  BY InvSuffices
<1> QED
  BY <1>1, Invariance, PTL

\* A link works only after its own mail has left, whatever was lost, failed or late,
\* and the administrator is told what is true of it.
THEOREM LinksAlwaysMailed == Spec => []LinksWereMailed
<1>1. AccountsInv => LinksWereMailed
  BY InvSuffices
<1> QED
  BY <1>1, Invariance, PTL
-----------------------------------------------------------------------------
\* Passwords are set where a link is accepted or a reset completed, nowhere else.
LEMMA PasswordSteps ==
    ASSUME AccountsInv, [Next]_vars, NEW a \in Account,
           user'[a].password # user[a].password
    PROVE  \E l \in mailed : l.account = a /\ (Accept(l) \/ CompleteRecovery(l))
<1>1. ~UNCHANGED user
  OBVIOUS
<1>2. ASSUME NEW b \in Account, NEW row, Offered(b, row)
      PROVE  user'[a].password = user[a].password
  <2>1. CASE b = a
    <3>1. AccountSound(a) /\ row.password = 0 /\ user'[a] = row
      BY <1>2, <2>1, OfferedRow DEF AccountsInv, HolderSound
    <3> QED
      BY <1>2, <2>1, <3>1 DEF Offered, AccountSound, AbsentSound, PendingSound, NoUser
  <2>2. CASE b # a
    BY <1>2, <2>2, OfferedRow
  <2> QED
    BY <2>1, <2>2
<1>3. ASSUME NEW b \in Account,
             \/ Bootstrap(b) \/ ReissueBootstrap(b) \/ Resend(b)
             \/ \E role \in BusinessRole \union {PartnerRole}, p \in Partner \union {None} :
                   Invite(b, role, p)
      PROVE  FALSE
  BY <1>2, <1>3, Offers
<1>4. ASSUME NEW b \in Account,
             Deactivate(b) \/ \E role \in BusinessRole : ChangeRole(b, role)
      PROVE  FALSE
  BY <1>4, GovernKeeps
<1>5. ASSUME NEW b \in Account,
             Revoke(b) \/ AskRecovery(b) \/ ExpireInvitation(b) \/ ExpireRecovery(b)
      PROVE  FALSE
  BY <1>1, <1>5 DEF Revoke, AskRecovery, ExpireInvitation, ExpireRecovery, rows
<1>6. ASSUME NEW t \in tasks, Proceed(t) \/ Lose(t)
      PROVE  FALSE
  BY <1>1, <1>6 DEF Proceed, Send, DeliverInvitation, PrepareRecovery, CheckRecovery,
     DeliverRecovery, Lose, rows
<1>7. PICK l \in mailed : Accept(l) \/ CompleteRecovery(l)
  BY <1>1, <1>3, <1>4, <1>5, <1>6 DEF Next, vars, rows
<1>8. l.account = a
  <2>1. \A b \in Account \ {l.account} : user'[b] = user[b]
    BY <1>7 DEF Accept, CompleteRecovery, AccountsInv, TypeOK
  <2> QED
    BY <2>1
<1> QED
  BY <1>7, <1>8

LEMMA PasswordStep ==
    ASSUME AccountsInv, AccountsInv', [Next]_vars, NEW a \in Account,
           user'[a].password # user[a].password
    PROVE  /\ \E l \in mailed \ redeemed :
                 /\ l.account = a /\ redeemed' = redeemed \union {l}
                 /\ l.generation = IF l.kind = "invitation" THEN Generation(a)
                                                           ELSE recovery[a].generation
           /\ \A l \in mailed : l.account = a => ~Resettable(l)' /\ ~Acceptable(l)'
<1>1. PICK l \in mailed : l.account = a /\ (Accept(l) \/ CompleteRecovery(l))
  BY PasswordSteps
<1>2. HolderSound(a) /\ HolderSound(a)'
  BY DEF AccountsInv
<1>3. CASE Accept(l)
  <2>1. /\ user[a].state = "pending" /\ l.kind = "invitation"
        /\ l.generation = Generation(a) /\ redeemed' = redeemed \union {l}
        /\ UNCHANGED recovery
    BY <1>1, <1>3 DEF Accept, Acceptable
  <2>2. l \notin redeemed
    BY <1>1, <1>2, <2>1 DEF HolderSound, UsedSound
  <2>3. recovery'[a] = NoRecovery
    BY <1>2, <2>1 DEF HolderSound, AccountSound, PendingSound
  <2>4. user'[a].state \in {"active", "inactive"}
    BY <1>1, <1>2, <2>1 DEF HolderSound, UsedSound
  <2>5. \A k \in mailed : k.account = a => ~Resettable(k)' /\ ~Acceptable(k)'
    BY <2>3, <2>4 DEF Resettable, Acceptable, NoRecovery
  <2> QED
    BY <1>1, <2>1, <2>2, <2>5
<1>4. CASE CompleteRecovery(l)
  <2>1. /\ l.kind = "recovery" /\ recovery[a].state = "delivered"
        /\ l.generation = recovery[a].generation /\ redeemed' = redeemed \union {l}
        /\ recovery' = [recovery EXCEPT ![a].state = "consumed"]
    BY <1>1, <1>4 DEF CompleteRecovery, Resettable
  <2>2. l \notin redeemed
    BY <1>1, <1>2, <2>1 DEF HolderSound, UsedSound
  <2>3. recovery'[a].state = "consumed"
    BY <2>1 DEF AccountsInv, TypeOK, Recovery
  <2>4. user'[a].state \in {"active", "inactive"}
    BY <1>1, <1>2, <2>1 DEF HolderSound, UsedSound
  <2>5. \A k \in mailed : k.account = a => ~Resettable(k)' /\ ~Acceptable(k)'
    BY <2>3, <2>4 DEF Resettable, Acceptable
  <2> QED
    BY <1>1, <2>1, <2>2, <2>5
<1> QED
  BY <1>1, <1>3, <1>4

\* A password changes only through the newest link of its kind, mailed, never used
\* before; from then on no link of the account that has left the server works.
THEOREM PasswordsNeedFreshLinks == Spec => PasswordsByFreshLink
<1> DEFINE step ==
      \A a \in Account : user'[a].password # user[a].password =>
         /\ \E l \in mailed \ redeemed :
               /\ l.account = a /\ redeemed' = redeemed \union {l}
               /\ l.generation = IF l.kind = "invitation" THEN Generation(a)
                                                         ELSE recovery[a].generation
         /\ \A l \in mailed : l.account = a => ~Resettable(l)' /\ ~Acceptable(l)'
<1>1. AccountsInv /\ AccountsInv' /\ [Next]_vars => step
  BY PasswordStep
<1> QED
  BY <1>1, Invariance, PTL DEF Spec, PasswordsByFreshLink
-----------------------------------------------------------------------------
\* An account that has a row or none, and the invitation that goes with it.
LEMMA EndingsByState ==
    ASSUME AccountsInv, NEW a \in Account
    PROVE  /\ user[a].state = "absent" => invitation[a].state = "absent"
           /\ user[a].state = "active" => invitation[a].state = "consumed"
BY DEF AccountsInv, HolderSound, AccountSound, AbsentSound, ActivatedSound, NoInvitation

LEMMA EndingsStep ==
    ASSUME AccountsInv, [Next]_vars, NEW a \in Account
    PROVE  /\ invitation[a].state \in {"revoked", "consumed"} =>
                 invitation'[a] = invitation[a] /\ offers'[a] = offers[a]
           /\ invitation[a].state = "revoked" \/ user[a].state = "inactive" =>
                 user'[a] = user[a]
<1> DEFINE kept == invitation'[a] = invitation[a] /\ offers'[a] = offers[a]
           same == user'[a] = user[a]
           over == invitation[a].state \in {"revoked", "consumed"}
           gone == invitation[a].state = "revoked" \/ user[a].state = "inactive"
           final == (over => kept) /\ (gone => same)
<1>1. /\ user \in [Account -> User] /\ invitation \in [Account -> Invitation]
      /\ offers \in [Account -> Seq(Offer)]
  BY DEF AccountsInv, TypeOK
<1>2. ASSUME NEW b \in Account,
             \/ Bootstrap(b)
             \/ \E role \in BusinessRole \union {PartnerRole}, p \in Partner \union {None} :
                   Invite(b, role, p)
      PROVE  final
  <2>1. /\ user[b].state = "absent"
        /\ \E row : user' = [user EXCEPT ![b] = row] /\ PrepareInvitation(b, user'[b])
    BY <1>2 DEF Bootstrap, Invite
  <2>2. invitation[b].state = "absent"
    BY <2>1, EndingsByState
  <2>3. a # b => kept /\ same
    BY <1>1, <2>1 DEF PrepareInvitation
  <2> QED
    BY <2>1, <2>2, <2>3
<1>3. ASSUME NEW b \in Account, ReissueBootstrap(b) \/ Resend(b) \/ Revoke(b)
      PROVE  final
  <2>1. invitation[b].state \notin {"consumed", "revoked"} /\ same
    BY <1>3 DEF ReissueBootstrap, Resend, Revoke, Changeable
  <2>2. a # b => kept
    BY <1>1, <1>3 DEF ReissueBootstrap, Resend, Revoke, PrepareInvitation
  <2> QED
    BY <2>1, <2>2
<1>4. ASSUME NEW b \in Account,
             Deactivate(b) \/ \E role \in BusinessRole : ChangeRole(b, role)
      PROVE  final
  <2>1. user[b].state = "active" /\ invitation[b].state = "consumed"
    BY <1>4, EndingsByState DEF Deactivate, ChangeRole, Governable
  <2>2. kept
    BY <1>4, <2>1 DEF Deactivate, ChangeRole
  <2>3. a # b => same
    BY <1>1, <1>4 DEF Deactivate, ChangeRole
  <2> QED
    BY <2>1, <2>2, <2>3
<1>5. ASSUME NEW b \in Account,
             AskRecovery(b) \/ ExpireInvitation(b) \/ ExpireRecovery(b)
      PROVE  final
  <2>1. CASE ExpireInvitation(b)
    BY <1>1, <2>1 DEF ExpireInvitation
  <2>2. CASE AskRecovery(b) \/ ExpireRecovery(b)
    BY <2>2 DEF AskRecovery, ExpireRecovery, rows
  <2> QED
    BY <1>5, <2>1, <2>2
<1>6. ASSUME NEW t \in tasks, Proceed(t) \/ Lose(t)
      PROVE  final
  <2>1. CASE DeliverInvitation(t)
    <3>1. CASE Deliverable(t.link) /\ t.link.account = a
      BY <2>1, <3>1 DEF DeliverInvitation, Deliverable
    <3>2. CASE ~ (Deliverable(t.link) /\ t.link.account = a)
      BY <1>1, <2>1, <3>2 DEF DeliverInvitation
    <3> QED
      BY <3>1, <3>2
  <2>2. CASE Send(t) \/ PrepareRecovery(t) \/ CheckRecovery(t) \/ DeliverRecovery(t) \/ Lose(t)
    BY <2>2 DEF Send, PrepareRecovery, CheckRecovery, DeliverRecovery, Lose, rows
  <2> QED
    BY <1>6, <2>1, <2>2 DEF Proceed
<1>7. ASSUME NEW l \in mailed, Accept(l)
      PROVE  final
  <2>1. user[l.account].state = "pending" /\ invitation[l.account].state = "delivered"
    BY <1>7 DEF Accept, Acceptable
  <2>2. a # l.account => kept /\ same
    BY <1>1, <1>7 DEF Accept
  <2> QED
    BY <2>1, <2>2
<1>8. ASSUME NEW l \in mailed, CompleteRecovery(l)
      PROVE  final
  <2>1. user[l.account].state = "active" /\ kept
    BY <1>8 DEF CompleteRecovery, Resettable, Recoverable
  <2>2. a # l.account => same
    BY <1>1, <1>8 DEF CompleteRecovery
  <2> QED
    BY <2>1, <2>2, EndingsByState
<1>9. ASSUME UNCHANGED vars
      PROVE  final
  BY <1>9 DEF vars, rows
<1>10. final
  <2> HIDE DEF final
  <2>1. ASSUME NEW b \in Account,
               \/ Bootstrap(b) \/ ReissueBootstrap(b) \/ Resend(b) \/ Revoke(b)
               \/ Deactivate(b) \/ AskRecovery(b)
               \/ ExpireInvitation(b) \/ ExpireRecovery(b)
               \/ \E role \in BusinessRole \union {PartnerRole}, p \in Partner \union {None} :
                     Invite(b, role, p)
               \/ \E role \in BusinessRole : ChangeRole(b, role)
        PROVE  final
    BY <2>1, <1>2, <1>3, <1>4, <1>5
  <2> QED
    BY <2>1, <1>6, <1>7, <1>8, <1>9 DEF Next
<1> QED
  BY <1>10

\* A revoked or accepted invitation is never made out again, a revoked address never
\* gets an account, and a deactivated account stays what it was (change_invitation,
\* deliver_invitation, lifecycle, complete_recovery).
THEOREM EndingsStayFinal == Spec => EndingsAreFinal
<1> DEFINE step ==
      \A a \in Account :
         /\ invitation[a].state \in {"revoked", "consumed"} =>
               invitation'[a] = invitation[a] /\ offers'[a] = offers[a]
         /\ invitation[a].state = "revoked" \/ user[a].state = "inactive" =>
               user'[a] = user[a]
<1>1. AccountsInv /\ [Next]_vars => step
  BY EndingsStep
<1> QED
  BY <1>1, Invariance, PTL DEF Spec, EndingsAreFinal
-----------------------------------------------------------------------------
(***************************************************************************)
(* The refinements of OneTimeSecret.                                       *)
(***************************************************************************)

LEMMA InvitationPhases ==
    ASSUME NEW a \in Account, invitation[a] \in Invitation
    PROVE  /\ invitation[a].state = "absent" => InvitationPhase(a) = "idle"
           /\ invitation[a].state = "consumed" => InvitationPhase(a) = "spent"
           /\ invitation[a].state = "revoked" => InvitationPhase(a) = "void"
           /\ invitation[a].state \in {"prepared", "delivered"} /\ invitation[a].expired =>
                 InvitationPhase(a) = "void"
           /\ invitation[a].state = "prepared" /\ ~invitation[a].expired =>
                 InvitationPhase(a) = "issued"
           /\ invitation[a].state = "delivered" /\ ~invitation[a].expired =>
                 InvitationPhase(a) = "usable"
<1> DEFINE s == invitation[a].state
<1>1. s = "absent" => InvitationPhase(a) = "idle"
  BY Zenon DEF InvitationPhase
<1>2. s = "consumed" => InvitationPhase(a) = "spent"
  BY Zenon DEF InvitationPhase
<1>3. s = "revoked" => InvitationPhase(a) = "void"
  BY Zenon DEF InvitationPhase
<1>4. s \in {"prepared", "delivered"} /\ invitation[a].expired => InvitationPhase(a) = "void"
  BY Zenon DEF InvitationPhase
<1>5. s = "prepared" /\ ~invitation[a].expired => InvitationPhase(a) = "issued"
  BY Zenon DEF InvitationPhase
<1>6. s = "delivered" /\ ~invitation[a].expired => InvitationPhase(a) = "usable"
  BY Zenon DEF InvitationPhase
<1> QED
  BY <1>1, <1>2, <1>3, <1>4, <1>5, <1>6

LEMMA RecoveryPhases ==
    ASSUME NEW a \in Account, recovery[a] \in Recovery
    PROVE  /\ recovery[a].state = "absent" => RecoveryPhase(a) = "idle"
           /\ recovery[a].state = "consumed" => RecoveryPhase(a) = "spent"
           /\ recovery[a].state \in {"prepared", "delivered"} /\ ~Preserved(a) =>
                 RecoveryPhase(a) = "void"
           /\ recovery[a].state = "prepared" /\ Preserved(a) => RecoveryPhase(a) = "issued"
           /\ recovery[a].state = "delivered" /\ Preserved(a) => RecoveryPhase(a) = "usable"
<1> DEFINE s == recovery[a].state
<1>1. s = "absent" => RecoveryPhase(a) = "idle"
  BY Zenon DEF RecoveryPhase
<1>2. s = "consumed" => RecoveryPhase(a) = "spent"
  BY Zenon DEF RecoveryPhase
<1>3. s \in {"prepared", "delivered"} /\ ~Preserved(a) => RecoveryPhase(a) = "void"
  BY Zenon DEF RecoveryPhase
<1>4. s = "prepared" /\ Preserved(a) => RecoveryPhase(a) = "issued"
  BY Zenon DEF RecoveryPhase
<1>5. s = "delivered" /\ Preserved(a) => RecoveryPhase(a) = "usable"
  BY Zenon DEF RecoveryPhase
<1> QED
  BY <1>1, <1>2, <1>3, <1>4, <1>5

\* What one step makes of the secret of one holder, n of which were issued, which is
\* in phase p and of which r were redeemed.
Move(n, p, r, n1, p1, r1) ==
    \/ n1 = n + 1 /\ p1 = "issued" /\ r1 = r
    \/ n1 = n /\ p = "issued" /\ p1 = "usable" /\ r1 = r
    \/ n1 = n /\ p = "usable" /\ p1 = "spent" /\ r1 = r \union {n}
    \/ n1 = n /\ p \in {"issued", "usable"} /\ p1 = "void" /\ r1 = r
    \/ n1 = n /\ p1 = p /\ r1 = r

InvitationStill(a) ==
    /\ Generation(a)' = Generation(a) /\ InvitationPhase(a)' = InvitationPhase(a)
    /\ Redeemed("invitation", a)' = Redeemed("invitation", a)

InvitationMove(a) ==
    /\ \A b \in Account \ {a} : InvitationStill(b)
    /\ Move(Generation(a), InvitationPhase(a), Redeemed("invitation", a),
            Generation(a)', InvitationPhase(a)', Redeemed("invitation", a)')

RecoveryStill(a) ==
    /\ recovery[a].generation' = recovery[a].generation
    /\ RecoveryPhase(a)' = RecoveryPhase(a)
    /\ Redeemed("recovery", a)' = Redeemed("recovery", a)

RecoveryMove(a) ==
    /\ \A b \in Account \ {a} : RecoveryStill(b)
    /\ Move(recovery[a].generation, RecoveryPhase(a), Redeemed("recovery", a),
            recovery[a].generation', RecoveryPhase(a)', Redeemed("recovery", a)')

\* Such a move of one holder is a step of OneTimeSecret.
LEMMA MoveIsStep ==
    ASSUME NEW a \in Account
    PROVE  /\ InvitationMove(a) => [InvitationLinks!Next]_(InvitationLinks!vars)
           /\ RecoveryMove(a) => [RecoveryLinks!Next]_(RecoveryLinks!vars)
<1>1. ASSUME InvitationMove(a)
      PROVE  [InvitationLinks!Next]_(InvitationLinks!vars)
  <2> DEFINE n == Generation(a)
             p == InvitationPhase(a)
             r == Redeemed("invitation", a)
  <2>1. \A b \in Account \ {a} : InvitationStill(b)
    BY <1>1 DEF InvitationMove
  <2>2. CASE Generation(a)' = n + 1 /\ InvitationPhase(a)' = "issued"
             /\ Redeemed("invitation", a)' = r
    <3>1. InvitationLinks!Issue(a)
      <4>1. {} \in SUBSET (Account \ {a})
        OBVIOUS
      <4> QED
        BY <2>1, <2>2, <4>1 DEF InvitationLinks!Issue, InvitationStill
    <3> QED
      BY <3>1 DEF InvitationLinks!Next
  <2>3. CASE Generation(a)' = n /\ p = "issued" /\ InvitationPhase(a)' = "usable"
             /\ Redeemed("invitation", a)' = r
    <3>1. InvitationLinks!Arm(a)
      BY <2>1, <2>3 DEF InvitationLinks!Arm, InvitationStill
    <3> QED
      BY <3>1 DEF InvitationLinks!Next
  <2>4. CASE Generation(a)' = n /\ p = "usable" /\ InvitationPhase(a)' = "spent"
             /\ Redeemed("invitation", a)' = r \union {n}
    <3>1. InvitationLinks!Redeem(a)
      BY <2>1, <2>4 DEF InvitationLinks!Redeem, InvitationStill
    <3> QED
      BY <3>1 DEF InvitationLinks!Next
  <2>5. CASE Generation(a)' = n /\ p \in {"issued", "usable"} /\ InvitationPhase(a)' = "void"
             /\ Redeemed("invitation", a)' = r
    <3>1. InvitationLinks!Void({a})
      BY <2>1, <2>5 DEF InvitationLinks!Void, InvitationStill
    <3> QED
      BY <3>1 DEF InvitationLinks!Next
  <2>6. CASE Generation(a)' = n /\ InvitationPhase(a)' = p
             /\ Redeemed("invitation", a)' = r
    BY <2>1, <2>6 DEF InvitationLinks!vars, InvitationStill
  <2> QED
    BY <1>1, <2>2, <2>3, <2>4, <2>5, <2>6 DEF InvitationMove, Move
<1>2. ASSUME RecoveryMove(a)
      PROVE  [RecoveryLinks!Next]_(RecoveryLinks!vars)
  <2> DEFINE n == recovery[a].generation
             p == RecoveryPhase(a)
             r == Redeemed("recovery", a)
  <2>1. \A b \in Account \ {a} : RecoveryStill(b)
    BY <1>2 DEF RecoveryMove
  <2>2. CASE recovery[a].generation' = n + 1 /\ RecoveryPhase(a)' = "issued"
             /\ Redeemed("recovery", a)' = r
    <3>1. RecoveryLinks!Issue(a)
      <4>1. {} \in SUBSET (Account \ {a})
        OBVIOUS
      <4> QED
        BY <2>1, <2>2, <4>1 DEF RecoveryLinks!Issue, RecoveryStill
    <3> QED
      BY <3>1 DEF RecoveryLinks!Next
  <2>3. CASE recovery[a].generation' = n /\ p = "issued" /\ RecoveryPhase(a)' = "usable"
             /\ Redeemed("recovery", a)' = r
    <3>1. RecoveryLinks!Arm(a)
      BY <2>1, <2>3 DEF RecoveryLinks!Arm, RecoveryStill
    <3> QED
      BY <3>1 DEF RecoveryLinks!Next
  <2>4. CASE recovery[a].generation' = n /\ p = "usable" /\ RecoveryPhase(a)' = "spent"
             /\ Redeemed("recovery", a)' = r \union {n}
    <3>1. RecoveryLinks!Redeem(a)
      BY <2>1, <2>4 DEF RecoveryLinks!Redeem, RecoveryStill
    <3> QED
      BY <3>1 DEF RecoveryLinks!Next
  <2>5. CASE recovery[a].generation' = n /\ p \in {"issued", "usable"}
             /\ RecoveryPhase(a)' = "void" /\ Redeemed("recovery", a)' = r
    <3>1. RecoveryLinks!Void({a})
      BY <2>1, <2>5 DEF RecoveryLinks!Void, RecoveryStill
    <3> QED
      BY <3>1 DEF RecoveryLinks!Next
  <2>6. CASE recovery[a].generation' = n /\ RecoveryPhase(a)' = p
             /\ Redeemed("recovery", a)' = r
    BY <2>1, <2>6 DEF RecoveryLinks!vars, RecoveryStill
  <2> QED
    BY <1>2, <2>2, <2>3, <2>4, <2>5, <2>6 DEF RecoveryMove, Move
<1> QED
  BY <1>1, <1>2

\* What is known of a link depends on its rows and on its own uses.
LEMMA Redemption ==
    ASSUME NEW l \in Link, redeemed' = redeemed \union {l}, NEW a \in Account,
           NEW k \in {"invitation", "recovery"}
    PROVE  /\ l.account # a \/ l.kind # k => Redeemed(k, a)' = Redeemed(k, a)
           /\ l.account = a /\ l.kind = k =>
                 Redeemed(k, a)' = Redeemed(k, a) \union {l.generation}
BY DEF Redeemed

LEMMA StillInvitation ==
    ASSUME NEW a \in Account, invitation'[a] = invitation[a], offers'[a] = offers[a],
           Redeemed("invitation", a)' = Redeemed("invitation", a)
    PROVE  InvitationStill(a)
BY DEF InvitationStill, InvitationPhase, Generation

LEMMA StillRecovery ==
    ASSUME NEW a \in Account, recovery'[a] = recovery[a], user'[a] = user[a],
           Redeemed("recovery", a)' = Redeemed("recovery", a)
    PROVE  RecoveryStill(a)
BY DEF RecoveryStill, RecoveryPhase, Preserved, Proof

LEMMA StillMove ==
    ASSUME NEW a \in Account
    PROVE  /\ (\A b \in Account : InvitationStill(b)) => InvitationMove(a)
           /\ (\A b \in Account : RecoveryStill(b)) => RecoveryMove(a)
BY DEF InvitationMove, RecoveryMove, InvitationStill, RecoveryStill, Move

\* One step moves at most one secret of each kind.
Moves == /\ \E a \in Account : InvitationMove(a)
         /\ \E a \in Account : RecoveryMove(a)

LEMMA TaskMoves ==
    ASSUME NEW a \in Account, UNCHANGED <<user, invitation, offers, recovery, redeemed>>
    PROVE  InvitationMove(a) /\ RecoveryMove(a)
<1>1. \A k, b : Redeemed(k, b)' = Redeemed(k, b)
  BY DEF Redeemed
<1>2. \A b \in Account : InvitationStill(b) /\ RecoveryStill(b)
  BY <1>1, StillInvitation, StillRecovery
<1> QED
  BY <1>2, StillMove

LEMMA OfferMoves ==
    ASSUME AccountsInv, NEW a \in Account, NEW row, Offered(a, row),
           PrepareInvitation(a, row), UNCHANGED <<recovery, mailed, redeemed>>
    PROVE  InvitationMove(a) /\ RecoveryMove(a)
<1>1. \A k, b : Redeemed(k, b)' = Redeemed(k, b)
  BY DEF Redeemed
<1>2. recovery[a] = NoRecovery /\ \A b \in Account \ {a} : user'[b] = user[b]
  BY OfferedRow
<1>3. /\ \A b \in Account \ {a} : invitation'[b] = invitation[b] /\ offers'[b] = offers[b]
      /\ invitation'[a].state = "prepared" /\ ~invitation'[a].expired
  BY DEF PrepareInvitation, AccountsInv, TypeOK
<1>4. Generation(a)' = Generation(a) + 1
  <2> DEFINE offer == [account |-> row, outcome |-> "unconfirmed"]
             log == offers[a]
  <2>1. log \in Seq(Offer) /\ offers'[a] = Append(log, offer)
    BY DEF AccountsInv, TypeOK, PrepareInvitation
  <2>2. offer \in Offer
    BY OfferedRow DEF Offer
  <2> HIDE DEF offer, log
  <2>3. Len(Append(log, offer)) = Len(log) + 1
    BY <2>1, <2>2, AppendProperties
  <2> QED
    BY <2>1, <2>3 DEF Generation, log
<1>5. InvitationPhase(a)' = "issued"
  BY <1>3, Zenon DEF InvitationPhase
<1>6. InvitationMove(a)
  <2>1. \A b \in Account \ {a} : InvitationStill(b)
    BY <1>1, <1>3, StillInvitation
  <2> QED
    BY <1>1, <1>4, <1>5, <2>1 DEF InvitationMove, Move
<1>7. RecoveryMove(a)
  <2>1. \A b \in Account \ {a} : RecoveryStill(b)
    BY <1>1, <1>2, StillRecovery
  <2>2. RecoveryPhase(a) = "idle" /\ RecoveryPhase(a)' = "idle"
    <3>1. recovery[a].state = "absent" /\ recovery'[a].state = "absent"
      BY <1>2 DEF NoRecovery
    <3> QED
      BY <3>1, Zenon DEF RecoveryPhase
  <2> QED
    BY <1>1, <2>1, <2>2 DEF RecoveryMove, Move
<1> QED
  BY <1>6, <1>7

LEMMA EndMoves ==
    ASSUME AccountsInv, NEW a \in Account, Revoke(a) \/ ExpireInvitation(a)
    PROVE  InvitationMove(a) /\ RecoveryMove(a)
<1>1. UNCHANGED <<user, offers, recovery, redeemed>>
  BY DEF Revoke, ExpireInvitation
<1>2. \A k, b : Redeemed(k, b)' = Redeemed(k, b)
  BY <1>1 DEF Redeemed
<1>3. AccountsInv'
  BY InvitationEnds
<1>4. /\ invitation[a] \in Invitation /\ invitation'[a] \in Invitation
      /\ \A b \in Account \ {a} : invitation'[b] = invitation[b]
      /\ invitation[a].state \in {"prepared", "delivered", "revoked"}
      /\ \/ invitation'[a].state = "revoked"
         \/ /\ invitation'[a].state \in {"prepared", "delivered"} /\ invitation'[a].expired
  <2>1. invitation[a] \in Invitation /\ invitation'[a] \in Invitation
    BY <1>3 DEF AccountsInv, TypeOK
  <2>2. invitation[a].state \in {"prepared", "delivered", "revoked"}
    <3>1. user[a].state = "pending" \/ ExpireInvitation(a)
      BY DEF Revoke, Changeable
    <3> QED
      BY <3>1 DEF AccountsInv, HolderSound, AccountSound, PendingSound, ExpireInvitation
  <2>3. CASE Revoke(a)
    BY <2>1, <2>2, <2>3 DEF Revoke, AccountsInv, TypeOK, Invitation
  <2>4. CASE ExpireInvitation(a)
    BY <2>1, <2>2, <2>4 DEF ExpireInvitation, AccountsInv, TypeOK, Invitation
  <2> QED
    BY <2>1, <2>2, <2>3, <2>4
<1>5. /\ InvitationPhase(a) \in {"issued", "usable", "void"}
      /\ InvitationPhase(a)' = "void"
  <2>1. InvitationPhase(a) \in {"issued", "usable", "void"}
    BY <1>4, InvitationPhases
  <2>2. InvitationPhase(a)' = "void"
    <3>1. CASE invitation'[a].state = "revoked"
      BY <3>1, Zenon DEF InvitationPhase
    <3>2. CASE invitation'[a].state \in {"prepared", "delivered"} /\ invitation'[a].expired
      BY <3>2, Zenon DEF InvitationPhase
    <3> QED
      BY <1>4, <3>1, <3>2
  <2> QED
    BY <2>1, <2>2
<1>6. \A b \in Account : RecoveryStill(b)
  BY <1>1, <1>2, StillRecovery
<1>7. \A b \in Account \ {a} : InvitationStill(b)
  BY <1>1, <1>2, <1>4, StillInvitation
<1>8. Generation(a)' = Generation(a)
  BY <1>1 DEF Generation
<1>9. InvitationMove(a)
  BY <1>2, <1>5, <1>7, <1>8 DEF InvitationMove, Move
<1> QED
  BY <1>6, <1>9, StillMove

LEMMA DeliverInvitationMoves ==
    ASSUME AccountsInv, NEW t \in tasks, DeliverInvitation(t)
    PROVE  InvitationMove(t.link.account) /\ RecoveryMove(t.link.account)
<1> DEFINE a == t.link.account
           n == Generation(a)
<1>1. a \in Account
  BY TaskFields
<1>2. UNCHANGED <<user, recovery, redeemed>>
  BY DEF DeliverInvitation
<1>3. \A k, b : Redeemed(k, b)' = Redeemed(k, b)
  BY <1>2 DEF Redeemed
<1>4. CASE ~Deliverable(t.link)
  BY <1>1, <1>2, <1>4, TaskMoves DEF DeliverInvitation
<1>5. CASE Deliverable(t.link)
  <2>1. /\ invitation \in [Account -> Invitation] /\ invitation[a] \in Invitation
        /\ offers \in [Account -> Seq(Offer)] /\ offers[a] \in Seq(Offer)
        /\ HolderSound(a)
    BY <1>1 DEF AccountsInv, TypeOK
  <2>2. /\ invitation[a].state = "prepared" /\ user[a].state = "pending"
    BY <1>5 DEF Deliverable
  <2>3. /\ \A b \in Account \ {a} : invitation'[b] = invitation[b] /\ offers'[b] = offers[b]
        /\ invitation'[a].state = (IF t.step = "sent" THEN "delivered" ELSE "prepared")
        /\ invitation'[a].expired = invitation[a].expired
        /\ invitation'[a] \in Invitation
    <3>1. invitation'[a] \in Invitation
      BY <1>1, DeliverInvitationKeeps DEF AccountsInv, TypeOK
    <3>2. \A b \in Account \ {a} : offers'[b] = offers[b]
      BY <1>5, <2>1 DEF DeliverInvitation
    <3>3. invitation' = [invitation EXCEPT
              ![a].state = IF t.step = "sent" THEN "delivered" ELSE @,
              ![a].version = @ + 1]
      BY <1>5 DEF DeliverInvitation
    <3> HIDE DEF a
    <3>4. /\ \A b \in Account \ {a} : invitation'[b] = invitation[b]
          /\ invitation'[a].state = (IF t.step = "sent" THEN "delivered" ELSE "prepared")
          /\ invitation'[a].expired = invitation[a].expired
      BY <1>1, <2>1, <2>2, <3>3 DEF Invitation
    <3> QED
      BY <3>1, <3>2, <3>4
  <2>4. Generation(a)' = n
    <3> DEFINE o == [offers[a][n] EXCEPT !.outcome = t.step]
    <3>1. n \in 1..n /\ n = Len(offers[a])
      BY <2>1, <2>2 DEF HolderSound, AccountSound, RowSound, Generation
    <3>2. o \in Offer
      <4>1. offers[a][n] \in Offer
        BY <2>1, <3>1, ElementOfSeq
      <4> QED
        BY <4>1 DEF Offer, DeliverInvitation
    <3>3. offers'[a] = [offers[a] EXCEPT ![n] = o]
      BY <1>1, <1>5, <2>1 DEF DeliverInvitation
    <3> HIDE DEF o
    <3>4. Len(offers'[a]) = Len(offers[a])
      BY <2>1, <3>1, <3>2, <3>3, ExceptSeq
    <3> QED
      BY <3>1, <3>4 DEF Generation
  <2> HIDE DEF a, n
  <2>5. \/ InvitationPhase(a) = "issued" /\ InvitationPhase(a)' = "usable"
        \/ InvitationPhase(a)' = InvitationPhase(a)
    <3>1. CASE invitation[a].expired
      <4>1. InvitationPhase(a) = "void"
        BY <1>1, <2>1, <2>2, <3>1, InvitationPhases
      <4>2. InvitationPhase(a)' = "void"
        <5>1. invitation'[a].state \in {"prepared", "delivered"} /\ invitation'[a].expired
          BY <2>3, <3>1
        <5> QED
          BY <5>1, Zenon DEF InvitationPhase
      <4> QED
        BY <4>1, <4>2
    <3>2. CASE ~invitation[a].expired
      <4>1. InvitationPhase(a) = "issued"
        BY <1>1, <2>1, <2>2, <3>2, InvitationPhases
      <4>2. invitation'[a].state = "prepared" => InvitationPhase(a)' = "issued"
        BY <2>3, <3>2, Zenon DEF InvitationPhase
      <4>3. invitation'[a].state = "delivered" => InvitationPhase(a)' = "usable"
        BY <2>3, <3>2, Zenon DEF InvitationPhase
      <4> QED
        BY <2>3, <4>1, <4>2, <4>3
    <3> QED
      BY <3>1, <3>2
  <2>6. \A b \in Account \ {a} : InvitationStill(b)
    BY <1>3, <2>3, StillInvitation
  <2>7. \A b \in Account : RecoveryStill(b)
    BY <1>2, <1>3, StillRecovery
  <2>8. InvitationMove(a)
    BY <1>3, <2>4, <2>5, <2>6 DEF InvitationMove, Move, n
  <2> QED
    BY <1>1, <2>7, <2>8, StillMove DEF a
<1> QED
  BY <1>4, <1>5

LEMMA AcceptMoves ==
    ASSUME AccountsInv, NEW l \in mailed, Accept(l)
    PROVE  InvitationMove(l.account) /\ RecoveryMove(l.account)
<1> DEFINE a == l.account
<1>1. l \in Link /\ a \in Account /\ l.kind = "invitation"
  BY DEF AccountsInv, TypeOK, Link, Accept, Acceptable
<1>2. /\ HolderSound(a) /\ invitation[a] \in Invitation
      /\ user \in [Account -> User] /\ invitation \in [Account -> Invitation]
  BY <1>1 DEF AccountsInv, TypeOK
<1>3. /\ redeemed' = redeemed \union {l} /\ UNCHANGED <<offers, recovery>>
      /\ \A b \in Account \ {a} : user'[b] = user[b] /\ invitation'[b] = invitation[b]
      /\ user[a].state = "pending" /\ l.generation = Generation(a)
      /\ invitation[a].state = "delivered" /\ ~invitation[a].expired
  BY <1>2 DEF Accept, Acceptable
<1>4. invitation'[a].state = "consumed"
  BY <1>1, <1>2 DEF Accept, Invitation
<1> HIDE DEF a
<1>5. /\ \A b \in Account : Redeemed("recovery", b)' = Redeemed("recovery", b)
      /\ \A b \in Account \ {a} : Redeemed("invitation", b)' = Redeemed("invitation", b)
      /\ Redeemed("invitation", a)' = Redeemed("invitation", a) \union {Generation(a)}
  BY <1>1, <1>3, Redemption DEF a
<1>6. Generation(a)' = Generation(a)
  BY <1>3 DEF Generation
<1>7. InvitationPhase(a) = "usable" /\ InvitationPhase(a)' = "spent"
  <2>1. InvitationPhase(a) = "usable"
    BY <1>1, <1>2, <1>3, InvitationPhases
  <2>2. InvitationPhase(a)' = "spent"
    BY <1>4, Zenon DEF InvitationPhase
  <2> QED
    BY <2>1, <2>2
<1>8. InvitationMove(a)
  <2>1. \A b \in Account \ {a} : InvitationStill(b)
    BY <1>3, <1>5, StillInvitation
  <2> QED
    BY <1>5, <1>6, <1>7, <2>1 DEF InvitationMove, Move
<1>9. RecoveryMove(a)
  <2>1. \A b \in Account \ {a} : RecoveryStill(b)
    BY <1>3, <1>5, StillRecovery
  <2>2. RecoveryPhase(a) = "idle" /\ RecoveryPhase(a)' = "idle"
    <3>1. recovery[a].state = "absent" /\ recovery'[a].state = "absent"
      BY <1>2, <1>3 DEF HolderSound, AccountSound, PendingSound, NoRecovery
    <3> QED
      BY <3>1, Zenon DEF RecoveryPhase
  <2> QED
    BY <1>1, <1>3, <1>5, <2>1, <2>2 DEF RecoveryMove, Move
<1> QED
  BY <1>8, <1>9 DEF a

\* A later version of an account revives no reset link, be it what it was before.
LEMMA GovernMoves ==
    ASSUME AccountsInv, NEW a \in Account,
           Deactivate(a) \/ \E role \in BusinessRole : ChangeRole(a, role)
    PROVE  InvitationMove(a) /\ RecoveryMove(a)
<1>1. /\ UNCHANGED <<invitation, offers, recovery, redeemed>>
      /\ \A b \in Account \ {a} : user'[b] = user[b]
      /\ user'[a].version > user[a].version
  BY GovernKeeps
<1>2. \A k, b : Redeemed(k, b)' = Redeemed(k, b)
  BY <1>1 DEF Redeemed
<1>3. /\ HolderSound(a) /\ recovery[a] \in Recovery /\ user[a].version \in Nat
      /\ recovery[a].proof.version \in Nat
  BY Rows
<1>4. user'[a].version \in Nat
  <2>1. AccountsInv'
    BY GovernKeeps
  <2>2. user'[a] \in User
    BY <2>1 DEF AccountsInv, TypeOK
  <2> QED
    BY <2>2 DEF User
<1>5. ~Preserved(a)'
  BY <1>1, <1>3, <1>4 DEF HolderSound, RecoverySound, Preserved, Proof
<1>6. \/ /\ RecoveryPhase(a) \in {"issued", "usable", "void"}
         /\ RecoveryPhase(a)' = "void"
      \/ RecoveryPhase(a)' = RecoveryPhase(a)
  <2>1. CASE recovery[a].state \in {"prepared", "delivered"}
    <3>1. RecoveryPhase(a) \in {"issued", "usable", "void"}
      BY <1>3, <2>1, RecoveryPhases
    <3>2. recovery'[a].state \in {"prepared", "delivered"}
      BY <1>1, <2>1
    <3>3. RecoveryPhase(a)' = "void"
      BY <1>5, <3>2, Zenon DEF RecoveryPhase
    <3> QED
      BY <3>1, <3>3
  <2>2. CASE recovery[a].state = "absent"
    <3>1. RecoveryPhase(a) = "idle"
      BY <2>2, Zenon DEF RecoveryPhase
    <3>2. RecoveryPhase(a)' = "idle"
      BY <1>1, <2>2, Zenon DEF RecoveryPhase
    <3> QED
      BY <3>1, <3>2
  <2>3. CASE recovery[a].state = "consumed"
    <3>1. RecoveryPhase(a) = "spent"
      BY <2>3, Zenon DEF RecoveryPhase
    <3>2. RecoveryPhase(a)' = "spent"
      BY <1>1, <2>3, Zenon DEF RecoveryPhase
    <3> QED
      BY <3>1, <3>2
  <2> QED
    BY <1>3, <2>1, <2>2, <2>3 DEF Recovery
<1>7. \A b \in Account : InvitationStill(b)
  BY <1>1, <1>2, StillInvitation
<1>8. \A b \in Account \ {a} : RecoveryStill(b)
  BY <1>1, <1>2, StillRecovery
<1>9. RecoveryMove(a)
  BY <1>1, <1>2, <1>6, <1>8 DEF RecoveryMove, Move
<1> QED
  BY <1>7, <1>9, StillMove

\* The row of one reset link changes.
LEMMA RecoveryRowMoves ==
    ASSUME AccountsInv, NEW a \in Account,
           UNCHANGED <<user, invitation, offers, redeemed>>,
           \A b \in Account \ {a} : recovery'[b] = recovery[b],
           \/ /\ recovery'[a].generation = recovery[a].generation + 1
              /\ recovery'[a].state = "prepared" /\ Preserved(a)'
           \/ /\ recovery'[a].generation = recovery[a].generation
              /\ recovery[a].state = "prepared" /\ recovery'[a].state = "delivered"
              /\ Preserved(a) /\ Preserved(a)'
           \/ /\ recovery'[a].generation = recovery[a].generation
              /\ recovery[a].state \in {"prepared", "delivered"}
              /\ recovery'[a].state = recovery[a].state /\ ~Preserved(a)'
    PROVE  InvitationMove(a) /\ RecoveryMove(a)
<1>1. recovery[a] \in Recovery
  BY DEF AccountsInv, TypeOK
<1>2. \A k, b : Redeemed(k, b)' = Redeemed(k, b)
  BY DEF Redeemed
<1>3. /\ recovery'[a].state = "prepared" /\ Preserved(a)' => RecoveryPhase(a)' = "issued"
      /\ recovery'[a].state = "delivered" /\ Preserved(a)' => RecoveryPhase(a)' = "usable"
      /\ recovery'[a].state \in {"prepared", "delivered"} /\ ~Preserved(a)' =>
            RecoveryPhase(a)' = "void"
  <2>1. recovery'[a].state = "prepared" /\ Preserved(a)' => RecoveryPhase(a)' = "issued"
    BY Zenon DEF RecoveryPhase
  <2>2. recovery'[a].state = "delivered" /\ Preserved(a)' => RecoveryPhase(a)' = "usable"
    BY Zenon DEF RecoveryPhase
  <2>3. recovery'[a].state \in {"prepared", "delivered"} /\ ~Preserved(a)' =>
            RecoveryPhase(a)' = "void"
    BY Zenon DEF RecoveryPhase
  <2> QED
    BY <2>1, <2>2, <2>3
<1>4. /\ recovery[a].state = "prepared" /\ Preserved(a) => RecoveryPhase(a) = "issued"
      /\ recovery[a].state \in {"prepared", "delivered"} =>
            RecoveryPhase(a) \in {"issued", "usable", "void"}
  BY <1>1, RecoveryPhases
<1>5. \A b \in Account : InvitationStill(b)
  BY <1>2, StillInvitation
<1>6. \A b \in Account \ {a} : RecoveryStill(b)
  BY <1>2, StillRecovery
<1>7. RecoveryMove(a)
  BY <1>2, <1>3, <1>4, <1>6 DEF RecoveryMove, Move
<1> QED
  BY <1>5, <1>7, StillMove

LEMMA RecoveryMoves ==
    ASSUME AccountsInv,
           \/ \E t \in tasks : PrepareRecovery(t) \/ DeliverRecovery(t)
           \/ \E a \in Account : ExpireRecovery(a)
    PROVE  Moves
<1>0. recovery \in [Account -> Recovery]
  BY DEF AccountsInv, TypeOK
<1>1. ASSUME NEW t \in tasks, PrepareRecovery(t)
      PROVE  Moves
  <2> DEFINE a == t.link.account
             g == recovery[a].generation + 1
             new == [state |-> "prepared", generation |-> g, proof |-> Proof(a),
                     expired |-> FALSE]
  <2>1. a \in Account
    BY TaskFields
  <2>2. UNCHANGED <<user, invitation, offers, redeemed>>
    BY <1>1 DEF PrepareRecovery
  <2>3. CASE UNCHANGED recovery
    BY <2>1, <2>2, <2>3, TaskMoves DEF Moves
  <2>4. CASE ~UNCHANGED recovery
    <3>1. recovery' = [recovery EXCEPT ![a] = new]
      BY <1>1, <2>4 DEF PrepareRecovery
    <3>2. /\ recovery'[a] = new /\ \A b \in Account \ {a} : recovery'[b] = recovery[b]
      BY <1>0, <2>1, <3>1
    <3>3. Preserved(a)'
      BY <2>2, <3>2 DEF Preserved, Proof
    <3>4. recovery'[a].generation = g /\ recovery'[a].state = "prepared"
      BY <3>2
    <3> HIDE DEF a, new
    <3> QED
      BY <2>1, <2>2, <3>2, <3>3, <3>4, RecoveryRowMoves DEF Moves
  <2> QED
    BY <2>3, <2>4
<1>2. ASSUME NEW t \in tasks, DeliverRecovery(t)
      PROVE  Moves
  <2> DEFINE a == t.link.account
  <2>1. a \in Account
    BY TaskFields
  <2>2. UNCHANGED <<user, invitation, offers, redeemed>>
    BY <1>2 DEF DeliverRecovery
  <2>3. CASE UNCHANGED recovery
    BY <2>1, <2>2, <2>3, TaskMoves DEF Moves
  <2>4. CASE ~UNCHANGED recovery
    <3>1. /\ recovery' = [recovery EXCEPT ![a].state = "delivered"]
          /\ recovery[a].state = "prepared" /\ Preserved(a)
      BY <1>2, <2>4 DEF DeliverRecovery, RecoveryCurrent, Preserved
    <3> HIDE DEF a
    <3>2. /\ \A b \in Account \ {a} : recovery'[b] = recovery[b]
          /\ recovery'[a].state = "delivered"
          /\ recovery'[a].generation = recovery[a].generation
          /\ recovery'[a].proof = recovery[a].proof
          /\ recovery'[a].expired = recovery[a].expired
      BY <1>0, <2>1, <3>1 DEF Recovery
    <3>3. Preserved(a)'
      BY <2>2, <3>1, <3>2 DEF Preserved, Proof
    <3> QED
      BY <2>1, <2>2, <3>1, <3>2, <3>3, RecoveryRowMoves DEF Moves
  <2> QED
    BY <2>3, <2>4
<1>3. ASSUME NEW a \in Account, ExpireRecovery(a)
      PROVE  Moves
  <2>1. /\ UNCHANGED <<user, invitation, offers, redeemed>>
        /\ recovery[a].state \in {"prepared", "delivered"}
        /\ recovery' = [recovery EXCEPT ![a].expired = TRUE]
    BY <1>3 DEF ExpireRecovery
  <2>2. /\ \A b \in Account \ {a} : recovery'[b] = recovery[b]
        /\ recovery'[a].state = recovery[a].state /\ recovery'[a].expired
        /\ recovery'[a].generation = recovery[a].generation
    BY <1>0, <2>1 DEF Recovery
  <2>3. ~Preserved(a)'
    BY <2>2 DEF Preserved
  <2> QED
    BY <2>1, <2>2, <2>3, RecoveryRowMoves DEF Moves
<1> QED
  BY <1>1, <1>2, <1>3

LEMMA CompleteMoves ==
    ASSUME AccountsInv, NEW l \in mailed, CompleteRecovery(l)
    PROVE  InvitationMove(l.account) /\ RecoveryMove(l.account)
<1> DEFINE a == l.account
<1>1. l \in Link /\ a \in Account /\ l.kind = "recovery"
  BY DEF AccountsInv, TypeOK, Link, CompleteRecovery, Resettable
<1>2. /\ recovery[a] \in Recovery
      /\ user \in [Account -> User] /\ recovery \in [Account -> Recovery]
  BY <1>1 DEF AccountsInv, TypeOK
<1>3. /\ redeemed' = redeemed \union {l} /\ UNCHANGED <<offers, invitation>>
      /\ \A b \in Account \ {a} : user'[b] = user[b] /\ recovery'[b] = recovery[b]
      /\ recovery[a].state = "delivered" /\ Preserved(a)
      /\ l.generation = recovery[a].generation
  BY <1>2 DEF CompleteRecovery, Resettable, Preserved
<1>4. recovery'[a].state = "consumed" /\ recovery'[a].generation = recovery[a].generation
  BY <1>1, <1>2 DEF CompleteRecovery, Recovery
<1> HIDE DEF a
<1>5. /\ \A b \in Account : Redeemed("invitation", b)' = Redeemed("invitation", b)
      /\ \A b \in Account \ {a} : Redeemed("recovery", b)' = Redeemed("recovery", b)
      /\ Redeemed("recovery", a)' = Redeemed("recovery", a) \union {recovery[a].generation}
  BY <1>1, <1>3, Redemption DEF a
<1>6. RecoveryPhase(a) = "usable" /\ RecoveryPhase(a)' = "spent"
  <2>1. RecoveryPhase(a) = "usable"
    BY <1>1, <1>2, <1>3, RecoveryPhases
  <2>2. RecoveryPhase(a)' = "spent"
    BY <1>4, Zenon DEF RecoveryPhase
  <2> QED
    BY <2>1, <2>2
<1>7. RecoveryMove(a)
  <2>1. \A b \in Account \ {a} : RecoveryStill(b)
    BY <1>3, <1>5, StillRecovery
  <2> QED
    BY <1>4, <1>5, <1>6, <2>1 DEF RecoveryMove, Move
<1>8. InvitationMove(a)
  <2>1. \A b \in Account : InvitationStill(b)
    BY <1>3, <1>5, StillInvitation
  <2> QED
    BY <1>1, <2>1, StillMove
<1> QED
  BY <1>7, <1>8 DEF a

\* A step of Next is one of these; with no account at all nothing can happen.
LEMMA NextMoves ==
    ASSUME AccountsInv, Next
    PROVE  Moves
<1>1. ASSUME NEW a \in Account,
             \/ Bootstrap(a) \/ ReissueBootstrap(a) \/ Resend(a)
             \/ \E role \in BusinessRole \union {PartnerRole}, p \in Partner \union {None} :
                   Invite(a, role, p)
      PROVE  Moves
  BY <1>1, Offers, OfferMoves DEF Moves
<1>2. ASSUME NEW a \in Account,
             \/ Revoke(a) \/ ExpireInvitation(a) \/ Deactivate(a)
             \/ \E role \in BusinessRole : ChangeRole(a, role)
      PROVE  Moves
  BY <1>2, EndMoves, GovernMoves DEF Moves
<1>3. ASSUME NEW a \in Account, AskRecovery(a)
      PROVE  Moves
  BY <1>3, TaskMoves DEF Moves, AskRecovery, rows
<1>4. ASSUME NEW t \in tasks, CheckRecovery(t) \/ Send(t) \/ Lose(t)
      PROVE  Moves
  <2>1. t.link.account \in Account
    BY TaskFields
  <2>2. UNCHANGED <<user, invitation, offers, recovery, redeemed>>
    BY <1>4 DEF CheckRecovery, Send, Lose, rows
  <2> QED
    BY <2>1, <2>2, TaskMoves DEF Moves
<1>5. ASSUME NEW t \in tasks, DeliverInvitation(t)
      PROVE  Moves
  BY <1>5, TaskFields, DeliverInvitationMoves DEF Moves
<1>6. ASSUME NEW l \in mailed, Accept(l) \/ CompleteRecovery(l)
      PROVE  Moves
  <2>1. l.account \in Account
    BY DEF AccountsInv, TypeOK, Link
  <2> QED
    BY <1>6, <2>1, AcceptMoves, CompleteMoves DEF Moves
<1> QED
  BY <1>1, <1>2, <1>3, <1>4, <1>5, <1>6, RecoveryMoves DEF Next, Proceed

\* The invitations and the reset links of any number of accounts are one-time secrets:
\* a link that was replaced, revoked, used, outlived or outdated by a change of its
\* account never works again, whatever comes late.
THEOREM LinksImplementOneTimeSecret == Spec => LinksAreOneTime
<1>1. Init => InvitationLinks!Init /\ RecoveryLinks!Init
  <2> SUFFICES ASSUME Init
               PROVE  InvitationLinks!Init /\ RecoveryLinks!Init
    OBVIOUS
  <2>1. ASSUME NEW a \in Account
        PROVE  /\ Generation(a) = 0 /\ recovery[a].generation = 0
               /\ InvitationPhase(a) = "idle" /\ RecoveryPhase(a) = "idle"
               /\ \A k : Redeemed(k, a) = {}
    <3>1. invitation[a].state = "absent" /\ recovery[a].state = "absent"
      BY DEF Init, NoInvitation, NoRecovery
    <3>2. InvitationPhase(a) = "idle"
      BY <3>1, Zenon DEF InvitationPhase
    <3>3. RecoveryPhase(a) = "idle"
      BY <3>1, Zenon DEF RecoveryPhase
    <3>4. Generation(a) = 0 /\ recovery[a].generation = 0
      BY EmptySeq DEF Init, Generation, NoRecovery
    <3>5. \A k : Redeemed(k, a) = {}
      BY DEF Init, Redeemed
    <3> QED
      BY <3>2, <3>3, <3>4, <3>5
  <2> QED
    BY <2>1 DEF InvitationLinks!Init, RecoveryLinks!Init
<1>2. AccountsInv /\ [Next]_vars => /\ [InvitationLinks!Next]_(InvitationLinks!vars)
                                    /\ [RecoveryLinks!Next]_(RecoveryLinks!vars)
  <2>1. ASSUME AccountsInv, Next
        PROVE  /\ [InvitationLinks!Next]_(InvitationLinks!vars)
               /\ [RecoveryLinks!Next]_(RecoveryLinks!vars)
    BY <2>1, NextMoves, MoveIsStep DEF Moves
  <2>2. ASSUME UNCHANGED vars
        PROVE  UNCHANGED InvitationLinks!vars /\ UNCHANGED RecoveryLinks!vars
    BY <2>2 DEF vars, rows, InvitationLinks!vars, RecoveryLinks!vars, Generation,
       InvitationPhase, RecoveryPhase, Preserved, Proof, Redeemed
  <2> QED
    BY <2>1, <2>2
<1> QED
  BY <1>1, <1>2, Invariance, PTL DEF Spec, LinksAreOneTime, InvitationsAreOneTime,
     RecoveriesAreOneTime, InvitationLinks!Spec, RecoveryLinks!Spec
=============================================================================
