------------------------------ MODULE Documents ------------------------------
(***************************************************************************)
(* The files of Activities (planning/documents.py) and what a Partner gets *)
(* to see of them (partner_portal/routes.py): uploads, withdrawals with or *)
(* without a correction, sharing on the version last seen, and who gets a  *)
(* document to see.                                                        *)
(***************************************************************************)
EXTENDS Integers, FiniteSets, FiniteSetsExt

CONSTANTS Activity, Document, User, Partner, None,
          Owner,         \* Owner[a]: the Partner whose Project holds a
          MaxSharing     \* bound: changes of the sharing of all documents

ASSUME OwnerAssumption == Owner \in [Activity -> Partner]
ASSUME NoneAssumption == None \notin Activity \union Document \union Nat
ASSUME SharingAssumption == MaxSharing \in Nat

VARIABLES role,        \* role[u]: "none" for an account without a business role
          activity,    \* activity[a]: the part of its state that is read here
          document,    \* document[d]: the row and its withdrawal
          clock,       \* uploads so far, the order of their times
          seen,        \* seen[u][d]: the sharing version u last read
          outdated     \* outdated[u]: documents shared or unshared since u last read them

vars == <<role, activity, document, clock, seen, outdated>>
-----------------------------------------------------------------------------
Uploaders == {"AGENT_SAISIE", "VALIDATEUR_DEFINITIF"}
Role == Uploaders \union {"AGENT_VERIFICATEUR", "none"}

Row == [activity : Activity \union {None}, uploader : User \union {None}, time : Nat,
        shared : BOOLEAN, version : Nat,
        withdrawn : BOOLEAN, replacement : Document \union {None}]

NoRow == [activity |-> None, uploader |-> None, time |-> 0, shared |-> FALSE,
          version |-> 0, withdrawn |-> FALSE, replacement |-> None]

Of(d) == document[d].activity
Stored == {d \in Document : Of(d) # None}

Init ==
    /\ role \in [User -> Role \ {"none"}]
    /\ activity = [a \in Activity |-> "planned"]
    /\ document = [d \in Document |-> NoRow]
    /\ clock = 0
    /\ seen = [u \in User |-> [d \in Document |-> None]]
    /\ outdated = [u \in User |-> {}]

\* The same test decides what may be shared and what the portal shows; the Partner is
\* always active, as no operation changes that.
Eligible(a) == activity[a] \in {"approved", "closed"}
-----------------------------------------------------------------------------
(***************************************************************************)
(* Upload.                                                                 *)
(***************************************************************************)
\* Two transactions with the reading of the body in between; the first one only checks
\* what the second checks again, so this is the second, in whatever state the Activity
\* is by then. A body that is too long, unreadable or not what its name says ends it.
StoreUpload(u, a, d) ==
    /\ role[u] \in Uploaders /\ d \notin Stored
    /\ document' = [document EXCEPT ![d] =
          [NoRow EXCEPT !.activity = a, !.uploader = u, !.time = clock + 1]]
    /\ clock' = clock + 1
    /\ UNCHANGED <<role, activity, seen, outdated>>
-----------------------------------------------------------------------------
(***************************************************************************)
(* Withdrawal.                                                             *)
(***************************************************************************)
MayWithdraw(u, d) ==
    /\ d \in Stored /\ ~document[d].withdrawn
    /\ \/ role[u] = "VALIDATEUR_DEFINITIF"
       \/ /\ role[u] = "AGENT_SAISIE"
          /\ document[d].uploader = u /\ activity[Of(d)] # "closed"

\* mutant: any other document of the Activity will do
Corrects_Any(r, d) ==
    r \in Stored /\ Of(r) = Of(d) /\ r # d /\ ~document[r].withdrawn
\* mutant: a document that was itself withdrawn will do
Corrects_Withdrawn(r, d) ==
    r \in Stored /\ Of(r) = Of(d) /\ document[r].time > document[d].time
\* A later upload to the same Activity that still stands.
Corrects(r, d) ==
    /\ r \in Stored /\ Of(r) = Of(d) /\ r # d
    /\ document[r].time > document[d].time /\ ~document[r].withdrawn

\* The sharing of the row stays as it is; everybody who delivers asks for both.
Withdraw(u, d, r) ==
    /\ MayWithdraw(u, d)
    /\ r = None \/ Corrects(r, d)
    /\ document' = [document EXCEPT ![d].withdrawn = TRUE, ![d].replacement = r]
    /\ UNCHANGED <<role, activity, clock, seen, outdated>>
-----------------------------------------------------------------------------
(***************************************************************************)
(* Listing and sharing.                                                    *)
(***************************************************************************)
Look(u, a) ==
    /\ role[u] # "none"
    /\ LET listed == {d \in Stored : Of(d) = a}
       IN  /\ seen' = [seen EXCEPT ![u] = [d \in Document |->
                          IF d \in listed THEN document[d].version ELSE seen[u][d]]]
           /\ outdated' = [outdated EXCEPT ![u] = @ \ listed]
    /\ UNCHANGED <<role, activity, document, clock>>

\* mutant: it is enough that the sharing is not yet what was asked for
MaySetShared_Unversioned(u, d, shared) ==
    /\ role[u] = "VALIDATEUR_DEFINITIF" /\ d \in Stored /\ seen[u][d] # None
    /\ shared => Eligible(Of(d)) /\ ~document[d].withdrawn
    /\ document[d].shared # shared
\* expected_version is the version last seen.
MaySetShared(u, d, shared) ==
    /\ role[u] = "VALIDATEUR_DEFINITIF" /\ d \in Stored
    /\ document[d].version = seen[u][d]
    /\ shared => Eligible(Of(d)) /\ ~document[d].withdrawn
    /\ document[d].shared # shared

SetShared(u, d, shared) ==
    /\ MaySetShared(u, d, shared)
    /\ MapThenSumSet(LAMBDA x : document[x].version, Document) < MaxSharing
    /\ document' = [document EXCEPT ![d].shared = shared, ![d].version = @ + 1]
    /\ seen' = [seen EXCEPT ![u][d] = document[d].version + 1]
    /\ outdated' = [v \in User |-> IF v = u THEN outdated[v] \ {d} ELSE outdated[v] \union {d}]
    /\ UNCHANGED <<role, activity, clock>>

\* mutant: the closing of the Activity is forgotten
Advertised_Closed(u, d) ==
    LET item == document[d]
        validator == role[u] = "VALIDATEUR_DEFINITIF"
        own == role[u] = "AGENT_SAISIE" /\ item.uploader = u
        offers == [withdraw |-> validator \/ own,
                   unshare |-> validator /\ item.shared,
                   share |-> validator /\ ~item.shared /\ Eligible(item.activity)]
    IN  {action \in DOMAIN offers : offers[action] /\ ~item.withdrawn}
\* allowed_actions of one document in the listing.
Advertised(u, d) ==
    LET item == document[d]
        validator == role[u] = "VALIDATEUR_DEFINITIF"
        own == /\ role[u] = "AGENT_SAISIE" /\ item.uploader = u
               /\ activity[item.activity] # "closed"
        offers == [withdraw |-> validator \/ own,
                   unshare |-> validator /\ item.shared,
                   share |-> validator /\ ~item.shared /\ Eligible(item.activity)]
    IN  {action \in DOMAIN offers : offers[action] /\ ~item.withdrawn}
-----------------------------------------------------------------------------
(***************************************************************************)
(* Delivery: a request names an Activity and a document, perhaps guessed.  *)
(***************************************************************************)
\* What members download and preview.
Deliverable(a, d) == d \in Stored /\ Of(d) = a /\ ~document[d].withdrawn

VisibleActivity(q, a) == Owner[a] = q /\ Eligible(a)

\* The conditions of the portal, for its list, its download and its preview.
SharedWith(q, a, d) == VisibleActivity(q, a) /\ Deliverable(a, d) /\ document[d].shared
-----------------------------------------------------------------------------
(***************************************************************************)
(* What the database accepts: an update of a row, a row of a withdrawal.   *)
(***************************************************************************)
DocumentTrigger(d, new) ==
    LET old == document[d]
    IN  /\ new = [old EXCEPT !.shared = ~@, !.version = @ + 1]
        /\ new.shared => ~old.withdrawn /\ Eligible(old.activity)

WithdrawalTrigger(d, new) ==
    LET old == document[d] r == new.replacement
    IN  /\ new = [old EXCEPT !.withdrawn = TRUE, !.replacement = r]
        /\ ~old.withdrawn
        /\ r # None => /\ r # d /\ Of(r) = old.activity
                       /\ document[r].time > old.time /\ ~document[r].withdrawn
-----------------------------------------------------------------------------
(***************************************************************************)
(* What other components change.                                           *)
(***************************************************************************)
ChangeRole(u) == /\ \E r \in Role \ {role[u]} : role' = [role EXCEPT ![u] = r]
                 /\ UNCHANGED <<activity, document, clock, seen, outdated>>

SetActivity(a, state) == /\ activity' = [activity EXCEPT ![a] = state]
                         /\ UNCHANGED <<role, document, clock, seen, outdated>>

Approve(a) == activity[a] = "planned" /\ SetActivity(a, "approved")
EndActivity(a) == /\ activity[a] = "approved"
                  /\ \E state \in {"closed", "withdrawn"} : SetActivity(a, state)

Next ==
    \/ \E u \in User :
          \/ ChangeRole(u)
          \/ \E a \in Activity : \/ Look(u, a)
                                 \/ \E d \in Document : StoreUpload(u, a, d)
          \/ \E d \in Document : \/ \E r \in Document \union {None} : Withdraw(u, d, r)
                                 \/ \E shared \in BOOLEAN : SetShared(u, d, shared)
    \/ \E a \in Activity : Approve(a) \/ EndActivity(a)

Spec == Init /\ [][Next]_vars
-----------------------------------------------------------------------------
\* The types of all rows.
TypeOK ==
    /\ role \in [User -> Role]
    /\ activity \in [Activity -> {"planned", "approved", "closed", "withdrawn"}]
    /\ document \in [Document -> Row]
    /\ clock = Cardinality(Stored)
    /\ seen \in [User -> [Document -> Nat \union {None}]]
    /\ outdated \in [User -> SUBSET Document]

\* Whoever follows the corrections of a withdrawn document goes forward in time within
\* one Activity, so the walk ends, at the document that stands or was given up.
CorrectionsLeadForward ==
    \A d \in Document : document[d].replacement # None =>
        LET r == document[d].replacement
        IN  document[d].withdrawn /\ Of(r) = Of(d) /\ document[r].time > document[d].time

\* The rows have their types, and the corrections form finite walks.
RowsConsistent == TypeOK /\ CorrectionsLeadForward

\* Every action the listing offers is accepted from whoever has just read it.
AdvertisedAreAccepted ==
    \A u \in User, d \in Stored :
        /\ "withdraw" \in Advertised(u, d) => MayWithdraw(u, d)
        /\ seen[u][d] = document[d].version =>
              /\ "share" \in Advertised(u, d) => MaySetShared(u, d, TRUE)
              /\ "unshare" \in Advertised(u, d) => MaySetShared(u, d, FALSE)
-----------------------------------------------------------------------------
\* In this step a Validator who knew the last decision on d took another one.
Decided(d) == \E u \in User : /\ role[u] = "VALIDATEUR_DEFINITIF" /\ d \notin outdated[u]
                              /\ seen'[u][d] # seen[u][d]

\* A Partner comes to see a document only by the decision of a Validator about this
\* very document, and whoever shares or unshares knows the last decision on it: neither
\* an approval, a correction nor a withdrawal shows anything, nor does a late client.
SharingIsInformed ==
    [][\A d \in Document :
         /\ document'[d].shared # document[d].shared => Decided(d)
         /\ \A q \in Partner, a \in Activity :
               SharedWith(q, a, d)' /\ ~SharedWith(q, a, d) => Decided(d)]_vars

\* The triggers on both tables accept whatever the handlers write: a document changes
\* by its sharing alone, one version at a time and where it is eligible, and a correction
\* is a later document that stands at that moment.
TriggersAccept ==
    [][\A d \in Stored :
         document'[d] # document[d] =>
             DocumentTrigger(d, document'[d]) \/ WithdrawalTrigger(d, document'[d])]_vars
=============================================================================
