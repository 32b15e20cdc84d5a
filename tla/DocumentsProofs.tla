--------------------------- MODULE DocumentsProofs ---------------------------
(***************************************************************************)
(* Theorems about Documents for every set of Activities, documents, users  *)
(* and Partners, and for every bound.                                      *)
(***************************************************************************)
EXTENDS Documents, FiniteSetTheorems, TLAPS

-----------------------------------------------------------------------------
\* The invariant. The corrections lead forward because a row keeps its Activity and its
\* time for ever; what is shown was shared while the Activity could be shown, which it
\* never becomes again; and whoever missed a decision has read a smaller version.

Typed == TypeOK /\ IsFiniteSet(Stored)

BlankUnlessStored == \A d \in Document \ Stored : document[d] = NoRow

SharedWereEligible ==
    \A d \in Document : document[d].shared => activity[Of(d)] # "planned"

LateHaveReadLess ==
    \A u \in User, d \in Document :
        /\ seen[u][d] # None => seen[u][d] <= document[d].version
        /\ d \in outdated[u] => seen[u][d] = None \/ seen[u][d] < document[d].version

DocInv == /\ Typed
          /\ BlankUnlessStored /\ CorrectionsLeadForward
          /\ SharedWereEligible /\ LateHaveReadLess

\* CorrectionsLeadForward, row by row.
Forward(x) ==
    LET r == document[x].replacement
    IN  r # None => /\ document[x].withdrawn
                    /\ document[r].activity = document[x].activity
                    /\ document[r].time > document[x].time

LEMMA RowByRow ==
  /\ CorrectionsLeadForward <=> \A x \in Document : Forward(x)
  /\ CorrectionsLeadForward' <=> \A x \in Document : Forward(x)'
<1>1. CorrectionsLeadForward <=> \A x \in Document : Forward(x)
  BY DEF CorrectionsLeadForward, Forward, Of
<1>2. CorrectionsLeadForward' <=> \A x \in Document : Forward(x)'
  BY Zenon DEF CorrectionsLeadForward, Forward, Of
<1> QED
  BY <1>1, <1>2

LEMMA RowOf ==
  ASSUME TypeOK, NEW d \in Document
  PROVE  /\ document[d] \in Row
         /\ document[d].activity \in Activity \union {None}
         /\ document[d].uploader \in User \union {None}
         /\ document[d].time \in Nat /\ document[d].version \in Nat
         /\ document[d].shared \in BOOLEAN /\ document[d].withdrawn \in BOOLEAN
         /\ document[d].replacement \in Document \union {None}
BY DEF TypeOK, Row

LEMMA InitDoc ==
  ASSUME Init
  PROVE  DocInv
<1>1. Stored = {} /\ IsFiniteSet(Stored) /\ Cardinality(Stored) = 0
  <2>1. Stored = {}
    BY DEF Init, Stored, Of, NoRow
  <2> QED
    BY <2>1, FS_EmptySet
<1>2. TypeOK
  BY <1>1 DEF Init, TypeOK, NoRow, Row
<1>3. BlankUnlessStored /\ CorrectionsLeadForward /\ SharedWereEligible /\ LateHaveReadLess
  BY DEF Init, NoRow, Stored, Of, BlankUnlessStored, CorrectionsLeadForward, SharedWereEligible,
     LateHaveReadLess
<1> QED
  BY <1>1, <1>2, <1>3 DEF DocInv, Typed
-----------------------------------------------------------------------------
\* An upload is a new row, later than every other.
LEMMA UploadKeeps ==
  ASSUME DocInv, NEW u \in User, NEW a \in Activity, NEW d \in Document,
         StoreUpload(u, a, d)
  PROVE  DocInv'
<1> DEFINE row == [NoRow EXCEPT !.activity = a, !.uploader = u, !.time = clock + 1]
<1>0. /\ a # None /\ d # None /\ TypeOK /\ IsFiniteSet(Stored)
      /\ clock = Cardinality(Stored) /\ clock \in Nat
  <2>1. TypeOK /\ IsFiniteSet(Stored)
    BY DEF DocInv, Typed
  <2>2. clock = Cardinality(Stored) /\ clock \in Nat
    BY <2>1, FS_CardinalityType DEF TypeOK
  <2> QED
    BY <2>1, <2>2, NoneAssumption
<1>1. /\ d \notin Stored /\ document' = [document EXCEPT ![d] = row]
      /\ clock' = clock + 1 /\ UNCHANGED <<role, activity, seen, outdated>>
  BY DEF StoreUpload
<1>2. /\ row \in Row /\ row.activity = a /\ row.version = 0 /\ row.replacement = None
      /\ row.withdrawn = FALSE /\ row.shared = FALSE
  <2>1. NoRow \in Row
    BY DEF NoRow, Row
  <2>2. row \in Row /\ row.activity = a
    <3>1. clock + 1 \in Nat
      BY <1>0
    <3> DEFINE one == [NoRow EXCEPT !.activity = a]
               two == [one EXCEPT !.uploader = u]
    <3>2. one \in Row /\ one.activity = a
      BY <2>1 DEF Row
    <3>3. two \in Row /\ two.activity = a
      BY <3>2 DEF Row
    <3>4. row = [two EXCEPT !.time = clock + 1]
      OBVIOUS
    <3> HIDE DEF two
    <3> QED
      BY <3>1, <3>3, <3>4 DEF Row
  <2>3. /\ row.version = NoRow.version /\ row.replacement = NoRow.replacement
        /\ row.withdrawn = NoRow.withdrawn /\ row.shared = NoRow.shared
    BY <2>1 DEF Row
  <2> QED
    BY <2>2, <2>3 DEF NoRow
<1>3. document[d] = NoRow
  BY <1>1 DEF DocInv, BlankUnlessStored
<1> HIDE DEF row
<1>4. /\ \A x \in Document : x # d => document'[x] = document[x]
      /\ document'[d] = row
  BY <1>0, <1>1 DEF TypeOK
<1>5. Stored' = Stored \union {d}
  BY <1>0, <1>2, <1>4 DEF Stored, Of
<1>6. Typed'
  <2>1. IsFiniteSet(Stored') /\ Cardinality(Stored') = Cardinality(Stored) + 1
    BY <1>0, <1>1, <1>5, FS_AddElement
  <2> QED
    BY <1>0, <1>1, <1>2, <2>1 DEF Typed, TypeOK
<1>7. BlankUnlessStored' /\ SharedWereEligible'
  BY <1>1, <1>2, <1>4, <1>5 DEF DocInv, BlankUnlessStored, SharedWereEligible, Of
<1>8. CorrectionsLeadForward'
  <2>1. ASSUME NEW x \in Document
        PROVE  Forward(x)'
    <3>1. CASE x = d
      BY <1>2, <1>4, <3>1 DEF Forward
    <3>2. CASE x # d /\ document[x].replacement # None
      <4> DEFINE r == document[x].replacement
      <4>1. x \in Stored /\ r \in Document /\ Forward(x)
        BY <1>0, <2>1, <3>2, RowOf, RowByRow DEF DocInv, BlankUnlessStored, NoRow
      <4>2. document[r].activity # None
        BY <3>2, <4>1 DEF Stored, Of, Forward
      <4>3. r # d
        BY <1>1, <4>2 DEF Stored, Of
      <4> QED
        BY <1>4, <2>1, <3>2, <4>1, <4>3 DEF Forward
    <3>3. CASE x # d /\ document[x].replacement = None
      BY <1>4, <2>1, <3>3 DEF Forward
    <3> QED
      BY <3>1, <3>2, <3>3
  <2> QED
    BY <2>1, RowByRow
<1>9. LateHaveReadLess'
  <2>1. \A x \in Document : document'[x].version = document[x].version
    BY <1>2, <1>3, <1>4 DEF NoRow
  <2> QED
    BY <1>1, <2>1 DEF DocInv, LateHaveReadLess
<1> QED
  BY <1>6, <1>7, <1>8, <1>9 DEF DocInv

\* A correction stands, of the same Activity and later.
LEMMA WithdrawKeeps ==
  ASSUME DocInv, NEW u \in User, NEW d \in Document, NEW r \in Document \union {None},
         Withdraw(u, d, r)
  PROVE  DocInv'
<1>0. TypeOK /\ IsFiniteSet(Stored) /\ document[d] \in Row /\ d \in Stored
  BY RowOf DEF DocInv, Typed, Withdraw, MayWithdraw
<1>1. /\ document' = [document EXCEPT ![d].withdrawn = TRUE, ![d].replacement = r]
      /\ UNCHANGED <<role, activity, clock, seen, outdated>>
      /\ r = None \/ Corrects(r, d)
  BY DEF Withdraw
<1>2. /\ document' \in [Document -> Row]
      /\ \A x \in Document : x # d => document'[x] = document[x]
      /\ document'[d].withdrawn /\ document'[d].replacement = r
      /\ document'[d].activity = document[d].activity
      /\ document'[d].time = document[d].time /\ document'[d].version = document[d].version
      /\ document'[d].shared = document[d].shared
  BY <1>0, <1>1 DEF TypeOK, Row
<1>3. /\ Stored' = Stored
      /\ \A x \in Document : /\ document'[x].activity = document[x].activity
                              /\ document'[x].time = document[x].time
                              /\ document'[x].version = document[x].version
                              /\ document'[x].shared = document[x].shared
  BY <1>2 DEF Stored, Of
<1>4. Typed'
  BY <1>0, <1>1, <1>2, <1>3 DEF Typed, TypeOK
<1>5. BlankUnlessStored'
  BY <1>0, <1>2, <1>3 DEF DocInv, BlankUnlessStored
<1>6. SharedWereEligible' /\ LateHaveReadLess'
  BY <1>1, <1>3 DEF DocInv, SharedWereEligible, LateHaveReadLess, Of
<1>7. CorrectionsLeadForward'
  <2>1. ASSUME NEW x \in Document
        PROVE  Forward(x)'
    <3>1. CASE x = d /\ r # None
      <4>1. /\ r \in Document /\ document[r].activity = document[d].activity
            /\ document[r].time > document[d].time
        BY <1>1, <3>1 DEF Corrects, Stored, Of
      <4> QED
        BY <1>2, <1>3, <3>1, <4>1 DEF Forward
    <3>2. CASE x = d /\ r = None
      BY <1>2, <3>2 DEF Forward
    <3>3. CASE x # d /\ document[x].replacement # None
      <4>1. document[x].replacement \in Document /\ Forward(x)
        BY <1>0, <2>1, <3>3, RowOf, RowByRow DEF DocInv
      <4> QED
        BY <1>2, <1>3, <2>1, <3>3, <4>1 DEF Forward
    <3>4. CASE x # d /\ document[x].replacement = None
      BY <1>2, <2>1, <3>4 DEF Forward
    <3> QED
      BY <3>1, <3>2, <3>3, <3>4
  <2> QED
    BY <2>1, RowByRow
<1> QED
  BY <1>4, <1>5, <1>6, <1>7 DEF DocInv

\* Sharing advances the version beyond what everybody else has read.
LEMMA SetSharedKeeps ==
  ASSUME DocInv, NEW u \in User, NEW d \in Document, NEW shared \in BOOLEAN,
         SetShared(u, d, shared)
  PROVE  DocInv'
<1>0. TypeOK /\ IsFiniteSet(Stored) /\ document[d] \in Row /\ document[d].version \in Nat
      /\ d \in Stored
  BY RowOf DEF DocInv, Typed, SetShared, MaySetShared
<1>1. /\ document' = [document EXCEPT ![d].shared = shared, ![d].version = @ + 1]
      /\ seen' = [seen EXCEPT ![u][d] = document[d].version + 1]
      /\ outdated' = [v \in User |-> IF v = u THEN outdated[v] \ {d} ELSE outdated[v] \union {d}]
      /\ UNCHANGED <<role, activity, clock>>
      /\ shared => Eligible(Of(d))
  BY DEF SetShared, MaySetShared
<1>2. /\ document' \in [Document -> Row]
      /\ \A x \in Document : x # d => document'[x] = document[x]
      /\ document'[d].version = document[d].version + 1
      /\ document'[d].shared = shared
      /\ document'[d].activity = document[d].activity
      /\ document'[d].time = document[d].time
      /\ document'[d].withdrawn = document[d].withdrawn
      /\ document'[d].replacement = document[d].replacement
  <2> DEFINE one == [document[d] EXCEPT !.shared = shared]
             row == [one EXCEPT !.version = @ + 1]
  <2>1. one \in Row /\ one.version = document[d].version /\ one.shared = shared
    BY <1>0 DEF Row
  <2> HIDE DEF one
  <2>2. /\ row \in Row /\ row.version = document[d].version + 1 /\ row.shared = shared
    <3>1. one.version + 1 \in Nat
      BY <1>0, <2>1
    <3> QED
      BY <2>1, <3>1 DEF Row
  <2>3. /\ row.activity = document[d].activity /\ row.time = document[d].time
        /\ row.withdrawn = document[d].withdrawn
        /\ row.replacement = document[d].replacement
    BY <1>0, <2>1 DEF Row, one
  <2>4. document' = [document EXCEPT ![d] = row]
    BY <1>0, <1>1 DEF TypeOK, one
  <2> HIDE DEF row
  <2> QED
    BY <1>0, <2>2, <2>3, <2>4 DEF TypeOK
<1>3. /\ Stored' = Stored
      /\ \A x \in Document : /\ document'[x].activity = document[x].activity
                              /\ document'[x].time = document[x].time
                              /\ document'[x].withdrawn = document[x].withdrawn
                              /\ document'[x].replacement = document[x].replacement
  BY <1>2 DEF Stored, Of
<1>4. /\ seen'[u][d] = document[d].version + 1
      /\ \A v \in User, x \in Document : v # u \/ x # d => seen'[v][x] = seen[v][x]
      /\ seen' \in [User -> [Document -> Nat \union {None}]]
  BY <1>0, <1>1 DEF TypeOK
<1>5. Typed'
  <2>1. outdated' \in [User -> SUBSET Document]
    BY <1>0, <1>1 DEF TypeOK
  <2> QED
    BY <1>0, <1>1, <1>2, <1>3, <1>4, <2>1 DEF Typed, TypeOK
<1>6. BlankUnlessStored'
  BY <1>0, <1>2, <1>3 DEF DocInv, BlankUnlessStored
<1>7. SharedWereEligible'
  BY <1>1, <1>2, <1>3 DEF DocInv, SharedWereEligible, Eligible, Of
<1>8. CorrectionsLeadForward'
  <2>1. ASSUME NEW x \in Document
        PROVE  Forward(x)'
    BY <1>0, <1>3, <2>1, RowOf, RowByRow DEF DocInv, Forward
  <2> QED
    BY <2>1, RowByRow
<1>9. LateHaveReadLess'
  <2>1. ASSUME NEW v \in User, NEW x \in Document
        PROVE  /\ seen'[v][x] # None => seen'[v][x] <= document'[x].version
               /\ x \in outdated'[v] => seen'[v][x] = None \/ seen'[v][x] < document'[x].version
    <3>1. CASE x # d
      BY <1>1, <1>2, <1>4, <2>1, <3>1 DEF DocInv, LateHaveReadLess
    <3>2. CASE x = d /\ v = u
      BY <1>0, <1>1, <1>2, <1>4, <3>2
    <3>3. CASE x = d /\ v # u
      <4>1. seen[v][d] \in Nat \union {None} /\ seen'[v][d] = seen[v][d]
        BY <1>0, <1>4, <2>1, <3>3 DEF TypeOK
      <4>2. seen[v][d] # None => seen[v][d] <= document[d].version
        BY <2>1 DEF DocInv, LateHaveReadLess
      <4> QED
        BY <1>0, <1>2, <3>3, <4>1, <4>2
    <3> QED
      BY <3>1, <3>2, <3>3
  <2> QED
    BY <2>1 DEF LateHaveReadLess
<1> QED
  BY <1>5, <1>6, <1>7, <1>8, <1>9 DEF DocInv

LEMMA LookKeeps ==
  ASSUME DocInv, NEW u \in User, NEW a \in Activity, Look(u, a)
  PROVE  DocInv'
<1> DEFINE listed == {d \in Stored : Of(d) = a}
<1>0. TypeOK /\ listed \subseteq Document
  BY DEF DocInv, Typed, Stored
<1>1. /\ seen' = [seen EXCEPT ![u] = [d \in Document |->
                       IF d \in listed THEN document[d].version ELSE seen[u][d]]]
      /\ outdated' = [outdated EXCEPT ![u] = @ \ listed]
      /\ UNCHANGED <<role, activity, document, clock>>
  BY DEF Look
<1> HIDE DEF listed
<1>2. \A d \in Document : document[d].version \in Nat
  BY <1>0, RowOf
<1>3. \A v \in User, d \in Document :
          /\ seen'[v][d] = IF v = u /\ d \in listed THEN document[d].version ELSE seen[v][d]
          /\ d \in outdated'[v] => d \in outdated[v] /\ ~(v = u /\ d \in listed)
  BY <1>0, <1>1 DEF TypeOK
<1>4. Typed'
  <2>1. /\ seen' \in [User -> [Document -> Nat \union {None}]]
        /\ outdated' \in [User -> SUBSET Document]
    BY <1>0, <1>1, <1>2 DEF TypeOK
  <2>2. Stored' = Stored
    BY <1>1 DEF Stored, Of
  <2> QED
    BY <1>0, <1>1, <2>1, <2>2 DEF DocInv, Typed, TypeOK
<1>5. LateHaveReadLess'
  <2>1. ASSUME NEW v \in User, NEW d \in Document
        PROVE  /\ seen'[v][d] # None => seen'[v][d] <= document[d].version
               /\ d \in outdated'[v] => seen'[v][d] = None \/ seen'[v][d] < document[d].version
    BY <1>2, <1>3, <2>1 DEF DocInv, LateHaveReadLess
  <2> QED
    BY <1>1, <2>1 DEF LateHaveReadLess
<1>6. BlankUnlessStored' /\ SharedWereEligible' /\ CorrectionsLeadForward'
  BY <1>1 DEF DocInv, BlankUnlessStored, SharedWereEligible, CorrectionsLeadForward,
     Stored, Of
<1> QED
  BY <1>4, <1>5, <1>6 DEF DocInv

\* An approved Activity may end, but it is never planned again.
LEMMA OthersKeep ==
  ASSUME DocInv,
         \/ UNCHANGED vars
         \/ \E u \in User : ChangeRole(u)
         \/ \E a \in Activity : Approve(a) \/ EndActivity(a)
  PROVE  DocInv'
<1>0. TypeOK /\ UNCHANGED <<document, clock, seen, outdated>>
  BY DEF DocInv, Typed, vars, ChangeRole, Approve, EndActivity, SetActivity
<1>1. role' \in [User -> Role] /\
      activity' \in [Activity -> {"planned", "approved", "closed", "withdrawn"}]
  BY <1>0 DEF TypeOK, vars, ChangeRole, Approve, EndActivity, SetActivity
<1>2. \A a \in Activity : activity'[a] = "planned" => activity[a] = "planned"
  BY <1>0 DEF TypeOK, vars, ChangeRole, Approve, EndActivity, SetActivity
<1>3. Stored' = Stored
  BY <1>0 DEF Stored, Of
<1>4. Typed'
  BY <1>0, <1>1, <1>3 DEF DocInv, Typed, TypeOK
<1>5. SharedWereEligible'
  <2>1. \A d \in Document : document[d].shared => Of(d) \in Activity
    BY <1>0, RowOf DEF DocInv, BlankUnlessStored, NoRow, Stored, Of
  <2> QED
    BY <1>0, <1>2, <2>1 DEF DocInv, SharedWereEligible, Of
<1>6. BlankUnlessStored' /\ LateHaveReadLess' /\ CorrectionsLeadForward'
  BY <1>0, <1>3 DEF DocInv, BlankUnlessStored, LateHaveReadLess, CorrectionsLeadForward, Of
<1> QED
  BY <1>4, <1>5, <1>6 DEF DocInv

LEMMA DocumentsInvariant == Spec => []DocInv
<1>1. DocInv /\ [Next]_vars => DocInv'
  BY UploadKeeps, WithdrawKeeps, SetSharedKeeps, LookKeeps, OthersKeep DEF Next
<1> QED
  BY <1>1, InitDoc, PTL DEF Spec

\* The rows are consistent: whoever follows the corrections of a withdrawn document
\* (withdraw_document) walks forward in time within one Activity.
THEOREM RowsAlwaysConsistent == Spec => []RowsConsistent
<1>1. DocInv => RowsConsistent
  BY DEF DocInv, Typed, RowsConsistent
<1> QED
  BY <1>1, DocumentsInvariant, PTL
-----------------------------------------------------------------------------
\* Who shares or unshares has read the last decision: the version says so.
LEMMA SharingIsDecided ==
  ASSUME DocInv, NEW u \in User, NEW d \in Document, NEW shared \in BOOLEAN,
         SetShared(u, d, shared)
  PROVE  Decided(d)
<1>1. /\ role[u] = "VALIDATEUR_DEFINITIF" /\ document[d].version = seen[u][d]
      /\ seen' = [seen EXCEPT ![u][d] = document[d].version + 1]
  BY DEF SetShared, MaySetShared
<1>2. document[d].version \in Nat /\ seen \in [User -> [Document -> Nat \union {None}]]
  BY RowOf DEF DocInv, Typed, TypeOK
<1>3. d \notin outdated[u]
  BY <1>1, <1>2, NoneAssumption DEF DocInv, LateHaveReadLess
<1>4. seen'[u][d] = document[d].version + 1
  BY <1>1, <1>2
<1> QED
  BY <1>1, <1>2, <1>3, <1>4 DEF Decided

\* A Partner sees a document only by a decision about this very document, taken on the
\* last one (set_document_sharing, the portal's document queries).
THEOREM PartnersSeeByDecision == Spec => SharingIsInformed
<1> DEFINE Informed(d) ==
        /\ document'[d].shared # document[d].shared => Decided(d)
        /\ \A q \in Partner, a \in Activity :
              SharedWith(q, a, d)' /\ ~SharedWith(q, a, d) => Decided(d)
<1>1. ASSUME DocInv, [Next]_vars, NEW d \in Document
      PROVE  Informed(d)
  <2>0. TypeOK /\ document[d] \in Row /\ Of(d) = document[d].activity
    BY <1>1, RowOf DEF DocInv, Typed, Of
  <2>1. ASSUME NEW u \in User, NEW e \in Document, NEW shared \in BOOLEAN,
               SetShared(u, e, shared)
        PROVE  Informed(d)
    <3>1. CASE e = d
      BY <1>1, <2>1, <3>1, SharingIsDecided
    <3>2. CASE e # d
      <4>1. document'[d] = document[d] /\ activity' = activity
        BY <1>1, <2>0, <2>1, <3>2 DEF SetShared, TypeOK
      <4> QED
        BY <1>1, <4>1 DEF SharedWith, VisibleActivity, Deliverable, Eligible, Stored, Of
    <3> QED
      BY <3>1, <3>2
  <2>2. ASSUME \/ UNCHANGED vars
               \/ \E u \in User : ChangeRole(u)
               \/ \E a \in Activity : Approve(a) \/ EndActivity(a)
        PROVE  Informed(d)
    <3>1. document' = document
      BY <2>2 DEF vars, ChangeRole, Approve, EndActivity, SetActivity
    <3>2. \A a \in Activity : Eligible(a)' => Eligible(a) \/ activity[a] = "planned"
      BY <2>0, <2>2 DEF TypeOK, Eligible, vars, ChangeRole, Approve, EndActivity, SetActivity
    <3>3. document[d].shared => activity[Of(d)] # "planned"
      BY <1>1 DEF DocInv, SharedWereEligible
    <3> QED
      BY <1>1, <3>1, <3>2, <3>3 DEF SharedWith, VisibleActivity, Deliverable, Stored, Of
  <2>3. ASSUME \E u \in User :
                  \/ \E a \in Activity : Look(u, a)
                  \/ \E a \in Activity, e \in Document \ {d} : StoreUpload(u, a, e)
                  \/ \E e \in Document \ {d}, r \in Document \union {None} : Withdraw(u, e, r)
        PROVE  Informed(d)
    <3>1. document'[d] = document[d] /\ activity' = activity
      BY <1>1, <2>0, <2>3 DEF Look, StoreUpload, Withdraw, TypeOK
    <3> QED
      BY <1>1, <3>1 DEF SharedWith, VisibleActivity, Deliverable, Eligible, Stored, Of
  <2>4. ASSUME NEW u \in User, NEW a \in Activity, StoreUpload(u, a, d)
        PROVE  Informed(d)
    <3>1. document[d].shared = FALSE
      BY <1>1, <2>4 DEF StoreUpload, DocInv, BlankUnlessStored, NoRow
    <3>2. document'[d].shared = FALSE
      BY <1>1, <2>0, <2>4 DEF StoreUpload, NoRow, TypeOK
    <3> QED
      BY <3>1, <3>2 DEF SharedWith
  <2>5. ASSUME NEW u \in User, NEW r \in Document \union {None}, Withdraw(u, d, r)
        PROVE  Informed(d)
    <3>1. document'[d].shared = document[d].shared /\ document'[d].withdrawn
      BY <1>1, <2>0, <2>5 DEF Withdraw, TypeOK, Row
    <3> QED
      BY <3>1 DEF SharedWith, Deliverable
  <2>6. ASSUME NEW u \in User, NEW a \in Activity, NEW e \in Document, StoreUpload(u, a, e)
        PROVE  Informed(d)
    BY <2>3, <2>4, <2>6
  <2>7. ASSUME NEW u \in User, NEW e \in Document, NEW r \in Document \union {None},
               Withdraw(u, e, r)
        PROVE  Informed(d)
    BY <2>3, <2>5, <2>7
  <2>8. ASSUME NEW u \in User, NEW a \in Activity, Look(u, a)
        PROVE  Informed(d)
    BY <2>3, <2>8
  <2> HIDE DEF Informed
  <2> QED
    BY <1>1, <2>1, <2>2, <2>6, <2>7, <2>8 DEF Next
<1>2. DocInv /\ [Next]_vars => [\A d \in Document : Informed(d)]_vars
  BY <1>1
<1> QED
  BY <1>2, DocumentsInvariant, PTL DEF Spec, SharingIsInformed

\* The triggers of both tables accept every write of the handlers: none of them is
\* rolled back once it decided to commit.
THEOREM WritesAlwaysAccepted == Spec => TriggersAccept
<1> DEFINE Accepted(d) == DocumentTrigger(d, document'[d]) \/ WithdrawalTrigger(d, document'[d])
<1>1. ASSUME DocInv, [Next]_vars, NEW d \in Stored, document'[d] # document[d]
      PROVE  Accepted(d)
  <2>0. d \in Document /\ document \in [Document -> Row] /\ document[d] \in Row
    BY <1>1 DEF DocInv, Typed, TypeOK, Stored
  <2>1. ASSUME NEW u \in User, NEW e \in Document, NEW shared \in BOOLEAN,
               SetShared(u, e, shared)
        PROVE  DocumentTrigger(d, document'[d])
    <3>1. e = d
      BY <1>1, <2>0, <2>1 DEF SetShared
    <3>2. /\ document'[d] = [document[d] EXCEPT !.shared = shared, !.version = @ + 1]
          /\ document[d].shared # shared
          /\ shared => Eligible(Of(d)) /\ ~document[d].withdrawn
      BY <2>0, <2>1, <3>1 DEF SetShared, MaySetShared
    <3>3. shared = ~document[d].shared
      <4>1. document[d].shared \in BOOLEAN /\ document[d].shared # shared
        BY <2>0, <3>2 DEF Row
      <4>2. CASE shared = TRUE
        BY <4>1, <4>2
      <4>3. CASE shared = FALSE
        BY <4>1, <4>3
      <4> QED
        BY <2>1, <4>2, <4>3
    <3>4. document'[d].shared = shared
      BY <2>0, <3>2 DEF Row
    <3> QED
      BY <3>2, <3>3, <3>4 DEF DocumentTrigger, Of
  <2>2. ASSUME NEW u \in User, NEW e \in Document, NEW r \in Document \union {None},
               Withdraw(u, e, r)
        PROVE  WithdrawalTrigger(d, document'[d])
    <3>1. e = d
      BY <1>1, <2>0, <2>2 DEF Withdraw
    <3>2. /\ document'[d] = [document[d] EXCEPT !.withdrawn = TRUE, !.replacement = r]
          /\ ~document[d].withdrawn /\ (r = None \/ Corrects(r, d))
      BY <2>0, <2>2, <3>1 DEF Withdraw, MayWithdraw
    <3>3. document'[d].replacement = r
      BY <2>0, <3>2 DEF Row
    <3> QED
      BY <3>2, <3>3 DEF WithdrawalTrigger, Corrects, Of
  <2>3. ASSUME NEW u \in User, NEW a \in Activity, NEW e \in Document, StoreUpload(u, a, e)
        PROVE  FALSE
    BY <1>1, <2>0, <2>3 DEF StoreUpload
  <2>4. ASSUME \/ UNCHANGED vars
               \/ \E u \in User : ChangeRole(u) \/ \E a \in Activity : Look(u, a)
               \/ \E a \in Activity : Approve(a) \/ EndActivity(a)
        PROVE  FALSE
    BY <1>1, <2>4 DEF vars, ChangeRole, Look, Approve, EndActivity, SetActivity
  <2> QED
    BY <1>1, <2>1, <2>2, <2>3, <2>4 DEF Next
<1>2. DocInv /\ [Next]_vars => [\A d \in Stored : document'[d] # document[d] => Accepted(d)]_vars
  BY <1>1
<1> QED
  BY <1>2, DocumentsInvariant, PTL DEF Spec, TriggersAccept

-----------------------------------------------------------------------------
\* allowed_actions is computed row by row and knows nothing of expected_version; the
\* commands accept what it offers from whoever still holds the version he read. Sharing
\* needs the rows typed: a row shared or not is one of the two.
LEMMA OfferedToWithdraw ==
  ASSUME NEW u \in User, NEW d \in Stored, "withdraw" \in Advertised(u, d)
  PROVE  MayWithdraw(u, d)
BY DEF Advertised, MayWithdraw, Of

LEMMA OfferedToShare ==
  ASSUME TypeOK, NEW u \in User, NEW d \in Stored, seen[u][d] = document[d].version
  PROVE  /\ "share" \in Advertised(u, d) => MaySetShared(u, d, TRUE)
         /\ "unshare" \in Advertised(u, d) => MaySetShared(u, d, FALSE)
<1>1. document[d].shared \in BOOLEAN
  BY DEF TypeOK, Stored, Row
<1>2. ASSUME "share" \in Advertised(u, d)
      PROVE  MaySetShared(u, d, TRUE)
  <2>1. /\ role[u] = "VALIDATEUR_DEFINITIF" /\ ~document[d].shared
        /\ Eligible(Of(d)) /\ ~document[d].withdrawn
    BY <1>2 DEF Advertised, Of
  <2> QED
    BY <2>1 DEF MaySetShared
<1>3. ASSUME "unshare" \in Advertised(u, d)
      PROVE  MaySetShared(u, d, FALSE)
  <2>1. role[u] = "VALIDATEUR_DEFINITIF" /\ document[d].shared
    BY <1>3 DEF Advertised
  <2> QED
    BY <2>1 DEF MaySetShared
<1> QED
  BY <1>2, <1>3

\* Every action the listing offers is accepted from whoever has just read it, for any
\* number of Activities, documents and users.
THEOREM OffersAreAccepted == Spec => []AdvertisedAreAccepted
<1>1. DocInv => AdvertisedAreAccepted
  BY OfferedToWithdraw, OfferedToShare DEF DocInv, Typed, AdvertisedAreAccepted
<1> QED
  BY <1>1, DocumentsInvariant, PTL
=============================================================================
