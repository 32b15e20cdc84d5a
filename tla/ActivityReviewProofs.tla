------------------------- MODULE ActivityReviewProofs -------------------------
(***************************************************************************)
(* Theorems about ActivityReview for every set of accounts, Operations,    *)
(* years and plans and for every bound.                                    *)
(***************************************************************************)
EXTENDS ActivityReview, FiniteSetTheorems, TLAPS

-----------------------------------------------------------------------------
(* Types. *)

(* The placeholder plan exists because years, totals and texts do. *)
LEMMA NoPlanType == NoPlan \in Plan
<1>1. PICK y \in Year, t \in Total, x \in Text : TRUE
  BY DataAssumption
<1>2. [ops |-> {}, total |-> t, text |-> x, start |-> y] \in Plan
  BY <1>1 DEF Plan
<1>3. \E p \in Plan : p.ops = {}
  BY <1>2
<1> QED
  BY <1>3 DEF NoPlan

(* A snapshot of well-typed content by an account is a revision. *)
LEMMA SnapshotType ==
  ASSUME TypeOK, NEW u \in User, NEW kind \in Kind, NEW request \in Nat,
         NEW p \in Plan, NEW year \in Year
  PROVE  Snapshot(u, kind, request, p, year) \in Revision
BY DEF TypeOK, Snapshot, Revision

(* Entering review appends one revision and keeps everything typed. *)
LEMMA EnterReviewType ==
  ASSUME TypeOK, NEW u \in User, NEW revision \in Revision,
         EnterReview(u, revision),
         amendment' \in Nat, withdrawal' \in Nat, transfer' \in Nat
  PROVE  TypeOK'
<1>1. /\ revisions' \in Seq(Revision)
      /\ Len(revisions') = Len(revisions) + 1
  BY DEF TypeOK, EnterReview
<1>2. current' \in 0..Len(revisions') /\ approved' \in 0..Len(revisions')
  BY <1>1 DEF TypeOK, EnterReview, NextRevision
<1>3. status' \in Status /\ version' \in Nat /\ contributors' \subseteq User
  BY DEF TypeOK, EnterReview, Status
<1> QED
  BY <1>1, <1>2, <1>3
  DEF TypeOK, EnterReview, directory, content, execution

(* A recorded decision is a row about the current revision. *)
LEMMA RecordType ==
  ASSUME TypeOK, NEW u \in User, NEW stage \in {"supervisor", "validator"},
         NEW outcome \in {"prevalidated", "returned", "approved"},
         NEW requested \in BOOLEAN, Record(u, stage, outcome, requested)
  PROVE  /\ decisions' \subseteq Decision
         /\ version' \in Nat
         /\ revisions' = revisions
         /\ contributors' = contributors /\ known' = known
         /\ started' = started /\ settlement' = settlement
         /\ projectActive' = projectActive /\ fixture' = fixture
         /\ role' = role /\ userVersion' = userVersion
BY DEF TypeOK, Record, Decision, directory

LEMMA PlanningType ==
  ASSUME TypeOK, NEW u \in User, Planning(u)
  PROVE  TypeOK'
<1>1. CASE \E p \in Plan : CreateActivity(u, p) \/ ReplaceActivity(u, p)
  <2>1. PICK p \in Plan : CreateActivity(u, p) \/ ReplaceActivity(u, p)
    BY <1>1
  <2>2. p.ops \subseteq Operation /\ p.start \in Year
    BY DEF Plan
  <2>3. CASE CreateActivity(u, p)
    BY <2>2, <2>3 DEF TypeOK, CreateActivity, directory, pointers, execution,
       Status
  <2>4. CASE ReplaceActivity(u, p)
    BY <2>2, <2>4 DEF TypeOK, ReplaceActivity, ContributorsAfterEdit,
       directory, pointers, execution
  <2> QED
    BY <2>1, <2>3, <2>4
<1>2. CASE SubmitActivity(u)
  <2> DEFINE kind == IF amendment # 0 THEN "amendment" ELSE "plan"
  <2>1. Snapshot(u, kind, amendment, plan, placement) \in Revision
    BY SnapshotType DEF TypeOK, Kind
  <2> QED
    BY <1>2, <2>1, EnterReviewType DEF TypeOK, SubmitActivity
<1>3. CASE OpenAmendment(u)
  BY <1>3 DEF TypeOK, OpenAmendment, directory, content, evidence, execution,
     Status
<1>4. CASE CancelAmendment(u)
  <2>1. revisions[approved] \in Revision
    BY <1>4 DEF TypeOK, CancelAmendment, MayCancelAmendment
  <2>2. revisions[approved].plan \in Plan
    BY <2>1 DEF Revision
  <2> QED
    BY <1>4, <2>2 DEF TypeOK, CancelAmendment, RestoredPlan,
       CurrentAfterCancel, directory, evidence, execution, Status
<1>5. CASE RequestWithdrawal(u)
  <2> DEFINE id == IF withdrawal # 0 THEN withdrawal ELSE version
  <2>1. id \in Nat
    BY DEF TypeOK
  <2>2. Snapshot(u, "withdrawal", id, plan, placement) \in Revision
    BY <2>1, SnapshotType DEF TypeOK, Kind
  <2> QED
    BY <1>5, <2>1, <2>2, EnterReviewType DEF TypeOK, RequestWithdrawal
<1>6. CASE CancelWithdrawal(u)
  BY <1>6 DEF TypeOK, CancelWithdrawal, CurrentAfterCancel, directory,
     content, evidence, execution, Status
<1>7. CASE \E y \in Year : RequestTransfer(u, y)
  <2>1. PICK y \in Year : RequestTransfer(u, y)
    BY <1>7
  <2> DEFINE id == IF transfer # 0 THEN transfer ELSE version
  <2>2. id \in Nat /\ [plan EXCEPT !.start = y] \in Plan
    BY DEF TypeOK, Plan
  <2>3. Snapshot(u, "transfer", id, [plan EXCEPT !.start = y], y) \in Revision
    BY <2>2, SnapshotType DEF Kind
  <2> QED
    BY <2>1, <2>2, <2>3, EnterReviewType DEF TypeOK, RequestTransfer
<1>8. CASE CancelTransfer(u)
  BY <1>8 DEF TypeOK, CancelTransfer, CurrentAfterCancel, directory,
     content, evidence, execution, Status
<1> QED
  BY <1>1, <1>2, <1>3, <1>4, <1>5, <1>6, <1>7, <1>8 DEF Planning

LEMMA ReviewingType ==
  ASSUME TypeOK, NEW u \in User, Reviewing(u)
  PROVE  TypeOK'
<1>1. CASE Prevalidate(u)
  BY <1>1, RecordType DEF TypeOK, Prevalidate, pointers, Status
<1>2. CASE ReturnBySupervisor(u)
  BY <1>2, RecordType DEF TypeOK, ReturnBySupervisor, pointers, Status
<1>3. CASE \E requested \in BOOLEAN : ReturnByValidator(u, requested)
  BY <1>3, RecordType DEF TypeOK, ReturnByValidator, pointers, Status
<1>4. CASE ApprovePlan(u)
  BY <1>4, RecordType DEF TypeOK, ApprovePlan, Status
<1>5. CASE ApproveWithdrawal(u)
  BY <1>5, RecordType DEF TypeOK, ApproveWithdrawal, AssignmentsAfterEnd,
     pointers, Status
<1>6. CASE ApproveTransfer(u)
  <2>1. revisions[current] \in Revision
    BY <1>6 DEF TypeOK, ApproveTransfer, MayDecideFinally, Reviewable
  <2>2. /\ revisions[current].year \in Year
        /\ [plan EXCEPT !.start = TransferredStart] \in Plan
    BY <2>1 DEF TypeOK, Revision, Plan, TransferredStart
  <2> QED
    BY <1>6, <2>2, RecordType DEF TypeOK, ApproveTransfer, Status
<1>7. CASE \E agents \in SUBSET User : AssignAgents(u, agents)
  BY <1>7 DEF TypeOK, AssignAgents, directory, pointers, content, evidence,
     execution
<1> QED
  BY <1>1, <1>2, <1>3, <1>4, <1>5, <1>6, <1>7 DEF Reviewing

LEMMA ExecutingType ==
  ASSUME TypeOK, NEW u \in User, Executing(u)
  PROVE  TypeOK'
<1>1. CASE \E o \in Operation : StartOperation(u, o)
  BY <1>1 DEF TypeOK, StartOperation, directory, pointers, content, evidence
<1>2. CASE SubmitSettlement(u) \/ ApproveSettlement(u) \/ EndSettlement(u)
  BY <1>2 DEF TypeOK, SubmitSettlement, ApproveSettlement, EndSettlement,
     Settle, directory, pointers, content, evidence
<1>3. CASE CloseActivity(u)
  BY <1>3 DEF TypeOK, CloseActivity, AssignmentsAfterEnd, directory, pointers,
     content, evidence, execution, Status
<1> QED
  BY <1>1, <1>2, <1>3 DEF Executing

LEMMA AccountType ==
  ASSUME TypeOK, NEW u \in User, NEW r \in Authority, ChangeAccount(u, r)
  PROVE  TypeOK'
BY DEF TypeOK, ChangeAccount, pointers, content, evidence, execution

LEMMA StepType ==
  ASSUME TypeOK, [Next]_vars
  PROVE  TypeOK'
<1>1. CASE \E u \in User : Planning(u) \/ Reviewing(u) \/ Executing(u)
  BY <1>1, PlanningType, ReviewingType, ExecutingType
<1>2. CASE \E u \in User : CloseProject(u)
  BY <1>2 DEF TypeOK, CloseProject, directory, pointers, content, evidence,
     execution
<1>3. CASE \E u \in User : Deactivate(u)
  BY <1>3, AccountType DEF Deactivate, Authority
<1>4. CASE \E u \in User, r \in Role : ChangeRole(u, r)
  BY <1>4, AccountType DEF ChangeRole, Authority
<1>5. CASE ChangePolicy
  BY <1>5 DEF TypeOK, ChangePolicy, directory, pointers, content, evidence,
     execution
<1>6. CASE UNCHANGED vars
  BY <1>6 DEF TypeOK, vars, directory, pointers, content, evidence, execution
<1> QED
  BY <1>1, <1>2, <1>3, <1>4, <1>5, <1>6 DEF Next

LEMMA InitType == Init => TypeOK
<1> SUFFICES ASSUME Init PROVE TypeOK
  OBVIOUS
<1>1. role \in [User -> Authority]
  BY RolesAssumption DEF Init, Authority
<1>2. plan \in Plan /\ placement \in Year
  BY NoPlanType DEF Init, Plan
<1> QED
  BY <1>1, <1>2 DEF Init, TypeOK, Status

(* Every reachable row has the type the models declare; in particular the
   two revision pointers always name submitted revisions. *)
THEOREM TypeCorrect == Spec => []TypeOK
BY InitType, StepType, PTL DEF Spec

-----------------------------------------------------------------------------
(* Assignments. *)

(* An assignment outlives every change of role: whoever holds one is still an
   active Agent, because an account with a responsibility keeps its role. *)
LEMMA StepAssigned ==
  ASSUME TypeOK, AssignedAreAgents, [Next]_vars
  PROVE  AssignedAreAgents'
<1>1. ASSUME NEW u \in User, Planning(u)
      PROVE  role' = role /\ assigned' = assigned
  BY <1>1 DEF Planning, CreateActivity, ReplaceActivity, SubmitActivity,
     OpenAmendment, CancelAmendment, RequestWithdrawal, CancelWithdrawal,
     RequestTransfer, CancelTransfer, EnterReview, directory
<1>2. ASSUME NEW u \in User, Reviewing(u)
      PROVE  AssignedAreAgents'
  <2>1. CASE \E agents \in SUBSET User : AssignAgents(u, agents)
    BY <2>1 DEF AssignAgents, AssignedAreAgents, Agent, directory
  <2>2. CASE ApproveWithdrawal(u)
    BY <2>2 DEF ApproveWithdrawal, AssignmentsAfterEnd, AssignedAreAgents
  <2>3. CASE \/ Prevalidate(u) \/ ReturnBySupervisor(u)
             \/ \E requested \in BOOLEAN : ReturnByValidator(u, requested)
             \/ ApprovePlan(u) \/ ApproveTransfer(u)
    BY <2>3 DEF Prevalidate, ReturnBySupervisor, ReturnByValidator,
       ApprovePlan, ApproveTransfer, Record, directory, AssignedAreAgents,
       Agent
  <2> QED
    BY <1>2, <2>1, <2>2, <2>3 DEF Reviewing
<1>3. ASSUME NEW u \in User, Executing(u)
      PROVE  role' = role /\ assigned' \subseteq assigned
  BY <1>3 DEF Executing, StartOperation, SubmitSettlement, ApproveSettlement,
     EndSettlement, Settle, CloseActivity, AssignmentsAfterEnd, directory
<1>4. ASSUME NEW u \in User, NEW r \in Authority, ChangeAccount(u, r)
      PROVE  AssignedAreAgents'
  <2>1. assigned' = assigned /\ u \notin assigned
    BY <1>4 DEF ChangeAccount, WithoutResponsibility
  <2>2. \A a \in assigned : role'[a] = role[a]
    BY <1>4, <2>1 DEF ChangeAccount, TypeOK
  <2> QED
    BY <2>1, <2>2 DEF AssignedAreAgents, Agent
<1>5. CASE \E u \in User : CloseProject(u)
  BY <1>5 DEF CloseProject, directory, AssignedAreAgents, Agent
<1>6. CASE UNCHANGED vars \/ ChangePolicy
  BY <1>6 DEF vars, ChangePolicy, directory, AssignedAreAgents, Agent
<1>7. CASE \E u \in User : Planning(u) \/ Executing(u)
  BY <1>1, <1>3, <1>7 DEF AssignedAreAgents, Agent
<1>8. CASE \/ \E u \in User : Deactivate(u)
           \/ \E u \in User, r \in Role : ChangeRole(u, r)
  BY <1>4, <1>8 DEF Deactivate, ChangeRole, Authority
<1> QED
  BY <1>2, <1>5, <1>6, <1>7, <1>8 DEF Next

(* replace_assignments accepts active Agents only and lifecycle_eligible
   refuses to change an assigned account: together they keep every current
   assignment with an active Agent. *)
THEOREM AssignmentsHeldByAgents == Spec => []AssignedAreAgents
<1>1. Init => AssignedAreAgents
  BY DEF Init, AssignedAreAgents
<1> QED
  BY <1>1, TypeCorrect, StepAssigned, PTL DEF Spec

-----------------------------------------------------------------------------
(* Separation of duties. *)

(* Why a decision taken once stays independent: the contributors of every
   revision are among those of the Activity, which only grow and from which
   the decider was absent; and a decision is about a submitted revision. *)
ContributorsAccumulate ==
    \A r \in 1..Len(revisions) :
        /\ revisions[r].submitter \in revisions[r].contributors
        /\ revisions[r].contributors \subseteq contributors
DecisionsOnRecord == \A d \in decisions : d.revision \in 1..Len(revisions)
DutiesInv == ContributorsAccumulate /\ DecisionsOnRecord /\ SeparationOfDuties

(* No new decision: more contributors do not disturb the invariant. *)
LEMMA DutiesKept ==
  ASSUME TypeOK, DutiesInv, revisions' = revisions, decisions' = decisions,
         contributors \subseteq contributors'
  PROVE  DutiesInv'
<1>1. ContributorsAccumulate'
  BY DEF DutiesInv, ContributorsAccumulate
<1>2. DecisionsOnRecord'
  BY DEF DutiesInv, DecisionsOnRecord
<1>3. SeparationOfDuties'
  BY DEF DutiesInv, SeparationOfDuties
<1> QED
  BY <1>1, <1>2, <1>3 DEF DutiesInv

(* A new revision names its submitter and all the contributors, and no
   decision is about it yet. *)
LEMMA DutiesEnterReview ==
  ASSUME TypeOK, DutiesInv, NEW u \in User, NEW kind \in Kind,
         NEW request \in Nat, NEW p \in Plan, NEW year \in Year,
         EnterReview(u, Snapshot(u, kind, request, p, year))
  PROVE  DutiesInv'
<1> DEFINE new == Snapshot(u, kind, request, p, year)
           n == Len(revisions)
<1>1. new.submitter \in new.contributors /\ new.contributors = contributors'
  BY DEF Snapshot, EnterReview
<1>2. /\ n \in Nat /\ Len(revisions') = n + 1
      /\ revisions'[n + 1] = new
      /\ \A r \in 1..n : revisions'[r] = revisions[r]
  BY SnapshotType DEF TypeOK, EnterReview
<1>3. contributors \subseteq contributors' /\ decisions' = decisions
  BY DEF EnterReview
<1>4. ContributorsAccumulate'
  <2> SUFFICES ASSUME NEW r \in 1..(n + 1)
               PROVE  /\ revisions'[r].submitter \in revisions'[r].contributors
                      /\ revisions'[r].contributors \subseteq contributors'
    BY <1>2 DEF ContributorsAccumulate
  <2>1. CASE r = n + 1
    BY <1>1, <1>2, <2>1
  <2>2. CASE r \in 1..n
    BY <1>2, <1>3, <2>2 DEF DutiesInv, ContributorsAccumulate
  <2> QED
    BY <1>2, <2>1, <2>2
<1>5. DecisionsOnRecord'
  BY <1>2, <1>3 DEF DutiesInv, DecisionsOnRecord
<1>6. SeparationOfDuties'
  <2>1. ASSUME NEW d \in decisions, NEW r \in 1..(n + 1), r <= d.revision
        PROVE  /\ d.actor \notin revisions'[r].contributors
               /\ d.actor # revisions'[r].submitter
    <3>1. d.revision \in 1..n
      BY DEF DutiesInv, DecisionsOnRecord
    <3>2. r \in 1..n
      BY <1>2, <2>1, <3>1
    <3> QED
      BY <1>2, <2>1, <3>2 DEF DutiesInv, SeparationOfDuties
  <2> QED
    BY <1>2, <1>3, <2>1 DEF DutiesInv, SeparationOfDuties
<1> QED
  BY <1>4, <1>5, <1>6 DEF DutiesInv

(* A decision by somebody who never contributed, and, at the last stage, on a
   revision that somebody else prevalidated. *)
LEMMA DutiesRecord ==
  ASSUME TypeOK, DutiesInv, NEW u \in User, u \notin contributors,
         current # 0, NEW stage \in {"supervisor", "validator"},
         stage = "validator" => PrevalidatedByAnother(u),
         NEW outcome, NEW requested, Record(u, stage, outcome, requested)
  PROVE  DutiesInv'
<1> DEFINE new == [revision |-> current, stage |-> stage, outcome |-> outcome,
                   actor |-> u, requested |-> requested]
<1>1. /\ decisions' = decisions \cup {new}
      /\ revisions' = revisions /\ contributors' = contributors
  BY DEF Record
<1>2. current \in 1..Len(revisions)
  BY DEF TypeOK
<1>3. ContributorsAccumulate'
  BY <1>1 DEF DutiesInv, ContributorsAccumulate
<1>4. DecisionsOnRecord'
  BY <1>1, <1>2 DEF DutiesInv, DecisionsOnRecord
<1>5. \A r \in 1..Len(revisions) : /\ u \notin revisions[r].contributors
                                   /\ u # revisions[r].submitter
  BY DEF DutiesInv, ContributorsAccumulate
<1>6. \A d \in decisions', r \in 1..Len(revisions') :
         r <= d.revision => /\ d.actor \notin revisions'[r].contributors
                            /\ d.actor # revisions'[r].submitter
  BY <1>1, <1>5 DEF DutiesInv, SeparationOfDuties
<1>7. ASSUME NEW d \in decisions', d.stage = "validator"
      PROVE  \E s \in decisions' : /\ s.revision = d.revision
                                   /\ s.stage = "supervisor"
                                   /\ s.outcome = "prevalidated"
                                   /\ s.actor # d.actor
  <2>1. CASE d = new
    BY <1>1, <1>7, <2>1 DEF PrevalidatedByAnother, Decided
  <2>2. CASE d \in decisions
    BY <1>1, <1>7, <2>2 DEF DutiesInv, SeparationOfDuties
  <2> QED
    BY <1>1, <2>1, <2>2
<1>8. SeparationOfDuties'
  BY <1>6, <1>7 DEF SeparationOfDuties
<1> QED
  BY <1>3, <1>4, <1>8 DEF DutiesInv

(* Before its creation an Activity has no contributors, no version and no
   financial request. *)
NothingYet ==
    status = "none" =>
        contributors = {} /\ version = 0 /\ settlement = "none"

LEMMA StepNothingYet ==
  ASSUME NothingYet, [Next]_vars
  PROVE  NothingYet'
<1>1. ASSUME NEW u \in User, Planning(u)
      PROVE  status' # "none"
  <2>1. CASE \E p \in Plan : CreateActivity(u, p) \/ ReplaceActivity(u, p)
    BY <2>1 DEF CreateActivity, ReplaceActivity, MayEdit, Editable
  <2>2. CASE SubmitActivity(u) \/ OpenAmendment(u) \/ CancelAmendment(u)
    BY <2>2 DEF SubmitActivity, EnterReview, OpenAmendment, CancelAmendment
  <2>3. CASE \/ RequestWithdrawal(u) \/ CancelWithdrawal(u)
             \/ \E y \in Year : RequestTransfer(u, y)
             \/ CancelTransfer(u)
    BY <2>3 DEF RequestWithdrawal, CancelWithdrawal, RequestTransfer,
       CancelTransfer, EnterReview
  <2> QED
    BY <1>1, <2>1, <2>2, <2>3 DEF Planning
<1>2. ASSUME NEW u \in User, Reviewing(u)
      PROVE  status' # "none"
  BY <1>2 DEF Reviewing, Prevalidate, ReturnBySupervisor, ReturnByValidator,
     ApprovePlan, ApproveWithdrawal, ApproveTransfer, AssignAgents
<1>3. ASSUME NEW u \in User, Executing(u)
      PROVE  status' # "none"
  BY <1>3 DEF Executing, StartOperation, SubmitSettlement, ApproveSettlement,
     EndSettlement, Settle, CloseActivity, Running,
     NothingYet
<1>4. ASSUME NEW u \in User, NEW r, ChangeAccount(u, r) \/ CloseProject(u)
      PROVE  UNCHANGED <<status, contributors, version, settlement>>
  BY <1>4 DEF ChangeAccount, CloseProject, evidence, execution
<1>5. CASE UNCHANGED vars \/ ChangePolicy
  BY <1>5 DEF vars, ChangePolicy, evidence, execution, NothingYet
<1> QED
  BY <1>1, <1>2, <1>3, <1>4, <1>5
  DEF Next, Deactivate, ChangeRole, NothingYet

LEMMA StepDuties ==
  ASSUME TypeOK, NothingYet, DutiesInv, [Next]_vars
  PROVE  DutiesInv'
<1>1. ASSUME NEW u \in User, Planning(u)
      PROVE  DutiesInv'
  <2>1. CASE \E p \in Plan : CreateActivity(u, p)
    BY <2>1, DutiesKept DEF CreateActivity, MayCreate, NothingYet
  <2>2. CASE \E p \in Plan : ReplaceActivity(u, p)
    BY <2>2, DutiesKept DEF ReplaceActivity, ContributorsAfterEdit
  <2>3. CASE SubmitActivity(u)
    <3> DEFINE kind == IF amendment # 0 THEN "amendment" ELSE "plan"
    <3>1. EnterReview(u, Snapshot(u, kind, amendment, plan, placement))
      BY <2>3 DEF SubmitActivity
    <3> QED
      BY <3>1, DutiesEnterReview DEF TypeOK, Kind
  <2>4. CASE RequestWithdrawal(u)
    <3> DEFINE id == IF withdrawal # 0 THEN withdrawal ELSE version
    <3>1. EnterReview(u, Snapshot(u, "withdrawal", id, plan, placement))
      BY <2>4 DEF RequestWithdrawal
    <3>2. id \in Nat
      BY DEF TypeOK
    <3> QED
      BY <3>1, <3>2, DutiesEnterReview DEF TypeOK, Kind
  <2>5. CASE \E y \in Year : RequestTransfer(u, y)
    <3>1. PICK y \in Year : RequestTransfer(u, y)
      BY <2>5
    <3> DEFINE id == IF transfer # 0 THEN transfer ELSE version
    <3>2. EnterReview(u, Snapshot(u, "transfer", id,
                                  [plan EXCEPT !.start = y], y))
      BY <3>1 DEF RequestTransfer
    <3>3. id \in Nat /\ [plan EXCEPT !.start = y] \in Plan
      BY DEF TypeOK, Plan
    <3> QED
      BY <3>2, <3>3, DutiesEnterReview DEF Kind
  <2>6. CASE \/ OpenAmendment(u) \/ CancelAmendment(u)
             \/ CancelWithdrawal(u) \/ CancelTransfer(u)
    BY <2>6, DutiesKept DEF OpenAmendment, CancelAmendment, CancelWithdrawal,
       CancelTransfer, evidence
  <2> QED
    BY <1>1, <2>1, <2>2, <2>3, <2>4, <2>5, <2>6 DEF Planning
<1>2. ASSUME NEW u \in User, Reviewing(u)
      PROVE  DutiesInv'
  <2>1. CASE Prevalidate(u) \/ ReturnBySupervisor(u)
    <3>1. u \notin contributors /\ current # 0
      BY <2>1 DEF Prevalidate, ReturnBySupervisor, MayPrevalidate, Reviewable,
         Independent
    <3>2. \E outcome : Record(u, "supervisor", outcome, FALSE)
      BY <2>1 DEF Prevalidate, ReturnBySupervisor
    <3> QED
      BY <3>1, <3>2, DutiesRecord
  <2>2. CASE \/ \E requested \in BOOLEAN : ReturnByValidator(u, requested)
             \/ ApprovePlan(u) \/ ApproveWithdrawal(u) \/ ApproveTransfer(u)
    <3>1. MayDecideFinally(u)
      BY <2>2 DEF ReturnByValidator, ApprovePlan, ApproveWithdrawal,
         ApproveTransfer
    <3>2. u \notin contributors /\ current # 0 /\ PrevalidatedByAnother(u)
      BY <3>1 DEF MayDecideFinally, Reviewable, Independent
    <3>3. \E outcome, requested : Record(u, "validator", outcome, requested)
      BY <2>2 DEF ReturnByValidator, ApprovePlan, ApproveWithdrawal,
         ApproveTransfer
    <3> QED
      BY <3>2, <3>3, DutiesRecord
  <2>3. CASE \E agents \in SUBSET User : AssignAgents(u, agents)
    BY <2>3, DutiesKept DEF AssignAgents, evidence
  <2> QED
    BY <1>2, <2>1, <2>2, <2>3 DEF Reviewing
<1>3. ASSUME NEW u \in User, Executing(u)
      PROVE  UNCHANGED evidence
  BY <1>3 DEF Executing, StartOperation, SubmitSettlement, ApproveSettlement,
     EndSettlement, Settle, CloseActivity, evidence
<1>4. ASSUME NEW u \in User, NEW r, ChangeAccount(u, r) \/ CloseProject(u)
      PROVE  UNCHANGED evidence
  BY <1>4 DEF ChangeAccount, CloseProject, evidence
<1>5. CASE UNCHANGED evidence
  BY <1>5, DutiesKept DEF evidence
<1>6. UNCHANGED vars \/ ChangePolicy => UNCHANGED evidence
  BY DEF vars, ChangePolicy, evidence
<1> QED
  BY <1>1, <1>2, <1>3, <1>4, <1>5, <1>6 DEF Next, Deactivate, ChangeRole

(* Nobody ever decides on a revision that carries a change of theirs, or on
   their own submission, and no final decision is the prevalidator's own:
   whatever the roles become between the steps. *)
THEOREM DutiesSeparated == Spec => []SeparationOfDuties
<1>1. Init => NothingYet /\ DutiesInv
  BY DEF Init, NothingYet, DutiesInv, ContributorsAccumulate,
     DecisionsOnRecord, SeparationOfDuties
<1>2. DutiesInv => SeparationOfDuties
  BY DEF DutiesInv
<1> QED
  BY <1>1, <1>2, TypeCorrect, StepNothingYet, StepDuties, PTL DEF Spec

-----------------------------------------------------------------------------
(* The approved baseline. *)

(* A revision under review, or returned for correction, is newer than the
   approved one, was built on it, and a transfer goes to a later year. *)
CandidateOnBaseline ==
    status \in UnderReview \cup Returned =>
        /\ current > approved
        /\ revisions[current].base = approved
        /\ revisions[current].kind = "transfer" =>
               revisions[current].year > placement

(* A new candidate is the newest revision and is built on the baseline. *)
LEMMA CandidateEnterReview ==
  ASSUME TypeOK, NEW u \in User, NEW kind \in Kind, NEW request \in Nat,
         NEW p \in Plan, NEW year \in Year,
         kind = "transfer" => year > placement,
         EnterReview(u, Snapshot(u, kind, request, p, year))
  PROVE  CandidateOnBaseline'
<1> DEFINE new == Snapshot(u, kind, request, p, year)
<1>1. /\ current' = Len(revisions) + 1 /\ current' > approved
      /\ revisions'[current'] = new
  BY SnapshotType DEF TypeOK, EnterReview, NextRevision
<1>2. approved' = approved /\ placement' = placement
  BY DEF EnterReview, content
<1>3. new.base = approved /\ new.kind = kind /\ new.year = year
  BY DEF Snapshot
<1> QED
  BY <1>1, <1>2, <1>3 DEF CandidateOnBaseline

LEMMA StepCandidate ==
  ASSUME TypeOK, CandidateOnBaseline, [Next]_vars
  PROVE  CandidateOnBaseline'
<1> DEFINE idle == status' \notin UnderReview \cup Returned
           same == /\ revisions' = revisions /\ current' = current
                   /\ approved' = approved /\ placement' = placement
                   /\ \/ status' = status
                      \/ status \in UnderReview
<1>1. same => CandidateOnBaseline'
  BY DEF CandidateOnBaseline
<1>2. idle => CandidateOnBaseline'
  BY DEF CandidateOnBaseline
<1>3. ASSUME NEW u \in User, Planning(u)
      PROVE  CandidateOnBaseline'
  <2>1. CASE \E p \in Plan : CreateActivity(u, p)
    BY <2>1, <1>2 DEF CreateActivity, UnderReview, Returned
  <2>2. CASE \E p \in Plan : ReplaceActivity(u, p)
    BY <2>2, <1>1 DEF ReplaceActivity, pointers
  <2>3. CASE SubmitActivity(u)
    <3> DEFINE kind == IF amendment # 0 THEN "amendment" ELSE "plan"
    <3>1. EnterReview(u, Snapshot(u, kind, amendment, plan, placement))
      BY <2>3 DEF SubmitActivity
    <3> QED
      BY <3>1, CandidateEnterReview DEF TypeOK, Kind
  <2>4. CASE RequestWithdrawal(u)
    <3> DEFINE id == IF withdrawal # 0 THEN withdrawal ELSE version
    <3>1. EnterReview(u, Snapshot(u, "withdrawal", id, plan, placement))
      BY <2>4 DEF RequestWithdrawal
    <3>2. id \in Nat
      BY DEF TypeOK
    <3> QED
      BY <3>1, <3>2, CandidateEnterReview DEF TypeOK, Kind
  <2>5. CASE \E y \in Year : RequestTransfer(u, y)
    <3>1. PICK y \in Year : RequestTransfer(u, y)
      BY <2>5
    <3> DEFINE id == IF transfer # 0 THEN transfer ELSE version
    <3>2. y > placement
          /\ EnterReview(u, Snapshot(u, "transfer", id,
                                     [plan EXCEPT !.start = y], y))
      BY <3>1 DEF RequestTransfer, LaterYear
    <3>3. id \in Nat /\ [plan EXCEPT !.start = y] \in Plan
      BY DEF TypeOK, Plan
    <3> QED
      BY <3>2, <3>3, CandidateEnterReview DEF Kind
  <2>6. CASE \/ OpenAmendment(u) \/ CancelAmendment(u)
             \/ CancelWithdrawal(u) \/ CancelTransfer(u)
    BY <2>6, <1>2 DEF OpenAmendment, CancelAmendment, CancelWithdrawal,
       CancelTransfer, UnderReview, Returned
  <2> QED
    BY <1>3, <2>1, <2>2, <2>3, <2>4, <2>5, <2>6 DEF Planning
<1>4. ASSUME NEW u \in User, Reviewing(u)
      PROVE  CandidateOnBaseline'
  <2>1. CASE \/ Prevalidate(u) \/ ReturnBySupervisor(u)
             \/ \E requested \in BOOLEAN : ReturnByValidator(u, requested)
    BY <2>1, <1>1 DEF Prevalidate, ReturnBySupervisor, ReturnByValidator,
       MayPrevalidate, MayDecideFinally, Record, pointers, UnderReview
  <2>2. CASE ApprovePlan(u) \/ ApproveWithdrawal(u) \/ ApproveTransfer(u)
    BY <2>2, <1>2 DEF ApprovePlan, ApproveWithdrawal, ApproveTransfer,
       UnderReview, Returned
  <2>3. CASE \E agents \in SUBSET User : AssignAgents(u, agents)
    BY <2>3, <1>1 DEF AssignAgents, pointers, content, evidence
  <2> QED
    BY <1>4, <2>1, <2>2, <2>3 DEF Reviewing
<1>5. ASSUME NEW u \in User, Executing(u)
      PROVE  CandidateOnBaseline'
  <2>1. CASE CloseActivity(u)
    BY <2>1, <1>2 DEF CloseActivity, UnderReview, Returned
  <2>2. CASE \/ \E o \in Operation : StartOperation(u, o)
             \/ SubmitSettlement(u) \/ ApproveSettlement(u)
             \/ EndSettlement(u)
    BY <2>2, <1>1 DEF StartOperation, SubmitSettlement, ApproveSettlement,
       EndSettlement, Settle, pointers, content, evidence
  <2> QED
    BY <1>5, <2>1, <2>2 DEF Executing
<1>6. ASSUME NEW u \in User, NEW r, ChangeAccount(u, r) \/ CloseProject(u)
      PROVE  same
  BY <1>6 DEF ChangeAccount, CloseProject, pointers, content, evidence
<1>7. UNCHANGED vars \/ ChangePolicy => same
  BY DEF vars, ChangePolicy, pointers, content, evidence
<1> QED
  BY <1>1, <1>3, <1>4, <1>5, <1>6, <1>7 DEF Next, Deactivate, ChangeRole

(* What a step does to the approved baseline and to the placement. *)
LEMMA BaselineStep ==
  ASSUME TypeOK, CandidateOnBaseline, [Next]_vars
  PROVE  /\ approved' # approved =>
                /\ approved' = current
                /\ revisions[approved'].base = approved
         /\ (status # "none" /\ placement' # placement) =>
                /\ placement' > placement
                /\ approved' # approved
                /\ revisions[approved'].kind = "transfer"
                /\ revisions[approved'].year = placement'
<1> DEFINE same == approved' = approved
                   /\ (status # "none" => placement' = placement)
<1>1. ASSUME NEW u \in User, Planning(u)
      PROVE  same
  BY <1>1 DEF Planning, CreateActivity, MayCreate, ReplaceActivity,
     SubmitActivity, OpenAmendment, CancelAmendment, RequestWithdrawal,
     CancelWithdrawal, RequestTransfer, CancelTransfer, EnterReview, pointers,
     content
<1>2. ASSUME NEW u \in User, NEW requested \in BOOLEAN,
             NEW agents \in SUBSET User,
             \/ Prevalidate(u) \/ ReturnBySupervisor(u)
             \/ ReturnByValidator(u, requested)
             \/ ApproveWithdrawal(u) \/ AssignAgents(u, agents)
      PROVE  same
  BY <1>2 DEF Prevalidate, ReturnBySupervisor, ReturnByValidator,
     ApproveWithdrawal, AssignAgents, pointers, content
<1>3. ASSUME NEW u \in User, MayDecideFinally(u)
      PROVE  /\ current # approved
             /\ revisions[current].base = approved
             /\ revisions[current].kind = "transfer" =>
                    revisions[current].year > placement
  BY <1>3 DEF MayDecideFinally, CandidateOnBaseline, UnderReview, TypeOK
<1>4. ASSUME NEW u \in User, ApprovePlan(u)
      PROVE  /\ approved' = current /\ placement' = placement
             /\ revisions[current].base = approved
  BY <1>3, <1>4 DEF ApprovePlan
<1>5. ASSUME NEW u \in User, ApproveTransfer(u)
      PROVE  /\ approved' = current /\ approved' # approved
             /\ revisions[current].base = approved
             /\ revisions[current].kind = "transfer"
             /\ placement' = revisions[current].year
             /\ placement' > placement
  BY <1>3, <1>5 DEF ApproveTransfer
<1>6. ASSUME NEW u \in User, Executing(u)
      PROVE  same
  BY <1>6 DEF Executing, StartOperation, SubmitSettlement, ApproveSettlement,
     EndSettlement, Settle, CloseActivity, pointers, content
<1>7. ASSUME NEW u \in User, NEW r, ChangeAccount(u, r) \/ CloseProject(u)
      PROVE  same
  BY <1>7 DEF ChangeAccount, CloseProject, pointers, content
<1>8. UNCHANGED vars \/ ChangePolicy => same
  BY DEF vars, ChangePolicy, pointers, content
<1>9. ASSUME NEW u \in User, Reviewing(u)
      PROVE  same \/ ApprovePlan(u) \/ ApproveTransfer(u)
  BY <1>2, <1>9 DEF Reviewing
<1> QED
  BY <1>1, <1>4, <1>5, <1>6, <1>7, <1>8, <1>9
  DEF Next, Deactivate, ChangeRole

LEMMA CandidateInvariant == Spec => []CandidateOnBaseline
<1>1. Init => CandidateOnBaseline
  BY DEF Init, CandidateOnBaseline, UnderReview, Returned
<1> QED
  BY <1>1, TypeCorrect, StepCandidate, PTL DEF Spec

(* No approval overwrites another: the approved revision moves only to the
   revision decided on, and that one was built on the baseline it replaces. *)
THEOREM BaselineSequential == Spec => BaselineMovesInSequence
<1>1. TypeOK /\ CandidateOnBaseline /\ [Next]_vars
      => [approved' # approved =>
              /\ approved' = current
              /\ revisions[approved'].base = approved]_vars
  BY BaselineStep
<1> QED
  BY <1>1, TypeCorrect, CandidateInvariant, PTL
  DEF Spec, BaselineMovesInSequence

(* An Activity changes years only forward, by the approval of a transfer that
   names the year it moves to. *)
THEOREM PlacementForward == Spec => PlacementOnlyByTransfer
<1>1. TypeOK /\ CandidateOnBaseline /\ [Next]_vars
      => [(status # "none" /\ placement' # placement) =>
              /\ placement' > placement
              /\ approved' # approved
              /\ revisions[approved'].kind = "transfer"
              /\ revisions[approved'].year = placement']_vars
  BY BaselineStep
<1> QED
  BY <1>1, TypeCorrect, CandidateInvariant, PTL
  DEF Spec, PlacementOnlyByTransfer

LEMMA NothingYetInvariant == Spec => []NothingYet
<1>1. Init => NothingYet
  BY DEF Init, NothingYet
<1> QED
  BY <1>1, StepNothingYet, PTL DEF Spec

-----------------------------------------------------------------------------
(* The frozen financial basis, and the end of an Activity. *)

(* Every plan that was ever submitted, and the live one, has an Operation. *)
PlansNonempty ==
    /\ \A r \in 1..Len(revisions) : revisions[r].plan.ops # {}
    /\ status # "none" => plan.ops # {}

LEMMA PlansEnterReview ==
  ASSUME TypeOK, PlansNonempty, status # "none", NEW u \in User,
         NEW kind \in Kind, NEW request \in Nat, NEW p \in Plan,
         NEW year \in Year, p.ops = plan.ops,
         EnterReview(u, Snapshot(u, kind, request, p, year))
  PROVE  PlansNonempty'
<1> DEFINE n == Len(revisions)
<1>1. /\ n \in Nat /\ Len(revisions') = n + 1
      /\ revisions'[n + 1].plan = p
      /\ \A r \in 1..n : revisions'[r] = revisions[r]
  BY SnapshotType DEF TypeOK, EnterReview, Snapshot
<1>2. \A r \in 1..(n + 1) : r = n + 1 \/ r \in 1..n
  BY <1>1
<1>3. plan' = plan /\ plan.ops # {}
  BY DEF EnterReview, content, PlansNonempty
<1> QED
  BY <1>1, <1>2, <1>3 DEF PlansNonempty

LEMMA StepPlans ==
  ASSUME TypeOK, PlansNonempty, [Next]_vars
  PROVE  PlansNonempty'
<1> DEFINE same == /\ revisions' = revisions /\ plan' = plan
                   /\ status = "none" => status' = "none"
<1>1. same => PlansNonempty'
  BY DEF PlansNonempty
<1>2. ASSUME NEW u \in User, Planning(u)
      PROVE  PlansNonempty'
  <2>1. CASE \E p \in Plan : CreateActivity(u, p) \/ ReplaceActivity(u, p)
    BY <2>1 DEF CreateActivity, ReplaceActivity, ValidPlan, PlansNonempty
  <2>2. CASE SubmitActivity(u)
    <3> DEFINE kind == IF amendment # 0 THEN "amendment" ELSE "plan"
    <3>1. EnterReview(u, Snapshot(u, kind, amendment, plan, placement))
      BY <2>2 DEF SubmitActivity
    <3>2. status # "none"
      BY <2>2 DEF SubmitActivity, MaySubmit, MayEdit, Editable
    <3> QED
      BY <3>1, <3>2, PlansEnterReview DEF TypeOK, Kind
  <2>3. CASE RequestWithdrawal(u)
    <3> DEFINE id == IF withdrawal # 0 THEN withdrawal ELSE version
    <3>1. EnterReview(u, Snapshot(u, "withdrawal", id, plan, placement))
      BY <2>3 DEF RequestWithdrawal
    <3>2. id \in Nat
      BY DEF TypeOK
    <3>3. status # "none"
      BY <2>3 DEF RequestWithdrawal, MayRequestWithdrawal, Returned
    <3> QED
      BY <3>1, <3>2, <3>3, PlansEnterReview DEF TypeOK, Kind
  <2>4. CASE \E y \in Year : RequestTransfer(u, y)
    <3>1. PICK y \in Year : RequestTransfer(u, y)
      BY <2>4
    <3> DEFINE id == IF transfer # 0 THEN transfer ELSE version
               moved == [plan EXCEPT !.start = y]
    <3>2. EnterReview(u, Snapshot(u, "transfer", id, moved, y))
      BY <3>1 DEF RequestTransfer
    <3>3. id \in Nat /\ moved \in Plan /\ moved.ops = plan.ops
      BY DEF TypeOK, Plan
    <3>4. status # "none"
      BY <3>1 DEF RequestTransfer, MayRequestTransfer, Returned
    <3> HIDE DEF id, moved
    <3> QED
      BY <3>2, <3>3, <3>4, PlansEnterReview DEF Kind
  <2>5. CASE CancelAmendment(u)
    <3>1. approved \in 1..Len(revisions)
      BY <2>5 DEF CancelAmendment, MayCancelAmendment, TypeOK
    <3> QED
      BY <2>5, <3>1 DEF CancelAmendment, RestoredPlan, evidence, PlansNonempty
  <2>6. CASE OpenAmendment(u) \/ CancelWithdrawal(u) \/ CancelTransfer(u)
    BY <2>6, <1>1 DEF OpenAmendment, MayOpenAmendment, CancelWithdrawal,
       MayCancelWithdrawal, CancelTransfer, MayCancelTransfer, UnderReview,
       Returned, content, evidence
  <2> QED
    BY <1>2, <2>1, <2>2, <2>3, <2>4, <2>5, <2>6 DEF Planning
<1>3. ASSUME NEW u \in User, Reviewing(u)
      PROVE  PlansNonempty'
  <2>1. CASE ApproveTransfer(u)
    <3>1. status # "none" /\ plan'.ops = plan.ops /\ revisions' = revisions
      BY <2>1 DEF ApproveTransfer, MayDecideFinally, Record, TypeOK, Plan
    <3> QED
      BY <3>1 DEF PlansNonempty
  <2>2. CASE \/ Prevalidate(u) \/ ReturnBySupervisor(u)
             \/ \E requested \in BOOLEAN : ReturnByValidator(u, requested)
             \/ ApprovePlan(u) \/ ApproveWithdrawal(u)
    BY <2>2, <1>1 DEF Prevalidate, ReturnBySupervisor, ReturnByValidator,
       ApprovePlan, ApproveWithdrawal, MayPrevalidate, MayDecideFinally,
       Record
  <2>3. CASE \E agents \in SUBSET User : AssignAgents(u, agents)
    BY <2>3, <1>1 DEF AssignAgents, content, evidence
  <2> QED
    BY <1>3, <2>1, <2>2, <2>3 DEF Reviewing
<1>4. ASSUME NEW u \in User, Executing(u)
      PROVE  same
  BY <1>4 DEF Executing, StartOperation, SubmitSettlement, ApproveSettlement,
     EndSettlement, Settle, CloseActivity, ClosureChecksPass, Running,
     content, evidence
<1>5. ASSUME NEW u \in User, NEW r, ChangeAccount(u, r) \/ CloseProject(u)
      PROVE  same
  BY <1>5 DEF ChangeAccount, CloseProject, content, evidence
<1>6. UNCHANGED vars \/ ChangePolicy => same
  BY DEF vars, ChangePolicy, content, evidence
<1> QED
  BY <1>1, <1>2, <1>3, <1>4, <1>5, <1>6 DEF Next, Deactivate, ChangeRole

LEMMA PlansInvariant == Spec => []PlansNonempty
<1>1. Init => PlansNonempty
  BY DEF Init, PlansNonempty
<1> QED
  BY <1>1, TypeCorrect, StepPlans, PTL DEF Spec

(* A financial request exists only for an approved or closed Activity that
   has been executed, and a closed Activity has an approved one. *)
SettlementStage ==
    /\ settlement # "none" => status \in {"approved", "closed"} /\ started # {}
    /\ status = "closed" => settlement = "approved"

LEMMA StepSettlement ==
  ASSUME TypeOK, NothingYet, PlansNonempty, SettlementStage, [Next]_vars
  PROVE  SettlementStage'
<1> DEFINE unsettled == settlement = "none" /\ settlement' = "none"
                        /\ status' # "closed"
           same == UNCHANGED <<status, settlement, started>>
<1>1. unsettled => SettlementStage'
  BY DEF SettlementStage
<1>2. same => SettlementStage'
  BY DEF SettlementStage
<1>3. ASSUME NEW u \in User, Planning(u)
      PROVE  SettlementStage'
  <2>1. CASE \E p \in Plan : CreateActivity(u, p)
    BY <2>1, <1>1 DEF CreateActivity, MayCreate, NothingYet, execution
  <2>2. CASE \E p \in Plan : ReplaceActivity(u, p)
    BY <2>2, <1>2 DEF ReplaceActivity, execution
  <2>3. CASE SubmitActivity(u)
    BY <2>3, <1>1 DEF SubmitActivity, MaySubmit, MayEdit, Editable, EnterReview,
       SettlementStage, execution
  <2>4. CASE OpenAmendment(u)
    BY <2>4, <1>1 DEF OpenAmendment, MayOpenAmendment, Unfrozen, execution
  <2>5. CASE RequestWithdrawal(u)
    BY <2>5, <1>1 DEF RequestWithdrawal, MayRequestWithdrawal,
       LifecycleEligible, NeverStarted, SettlementStage, EnterReview,
       execution
  <2>6. CASE \E y \in Year : RequestTransfer(u, y)
    BY <2>6, <1>1 DEF RequestTransfer, MayRequestTransfer, LifecycleEligible,
       NeverStarted, SettlementStage, EnterReview, execution
  <2>7. CASE CancelAmendment(u) \/ CancelWithdrawal(u) \/ CancelTransfer(u)
    BY <2>7, <1>1 DEF CancelAmendment, MayCancelAmendment, CancelWithdrawal,
       MayCancelWithdrawal, CancelTransfer, MayCancelTransfer, UnderReview,
       Returned, SettlementStage, execution
  <2> QED
    BY <1>3, <2>1, <2>2, <2>3, <2>4, <2>5, <2>6, <2>7 DEF Planning
<1>4. ASSUME NEW u \in User, Reviewing(u)
      PROVE  SettlementStage'
  <2>1. CASE \E agents \in SUBSET User : AssignAgents(u, agents)
    BY <2>1, <1>2 DEF AssignAgents, execution
  <2>2. CASE ~\E agents \in SUBSET User : AssignAgents(u, agents)
    <3>1. /\ status \in UnderReview /\ status' # "closed"
          /\ settlement' = settlement
      BY <1>4, <2>2 DEF Reviewing, Prevalidate, ReturnBySupervisor,
         ReturnByValidator, ApprovePlan, ApproveWithdrawal, ApproveTransfer,
         MayPrevalidate, MayDecideFinally, UnderReview, Record
    <3> QED
      BY <3>1, <1>1 DEF SettlementStage, UnderReview
  <2> QED
    BY <2>1, <2>2
<1>5. ASSUME NEW u \in User, Executing(u)
      PROVE  SettlementStage'
  <2>1. CASE \E o \in Operation : StartOperation(u, o)
    BY <2>1, <1>1 DEF StartOperation, Unfrozen, Running
  <2>2. CASE SubmitSettlement(u)
    <3>1. status = "approved" /\ status' = status /\ started' = started
      BY <2>2 DEF SubmitSettlement, Running, Settle
    <3>2. started # {}
      BY <2>2, <3>1 DEF SubmitSettlement, FullyExecuted, PlansNonempty
    <3> QED
      BY <3>1, <3>2 DEF SettlementStage
  <2>3. CASE ApproveSettlement(u) \/ EndSettlement(u)
    BY <2>3 DEF ApproveSettlement, EndSettlement, Settle, SettlementStage
  <2>4. CASE CloseActivity(u)
    BY <2>4 DEF CloseActivity, ClosureChecksPass, SettlementStage, execution
  <2> QED
    BY <1>5, <2>1, <2>2, <2>3, <2>4 DEF Executing
<1>6. ASSUME NEW u \in User, NEW r, ChangeAccount(u, r) \/ CloseProject(u)
      PROVE  same
  BY <1>6 DEF ChangeAccount, CloseProject, execution
<1>7. UNCHANGED vars \/ ChangePolicy => same
  BY DEF vars, ChangePolicy, execution
<1> QED
  BY <1>2, <1>3, <1>4, <1>5, <1>6, <1>7 DEF Next, Deactivate, ChangeRole

LEMMA SettlementInvariant == Spec => []SettlementStage
<1>1. Init => SettlementStage
  BY DEF Init, SettlementStage
<1> QED
  BY <1>1, TypeCorrect, NothingYetInvariant, PlansInvariant, StepSettlement,
     PTL DEF Spec

(* The state of the Activity that its version stands for. *)
Row == <<status, plan, pointers, placement, assigned, contributors, started,
         settlement>>

(* What a step does to the version, and to an Activity that has ended. *)
LEMMA VersionStep ==
  ASSUME TypeOK, NothingYet, SettlementStage, [Next]_vars
  PROVE  /\ Row' # Row => version' > version
         /\ status \in Ended => Row' = Row
<1>1. ASSUME NEW u \in User, Planning(u)
      PROVE  version' > version /\ status \notin Ended
  <2>1. CASE \E p \in Plan : CreateActivity(u, p)
    BY <2>1 DEF CreateActivity, MayCreate, NothingYet, Ended
  <2>2. CASE \E p \in Plan : ReplaceActivity(u, p)
    BY <2>2 DEF ReplaceActivity, MayEdit, Editable, Ended, TypeOK
  <2>3. CASE SubmitActivity(u)
    BY <2>3 DEF SubmitActivity, MaySubmit, MayEdit, Editable, EnterReview, Ended, TypeOK
  <2>4. CASE OpenAmendment(u) \/ CancelAmendment(u)
    BY <2>4 DEF OpenAmendment, MayOpenAmendment, CancelAmendment,
       MayCancelAmendment, UnderReview, Returned, Ended, TypeOK
  <2>5. CASE RequestWithdrawal(u) \/ \E y \in Year : RequestTransfer(u, y)
    <3>1. version' = version + 1
      BY <2>5 DEF RequestWithdrawal, RequestTransfer, EnterReview
    <3>2. status \in {"approved"} \cup Returned
      BY <2>5 DEF RequestWithdrawal, MayRequestWithdrawal, RequestTransfer,
         MayRequestTransfer
    <3> QED
      BY <3>1, <3>2 DEF Returned, Ended, TypeOK
  <2>6. CASE CancelWithdrawal(u) \/ CancelTransfer(u)
    BY <2>6 DEF CancelWithdrawal, MayCancelWithdrawal, CancelTransfer,
       MayCancelTransfer, UnderReview, Returned, Ended, TypeOK
  <2> QED
    BY <1>1, <2>1, <2>2, <2>3, <2>4, <2>5, <2>6 DEF Planning
<1>2. ASSUME NEW u \in User, Reviewing(u)
      PROVE  version' > version /\ status \notin Ended
  BY <1>2 DEF Reviewing, Prevalidate, ReturnBySupervisor, ReturnByValidator,
     ApprovePlan, ApproveWithdrawal, ApproveTransfer, AssignAgents,
     MayPrevalidate, MayDecideFinally, MayAssign, Record, Ended, TypeOK
<1>3. ASSUME NEW u \in User, Executing(u)
      PROVE  version' > version /\ status \notin Ended
  <2>1. version' > version
    BY <1>3 DEF Executing, StartOperation, SubmitSettlement,
       ApproveSettlement, EndSettlement, Settle, CloseActivity, TypeOK
  <2>2. status = "approved"
    BY <1>3 DEF Executing, StartOperation, SubmitSettlement,
       ApproveSettlement, EndSettlement, Settle, CloseActivity,
       ClosureChecksPass, Running, SettlementStage
  <2> QED
    BY <2>1, <2>2 DEF Ended
<1>4. ASSUME NEW u \in User, NEW r, ChangeAccount(u, r) \/ CloseProject(u)
      PROVE  Row' = Row
  BY <1>4 DEF ChangeAccount, CloseProject, pointers, content, evidence,
     execution, Row
<1>5. UNCHANGED vars \/ ChangePolicy => Row' = Row
  BY DEF vars, ChangePolicy, pointers, content, evidence, execution, Row
<1> QED
  BY <1>1, <1>2, <1>3, <1>4, <1>5 DEF Next, Deactivate, ChangeRole

(* No change of the Activity leaves its version behind, and none happens once
   it has ended: a client that holds the current version has seen the current
   state. *)
THEOREM VersionsAreTokens == Spec => VersionTokens
<1>1. TypeOK /\ NothingYet /\ SettlementStage /\ [Next]_vars
      => [/\ Row' # Row => version' > version
          /\ status \in Ended => Row' = Row]_vars
  BY VersionStep
<1> QED
  BY <1>1, TypeCorrect, NothingYetInvariant, SettlementInvariant, PTL
  DEF Spec, VersionTokens, Row

LEMMA StepClosedProject ==
  ASSUME TypeOK, NothingYet, SettlementStage, ClosedProjectIsIdle, [Next]_vars
  PROVE  ClosedProjectIsIdle'
<1>1. status \in Ended => status' = status
  BY VersionStep DEF Row
<1>2. CASE \E u \in User : CloseProject(u)
  BY <1>2 DEF CloseProject, ProjectEmpty, ClosedProjectIsIdle
<1>3. CASE ~\E u \in User : CloseProject(u)
  <2>1. projectActive' = projectActive
    BY <1>3 DEF Next, Planning, Reviewing, Executing, CreateActivity,
       ReplaceActivity, SubmitActivity, OpenAmendment, CancelAmendment,
       RequestWithdrawal, CancelWithdrawal, RequestTransfer, CancelTransfer,
       EnterReview, Prevalidate, ReturnBySupervisor, ReturnByValidator,
       ApprovePlan, ApproveWithdrawal, ApproveTransfer, AssignAgents, Record,
       StartOperation, SubmitSettlement, ApproveSettlement, EndSettlement,
       Settle, CloseActivity, ChangeRole, Deactivate, ChangeAccount, ChangePolicy, vars
  <2>2. status = "none" /\ ~projectActive => status' = "none"
    <3> SUFFICES ASSUME status = "none", ~projectActive PROVE status' = status
      OBVIOUS
    <3>1. ASSUME NEW u \in User PROVE ~Planning(u)
      BY DEF Planning, CreateActivity, MayCreate, ReplaceActivity, MayEdit,
         Editable, SubmitActivity, MaySubmit, OpenAmendment, MayOpenAmendment,
         CancelAmendment, MayCancelAmendment, RequestWithdrawal,
         MayRequestWithdrawal, CancelWithdrawal, MayCancelWithdrawal,
         RequestTransfer, MayRequestTransfer, CancelTransfer,
         MayCancelTransfer, UnderReview, Returned
    <3>2. ASSUME NEW u \in User PROVE ~Reviewing(u)
      BY DEF Reviewing, Prevalidate, ReturnBySupervisor, ReturnByValidator,
         ApprovePlan, ApproveWithdrawal, ApproveTransfer, AssignAgents,
         MayPrevalidate, MayDecideFinally
    <3>3. ASSUME NEW u \in User PROVE ~Executing(u)
      BY DEF Executing, StartOperation, SubmitSettlement, ApproveSettlement,
         EndSettlement, Settle, CloseActivity, ClosureChecksPass, Running,
         NothingYet
    <3> QED
      BY <3>1, <3>2, <3>3, <1>3
      DEF Next, ChangeRole, Deactivate, ChangeAccount, ChangePolicy, vars
  <2> QED
    BY <2>1, <2>2, <1>1 DEF ClosedProjectIsIdle
<1> QED
  BY <1>2, <1>3

(* A Project closes over Activities that have ended for good, and none is
   created in it afterwards. *)
THEOREM ClosedProjectsStayIdle == Spec => []ClosedProjectIsIdle
<1>1. Init => ClosedProjectIsIdle
  BY DEF Init, ClosedProjectIsIdle
<1> QED
  BY <1>1, TypeCorrect, NothingYetInvariant, SettlementInvariant,
     StepClosedProject, PTL DEF Spec

-----------------------------------------------------------------------------
(* What the commands do, told without their handlers. *)

(* Reviewed, or returned for correction. *)
Pending == UnderReview \cup Returned

(* A step that leaves the Activity, its content and its record alone: it may
   assign Agents, settle a fully executed Activity, or change an account or
   the Project. *)
Quiet ==
    /\ UNCHANGED <<status, pointers, content, evidence, started>>
    /\ version' >= version
    /\ settlement' # "none" => settlement # "none" \/ FullyExecuted

Entering(u) ==
    SubmitActivity(u) \/ RequestWithdrawal(u) \/ \E y \in Year : RequestTransfer(u, y)
Cancelling(u) == CancelAmendment(u) \/ CancelWithdrawal(u) \/ CancelTransfer(u)
Judging(u) ==
    \/ Prevalidate(u) \/ ReturnBySupervisor(u)
    \/ \E requested \in BOOLEAN : ReturnByValidator(u, requested)

LEMMA StepKinds ==
  ASSUME TypeOK, [Next]_vars
  PROVE  \/ Quiet
         \/ \E u \in User :
               \/ \E p \in Plan : CreateActivity(u, p) \/ ReplaceActivity(u, p)
               \/ Entering(u) \/ OpenAmendment(u) \/ Cancelling(u)
               \/ Judging(u)
               \/ ApprovePlan(u) \/ ApproveWithdrawal(u) \/ ApproveTransfer(u)
               \/ \E o \in Operation : StartOperation(u, o)
               \/ CloseActivity(u)
<1>1. ASSUME NEW u \in User, NEW agents, AssignAgents(u, agents)
      PROVE  Quiet
  BY <1>1 DEF AssignAgents, Quiet, TypeOK, execution
<1>2. ASSUME NEW u \in User,
             SubmitSettlement(u) \/ ApproveSettlement(u) \/ EndSettlement(u)
      PROVE  Quiet
  BY <1>2 DEF SubmitSettlement, ApproveSettlement, EndSettlement, Settle,
     Quiet, TypeOK
<1>3. ASSUME NEW u \in User, NEW r, ChangeAccount(u, r) \/ CloseProject(u)
      PROVE  Quiet
  BY <1>3 DEF ChangeAccount, CloseProject, Quiet, TypeOK, execution
<1>4. UNCHANGED vars \/ ChangePolicy => Quiet
  BY DEF vars, ChangePolicy, Quiet, TypeOK, execution
<1>5. ASSUME NEW u \in User, Planning(u)
      PROVE  \/ \E p \in Plan : CreateActivity(u, p) \/ ReplaceActivity(u, p)
             \/ Entering(u) \/ OpenAmendment(u) \/ Cancelling(u)
  BY <1>5 DEF Planning, Entering, Cancelling
<1>6. ASSUME NEW u \in User, Reviewing(u)
      PROVE  \/ Quiet \/ Judging(u)
             \/ ApprovePlan(u) \/ ApproveWithdrawal(u) \/ ApproveTransfer(u)
  BY <1>1, <1>6 DEF Reviewing, Judging
<1>7. ASSUME NEW u \in User, Executing(u)
      PROVE  \/ Quiet \/ \E o \in Operation : StartOperation(u, o)
             \/ CloseActivity(u)
  BY <1>2, <1>7 DEF Executing
<1>8. CASE \E u \in User : Planning(u)
  BY <1>5, <1>8
<1>9. CASE \E u \in User : Reviewing(u)
  BY <1>6, <1>9
<1>10. CASE \E u \in User : Executing(u)
  BY <1>7, <1>10
<1>11. CASE \E u \in User, r \in Authority : ChangeAccount(u, r) \/ CloseProject(u)
  BY <1>3, <1>11
<1> QED
  BY <1>4, <1>8, <1>9, <1>10, <1>11
  DEF Next, Deactivate, ChangeRole, Authority

-----------------------------------------------------------------------------
(* The shape of the row: which pointers are set in which status. *)

AmendmentOnly == amendment # 0 /\ withdrawal = 0 /\ transfer = 0
WithdrawalOnly == amendment = 0 /\ withdrawal # 0 /\ transfer = 0
TransferOnly == amendment = 0 /\ withdrawal = 0 /\ transfer # 0

Pointers ==
    /\ status # "none" => version > 0
    /\ status \in {"none", "draft"} =>
           revisions = <<>> /\ current = 0 /\ approved = 0 /\ NothingPending
    /\ status \in {"approved", "closed"} =>
           approved # 0 /\ current = approved /\ NothingPending
    /\ status = "amendment_draft" =>
           approved # 0 /\ current = approved /\ AmendmentOnly
    /\ status = "withdrawn" =>
           approved # 0 /\ current > approved /\ WithdrawalOnly
    /\ status \in Pending =>
           /\ current = Len(revisions) /\ current > approved
           /\ \/ approved = 0 /\ NothingPending
              \/ approved # 0 /\ (AmendmentOnly \/ WithdrawalOnly \/ TransferOnly)

(* What the revision under review says of itself is what the row says. *)
Candidate ==
    status \in Pending \cup {"withdrawn"} =>
        /\ revisions[current].base = approved
        /\ revisions[current].from = placement
        /\ NothingPending => revisions[current].kind = "plan"
        /\ amendment # 0 => /\ revisions[current].kind = "amendment"
                            /\ revisions[current].request = amendment
        /\ withdrawal # 0 => /\ revisions[current].kind = "withdrawal"
                             /\ revisions[current].request = withdrawal
        /\ transfer # 0 => /\ revisions[current].kind = "transfer"
                           /\ revisions[current].request = transfer

ShapeInv == Pointers /\ Candidate

(* A submission of any kind appends one revision, which says of itself what
   the row will say. *)
LEMMA EnteringEffect ==
  ASSUME TypeOK, Pointers, Candidate, NEW u \in User, Entering(u)
  PROVE  /\ status' = "submitted" /\ version' = version + 1
         /\ current' = Len(revisions) + 1 /\ Len(revisions') = Len(revisions) + 1
         /\ \A r \in 1..Len(revisions) : revisions'[r] = revisions[r]
         /\ revisions'[current'] \in Revision
         /\ contributors' = contributors \cup {u}
         /\ UNCHANGED <<approved, content, decisions, assigned, started,
                        settlement>>
         /\ status \in {"draft", "amendment_draft", "approved"} \cup Returned
         /\ revisions'[current'].base = approved
         /\ revisions'[current'].from = placement
         /\ revisions'[current'].submitter = u
         /\ revisions'[current'].contributors = contributors'
         /\ \/ /\ NothingPending /\ NothingPending'
               /\ status \in {"draft"} \cup Returned
               /\ revisions'[current'].kind = "plan"
               /\ revisions'[current'].request = 0
               /\ revisions'[current'].plan = plan
               /\ revisions'[current'].year = placement
            \/ /\ AmendmentOnly /\ AmendmentOnly' /\ amendment' = amendment
               /\ status \in {"amendment_draft"} \cup Returned
               /\ revisions'[current'].kind = "amendment"
               /\ revisions'[current'].request = amendment'
               /\ revisions'[current'].plan = plan
               /\ revisions'[current'].year = placement
            \/ /\ WithdrawalOnly' /\ started = {}
               /\ \/ status = "approved" /\ withdrawal' = version
                  \/ status \in Returned /\ WithdrawalOnly /\ withdrawal' = withdrawal
               /\ revisions'[current'].kind = "withdrawal"
               /\ revisions'[current'].request = withdrawal'
               /\ revisions'[current'].plan = plan
               /\ revisions'[current'].year = placement
            \/ /\ TransferOnly' /\ started = {}
               /\ \/ status = "approved" /\ transfer' = version
                  \/ status \in Returned /\ TransferOnly /\ transfer' = transfer
               /\ revisions'[current'].kind = "transfer"
               /\ revisions'[current'].request = transfer'
               /\ revisions'[current'].plan
                      = [plan EXCEPT !.start = revisions'[current'].year]
               /\ revisions'[current'].year > placement
<1>1. ASSUME NEW kind \in Kind, NEW request \in Nat, NEW p \in Plan,
             NEW year \in Year,
             EnterReview(u, Snapshot(u, kind, request, p, year))
      PROVE  /\ status' = "submitted" /\ version' = version + 1
             /\ current' = Len(revisions) + 1
             /\ Len(revisions') = Len(revisions) + 1
             /\ \A r \in 1..Len(revisions) : revisions'[r] = revisions[r]
             /\ revisions'[current'] \in Revision
             /\ contributors' = contributors \cup {u}
             /\ UNCHANGED <<approved, content, decisions, assigned, started,
                            settlement>>
             /\ revisions'[current'].base = approved
             /\ revisions'[current'].from = placement
             /\ revisions'[current'].submitter = u
             /\ revisions'[current'].contributors = contributors'
             /\ revisions'[current'].kind = kind
             /\ revisions'[current'].request = request
             /\ revisions'[current'].plan = p
             /\ revisions'[current'].year = year
  <2> DEFINE new == Snapshot(u, kind, request, p, year)
  <2>1. new \in Revision
    BY SnapshotType
  <2>2. /\ new.base = approved /\ new.from = placement /\ new.submitter = u
        /\ new.contributors = contributors \cup {u} /\ new.kind = kind
        /\ new.request = request /\ new.plan = p /\ new.year = year
    BY DEF Snapshot
  <2>3. EnterReview(u, new)
    BY <1>1
  <2> HIDE DEF new
  <2>4. /\ revisions' = Append(revisions, new) /\ revisions \in Seq(Revision)
        /\ current' = Len(revisions) + 1
    BY <2>3 DEF EnterReview, NextRevision, TypeOK
  <2>5. /\ Len(revisions') = Len(revisions) + 1 /\ revisions'[current'] = new
        /\ \A r \in 1..Len(revisions) : revisions'[r] = revisions[r]
    BY <2>1, <2>4
  <2>6. /\ status' = "submitted" /\ version' = version + 1
        /\ contributors' = contributors \cup {u}
        /\ UNCHANGED <<approved, content, decisions, assigned, started,
                       settlement>>
    BY <2>3 DEF EnterReview, execution
  <2> QED
    BY <2>1, <2>2, <2>4, <2>5, <2>6
<1>2. CASE SubmitActivity(u)
  <2> DEFINE kind == IF amendment # 0 THEN "amendment" ELSE "plan"
  <2>1. EnterReview(u, Snapshot(u, kind, amendment, plan, placement))
    BY <1>2 DEF SubmitActivity
  <2>2. /\ withdrawal = 0 /\ transfer = 0 /\ status \in Editable
        /\ UNCHANGED <<amendment, withdrawal, transfer>>
    BY <1>2 DEF SubmitActivity, MaySubmit, MayEdit
  <2>3. /\ kind \in Kind /\ amendment \in Nat /\ plan \in Plan
        /\ placement \in Year
    BY DEF TypeOK, Kind
  <2>4. kind = IF amendment # 0 THEN "amendment" ELSE "plan"
    OBVIOUS
  <2>5. /\ NothingPending => status \in {"draft"} \cup Returned
        /\ amendment # 0 => status \in {"amendment_draft"} \cup Returned
    BY <2>2 DEF Pointers, Editable, Returned, NothingPending, AmendmentOnly
  <2> HIDE DEF kind
  <2>6. CASE amendment = 0
    BY <1>1, <2>1, <2>2, <2>3, <2>4, <2>5, <2>6 DEF NothingPending
  <2>7. CASE amendment # 0
    BY <1>1, <2>1, <2>2, <2>3, <2>4, <2>5, <2>7 DEF AmendmentOnly
  <2> QED
    BY <2>6, <2>7
<1>3. CASE RequestWithdrawal(u)
  <2> DEFINE id == IF withdrawal # 0 THEN withdrawal ELSE version
  <2>1. /\ EnterReview(u, Snapshot(u, "withdrawal", id, plan, placement))
        /\ withdrawal' = id /\ UNCHANGED <<amendment, transfer>>
    BY <1>3 DEF RequestWithdrawal
  <2>2. /\ amendment = 0 /\ transfer = 0 /\ started = {}
        /\ IF withdrawal # 0 THEN status \in Returned ELSE status = "approved"
    BY <1>3 DEF RequestWithdrawal, MayRequestWithdrawal, LifecycleEligible,
       NeverStarted
  <2>3. /\ "withdrawal" \in Kind /\ id \in Nat /\ plan \in Plan
        /\ placement \in Year
    BY DEF TypeOK, Kind
  <2>4. /\ id # 0
        /\ withdrawal # 0 => id = withdrawal
        /\ withdrawal = 0 => id = version
    BY <2>2 DEF Pointers, TypeOK
  <2> HIDE DEF id
  <2>5. WithdrawalOnly' /\ (withdrawal # 0 => WithdrawalOnly)
    BY <2>1, <2>2, <2>4 DEF WithdrawalOnly
  <2> QED
    BY <1>1, <2>1, <2>2, <2>3, <2>4, <2>5
<1>4. CASE \E y \in Year : RequestTransfer(u, y)
  <2>1. PICK y \in Year : RequestTransfer(u, y)
    BY <1>4
  <2> DEFINE id == IF transfer # 0 THEN transfer ELSE version
             moved == [plan EXCEPT !.start = y]
  <2>2. /\ EnterReview(u, Snapshot(u, "transfer", id, moved, y))
        /\ transfer' = id /\ UNCHANGED <<amendment, withdrawal>>
        /\ y > placement
    BY <2>1 DEF RequestTransfer, LaterYear
  <2>3. /\ amendment = 0 /\ withdrawal = 0 /\ started = {}
        /\ IF transfer # 0 THEN status \in Returned ELSE status = "approved"
    BY <2>1 DEF RequestTransfer, MayRequestTransfer, LifecycleEligible,
       NeverStarted
  <2>4. /\ "transfer" \in Kind /\ id \in Nat /\ moved \in Plan
    BY DEF TypeOK, Kind, Plan
  <2>5. /\ id # 0
        /\ transfer # 0 => id = transfer
        /\ transfer = 0 => id = version
    BY <2>3 DEF Pointers, TypeOK
  <2>6. moved = [plan EXCEPT !.start = y]
    OBVIOUS
  <2> HIDE DEF id, moved
  <2>7. TransferOnly' /\ (transfer # 0 => TransferOnly)
    BY <2>2, <2>3, <2>5 DEF TransferOnly
  <2>8. /\ revisions'[current'].plan = moved
        /\ revisions'[current'].year = y
        /\ revisions'[current'].kind = "transfer"
        /\ revisions'[current'].request = transfer'
    BY <1>1, <2>2, <2>4
  <2>9. revisions'[current'].plan = [plan EXCEPT !.start = revisions'[current'].year]
    BY <2>6, <2>8
  <2> QED
    BY <1>1, <2>2, <2>3, <2>4, <2>5, <2>7, <2>8, <2>9
<1> QED
  BY <1>2, <1>3, <1>4 DEF Entering

(* A cancellation returns to the approved revision. *)
LEMMA CancellingEffect ==
  ASSUME TypeOK, Pointers, BaselineStands, NEW u \in User, Cancelling(u)
  PROVE  /\ status \in {"amendment_draft"} \cup Pending
         /\ status' = "approved" /\ version' = version + 1
         /\ approved # 0 /\ current' = approved
         /\ NothingPending'
         /\ plan' = revisions[approved].plan
         /\ UNCHANGED <<approved, known, placement, evidence, execution>>
<1>1. CASE CancelAmendment(u)
  BY <1>1 DEF CancelAmendment, MayCancelAmendment, CurrentAfterCancel,
     RestoredPlan, Pointers, Pending, AmendmentOnly, WithdrawalOnly,
     TransferOnly, NothingPending, UnderReview, Returned
<1>2. CASE CancelWithdrawal(u)
  <2>1. /\ status \in Pending /\ withdrawal # 0
    BY <1>2 DEF CancelWithdrawal, MayCancelWithdrawal, Pending
  <2>2. approved # 0 /\ amendment = 0 /\ transfer = 0
    BY <2>1 DEF Pointers, WithdrawalOnly, AmendmentOnly, TransferOnly,
       NothingPending
  <2> QED
    BY <1>2, <2>1, <2>2 DEF CancelWithdrawal, CurrentAfterCancel, content,
       BaselineStands, NothingPending
<1>3. CASE CancelTransfer(u)
  <2>1. /\ status \in Pending /\ transfer # 0
    BY <1>3 DEF CancelTransfer, MayCancelTransfer, Pending
  <2>2. approved # 0 /\ amendment = 0 /\ withdrawal = 0
    BY <2>1 DEF Pointers, WithdrawalOnly, AmendmentOnly, TransferOnly,
       NothingPending
  <2> QED
    BY <1>3, <2>1, <2>2 DEF CancelTransfer, CurrentAfterCancel, content,
       BaselineStands, NothingPending
<1> QED
  BY <1>1, <1>2, <1>3 DEF Cancelling

(* A decision adds one row about the current revision; what does not approve
   leaves all but the status alone. *)
Recording(u, stage, outcome, requested) ==
    [revision |-> current, stage |-> stage, outcome |-> outcome,
     actor |-> u, requested |-> requested]

LEMMA RecordEffect ==
  ASSUME NEW u, NEW stage, NEW outcome, NEW requested,
         Record(u, stage, outcome, requested)
  PROVE  /\ decisions' = decisions \cup {Recording(u, stage, outcome, requested)}
         /\ version' = version + 1
         /\ UNCHANGED <<revisions, contributors, known, execution, projectActive>>
BY DEF Record, Recording, execution

LEMMA JudgingEffect ==
  ASSUME NEW u \in User, Judging(u)
  PROVE  /\ status \in UnderReview /\ status' \in {"prevalidated"} \cup Returned
         /\ version' = version + 1
         /\ UNCHANGED <<pointers, content, revisions, contributors, execution,
                        assigned>>
<1>1. CASE Prevalidate(u)
  BY <1>1 DEF Prevalidate, MayPrevalidate, Record, content, execution,
     UnderReview
<1>2. CASE ReturnBySupervisor(u)
  BY <1>2 DEF ReturnBySupervisor, MayPrevalidate, Record, content, execution,
     UnderReview, Returned
<1>3. CASE \E requested \in BOOLEAN : ReturnByValidator(u, requested)
  BY <1>3 DEF ReturnByValidator, MayDecideFinally, Record, content, execution,
     UnderReview, Returned
<1> QED
  BY <1>1, <1>2, <1>3 DEF Judging

(* An approval of a plan or a transfer makes the candidate the baseline. *)
LEMMA ApprovingEffect ==
  ASSUME TypeOK, ShapeInv, NEW u \in User, ApprovePlan(u) \/ ApproveTransfer(u)
  PROVE  /\ status = "prevalidated" /\ status' = "approved"
         /\ version' = version + 1
         /\ current # 0 /\ current' = current /\ approved' = current
         /\ NothingPending'
         /\ withdrawal = 0
         /\ PrevalidatedByAnother(u)
         /\ Record(u, "validator", "approved", FALSE)
<1>1. /\ MayDecideFinally(u)
      /\ Record(u, "validator", "approved", FALSE)
      /\ status = "prevalidated" /\ status' = "approved"
      /\ current' = current /\ approved' = current
      /\ revisions[current].kind # "withdrawal"
      /\ \/ ApprovePlan(u) /\ revisions[current].kind # "transfer"
         \/ ApproveTransfer(u) /\ revisions[current].kind = "transfer"
  BY DEF ApprovePlan, ApproveTransfer, MayDecideFinally
<1>2. /\ status \in Pending /\ current # 0 /\ PrevalidatedByAnother(u)
  BY <1>1 DEF MayDecideFinally, Reviewable, Pending, UnderReview
<1>3. withdrawal = 0
  BY <1>1, <1>2 DEF ShapeInv, Candidate
<1>4. CASE ApprovePlan(u) /\ revisions[current].kind # "transfer"
  <2>1. transfer = 0
    BY <1>2, <1>4 DEF ShapeInv, Candidate
  <2> QED
    BY <1>1, <1>2, <1>3, <1>4, <2>1 DEF ApprovePlan, NothingPending, Record
<1>5. CASE ApproveTransfer(u) /\ revisions[current].kind = "transfer"
  <2>1. amendment = 0
    BY <1>2, <1>5 DEF ShapeInv, Candidate
  <2> QED
    BY <1>1, <1>2, <1>3, <1>5, <2>1 DEF ApproveTransfer, NothingPending, Record
<1> QED
  BY <1>1, <1>4, <1>5

LEMMA WithdrawingEffect ==
  ASSUME TypeOK, ShapeInv, NEW u \in User, ApproveWithdrawal(u)
  PROVE  /\ status = "prevalidated" /\ status' = "withdrawn"
         /\ version' = version + 1
         /\ current # 0 /\ approved # 0 /\ WithdrawalOnly
         /\ started = {}
         /\ assigned' = {}
         /\ PrevalidatedByAnother(u)
         /\ Record(u, "validator", "approved", FALSE)
         /\ UNCHANGED <<pointers, content, revisions, contributors, execution>>
<1>1. /\ MayDecideFinally(u) /\ revisions[current].kind = "withdrawal"
      /\ Record(u, "validator", "approved", FALSE)
      /\ status = "prevalidated" /\ status' = "withdrawn" /\ assigned' = {}
      /\ UNCHANGED <<pointers, plan, placement>>
  BY DEF ApproveWithdrawal, MayDecideFinally, AssignmentsAfterEnd
<1>2. /\ status \in Pending /\ current # 0 /\ PrevalidatedByAnother(u)
  BY <1>1 DEF MayDecideFinally, Reviewable, Pending, UnderReview
<1>3. withdrawal # 0
  BY <1>1, <1>2 DEF ShapeInv, Candidate, Pointers, WithdrawalOnly,
     AmendmentOnly, TransferOnly
<1>4. approved # 0 /\ WithdrawalOnly
  BY <1>2, <1>3 DEF ShapeInv, Pointers, WithdrawalOnly,
     AmendmentOnly, TransferOnly, NothingPending
<1>5. started = {}
  BY <1>1, <1>3 DEF MayDecideFinally, Reviewable, LifecycleEligible,
     NeverStarted
<1> QED
  BY <1>1, <1>2, <1>4, <1>5 DEF Record, content, execution

LEMMA StepPointers ==
  ASSUME TypeOK, TypeOK', BaselineStands, ShapeInv, [Next]_vars
  PROVE  Pointers'
<1> USE DEF Pending, UnderReview, Returned
<1>1. CASE Quiet
  BY <1>1 DEF Quiet, ShapeInv, Pointers, pointers, content, evidence,
     NothingPending, AmendmentOnly, WithdrawalOnly, TransferOnly, TypeOK
<1>2. ASSUME NEW u \in User, NEW p \in Plan, CreateActivity(u, p)
      PROVE  Pointers'
  BY <1>2 DEF CreateActivity, MayCreate, ShapeInv, Pointers, pointers,
     NothingPending
<1>3. ASSUME NEW u \in User, NEW p \in Plan, ReplaceActivity(u, p)
      PROVE  Pointers'
  <2>1. /\ UNCHANGED <<status, current, approved, amendment, withdrawal,
                       transfer, revisions>>
        /\ version' = version + 1
    BY <1>3 DEF ReplaceActivity, pointers
  <2> QED
    BY <2>1 DEF ShapeInv, Pointers, NothingPending, AmendmentOnly,
       WithdrawalOnly, TransferOnly, TypeOK
<1>4. ASSUME NEW u \in User, Entering(u)
      PROVE  Pointers'
  <2>1. /\ status' = "submitted" /\ version' = version + 1
        /\ current' = Len(revisions') /\ current' > approved'
        /\ approved' = approved
    BY <1>4, EnteringEffect DEF ShapeInv, TypeOK
  <2>2. \/ NothingPending /\ NothingPending' /\ status \in {"draft"} \cup Returned
        \/ AmendmentOnly /\ AmendmentOnly'
           /\ status \in {"amendment_draft"} \cup Returned
        \/ WithdrawalOnly' /\ (status = "approved" \/ (status \in Returned /\ WithdrawalOnly))
        \/ TransferOnly' /\ (status = "approved" \/ (status \in Returned /\ TransferOnly))
    BY <1>4, EnteringEffect DEF ShapeInv
  <2>3. \/ approved = 0 /\ NothingPending'
        \/ approved # 0 /\ (AmendmentOnly' \/ WithdrawalOnly' \/ TransferOnly')
    BY <2>2 DEF ShapeInv, Pointers, NothingPending, AmendmentOnly,
       WithdrawalOnly, TransferOnly
  <2> QED
    BY <2>1, <2>3 DEF Pointers, TypeOK
<1>5. ASSUME NEW u \in User, OpenAmendment(u)
      PROVE  Pointers'
  BY <1>5 DEF OpenAmendment, MayOpenAmendment, ShapeInv, Pointers,
     NothingPending, AmendmentOnly, evidence, TypeOK
<1>6. ASSUME NEW u \in User, Cancelling(u)
      PROVE  Pointers'
  <2>1. /\ status' = "approved" /\ version' = version + 1
        /\ approved' # 0 /\ current' = approved' /\ NothingPending'
    BY <1>6, CancellingEffect DEF ShapeInv
  <2> QED
    BY <2>1 DEF Pointers, TypeOK
<1>7. ASSUME NEW u \in User, Judging(u)
      PROVE  Pointers'
  <2>1. /\ status \in UnderReview /\ status' \in {"prevalidated"} \cup Returned
        /\ UNCHANGED <<current, approved, amendment, withdrawal, transfer,
                       revisions>>
        /\ version' = version + 1
    BY <1>7, JudgingEffect DEF pointers
  <2> QED
    BY <2>1 DEF ShapeInv, Pointers, NothingPending, AmendmentOnly,
       WithdrawalOnly, TransferOnly, TypeOK
<1>8. ASSUME NEW u \in User, ApprovePlan(u) \/ ApproveTransfer(u)
      PROVE  Pointers'
  <2>1. /\ status' = "approved" /\ version' = version + 1
        /\ approved' # 0 /\ current' = approved' /\ NothingPending'
    BY <1>8, ApprovingEffect
  <2> QED
    BY <2>1 DEF Pointers, TypeOK
<1>9. ASSUME NEW u \in User, ApproveWithdrawal(u)
      PROVE  Pointers'
  <2>1. /\ status = "prevalidated" /\ status' = "withdrawn"
        /\ version' = version + 1 /\ approved # 0 /\ WithdrawalOnly
        /\ UNCHANGED <<current, approved, amendment, withdrawal, transfer>>
    BY <1>9, WithdrawingEffect DEF pointers
  <2> QED
    BY <2>1 DEF ShapeInv, Pointers, WithdrawalOnly, TypeOK
<1>10. ASSUME NEW u \in User, NEW o \in Operation, StartOperation(u, o)
      PROVE  Pointers'
  <2>1. /\ UNCHANGED <<status, current, approved, amendment, withdrawal,
                       transfer, revisions>>
        /\ version' = version + 1
    BY <1>10 DEF StartOperation, pointers, evidence
  <2> QED
    BY <2>1 DEF ShapeInv, Pointers, NothingPending, AmendmentOnly,
       WithdrawalOnly, TransferOnly, TypeOK
<1>11. ASSUME NEW u \in User, CloseActivity(u)
      PROVE  Pointers'
  <2>1. /\ UNCHANGED <<current, approved, amendment, withdrawal, transfer>>
        /\ status = "approved" /\ status' = "closed" /\ version' = version + 1
    BY <1>11 DEF CloseActivity, ClosureChecksPass, Running, pointers
  <2> QED
    BY <2>1 DEF ShapeInv, Pointers, NothingPending, TypeOK
<1> QED
  BY <1>1, <1>2, <1>3, <1>4, <1>5, <1>6, <1>7, <1>8, <1>9, <1>10, <1>11,
     StepKinds

LEMMA StepCandidateRow ==
  ASSUME TypeOK, TypeOK', BaselineStands, ShapeInv, [Next]_vars
  PROVE  Candidate'
<1> USE DEF Pending, UnderReview, Returned
<1> DEFINE same == /\ UNCHANGED <<current, approved, amendment, withdrawal,
                                  transfer, placement, revisions>>
                   /\ \/ status' = status
                      \/ status \in UnderReview
           idle == status' \notin Pending \cup {"withdrawn"}
<1>a. same => Candidate'
  BY DEF ShapeInv, Candidate, NothingPending
<1>b. idle => Candidate'
  BY DEF Candidate
<1>1. Quiet => same
  BY DEF Quiet, pointers, content, evidence
<1>2. ASSUME NEW u \in User, NEW p \in Plan, CreateActivity(u, p)
      PROVE  idle
  BY <1>2 DEF CreateActivity
<1>3. ASSUME NEW u \in User, NEW p \in Plan, ReplaceActivity(u, p)
      PROVE  same
  BY <1>3 DEF ReplaceActivity, pointers
<1>4. ASSUME NEW u \in User, Entering(u)
      PROVE  Candidate'
  <2>1. /\ approved' = approved /\ placement' = placement
        /\ revisions'[current'].base = approved
        /\ revisions'[current'].from = placement
    BY <1>4, EnteringEffect DEF ShapeInv, content
  <2>2. \/ /\ NothingPending'
           /\ revisions'[current'].kind = "plan"
        \/ /\ AmendmentOnly'
           /\ revisions'[current'].kind = "amendment"
           /\ revisions'[current'].request = amendment'
        \/ /\ WithdrawalOnly'
           /\ revisions'[current'].kind = "withdrawal"
           /\ revisions'[current'].request = withdrawal'
        \/ /\ TransferOnly'
           /\ revisions'[current'].kind = "transfer"
           /\ revisions'[current'].request = transfer'
    BY <1>4, EnteringEffect DEF ShapeInv
  <2> QED
    BY <2>1, <2>2 DEF Candidate, NothingPending, AmendmentOnly,
       WithdrawalOnly, TransferOnly
<1>5. ASSUME NEW u \in User, OpenAmendment(u) \/ CloseActivity(u)
      PROVE  idle
  BY <1>5 DEF OpenAmendment, CloseActivity
<1>6. ASSUME NEW u \in User, Cancelling(u)
      PROVE  idle
  <2>1. status' = "approved"
    BY <1>6, CancellingEffect DEF ShapeInv
  <2> QED
    BY <2>1
<1>7. ASSUME NEW u \in User, Judging(u)
      PROVE  same
  BY <1>7, JudgingEffect DEF pointers, content
<1>8. ASSUME NEW u \in User, ApprovePlan(u) \/ ApproveTransfer(u)
      PROVE  idle
  BY <1>8, ApprovingEffect
<1>9. ASSUME NEW u \in User, ApproveWithdrawal(u)
      PROVE  same
  BY <1>9, WithdrawingEffect DEF pointers, content
<1>10. ASSUME NEW u \in User, NEW o \in Operation, StartOperation(u, o)
      PROVE  same
  BY <1>10 DEF StartOperation, pointers, content, evidence
<1> HIDE DEF same, idle
<1> QED
  BY <1>a, <1>b, <1>1, <1>2, <1>3, <1>4, <1>5, <1>6, <1>7, <1>8, <1>9, <1>10,
     StepKinds

-----------------------------------------------------------------------------
(* The decisions of record: one per revision and stage, and exactly those the
   status of the Activity tells of. *)
OneDecision ==
    \A d, e \in decisions :
        d.revision = e.revision /\ d.stage = e.stage => d = e

VerdictsMatch ==
    /\ status = "submitted" =>
           Outcome(current, "supervisor") = {} /\ Outcome(current, "validator") = {}
    /\ status = "prevalidated" =>
           /\ Outcome(current, "supervisor") = {"prevalidated"}
           /\ Outcome(current, "validator") = {}
    /\ status = "returned_supervisor" =>
           /\ Outcome(current, "supervisor") = {"returned"}
           /\ Outcome(current, "validator") = {}
    /\ status = "returned_validator" =>
           /\ Outcome(current, "supervisor") = {"prevalidated"}
           /\ Outcome(current, "validator") = {"returned"}
    /\ status = "withdrawn" =>
           /\ Outcome(current, "supervisor") = {"prevalidated"}
           /\ Outcome(current, "validator") = {"approved"}

RecordInv == OneDecision /\ VerdictsMatch /\ ApprovedChain

(* A recorded decision joins those of its revision and stage, no others. *)
LEMMA DecidedAfter ==
  ASSUME NEW u, NEW stage, NEW outcome, NEW requested,
         Record(u, stage, outcome, requested), NEW r, NEW s
  PROVE  /\ (r = current /\ s = stage) =>
                Decided(r, s)' = Decided(r, s)
                                 \cup {Recording(u, stage, outcome, requested)}
         /\ ~(r = current /\ s = stage) => Decided(r, s)' = Decided(r, s)
BY DEF Record, Recording, Decided

LEMMA OutcomeAfter ==
  ASSUME NEW u, NEW stage, NEW outcome, NEW requested,
         Record(u, stage, outcome, requested), NEW r, NEW s
  PROVE  /\ (r = current /\ s = stage) =>
                Outcome(r, s)' = Outcome(r, s) \cup {outcome}
         /\ ~(r = current /\ s = stage) => Outcome(r, s)' = Outcome(r, s)
<1>1. Recording(u, stage, outcome, requested).outcome = outcome
  BY DEF Recording
<1>2. CASE r = current /\ s = stage
  <2>1. Decided(r, s)' = Decided(r, s)
                         \cup {Recording(u, stage, outcome, requested)}
    BY <1>2, DecidedAfter
  <2> QED
    BY <1>1, <1>2, <2>1 DEF Outcome
<1>3. CASE ~(r = current /\ s = stage)
  <2>1. Decided(r, s)' = Decided(r, s)
    BY <1>3, DecidedAfter
  <2> QED
    BY <1>3, <2>1 DEF Outcome
<1> QED
  BY <1>2, <1>3

LEMMA SupervisorAfter ==
  ASSUME NEW u, NEW outcome, NEW requested,
         Record(u, "supervisor", outcome, requested), NEW c, c = current
  PROVE  /\ Outcome(c, "supervisor")' = Outcome(c, "supervisor") \cup {outcome}
         /\ Outcome(c, "validator")' = Outcome(c, "validator")
<1>1. Outcome(c, "supervisor")' = Outcome(c, "supervisor") \cup {outcome}
  BY OutcomeAfter
<1>2. Outcome(c, "validator")' = Outcome(c, "validator")
  BY OutcomeAfter
<1> QED
  BY <1>1, <1>2

LEMMA ValidatorAfter ==
  ASSUME NEW u, NEW outcome, NEW requested,
         Record(u, "validator", outcome, requested), NEW c, c = current
  PROVE  /\ Outcome(c, "supervisor")' = Outcome(c, "supervisor")
         /\ Outcome(c, "validator")' = Outcome(c, "validator") \cup {outcome}
         /\ Decided(c, "supervisor")' = Decided(c, "supervisor")
         /\ Decided(c, "validator")' = Decided(c, "validator")
                \cup {Recording(u, "validator", outcome, requested)}
<1>1. Outcome(c, "validator")' = Outcome(c, "validator") \cup {outcome}
  BY OutcomeAfter
<1>2. Outcome(c, "supervisor")' = Outcome(c, "supervisor")
  BY OutcomeAfter
<1>3. Decided(c, "supervisor")' = Decided(c, "supervisor")
  BY DecidedAfter
<1>4. Decided(c, "validator")' = Decided(c, "validator")
          \cup {Recording(u, "validator", outcome, requested)}
  BY DecidedAfter
<1> QED
  BY <1>1, <1>2, <1>3, <1>4

LEMMA ElsewhereAfter ==
  ASSUME NEW u, NEW stage, NEW outcome, NEW requested,
         Record(u, stage, outcome, requested), NEW r, r # current, NEW s
  PROVE  /\ Decided(r, s)' = Decided(r, s)
         /\ Outcome(r, s)' = Outcome(r, s)
<1>1. Decided(r, s)' = Decided(r, s)
  BY DecidedAfter
<1>2. Outcome(r, s)' = Outcome(r, s)
  BY OutcomeAfter
<1> QED
  BY <1>1, <1>2

LEMMA OneAfter ==
  ASSUME OneDecision, NEW u, NEW stage, NEW outcome, NEW requested,
         Record(u, stage, outcome, requested), Outcome(current, stage) = {}
  PROVE  OneDecision'
<1> DEFINE new == Recording(u, stage, outcome, requested)
<1>1. decisions' = decisions \cup {new}
  BY RecordEffect
<1>2. new.revision = current /\ new.stage = stage
  BY DEF Recording
<1>3. \A d \in decisions : ~(d.revision = current /\ d.stage = stage)
  BY DEF Outcome, Decided
<1> QED
  BY <1>1, <1>2, <1>3 DEF OneDecision

LEMMA StepRecord ==
  ASSUME TypeOK, TypeOK', BaselineStands, ShapeInv, DutiesInv, RecordInv,
         [Next]_vars
  PROVE  RecordInv'
<1> USE DEF Pending, UnderReview, Returned
<1> DEFINE same == /\ UNCHANGED <<current, approved, revisions, decisions>>
                   /\ status' \in {status, "draft", "amendment_draft", "closed"}
<1>a. same => RecordInv'
  <2> SUFFICES ASSUME same PROVE RecordInv'
    OBVIOUS
  <2>1. \A r, s : Decided(r, s)' = Decided(r, s)
    BY DEF Decided
  <2>2. \A r, s : Outcome(r, s)' = Outcome(r, s)
    BY <2>1 DEF Outcome
  <2>3. Outcome(current, "supervisor")' = Outcome(current, "supervisor")
        /\ Outcome(current, "validator")' = Outcome(current, "validator")
    BY <2>1 DEF Outcome, Decided
  <2>4. VerdictsMatch'
    BY <2>3 DEF RecordInv, VerdictsMatch
  <2>5. OneDecision'
    BY DEF RecordInv, OneDecision
  <2>6. \A s : /\ Decided(approved, s)' = Decided(approved, s)
               /\ Outcome(approved, s)' = Outcome(approved, s)
    BY <2>1 DEF Outcome, Decided
  <2>7. ApprovedChain'
    BY <2>6 DEF RecordInv, ApprovedChain
  <2> QED
    BY <2>4, <2>5, <2>7 DEF RecordInv
<1>1. Quiet => same
  BY DEF Quiet, pointers, evidence
<1>2. ASSUME NEW u \in User, NEW p \in Plan, CreateActivity(u, p)
      PROVE  same
  BY <1>2 DEF CreateActivity, pointers
<1>3. ASSUME NEW u \in User, NEW p \in Plan, ReplaceActivity(u, p)
      PROVE  same
  BY <1>3 DEF ReplaceActivity, pointers
<1>4. ASSUME NEW u \in User, Entering(u)
      PROVE  RecordInv'
  <2>1. /\ status' = "submitted" /\ current' = Len(revisions) + 1
        /\ UNCHANGED <<approved, decisions>>
        /\ \A r \in 1..Len(revisions) : revisions'[r] = revisions[r]
    BY <1>4, EnteringEffect DEF ShapeInv
  <2>2. OneDecision'
    BY <2>1 DEF RecordInv, OneDecision
  <2>3. \A d \in decisions : d.revision # Len(revisions) + 1
    BY DEF DutiesInv, DecisionsOnRecord, TypeOK
  <2>4. /\ Outcome(current, "supervisor")' = {}
        /\ Outcome(current, "validator")' = {}
    BY <2>1, <2>3 DEF Outcome, Decided
  <2>5. VerdictsMatch'
    BY <2>1, <2>4 DEF VerdictsMatch
  <2>6. approved # 0 => revisions'[approved] = revisions[approved]
    BY <2>1 DEF TypeOK
  <2>7. \A s : /\ Decided(approved, s)' = Decided(approved, s)
               /\ Outcome(approved, s)' = Outcome(approved, s)
    BY <2>1 DEF Outcome, Decided
  <2>8. ApprovedChain'
    BY <2>1, <2>6, <2>7 DEF RecordInv, ApprovedChain
  <2> QED
    BY <2>2, <2>5, <2>8 DEF RecordInv
<1>5. ASSUME NEW u \in User, OpenAmendment(u) \/ CloseActivity(u)
      PROVE  same
  BY <1>5 DEF OpenAmendment, CloseActivity, evidence, pointers
<1>6. ASSUME NEW u \in User, Cancelling(u)
      PROVE  RecordInv'
  <2>1. /\ status' = "approved" /\ UNCHANGED <<approved, revisions, decisions>>
    BY <1>6, CancellingEffect DEF ShapeInv, evidence
  <2>2. OneDecision'
    BY <2>1 DEF RecordInv, OneDecision
  <2>3. VerdictsMatch'
    BY <2>1 DEF VerdictsMatch
  <2>4. ApprovedChain'
    BY <2>1 DEF RecordInv, ApprovedChain, Outcome, Decided
  <2> QED
    BY <2>2, <2>3, <2>4 DEF RecordInv
<1>7. ASSUME NEW u \in User, Judging(u)
      PROVE  RecordInv'
  <2>1. /\ UNCHANGED <<current, approved, revisions>>
        /\ status \in UnderReview
        /\ current > approved
    BY <1>7, JudgingEffect DEF pointers, ShapeInv, Pointers
  <2>2. PICK c : c = current
    OBVIOUS
  <2>3. ASSUME NEW stage \in {"supervisor", "validator"},
               NEW outcome, NEW requested, Record(u, stage, outcome, requested)
        PROVE  ApprovedChain'
    <3>1. PICK a : a = approved
      OBVIOUS
    <3>2. \A s : /\ Decided(a, s)' = Decided(a, s)
                 /\ Outcome(a, s)' = Outcome(a, s)
      BY <2>1, <2>3, <3>1, ElsewhereAfter DEF TypeOK
    <3>3. \A s : /\ Decided(approved, s)' = Decided(approved, s)
                 /\ Outcome(approved, s)' = Outcome(approved, s)
      BY <2>1, <3>1, <3>2 DEF Decided, Outcome
    <3> QED
      BY <2>1, <3>3 DEF RecordInv, ApprovedChain
  <2>4. CASE Prevalidate(u)
    <3>1. /\ Record(u, "supervisor", "prevalidated", FALSE)
          /\ status = "submitted" /\ status' = "prevalidated"
      BY <2>4 DEF Prevalidate, MayPrevalidate
    <3>2. Outcome(current, "supervisor") = {} /\ Outcome(current, "validator") = {}
      BY <3>1 DEF RecordInv, VerdictsMatch
    <3>3. /\ Outcome(c, "supervisor")' = {"prevalidated"}
          /\ Outcome(c, "validator")' = {}
      BY <2>2, <3>1, <3>2, SupervisorAfter
    <3>4. VerdictsMatch'
      BY <2>1, <2>2, <3>1, <3>3 DEF VerdictsMatch, Outcome, Decided
    <3> QED
      BY <2>3, <3>1, <3>2, <3>4, OneAfter DEF RecordInv
  <2>5. CASE ReturnBySupervisor(u)
    <3>1. /\ Record(u, "supervisor", "returned", FALSE)
          /\ status = "submitted" /\ status' = "returned_supervisor"
      BY <2>5 DEF ReturnBySupervisor, MayPrevalidate
    <3>2. Outcome(current, "supervisor") = {} /\ Outcome(current, "validator") = {}
      BY <3>1 DEF RecordInv, VerdictsMatch
    <3>3. /\ Outcome(c, "supervisor")' = {"returned"}
          /\ Outcome(c, "validator")' = {}
      BY <2>2, <3>1, <3>2, SupervisorAfter
    <3>4. VerdictsMatch'
      BY <2>1, <2>2, <3>1, <3>3 DEF VerdictsMatch, Outcome, Decided
    <3> QED
      BY <2>3, <3>1, <3>2, <3>4, OneAfter DEF RecordInv
  <2>6. CASE \E requested \in BOOLEAN : ReturnByValidator(u, requested)
    <3>1. PICK requested \in BOOLEAN : ReturnByValidator(u, requested)
      BY <2>6
    <3>2. /\ Record(u, "validator", "returned", requested)
          /\ status = "prevalidated" /\ status' = "returned_validator"
      BY <3>1 DEF ReturnByValidator, MayDecideFinally
    <3>3. /\ Outcome(current, "supervisor") = {"prevalidated"}
          /\ Outcome(current, "validator") = {}
      BY <3>2 DEF RecordInv, VerdictsMatch
    <3>4. /\ Outcome(c, "supervisor")' = {"prevalidated"}
          /\ Outcome(c, "validator")' = {"returned"}
      BY <2>2, <3>2, <3>3, ValidatorAfter
    <3>5. VerdictsMatch'
      BY <2>1, <2>2, <3>2, <3>4 DEF VerdictsMatch, Outcome, Decided
    <3> QED
      BY <2>3, <3>2, <3>3, <3>5, OneAfter DEF RecordInv
  <2> QED
    BY <1>7, <2>4, <2>5, <2>6 DEF Judging
<1>8. ASSUME NEW u \in User, ApprovePlan(u) \/ ApproveTransfer(u)
      PROVE  RecordInv'
  <2>1. /\ status = "prevalidated" /\ status' = "approved" /\ current # 0
        /\ current' = current /\ approved' = current
        /\ PrevalidatedByAnother(u) /\ revisions' = revisions
        /\ Record(u, "validator", "approved", FALSE)
    BY <1>8, ApprovingEffect, RecordEffect
  <2>2. PICK c, asked : c = current /\ asked = FALSE
    OBVIOUS
  <2>r. Record(u, "validator", "approved", asked)
    BY <2>1, <2>2
  <2>3. /\ Outcome(current, "supervisor") = {"prevalidated"}
        /\ Outcome(current, "validator") = {}
    BY <2>1 DEF RecordInv, VerdictsMatch
  <2>4. OneDecision'
    BY <2>1, <2>3, OneAfter DEF RecordInv
  <2>5. VerdictsMatch'
    BY <2>1 DEF VerdictsMatch
  <2>6. /\ Outcome(c, "supervisor")' = {"prevalidated"}
        /\ Outcome(c, "validator")' = {"approved"}
    BY <2>r, <2>2, <2>3, ValidatorAfter
  <2>7. /\ Decided(c, "supervisor")' = Decided(c, "supervisor")
        /\ Decided(c, "validator")' = Decided(c, "validator")
               \cup {Recording(u, "validator", "approved", asked)}
    BY <2>r, <2>2, ValidatorAfter
  <2>8. Decided(c, "validator") = {}
    BY <2>2, <2>3 DEF Outcome
  <2>9. \A s \in Decided(c, "supervisor") : s.actor # u
    <3>1. PICK d \in Decided(current, "supervisor") : d.actor # u
      BY <2>1 DEF PrevalidatedByAnother
    <3>2. \A s \in Decided(current, "supervisor") : s = d
      BY <3>1 DEF Decided, RecordInv, OneDecision
    <3> QED
      BY <2>2, <3>1, <3>2
  <2>10. Recording(u, "validator", "approved", asked).actor = u
    BY DEF Recording
  <2>11. revisions[current].kind # "withdrawal"
    BY <1>8 DEF ApprovePlan, ApproveTransfer
  <2>12. \A s \in Decided(c, "supervisor")', v \in Decided(c, "validator")' :
             s.actor # v.actor
    BY <2>7, <2>8, <2>9, <2>10
  <2>13. ApprovedChain'
    BY <2>1, <2>2, <2>6, <2>11, <2>12 DEF ApprovedChain, Outcome, Decided
  <2> QED
    BY <2>4, <2>5, <2>13 DEF RecordInv
<1>9. ASSUME NEW u \in User, ApproveWithdrawal(u)
      PROVE  RecordInv'
  <2>1. /\ status = "prevalidated" /\ status' = "withdrawn"
        /\ UNCHANGED <<current, approved, revisions>>
        /\ Record(u, "validator", "approved", FALSE)
        /\ current > approved
    BY <1>9, WithdrawingEffect DEF pointers, ShapeInv, Pointers
  <2>2. PICK c, a : c = current /\ a = approved
    OBVIOUS
  <2>a. PICK asked : asked = FALSE
    OBVIOUS
  <2>r. Record(u, "validator", "approved", asked)
    BY <2>1, <2>a
  <2>3. /\ Outcome(current, "supervisor") = {"prevalidated"}
        /\ Outcome(current, "validator") = {}
    BY <2>1 DEF RecordInv, VerdictsMatch
  <2>4. OneDecision'
    BY <2>1, <2>3, OneAfter DEF RecordInv
  <2>5. /\ Outcome(c, "supervisor")' = {"prevalidated"}
        /\ Outcome(c, "validator")' = {"approved"}
    BY <2>r, <2>2, <2>3, ValidatorAfter
  <2>6. VerdictsMatch'
    BY <2>1, <2>2, <2>5 DEF VerdictsMatch, Outcome, Decided
  <2>7. \A s : /\ Decided(a, s)' = Decided(a, s)
               /\ Outcome(a, s)' = Outcome(a, s)
    BY <2>1, <2>r, <2>2, ElsewhereAfter DEF TypeOK
  <2>8. \A s : /\ Decided(approved, s)' = Decided(approved, s)
               /\ Outcome(approved, s)' = Outcome(approved, s)
    BY <2>1, <2>2, <2>7 DEF Decided, Outcome
  <2>9. ApprovedChain'
    BY <2>1, <2>8 DEF RecordInv, ApprovedChain
  <2> QED
    BY <2>4, <2>6, <2>9 DEF RecordInv
<1>10. ASSUME NEW u \in User, NEW o \in Operation, StartOperation(u, o)
      PROVE  same
  BY <1>10 DEF StartOperation, pointers, evidence
<1> HIDE DEF same
<1> QED
  BY <1>a, <1>1, <1>2, <1>3, <1>4, <1>5, <1>6, <1>7, <1>8, <1>9, <1>10,
     StepKinds

-----------------------------------------------------------------------------
(* What was submitted, and what is live. *)

(* A submitted plan starts in the year it plans for, only a transfer plans for
   another year than that of its PTA, and its Operations have rows. *)
PlansSound ==
    \A r \in 1..Len(revisions) :
        /\ revisions[r].plan.start = revisions[r].year
        /\ revisions[r].kind # "transfer" => revisions[r].from = revisions[r].year
        /\ revisions[r].plan.ops \subseteq known

(* So does the live plan, which sits where the approved revision put it. *)
LiveSound ==
    /\ status # "none" => plan.start = placement /\ plan.ops \subseteq known
    /\ approved # 0 => placement = revisions[approved].year

(* A withdrawal carries the approved plan, a transfer the approved plan in a
   later year. *)
LifecycleSound ==
    status \in Pending \cup {"withdrawn"} =>
        /\ withdrawal # 0 => revisions[current].plan = revisions[approved].plan
        /\ transfer # 0 =>
               /\ revisions[current].year > placement
               /\ revisions[current].plan
                      = [revisions[approved].plan EXCEPT !.start = revisions[current].year]

PlanInv == PlansSound /\ LiveSound /\ LifecycleSound /\ LiveMatchesRecord

LEMMA MovedPlan ==
  ASSUME NEW p \in Plan, NEW y \in Year
  PROVE  /\ [p EXCEPT !.start = y] \in Plan
         /\ [p EXCEPT !.start = y].start = y
         /\ [p EXCEPT !.start = y].ops = p.ops
         /\ [p EXCEPT !.start = y].total = p.total
BY DEF Plan

(* The plan a submission records. *)
LEMMA EnteringPlan ==
  ASSUME TypeOK, ShapeInv, PlanInv, NEW u \in User, Entering(u)
  PROVE  /\ revisions'[current'].plan.start = revisions'[current'].year
         /\ revisions'[current'].kind # "transfer" =>
                revisions'[current'].from = revisions'[current'].year
         /\ revisions'[current'].plan.ops = plan.ops
         /\ revisions'[current'].plan.total = plan.total
         /\ status # "none"
<1> DEFINE new == revisions'[current']
<1>1. /\ new \in Revision /\ new.from = placement
      /\ \/ new.kind # "transfer" /\ new.plan = plan /\ new.year = placement
         \/ /\ new.kind = "transfer"
            /\ new.plan = [plan EXCEPT !.start = new.year]
      /\ status # "none"
  BY EnteringEffect DEF ShapeInv, Returned
<1> HIDE DEF new
<1>2. new.year \in Year /\ plan \in Plan
  BY <1>1 DEF Revision, TypeOK
<1>3. status # "none" /\ plan.start = placement
  BY <1>1 DEF PlanInv, LiveSound
<1>4. CASE new.kind # "transfer" /\ new.plan = plan /\ new.year = placement
  BY <1>1, <1>3, <1>4 DEF new
<1>5. CASE new.kind = "transfer" /\ new.plan = [plan EXCEPT !.start = new.year]
  BY <1>2, <1>3, <1>5, MovedPlan DEF new
<1> QED
  BY <1>1, <1>4, <1>5

LEMMA StepPlansSound ==
  ASSUME TypeOK, TypeOK', ShapeInv, PlanInv, [Next]_vars
  PROVE  PlansSound'
<1> DEFINE same == revisions' = revisions /\ known \subseteq known'
<1>a. same => PlansSound'
  BY DEF PlanInv, PlansSound
<1>1. Quiet => same
  BY DEF Quiet, evidence, content
<1>2. ASSUME NEW u \in User, NEW p \in Plan, CreateActivity(u, p)
      PROVE  PlansSound'
  <2>1. revisions' = <<>>
    BY <1>2 DEF CreateActivity, MayCreate, ShapeInv, Pointers
  <2> QED
    BY <2>1 DEF PlansSound
<1>3. ASSUME NEW u \in User, NEW p \in Plan, ReplaceActivity(u, p)
      PROVE  same
  BY <1>3 DEF ReplaceActivity
<1>4. ASSUME NEW u \in User, Entering(u)
      PROVE  PlansSound'
  <2> DEFINE n == Len(revisions)
  <2>1. /\ current' = n + 1 /\ Len(revisions') = n + 1 /\ n \in Nat
        /\ \A r \in 1..n : revisions'[r] = revisions[r]
        /\ known' = known
    BY <1>4, EnteringEffect DEF ShapeInv, content, TypeOK
  <2>2. plan.ops \subseteq known
    BY <1>4, EnteringPlan DEF PlanInv, LiveSound
  <2>3. /\ revisions'[n + 1].plan.start = revisions'[n + 1].year
        /\ revisions'[n + 1].kind # "transfer" =>
               revisions'[n + 1].from = revisions'[n + 1].year
        /\ revisions'[n + 1].plan.ops \subseteq known
    BY <1>4, <2>1, <2>2, EnteringPlan
  <2>4. \A r \in 1..(n + 1) : r = n + 1 \/ r \in 1..n
    BY <2>1
  <2> HIDE DEF n
  <2> QED
    BY <2>1, <2>3, <2>4 DEF PlanInv, PlansSound, n
<1>5. ASSUME NEW u \in User, OpenAmendment(u) \/ CloseActivity(u)
      PROVE  same
  BY <1>5 DEF OpenAmendment, CloseActivity, evidence, content
<1>6. ASSUME NEW u \in User, Cancelling(u)
      PROVE  same
  BY <1>6, CancellingEffect DEF ShapeInv, PlanInv, LiveMatchesRecord, evidence
<1>7. ASSUME NEW u \in User, Judging(u)
      PROVE  same
  BY <1>7, JudgingEffect DEF content
<1>8. ASSUME NEW u \in User,
             ApprovePlan(u) \/ ApproveTransfer(u) \/ ApproveWithdrawal(u)
      PROVE  same
  BY <1>8 DEF ApprovePlan, ApproveTransfer, ApproveWithdrawal, Record
<1>9. ASSUME NEW u \in User, NEW o \in Operation, StartOperation(u, o)
      PROVE  same
  BY <1>9 DEF StartOperation, evidence, content
<1> HIDE DEF same
<1> QED
  BY <1>a, <1>1, <1>2, <1>3, <1>4, <1>5, <1>6, <1>7, <1>8, <1>9, StepKinds

(* What the approval of a plan or of a transfer makes of the live content. *)
LEMMA ApprovingPlan ==
  ASSUME TypeOK, ShapeInv, PlanInv, NEW u \in User,
         ApprovePlan(u) \/ ApproveTransfer(u)
  PROVE  /\ plan' = revisions[current].plan
         /\ placement' = revisions[current].year
         /\ known' = known
         /\ plan'.ops = plan.ops
<1>1. /\ status \in Pending /\ current \in 1..Len(revisions) /\ withdrawal = 0
      /\ status = "prevalidated" /\ known' = known
  BY ApprovingEffect DEF Pending, UnderReview, TypeOK, Record
<1>2. /\ revisions[current] \in Revision
      /\ revisions[current].plan.start = revisions[current].year
      /\ revisions[current].kind # "transfer" =>
             revisions[current].from = revisions[current].year
      /\ revisions[current].from = placement
  BY <1>1 DEF PlanInv, PlansSound, ShapeInv, Candidate, TypeOK
<1>3. CASE ApprovePlan(u)
  <2>1. /\ revisions[current].kind # "transfer"
        /\ plan' = plan /\ placement' = placement
    BY <1>3 DEF ApprovePlan
  <2>2. transfer = 0
    BY <1>1, <2>1 DEF ShapeInv, Candidate
  <2>3. plan = revisions[current].plan
    BY <1>1, <2>2 DEF PlanInv, LiveMatchesRecord, CandidateUnchanged,
       UnderReview
  <2> QED
    BY <1>1, <1>2, <2>1, <2>3
<1>4. CASE ApproveTransfer(u)
  <2>1. /\ revisions[current].kind = "transfer"
        /\ plan' = [plan EXCEPT !.start = revisions[current].plan.start]
        /\ placement' = revisions[current].year
    BY <1>4 DEF ApproveTransfer, TransferredStart
  <2>2. transfer # 0 /\ amendment = 0 /\ approved # 0
    BY <1>1, <2>1 DEF ShapeInv, Candidate, Pointers, NothingPending,
       AmendmentOnly, TransferOnly, WithdrawalOnly
  <2>3. /\ revisions[current].plan
               = [revisions[approved].plan EXCEPT !.start = revisions[current].year]
        /\ plan = revisions[approved].plan
    BY <1>1, <2>2 DEF PlanInv, LifecycleSound, LiveMatchesRecord,
       BaselineStands
  <2>4. plan' = revisions[current].plan
    BY <1>2, <2>1, <2>3
  <2>5. revisions[current].year \in Year /\ plan \in Plan
    BY <1>2 DEF Revision, TypeOK
  <2>6. plan'.ops = plan.ops
    BY <1>2, <2>1, <2>5, MovedPlan
  <2> QED
    BY <1>1, <2>1, <2>4, <2>6
<1> QED
  BY <1>3, <1>4

LEMMA StepLiveSound ==
  ASSUME TypeOK, TypeOK', ShapeInv, PlanInv, [Next]_vars
  PROVE  LiveSound'
<1> DEFINE same == /\ UNCHANGED <<plan, placement, approved, revisions>>
                   /\ known \subseteq known'
                   /\ status = "none" => status' = "none"
<1>a. same => LiveSound'
  BY DEF PlanInv, LiveSound
<1>1. Quiet => same
  BY DEF Quiet, evidence, content, pointers
<1>2. ASSUME NEW u \in User, NEW p \in Plan, CreateActivity(u, p)
      PROVE  LiveSound'
  BY <1>2 DEF CreateActivity, MayCreate, ShapeInv, Pointers, LiveSound,
     pointers
<1>3. ASSUME NEW u \in User, NEW p \in Plan, ReplaceActivity(u, p)
      PROVE  LiveSound'
  BY <1>3 DEF ReplaceActivity, ValidPlan, MayEdit, Editable, PlanInv,
     LiveSound, pointers
<1>4. ASSUME NEW u \in User, Entering(u)
      PROVE  LiveSound'
  <2>1. /\ UNCHANGED <<plan, placement, known, approved>>
        /\ \A r \in 1..Len(revisions) : revisions'[r] = revisions[r]
    BY <1>4, EnteringEffect DEF ShapeInv, content
  <2>2. status # "none"
    BY <1>4, EnteringPlan
  <2>3. approved # 0 => revisions'[approved] = revisions[approved]
    BY <2>1 DEF TypeOK
  <2> QED
    BY <2>1, <2>2, <2>3 DEF PlanInv, LiveSound
<1>5. ASSUME NEW u \in User, OpenAmendment(u) \/ CloseActivity(u)
      PROVE  same
  BY <1>5 DEF OpenAmendment, MayOpenAmendment, CloseActivity,
     ClosureChecksPass, Running, evidence, content, pointers
<1>6. ASSUME NEW u \in User, Cancelling(u)
      PROVE  LiveSound'
  <2>1. /\ plan' = revisions[approved].plan
        /\ approved # 0 /\ UNCHANGED <<approved, known, placement, revisions>>
    BY <1>6, CancellingEffect DEF ShapeInv, PlanInv, LiveMatchesRecord,
       evidence
  <2>2. /\ placement = revisions[approved].year
        /\ revisions[approved].plan.start = revisions[approved].year
        /\ revisions[approved].plan.ops \subseteq known
    BY <2>1 DEF PlanInv, LiveSound, PlansSound, TypeOK
  <2> QED
    BY <2>1, <2>2 DEF LiveSound
<1>7. ASSUME NEW u \in User, Judging(u)
      PROVE  same
  BY <1>7, JudgingEffect DEF content, pointers, UnderReview
<1>8. ASSUME NEW u \in User, ApprovePlan(u) \/ ApproveTransfer(u)
      PROVE  LiveSound'
  <2>1. /\ approved' = current /\ revisions' = revisions
        /\ current \in 1..Len(revisions)
        /\ plan' = revisions[current].plan
        /\ placement' = revisions[current].year
        /\ known' = known
    BY <1>8, ApprovingPlan, ApprovingEffect DEF TypeOK, Record
  <2> QED
    BY <2>1 DEF PlanInv, PlansSound, LiveSound
<1>9. ASSUME NEW u \in User, ApproveWithdrawal(u)
      PROVE  same
  BY <1>9, WithdrawingEffect DEF content, pointers
<1>10. ASSUME NEW u \in User, NEW o \in Operation, StartOperation(u, o)
      PROVE  same
  BY <1>10 DEF StartOperation, Running, evidence, content, pointers
<1> HIDE DEF same
<1> QED
  BY <1>a, <1>1, <1>2, <1>3, <1>4, <1>5, <1>6, <1>7, <1>8, <1>9, <1>10,
     StepKinds

LEMMA StepLifecycle ==
  ASSUME TypeOK, TypeOK', ShapeInv, PlanInv, [Next]_vars
  PROVE  LifecycleSound'
<1> USE DEF Pending, UnderReview, Returned
<1> DEFINE same == /\ UNCHANGED <<current, approved, withdrawal, transfer,
                                  placement, revisions>>
                   /\ status' = status \/ status \in UnderReview
           idle == status' \notin Pending \cup {"withdrawn"}
                   \/ (withdrawal' = 0 /\ transfer' = 0)
<1>a. same => LifecycleSound'
  BY DEF PlanInv, LifecycleSound
<1>b. idle => LifecycleSound'
  BY DEF LifecycleSound
<1>1. Quiet => same
  BY DEF Quiet, evidence, content, pointers
<1>2. ASSUME NEW u \in User, NEW p \in Plan, CreateActivity(u, p)
      PROVE  idle
  BY <1>2 DEF CreateActivity
<1>3. ASSUME NEW u \in User, NEW p \in Plan, ReplaceActivity(u, p)
      PROVE  same
  BY <1>3 DEF ReplaceActivity, pointers
<1>4. ASSUME NEW u \in User, Entering(u)
      PROVE  LifecycleSound'
  <2>1. /\ UNCHANGED <<plan, placement, approved>>
        /\ \A r \in 1..Len(revisions) : revisions'[r] = revisions[r]
    BY <1>4, EnteringEffect DEF ShapeInv, content
  <2>2. approved # 0 => revisions'[approved] = revisions[approved]
    BY <2>1 DEF TypeOK
  <2>3. \/ NothingPending' \/ AmendmentOnly'
        \/ /\ WithdrawalOnly'
           /\ status = "approved" \/ (status \in Returned /\ WithdrawalOnly)
           /\ revisions'[current'].plan = plan
        \/ /\ TransferOnly'
           /\ status = "approved" \/ (status \in Returned /\ TransferOnly)
           /\ revisions'[current'].plan
                  = [plan EXCEPT !.start = revisions'[current'].year]
           /\ revisions'[current'].year > placement
    BY <1>4, EnteringEffect DEF ShapeInv
  <2>4. (status = "approved" \/ (status \in Returned /\ (WithdrawalOnly \/ TransferOnly)))
        => approved # 0 /\ plan = revisions[approved].plan
    BY DEF ShapeInv, Pointers, PlanInv, LiveMatchesRecord, BaselineStands,
       WithdrawalOnly, TransferOnly, NothingPending
  <2>5. CASE NothingPending' \/ AmendmentOnly'
    BY <2>5 DEF LifecycleSound, NothingPending, AmendmentOnly
  <2>6. CASE /\ WithdrawalOnly'
             /\ status = "approved" \/ (status \in Returned /\ WithdrawalOnly)
             /\ revisions'[current'].plan = plan
    BY <2>1, <2>2, <2>4, <2>6 DEF LifecycleSound, WithdrawalOnly
  <2>7. CASE /\ TransferOnly'
             /\ status = "approved" \/ (status \in Returned /\ TransferOnly)
             /\ revisions'[current'].plan
                    = [plan EXCEPT !.start = revisions'[current'].year]
             /\ revisions'[current'].year > placement
    <3>1. plan = revisions'[approved'].plan /\ placement' = placement
      BY <2>1, <2>2, <2>4, <2>7
    <3>2. revisions'[current'].plan
              = [revisions'[approved'].plan EXCEPT !.start = revisions'[current'].year]
      BY <2>7, <3>1
    <3> QED
      BY <2>7, <3>1, <3>2 DEF LifecycleSound, TransferOnly
  <2> QED
    BY <2>3, <2>5, <2>6, <2>7
<1>5. ASSUME NEW u \in User, OpenAmendment(u) \/ CloseActivity(u)
      PROVE  idle
  BY <1>5 DEF OpenAmendment, CloseActivity
<1>6. ASSUME NEW u \in User, Cancelling(u)
      PROVE  idle
  BY <1>6, CancellingEffect DEF ShapeInv, PlanInv, LiveMatchesRecord,
     NothingPending
<1>7. ASSUME NEW u \in User, Judging(u)
      PROVE  same
  BY <1>7, JudgingEffect DEF content, pointers
<1>8. ASSUME NEW u \in User, ApprovePlan(u) \/ ApproveTransfer(u)
      PROVE  idle
  BY <1>8, ApprovingEffect DEF NothingPending
<1>9. ASSUME NEW u \in User, ApproveWithdrawal(u)
      PROVE  same
  BY <1>9, WithdrawingEffect DEF content, pointers
<1>10. ASSUME NEW u \in User, NEW o \in Operation, StartOperation(u, o)
      PROVE  same
  BY <1>10 DEF StartOperation, evidence, content, pointers
<1> HIDE DEF same, idle
<1> QED
  BY <1>a, <1>b, <1>1, <1>2, <1>3, <1>4, <1>5, <1>6, <1>7, <1>8, <1>9, <1>10,
     StepKinds

LEMMA StepLiveMatches ==
  ASSUME TypeOK, TypeOK', ShapeInv, PlanInv, [Next]_vars
  PROVE  LiveMatchesRecord'
<1> USE DEF Pending, UnderReview, Returned
<1> DEFINE same == /\ UNCHANGED <<current, approved, amendment, withdrawal,
                                  transfer, plan, revisions, contributors>>
                   /\ \/ status' = status
                      \/ /\ status \in UnderReview
                         /\ status' \in Pending \cup {"withdrawn"}
                      \/ status' = "closed"
<1>a. same => LiveMatchesRecord'
  BY DEF PlanInv, LiveMatchesRecord, BaselineStands, CandidateUnchanged,
     ContributorsOnRecord
<1>1. Quiet => same
  BY DEF Quiet, evidence, content, pointers
<1>2. ASSUME NEW u \in User, NEW p \in Plan, CreateActivity(u, p)
      PROVE  LiveMatchesRecord'
  BY <1>2 DEF CreateActivity, MayCreate, pointers, ShapeInv, Pointers,
     LiveMatchesRecord, BaselineStands, CandidateUnchanged,
     ContributorsOnRecord
<1>3. ASSUME NEW u \in User, NEW p \in Plan, ReplaceActivity(u, p)
      PROVE  LiveMatchesRecord'
  <2>1. /\ UNCHANGED <<status, current, approved, amendment, revisions>>
        /\ status \in Editable /\ withdrawal = 0 /\ transfer = 0
    BY <1>3 DEF ReplaceActivity, MayEdit, pointers
  <2>2. approved # 0 => amendment # 0
    BY <2>1 DEF ShapeInv, Pointers, Editable, NothingPending, AmendmentOnly,
       WithdrawalOnly, TransferOnly
  <2>3. status \notin UnderReview
    BY <2>1 DEF Editable
  <2> QED
    BY <2>1, <2>2, <2>3 DEF PlanInv, LiveMatchesRecord, BaselineStands,
       CandidateUnchanged, ContributorsOnRecord
<1>4. ASSUME NEW u \in User, Entering(u)
      PROVE  LiveMatchesRecord'
  <2>1. /\ UNCHANGED <<plan, approved>>
        /\ \A r \in 1..Len(revisions) : revisions'[r] = revisions[r]
        /\ contributors' = contributors \cup {u}
        /\ revisions'[current'].submitter = u
        /\ revisions'[current'].contributors = contributors'
    BY <1>4, EnteringEffect DEF ShapeInv, content
  <2>2. approved # 0 => revisions'[approved] = revisions[approved]
    BY <2>1 DEF TypeOK
  <2>3. \/ NothingPending' /\ revisions'[current'].plan = plan
           /\ NothingPending /\ status \in {"draft"} \cup Returned
        \/ AmendmentOnly' /\ revisions'[current'].plan = plan
        \/ /\ WithdrawalOnly' \/ TransferOnly'
           /\ \/ status = "approved"
              \/ status \in Returned /\ (WithdrawalOnly \/ TransferOnly)
    BY <1>4, EnteringEffect DEF ShapeInv
  <2>4. BaselineStands'
    <3>1. CASE approved = 0
      BY <2>1, <3>1 DEF BaselineStands
    <3>2. CASE AmendmentOnly'
      BY <3>2 DEF BaselineStands, AmendmentOnly
    <3>3. CASE approved # 0 /\ ~AmendmentOnly'
      <4>1. amendment = 0
        BY <2>3, <3>3 DEF ShapeInv, Pointers, NothingPending, WithdrawalOnly,
           TransferOnly
      <4> QED
        BY <2>1, <2>2, <3>3, <4>1 DEF BaselineStands, PlanInv,
           LiveMatchesRecord
    <3> QED
      BY <3>1, <3>2, <3>3
  <2>5. CandidateUnchanged'
    BY <2>1, <2>3 DEF CandidateUnchanged, WithdrawalOnly, TransferOnly
  <2>6. ContributorsOnRecord'
    BY <2>1 DEF ContributorsOnRecord
  <2> QED
    BY <2>4, <2>5, <2>6 DEF LiveMatchesRecord
<1>5. ASSUME NEW u \in User, OpenAmendment(u)
      PROVE  LiveMatchesRecord'
  <2>1. amendment' # 0 /\ status' = "amendment_draft"
    BY <1>5 DEF OpenAmendment, MayOpenAmendment, ShapeInv, Pointers, TypeOK
  <2> QED
    BY <2>1 DEF LiveMatchesRecord, BaselineStands, CandidateUnchanged,
       ContributorsOnRecord
<1>6. ASSUME NEW u \in User, Cancelling(u)
      PROVE  LiveMatchesRecord'
  <2>1. /\ status' = "approved" /\ plan' = revisions[approved].plan
        /\ UNCHANGED <<approved, revisions>>
    BY <1>6, CancellingEffect DEF ShapeInv, PlanInv, LiveMatchesRecord,
       evidence
  <2> QED
    BY <2>1 DEF LiveMatchesRecord, BaselineStands, CandidateUnchanged,
       ContributorsOnRecord
<1>7. ASSUME NEW u \in User, Judging(u)
      PROVE  same
  BY <1>7, JudgingEffect DEF content, pointers
<1>8. ASSUME NEW u \in User, ApprovePlan(u) \/ ApproveTransfer(u)
      PROVE  LiveMatchesRecord'
  <2>1. /\ approved' = current /\ revisions' = revisions
        /\ plan' = revisions[current].plan /\ status' = "approved"
    BY <1>8, ApprovingPlan, ApprovingEffect DEF Record
  <2> QED
    BY <2>1 DEF LiveMatchesRecord, BaselineStands, CandidateUnchanged,
       ContributorsOnRecord
<1>9. ASSUME NEW u \in User, ApproveWithdrawal(u)
      PROVE  same
  BY <1>9, WithdrawingEffect DEF content, pointers
<1>10. ASSUME NEW u \in User, NEW o \in Operation, StartOperation(u, o)
      PROVE  same
  BY <1>10 DEF StartOperation, evidence, content, pointers
<1>11. ASSUME NEW u \in User, CloseActivity(u)
      PROVE  same
  BY <1>11 DEF CloseActivity, evidence, content, pointers
<1> HIDE DEF same
<1> QED
  BY <1>a, <1>1, <1>2, <1>3, <1>4, <1>5, <1>6, <1>7, <1>8, <1>9, <1>10, <1>11,
     StepKinds

-----------------------------------------------------------------------------
(* Operations: those of the approved plan are in every candidate, only those
   were started, and none was where a withdrawal or a transfer is pending. *)
OperationsInv ==
    /\ OperationsSurvive
    /\ approved # 0 /\ current # 0 =>
           revisions[approved].plan.ops \subseteq revisions[current].plan.ops
    /\ started \subseteq (IF approved = 0 THEN {} ELSE revisions[approved].plan.ops)
    /\ withdrawal # 0 \/ transfer # 0 => started = {}

LEMMA StepOperations ==
  ASSUME TypeOK, TypeOK', ShapeInv, PlanInv, OperationsInv, [Next]_vars
  PROVE  OperationsInv'
<1> DEFINE same == UNCHANGED <<current, approved, withdrawal, transfer, plan,
                               revisions, started>>
<1>a. same => OperationsInv'
  BY DEF OperationsInv, OperationsSurvive
<1>1. Quiet => same
  BY DEF Quiet, evidence, content, pointers
<1>2. ASSUME NEW u \in User, NEW p \in Plan, CreateActivity(u, p)
      PROVE  OperationsInv'
  BY <1>2 DEF CreateActivity, MayCreate, pointers, execution, ShapeInv,
     Pointers, OperationsInv, OperationsSurvive
<1>3. ASSUME NEW u \in User, NEW p \in Plan, ReplaceActivity(u, p)
      PROVE  OperationsInv'
  <2>1. /\ UNCHANGED <<current, approved, withdrawal, transfer, revisions,
                       started>>
        /\ plan' = p
        /\ current # 0 => revisions[current].plan.ops \subseteq p.ops
        /\ started \cap plan.ops \subseteq p.ops
    BY <1>3 DEF ReplaceActivity, SubmittedOperationsKept,
       StartedOperationsKept, pointers, execution
  <2>2. approved # 0 => current # 0
    BY <1>3 DEF ReplaceActivity, MayEdit, Editable, ShapeInv, Pointers,
       Pending, Returned, TypeOK
  <2> QED
    BY <2>1, <2>2 DEF OperationsInv, OperationsSurvive
<1>4. ASSUME NEW u \in User, Entering(u)
      PROVE  OperationsInv'
  <2>1. /\ UNCHANGED <<plan, approved, started>>
        /\ \A r \in 1..Len(revisions) : revisions'[r] = revisions[r]
    BY <1>4, EnteringEffect DEF ShapeInv, content
  <2>2. approved # 0 => revisions'[approved] = revisions[approved]
    BY <2>1 DEF TypeOK
  <2>3. \/ NothingPending' \/ AmendmentOnly'
        \/ started = {}
    BY <1>4, EnteringEffect DEF ShapeInv
  <2>4. revisions'[current'].plan.ops = plan.ops
    BY <1>4, EnteringPlan
  <2> QED
    BY <2>1, <2>2, <2>3, <2>4 DEF OperationsInv, OperationsSurvive,
       NothingPending, AmendmentOnly
<1>5. ASSUME NEW u \in User, OpenAmendment(u)
      PROVE  same
  BY <1>5 DEF OpenAmendment, evidence, content, execution
<1>6. ASSUME NEW u \in User, Cancelling(u)
      PROVE  OperationsInv'
  <2>1. /\ approved # 0 /\ current' = approved /\ NothingPending'
        /\ plan' = revisions[approved].plan
        /\ UNCHANGED <<approved, revisions, started>>
    BY <1>6, CancellingEffect DEF ShapeInv, PlanInv, LiveMatchesRecord,
       evidence, execution
  <2> QED
    BY <2>1 DEF OperationsInv, OperationsSurvive, NothingPending
<1>7. ASSUME NEW u \in User, Judging(u)
      PROVE  same
  BY <1>7, JudgingEffect DEF content, pointers, execution
<1>8. ASSUME NEW u \in User, ApprovePlan(u) \/ ApproveTransfer(u)
      PROVE  OperationsInv'
  <2>1. /\ current # 0 /\ current' = current /\ approved' = current
        /\ NothingPending'
        /\ plan' = revisions[current].plan
        /\ UNCHANGED <<revisions, started>>
    BY <1>8, ApprovingPlan, ApprovingEffect DEF Record
  <2> QED
    BY <2>1 DEF OperationsInv, OperationsSurvive, NothingPending
<1>9. ASSUME NEW u \in User, ApproveWithdrawal(u)
      PROVE  same
  BY <1>9, WithdrawingEffect DEF content, pointers, execution
<1>10. ASSUME NEW u \in User, NEW o \in Operation, StartOperation(u, o)
      PROVE  OperationsInv'
  <2>1. /\ UNCHANGED <<current, approved, withdrawal, transfer, plan, revisions>>
        /\ started' = started \cup {o} /\ o \in revisions[approved].plan.ops
        /\ status = "approved"
    BY <1>10 DEF StartOperation, Running, evidence, content, pointers
  <2>2. approved # 0 /\ NothingPending
    BY <2>1 DEF ShapeInv, Pointers
  <2> QED
    BY <2>1, <2>2 DEF OperationsInv, OperationsSurvive, NothingPending
<1>11. ASSUME NEW u \in User, CloseActivity(u)
      PROVE  same
  BY <1>11 DEF CloseActivity, evidence, content, pointers, execution
<1> HIDE DEF same
<1> QED
  BY <1>a, <1>1, <1>2, <1>3, <1>4, <1>5, <1>6, <1>7, <1>8, <1>9, <1>10, <1>11,
     StepKinds

-----------------------------------------------------------------------------
(* Totals. *)

(* The identifier of a request was drawn at a version of the past, that of an
   amendment in preparation after every revision. *)
RequestsOld ==
    /\ \A r \in 1..Len(revisions) : revisions[r].request < version
    /\ status = "amendment_draft" =>
           /\ amendment < version
           /\ \A r \in 1..Len(revisions) : revisions[r].request < amendment

(* While a returned revision is corrected its total stands where it must. *)
TotalHeld ==
    status \in Returned /\ TotalLocked =>
        plan.total = revisions[current].plan.total

TotalsInv == RequestsOld /\ TotalHeld /\ CorrectionsKeepTotal

LEMMA RevisionAt ==
  ASSUME TypeOK, NEW r \in 1..Len(revisions)
  PROVE  /\ revisions[r] \in Revision
         /\ revisions[r].request \in Nat
         /\ revisions[r].plan \in Plan
         /\ revisions[r].year \in Year
<1>1. revisions[r] \in Revision
  BY DEF TypeOK
<1> QED
  BY <1>1 DEF Revision

LEMMA StepRequests ==
  ASSUME TypeOK, TypeOK', ShapeInv, PlanInv, TotalsInv, [Next]_vars
  PROVE  RequestsOld'
<1> DEFINE same == /\ revisions' = revisions /\ version' >= version
                   /\ \/ UNCHANGED <<status, amendment>>
                      \/ status' # "amendment_draft"
<1>a. same => RequestsOld'
  <2> SUFFICES ASSUME same PROVE RequestsOld'
    OBVIOUS
  <2>1. \A r \in 1..Len(revisions) : revisions[r].request \in Nat
    BY RevisionAt
  <2>2. /\ version \in Nat /\ version' \in Nat /\ version' >= version
        /\ amendment \in Nat /\ revisions' = revisions
    BY DEF TypeOK
  <2>3. \A r \in 1..Len(revisions') : revisions'[r].request < version'
    BY <2>1, <2>2 DEF TotalsInv, RequestsOld
  <2>4. status' = "amendment_draft" =>
            /\ amendment' < version'
            /\ \A r \in 1..Len(revisions') : revisions'[r].request < amendment'
    BY <2>2 DEF TotalsInv, RequestsOld
  <2> QED
    BY <2>3, <2>4 DEF RequestsOld
<1>1. Quiet => same
  BY DEF Quiet, evidence, pointers
<1>2. ASSUME NEW u \in User, NEW p \in Plan, CreateActivity(u, p)
      PROVE  RequestsOld'
  <2>1. revisions' = <<>> /\ status' = "draft"
    BY <1>2 DEF CreateActivity, MayCreate, ShapeInv, Pointers
  <2> QED
    BY <2>1 DEF RequestsOld
<1>3. ASSUME NEW u \in User, NEW p \in Plan, ReplaceActivity(u, p)
      PROVE  same
  BY <1>3 DEF ReplaceActivity, pointers, TypeOK
<1>4. ASSUME NEW u \in User, Entering(u)
      PROVE  RequestsOld'
  <2> DEFINE n == Len(revisions)
  <2>1. /\ current' = n + 1 /\ Len(revisions') = n + 1 /\ n \in Nat
        /\ \A r \in 1..n : revisions'[r] = revisions[r]
        /\ status' = "submitted" /\ version' = version + 1
    BY <1>4, EnteringEffect DEF ShapeInv, TypeOK
  <2>2. \/ status # "none" /\ revisions'[current'].request = 0
        \/ /\ status \in {"amendment_draft"} \cup Returned
           /\ amendment # 0 /\ amendment' = amendment
           /\ revisions'[current'].kind = "amendment"
           /\ revisions'[current'].request = amendment
        \/ /\ revisions'[current'].request = withdrawal'
           /\ \/ withdrawal' = version
              \/ status \in Returned /\ withdrawal # 0 /\ withdrawal' = withdrawal
        \/ /\ revisions'[current'].request = transfer'
           /\ \/ transfer' = version
              \/ status \in Returned /\ transfer # 0 /\ transfer' = transfer
    BY <1>4, EnteringEffect DEF ShapeInv, AmendmentOnly, WithdrawalOnly,
       TransferOnly, Returned
  <2>3. status \in Returned => current \in 1..n /\ status \in Pending
    BY DEF ShapeInv, Pointers, TypeOK, Pending
  <2>4. status \in Returned /\ amendment # 0 => amendment < version
    BY <2>3 DEF ShapeInv, Candidate, TotalsInv, RequestsOld
  <2>5. status \in Returned /\ withdrawal # 0 => withdrawal < version
    BY <2>3 DEF ShapeInv, Candidate, TotalsInv, RequestsOld
  <2>6. status \in Returned /\ transfer # 0 => transfer < version
    BY <2>3 DEF ShapeInv, Candidate, TotalsInv, RequestsOld
  <2>7. status = "amendment_draft" => amendment < version
    BY DEF TotalsInv, RequestsOld
  <2>8. status # "none" => version > 0
    BY DEF ShapeInv, Pointers
  <2>9. revisions'[n + 1].request < version + 1
    BY <2>1, <2>2, <2>4, <2>5, <2>6, <2>7, <2>8 DEF TypeOK
  <2>10. \A r \in 1..n : revisions[r].request < version
    BY DEF TotalsInv, RequestsOld
  <2>11. \A r \in 1..n : revisions[r].request \in Nat
    BY RevisionAt
  <2>12. \A r \in 1..(n + 1) : r = n + 1 \/ r \in 1..n
    BY <2>1
  <2>13. version \in Nat
    BY DEF TypeOK
  <2>14. ASSUME NEW r \in 1..n
         PROVE  revisions'[r].request < version + 1
    <3>1. revisions'[r] = revisions[r]
      BY <2>1
    <3>2. revisions[r].request < version /\ revisions[r].request \in Nat
      BY <2>10, <2>11
    <3> QED
      BY <2>13, <3>1, <3>2
  <2>15. \A r \in 1..(n + 1) : revisions'[r].request < version + 1
    BY <2>9, <2>12, <2>14
  <2> QED
    BY <2>1, <2>15 DEF RequestsOld
<1>5. ASSUME NEW u \in User, OpenAmendment(u)
      PROVE  RequestsOld'
  <2>1. /\ amendment' = version /\ version' = version + 1
        /\ revisions' = revisions
    BY <1>5 DEF OpenAmendment, evidence
  <2>2. \A r \in 1..Len(revisions) : revisions[r].request \in Nat
    BY RevisionAt
  <2> QED
    BY <2>1, <2>2 DEF TotalsInv, RequestsOld, TypeOK
<1>6. ASSUME NEW u \in User, Cancelling(u)
      PROVE  same
  BY <1>6, CancellingEffect DEF ShapeInv, PlanInv, LiveMatchesRecord,
     evidence, TypeOK
<1>7. ASSUME NEW u \in User, Judging(u)
      PROVE  same
  <2>1. /\ version' = version + 1 /\ revisions' = revisions
        /\ status' \in {"prevalidated"} \cup Returned
    BY <1>7, JudgingEffect
  <2>2. version \in Nat
    BY DEF TypeOK
  <2> QED
    BY <2>1, <2>2 DEF Returned
<1>8. ASSUME NEW u \in User,
             ApprovePlan(u) \/ ApproveTransfer(u) \/ ApproveWithdrawal(u)
      PROVE  same
  BY <1>8 DEF ApprovePlan, ApproveTransfer, ApproveWithdrawal, Record, TypeOK
<1>9. ASSUME NEW u \in User, NEW o \in Operation, StartOperation(u, o)
      PROVE  same
  BY <1>9 DEF StartOperation, evidence, pointers, TypeOK
<1>10. ASSUME NEW u \in User, CloseActivity(u)
      PROVE  same
  BY <1>10 DEF CloseActivity, evidence, pointers, TypeOK
<1> HIDE DEF same
<1> QED
  BY <1>a, <1>1, <1>2, <1>3, <1>4, <1>5, <1>6, <1>7, <1>8, <1>9, <1>10,
     StepKinds

(* Under review the live total is the one under review. *)
LEMMA ReviewedTotal ==
  ASSUME TypeOK, ShapeInv, PlanInv, status \in UnderReview
  PROVE  plan.total = revisions[current].plan.total
<1> USE DEF Pending
<1>1. CASE withdrawal = 0 /\ transfer = 0
  BY <1>1 DEF PlanInv, LiveMatchesRecord, CandidateUnchanged
<1>2. CASE withdrawal # 0 \/ transfer # 0
  <2>1. /\ approved # 0 /\ amendment = 0
        /\ withdrawal # 0 \/ transfer # 0
    BY <1>2 DEF ShapeInv, Pointers, NothingPending, AmendmentOnly,
       WithdrawalOnly, TransferOnly
  <2>2. plan = revisions[approved].plan
    BY <2>1 DEF PlanInv, LiveMatchesRecord, BaselineStands
  <2>3. current \in 1..Len(revisions)
    BY DEF ShapeInv, Pointers, TypeOK
  <2>4. revisions[current].year \in Year /\ plan \in Plan
    BY <2>3, RevisionAt DEF TypeOK
  <2>5. \/ revisions[current].plan = plan
        \/ revisions[current].plan = [plan EXCEPT !.start = revisions[current].year]
    BY <2>1, <2>2 DEF PlanInv, LifecycleSound
  <2>6. [plan EXCEPT !.start = revisions[current].year].total = plan.total
    BY <2>4, MovedPlan
  <2> QED
    BY <2>5, <2>6
<1> QED
  BY <1>1, <1>2

LEMMA StepTotalHeld ==
  ASSUME TypeOK, TypeOK', ShapeInv, PlanInv, TotalsInv, [Next]_vars
  PROVE  TotalHeld'
<1> DEFINE same == UNCHANGED <<status, current, plan, revisions, decisions>>
           idle == status' \notin Returned
<1>a. same => TotalHeld'
  BY DEF TotalsInv, TotalHeld, TotalLocked, Decided
<1>b. idle => TotalHeld'
  BY DEF TotalHeld
<1>1. Quiet => same
  BY DEF Quiet, evidence, content, pointers
<1>2. ASSUME NEW u \in User, NEW p \in Plan, CreateActivity(u, p)
      PROVE  idle
  BY <1>2 DEF CreateActivity, Returned
<1>3. ASSUME NEW u \in User, NEW p \in Plan, ReplaceActivity(u, p)
      PROVE  TotalHeld'
  <2>1. /\ UNCHANGED <<status, current, revisions, decisions>>
        /\ plan' = p /\ TotalKept(p.total)
    BY <1>3 DEF ReplaceActivity, pointers
  <2>2. TotalLocked' = TotalLocked
    BY <2>1 DEF TotalLocked, Decided
  <2> QED
    BY <2>1, <2>2 DEF TotalHeld, TotalKept
<1>4. ASSUME NEW u \in User, Entering(u)
      PROVE  idle
  BY <1>4, EnteringEffect DEF ShapeInv, Returned
<1>5. ASSUME NEW u \in User, OpenAmendment(u) \/ CloseActivity(u)
      PROVE  idle
  BY <1>5 DEF OpenAmendment, CloseActivity, Returned
<1>6. ASSUME NEW u \in User, Cancelling(u)
      PROVE  idle
  BY <1>6, CancellingEffect DEF ShapeInv, PlanInv, LiveMatchesRecord, Returned
<1>7. ASSUME NEW u \in User, Judging(u)
      PROVE  TotalHeld'
  <2>1. /\ status \in UnderReview
        /\ UNCHANGED <<current, plan, revisions>>
    BY <1>7, JudgingEffect DEF content, pointers
  <2>2. plan.total = revisions[current].plan.total
    BY <2>1, ReviewedTotal
  <2> QED
    BY <2>1, <2>2 DEF TotalHeld
<1>8. ASSUME NEW u \in User,
             ApprovePlan(u) \/ ApproveTransfer(u) \/ ApproveWithdrawal(u)
      PROVE  idle
  BY <1>8 DEF ApprovePlan, ApproveTransfer, ApproveWithdrawal, Returned
<1>9. ASSUME NEW u \in User, NEW o \in Operation, StartOperation(u, o)
      PROVE  same
  BY <1>9 DEF StartOperation, evidence, content, pointers
<1> HIDE DEF same, idle
<1> QED
  BY <1>a, <1>b, <1>1, <1>2, <1>3, <1>4, <1>5, <1>6, <1>7, <1>8, <1>9,
     StepKinds

(* The returns that lock the total of a revision. *)
Lockers(r) ==
    {d \in decisions : d.revision = r /\ d.outcome = "returned" /\ ~d.requested}

TotalCarried(r) ==
    (/\ Lockers(r) # {}
     /\ revisions[r + 1].kind = revisions[r].kind
     /\ revisions[r + 1].request = revisions[r].request)
        => revisions[r + 1].plan.total = revisions[r].plan.total

LEMMA CorrectionsCarry ==
  CorrectionsKeepTotal <=> \A r \in 1..(Len(revisions) - 1) : TotalCarried(r)
BY DEF CorrectionsKeepTotal, TotalCarried, Lockers

LEMMA CorrectionsCarryNext ==
  (CorrectionsKeepTotal <=> \A r \in 1..(Len(revisions) - 1) : TotalCarried(r))'
BY CorrectionsCarry, PTL

(* A return that locks the total of the current revision locks the plan. *)
LEMMA LockersLock ==
  ASSUME TypeOK, RecordInv, status \in Returned, Lockers(current) # {}
  PROVE  TotalLocked
<1>1. PICK d \in decisions : /\ d.revision = current /\ d.outcome = "returned"
                             /\ ~d.requested
  BY DEF Lockers
<1>2. d.stage \in {"supervisor", "validator"}
  BY DEF TypeOK, Decision
<1>3. CASE status = "returned_supervisor"
  BY <1>3 DEF TotalLocked
<1>4. CASE status = "returned_validator"
  <2>1. Outcome(current, "supervisor") = {"prevalidated"}
    BY <1>4 DEF RecordInv, VerdictsMatch
  <2>2. d.stage # "supervisor"
    BY <1>1, <2>1 DEF Outcome, Decided
  <2> QED
    BY <1>1, <1>2, <1>4, <2>2 DEF TotalLocked, Decided
<1> QED
  BY <1>3, <1>4 DEF Returned

LEMMA StepCorrections ==
  ASSUME TypeOK, TypeOK', ShapeInv, PlanInv, RecordInv, TotalsInv, [Next]_vars
  PROVE  CorrectionsKeepTotal'
<1> PICK n : n = Len(revisions)
  OBVIOUS
<1> DEFINE same == revisions' = revisions /\ decisions' = decisions
<1>n. /\ n \in Nat /\ n = Len(revisions)
      /\ \A r \in 1..(n - 1) : TotalCarried(r)
  BY CorrectionsCarry DEF TotalsInv, TypeOK
<1>a. same => CorrectionsKeepTotal'
  BY DEF TotalsInv, CorrectionsKeepTotal
<1>b. ASSUME NEW u, NEW stage, NEW outcome, NEW requested,
             Record(u, stage, outcome, requested), status \in Pending
      PROVE  CorrectionsKeepTotal'
  <2>1. /\ revisions' = revisions /\ current = n
        /\ decisions' = decisions \cup {Recording(u, stage, outcome, requested)}
    BY <1>b, <1>n, RecordEffect DEF ShapeInv, Pointers
  <2>2. Recording(u, stage, outcome, requested).revision = n
    BY <2>1 DEF Recording
  <2>3. ASSUME NEW r \in 1..(n - 1)
        PROVE  TotalCarried(r)'
    <3>1. r # n
      BY <1>n
    <3>2. Lockers(r)' = Lockers(r)
      BY <2>1, <2>2, <3>1 DEF Lockers
    <3>3. TotalCarried(r)
      BY <1>n
    <3> QED
      BY <2>1, <3>2, <3>3 DEF TotalCarried
  <2> QED
    BY <1>n, <2>1, <2>3, CorrectionsCarryNext
<1>1. Quiet => same
  BY DEF Quiet, evidence
<1>2. ASSUME NEW u \in User, NEW p \in Plan, CreateActivity(u, p)
      PROVE  same
  BY <1>2 DEF CreateActivity
<1>3. ASSUME NEW u \in User, NEW p \in Plan, ReplaceActivity(u, p)
      PROVE  same
  BY <1>3 DEF ReplaceActivity
<1>4. ASSUME NEW u \in User, Entering(u)
      PROVE  CorrectionsKeepTotal'
  <2>1. /\ current' = n + 1 /\ Len(revisions') = n + 1
        /\ \A r \in 1..n : revisions'[r] = revisions[r]
        /\ decisions' = decisions
    BY <1>4, <1>n, EnteringEffect DEF ShapeInv
  <2>2. revisions'[n + 1].plan.total = plan.total
    BY <1>4, <2>1, EnteringPlan
  <2>3. ASSUME n # 0
        PROVE  \/ status \in Returned /\ current = n
               \/ revisions'[n + 1].request # revisions[n].request
    <3>1. status # "draft"
      BY <1>n, <2>3 DEF ShapeInv, Pointers
    <3>2. \/ status \in Returned
          \/ /\ status = "amendment_draft"
             /\ revisions'[n + 1].request = amendment
          \/ revisions'[n + 1].request = version
      BY <1>4, <2>1, <3>1, EnteringEffect DEF ShapeInv
    <3>3. n \in 1..n
      BY <1>n, <2>3
    <3>4. /\ revisions[n].request \in Nat /\ revisions[n].request < version
          /\ status = "amendment_draft" => revisions[n].request < amendment
      BY <1>n, <3>3, RevisionAt DEF TotalsInv, RequestsOld
    <3>5. status \in Returned => current = n
      BY <1>n DEF ShapeInv, Pointers, Pending
    <3>6. version \in Nat /\ amendment \in Nat
      BY DEF TypeOK
    <3>7. CASE status \in Returned
      BY <3>5, <3>7
    <3>8. CASE status \notin Returned
      BY <3>2, <3>4, <3>6, <3>8
    <3> QED
      BY <3>7, <3>8
  <2>4. ASSUME n # 0 PROVE TotalCarried(n)'
    <3>1. CASE revisions'[n + 1].request # revisions[n].request
      BY <1>n, <2>1, <2>4, <3>1 DEF TotalCarried
    <3>2. CASE status \in Returned /\ current = n
      <4>1. Lockers(n) # {} => plan.total = revisions[n].plan.total
        BY <3>2, LockersLock DEF TotalsInv, TotalHeld
      <4>2. Lockers(n)' = Lockers(n)
        BY <2>1 DEF Lockers
      <4>3. revisions'[n] = revisions[n]
        BY <1>n, <2>1, <2>4
      <4> QED
        BY <2>2, <4>1, <4>2, <4>3 DEF TotalCarried
    <3> QED
      BY <2>3, <2>4, <3>1, <3>2
  <2>5. ASSUME NEW r \in 1..(n - 1) PROVE TotalCarried(r)'
    <3>1. /\ revisions'[r] = revisions[r] /\ revisions'[r + 1] = revisions[r + 1]
          /\ TotalCarried(r)
      BY <1>n, <2>1
    <3>2. Lockers(r)' = Lockers(r)
      BY <2>1 DEF Lockers
    <3> QED
      BY <3>1, <3>2 DEF TotalCarried
  <2>6. \A r \in 1..(n + 1 - 1) : r \in 1..(n - 1) \/ (r = n /\ n # 0)
    BY <1>n
  <2> QED
    BY <2>1, <2>4, <2>5, <2>6, CorrectionsCarryNext
<1>5. ASSUME NEW u \in User, OpenAmendment(u) \/ CloseActivity(u)
      PROVE  same
  BY <1>5 DEF OpenAmendment, CloseActivity, evidence
<1>6. ASSUME NEW u \in User, Cancelling(u)
      PROVE  same
  BY <1>6, CancellingEffect DEF ShapeInv, PlanInv, LiveMatchesRecord, evidence
<1>7. ASSUME NEW u \in User, Judging(u)
      PROVE  CorrectionsKeepTotal'
  <2>1. status \in Pending
    BY <1>7, JudgingEffect DEF Pending
  <2>2. \E stage, outcome, requested : Record(u, stage, outcome, requested)
    BY <1>7 DEF Judging, Prevalidate, ReturnBySupervisor, ReturnByValidator
  <2> QED
    BY <1>b, <2>1, <2>2
<1>8. ASSUME NEW u \in User,
             ApprovePlan(u) \/ ApproveTransfer(u) \/ ApproveWithdrawal(u)
      PROVE  CorrectionsKeepTotal'
  <2>1. status \in Pending
    BY <1>8 DEF ApprovePlan, ApproveTransfer, ApproveWithdrawal,
       MayDecideFinally, Pending, UnderReview
  <2>2. \E stage, outcome, requested : Record(u, stage, outcome, requested)
    BY <1>8 DEF ApprovePlan, ApproveTransfer, ApproveWithdrawal
  <2> QED
    BY <1>b, <2>1, <2>2
<1>9. ASSUME NEW u \in User, NEW o \in Operation, StartOperation(u, o)
      PROVE  same
  BY <1>9 DEF StartOperation, evidence
<1> HIDE DEF same
<1> QED
  BY <1>a, <1>1, <1>2, <1>3, <1>4, <1>5, <1>6, <1>7, <1>8, <1>9, StepKinds

-----------------------------------------------------------------------------
(* Execution, settlement and the end of an Activity. *)

(* What is settled was executed to the end, and a closed Activity does not
   rest on a transfer. *)
EndInv ==
    /\ EndedActivity
    /\ settlement # "none" => started = plan.ops
    /\ status = "closed" => revisions[current].kind # "transfer"

LEMMA StepEnd ==
  ASSUME TypeOK, TypeOK', ShapeInv, PlanInv, OperationsInv, NothingYet,
         SettlementStage, EndInv, [Next]_vars
  PROVE  EndInv'
<1>e. CASE status \in Ended
  <2>1. Row' = Row
    BY <1>e, VersionStep
  <2>2. UNCHANGED <<status, plan, current, assigned, started, settlement>>
    BY <2>1 DEF Row, pointers
  <2>3. status = "closed" => revisions'[current] = revisions[current]
    <3>1. ASSUME NEW u \in User, Entering(u) PROVE FALSE
      BY <1>e, <3>1, EnteringEffect DEF ShapeInv, Ended, Returned
    <3>2. revisions' = revisions
      <4>1. Quiet => revisions' = revisions
        BY DEF Quiet, evidence
      <4>2. ASSUME NEW u \in User, Cancelling(u)
            PROVE  revisions' = revisions
        BY <4>2, CancellingEffect DEF ShapeInv, PlanInv, LiveMatchesRecord,
           evidence
      <4>3. ASSUME NEW u \in User, Judging(u)
            PROVE  revisions' = revisions
        BY <4>3, JudgingEffect
      <4> QED
        BY <3>1, <4>1, <4>2, <4>3, StepKinds
        DEF CreateActivity, ReplaceActivity, OpenAmendment, ApprovePlan,
            ApproveWithdrawal, ApproveTransfer, Record, StartOperation,
            CloseActivity, evidence
    <3> QED
      BY <3>2
  <2> QED
    BY <2>2, <2>3 DEF EndInv, EndedActivity
<1>n. CASE status \notin Ended
  <2> DEFINE going == /\ status' \notin Ended
                      /\ settlement' # "none" => started' = plan'.ops
  <2>a. going => EndInv'
    BY DEF EndInv, EndedActivity, Ended
  <2>b. status \notin {"approved", "closed"} => settlement = "none"
    BY DEF SettlementStage
  <2>1. ASSUME Quiet
        PROVE  going
    <3>1. UNCHANGED <<status, plan, started>>
      BY <2>1 DEF Quiet, content
    <3>2. settlement' # "none" => started = plan.ops
      BY <2>1 DEF Quiet, EndInv, FullyExecuted, OperationsInv,
         OperationsSurvive
    <3> QED
      BY <1>n, <3>1, <3>2
  <2>2. ASSUME NEW u \in User, NEW p \in Plan,
               CreateActivity(u, p) \/ ReplaceActivity(u, p)
        PROVE  going
    BY <2>b, <2>2 DEF CreateActivity, MayCreate, ReplaceActivity, MayEdit,
       Editable, execution, Ended
  <2>3. ASSUME NEW u \in User, Entering(u)
        PROVE  going
    <3>1. /\ status' = "submitted" /\ settlement' = settlement
          /\ status \in {"draft", "amendment_draft", "approved"} \cup Returned
          /\ UNCHANGED <<plan, started>>
      BY <2>3, EnteringEffect DEF ShapeInv, content
    <3> QED
      BY <3>1 DEF EndInv, Ended
  <2>4. ASSUME NEW u \in User, OpenAmendment(u)
        PROVE  going
    BY <2>4 DEF OpenAmendment, MayOpenAmendment, Unfrozen, execution, Ended
  <2>5. ASSUME NEW u \in User, Cancelling(u)
        PROVE  going
    <3>1. /\ status \in {"amendment_draft"} \cup Pending /\ status' = "approved"
          /\ settlement' = settlement
      BY <2>5, CancellingEffect DEF ShapeInv, PlanInv, LiveMatchesRecord,
         execution
    <3> QED
      BY <2>b, <3>1 DEF Pending, UnderReview, Returned, Ended
  <2>6. ASSUME NEW u \in User, Judging(u)
        PROVE  going
    <3>1. /\ status \in UnderReview /\ status' \in {"prevalidated"} \cup Returned
          /\ settlement' = settlement
      BY <2>6, JudgingEffect DEF execution
    <3> QED
      BY <2>b, <3>1 DEF UnderReview, Returned, Ended
  <2>7. ASSUME NEW u \in User, ApprovePlan(u) \/ ApproveTransfer(u)
        PROVE  going
    <3>1. /\ status = "prevalidated" /\ status' = "approved"
          /\ settlement' = settlement
      BY <2>7, ApprovingEffect DEF Record
    <3> QED
      BY <2>b, <3>1 DEF Ended
  <2>8. ASSUME NEW u \in User, ApproveWithdrawal(u)
        PROVE  EndInv'
    <3>1. /\ status = "prevalidated" /\ status' = "withdrawn"
          /\ started = {} /\ assigned' = {}
          /\ settlement' = settlement /\ started' = started
      BY <2>8, WithdrawingEffect DEF execution
    <3> QED
      BY <2>b, <3>1 DEF EndInv, EndedActivity
  <2>9. ASSUME NEW u \in User, NEW o \in Operation, StartOperation(u, o)
        PROVE  going
    BY <2>9 DEF StartOperation, Running, Unfrozen, Ended
  <2>10. ASSUME NEW u \in User, CloseActivity(u)
         PROVE  EndInv'
    <3>1. /\ status' = "closed" /\ assigned' = {}
          /\ plan.ops \subseteq started
          /\ settlement = "approved" /\ status = "approved"
          /\ transfer = 0
          /\ UNCHANGED <<current, revisions, plan, started, settlement>>
      BY <2>10 DEF CloseActivity, ClosureChecksPass, Running, NothingPending,
         FullyExecuted, AssignmentsAfterEnd, evidence, content, pointers,
         execution
    <3>2. started = plan.ops
      BY <3>1 DEF EndInv
    <3>3. current # 0
      BY <3>1 DEF ShapeInv, Pointers
    <3>4. revisions[current].kind # "transfer"
      BY <2>10, <3>1, <3>3 DEF CloseActivity, TransferRowAccepted
    <3> QED
      BY <3>1, <3>2, <3>4 DEF EndInv, EndedActivity
  <2> HIDE DEF going
  <2> QED
    BY <2>a, <2>1, <2>2, <2>3, <2>4, <2>5, <2>6, <2>7, <2>8, <2>9, <2>10,
       StepKinds
<1> QED
  BY <1>e, <1>n

-----------------------------------------------------------------------------
(* The annual plan. *)

(* No approval is newer than the baseline, but that of the withdrawal. *)
NewestApproved ==
    \A r \in FinallyApproved :
        r <= approved \/ (status = "withdrawn" /\ r = current)

LEMMA StepNewest ==
  ASSUME TypeOK, TypeOK', ShapeInv, PlanInv, RecordInv, DutiesInv, NothingYet,
         SettlementStage, NewestApproved, [Next]_vars
  PROVE  NewestApproved'
<1> DEFINE same == /\ UNCHANGED <<approved, revisions, decisions>>
                   /\ UNCHANGED <<status, current>> \/ status # "withdrawn"
<1>a. same => NewestApproved'
  <2> SUFFICES ASSUME same PROVE NewestApproved'
    OBVIOUS
  <2>1. FinallyApproved' = FinallyApproved
    BY DEF FinallyApproved, Outcome, Decided
  <2> QED
    BY <2>1 DEF NewestApproved
<1>b. ASSUME NEW u, NEW stage, NEW outcome, NEW requested,
             Record(u, stage, outcome, requested), NEW r \in FinallyApproved'
      PROVE  \/ r \in FinallyApproved
             \/ r = current /\ outcome = "approved"
  <2>1. revisions' = revisions
    BY <1>b, RecordEffect
  <2>2. r \in 1..Len(revisions) /\ "approved" \in Outcome(r, "validator")'
    BY <1>b, <2>1 DEF FinallyApproved, Outcome, Decided
  <2>3. \/ Outcome(r, "validator")' = Outcome(r, "validator")
        \/ /\ r = current
           /\ Outcome(r, "validator")' = Outcome(r, "validator") \cup {outcome}
    BY <1>b, OutcomeAfter
  <2> QED
    BY <2>2, <2>3 DEF FinallyApproved
<1>c. ASSUME NEW u, NEW stage, NEW outcome, NEW requested,
             Record(u, stage, outcome, requested), outcome # "approved"
      PROVE  FinallyApproved' \subseteq FinallyApproved
  BY <1>b, <1>c
<1>1. Quiet => same
  BY DEF Quiet, evidence, pointers
<1>2. ASSUME NEW u \in User, NEW p \in Plan, CreateActivity(u, p)
      PROVE  same
  BY <1>2 DEF CreateActivity, MayCreate, pointers
<1>3. ASSUME NEW u \in User, NEW p \in Plan, ReplaceActivity(u, p)
      PROVE  same
  BY <1>3 DEF ReplaceActivity, pointers
<1>4. ASSUME NEW u \in User, Entering(u)
      PROVE  NewestApproved'
  <2>1. /\ Len(revisions') = Len(revisions) + 1
        /\ UNCHANGED <<approved, decisions>>
        /\ status \in {"draft", "amendment_draft", "approved"} \cup Returned
    BY <1>4, EnteringEffect DEF ShapeInv
  <2>2. FinallyApproved' = FinallyApproved
    <3>1. \A r : "approved" \in Outcome(r, "validator") => r \in 1..Len(revisions)
      BY DEF Outcome, Decided, DutiesInv, DecisionsOnRecord
    <3>2. \A r : Outcome(r, "validator")' = Outcome(r, "validator")
      BY <2>1 DEF Outcome, Decided
    <3>3. \A r \in 1..Len(revisions) : r \in 1..Len(revisions')
      BY <2>1 DEF TypeOK
    <3>4. FinallyApproved = {r \in 1..Len(revisions) : "approved" \in Outcome(r, "validator")}
      BY DEF FinallyApproved
    <3>5. FinallyApproved' = {r \in 1..Len(revisions') : "approved" \in Outcome(r, "validator")}
      BY <3>2 DEF FinallyApproved
    <3> QED
      BY <3>1, <3>3, <3>4, <3>5
  <2> QED
    BY <2>1, <2>2 DEF NewestApproved, Returned
<1>5. ASSUME NEW u \in User, OpenAmendment(u) \/ CloseActivity(u)
      PROVE  same
  BY <1>5 DEF OpenAmendment, MayOpenAmendment, CloseActivity,
     ClosureChecksPass, Running, evidence, pointers
<1>6. ASSUME NEW u \in User, Cancelling(u)
      PROVE  same
  BY <1>6, CancellingEffect DEF ShapeInv, PlanInv, LiveMatchesRecord,
     evidence, Pending, UnderReview, Returned
<1>7. ASSUME NEW u \in User, Judging(u)
      PROVE  NewestApproved'
  <2>1. /\ status \in UnderReview /\ approved' = approved
    BY <1>7, JudgingEffect DEF pointers
  <2>2. ASSUME Prevalidate(u) PROVE FinallyApproved' \subseteq FinallyApproved
    <3>1. Record(u, "supervisor", "prevalidated", FALSE)
      BY <2>2 DEF Prevalidate
    <3> QED
      BY <1>c, <3>1
  <2>3. ASSUME ReturnBySupervisor(u)
        PROVE  FinallyApproved' \subseteq FinallyApproved
    <3>1. Record(u, "supervisor", "returned", FALSE)
      BY <2>3 DEF ReturnBySupervisor
    <3> QED
      BY <1>c, <3>1
  <2>4. ASSUME \E requested \in BOOLEAN : ReturnByValidator(u, requested)
        PROVE  FinallyApproved' \subseteq FinallyApproved
    <3>1. PICK requested : Record(u, "validator", "returned", requested)
      BY <2>4 DEF ReturnByValidator
    <3> QED
      BY <1>c, <3>1
  <2>5. FinallyApproved' \subseteq FinallyApproved
    BY <1>7, <2>2, <2>3, <2>4 DEF Judging
  <2> QED
    BY <2>1, <2>5 DEF NewestApproved, UnderReview
<1>8. ASSUME NEW u \in User, ApprovePlan(u) \/ ApproveTransfer(u)
      PROVE  NewestApproved'
  <2>1. /\ approved' = current /\ status = "prevalidated"
        /\ Record(u, "validator", "approved", FALSE)
    BY <1>8, ApprovingEffect
  <2>2. current > approved
    BY <2>1 DEF ShapeInv, Pointers, Pending, UnderReview
  <2>3. PICK stage, outcome, requested : Record(u, stage, outcome, requested)
    BY <2>1
  <2>4. \A r \in FinallyApproved' : r \in FinallyApproved \/ r = current
    BY <1>b, <2>3
  <2>5. \A r \in FinallyApproved : r \in Nat
    BY DEF FinallyApproved
  <2>6. approved \in Nat /\ current \in Nat
    BY DEF TypeOK
  <2>7. \A r \in FinallyApproved : r <= approved
    BY <2>1 DEF NewestApproved
  <2>8. \A r \in FinallyApproved' : r <= current
    BY <2>2, <2>4, <2>5, <2>6, <2>7
  <2> QED
    BY <2>1, <2>8 DEF NewestApproved
<1>9. ASSUME NEW u \in User, ApproveWithdrawal(u)
      PROVE  NewestApproved'
  <2>1. /\ approved' = approved /\ current' = current
        /\ status = "prevalidated" /\ status' = "withdrawn"
        /\ Record(u, "validator", "approved", FALSE)
    BY <1>9, WithdrawingEffect DEF pointers
  <2>2. PICK stage, outcome, requested : Record(u, stage, outcome, requested)
    BY <2>1
  <2>3. \A r \in FinallyApproved' : r \in FinallyApproved \/ r = current
    BY <1>b, <2>2
  <2> QED
    BY <2>1, <2>3 DEF NewestApproved
<1>10. ASSUME NEW u \in User, NEW o \in Operation, StartOperation(u, o)
      PROVE  same
  BY <1>10 DEF StartOperation, evidence, pointers
<1> HIDE DEF same
<1> QED
  BY <1>a, <1>1, <1>2, <1>3, <1>4, <1>5, <1>6, <1>7, <1>8, <1>9, <1>10,
     StepKinds

-----------------------------------------------------------------------------
(* The inductive invariant of the review. *)
ReviewInv ==
    /\ TypeOK /\ NothingYet /\ PlansNonempty /\ DutiesInv /\ SettlementStage
    /\ ShapeInv /\ PlanInv /\ RecordInv /\ OperationsInv /\ TotalsInv
    /\ EndInv /\ NewestApproved /\ ClosedProjectIsIdle

LEMMA InitReview == Init => ReviewInv
<1> SUFFICES ASSUME Init PROVE ReviewInv
  OBVIOUS
<1>1. /\ status = "none" /\ version = 0 /\ revisions = <<>> /\ decisions = {}
      /\ current = 0 /\ approved = 0 /\ amendment = 0 /\ withdrawal = 0
      /\ transfer = 0 /\ contributors = {} /\ assigned = {} /\ started = {}
      /\ settlement = "none" /\ projectActive = TRUE
  BY DEF Init
<1>2. TypeOK
  BY InitType
<1>3. NothingYet /\ PlansNonempty /\ DutiesInv /\ SettlementStage
  BY <1>1 DEF NothingYet, PlansNonempty, DutiesInv, ContributorsAccumulate,
     DecisionsOnRecord, SeparationOfDuties, SettlementStage
<1>4. ShapeInv
  BY <1>1 DEF ShapeInv, Pointers, Candidate, NothingPending, Pending,
     UnderReview, Returned
<1>5. PlanInv
  BY <1>1 DEF PlanInv, PlansSound, LiveSound, LifecycleSound,
     LiveMatchesRecord, BaselineStands, CandidateUnchanged,
     ContributorsOnRecord, Pending, UnderReview, Returned
<1>6. RecordInv
  BY <1>1 DEF RecordInv, OneDecision, VerdictsMatch, ApprovedChain
<1>7. OperationsInv
  BY <1>1 DEF OperationsInv, OperationsSurvive
<1>8. TotalsInv
  BY <1>1 DEF TotalsInv, RequestsOld, TotalHeld, CorrectionsKeepTotal, Returned
<1>9. EndInv /\ ClosedProjectIsIdle
  BY <1>1 DEF EndInv, EndedActivity, ClosedProjectIsIdle
<1>10. NewestApproved
  BY <1>1 DEF NewestApproved, FinallyApproved
<1> QED
  BY <1>2, <1>3, <1>4, <1>5, <1>6, <1>7, <1>8, <1>9, <1>10 DEF ReviewInv

LEMMA StepReview ==
  ASSUME ReviewInv, [Next]_vars
  PROVE  ReviewInv'
<1>1. /\ TypeOK /\ NothingYet /\ PlansNonempty /\ DutiesInv
      /\ SettlementStage /\ ShapeInv /\ PlanInv /\ RecordInv /\ OperationsInv /\ TotalsInv /\ EndInv
      /\ NewestApproved /\ ClosedProjectIsIdle
  BY DEF ReviewInv
<1>2. BaselineStands
  BY <1>1 DEF PlanInv, LiveMatchesRecord
<1>3. TypeOK'
  BY <1>1, StepType
<1>4. NothingYet' /\ PlansNonempty' /\ DutiesInv'
  BY <1>1, StepNothingYet, StepPlans, StepDuties
<1>5. SettlementStage'
  BY <1>1, StepSettlement
<1>6. ShapeInv'
  BY <1>1, <1>2, <1>3, StepPointers, StepCandidateRow DEF ShapeInv
<1>7. PlanInv'
  BY <1>1, <1>3, StepPlansSound, StepLiveSound, StepLifecycle,
     StepLiveMatches DEF PlanInv
<1>8. RecordInv'
  BY <1>1, <1>2, <1>3, StepRecord
<1>9. OperationsInv'
  BY <1>1, <1>3, StepOperations
<1>10. TotalsInv'
  BY <1>1, <1>3, StepRequests, StepTotalHeld, StepCorrections DEF TotalsInv
<1>11. EndInv'
  BY <1>1, <1>3, StepEnd
<1>12. NewestApproved'
  BY <1>1, <1>3, StepNewest
<1>13. ClosedProjectIsIdle'
  BY <1>1, StepClosedProject
<1> QED
  BY <1>3, <1>4, <1>5, <1>6, <1>7, <1>8, <1>9, <1>10, <1>11, <1>12, <1>13
  DEF ReviewInv

LEMMA ReviewInvariant == Spec => []ReviewInv
BY InitReview, StepReview, PTL DEF Spec

-----------------------------------------------------------------------------
(* What the invariant says to the database. *)

LEMMA OnePending ==
  ASSUME TypeOK, AmendmentOnly \/ WithdrawalOnly \/ TransferOnly
  PROVE  Cardinality({amendment, withdrawal, transfer} \ {0}) = 1
<1>1. \E x : {amendment, withdrawal, transfer} \ {0} = {x}
  <2>1. CASE AmendmentOnly
    <3>1. {amendment, withdrawal, transfer} \ {0} = {amendment}
      BY <2>1 DEF AmendmentOnly
    <3> QED
      BY <3>1
  <2>2. CASE WithdrawalOnly
    <3>1. {amendment, withdrawal, transfer} \ {0} = {withdrawal}
      BY <2>2 DEF WithdrawalOnly
    <3> QED
      BY <3>1
  <2>3. CASE TransferOnly
    <3>1. {amendment, withdrawal, transfer} \ {0} = {transfer}
      BY <2>3 DEF TransferOnly
    <3> QED
      BY <3>1
  <2> QED
    BY <2>1, <2>2, <2>3
<1> QED
  BY <1>1, FS_Singleton

LEMMA ConstraintsHold == ReviewInv => DatabaseConstraints
<1> SUFFICES ASSUME ReviewInv PROVE DatabaseConstraints
  OBVIOUS
<1>1. TypeOK /\ Pointers /\ LiveSound
  BY DEF ReviewInv, ShapeInv, PlanInv
<1>2. status \in Pending =>
          /\ current # 0
          /\ \/ approved = 0 /\ NothingPending
             \/ /\ Cardinality({amendment, withdrawal, transfer} \ {0}) = 1
                /\ approved # 0 /\ current # approved
  BY <1>1, OnePending DEF Pointers, TypeOK
<1>3. PointerState
  <2>1. CASE status \in Pending
    BY <1>2, <2>1 DEF PointerState, Pending, UnderReview, Returned,
       NothingPending
  <2>2. CASE status \in {"none", "draft"}
    BY <1>1, <2>2 DEF PointerState, Pointers
  <2>3. CASE status \in {"amendment_draft", "approved", "closed"}
    BY <1>1, <2>3 DEF PointerState, Pointers
  <2>4. CASE status = "withdrawn"
    BY <1>1, <2>4 DEF PointerState, Pointers, WithdrawalOnly, TypeOK
  <2>5. \/ status \in Pending \/ status \in {"none", "draft"}
        \/ status \in {"amendment_draft", "approved", "closed"}
        \/ status = "withdrawn"
    BY <1>1 DEF TypeOK, Status, Pending, UnderReview, Returned
  <2> QED
    BY <2>1, <2>2, <2>3, <2>4, <2>5
<1>4. \/ status \in Pending \/ status \in {"none", "draft"}
      \/ status = "amendment_draft" \/ status \in {"approved", "closed"}
      \/ status = "withdrawn"
  BY <1>1 DEF TypeOK, Status, Pending, UnderReview, Returned
<1>5. IF amendment = 0
      THEN \/ approved = 0
           \/ status \in {"approved"} \cup Ended
           \/ withdrawal # 0 \/ transfer # 0
      ELSE /\ withdrawal = 0 /\ transfer = 0 /\ approved # 0
           /\ status # "approved"
  BY <1>1, <1>4 DEF Pointers, NothingPending, AmendmentOnly, WithdrawalOnly,
     TransferOnly, Ended
<1>6. /\ status = "withdrawn" => withdrawal # 0
      /\ withdrawal # 0 =>
             /\ amendment = 0 /\ transfer = 0 /\ approved # 0
             /\ status \in UnderReview \cup Returned \cup {"withdrawn"}
      /\ transfer # 0 =>
             /\ amendment = 0 /\ withdrawal = 0 /\ approved # 0
             /\ status \in UnderReview \cup Returned
  BY <1>1, <1>4 DEF Pointers, NothingPending, AmendmentOnly, WithdrawalOnly,
     TransferOnly, Pending
<1> QED
  BY <1>1, <1>3, <1>5, <1>6 DEF DatabaseConstraints, LiveSound

LEMMA ReviewStateHolds == ReviewInv => ReviewStateValid
<1> SUFFICES ASSUME ReviewInv,
                    status \notin {"none", "draft", "amendment_draft"}
             PROVE  current # 0 /\ Lineage /\ StateMatchesDecisions
  BY DEF ReviewInv, RecordInv, ReviewStateValid
<1>1. /\ TypeOK /\ ShapeInv /\ Pointers /\ Candidate
      /\ LiveSound /\ LifecycleSound /\ RecordInv /\ VerdictsMatch
      /\ ApprovedChain
  BY DEF ReviewInv, ShapeInv, PlanInv, RecordInv
<1>2. \/ status \in Pending \/ status \in {"approved", "closed"}
      \/ status = "withdrawn"
  BY <1>1 DEF TypeOK, Status, Pending, UnderReview, Returned
<1>3. current # 0
  BY <1>1, <1>2 DEF Pointers, TypeOK
<1>4. Lineage
  <2>1. CASE status \in {"approved", "closed"}
    BY <1>1, <2>1 DEF Lineage, Pointers, NothingPending, ApprovedChain
  <2>2. CASE status \in Pending \cup {"withdrawn"}
    <3>1. CASE withdrawal # 0
      <4>1. approved # 0 /\ amendment = 0 /\ approved \in 1..Len(revisions)
            /\ current \in 1..Len(revisions)
        BY <1>1, <1>3, <2>2, <3>1 DEF Pointers, NothingPending, AmendmentOnly,
           WithdrawalOnly, TransferOnly, TypeOK
      <4>2. /\ RequestMatches("withdrawal", withdrawal)
            /\ revisions[current].plan = revisions[approved].plan
        BY <1>1, <2>2, <3>1 DEF Candidate, LifecycleSound, RequestMatches
      <4>3. revisions[current].year = revisions[approved].year
        BY <4>1, <4>2 DEF ReviewInv, PlanInv, PlansSound
      <4> QED
        BY <3>1, <4>1, <4>2, <4>3 DEF Lineage
    <3>2. CASE withdrawal = 0
      <4>1. revisions[current].kind # "withdrawal"
        BY <1>1, <2>2, <3>2 DEF Candidate, Pointers, NothingPending,
           AmendmentOnly, WithdrawalOnly, TransferOnly
      <4>2. amendment # 0 => RequestMatches("amendment", amendment)
        BY <1>1, <2>2 DEF Candidate, RequestMatches
      <4>3. approved = 0 => revisions[current].kind # "amendment"
        BY <1>1, <2>2 DEF Candidate, Pointers
      <4> QED
        BY <3>2, <4>1, <4>2, <4>3 DEF Lineage
    <3> QED
      BY <3>1, <3>2
  <2> QED
    BY <1>2, <2>1, <2>2
<1>5. StateMatchesDecisions
  <2>1. CASE status \in {"approved", "closed"}
    <3>1. /\ Outcome(current, "supervisor") = {"prevalidated"}
          /\ Outcome(current, "validator") = {"approved"}
      BY <1>1, <2>1 DEF Pointers, ApprovedChain
    <3> QED
      BY <2>1, <3>1 DEF StateMatchesDecisions
  <2>2. CASE status \in Pending \cup {"withdrawn"}
    BY <1>1, <2>2 DEF StateMatchesDecisions, VerdictsMatch, Pending,
       UnderReview, Returned
  <2> QED
    BY <1>2, <2>1, <2>2
<1> QED
  BY <1>3, <1>4, <1>5

LEMMA TransferStateHolds == ReviewInv => TransferStateValid
<1> SUFFICES ASSUME ReviewInv, status # "none"
             PROVE  PlacementAccepted /\ TransferRowAccepted(status)
  BY DEF TransferStateValid
<1>1. /\ TypeOK /\ ShapeInv /\ Pointers /\ Candidate /\ PlansSound
      /\ LiveSound /\ LifecycleSound /\ BaselineStands /\ EndInv
  BY DEF ReviewInv, ShapeInv, PlanInv, LiveMatchesRecord
<1>2. PlacementAccepted
  <2> SUFFICES ASSUME approved # 0
               PROVE  LET base == revisions[approved]
                      IN  /\ placement = base.year
                          /\ amendment = 0 => plan.start = base.plan.start
                          /\ base.kind # "transfer" => placement = base.from
    BY DEF PlacementAccepted
  <2>1. approved \in 1..Len(revisions)
    BY <1>1 DEF TypeOK
  <2> QED
    BY <1>1, <2>1 DEF PlansSound, LiveSound
<1>3. TransferRowAccepted(status)
  <2>1. CASE transfer # 0
    <3>1. status \in Pending
      BY <1>1, <2>1 DEF Pointers, NothingPending, AmendmentOnly,
         WithdrawalOnly, TransferOnly, TypeOK, Status, Pending, UnderReview,
         Returned
    <3>2. /\ RequestMatches("transfer", transfer)
          /\ revisions[current].from = placement
          /\ revisions[current].year > placement
          /\ revisions[current].plan
                 = [revisions[approved].plan EXCEPT !.start = revisions[current].year]
      BY <1>1, <2>1, <3>1 DEF Candidate, LifecycleSound, RequestMatches
    <3> QED
      BY <2>1, <3>2 DEF TransferRowAccepted
  <2>2. CASE transfer = 0
    <3> SUFFICES ASSUME current # 0, revisions[current].kind = "transfer"
                 PROVE  /\ status \in {"approved", "amendment_draft"}
                        /\ current = approved
                        /\ revisions[current].year = placement
      BY <2>2 DEF TransferRowAccepted
    <3>1. status \notin Pending \cup {"withdrawn"}
      BY <1>1, <2>2 DEF Candidate, Pointers, NothingPending, AmendmentOnly,
         WithdrawalOnly, TransferOnly
    <3>2. status # "closed"
      BY <1>1 DEF EndInv
    <3>3. status # "draft"
      BY <1>1 DEF Pointers
    <3>4. status \in {"approved", "amendment_draft"}
      BY <1>1, <3>1, <3>2, <3>3 DEF TypeOK, Status, Pending, UnderReview,
         Returned
    <3> QED
      BY <1>1, <3>4 DEF Pointers, LiveSound
  <2> QED
    BY <2>1, <2>2
<1> QED
  BY <1>2, <1>3

-----------------------------------------------------------------------------
(* What the invariant says of the properties. *)

(* Whatever interleaving of commands, role changes and Project closures led
   there, the database accepts what every command of planning/routes.py wrote:
   types and references, CHECK constraints and both deferred triggers. *)
THEOREM ReviewAccepted == Spec => []DatabaseAccepts
<1>1. ReviewInv => DatabaseAccepts
  BY ConstraintsHold, ReviewStateHolds, TransferStateHolds
  DEF ReviewInv, DatabaseAccepts
<1> QED
  BY ReviewInvariant, <1>1, PTL

(* What reviewers and readers are shown is what is on record: replace_activity
   cannot touch what is under review, every cancellation and approval restores
   or installs the recorded content, and nobody joins the contributors of a
   revision while it is reviewed. *)
THEOREM LiveAlwaysMatches == Spec => []LiveMatchesRecord
<1>1. ReviewInv => LiveMatchesRecord
  BY DEF ReviewInv, PlanInv
<1> QED
  BY ReviewInvariant, <1>1, PTL

(* Through any number of returns and corrections, and through the cancellation
   of an amendment, replace_activity keeps the Operations on record or started,
   and the total unless a Validator asked for another. *)
THEOREM CorrectionsKeep == Spec => []KeptThroughCorrections
<1>1. ReviewInv => KeptThroughCorrections
  BY DEF ReviewInv, OperationsInv, TotalsInv, KeptThroughCorrections
<1> QED
  BY ReviewInvariant, <1>1, PTL

LEMMA ExecutionIsRespected == ReviewInv => ReviewRespectsExecution
<1> SUFFICES ASSUME ReviewInv
             PROVE  ReviewRespectsExecution
  OBVIOUS
<1>1. /\ Pointers /\ SettlementStage /\ EndInv /\ BaselineStands
  BY DEF ReviewInv, ShapeInv, PlanInv, LiveMatchesRecord
<1>2. FrozenBasis
  <2> SUFFICES ASSUME settlement # "none"
               PROVE  /\ status \in {"approved", "closed"}
                      /\ amendment = 0
                      /\ plan = revisions[approved].plan
                      /\ started = plan.ops
    BY DEF FrozenBasis
  <2>1. status \in {"approved", "closed"} /\ started = plan.ops
    BY <1>1 DEF SettlementStage, EndInv
  <2>2. approved # 0 /\ amendment = 0
    BY <1>1, <2>1 DEF Pointers, NothingPending
  <2> QED
    BY <1>1, <2>1, <2>2 DEF BaselineStands
<1> QED
  BY <1>1, <1>2 DEF EndInv, ReviewRespectsExecution

(* The reviews and the execution of one Activity never meet: what ran is not
   withdrawn, an ended Activity retains nobody, and what is settled stays the
   approved plan, executed to the last Operation. *)
THEOREM ExecutionRespected == Spec => []ReviewRespectsExecution
BY ReviewInvariant, ExecutionIsRespected, PTL

LEMMA AnnualPlansDoAgree == ReviewInv => AnnualPlanAgrees
<1> SUFFICES ASSUME ReviewInv, NEW year \in Year
             PROVE  AnnualPlan(year) =
                        IF approved # 0 /\ status # "withdrawn" /\ placement = year
                        THEN {approved} ELSE {}
  BY DEF AnnualPlanAgrees
<1>1. /\ TypeOK /\ Pointers /\ Candidate /\ LiveSound /\ VerdictsMatch
      /\ ApprovedChain /\ NewestApproved
  BY DEF ReviewInv, ShapeInv, PlanInv, RecordInv
<1>2. \A r \in FinallyApproved : r \in Nat
  BY DEF FinallyApproved
<1>3. CASE approved = 0
  <2>1. status # "withdrawn"
    BY <1>1, <1>3 DEF Pointers
  <2>2. FinallyApproved = {}
    BY <1>1, <1>3, <2>1 DEF NewestApproved, FinallyApproved
  <2> QED
    BY <1>3, <2>2 DEF AnnualPlan
<1>4. CASE approved # 0 /\ status # "withdrawn"
  <2>1. approved \in FinallyApproved /\ revisions[approved].kind # "withdrawal"
    BY <1>1, <1>4 DEF ApprovedChain, FinallyApproved, TypeOK
  <2>2. \A q \in FinallyApproved : q <= approved
    BY <1>1, <1>4 DEF NewestApproved
  <2>3. \A r \in FinallyApproved : (\A q \in FinallyApproved : q <= r) <=> r = approved
    BY <1>2, <2>1, <2>2
  <2>4. AnnualPlan(year) = {r \in {approved} : revisions[r].year = year}
    BY <2>1, <2>3 DEF AnnualPlan
  <2> QED
    BY <1>1, <1>4, <2>4 DEF LiveSound
<1>5. CASE approved # 0 /\ status = "withdrawn"
  <2>1. current > approved /\ revisions[current].kind = "withdrawal"
    BY <1>1, <1>5 DEF Pointers, Candidate, WithdrawalOnly
  <2>2. current \in FinallyApproved
    BY <1>1, <1>5, <2>1 DEF VerdictsMatch, FinallyApproved, TypeOK
  <2>3. \A q \in FinallyApproved : q <= current
    BY <1>1, <1>2, <2>1 DEF NewestApproved, TypeOK
  <2>4. \A r \in FinallyApproved : (\A q \in FinallyApproved : q <= r) <=> r = current
    BY <1>2, <2>2, <2>3
  <2>5. AnnualPlan(year) = {}
    BY <2>1, <2>4 DEF AnnualPlan
  <2> QED
    BY <1>5, <2>5
<1> QED
  BY <1>3, <1>4, <1>5

(* The annual plan of routes.approved_plan, which reads the revisions and their
   final decisions only, is the one the Activity row tells of: an Activity
   counts once, in the year it sits in, from its first approval until it is
   withdrawn. *)
THEOREM AnnualPlansAgree == Spec => []AnnualPlanAgrees
BY ReviewInvariant, AnnualPlansDoAgree, PTL

-----------------------------------------------------------------------------
(* What is advertised is accepted, but for the two refusals service.allowed
   does not ask for: a correction that changes nothing, and a policy without the
   fixture. *)

LEMMA ReviewableIsIndependent ==
  ASSUME ReviewInv, NEW u \in User, status \in UnderReview
  PROVE  Reviewable(u) <=> /\ u \notin contributors
                           /\ withdrawal # 0 \/ transfer # 0 => fixture
<1>1. /\ TypeOK /\ Pointers /\ Candidate /\ BaselineStands /\ OperationsInv
  BY DEF ReviewInv, ShapeInv, PlanInv, LiveMatchesRecord
<1>2. status \in Pending
  BY DEF Pending
<1>3. current # 0
  BY <1>1, <1>2 DEF Pointers, TypeOK
<1>4. withdrawal # 0 \/ transfer # 0 => approved # 0 /\ amendment = 0
  BY <1>1, <1>2 DEF Pointers, NothingPending, AmendmentOnly, WithdrawalOnly,
     TransferOnly
<1>5. withdrawal # 0 \/ transfer # 0 => (LifecycleEligible <=> fixture)
  BY <1>1, <1>4 DEF LifecycleEligible, NeverStarted, OperationsInv,
     BaselineStands
<1>6. /\ withdrawal # 0 => RequestMatches("withdrawal", withdrawal)
      /\ transfer # 0 => RequestMatches("transfer", transfer)
      /\ amendment # 0 => RequestMatches("amendment", amendment)
  BY <1>1, <1>2 DEF Candidate, RequestMatches
<1> QED
  BY <1>3, <1>5, <1>6 DEF Reviewable, Independent

LEMMA FinalDecisionOffered ==
  ASSUME ReviewInv, NEW u \in User, status = "prevalidated"
  PROVE  PrevalidatedByAnother(u)
         <=> \A d \in Decided(current, "supervisor") :
                 d.outcome = "prevalidated" => d.actor # u
<1>1. OneDecision /\ Outcome(current, "supervisor") = {"prevalidated"}
  BY DEF ReviewInv, RecordInv, VerdictsMatch
<1>2. PICK d \in Decided(current, "supervisor") : d.outcome = "prevalidated"
  BY <1>1 DEF Outcome
<1>3. \A e \in Decided(current, "supervisor") : e = d
  BY <1>1, <1>2 DEF OneDecision, Decided
<1> QED
  BY <1>2, <1>3 DEF PrevalidatedByAnother

LEMMA LifecycleOffered ==
  ASSUME ReviewInv, approved # 0, amendment = 0, status \notin Ended
  PROVE  /\ LifecycleEligible <=> fixture /\ started = {}
         /\ projectActive
<1>1. /\ BaselineStands /\ ClosedProjectIsIdle /\ Pointers
  BY DEF ReviewInv, ShapeInv, PlanInv, LiveMatchesRecord
<1>2. status # "none"
  BY <1>1 DEF Pointers
<1> QED
  BY <1>1, <1>2 DEF LifecycleEligible, NeverStarted, BaselineStands,
     ClosedProjectIsIdle

LEMMA WithdrawalOffered ==
  ASSUME ReviewInv, NEW u \in User
  PROVE  /\ MayRequestWithdrawal(u)
            <=> fixture /\ Agent(u) /\ AgentAction("request_withdrawal")
         /\ MayCancelWithdrawal(u)
            <=> fixture /\ Agent(u) /\ AgentAction("cancel_withdrawal")
<1>1. /\ TypeOK /\ Pointers /\ Candidate /\ OperationsInv
  BY DEF ReviewInv, ShapeInv
<1>2. status = "approved" =>
          approved # 0 /\ NothingPending /\ status \notin Ended
  BY <1>1 DEF Pointers, Ended
<1>3. withdrawal # 0 /\ status \notin Ended =>
          /\ status \in UnderReview \cup Returned
          /\ approved # 0 /\ WithdrawalOnly
          /\ revisions[current].kind = "withdrawal"
  BY <1>1 DEF Pointers, Candidate, OperationsInv, NothingPending,
     AmendmentOnly, WithdrawalOnly, TransferOnly, TypeOK, Status, Pending,
     UnderReview, Returned, Ended
<1>4. MayCancelWithdrawal(u) <=> fixture /\ Agent(u) /\ AgentAction("cancel_withdrawal")
  BY <1>3 DEF MayCancelWithdrawal, AgentAction, Ended, UnderReview, Returned
<1>5. AgentAction("request_withdrawal")
      <=> started = {} /\ (status = "approved" \/ (withdrawal # 0 /\ status \in Returned))
  BY DEF AgentAction
<1>6. MayRequestWithdrawal(u) <=> fixture /\ Agent(u) /\ AgentAction("request_withdrawal")
  <2>1. CASE status = "approved"
    BY <1>2, <1>5, <2>1, LifecycleOffered DEF MayRequestWithdrawal,
       NothingPending
  <2>2. CASE status # "approved"
    <3>1. CASE withdrawal # 0 /\ status \in Returned
      <4>1. status \notin Ended
        BY <3>1 DEF Ended, Returned
      <4> QED
        BY <1>3, <1>5, <3>1, <4>1, LifecycleOffered DEF MayRequestWithdrawal,
           WithdrawalOnly
    <3>2. CASE ~(withdrawal # 0 /\ status \in Returned)
      BY <1>5, <2>2, <3>2 DEF MayRequestWithdrawal
    <3> QED
      BY <3>1, <3>2
  <2> QED
    BY <2>1, <2>2
<1> QED
  BY <1>4, <1>6

LEMMA TransferOffered ==
  ASSUME ReviewInv, NEW u \in User
  PROVE  /\ MayRequestTransfer(u)
            <=> fixture /\ Agent(u) /\ AgentAction("request_transfer")
         /\ MayCancelTransfer(u)
            <=> fixture /\ Agent(u) /\ AgentAction("cancel_transfer")
<1>1. /\ TypeOK /\ Pointers /\ Candidate /\ OperationsInv
  BY DEF ReviewInv, ShapeInv
<1>2. status = "approved" =>
          approved # 0 /\ NothingPending /\ status \notin Ended
  BY <1>1 DEF Pointers, Ended
<1>3. transfer # 0 =>
          /\ status \in UnderReview \cup Returned
          /\ approved # 0 /\ TransferOnly
          /\ revisions[current].kind = "transfer"
  BY <1>1 DEF Pointers, Candidate, OperationsInv, NothingPending,
     AmendmentOnly, WithdrawalOnly, TransferOnly, TypeOK, Status, Pending,
     UnderReview, Returned
<1>4. MayCancelTransfer(u) <=> fixture /\ Agent(u) /\ AgentAction("cancel_transfer")
  BY <1>3 DEF MayCancelTransfer, AgentAction
<1>5. AgentAction("request_transfer")
      <=> started = {} /\ (status = "approved" \/ (transfer # 0 /\ status \in Returned))
  BY DEF AgentAction
<1>6. MayRequestTransfer(u) <=> fixture /\ Agent(u) /\ AgentAction("request_transfer")
  <2>1. CASE status = "approved"
    BY <1>2, <1>5, <2>1, LifecycleOffered DEF MayRequestTransfer,
       NothingPending
  <2>2. CASE status # "approved"
    <3>1. CASE transfer # 0 /\ status \in Returned
      <4>1. status \notin Ended
        BY <3>1 DEF Ended, Returned
      <4> QED
        BY <1>3, <1>5, <3>1, <4>1, LifecycleOffered DEF MayRequestTransfer,
           TransferOnly
    <3>2. CASE ~(transfer # 0 /\ status \in Returned)
      BY <1>5, <2>2, <3>2 DEF MayRequestTransfer
    <3> QED
      BY <3>1, <3>2
  <2> QED
    BY <2>1, <2>2
<1> QED
  BY <1>4, <1>6

LEMMA AmendmentOffered ==
  ASSUME ReviewInv, NEW u \in User
  PROVE  /\ MayOpenAmendment(u) <=> Agent(u) /\ AgentAction("open_amendment")
         /\ MayCancelAmendment(u) <=> Agent(u) /\ AgentAction("cancel_amendment")
<1>1. /\ TypeOK /\ Pointers /\ PlansSound
  BY DEF ReviewInv, ShapeInv, PlanInv
<1>2. status = "approved" => NothingPending
  BY <1>1 DEF Pointers
<1>3. amendment # 0 =>
          /\ status \in {"amendment_draft"} \cup UnderReview \cup Returned
          /\ approved # 0
  BY <1>1 DEF Pointers, NothingPending, AmendmentOnly, WithdrawalOnly,
     TransferOnly, TypeOK, Status, Pending, UnderReview, Returned
<1>4. approved # 0 => revisions[approved].plan.ops \subseteq known
  BY <1>1 DEF PlansSound, TypeOK
<1>5. MayOpenAmendment(u) <=> Agent(u) /\ AgentAction("open_amendment")
  BY <1>2 DEF MayOpenAmendment, AgentAction, Unfrozen
<1>6. MayCancelAmendment(u) <=> Agent(u) /\ AgentAction("cancel_amendment")
  BY <1>3, <1>4 DEF MayCancelAmendment, AgentAction
<1> QED
  BY <1>5, <1>6

(* No request is under way, or the policy lets it through. *)
Allowed == withdrawal # 0 \/ transfer # 0 => fixture

LEMMA ReviewOffered ==
  ASSUME ReviewInv, NEW u \in User
  PROVE  /\ MayPrevalidate(u) <=> Allowed /\ ReviewAction(u, "prevalidate")
         /\ MayDecideFinally(u) <=> Allowed /\ ReviewAction(u, "approve")
         /\ MayPrevalidate(u) \/ MayDecideFinally(u)
            <=> Allowed /\ ReviewAction(u, "return")
<1>1. ReviewAction(u, "prevalidate")
      <=> Supervisor(u) /\ status = "submitted" /\ u \notin contributors
  BY DEF ReviewAction
<1>2. ReviewAction(u, "approve")
      <=> /\ Validator(u) /\ status = "prevalidated" /\ u \notin contributors
          /\ \A d \in Decided(current, "supervisor") :
                 d.outcome = "prevalidated" => d.actor # u
  BY DEF ReviewAction
<1>3. ReviewAction(u, "return")
      <=> ReviewAction(u, "prevalidate") \/ ReviewAction(u, "approve")
  BY DEF ReviewAction
<1>4. MayPrevalidate(u) <=> Allowed /\ ReviewAction(u, "prevalidate")
  BY <1>1, ReviewableIsIndependent DEF MayPrevalidate, UnderReview, Allowed
<1>5. MayDecideFinally(u) <=> Allowed /\ ReviewAction(u, "approve")
  BY <1>2, ReviewableIsIndependent, FinalDecisionOffered
  DEF MayDecideFinally, UnderReview, Allowed
<1> QED
  BY <1>3, <1>4, <1>5

LEMMA AcceptedAreOffered ==
  ASSUME ReviewInv, NEW u \in User, NEW a \in Action
  PROVE  a \in Accepted(u)
         <=> /\ a \in Advertised(u)
             /\ a = "submit" => ContentChanged
             /\ FixtureAsked(a) => fixture
<1>1. /\ "edit" \in Accepted(u) <=> "edit" \in Advertised(u)
      /\ "submit" \in Accepted(u) <=> "submit" \in Advertised(u) /\ ContentChanged
  BY DEF Action, Accepted, Advertised, MayEdit, MaySubmit, AgentAction, ReviewAction
<1>2. "assign_agents" \in Accepted(u) <=> "assign_agents" \in Advertised(u)
  BY DEF Action, Accepted, Advertised, MayAssign, AgentAction, ReviewAction
<1>3. /\ "open_amendment" \in Accepted(u) <=> MayOpenAmendment(u)
      /\ "cancel_amendment" \in Accepted(u) <=> MayCancelAmendment(u)
      /\ "request_withdrawal" \in Accepted(u) <=> MayRequestWithdrawal(u)
      /\ "cancel_withdrawal" \in Accepted(u) <=> MayCancelWithdrawal(u)
      /\ "request_transfer" \in Accepted(u) <=> MayRequestTransfer(u)
      /\ "cancel_transfer" \in Accepted(u) <=> MayCancelTransfer(u)
  BY DEF Action, Accepted
<1>4. /\ "prevalidate" \in Accepted(u) <=> MayPrevalidate(u)
      /\ "approve" \in Accepted(u) <=> MayDecideFinally(u)
      /\ "return" \in Accepted(u) <=> MayPrevalidate(u) \/ MayDecideFinally(u)
  BY DEF Action, Accepted
<1>5. ASSUME NEW b \in {"open_amendment", "cancel_amendment",
                        "request_withdrawal", "cancel_withdrawal",
                        "request_transfer", "cancel_transfer"}
      PROVE  b \in Advertised(u) <=> Agent(u) /\ AgentAction(b)
  BY DEF Action, Advertised, ReviewAction
<1>6. ASSUME NEW b \in {"prevalidate", "approve", "return"}
      PROVE  b \in Advertised(u) <=> ReviewAction(u, b)
  BY DEF Action, Advertised, AgentAction
<1>7. /\ a \in {"edit", "submit", "assign_agents", "open_amendment", "cancel_amendment"}
         => ~FixtureAsked(a)
      /\ a \in {"request_withdrawal", "cancel_withdrawal",
                "request_transfer", "cancel_transfer"} => FixtureAsked(a)
      /\ a \in {"prevalidate", "approve", "return"}
         => (Allowed <=> (FixtureAsked(a) => fixture))
  BY DEF FixtureAsked, Allowed
<1>8. CASE a = "submit"
  BY <1>1, <1>7, <1>8
<1>9. CASE a \in {"edit", "assign_agents"}
  BY <1>1, <1>2, <1>7, <1>9
<1>10. CASE a \in {"open_amendment", "cancel_amendment"}
  BY <1>3, <1>5, <1>7, <1>10, AmendmentOffered
<1>11. CASE a \in {"request_withdrawal", "cancel_withdrawal"}
  BY <1>3, <1>5, <1>7, <1>11, WithdrawalOffered
<1>12. CASE a \in {"request_transfer", "cancel_transfer"}
  BY <1>3, <1>5, <1>7, <1>12, TransferOffered
<1>13. CASE a \in {"prevalidate", "approve", "return"}
  BY <1>4, <1>6, <1>7, <1>13, ReviewOffered
<1> QED
  BY <1>8, <1>9, <1>10, <1>11, <1>12, <1>13 DEF Action

(* engineering.md: advertised actions match server command guards.  For every
   account, in every state of every behaviour and under either policy, what is
   offered is what the handlers accept, but for two refusals: of a correction that
   changes nothing, and of a withdrawal or a transfer without the fixture. *)
THEOREM AdvertisedIsAccepted == Spec => []AdvertisedMatchesGuards
<1>1. ReviewInv => AdvertisedMatchesGuards
  <2> SUFFICES ASSUME ReviewInv, NEW u \in User
               PROVE  Accepted(u) = {a \in Advertised(u) :
                                       /\ a = "submit" => ContentChanged
                                       /\ FixtureAsked(a) => fixture}
    BY DEF AdvertisedMatchesGuards
  <2>1. Accepted(u) \subseteq Action /\ Advertised(u) \subseteq Action
    BY DEF Accepted, Advertised
  <2> QED
    BY <2>1, AcceptedAreOffered
<1> QED
  BY ReviewInvariant, <1>1, PTL

(* What a handler accepts is always offered, whatever the policy: no account is
   refused a command only because its screen does not know of it. *)
THEOREM AcceptedIsAdvertised ==
    Spec => [](\A u \in User : Accepted(u) \subseteq Advertised(u))
<1>1. ReviewInv => \A u \in User : Accepted(u) \subseteq Advertised(u)
  BY AcceptedAreOffered DEF Accepted
<1> QED
  BY ReviewInvariant, <1>1, PTL
=============================================================================
