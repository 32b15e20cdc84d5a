---------------------------- MODULE ActivityReview ----------------------------
(***************************************************************************)
(* The review lifecycle of one Activity: drafting, the two-stage review of *)
(* immutable revisions, amendments, withdrawals and annual transfers, the  *)
(* assignment of Agents, and the changes of role that interleave with all  *)
(* of it.  The program is backend/app/planning/routes.py; every mutation   *)
(* there runs in one transaction under one advisory lock                   *)
(* (service.locked_mutation), so each command is one action.               *)
(*                                                                         *)
(* Execution and settlement appear only through what the review reads of   *)
(* them: which Operations were started, and whether the financial basis is *)
(* frozen.                                                                 *)
(***************************************************************************)
EXTENDS Integers, Sequences, FiniteSets

CONSTANTS
    User,           \* the ordinary internal accounts
    InitialRoles,   \* the roles the accounts may start with
    Operation,      \* identifiers of Operation rows
    Total,          \* the Activity allocations a plan may have
    Text,           \* all other structural content: names, dates in the year,
                    \* the split of the total over the Operations
    Year,           \* years of the annual PTAs
    MaxRevision,    \* bound: revisions submitted in a behaviour
    MaxVersion,     \* bound: version of the Activity row
    MaxUserVersion  \* bound: version of an account row

Role == {"AGENT_SAISIE", "AGENT_VERIFICATEUR", "VALIDATEUR_DEFINITIF"}
Authority == Role \cup {"inactive"}

ASSUME RolesAssumption == InitialRoles \subseteq [User -> Role]
ASSUME BoundsAssumption ==
    /\ MaxRevision \in Nat
    /\ MaxVersion \in Nat
    /\ MaxUserVersion \in Nat
ASSUME DataAssumption ==
    /\ Year \subseteq Nat /\ Year # {}
    /\ Total # {}
    /\ Text # {}

VARIABLES
    role,           \* User.role, or "inactive" for a deactivated account
    userVersion,    \* User.version
    status,         \* Activity.state, "none" before the Activity exists
    version,        \* Activity.version
    plan,           \* the live structural content of the Activity
    known,          \* every Operation row ever created, removed ones included
    revisions,      \* ActivityRevision rows by revision_number
    decisions,      \* ActivityRevisionDecision rows
    current,        \* current_revision_id, 0 for NULL
    approved,       \* approved_revision_id, 0 for NULL
    amendment,      \* amendment_id, 0 for NULL
    withdrawal,     \* withdrawal_id, 0 for NULL
    transfer,       \* transfer_id, 0 for NULL
    placement,      \* placement_year, the year of the PTA of pta_id
    contributors,   \* users with an ActivityContributor row
    assigned,       \* Agents with an ActivityAssignment that has not ended
    started,        \* Operations with execution_started_at set
    settlement,     \* "none", "pending" or "approved" financial request
    projectActive,  \* Project.state = "active"
    fixture         \* the server's policy has the planning_lifecycle_fixture
                    \* that lets withdrawals and transfers through

directory == <<role, userVersion>>
pointers == <<current, approved, amendment, withdrawal, transfer>>
content == <<plan, known, placement>>
evidence == <<revisions, decisions, contributors>>
execution == <<started, settlement>>
vars == <<directory, status, version, pointers, content, evidence, assigned,
          execution, projectActive, fixture>>

Plan == [ops : SUBSET Operation, total : Total, text : Text, start : Year]
Status == {"none", "draft", "amendment_draft", "submitted", "prevalidated",
           "returned_supervisor", "returned_validator", "approved",
           "withdrawn", "closed"}
Kind == {"plan", "amendment", "withdrawal", "transfer"}

(***************************************************************************)
(* A revision freezes the plan, the PTA it plans for (year), the PTA the   *)
(* Activity sits in (from), the approved revision it builds on (base), its *)
(* submitter and the contributors up to then.  The identifiers of          *)
(* amendments, withdrawals and transfers (uuid4) are the Activity version  *)
(* at which they were drawn, which no two of them share.                   *)
(***************************************************************************)
Revision == [kind : Kind, request : Nat, base : Nat, plan : Plan, from : Year,
             year : Year, submitter : User, contributors : SUBSET User]
Decision == [revision : Nat, stage : {"supervisor", "validator"},
             outcome : {"prevalidated", "returned", "approved"},
             actor : User, requested : BOOLEAN]

Agent(u) == role[u] = "AGENT_SAISIE"
Supervisor(u) == role[u] = "AGENT_VERIFICATEUR"
Validator(u) == role[u] = "VALIDATEUR_DEFINITIF"

Editable == {"draft", "amendment_draft", "returned_supervisor",
             "returned_validator"}
Returned == {"returned_supervisor", "returned_validator"}
UnderReview == {"submitted", "prevalidated"}
Ended == {"withdrawn", "closed"}

Decided(r, stage) == {d \in decisions : d.revision = r /\ d.stage = stage}
Outcome(r, stage) == {d.outcome : d \in Decided(r, stage)}

-----------------------------------------------------------------------------
(* Plans: validate_plan, replace_activity and create_activity. *)

(* A plan has at least one Operation and starts in the year of its PTA. *)
ValidPlan(p) == p \in Plan /\ p.ops # {} /\ p.start = placement

(* A new Operation gets a fresh row; an identifier in the request must name
   a row that is still live, or the command is stale. *)
OperationsLive(ops) == ops \cap known \subseteq plan.ops

SubmittedOperationsKept(ops) ==
    current # 0 => revisions[current].plan.ops \subseteq ops

StartedOperationsKept(ops) == started \cap plan.ops \subseteq ops

(* After a Supervisor's return the total may not change; after a Validator's
   return only when the Validator asked for another amount. *)
\* mutant: a Validator's return always frees the total
TotalLocked_AfterSupervisor == status = "returned_supervisor"
TotalLocked ==
    \/ status = "returned_supervisor"
    \/ /\ status = "returned_validator"
       /\ \E d \in Decided(current, "validator") :
              d.outcome = "returned" /\ ~d.requested

TotalKept(total) == TotalLocked => total = revisions[current].plan.total

(* The structural contributors grow only when the content really changed. *)
ContributorsAfterEdit(u, p) ==
    IF p # plan THEN contributors \cup {u} ELSE contributors

MayEdit(u) ==
    /\ Agent(u)
    /\ withdrawal = 0
    /\ transfer = 0
    /\ status \in Editable

MayCreate(u) == Agent(u) /\ status = "none" /\ projectActive

CreateActivity(u, p) ==
    /\ MayCreate(u)
    /\ p \in Plan
    /\ p.ops # {}
    /\ plan' = p
    /\ known' = p.ops
    /\ placement' = p.start
    /\ status' = "draft"
    /\ version' = 1
    /\ contributors' = {u}
    /\ UNCHANGED <<directory, pointers, revisions, decisions, assigned,
                   execution, projectActive, fixture>>

ReplaceActivity(u, p) ==
    /\ MayEdit(u)
    /\ ValidPlan(p)
    /\ SubmittedOperationsKept(p.ops)
    /\ TotalKept(p.total)
    /\ OperationsLive(p.ops)
    /\ StartedOperationsKept(p.ops)
    /\ plan' = p
    /\ known' = known \cup p.ops
    /\ contributors' = ContributorsAfterEdit(u, p)
    /\ version' = version + 1
    /\ UNCHANGED <<directory, status, pointers, placement, revisions,
                   decisions, assigned, execution, projectActive, fixture>>

-----------------------------------------------------------------------------
(* Submission: build_revision_snapshot and the shared end of the handlers
   submit_activity, request_withdrawal and request_transfer. *)

\* mutant: builds on the revision it corrects
Snapshot_OnCurrent(u, kind, request, p, year) ==
    [kind |-> kind, request |-> request, base |-> current, plan |-> p,
     from |-> placement, year |-> year, submitter |-> u,
     contributors |-> contributors \cup {u}]
Snapshot(u, kind, request, p, year) ==
    [kind |-> kind, request |-> request, base |-> approved, plan |-> p,
     from |-> placement, year |-> year, submitter |-> u,
     contributors |-> contributors \cup {u}]

NextRevision == Len(revisions) + 1

EnterReview(u, revision) ==
    /\ Len(revisions) < MaxRevision
    /\ contributors' = contributors \cup {u}
    /\ revisions' = Append(revisions, revision)
    /\ current' = NextRevision
    /\ status' = "submitted"
    /\ version' = version + 1
    /\ UNCHANGED <<directory, approved, content, decisions, assigned,
                   execution, projectActive, fixture>>

(* A correction, or the first submission of an amendment, must differ from
   the revision it follows. *)
ContentChanged == current # 0 => plan # revisions[current].plan

MaySubmit(u) == MayEdit(u) /\ ContentChanged

SubmitActivity(u) ==
    /\ MaySubmit(u)
    /\ EnterReview(u, Snapshot(u, IF amendment # 0 THEN "amendment" ELSE "plan",
                               amendment, plan, placement))
    /\ UNCHANGED <<amendment, withdrawal, transfer>>

-----------------------------------------------------------------------------
(* Amendments: open_amendment and cancel_amendment. *)

NothingPending == amendment = 0 /\ withdrawal = 0 /\ transfer = 0

Unfrozen == settlement = "none"

MayOpenAmendment(u) ==
    /\ Agent(u)
    /\ Unfrozen
    /\ status = "approved"
    /\ NothingPending

OpenAmendment(u) ==
    /\ MayOpenAmendment(u)
    /\ amendment' = version
    /\ status' = "amendment_draft"
    /\ version' = version + 1
    /\ UNCHANGED <<directory, current, approved, withdrawal, transfer, content,
                   evidence, assigned, execution, projectActive, fixture>>

MayCancelAmendment(u) ==
    /\ Agent(u)
    /\ amendment # 0
    /\ status \in {"amendment_draft"} \cup UnderReview \cup Returned
    /\ approved # 0
    /\ revisions[approved].plan.ops \subseteq known

(* Cancelling restores every field and Operation of the approved snapshot
   and removes the Operations the candidate had added. *)
\* mutant: leaves the candidate's Operations in place
RestoredPlan_KeepingOperations ==
    [revisions[approved].plan EXCEPT !.ops = plan.ops]
RestoredPlan == revisions[approved].plan

(* Every cancellation points the Activity back at its approved revision. *)
CurrentAfterCancel_Kept == current  \* mutant: missing reset
CurrentAfterCancel == approved

CancelAmendment(u) ==
    /\ MayCancelAmendment(u)
    /\ plan' = RestoredPlan
    /\ current' = CurrentAfterCancel
    /\ amendment' = 0
    /\ status' = "approved"
    /\ version' = version + 1
    /\ UNCHANGED <<directory, approved, withdrawal, transfer, known, placement,
                   evidence, assigned, execution, projectActive, fixture>>

-----------------------------------------------------------------------------
(* Withdrawals and annual transfers: lifecycle_eligible, request_* and
   cancel_*. *)

(* assert_never_started: the live Operations are the approved ones, and no
   row of the Activity, removed ones included, was ever started. *)
\* mutant: compares the rows but not their execution
NeverStarted_Membership == plan.ops = revisions[approved].plan.ops
NeverStarted ==
    /\ plan.ops = revisions[approved].plan.ops
    /\ started = {}

LifecycleEligible == fixture /\ approved # 0 /\ NeverStarted

MayRequestWithdrawal(u) ==
    /\ Agent(u)
    /\ LifecycleEligible
    /\ projectActive
    /\ amendment = 0
    /\ transfer = 0
    /\ IF withdrawal # 0
       THEN status \in Returned /\ revisions[current].kind = "withdrawal"
       ELSE status = "approved"

(* A correction keeps the identifier of the withdrawal it corrects; its
   reason, not modelled, must change. *)
RequestWithdrawal(u) ==
    LET id == IF withdrawal # 0 THEN withdrawal ELSE version
    IN  /\ MayRequestWithdrawal(u)
        /\ EnterReview(u, Snapshot(u, "withdrawal", id, plan, placement))
        /\ withdrawal' = id
        /\ UNCHANGED <<amendment, transfer>>

MayCancelWithdrawal(u) ==
    /\ Agent(u)
    /\ fixture
    /\ withdrawal # 0
    /\ status \in UnderReview \cup Returned
    /\ revisions[current].kind = "withdrawal"

CancelWithdrawal(u) ==
    /\ MayCancelWithdrawal(u)
    /\ current' = CurrentAfterCancel
    /\ withdrawal' = 0
    /\ status' = "approved"
    /\ version' = version + 1
    /\ UNCHANGED <<directory, approved, amendment, transfer, content, evidence,
                   assigned, execution, projectActive, fixture>>

(* A transfer goes to a strictly later year; 2200, the last year the code
   allows, is the largest member of Year. *)
LaterYear(y) == y > placement

MayRequestTransfer(u) ==
    /\ Agent(u)
    /\ LifecycleEligible
    /\ projectActive
    /\ amendment = 0
    /\ withdrawal = 0
    /\ IF transfer # 0
       THEN status \in Returned /\ revisions[current].kind = "transfer"
       ELSE status = "approved"

RequestTransfer(u, y) ==
    LET id == IF transfer # 0 THEN transfer ELSE version
    IN  /\ MayRequestTransfer(u)
        /\ LaterYear(y)
        /\ EnterReview(u, Snapshot(u, "transfer", id,
                                   [plan EXCEPT !.start = y], y))
        /\ transfer' = id
        /\ UNCHANGED <<amendment, withdrawal>>

MayCancelTransfer(u) ==
    /\ Agent(u)
    /\ fixture
    /\ transfer # 0
    /\ status \in UnderReview \cup Returned
    /\ revisions[current].kind = "transfer"

CancelTransfer(u) ==
    /\ MayCancelTransfer(u)
    /\ current' = CurrentAfterCancel
    /\ transfer' = 0
    /\ status' = "approved"
    /\ version' = version + 1
    /\ UNCHANGED <<directory, approved, amendment, withdrawal, content,
                   evidence, assigned, execution, projectActive, fixture>>

-----------------------------------------------------------------------------
(* Review decisions: decide_activity, always on the current revision. *)

(* The pending request, when there is one, is the one the revision is
   about, and the revision was built on the approved baseline. *)
RequestMatches(kind, id) ==
    /\ revisions[current].kind = kind
    /\ revisions[current].request = id
    /\ revisions[current].base = approved

(* Contributors of the Activity may not review it, whatever their role. *)
\* mutant: excludes only the submitter
Independent_OfSubmission(u) == u # revisions[current].submitter
Independent(u) == u \notin contributors

Reviewable(u) ==
    /\ current # 0
    /\ withdrawal # 0 =>
           LifecycleEligible /\ RequestMatches("withdrawal", withdrawal)
    /\ transfer # 0 =>
           LifecycleEligible /\ RequestMatches("transfer", transfer)
    /\ amendment # 0 => RequestMatches("amendment", amendment)
    /\ Independent(u)

MayPrevalidate(u) == Supervisor(u) /\ status = "submitted" /\ Reviewable(u)

PrevalidatedByAnother(u) ==
    \E d \in Decided(current, "supervisor") :
        d.outcome = "prevalidated" /\ d.actor # u

MayDecideFinally(u) ==
    /\ Validator(u)
    /\ status = "prevalidated"
    /\ Reviewable(u)
    /\ PrevalidatedByAnother(u)

Record(u, stage, outcome, requested) ==
    /\ decisions' = decisions \cup
           {[revision |-> current, stage |-> stage, outcome |-> outcome,
             actor |-> u, requested |-> requested]}
    /\ version' = version + 1
    /\ UNCHANGED <<directory, revisions, contributors, known, started,
                   settlement, projectActive, fixture>>

Prevalidate(u) ==
    /\ MayPrevalidate(u)
    /\ status' = "prevalidated"
    /\ Record(u, "supervisor", "prevalidated", FALSE)
    /\ UNCHANGED <<pointers, plan, placement, assigned>>

ReturnBySupervisor(u) ==
    /\ MayPrevalidate(u)
    /\ status' = "returned_supervisor"
    /\ Record(u, "supervisor", "returned", FALSE)
    /\ UNCHANGED <<pointers, plan, placement, assigned>>

(* A requested amount may accompany only the return of a plan. *)
ReturnByValidator(u, requested) ==
    /\ MayDecideFinally(u)
    /\ requested => revisions[current].kind \in {"plan", "amendment"}
    /\ status' = "returned_validator"
    /\ Record(u, "validator", "returned", requested)
    /\ UNCHANGED <<pointers, plan, placement, assigned>>

ApprovePlan(u) ==
    /\ MayDecideFinally(u)
    /\ revisions[current].kind \in {"plan", "amendment"}
    /\ status' = "approved"
    /\ approved' = current
    /\ amendment' = 0
    /\ Record(u, "validator", "approved", FALSE)
    /\ UNCHANGED <<current, withdrawal, transfer, plan, placement, assigned>>

(* The approved withdrawal keeps its identifier and the approved baseline,
   and ends every assignment. *)
AssignmentsAfterEnd == {}

ApproveWithdrawal(u) ==
    /\ MayDecideFinally(u)
    /\ revisions[current].kind = "withdrawal"
    /\ status' = "withdrawn"
    /\ assigned' = AssignmentsAfterEnd
    /\ Record(u, "validator", "approved", FALSE)
    /\ UNCHANGED <<pointers, plan, placement>>

TransferredStart == revisions[current].plan.start

(* The PTA of the target year is created when the Project has none. *)
ApproveTransfer(u) ==
    /\ MayDecideFinally(u)
    /\ revisions[current].kind = "transfer"
    /\ projectActive
    /\ placement' = revisions[current].year
    /\ plan' = [plan EXCEPT !.start = TransferredStart]
    /\ status' = "approved"
    /\ approved' = current
    /\ transfer' = 0
    /\ Record(u, "validator", "approved", FALSE)
    /\ UNCHANGED <<current, amendment, withdrawal, assigned>>

-----------------------------------------------------------------------------
(* Assignments and accounts: replace_assignments and auth/access.lifecycle. *)

MayAssign(u) == (Supervisor(u) \/ Validator(u)) /\ status \notin Ended

AssignAgents(u, agents) ==
    /\ status # "none"
    /\ MayAssign(u)
    /\ \A a \in agents : Agent(a)
    /\ assigned' = agents
    /\ version' = version + 1
    /\ UNCHANGED <<directory, status, pointers, content, evidence, execution,
                   projectActive, fixture>>

(* lifecycle_eligible refuses an account with a current assignment. *)
WithoutResponsibility(u) == u \notin assigned

ChangeAccount(u, r) ==
    /\ WithoutResponsibility(u)
    /\ role[u] # "inactive"
    /\ role[u] # r
    /\ userVersion[u] < MaxUserVersion
    /\ role' = [role EXCEPT ![u] = r]
    /\ userVersion' = [userVersion EXCEPT ![u] = @ + 1]
    /\ UNCHANGED <<status, version, pointers, content, evidence, assigned,
                   execution, projectActive, fixture>>

ChangeRole(u, r) == r \in Role /\ ChangeAccount(u, r)
Deactivate(u) == ChangeAccount(u, "inactive")

-----------------------------------------------------------------------------
(* What the review sees of execution, settlement, closure and the Project. *)

(* pause_reason finds nothing; the funding it also asks for is the subject
   of the settlement. *)
Running == projectActive /\ status = "approved" /\ NothingPending

StartOperation(u, o) ==
    /\ Agent(u)
    /\ Unfrozen
    /\ Running
    /\ plan.ops = revisions[approved].plan.ops
    /\ o \in revisions[approved].plan.ops
    /\ o \notin started
    /\ started' = started \cup {o}
    /\ version' = version + 1
    /\ UNCHANGED <<directory, status, pointers, content, evidence, assigned,
                   settlement, projectActive, fixture>>

(* verified_financial_basis, as far as Operations go. *)
FullyExecuted ==
    /\ plan.ops = revisions[approved].plan.ops
    /\ plan.ops \subseteq started

Settle(from, to) ==
    /\ settlement = from
    /\ settlement' = to
    /\ version' = version + 1
    /\ UNCHANGED <<directory, status, pointers, content, evidence, assigned,
                   started, projectActive, fixture>>

SubmitSettlement(u) ==
    Agent(u) /\ Running /\ FullyExecuted /\ Settle("none", "pending")
ApproveSettlement(u) == Validator(u) /\ Settle("pending", "approved")
EndSettlement(u) == role[u] \in Role /\ Settle("pending", "none")

(* The row checks of pta_validate_activity_transfer_state that read the
   approved placement and a current revision that is a transfer, for the
   current row with the state st. *)
PlacementAccepted ==
    approved # 0 =>
        LET base == revisions[approved]
        IN  /\ placement = base.year
            /\ amendment = 0 => plan.start = base.plan.start
            /\ base.kind # "transfer" => placement = base.from

TransferRowAccepted(st) ==
    LET snapshot == revisions[current]
        base == revisions[approved]
    IN  IF transfer # 0
        THEN /\ RequestMatches("transfer", transfer)
             /\ snapshot.from = placement
             /\ snapshot.year > placement
             /\ snapshot.plan = [base.plan EXCEPT !.start = snapshot.year]
        ELSE (current # 0 /\ snapshot.kind = "transfer") =>
                 /\ st \in {"approved", "amendment_draft"}
                 /\ current = approved
                 /\ snapshot.year = placement

(* close_activity, and the commit its deferred triggers may refuse. *)
ClosureChecksPass ==
    /\ Running
    /\ FullyExecuted
    /\ settlement = "approved"

CloseActivity(u) ==
    /\ Agent(u)
    /\ ClosureChecksPass
    /\ TransferRowAccepted("closed")
    /\ status' = "closed"
    /\ assigned' = AssignmentsAfterEnd
    /\ version' = version + 1
    /\ UNCHANGED <<directory, pointers, content, evidence, execution,
                   projectActive, fixture>>

\* mutant: only Activities in preparation block
ProjectEmpty_OrApproved == status \in Ended \cup {"none", "approved"}
ProjectEmpty == status \in Ended \cup {"none"}

CloseProject(u) ==
    /\ Validator(u)
    /\ projectActive
    /\ ProjectEmpty
    /\ projectActive' = FALSE
    /\ UNCHANGED <<directory, status, version, pointers, content, evidence,
                   assigned, execution, fixture>>

(* The server starts again under another policy.  The handlers ask for the
   fixture at every step of a withdrawal or a transfer. *)
ChangePolicy ==
    /\ fixture' = ~fixture
    /\ UNCHANGED <<directory, status, version, pointers, content, evidence,
                   assigned, execution, projectActive>>

-----------------------------------------------------------------------------
(* What activity_item advertises to a reader (service.allowed and the two
   filters on it), and what the handlers accept. *)

Action == {"edit", "submit", "open_amendment", "cancel_amendment",
           "request_withdrawal", "cancel_withdrawal", "request_transfer",
           "cancel_transfer", "assign_agents", "prevalidate", "approve",
           "return"}

AgentAction(a) ==
    \/ a \in {"edit", "submit"} /\ withdrawal = 0 /\ transfer = 0
                                /\ status \in Editable
    \/ a = "open_amendment" /\ status = "approved" /\ settlement = "none"
    \/ a = "cancel_amendment" /\ amendment # 0
    \/ a = "cancel_withdrawal" /\ withdrawal # 0 /\ status \notin Ended
    \/ a = "cancel_transfer" /\ transfer # 0
    \/ /\ a = "request_withdrawal"
       /\ started = {}
       /\ status = "approved" \/ (withdrawal # 0 /\ status \in Returned)
    \/ /\ a = "request_transfer"
       /\ started = {}
       /\ status = "approved" \/ (transfer # 0 /\ status \in Returned)

\* mutant: offers the final decision to the prevalidator
ReviewAction_ByPrevalidator(u, a) ==
    \/ /\ a \in {"prevalidate", "return"}
       /\ Supervisor(u) /\ status = "submitted" /\ u \notin contributors
    \/ /\ a \in {"approve", "return"}
       /\ Validator(u) /\ status = "prevalidated" /\ u \notin contributors
ReviewAction(u, a) ==
    \/ /\ a \in {"prevalidate", "return"}
       /\ Supervisor(u) /\ status = "submitted" /\ u \notin contributors
    \/ /\ a \in {"approve", "return"}
       /\ Validator(u) /\ status = "prevalidated" /\ u \notin contributors
       /\ \A d \in Decided(current, "supervisor") :
              d.outcome = "prevalidated" => d.actor # u

Advertised(u) ==
    {a \in Action :
        \/ Agent(u) /\ AgentAction(a)
        \/ a = "assign_agents" /\ (Supervisor(u) \/ Validator(u))
                               /\ status \notin Ended
        \/ ReviewAction(u, a)}

Accepted(u) ==
    {a \in Action :
        \/ a = "edit" /\ MayEdit(u)
        \/ a = "submit" /\ MaySubmit(u)
        \/ a = "open_amendment" /\ MayOpenAmendment(u)
        \/ a = "cancel_amendment" /\ MayCancelAmendment(u)
        \/ a = "request_withdrawal" /\ MayRequestWithdrawal(u)
        \/ a = "cancel_withdrawal" /\ MayCancelWithdrawal(u)
        \/ a = "request_transfer" /\ MayRequestTransfer(u)
        \/ a = "cancel_transfer" /\ MayCancelTransfer(u)
        \/ a = "assign_agents" /\ MayAssign(u)
        \/ a = "prevalidate" /\ MayPrevalidate(u)
        \/ a = "approve" /\ MayDecideFinally(u)
        \/ a = "return" /\ (MayPrevalidate(u) \/ MayDecideFinally(u))}

-----------------------------------------------------------------------------
(* The approved plan of a year (approved_plan) and the metrics of a PTA are read from
   the revisions and their final decisions alone, never from the Activity row. *)
\* mutant: any final decision counts, the one that returned the revision too
FinallyApproved_Decided == {r \in 1..Len(revisions) : Decided(r, "validator") # {}}
FinallyApproved == {r \in 1..Len(revisions) : "approved" \in Outcome(r, "validator")}

(* The newest approved revision, unless it withdraws the Activity or plans another
   year: empty, or the one revision whose total counts. *)
AnnualPlan(year) ==
    {r \in FinallyApproved : /\ \A q \in FinallyApproved : q <= r
                             /\ revisions[r].kind # "withdrawal"
                             /\ revisions[r].year = year}

-----------------------------------------------------------------------------
(* A placeholder until the Activity is created. *)
NoPlan == CHOOSE p \in Plan : p.ops = {}

Init ==
    /\ role \in InitialRoles
    /\ userVersion = [u \in User |-> 1]
    /\ status = "none"
    /\ version = 0
    /\ plan = NoPlan
    /\ known = {}
    /\ revisions = <<>>
    /\ decisions = {}
    /\ current = 0
    /\ approved = 0
    /\ amendment = 0
    /\ withdrawal = 0
    /\ transfer = 0
    /\ placement = plan.start
    /\ contributors = {}
    /\ assigned = {}
    /\ started = {}
    /\ settlement = "none"
    /\ projectActive = TRUE
    /\ fixture \in BOOLEAN

Planning(u) ==
    \/ \E p \in Plan : CreateActivity(u, p) \/ ReplaceActivity(u, p)
    \/ SubmitActivity(u)
    \/ OpenAmendment(u) \/ CancelAmendment(u)
    \/ RequestWithdrawal(u) \/ CancelWithdrawal(u)
    \/ \E y \in Year : RequestTransfer(u, y)
    \/ CancelTransfer(u)

Reviewing(u) ==
    \/ Prevalidate(u) \/ ReturnBySupervisor(u)
    \/ \E requested \in BOOLEAN : ReturnByValidator(u, requested)
    \/ ApprovePlan(u) \/ ApproveWithdrawal(u) \/ ApproveTransfer(u)
    \/ \E agents \in SUBSET User : AssignAgents(u, agents)

Executing(u) ==
    \/ \E o \in Operation : StartOperation(u, o)
    \/ SubmitSettlement(u) \/ ApproveSettlement(u) \/ EndSettlement(u)
    \/ CloseActivity(u)

Next ==
    \/ /\ version < MaxVersion
       /\ \E u \in User : Planning(u) \/ Reviewing(u) \/ Executing(u)
    \/ \E u \in User : CloseProject(u) \/ Deactivate(u)
    \/ \E u \in User, r \in Role : ChangeRole(u, r)
    \/ ChangePolicy

Spec == Init /\ [][Next]_vars

-----------------------------------------------------------------------------
TypeOK ==
    /\ role \in [User -> Authority]
    /\ userVersion \in [User -> Nat]
    /\ status \in Status
    /\ version \in Nat
    /\ plan \in Plan
    /\ known \subseteq Operation
    /\ revisions \in Seq(Revision)
    /\ decisions \subseteq Decision
    /\ current \in 0..Len(revisions)
    /\ approved \in 0..Len(revisions)
    /\ amendment \in Nat
    /\ withdrawal \in Nat
    /\ transfer \in Nat
    /\ placement \in Year
    /\ contributors \subseteq User
    /\ assigned \subseteq User
    /\ started \subseteq Operation
    /\ settlement \in {"none", "pending", "approved"}
    /\ projectActive \in BOOLEAN
    /\ fixture \in BOOLEAN

(* The CHECK constraints activity_revision_pointer_state, _amendment_state,
   _withdrawal_state, _transfer_state and _placement_year_valid of
   planning/models.py: a row that broke one would abort the transaction of a
   handler that believed itself allowed. *)
PointerState ==
    CASE status = "none" -> current = 0 /\ approved = 0
      [] status = "draft" -> current = 0 /\ approved = 0
      [] status \in {"amendment_draft", "approved", "closed"} ->
             approved # 0 /\ current = approved
      [] status = "withdrawn" ->
             approved # 0 /\ current \notin {0, approved} /\ withdrawal # 0
      [] OTHER ->
             /\ current # 0
             /\ \/ /\ amendment = 0 /\ withdrawal = 0 /\ transfer = 0
                   /\ approved = 0
                \/ /\ Cardinality({amendment, withdrawal, transfer} \ {0}) = 1
                   /\ approved # 0 /\ current # approved

DatabaseConstraints ==
    /\ PointerState
    /\ IF amendment = 0
       THEN \/ approved = 0
            \/ status \in {"approved"} \cup Ended
            \/ withdrawal # 0 \/ transfer # 0
       ELSE /\ withdrawal = 0 /\ transfer = 0 /\ approved # 0
            /\ status # "approved"
    /\ status = "withdrawn" => withdrawal # 0
    /\ withdrawal # 0 =>
           /\ amendment = 0 /\ transfer = 0 /\ approved # 0
           /\ status \in UnderReview \cup Returned \cup {"withdrawn"}
    /\ transfer # 0 =>
           /\ amendment = 0 /\ withdrawal = 0 /\ approved # 0
           /\ status \in UnderReview \cup Returned
    /\ status # "none" => plan.start = placement

(* The trigger pta_validate_activity_review_state: the approved revision was
   prevalidated and approved by two people and is no withdrawal; a pending
   withdrawal or amendment is the one its revision was built for, on the
   approved baseline; and the state is what the decisions on the current
   revision make it. *)
ApprovedChain ==
    approved # 0 =>
        /\ revisions[approved].kind # "withdrawal"
        /\ Outcome(approved, "supervisor") = {"prevalidated"}
        /\ Outcome(approved, "validator") = {"approved"}
        /\ \A s \in Decided(approved, "supervisor"),
              v \in Decided(approved, "validator") : s.actor # v.actor

Lineage ==
    /\ IF withdrawal # 0
       THEN /\ RequestMatches("withdrawal", withdrawal)
            /\ revisions[current].plan = revisions[approved].plan
            /\ revisions[current].year = revisions[approved].year
       ELSE revisions[current].kind # "withdrawal"
    /\ amendment # 0 => RequestMatches("amendment", amendment)
    /\ approved = 0 => revisions[current].kind # "amendment"

StateMatchesDecisions ==
    LET supervisor == Outcome(current, "supervisor")
        validator == Outcome(current, "validator")
    IN  CASE status = "submitted" -> supervisor = {} /\ validator = {}
          [] status = "prevalidated" ->
                 supervisor = {"prevalidated"} /\ validator = {}
          [] status = "returned_supervisor" ->
                 supervisor = {"returned"} /\ validator = {}
          [] status = "returned_validator" ->
                 supervisor = {"prevalidated"} /\ validator = {"returned"}
          [] OTHER ->
                 supervisor = {"prevalidated"} /\ validator = {"approved"}

ReviewStateValid ==
    /\ ApprovedChain
    /\ status \notin {"none", "draft", "amendment_draft"} =>
           current # 0 /\ Lineage /\ StateMatchesDecisions

(* The trigger pta_validate_activity_transfer_state, on the current row: the
   placement is the one the approved revision planned for, a pending transfer
   leaves everything but the year alone, and no transfer revision is left
   current once its transfer is over. *)
TransferStateValid ==
    status # "none" => PlacementAccepted /\ TransferRowAccepted(status)

(* At the end of every command the database accepts what it wrote: the types and
   references of the row, its CHECK constraints, and the two deferred triggers. *)
DatabaseAccepts ==
    TypeOK /\ DatabaseConstraints /\ ReviewStateValid /\ TransferStateValid

(* business-rules.md: creator, submitters and cumulative structural
   contributors cannot review their lineage, including after role changes;
   the final approval is by someone other than the prevalidator. *)
SeparationOfDuties ==
    /\ \A d \in decisions, r \in 1..Len(revisions) :
           r <= d.revision => /\ d.actor \notin revisions[r].contributors
                              /\ d.actor # revisions[r].submitter
    /\ \A d \in decisions : d.stage = "validator" =>
           \E s \in decisions : /\ s.revision = d.revision
                                /\ s.stage = "supervisor"
                                /\ s.outcome = "prevalidated"
                                /\ s.actor # d.actor

(* Every submitted revision names everyone whose structural change it may
   carry: what is under review was last touched by its contributors, and
   nobody joins them while the review runs. *)
ContributorsOnRecord ==
    /\ status \in UnderReview \cup Returned =>
           revisions[current].submitter \in revisions[current].contributors
    /\ status \in UnderReview =>
           contributors = revisions[current].contributors

(* While no amendment is being prepared, the live plan is the approved one:
   after an approval, a cancellation, during a withdrawal or a transfer, and
   once the Activity has ended. *)
BaselineStands ==
    (approved # 0 /\ amendment = 0) => plan = revisions[approved].plan

(* What the reviewers of a plan decide on is what they were shown: the live
   plan cannot change between its submission and the decision. *)
CandidateUnchanged ==
    (status \in UnderReview /\ withdrawal = 0 /\ transfer = 0) =>
        plan = revisions[current].plan

(* The live rows always are what some revision put on record: the approved baseline,
   or the candidate its reviewers decide on, with everyone who contributed to it. *)
LiveMatchesRecord == BaselineStands /\ CandidateUnchanged /\ ContributorsOnRecord

(* An Operation of the current revision, or of the approved baseline, is
   never lost, and neither is one whose execution has started. *)
OperationsSurvive ==
    /\ current # 0 => revisions[current].plan.ops \subseteq plan.ops
    /\ approved # 0 => revisions[approved].plan.ops \subseteq plan.ops
    /\ started \subseteq plan.ops

(* A correction submitted after a return keeps the total of the revision it
   corrects, unless a Validator asked for another amount. *)
CorrectionsKeepTotal ==
    \A r \in 1..(Len(revisions) - 1) :
        LET lockers == {d \in decisions : /\ d.revision = r
                                          /\ d.outcome = "returned"
                                          /\ ~d.requested}
            old == revisions[r]
            new == revisions[r + 1]
        IN  (lockers # {} /\ new.kind = old.kind /\ new.request = old.request)
                => new.plan.total = old.plan.total

(* What corrections, however many, and the cancellation of an amendment leave alone:
   Operations on record or started, and the total unless a Validator asked. *)
KeptThroughCorrections == OperationsSurvive /\ CorrectionsKeepTotal

(* A withdrawn Activity never ran and retains nobody; a closed one retains
   nobody and ran to the last Operation. *)
EndedActivity ==
    /\ status = "withdrawn" => started = {} /\ assigned = {}
    /\ status = "closed" => started = plan.ops /\ assigned = {}

(* A pending or approved financial request freezes its basis: the plan is the
   approved one, fully executed, and no change to it is under way. *)
FrozenBasis ==
    settlement # "none" =>
        /\ status \in {"approved", "closed"}
        /\ amendment = 0
        /\ plan = revisions[approved].plan
        /\ started = plan.ops

(* Review and execution do not run into each other: nothing that ran is withdrawn, and
   what is settled or being settled is the approved plan, executed to the end. *)
ReviewRespectsExecution == EndedActivity /\ FrozenBasis

(* A currently assigned account is an active Agent, although roles change
   behind the back of the assignment. *)
AssignedAreAgents == \A u \in assigned : Agent(u)

(* A closed Project holds no unfinished Activity: no request left pending can
   move one again. *)
ClosedProjectIsIdle == ~projectActive => status \in Ended \cup {"none"}

(* The annual plan and the row tell the same story: an Activity counts once, in the
   year it is placed in and with its approved total, from its first approval until it
   is withdrawn, and whatever is requested, returned or cancelled meanwhile. So a
   closed Activity is always among the approved ones its PTA is measured against. *)
AnnualPlanAgrees ==
    \A year \in Year :
        AnnualPlan(year) = IF approved # 0 /\ status # "withdrawn" /\ placement = year
                           THEN {approved} ELSE {}

(* Asked of the policy: whatever moves a withdrawal or a transfer. *)
FixtureAsked(a) ==
    \/ a \in {"request_withdrawal", "cancel_withdrawal",
              "request_transfer", "cancel_transfer"}
    \/ /\ a \in {"prevalidate", "approve", "return"}
       /\ withdrawal # 0 \/ transfer # 0

(* engineering.md: advertised actions match server command guards.  They do,
   for every account in every state, but for two refusals no list announces:
   a correction that changes nothing, and the policy. *)
AdvertisedMatchesGuards ==
    \A u \in User :
        Accepted(u) =
            {a \in Advertised(u) : /\ a = "submit" => ContentChanged
                                   /\ FixtureAsked(a) => fixture}

(* business-rules.md: an Agent closes an Activity after all settlement checks
   pass; the database must then accept the commit. *)
ClosureCommits == ClosureChecksPass => TransferRowAccepted("closed")

-----------------------------------------------------------------------------
(* An Activity moves only forward in time, and only when a transfer that
   names the new year is approved. *)
PlacementOnlyByTransfer ==
    [][(status # "none" /\ placement' # placement) =>
           /\ placement' > placement
           /\ approved' # approved
           /\ revisions[approved'].kind = "transfer"
           /\ revisions[approved'].year = placement']_vars

(* The approved baseline moves only to the revision just decided, which was
   built on the baseline it replaces: no approval overwrites another. *)
BaselineMovesInSequence ==
    [][approved' # approved =>
           /\ approved' = current
           /\ revisions[approved'].base = approved]_vars

(* Ended is for ever, and every change of the Activity advances its version,
   which is what makes the version a safe token of what a client has seen. *)
VersionTokens ==
    [][LET row == <<status, plan, pointers, placement, assigned, contributors,
                    started, settlement>>
       IN  /\ row' # row => version' > version
           /\ status \in Ended => row' = row]_vars
=============================================================================
