---------------------------- MODULE FinancialChain ----------------------------
(***************************************************************************)
(* How one executed Activity is settled and closed.  Positive spending is  *)
(* paid by a disbursement (planning/disbursement.py) and a virement        *)
(* (virement.py), which is then confirmed (virement_confirmation.py); what *)
(* was not spent is returned by a reversement (reversement.py).  No        *)
(* spending at all is declared instead (zero_spending.py).  Each request   *)
(* is reviewed by two people.  The Activity then closes (execution.py).    *)
(*                                                                         *)
(* Commands hold one advisory lock each and are single steps.  No request  *)
(* locks the Activity: what keeps its basis still until it is closed are   *)
(* the checks that every other command makes.                              *)
(***************************************************************************)
EXTENDS Integers, Sequences, FiniteSets, Functions

CONSTANTS
    User,           \* the ordinary internal accounts
    InitialRoles,   \* the roles the accounts may start with
    Operation,      \* the Operations of the approved plan
    Amount,         \* amounts of money
    Note,           \* notes on a confirmation or a reversement
    LastDay,        \* bound: days that pass
    MaxRevision,    \* bound: approved revisions
    MaxRequest,     \* bound: requests of all kinds
    MaxDeclaration, \* bound: confirmations and reversements together
    MaxRoleChange   \* bound: changes of role

Role == {"AGENT_SAISIE", "AGENT_VERIFICATEUR", "VALIDATEUR_DEFINITIF"}

ASSUME RolesAssumption == InitialRoles \subseteq [User -> Role]
ASSUME AmountAssumption == Amount \subseteq Nat
ASSUME OperationsAssumption == IsFiniteSet(Operation)
ASSUME BoundsAssumption ==
    {LastDay, MaxRevision, MaxRequest, MaxDeclaration, MaxRoleChange} \subseteq Nat

VARIABLES
    role,           \* User.role
    roleChanges,    \* how many there have been, for the bound
    revision,       \* approved_revision_id, counted
    allocation,     \* Activity.allocation
    paused,         \* an amendment, withdrawal or transfer is pending
    contributors,   \* users with an ActivityContributor row
    work,           \* final spending of each Operation, or Unfinished
    authors,        \* actors of the execution events in auth_audit
    requests,       \* DisbursementRequest, ZeroSpendingDeclaration and
                    \* VirementRequest rows in order of submission
    decisions,      \* the rows of their three decision tables
    confirmations,  \* VirementConfirmation rows, oldest first
    reversements,   \* ReversementDeclaration rows, oldest first
    closed,         \* Activity.state = "closed"
    today           \* the date in Porto-Novo

people == <<role, roleChanges>>
planning == <<revision, allocation, paused, contributors>>
execution == <<work, authors>>
reviews == <<requests, decisions>>
declared == <<confirmations, reversements>>
vars == <<people, planning, execution, reviews, declared, closed, today>>

Unfinished == -1  \* not completed, whatever amount may be known
Work == [Operation -> Amount \cup {Unfinished}]

(* The frozen facts of a request: revision, allocation and Operations. *)
Basis == [revision : Nat, allocation : Amount, work : Work]

Payment == [kind : {"disbursement", "zero"}, submitter : User,
            excluded : SUBSET User, basis : Basis,
            state : {"submitted", "prevalidated", "returned", "approved",
                     "cancelled"}]
Virement == [kind : {"virement"}, submitter : User, excluded : SUBSET User,
             source : Nat,
             state : {"submitted", "prevalidated", "returned", "approved",
                      "cancelled"}]
(* cites: prevalidation_decision_id is set. *)
Decision == [request : Nat, stage : {"supervisor", "validator"},
             outcome : {"prevalidated", "returned", "approved"},
             actor : User, cites : BOOLEAN]

Confirmation == [request : Nat, amount : Int, date : Nat, note : Note]
Reversement == [request : Nat, confirmation : Nat, amount : Int, date : Nat,
                note : Note]

Agent(u) == role[u] = "AGENT_SAISIE"
Supervisor(u) == role[u] = "AGENT_VERIFICATEUR"
Validator(u) == role[u] = "VALIDATEUR_DEFINITIF"

Spent(facts) == SumFunction(facts)
Live == [revision |-> revision, allocation |-> allocation, work |-> work]

Active(r) == requests[r].state \notin {"returned", "cancelled"}
Open(r) == requests[r].state \in {"submitted", "prevalidated"}
Current(kind) == {r \in DOMAIN requests : requests[r].kind = kind /\ Active(r)}

\* mutant: the freeze ends with the approval
Frozen_Pending ==
    \E r \in Current("disbursement") \cup Current("zero") : Open(r)
Frozen_Disbursement == Current("disbursement") # {}  \* mutant: of one kind only
Frozen == Current("disbursement") \cup Current("zero") # {}

Paused == paused \/ closed

-----------------------------------------------------------------------------
(* Execution and planning, as far as they move the basis of a request. *)

(* Starting an Operation, noting something and recording or correcting its
   spending leave an author.  The pause while spending above the allocation is
   not funded only refuses more, to commands and views alike; it is the subject
   of BudgetFunding and left out here. *)
Execute(u, o, amount) ==
    /\ Agent(u) /\ ~Paused /\ ~Frozen
    /\ work' = [work EXCEPT ![o] = amount]
    /\ authors' = authors \cup {u}
    /\ UNCHANGED <<people, planning, reviews, declared, closed, today>>

(* open_amendment, and the requests for a withdrawal or a transfer. *)
Pause(u) ==
    /\ Agent(u) /\ ~Paused /\ ~Frozen
    /\ paused' = TRUE
    /\ UNCHANGED <<people, revision, allocation, contributors, execution,
                   reviews, declared, closed, today>>

Contribute(u) ==
    /\ Agent(u) /\ paused
    /\ contributors' = contributors \cup {u}
    /\ UNCHANGED <<people, revision, allocation, paused, execution, reviews,
                   declared, closed, today>>

(* The pause ends with a new approved revision or with the old one. *)
ApproveRevision(amount) ==
    /\ paused /\ revision < MaxRevision
    /\ revision' = revision + 1
    /\ allocation' = amount
    /\ paused' = FALSE
    /\ UNCHANGED <<people, contributors, execution, reviews, declared, closed,
                   today>>

Resume ==
    /\ paused
    /\ paused' = FALSE
    /\ UNCHANGED <<people, revision, allocation, contributors, execution,
                   reviews, declared, closed, today>>

ChangeRole(u, r) ==
    /\ roleChanges < MaxRoleChange
    /\ r \in Role \ {role[u]}
    /\ role' = [role EXCEPT ![u] = r]
    /\ roleChanges' = roleChanges + 1
    /\ UNCHANGED <<planning, execution, reviews, declared, closed, today>>

NewDay ==
    /\ today < LastDay
    /\ today' = today + 1
    /\ UNCHANGED <<people, planning, execution, reviews, declared, closed>>

-----------------------------------------------------------------------------
(* Submission: submit of disbursement.py, zero_spending.py and virement.py. *)

(* verified_financial_basis. *)
Complete(facts) == \A o \in Operation : facts[o] # Unfinished
Settleable == Complete(work) /\ Spent(work) <= allocation
Payable == Settleable /\ Spent(work) > 0

ExcludedReviewers(u) == {u} \cup contributors \cup authors

Submit(row) ==
    /\ Len(requests) < MaxRequest
    /\ requests' = Append(requests, row)
    /\ UNCHANGED <<people, planning, execution, decisions, declared, closed,
                   today>>

PaymentRow(u, kind) ==
    [kind |-> kind, submitter |-> u, excluded |-> ExcludedReviewers(u),
     basis |-> Live, state |-> "submitted"]

SubmitDisbursement(u) ==
    /\ Agent(u) /\ ~Paused
    /\ Current("disbursement") = {}
    /\ Payable
    /\ Submit(PaymentRow(u, "disbursement"))

SubmitZeroSpending(u) ==
    /\ Agent(u) /\ ~Paused
    /\ Current("zero") = {}
    /\ Settleable /\ Spent(work) = 0
    /\ Submit(PaymentRow(u, "zero"))

(* A virement is built on an approved disbursement whose basis still stands. *)
VerifiedSource(s) ==
    /\ ~Paused
    /\ requests[s].kind = "disbursement" /\ requests[s].state = "approved"
    /\ Payable
    /\ requests[s].basis = Live

MaySubmitVirement(u, s) ==
    /\ Agent(u)
    /\ Current("virement") = {}
    /\ VerifiedSource(s)

\* mutant: the reviewers that the disbursement excluded are forgotten
VirementExclusions_OfPlan(u, s) == {u} \cup contributors
VirementExclusions(u, s) == {u} \cup contributors \cup requests[s].excluded

VirementRow(u, s) ==
    [kind |-> "virement", submitter |-> u, source |-> s,
     excluded |-> VirementExclusions(u, s), state |-> "submitted"]

SubmitVirement(u, s) ==
    /\ MaySubmitVirement(u, s)
    /\ Submit(VirementRow(u, s))

-----------------------------------------------------------------------------
(* Review: decide and cancel of the three files. *)

Prevalidators(r) ==
    {d.actor : d \in {e \in decisions : e.request = r /\ e.stage = "supervisor"}}

(* allowed_actions; a declaration of no spending cannot be cancelled. *)
Cancellable(r) == requests[r].kind # "zero" /\ Open(r)

MayPrevalidate(u, r) ==
    /\ Supervisor(u) /\ u \notin requests[r].excluded
    /\ requests[r].state = "submitted"

MayApprove(u, r) ==
    /\ Validator(u) /\ u \notin requests[r].excluded
    /\ requests[r].state = "prevalidated"
    /\ Prevalidators(r) \ {u} # {}

AllowedActions(u, r) ==
    {a \in {"prevalidate", "approve", "return", "cancel"} :
        \/ a = "cancel" /\ Agent(u) /\ Cancellable(r)
        \/ a \in {"prevalidate", "return"} /\ MayPrevalidate(u, r)
        \/ a \in {"approve", "return"} /\ MayApprove(u, r)}

(* Every command on a virement verifies its source first. *)
SourceStands(r) ==
    requests[r].kind = "virement" => VerifiedSource(requests[r].source)

May(u, r, action) == SourceStands(r) /\ action \in AllowedActions(u, r)

(* An approval cites the prevalidation; so does the return of a virement by
   the Validator, as its trigger demands. *)
\* mutant: only approvals, as for the other two kinds
Cites_Approvals(r, stage, outcome) == outcome = "approved"
Cites(r, stage, outcome) ==
    \/ outcome = "approved"
    \/ requests[r].kind = "virement" /\ stage = "validator"

Move(r, state, rows) ==
    /\ requests' = [requests EXCEPT ![r].state = state]
    /\ decisions' = decisions \cup rows
    /\ UNCHANGED <<people, planning, execution, declared, closed, today>>

Row(u, r, stage, outcome) ==
    [request |-> r, stage |-> stage, outcome |-> outcome, actor |-> u,
     cites |-> Cites(r, stage, outcome)]

Prevalidate(u, r) ==
    /\ May(u, r, "prevalidate")
    /\ Move(r, "prevalidated", {Row(u, r, "supervisor", "prevalidated")})

ApproveRequest(u, r) ==
    /\ May(u, r, "approve")
    /\ Move(r, "approved", {Row(u, r, "validator", "approved")})

Return(u, r) ==
    /\ May(u, r, "return")
    /\ Move(r, "returned",
            {Row(u, r, IF Supervisor(u) THEN "supervisor" ELSE "validator",
                 "returned")})

Cancel(u, r) ==
    /\ May(u, r, "cancel")
    /\ Move(r, "cancelled", {})

-----------------------------------------------------------------------------
(* What happened at the bank: create_confirmation and create_declaration. *)

Rows(rows, v) == {i \in DOMAIN rows : rows[i].request = v}
Latest(rows, v) ==
    CHOOSE i \in Rows(rows, v) \cup {0} : \A j \in Rows(rows, v) : j <= i

Settled(v) ==
    /\ requests[v].kind = "virement" /\ requests[v].state = "approved"
    /\ VerifiedSource(requests[v].source)

AmountPaid(v) == Spent(requests[requests[v].source].basis.work)
Required(v) == requests[requests[v].source].basis.allocation - AmountPaid(v)

Room == Len(confirmations) + Len(reversements) < MaxDeclaration

MayConfirm(u, v) == Agent(u) /\ Settled(v) /\ Rows(confirmations, v) = {}

\* mutant: a confirmation stays open to correction after the reversement
MayCorrectConfirmation_Always(u, v) ==
    Agent(u) /\ Settled(v) /\ Rows(confirmations, v) # {}
MayCorrectConfirmation(u, v) ==
    /\ Agent(u) /\ Settled(v)
    /\ Rows(confirmations, v) # {}
    /\ Rows(reversements, v) = {}

CreateConfirmation(v, date, note) ==
    /\ Room
    /\ date <= today
    /\ confirmations' = Append(confirmations,
           [request |-> v, amount |-> AmountPaid(v), date |-> date, note |-> note])
    /\ UNCHANGED <<people, planning, execution, reviews, reversements, closed,
                   today>>

Differs(rows, v, date, note) ==
    LET previous == rows[Latest(rows, v)]
    IN  previous.date # date \/ previous.note # note

Confirm(u, v, date, note) ==
    /\ MayConfirm(u, v)
    /\ CreateConfirmation(v, date, note)

CorrectConfirmation(u, v, date, note) ==
    /\ MayCorrectConfirmation(u, v)
    /\ Differs(confirmations, v, date, note)
    /\ CreateConfirmation(v, date, note)

Returnable(u, v) ==
    /\ Agent(u) /\ Settled(v)
    /\ Rows(confirmations, v) # {}
    /\ Required(v) > 0
MayDeclare(u, v) == Returnable(u, v) /\ Rows(reversements, v) = {}
MayCorrectReversement(u, v) == Returnable(u, v) /\ Rows(reversements, v) # {}

CreateReversement(v, date, note) ==
    LET confirmation == Latest(confirmations, v)
    IN  /\ Room
        /\ date \in confirmations[confirmation].date .. today
        /\ reversements' = Append(reversements,
               [request |-> v, confirmation |-> confirmation,
                amount |-> Required(v), date |-> date, note |-> note])
        /\ UNCHANGED <<people, planning, execution, reviews, confirmations,
                       closed, today>>

Declare(u, v, date, note) ==
    /\ MayDeclare(u, v)
    /\ CreateReversement(v, date, note)

CorrectReversement(u, v, date, note) ==
    /\ MayCorrectReversement(u, v)
    /\ Differs(reversements, v, date, note)
    /\ CreateReversement(v, date, note)

-----------------------------------------------------------------------------
(* Closing: closure_blockers and close_activity. *)

NoSpendingApproved ==
    \E z \in DOMAIN requests :
        /\ requests[z].kind = "zero" /\ requests[z].state = "approved"
        /\ requests[z].basis.revision = revision
        /\ requests[z].basis.work = work

ReturnSettled_Confirmed(v) == Latest(confirmations, v) # 0  \* mutant: no return
ReturnSettled(v) ==
    allocation - Spent(work) > 0 =>
        LET last == Latest(reversements, v)
        IN  /\ last # 0
            /\ reversements[last].confirmation = Latest(confirmations, v)
            /\ reversements[last].amount = allocation - Spent(work)

PaymentSettled ==
    \E s \in Current("disbursement") : \E v \in Current("virement") :
        /\ requests[s].state = "approved"
        /\ Spent(requests[s].basis.work) = Spent(work)
        /\ requests[v].state = "approved" /\ requests[v].source = s
        /\ Latest(confirmations, v) # 0
        /\ confirmations[Latest(confirmations, v)].amount = Spent(work)
        /\ ReturnSettled(v)

CloseActivity(u) ==
    /\ Agent(u) /\ ~Paused
    /\ Settleable
    /\ IF Spent(work) = 0 THEN NoSpendingApproved ELSE PaymentSettled
    /\ closed' = TRUE
    /\ UNCHANGED <<people, planning, execution, reviews, declared, today>>

(* What the views offer: output of virement.py and execution_detail. *)
CanSubmitVirement(u, s) ==
    /\ Agent(u) /\ ~Paused
    /\ requests[s].kind = "disbursement" /\ requests[s].state = "approved"
    /\ Current("virement") = {}

\* mutant: the correction is offered whatever follows the confirmation
SettlementActions_Always(u, v) ==
    {a \in {"confirm", "correct_confirmation", "declare", "correct"} :
        /\ Agent(u) /\ ~Paused /\ requests[v].state = "approved"
        /\ \/ a = "confirm" /\ Rows(confirmations, v) = {}
           \/ /\ Rows(confirmations, v) # {}
              /\ \/ a = "correct_confirmation"
                 \/ /\ Required(v) > 0
                    /\ \/ a = "declare" /\ Rows(reversements, v) = {}
                       \/ a = "correct" /\ Rows(reversements, v) # {}}
SettlementActions(u, v) ==
    {a \in {"confirm", "correct_confirmation", "declare", "correct"} :
        /\ Agent(u) /\ ~Paused /\ requests[v].state = "approved"
        /\ \/ a = "confirm" /\ Rows(confirmations, v) = {}
           \/ /\ Rows(confirmations, v) # {}
              /\ \/ a = "correct_confirmation" /\ Rows(reversements, v) = {}
                 \/ /\ Required(v) > 0
                    /\ \/ a = "declare" /\ Rows(reversements, v) = {}
                       \/ a = "correct" /\ Rows(reversements, v) # {}}

-----------------------------------------------------------------------------
(* The plan of one Agent was approved and nothing is executed yet. *)
Init ==
    /\ role \in InitialRoles
    /\ roleChanges = 0
    /\ revision = 1
    /\ allocation \in Amount \ {0}
    /\ paused = FALSE
    /\ \E u \in User : Agent(u) /\ contributors = {u}
    /\ work = [o \in Operation |-> Unfinished]
    /\ authors = {}
    /\ requests = <<>> /\ decisions = {}
    /\ confirmations = <<>> /\ reversements = <<>>
    /\ closed = FALSE
    /\ today = 1

Next ==
    \/ \E u \in User :
        \/ \E o \in Operation : \E a \in Amount \cup {Unfinished} :
               Execute(u, o, a)
        \/ Pause(u)
        \/ Contribute(u)
        \/ \E r \in Role : ChangeRole(u, r)
        \/ SubmitDisbursement(u)
        \/ SubmitZeroSpending(u)
        \/ CloseActivity(u)
        \/ \E r \in DOMAIN requests :
            \/ SubmitVirement(u, r)
            \/ Prevalidate(u, r)
            \/ ApproveRequest(u, r)
            \/ Return(u, r)
            \/ Cancel(u, r)
            \/ \E date \in 1..LastDay : \E note \in Note :
                \/ Confirm(u, r, date, note)
                \/ CorrectConfirmation(u, r, date, note)
                \/ Declare(u, r, date, note)
                \/ CorrectReversement(u, r, date, note)
    \/ \E a \in Amount \ {0} : ApproveRevision(a)
    \/ Resume
    \/ NewDay

Spec == Init /\ [][Next]_vars

-----------------------------------------------------------------------------
(* Every variable has its type, with the CHECKs on amounts:
   disbursement_amount_positive, virement_confirmation_amount_positive and
   reversement_declaration_amount_positive. *)
TypeOK ==
    /\ role \in [User -> Role]
    /\ roleChanges \in Nat /\ revision \in Nat /\ today \in Nat
    /\ allocation \in Amount \ {0}
    /\ paused \in BOOLEAN /\ closed \in BOOLEAN
    /\ contributors \subseteq User /\ authors \subseteq User
    /\ work \in Work
    /\ requests \in Seq(Payment \cup Virement)
    /\ \A r \in DOMAIN requests :
           requests[r].kind = "disbursement" => Spent(requests[r].basis.work) > 0
    /\ decisions \subseteq Decision
    /\ confirmations \in Seq(Confirmation)
    /\ reversements \in Seq(Reversement)
    /\ \A i \in DOMAIN confirmations : confirmations[i].amount > 0
    /\ \A i \in DOMAIN reversements : reversements[i].amount > 0

(* The two reviewers of a payment, a declaration or a virement that stands are
   different people, and none of them contributed to the Activity, executed
   any of it, or submitted the request or the payment it transfers, whatever
   their roles were at the time. *)
Outsider(u, r) ==
    /\ u \notin contributors \cup authors \cup {requests[r].submitter}
    /\ requests[r].kind = "virement" =>
           u # requests[requests[r].source].submitter
ReviewedByOutsiders ==
    \A r \in DOMAIN requests : Active(r) =>
        /\ \A d \in decisions : d.request = r => Outsider(d.actor, r)
        /\ requests[r].state = "approved" =>
               \E d, e \in decisions :
                   /\ d.request = r /\ d.outcome = "prevalidated"
                   /\ e.request = r /\ e.outcome = "approved"
                   /\ d.actor # e.actor

(* As long as a payment or a declaration stands, the approved revision, its
   allocation and the spending are those it was submitted with, and no
   amendment is pending: verified_source never finds a stale basis. *)
BasisStands ==
    \A r \in Current("disbursement") \cup Current("zero") :
        requests[r].basis = Live /\ ~paused

(* An Activity is either paid or declared without spending, never both, and
   has one request of each kind at a time, a virement only on the payment that
   stands.  Neither submission looks at the other kind: what separates them
   is the frozen spending. *)
OneRoute ==
    /\ \A kind \in {"disbursement", "zero", "virement"} :
           Cardinality(Current(kind)) <= 1
    /\ Current("disbursement") = {} \/ Current("zero") = {}
    /\ \A v \in Current("virement") :
           /\ requests[v].source \in Current("disbursement")
           /\ requests[requests[v].source].state = "approved"

(* The deferred triggers accept every command: the state of a request agrees
   with the decisions on it, which are one per stage, an approval cites the
   prevalidation of somebody else, and every decision of a Validator on a
   virement does. *)
Verdicts(r) == {<<d.stage, d.outcome>> : d \in {e \in decisions : e.request = r}}
Prevalidated == <<"supervisor", "prevalidated">>
StateMatchesDecisions ==
    /\ \A d, e \in decisions :
           d.request = e.request /\ d.stage = e.stage => d = e
    /\ \A r \in DOMAIN requests :
        Verdicts(r) \in
            CASE requests[r].state = "submitted" -> {{}}
              [] requests[r].state = "prevalidated" -> {{Prevalidated}}
              [] requests[r].state = "approved" ->
                     {{Prevalidated, <<"validator", "approved">>}}
              [] requests[r].state = "returned" ->
                     {{<<"supervisor", "returned">>},
                      {Prevalidated, <<"validator", "returned">>}}
              [] requests[r].state = "cancelled" -> {{}, {Prevalidated}}
    /\ \A d \in decisions :
        (d.outcome = "approved" \/ requests[d.request].kind = "virement") =>
            /\ d.stage = "validator" => d.cites
            /\ d.actor \notin requests[d.request].excluded

(* The database accepts every command at its commit: the rows satisfy the
   CHECKs, and the deferred triggers find states and decisions in agreement. *)
DatabaseAccepts == TypeOK /\ StateMatchesDecisions

(* A reversement returns what the confirmation that still counts left of the
   allocation, on a day between the transfer and today. *)
ReturnFollowsTransfer ==
    \A i \in DOMAIN reversements :
        LET confirmed == reversements[i].confirmation
            last == Latest(confirmations, reversements[i].request)
        IN  /\ confirmed = last
            /\ confirmations[last].amount + reversements[i].amount = allocation
            /\ confirmations[last].date <= reversements[i].date
            /\ reversements[i].date <= today

(* A closed Activity is settled as the trigger pta_validate_activity_closure
   asks, to the last unit of its allocation: no spending and a declaration that
   says so, or what was spent was paid and confirmed and the rest returned. *)
ClosedSettled ==
    closed =>
        /\ Complete(work)
        /\ \/ /\ Spent(work) = 0
              /\ \E z \in Current("zero") : /\ requests[z].state = "approved"
                                            /\ requests[z].basis = Live
           \/ \E v \in Current("virement") :
                  LET c == Latest(confirmations, v)
                      d == Latest(reversements, v)
                  IN  /\ requests[v].state = "approved"
                      /\ requests[requests[v].source].state = "approved"
                      /\ c # 0
                      /\ confirmations[c].amount = Spent(work)
                      /\ confirmations[c].amount
                         + (IF d = 0 THEN 0 ELSE reversements[d].amount)
                         = allocation

(* Nothing of a closed Activity or its settlement changes again. *)
ClosedForGood ==
    [][closed => UNCHANGED <<planning, execution, reviews, declared, closed>>]_vars

(* An approved, returned or cancelled request is never decided, cancelled or
   rewritten again; in particular a payment stays approved, and the Activity
   frozen, when its virement is returned. *)
OutcomesStand ==
    [][\A r \in DOMAIN requests :
           ~Open(r) => r \in DOMAIN requests' /\ requests'[r] = requests[r]]_vars

(* What the views offer is exactly what the commands accept, though the
   commands verify the source and its whole basis again. *)
OffersAccepted ==
    \A u \in User : \A r \in DOMAIN requests :
        /\ \A a \in AllowedActions(u, r) : May(u, r, a)
        /\ CanSubmitVirement(u, r) <=> MaySubmitVirement(u, r)
        /\ requests[r].kind = "virement" =>
               /\ "confirm" \in SettlementActions(u, r) <=> MayConfirm(u, r)
               /\ "correct_confirmation" \in SettlementActions(u, r)
                      <=> MayCorrectConfirmation(u, r)
               /\ "declare" \in SettlementActions(u, r) <=> MayDeclare(u, r)
               /\ "correct" \in SettlementActions(u, r)
                      <=> MayCorrectReversement(u, r)
=============================================================================
