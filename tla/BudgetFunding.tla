---------------------------- MODULE BudgetFunding ----------------------------
(***************************************************************************)
(* What one approved Activity spends, what its budget becomes, and who     *)
(* must agree to the difference.  Execution (planning/execution.py) starts *)
(* Operations and records their spending, amendments replace the approved  *)
(* budget, and every increase needs a funding request of its own           *)
(* (planning/funding.py).  What is owed is never stored: funding_basis     *)
(* works it out each time from the approved revisions and the audit log,   *)
(* which a later correction must not be able to embellish.                 *)
(*                                                                         *)
(* Commands hold one advisory lock each and are single steps.  The review  *)
(* of an amendment (ActivityReview) is here the one step ApproveAmendment, *)
(* and the chain of payments only a request that freezes the Activity.     *)
(***************************************************************************)
EXTENDS Integers, Sequences, FiniteSets, Functions

CONSTANTS
    User,           \* the ordinary internal accounts
    InitialRoles,   \* the roles the accounts may start with
    Operation,      \* identifiers of Operation rows
    Amount,         \* amounts of money
    Note,           \* non-empty execution observations
    MaxBudget,      \* bound: budgets approved in a behaviour
    MaxEvent,       \* bound: length of the audit log
    MaxRequest,     \* bound: funding requests submitted
    MaxRoleChange   \* bound: changes of role

Role == {"AGENT_SAISIE", "AGENT_VERIFICATEUR", "VALIDATEUR_DEFINITIF"}

ASSUME RolesAssumption == InitialRoles \subseteq [User -> Role]
ASSUME AmountAssumption == Amount \subseteq Nat
ASSUME OperationsAssumption == IsFiniteSet(Operation)
ASSUME BoundsAssumption ==
    {MaxBudget, MaxEvent, MaxRequest, MaxRoleChange} \subseteq Nat

VARIABLES
    role,           \* User.role
    roleChanges,    \* how many there have been, for the bound
    budgets,        \* the Operations' allocations in each approved revision
    draft,          \* those of the pending amendment, or NoAmendment
    contributors,   \* users with an ActivityContributor row
    facts,          \* the execution columns of the Operation rows
    log,            \* approvals and execution in auth_audit, oldest first
    funding,        \* FundingRequest rows in order of submission
    verdicts,       \* FundingDecision rows
    finance         \* "none", or the state of the payment request that freezes
                    \* the Activity

people == <<role, roleChanges>>
planning == <<budgets, draft, contributors>>
requests == <<funding, verdicts>>
vars == <<people, planning, facts, log, requests, finance>>

Unknown == -1   \* actual_spent IS NULL
Blank == ""     \* no observation

NoAmendment == <<>>
Budget == UNION {[ops -> Amount \ {0}] : ops \in (SUBSET Operation) \ {{}}}

Facts == [started : BOOLEAN, completed : BOOLEAN,
          spent : Amount \cup {Unknown}, note : Note \cup {Blank}]
Unstarted ==
    [started |-> FALSE, completed |-> FALSE, spent |-> Unknown, note |-> Blank]

Approval == [type : {"approved"}, budget : Nat]
Entry == [type : {"started", "recorded"}, operation : Operation, budget : Nat,
          allocation : Amount, before : Facts, after : Facts, author : User]

(* A request keeps the increase it is for (the later of the two budgets), its
   amount, and the reviewers its submission excluded. *)
Request == [budget : Nat, amount : Nat \ {0}, submitter : User,
            excluded : SUBSET User,
            state : {"submitted", "prevalidated", "returned", "approved",
                     "cancelled"}]
Verdict == [request : Nat, stage : {"supervisor", "validator"},
            outcome : {"prevalidated", "returned", "approved"}, actor : User]

Agent(u) == role[u] = "AGENT_SAISIE"
Supervisor(u) == role[u] = "AGENT_VERIFICATEUR"
Validator(u) == role[u] = "VALIDATEUR_DEFINITIF"

Approved == Len(budgets)
Operations == DOMAIN budgets[Approved]
Cost(budget) == SumFunction(budget)
Total(n) == Cost(budgets[n])

Spending(record) ==
    SumFunction([o \in Operation |->
        IF record[o].spent = Unknown THEN 0 ELSE record[o].spent])

Steady == draft = NoAmendment
Frozen == finance # "none"

-----------------------------------------------------------------------------
(* What is owed: increments, funding_basis and funding_reason. *)

\* mutant: only the newest budget is compared with the one before it
Increases_Newest ==
    {n \in {Approved} \ {1} : Total(n) > Total(n - 1)}
Increases == {n \in 2..Approved : Total(n) > Total(n - 1)}

Funded == {funding[r].budget :
               r \in {q \in DOMAIN funding : funding[q].state = "approved"}}
Pending == Increases \ Funded

(* A funded increase approved after budget n that reaches the spending. *)
Covered(n, spent) == \E m \in Increases \cap Funded : m > n /\ Total(m) >= spent

(* The log is replayed from its first event; the spending known at each event
   is held against the budget approved by then. *)
Judge(scan) ==
    LET spent == Spending(scan.facts)
    IN  [scan EXCEPT !.short =
            \/ @
            \/ spent > Total(scan.budget) /\ ~Covered(scan.budget, spent)]

\* mutant: the approval of a smaller budget is not judged
Scan_RecordsOnly(scan, event) ==
    IF event.type = "approved" THEN [scan EXCEPT !.budget = event.budget]
    ELSE Judge([scan EXCEPT !.facts[event.operation] = event.after])
Scan(scan, event) ==
    CASE event.type = "approved" -> Judge([scan EXCEPT !.budget = event.budget])
      [] event.type = "recorded" ->
             Judge([scan EXCEPT !.facts[event.operation] = event.after])
      [] OTHER -> scan

Blackboard == [budget |-> 1, facts |-> [o \in Operation |-> Unstarted],
               short |-> FALSE]

Shortfall_OfToday ==  \* mutant: only the present spending counts
    Judge([budget |-> Approved, facts |-> facts, short |-> FALSE]).short
Scanned[i \in 0..Len(log)] ==
    IF i = 0 THEN Blackboard ELSE Scan(Scanned[i - 1], log[i])
Shortfall == Scanned[Len(log)].short

FundingRequired == Pending # {} \/ Shortfall

-----------------------------------------------------------------------------
(* Execution: change_execution. *)

Events(events) ==
    /\ Len(log) + Len(events) <= MaxEvent
    /\ log' = log \o events

\* mutant: the facts are read after they were changed
Written_Late(u, type, o, new) ==
    [type |-> type, operation |-> o, budget |-> Approved,
     allocation |-> budgets[Approved][o], before |-> new, after |-> new,
     author |-> u]
Written(u, type, o, new) ==
    [type |-> type, operation |-> o, budget |-> Approved,
     allocation |-> budgets[Approved][o], before |-> facts[o], after |-> new,
     author |-> u]

MayExecute(u, o) == Agent(u) /\ ~Frozen /\ Steady /\ o \in Operations

Execute(u, type, o, new) ==
    /\ facts' = [facts EXCEPT ![o] = new]
    /\ Events(<<Written(u, type, o, new)>>)
    /\ UNCHANGED <<people, planning, requests, finance>>

StartOperation(u, o) ==
    /\ MayExecute(u, o)
    /\ ~FundingRequired
    /\ ~facts[o].started
    /\ Execute(u, "started", o, [facts[o] EXCEPT !.started = TRUE])

(* Replacing a known amount, a given observation or a completion is a
   correction, and needs a reason. *)
Correction(old, new) ==
    \/ old.spent # Unknown /\ new.spent # old.spent
    \/ old.note # Blank /\ new.note # old.note
    \/ old.completed /\ ~new.completed

(* While funding is owed, only corrections that do not raise the spending. *)
AllowedWhileOwed(old, new) ==
    /\ Correction(old, new)
    /\ old.spent # Unknown
    /\ new.spent \in 0..old.spent
    /\ new.completed => old.completed

RecordExecution(u, o, new) ==
    /\ MayExecute(u, o)
    /\ new \in Facts /\ new.started
    /\ facts[o].started
    /\ new # facts[o]
    /\ new.completed => new.spent # Unknown
    /\ (new.completed /\ new.spent # budgets[Approved][o]) => new.note # Blank
    /\ FundingRequired => AllowedWhileOwed(facts[o], new)
    /\ Execute(u, "recorded", o, new)

-----------------------------------------------------------------------------
(* Amendments: open_amendment, replace_activity, cancel_amendment and the
   approval in decide_activity.  Nothing here looks at funding. *)

Started == {o \in Operation : facts[o].started}

OpenAmendment(u) ==
    /\ Agent(u) /\ ~Frozen /\ Steady
    /\ draft' = budgets[Approved]
    /\ UNCHANGED <<people, budgets, contributors, facts, log, requests, finance>>

EditAmendment(u, budget) ==
    /\ Agent(u) /\ ~Steady
    /\ budget \in Budget
    /\ Operations \subseteq DOMAIN budget
    /\ budget # draft
    /\ draft' = budget
    /\ contributors' = contributors \cup {u}
    /\ UNCHANGED <<people, budgets, facts, log, requests, finance>>

CancelAmendment(u) ==
    /\ Agent(u) /\ ~Steady
    /\ draft' = NoAmendment
    /\ UNCHANGED <<people, budgets, contributors, facts, log, requests, finance>>

(* An amendment that changes no allocation is approved too, but nothing here
   depends on the rest of its content. *)
ApproveAmendment ==
    /\ draft \notin {NoAmendment, budgets[Approved]}
    /\ Approved < MaxBudget
    /\ budgets' = Append(budgets, draft)
    /\ draft' = NoAmendment
    /\ Events(<<[type |-> "approved", budget |-> Approved + 1]>>)
    /\ UNCHANGED <<people, contributors, facts, requests, finance>>

-----------------------------------------------------------------------------
(* Funding requests: submit, decide and cancel, and the trigger
   pta_validate_funding_state on whatever they write. *)

Authors == {event.author : event \in {log[i] : i \in
               {j \in DOMAIN log : log[j].type # "approved"}}}

ExcludedReviewers(submitter) == {submitter} \cup contributors \cup Authors

Active(r) == funding[r].state \notin {"returned", "cancelled"}
Open(r) == funding[r].state \in {"submitted", "prevalidated"}

\* mutant: only requests still under review stand in the way
Unrequested_OfOpen(n) ==
    ~\E r \in DOMAIN funding : funding[r].budget = n /\ funding[r].state = "submitted"
Unrequested(n) == ~\E r \in DOMAIN funding : funding[r].budget = n /\ Active(r)

(* The increases are funded oldest first. *)
Due(n) == n \in Pending /\ \A m \in Pending : n <= m

MaySubmitFunding(u, n) ==
    /\ Agent(u) /\ Steady /\ ~Frozen
    /\ Due(n)
    /\ Unrequested(n)

Increment(n) == Total(n) - Total(n - 1)

SubmitFunding(u, n) ==
    /\ MaySubmitFunding(u, n)
    /\ Len(funding) < MaxRequest
    /\ funding' = Append(funding,
           [budget |-> n, amount |-> Increment(n), submitter |-> u,
            excluded |-> ExcludedReviewers(u), state |-> "submitted"])
    /\ UNCHANGED <<people, planning, facts, log, verdicts, finance>>

Prevalidators(r) ==
    {d.actor : d \in {e \in verdicts : /\ e.request = r
                                       /\ e.stage = "supervisor"
                                       /\ e.outcome = "prevalidated"}}

(* The actions a request advertises to an account: allowed_actions. *)
Advertised(u, r) ==
    (IF Agent(u) /\ Open(r) THEN {"cancel"} ELSE {})
    \cup
    (IF /\ u \notin funding[r].excluded
        /\ Supervisor(u)
        /\ funding[r].state = "submitted"
     THEN {"prevalidate", "return"} ELSE {})
    \cup
    (IF /\ u \notin funding[r].excluded
        /\ Validator(u)
        /\ funding[r].state = "prevalidated"
        /\ Prevalidators(r) \ {u} # {}
     THEN {"approve", "return"} ELSE {})

MayDecide(u, r, decision) ==
    /\ ~Frozen /\ Steady
    /\ u \notin ExcludedReviewers(funding[r].submitter)
    /\ decision \in Advertised(u, r)

(* The trigger holds every verdict on the request against the contributors
   and execution authors of this moment, old verdicts included. *)
\* mutant: against the exclusions of the submission
Unobjectionable_Then(r, rows) ==
    \A d \in rows : d.request = r => d.actor \notin funding[r].excluded
Unobjectionable(r, rows) ==
    \A d \in rows : d.request = r =>
        d.actor \notin funding[r].excluded \cup
                       ExcludedReviewers(funding[r].submitter)

Move(r, state, rows) ==
    /\ Unobjectionable(r, rows)
    /\ funding' = [funding EXCEPT ![r].state = state]
    /\ verdicts' = rows
    /\ UNCHANGED <<people, planning, facts, log, finance>>

With(u, r, stage, outcome) ==
    verdicts \cup {[request |-> r, stage |-> stage, outcome |-> outcome,
                    actor |-> u]}

PrevalidateFunding(u, r) ==
    /\ MayDecide(u, r, "prevalidate")
    /\ Move(r, "prevalidated", With(u, r, "supervisor", "prevalidated"))

ApproveFunding(u, r) ==
    /\ MayDecide(u, r, "approve")
    /\ Move(r, "approved", With(u, r, "validator", "approved"))

ReturnFunding(u, r) ==
    /\ MayDecide(u, r, "return")
    /\ Move(r, "returned",
            With(u, r, IF Supervisor(u) THEN "supervisor" ELSE "validator",
                 "returned"))

MayCancelFunding(u, r) == Agent(u) /\ Open(r)

CancelFunding(u, r) ==
    /\ MayCancelFunding(u, r)
    /\ Move(r, "cancelled", verdicts)

-----------------------------------------------------------------------------
(* Payment: what verified_financial_basis asks before a disbursement or a
   declaration of no spending may freeze the Activity. *)

Complete == \A o \in Operations : facts[o].completed /\ facts[o].spent # Unknown

(* The log must retell the columns it claims to explain. *)
Retell(story, event) ==
    IF event.type = "approved"
    THEN [story EXCEPT !.budget = event.budget,
                       !.approvals = Append(@, event.budget)]
    ELSE LET told == story.facts[event.operation]
         IN  [story EXCEPT
                !.facts[event.operation] = event.after,
                !.true = /\ @
                         /\ event.operation \in Operations
                         /\ event.before = told
                         /\ event.before # event.after
                         /\ event.budget = story.budget
                         /\ event.operation \in DOMAIN budgets[story.budget]
                         /\ event.allocation =
                                budgets[story.budget][event.operation]
                         /\ IF event.type = "started"
                            THEN told = Unstarted /\ event.after.started
                            ELSE told.started]

Story[i \in 0..Len(log)] ==
    IF i = 0 THEN [budget |-> 0, approvals |-> <<>>, true |-> TRUE,
                   facts |-> [o \in Operation |-> Unstarted]]
    ELSE Retell(Story[i - 1], log[i])
Retold == Story[Len(log)]

HistoryVerifies ==
    /\ Retold.true
    /\ Retold.approvals = [n \in 1..Approved |-> n]
    /\ Retold.facts = facts

RequestPayment(u) ==
    /\ Agent(u) /\ Steady /\ ~Frozen
    /\ ~FundingRequired
    /\ Complete
    /\ Spending(facts) <= Total(Approved)
    /\ HistoryVerifies
    /\ \A o \in Operations :
           facts[o].spent # budgets[Approved][o] => facts[o].note # Blank
    /\ finance' = "pending"
    /\ UNCHANGED <<people, planning, facts, log, requests>>

(* A payment request that is returned or cancelled thaws the Activity; an
   approved one never does. *)
EndPayment(outcome) ==
    /\ finance = "pending"
    /\ finance' = outcome
    /\ UNCHANGED <<people, planning, facts, log, requests>>

ChangeRole(u, r) ==
    /\ roleChanges < MaxRoleChange
    /\ r \in Role \ {role[u]}
    /\ role' = [role EXCEPT ![u] = r]
    /\ roleChanges' = roleChanges + 1
    /\ UNCHANGED <<planning, facts, log, requests, finance>>

-----------------------------------------------------------------------------
(* The first plan was drafted by one Agent and has just been approved. *)
Init ==
    /\ role \in InitialRoles
    /\ roleChanges = 0
    /\ budgets \in {<<b>> : b \in Budget}
    /\ draft = NoAmendment
    /\ \E u \in User : Agent(u) /\ contributors = {u}
    /\ facts = [o \in Operation |-> Unstarted]
    /\ log = <<[type |-> "approved", budget |-> 1]>>
    /\ funding = <<>>
    /\ verdicts = {}
    /\ finance = "none"

Next ==
    \/ \E u \in User :
        \/ \E o \in Operation : StartOperation(u, o)
        \/ \E o \in Operation : \E new \in Facts : RecordExecution(u, o, new)
        \/ OpenAmendment(u)
        \/ \E b \in Budget : EditAmendment(u, b)
        \/ CancelAmendment(u)
        \/ \E n \in Pending : SubmitFunding(u, n)
        \/ \E r \in DOMAIN funding :
            \/ PrevalidateFunding(u, r)
            \/ ApproveFunding(u, r)
            \/ ReturnFunding(u, r)
            \/ CancelFunding(u, r)
        \/ RequestPayment(u)
        \/ \E r \in Role : ChangeRole(u, r)
    \/ ApproveAmendment
    \/ \E outcome \in {"none", "approved"} : EndPayment(outcome)

Spec == Init /\ [][Next]_vars

-----------------------------------------------------------------------------
(* Every variable has its type, and the rows satisfy the CHECKs of their
   tables: operation_execution_started_before_facts,
   operation_completion_has_amount and funding_amount_positive. *)
TypeOK ==
    /\ role \in [User -> Role]
    /\ roleChanges \in Nat
    /\ budgets \in Seq(Budget) /\ budgets # <<>>
    /\ draft \in Budget \cup {NoAmendment}
    /\ contributors \subseteq User
    /\ facts \in [Operation -> Facts]
    /\ \A o \in Operation : /\ ~facts[o].started => facts[o] = Unstarted
                           /\ facts[o].completed => facts[o].spent # Unknown
    /\ log \in Seq(Approval \cup Entry)
    /\ funding \in Seq(Request)
    /\ verdicts \subseteq Verdict
    /\ finance \in {"none", "pending", "approved"}

(* Whenever an Activity is complete, the audit log retells its execution:
   verified_financial_basis never refuses an honest Activity for an
   unverified history, whatever was corrected and amended on the way. *)
HistoryVerified == Complete => HistoryVerifies

(* The events of the log up to the i-th: the budget approved last, and the
   last amount recorded for each Operation. *)
BudgetBy(i) ==
    LET approvals == {j \in 1..i : log[j].type = "approved"}
    IN  log[CHOOSE j \in approvals : \A k \in approvals : k <= j].budget
FactsBy(i, o) ==
    LET entries == {j \in 1..i :
                       log[j].type # "approved" /\ log[j].operation = o}
    IN  IF entries = {} THEN Unstarted
        ELSE log[CHOOSE j \in entries : \A k \in entries : k <= j].after
ShortAt(i) ==
    LET spent == Spending([o \in Operation |-> FactsBy(i, o)])
    IN  spent > Total(BudgetBy(i)) /\ ~Covered(BudgetBy(i), spent)

(* funding_basis finds a shortfall exactly when at some event of the past the
   spending exceeded the budget of that time and no later funded increase
   covers it, corrected or not. *)
ShortfallFound == Shortfall <=> \E i \in DOMAIN log : ShortAt(i)

(* An increase of the budget never has two requests that are open or
   approved: no increase is authorised twice. *)
EachIncreaseFundedOnce ==
    \A q, r \in DOMAIN funding :
        q # r /\ Active(q) /\ Active(r) => funding[q].budget # funding[r].budget

(* No payment starts with something owed: every shortfall of the past is
   covered, no request is open, and the spending fits the budget, now and until
   the payment ends. *)
FundedBeforePayment ==
    Frozen =>
        /\ ~\E i \in DOMAIN log : ShortAt(i)
        /\ ~\E r \in DOMAIN funding : Open(r)
        /\ Spending(facts) <= Total(Approved)

FundedAmounts ==
    SumFunction([r \in DOMAIN funding |->
        IF funding[r].state = "approved" THEN funding[r].amount ELSE 0])

(* When a payment starts, the budget is the first one and what was funded
   since, less what was given up: no increase, of however many, went unfunded,
   and none was funded for more than it added. *)
GivenUp == SumFunction([n \in 1..Approved |->
    IF n > 1 /\ Total(n) < Total(n - 1) THEN Total(n - 1) - Total(n) ELSE 0])
FundingAddsUp ==
    Frozen => Total(Approved) = Total(1) + FundedAmounts - GivenUp

(* The budget is sound: the rows satisfy the CHECKs of their tables, and what
   a payment starts from is approved, funded and adds up. *)
BudgetIsSound == TypeOK /\ FundedBeforePayment /\ FundingAddsUp

(* The pause for funding ends in no other way than by the approval of a funding
   request: no correction, smaller budget, return or cancellation lifts it. *)
PauseLiftedByFunding ==
    [][FundingRequired /\ ~FundingRequired' =>
           \E r \in DOMAIN funding :
               funding[r].state # "approved" /\ funding'[r].state = "approved"]_vars

(* While funding is owed nothing starts, nothing is completed, and the
   spending of no Operation rises. *)
WorkHeld ==
    \A o \in Operation :
        /\ facts'[o].started = facts[o].started
        /\ facts'[o].completed => facts[o].completed
        /\ facts'[o].spent <= facts[o].spent
WorkHeldWhileOwed == [][FundingRequired => WorkHeld]_vars

(* At the moment a funding request is approved, neither of its two different
   reviewers has contributed to the Activity, executed any of it, or
   submitted the request, whatever their roles were and have become. *)
ReviewedByOutsiders(r) ==
    \E s, v \in User \ ExcludedReviewers(funding[r].submitter) :
        /\ s # v
        /\ [request |-> r, stage |-> "supervisor", outcome |-> "prevalidated",
            actor |-> s] \in verdicts'
        /\ [request |-> r, stage |-> "validator", outcome |-> "approved",
            actor |-> v] \in verdicts'
ApprovalsByOutsiders ==
    \A r \in DOMAIN funding :
        funding[r].state # "approved" /\ funding'[r].state = "approved" =>
            ReviewedByOutsiders(r)
ApprovedByOutsiders == [][ApprovalsByOutsiders]_vars

(* A cancellation the handler accepts also commits: "reasoned cancellation
   abandons a pending request", and "valid decisions survive personnel
   changes" (docs/business-rules.md). *)
CancellationCommits ==
    \A u \in User : \A r \in DOMAIN funding :
        MayCancelFunding(u, r) => Unobjectionable(r, verdicts)
=============================================================================
