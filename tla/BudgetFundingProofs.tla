------------------------- MODULE BudgetFundingProofs -------------------------
(***************************************************************************)
(* Theorems about BudgetFunding for every set of accounts, every finite    *)
(* set of Operations, every set of amounts and every bound.  In order: the *)
(* types and the one request of each increase; the audit log (LogInv) and  *)
(* what its two replays, for the history and for the shortfall, come to;   *)
(* the money (MoneyInv); what a payment starts from (FrozenInv); and the   *)
(* pause for funding.                                                      *)
(***************************************************************************)
EXTENDS BudgetFunding, DataTheorems, TLAPS

-----------------------------------------------------------------------------
(* Types.  Here an amount due is only a difference of the totals of two
   budgets; that it is positive follows once the sums are known (IncreaseType). *)

Difference == {Cost(b) - Cost(a) : a, b \in Budget}

FundingRow == [budget : Nat, amount : Difference, submitter : User,
               excluded : SUBSET User,
               state : {"submitted", "prevalidated", "returned", "approved",
                        "cancelled"}]

TypeInv ==
    /\ budgets \in Seq(Budget) /\ budgets # <<>>
    /\ draft \in Budget \cup {NoAmendment}
    /\ contributors \subseteq User
    /\ facts \in [Operation -> Facts]
    /\ log \in Seq(Approval \cup Entry)
    /\ funding \in Seq(FundingRow)
    /\ verdicts \subseteq Verdict

(* The steps of Next, sorted by what they write. *)
Reviewed(u, r) ==
    \/ PrevalidateFunding(u, r)
    \/ ApproveFunding(u, r)
    \/ ReturnFunding(u, r)
    \/ CancelFunding(u, r)

LEMMA StepCases ==
  ASSUME [Next]_vars
  PROVE  \/ \E u \in User : \E o \in Operation : StartOperation(u, o)
         \/ \E u \in User : \E o \in Operation : \E new \in Facts :
                RecordExecution(u, o, new)
         \/ \E u \in User : OpenAmendment(u) \/ CancelAmendment(u)
         \/ \E u \in User : \E b \in Budget : EditAmendment(u, b)
         \/ ApproveAmendment
         \/ \E u \in User : \E n \in Pending : SubmitFunding(u, n)
         \/ \E u \in User : \E r \in DOMAIN funding : Reviewed(u, r)
         \/ UNCHANGED <<budgets, draft, contributors, facts, log, funding,
                        verdicts>>
<1>1. ASSUME NEW u \in User, RequestPayment(u)
      PROVE  UNCHANGED <<budgets, draft, contributors, facts, log, funding,
                         verdicts>>
  BY <1>1 DEF RequestPayment, planning, requests
<1>2. ASSUME NEW outcome, EndPayment(outcome)
      PROVE  UNCHANGED <<budgets, draft, contributors, facts, log, funding,
                         verdicts>>
  BY <1>2 DEF EndPayment, planning, requests
<1>3. ASSUME NEW u, NEW r, ChangeRole(u, r)
      PROVE  UNCHANGED <<budgets, draft, contributors, facts, log, funding,
                         verdicts>>
  BY <1>3 DEF ChangeRole, planning, requests
<1>4. ASSUME UNCHANGED vars
      PROVE  UNCHANGED <<budgets, draft, contributors, facts, log, funding,
                         verdicts>>
  BY <1>4 DEF vars, planning, requests
<1> QED
  BY <1>1, <1>2, <1>3, <1>4, Zenon DEF Next, Reviewed

(* An event on the log is an approval or was written by an account. *)
LEMMA AuthorsType ==
  ASSUME TypeInv
  PROVE  Authors \subseteq User
<1>1. \A j \in DOMAIN log : log[j] \in Approval \cup Entry
  BY DEF TypeInv
<1>2. \A event \in Approval : event.type = "approved"
  BY DEF Approval
<1>3. \A event \in Entry : event.author \in User
  BY DEF Entry
<1> QED
  BY <1>1, <1>2, <1>3 DEF Authors

LEMMA ExcludedType ==
  ASSUME TypeInv, NEW u \in User
  PROVE  ExcludedReviewers(u) \subseteq User
BY AuthorsType DEF ExcludedReviewers, TypeInv

(* An Operation of the approved budget has a positive allocation there. *)
LEMMA AllocationType ==
  ASSUME TypeInv
  PROVE  /\ budgets[Approved] \in Budget
         /\ Operations \subseteq Operation
         /\ \A o \in Operations : budgets[Approved][o] \in Amount
<1>1. budgets[Approved] \in Budget
  BY DEF TypeInv, Approved
<1>2. PICK ops \in (SUBSET Operation) \ {{}} :
          budgets[Approved] \in [ops -> Amount \ {0}]
  BY <1>1 DEF Budget
<1> QED
  BY <1>1, <1>2 DEF Operations

LEMMA UnstartedType == Unstarted \in Facts
BY DEF Unstarted, Facts

LEMMA InitType == Init => TypeInv
<1> SUFFICES ASSUME Init PROVE TypeInv
  OBVIOUS
<1>1. budgets \in Seq(Budget) /\ budgets # <<>>
  <2>1. PICK b \in Budget : budgets = <<b>>
    BY DEF Init
  <2> QED
    BY <2>1
<1>2. facts \in [Operation -> Facts]
  BY UnstartedType DEF Init
<1>3. [type |-> "approved", budget |-> 1] \in Approval
  BY DEF Approval
<1>4. log \in Seq(Approval \cup Entry)
  BY <1>3 DEF Init
<1> QED
  BY <1>1, <1>2, <1>4 DEF Init, TypeInv

LEMMA ExecuteType ==
  ASSUME TypeInv, NEW u \in User, NEW o \in Operations, NEW new \in Facts,
         NEW type \in {"started", "recorded"}, Execute(u, type, o, new)
  PROVE  TypeInv'
<1>1. o \in Operation /\ budgets[Approved][o] \in Amount
  BY AllocationType
<1>2. facts[o] \in Facts
  BY <1>1 DEF TypeInv
<1>3. Approved \in Nat
  BY DEF TypeInv, Approved
<1>4. Written(u, type, o, new) \in Entry
  BY <1>1, <1>2, <1>3 DEF Written, Entry
<1>5. log' \in Seq(Approval \cup Entry)
  BY <1>4 DEF Execute, Events, TypeInv
<1>6. facts' \in [Operation -> Facts]
  BY <1>1 DEF Execute, TypeInv
<1> QED
  BY <1>5, <1>6 DEF Execute, TypeInv, planning, requests

LEMMA MoveType ==
  ASSUME TypeInv, NEW r \in DOMAIN funding, NEW rows \in SUBSET Verdict,
         NEW state \in {"prevalidated", "returned", "approved", "cancelled"},
         Move(r, state, rows)
  PROVE  TypeInv'
<1> DEFINE row == funding[r]
<1>0. row \in FundingRow
  BY DEF TypeInv
<1>1. [row EXCEPT !.state = state] \in FundingRow
  <2> HIDE DEF row
  <2> QED
    BY <1>0 DEF FundingRow
<1>2. funding' \in Seq(FundingRow)
  BY <1>1 DEF TypeInv, Move
<1> QED
  BY <1>2 DEF TypeInv, Move, planning

LEMMA WithType ==
  ASSUME TypeInv, NEW u \in User, NEW r \in DOMAIN funding,
         NEW stage \in {"supervisor", "validator"},
         NEW outcome \in {"prevalidated", "returned", "approved"}
  PROVE  With(u, r, stage, outcome) \in SUBSET Verdict
BY DEF TypeInv, With, Verdict

LEMMA SubmitType ==
  ASSUME TypeInv, NEW u \in User, NEW n \in Pending, SubmitFunding(u, n)
  PROVE  TypeInv'
<1>1. n \in 2..Len(budgets)
  BY DEF Pending, Increases, Approved
<1>2. budgets[n] \in Budget /\ budgets[n - 1] \in Budget
  BY <1>1 DEF TypeInv
<1>3. Increment(n) \in Difference
  BY <1>2 DEF Increment, Total, Difference
<1>4. [budget |-> n, amount |-> Increment(n), submitter |-> u,
       excluded |-> ExcludedReviewers(u), state |-> "submitted"] \in FundingRow
  BY <1>1, <1>3, ExcludedType DEF FundingRow
<1>5. funding' \in Seq(FundingRow)
  BY <1>4 DEF TypeInv, SubmitFunding
<1> QED
  BY <1>5 DEF TypeInv, SubmitFunding, planning

(* Every step keeps the types. *)
LEMMA StepType ==
  ASSUME TypeInv, [Next]_vars
  PROVE  TypeInv'
<1>1. ASSUME NEW u \in User, NEW o \in Operation, StartOperation(u, o)
      PROVE  TypeInv'
  <2>1. [facts[o] EXCEPT !.started = TRUE] \in Facts
    BY DEF TypeInv, Facts
  <2> QED
    BY <1>1, <2>1, ExecuteType DEF StartOperation, MayExecute
<1>2. ASSUME NEW u \in User, NEW o \in Operation, NEW new \in Facts,
             RecordExecution(u, o, new)
      PROVE  TypeInv'
  BY <1>2, ExecuteType DEF RecordExecution, MayExecute
<1>3. ASSUME NEW u \in User, OpenAmendment(u)
      PROVE  TypeInv'
  BY <1>3, AllocationType DEF TypeInv, OpenAmendment, requests
<1>4. ASSUME NEW u \in User, NEW b \in Budget, EditAmendment(u, b)
      PROVE  TypeInv'
  BY <1>4 DEF TypeInv, EditAmendment, requests
<1>5. ASSUME NEW u \in User, CancelAmendment(u)
      PROVE  TypeInv'
  BY <1>5 DEF TypeInv, CancelAmendment, requests
<1>6. ASSUME ApproveAmendment
      PROVE  TypeInv'
  <2>1. [type |-> "approved", budget |-> Approved + 1] \in Approval
    BY DEF Approval, Approved, TypeInv
  <2>2. draft \in Budget
    BY <1>6 DEF ApproveAmendment, TypeInv
  <2>3. log' \in Seq(Approval \cup Entry)
    BY <1>6, <2>1 DEF ApproveAmendment, Events, TypeInv
  <2>4. budgets' \in Seq(Budget) /\ budgets' # <<>>
    <3>1. budgets \in Seq(Budget) /\ budgets' = Append(budgets, draft)
      BY <1>6 DEF ApproveAmendment, TypeInv
    <3>2. Len(budgets') = Len(budgets) + 1
      BY <3>1, <2>2
    <3> QED
      BY <3>1, <3>2, <2>2
  <2> QED
    BY <1>6, <2>3, <2>4 DEF ApproveAmendment, TypeInv, requests
<1>7. ASSUME NEW u \in User, NEW n \in Pending, SubmitFunding(u, n)
      PROVE  TypeInv'
  BY <1>7, SubmitType
<1>8. ASSUME NEW u \in User, NEW r \in DOMAIN funding, Reviewed(u, r)
      PROVE  TypeInv'
  <2>1. CASE PrevalidateFunding(u, r)
    BY <2>1, WithType, MoveType DEF PrevalidateFunding
  <2>2. CASE ApproveFunding(u, r)
    BY <2>2, WithType, MoveType DEF ApproveFunding
  <2>3. CASE ReturnFunding(u, r)
    BY <2>3, WithType, MoveType DEF ReturnFunding
  <2>4. CASE CancelFunding(u, r)
    BY <2>4, MoveType DEF CancelFunding, TypeInv
  <2> QED
    BY <1>8, <2>1, <2>2, <2>3, <2>4 DEF Reviewed
<1>9. ASSUME UNCHANGED <<budgets, draft, contributors, facts, log, funding,
                         verdicts>>
      PROVE  TypeInv'
  BY <1>9 DEF TypeInv
<1> QED
  BY <1>1, <1>2, <1>3, <1>4, <1>5, <1>6, <1>7, <1>8, <1>9, StepCases

(* The rows of BudgetFunding have their types in every reachable state. *)
THEOREM RowsTyped == Spec => []TypeInv
<1>1. Init => TypeInv
  BY InitType
<1>2. TypeInv /\ [Next]_vars => TypeInv'
  BY StepType
<1> QED
  BY <1>1, <1>2, PTL DEF Spec

-----------------------------------------------------------------------------
(* Only a submission adds a request, and only a review moves one. *)
LEMMA FundingSteps ==
  ASSUME [Next]_vars
  PROVE  \/ \E u \in User : \E n \in Pending : SubmitFunding(u, n)
         \/ \E u \in User : \E r \in DOMAIN funding : Reviewed(u, r)
         \/ UNCHANGED <<funding, verdicts>>
<1>1. ASSUME NEW u, NEW o, NEW type, NEW new, Execute(u, type, o, new)
      PROVE  UNCHANGED <<funding, verdicts>>
  BY <1>1 DEF Execute, requests
<1>2. ASSUME NEW u, NEW o,
             StartOperation(u, o) \/ \E new \in Facts : RecordExecution(u, o, new)
      PROVE  UNCHANGED <<funding, verdicts>>
  BY <1>1, <1>2 DEF StartOperation, RecordExecution
<1>3. ASSUME NEW u, OpenAmendment(u) \/ CancelAmendment(u) \/ ApproveAmendment
                    \/ \E b \in Budget : EditAmendment(u, b)
      PROVE  UNCHANGED <<funding, verdicts>>
  BY <1>3 DEF OpenAmendment, CancelAmendment, ApproveAmendment, EditAmendment,
     requests
<1> QED
  BY <1>2, <1>3, StepCases

(* A review changes the state of its one request, and an ended request never
   comes back to life. *)
LEMMA ReviewMoves ==
  ASSUME TypeInv, NEW u \in User, NEW r \in DOMAIN funding, Reviewed(u, r)
  PROVE  /\ Active(r)
         /\ DOMAIN funding' = DOMAIN funding
         /\ \A q \in DOMAIN funding :
                /\ funding'[q].budget = funding[q].budget
                /\ q # r => funding'[q] = funding[q]
<1>1. Open(r)
  BY DEF Reviewed, PrevalidateFunding, ApproveFunding, ReturnFunding,
     CancelFunding, MayCancelFunding, MayDecide, Advertised, Open
<1>2. PICK state, rows : Move(r, state, rows)
  BY DEF Reviewed, PrevalidateFunding, ApproveFunding, ReturnFunding,
     CancelFunding
<1> DEFINE row == [funding[r] EXCEPT !.state = state]
<1>3. funding' = [funding EXCEPT ![r] = row]
  BY <1>2 DEF Move
<1>4. row.budget = funding[r].budget
  BY DEF TypeInv, FundingRow
<1> HIDE DEF row
<1>5. funding \in Seq(FundingRow)
  BY DEF TypeInv
<1> QED
  BY <1>1, <1>3, <1>4, <1>5 DEF Open, Active

(* Every increase of the budget is requested once at a time and authorised at
   most once. *)
THEOREM IncreasesFundedOnce == Spec => []EachIncreaseFundedOnce
<1> DEFINE Inv == TypeInv /\ EachIncreaseFundedOnce
<1>1. Init => Inv
  BY InitType DEF Init, EachIncreaseFundedOnce
<1>2. Inv /\ [Next]_vars => Inv'
  <2> SUFFICES ASSUME Inv, [Next]_vars
               PROVE  EachIncreaseFundedOnce'
    BY StepType
  <2>1. ASSUME NEW u \in User, NEW n \in Pending, SubmitFunding(u, n)
        PROVE  EachIncreaseFundedOnce'
    <3> DEFINE new == Len(funding) + 1
    <3>1. /\ DOMAIN funding' = DOMAIN funding \cup {new}
          /\ \A q \in DOMAIN funding : q # new /\ funding'[q] = funding[q]
          /\ funding'[new].budget = n
      BY <2>1 DEF SubmitFunding, TypeInv
    <3>2. \A q \in DOMAIN funding : Active(q) => funding[q].budget # n
      BY <2>1 DEF SubmitFunding, MaySubmitFunding, Unrequested
    <3> QED
      BY <3>1, <3>2 DEF EachIncreaseFundedOnce, Active
  <2>2. ASSUME NEW u \in User, NEW r \in DOMAIN funding, Reviewed(u, r)
        PROVE  EachIncreaseFundedOnce'
    <3>1. /\ DOMAIN funding' = DOMAIN funding
          /\ \A q \in DOMAIN funding :
                funding'[q].budget = funding[q].budget
      BY <2>2, ReviewMoves
    <3>2. \A q \in DOMAIN funding :
              funding'[q].state \notin {"returned", "cancelled"} => Active(q)
      BY <2>2, ReviewMoves DEF Active
    <3>3. SUFFICES ASSUME NEW q \in DOMAIN funding, NEW t \in DOMAIN funding,
                          q # t,
                          funding'[q].state \notin {"returned", "cancelled"},
                          funding'[t].state \notin {"returned", "cancelled"}
                   PROVE  funding'[q].budget # funding'[t].budget
      BY <3>1 DEF EachIncreaseFundedOnce, Active
    <3>4. Active(q) /\ Active(t)
      BY <3>2, <3>3
    <3>5. funding[q].budget # funding[t].budget
      BY <3>3, <3>4 DEF EachIncreaseFundedOnce
    <3> QED
      BY <3>1, <3>5
  <2>3. ASSUME UNCHANGED funding
        PROVE  EachIncreaseFundedOnce'
    BY <2>3 DEF EachIncreaseFundedOnce, Active
  <2> QED
    BY <2>1, <2>2, <2>3, FundingSteps
<1> QED
  BY <1>1, <1>2, PTL DEF Spec

(* Both reviewers of an approved request are outsiders at its approval.  The
   handler looks at the one who approves; that the earlier one still is an
   outsider rests on the trigger. *)
THEOREM FundingReviewedByOutsiders == Spec => ApprovedByOutsiders
<1>1. ASSUME TypeInv, [Next]_vars, NEW r \in DOMAIN funding,
             funding[r].state # "approved", funding'[r].state = "approved"
      PROVE  ReviewedByOutsiders(r)
  <2>1. PICK u \in User : ApproveFunding(u, r)
    <3>1. ASSUME NEW u \in User, NEW n \in Pending, SubmitFunding(u, n)
          PROVE  FALSE
      BY <1>1, <3>1 DEF SubmitFunding, TypeInv
    <3>2. ASSUME NEW u \in User, NEW q \in DOMAIN funding, Reviewed(u, q)
          PROVE  ApproveFunding(u, r)
      <4>1. ASSUME NEW state, NEW rows, Move(q, state, rows)
            PROVE  state = "approved" /\ q = r
        BY <1>1, <4>1 DEF Move, TypeInv, FundingRow
      <4> QED
        BY <3>2, <4>1 DEF Reviewed, PrevalidateFunding, ReturnFunding,
           CancelFunding, ApproveFunding
    <3> QED
      BY <1>1, <3>1, <3>2, FundingSteps
  <2> DEFINE rows == With(u, r, "validator", "approved")
             by == [request |-> r, stage |-> "validator",
                    outcome |-> "approved", actor |-> u]
  <2>2. Unobjectionable(r, rows) /\ verdicts' = rows
    BY <2>1 DEF ApproveFunding, Move
  <2>3. rows = verdicts \cup {by}
    BY DEF With
  <2>4. PICK s \in Prevalidators(r) : s # u
    BY <2>1 DEF ApproveFunding, MayDecide, Advertised
  <2>5. PICK e \in verdicts : /\ e.request = r /\ e.stage = "supervisor"
                             /\ e.outcome = "prevalidated" /\ e.actor = s
    BY <2>4 DEF Prevalidators
  <2>6. e \in Verdict
    BY <1>1, <2>5 DEF TypeInv
  <2>7. /\ s \in User
        /\ e = [request |-> r, stage |-> "supervisor",
                outcome |-> "prevalidated", actor |-> s]
    BY <2>5, <2>6 DEF Verdict
  <2>8. /\ s \notin ExcludedReviewers(funding[r].submitter)
        /\ u \notin ExcludedReviewers(funding[r].submitter)
    <3>1. e \in rows /\ e.request = r /\ e.actor = s
      BY <2>3, <2>5
    <3>2. by \in rows /\ by.request = r /\ by.actor = u
      BY <2>3
    <3> HIDE DEF rows, by
    <3> QED
      BY <2>2, <3>1, <3>2 DEF Unobjectionable
  <2> QED
    BY <2>2, <2>3, <2>4, <2>5, <2>7, <2>8 DEF ReviewedByOutsiders
<1>2. TypeInv /\ [Next]_vars => [ApprovalsByOutsiders]_vars
  BY <1>1 DEF ApprovalsByOutsiders
<1> QED
  BY <1>2, RowsTyped, PTL DEF Spec, ApprovedByOutsiders

(* Whatever is owed holds the work: the guard of a correction is all that
   stands between a pause and more spending. *)
THEOREM NothingDoneWhileOwed == Spec => WorkHeldWhileOwed
<1>1. ASSUME TypeInv, [Next]_vars, FundingRequired
      PROVE  WorkHeld
  <2>0. ASSUME NEW o \in Operation
        PROVE  facts[o] \in Facts /\ facts[o].spent \in Int
    <3>1. facts[o] \in Facts
      BY <1>1 DEF TypeInv
    <3>2. \A row \in Facts : row.spent \in Amount \cup {Unknown}
      BY DEF Facts
    <3>3. Amount \cup {Unknown} \subseteq Int
      BY AmountAssumption DEF Unknown
    <3> QED
      BY <3>1, <3>2, <3>3
  <2>1. ASSUME facts' = facts
        PROVE  WorkHeld
    BY <2>0, <2>1 DEF WorkHeld
  <2>2. ASSUME NEW u \in User, NEW p \in Operation, NEW new \in Facts,
               RecordExecution(u, p, new)
        PROVE  WorkHeld
    <3>1. /\ new.started = facts[p].started
          /\ new.completed => facts[p].completed
          /\ new.spent <= facts[p].spent
      BY <1>1, <2>0, <2>2 DEF RecordExecution, AllowedWhileOwed, Facts
    <3>2. facts' = [facts EXCEPT ![p] = new]
      BY <2>2 DEF RecordExecution, Execute
    <3> QED
      BY <1>1, <2>0, <3>1, <3>2 DEF TypeInv, WorkHeld
  <2>3. ASSUME NEW u, OpenAmendment(u) \/ CancelAmendment(u) \/ ApproveAmendment
                      \/ \E b \in Budget : EditAmendment(u, b)
        PROVE  facts' = facts
    BY <2>3 DEF OpenAmendment, CancelAmendment, ApproveAmendment, EditAmendment
  <2>4. ASSUME NEW u, (\E n \in Pending : SubmitFunding(u, n))
                      \/ \E r \in DOMAIN funding : Reviewed(u, r)
        PROVE  facts' = facts
    BY <2>4 DEF SubmitFunding, Reviewed, PrevalidateFunding, ApproveFunding,
       ReturnFunding, CancelFunding, Move
  <2>5. ASSUME NEW u, NEW o, StartOperation(u, o)
        PROVE  FALSE
    BY <1>1, <2>5 DEF StartOperation
  <2> QED
    BY <1>1, <2>1, <2>2, <2>3, <2>4, <2>5, StepCases
<1>2. TypeInv /\ [Next]_vars => [FundingRequired => WorkHeld]_vars
  BY <1>1
<1> QED
  BY <1>2, RowsTyped, PTL DEF Spec, WorkHeldWhileOwed

-----------------------------------------------------------------------------
(* What was known after the i-th event, from what was known before it. *)
LEMMA FactsNext ==
  ASSUME NEW i \in Nat \ {0}, NEW o
  PROVE  /\ log[i].type # "approved" /\ log[i].operation = o =>
                FactsBy(i, o) = log[i].after
         /\ ~(log[i].type # "approved" /\ log[i].operation = o) =>
                FactsBy(i, o) = FactsBy(i - 1, o)
<1> DEFINE E(n) == {j \in 1..n : log[j].type # "approved" /\ log[j].operation = o}
<1>1. ASSUME i \in E(i)
      PROVE  FactsBy(i, o) = log[i].after
  <2>1. \A k \in E(i) : k <= i
    OBVIOUS
  <2>2. (CHOOSE j \in E(i) : \A k \in E(i) : k <= j) = i
    <3> DEFINE c == CHOOSE j \in E(i) : \A k \in E(i) : k <= j
    <3>1. c \in E(i) /\ \A k \in E(i) : k <= c
      BY <1>1, <2>1
    <3>2. c \in 1..i /\ i <= c
      BY <1>1, <3>1
    <3> QED
      BY <3>2
  <2>3. FactsBy(i, o) = IF E(i) = {} THEN Unstarted
                        ELSE log[CHOOSE j \in E(i) : \A k \in E(i) : k <= j].after
    BY DEF FactsBy
  <2> HIDE DEF E
  <2> QED
    BY <1>1, <2>2, <2>3
<1>2. ASSUME i \notin E(i)
      PROVE  FactsBy(i, o) = FactsBy(i - 1, o)
  <2>1. E(i) = E(i - 1)
    <3>1. 1..i = (1..(i - 1)) \cup {i}
      OBVIOUS
    <3> QED
      BY <1>2, <3>1
  <2>2. \A n : FactsBy(n, o) = IF E(n) = {} THEN Unstarted
                        ELSE log[CHOOSE j \in E(n) : \A k \in E(n) : k <= j].after
    BY DEF FactsBy
  <2> HIDE DEF E
  <2> QED
    BY <2>1, <2>2, Zenon
<1> QED
  BY <1>1, <1>2

LEMMA FactsFirst ==
  ASSUME NEW o
  PROVE  FactsBy(0, o) = Unstarted
BY DEF FactsBy

LEMMA BudgetNext ==
  ASSUME NEW i \in Nat \ {0}
  PROVE  /\ log[i].type = "approved" => BudgetBy(i) = log[i].budget
         /\ log[i].type # "approved" => BudgetBy(i) = BudgetBy(i - 1)
<1> DEFINE E(n) == {j \in 1..n : log[j].type = "approved"}
<1>0. \A n : BudgetBy(n) = log[CHOOSE j \in E(n) : \A k \in E(n) : k <= j].budget
  BY DEF BudgetBy
<1>1. ASSUME i \in E(i)
      PROVE  BudgetBy(i) = log[i].budget
  <2>1. \A k \in E(i) : k <= i
    OBVIOUS
  <2>2. (CHOOSE j \in E(i) : \A k \in E(i) : k <= j) = i
    <3> DEFINE c == CHOOSE j \in E(i) : \A k \in E(i) : k <= j
    <3>1. c \in E(i) /\ \A k \in E(i) : k <= c
      BY <1>1, <2>1
    <3>2. c \in 1..i /\ i <= c
      BY <1>1, <3>1
    <3> QED
      BY <3>2
  <2> HIDE DEF E
  <2> QED
    BY <1>0, <2>2
<1>2. ASSUME i \notin E(i)
      PROVE  BudgetBy(i) = BudgetBy(i - 1)
  <2>1. E(i) = E(i - 1)
    <3>1. 1..i = (1..(i - 1)) \cup {i}
      OBVIOUS
    <3> QED
      BY <1>2, <3>1
  <2> HIDE DEF E
  <2> QED
    BY <1>0, <2>1, Zenon
<1> QED
  BY <1>1, <1>2

(* An event that is added changes nothing that was known before. *)
LEMMA PastKept ==
  ASSUME NEW n \in Nat, \A j \in 1..n : log'[j] = log[j]
  PROVE  /\ (\E j \in 1..n : log[j].type = "approved") =>
                BudgetBy(n)' = BudgetBy(n)
         /\ \A o : FactsBy(n, o)' = FactsBy(n, o)
<1>1. ASSUME NEW o
      PROVE  FactsBy(n, o)' = FactsBy(n, o)
  <2> DEFINE A == {j \in 1..n : log[j].type # "approved" /\ log[j].operation = o}
  <2> DEFINE B == {j \in 1..n : log'[j].type # "approved" /\ log'[j].operation = o}
  <2>1. A = B
    OBVIOUS
  <2> DEFINE c == CHOOSE j \in A : \A k \in A : k <= j
  <2>2. FactsBy(n, o) = IF A = {} THEN Unstarted ELSE log[c].after
    BY DEF FactsBy
  <2>3. FactsBy(n, o)' = IF B = {} THEN Unstarted
                         ELSE log'[CHOOSE j \in B : \A k \in B : k <= j].after
    BY DEF FactsBy
  <2>4. ASSUME A # {}
        PROVE  c \in A
    <3>1. A \subseteq Nat /\ n \in Nat /\ \A j \in A : j <= n
      OBVIOUS
    <3> HIDE DEF A
    <3>2. \E j \in A : \A k \in A : k <= j
      BY <2>4, <3>1, GreatestNatural
    <3> QED
      BY <3>2
  <2>5. A # {} => log'[c] = log[c]
    BY <2>4
  <2> HIDE DEF A, B
  <2>6. (CHOOSE j \in B : \A k \in B : k <= j) = c
    BY <2>1
  <2> HIDE DEF c
  <2>7. CASE A = {}
    <3>1. FactsBy(n, o) = Unstarted
      BY <2>2, <2>7
    <3>2. FactsBy(n, o)' = Unstarted
      BY <2>1, <2>3, <2>7
    <3> QED
      BY <3>1, <3>2
  <2>8. CASE A # {}
    <3>1. FactsBy(n, o) = log[c].after
      BY <2>2, <2>8
    <3>2. FactsBy(n, o)' = log'[c].after
      BY <2>1, <2>3, <2>6, <2>8
    <3> QED
      BY <2>5, <2>8, <3>1, <3>2
  <2> QED
    BY <2>7, <2>8
<1>2. ASSUME \E j \in 1..n : log[j].type = "approved"
      PROVE  BudgetBy(n)' = BudgetBy(n)
  <2> DEFINE A == {j \in 1..n : log[j].type = "approved"}
  <2> DEFINE B == {j \in 1..n : log'[j].type = "approved"}
  <2>1. A = B
    OBVIOUS
  <2> DEFINE c == CHOOSE j \in A : \A k \in A : k <= j
  <2>2. BudgetBy(n) = log[c].budget
    BY DEF BudgetBy
  <2>3. BudgetBy(n)' = log'[CHOOSE j \in B : \A k \in B : k <= j].budget
    BY DEF BudgetBy
  <2>4. c \in A
    <3>1. /\ A \subseteq Nat /\ n \in Nat /\ \A j \in A : j <= n
          /\ A # {}
      BY <1>2
    <3> HIDE DEF A
    <3>2. \E j \in A : \A k \in A : k <= j
      BY <3>1, GreatestNatural
    <3> QED
      BY <3>2
  <2>5. log'[c] = log[c]
    BY <2>4
  <2> HIDE DEF A, B
  <2>6. (CHOOSE j \in B : \A k \in B : k <= j) = c
    BY <2>1
  <2> HIDE DEF c
  <2> QED
    BY <2>2, <2>3, <2>5, <2>6
<1> QED
  BY <1>1, <1>2

-----------------------------------------------------------------------------
(* The audit log.  Every event says what was true when it was written: the
   amount known before it, the budget approved by then and what that budget
   allotted.  This is what makes the two replays of the log, for the shortfall
   and for the history, come out as the columns say. *)

RowSound(row) ==
    /\ ~row.started => row = Unstarted
    /\ row.completed => row.spent # Unknown

(* What the i-th event says is what was true when it was written. *)
EntrySound(i, e) ==
    /\ e.operation \in Operations
    /\ e.budget = BudgetBy(i - 1)
    /\ e.operation \in DOMAIN budgets[e.budget]
    /\ e.allocation = budgets[e.budget][e.operation]
    /\ e.before = FactsBy(i - 1, e.operation)
    /\ e.before # e.after
    /\ e.type = "started" =>
           /\ e.before = Unstarted
           /\ e.after.started /\ e.after.spent = Unknown
    /\ e.type = "recorded" => e.before.started

EventSound(i) ==
    /\ log[i].budget \in 1..Approved
    /\ log[i].type = "approved" => log[i].budget = BudgetBy(i - 1) + 1
    /\ log[i].type # "approved" => EntrySound(i, log[i])

LogInv ==
    /\ TypeInv
    /\ \A o \in Operation : RowSound(facts[o])
    /\ draft # NoAmendment => Operations \subseteq DOMAIN draft
    /\ Len(log) > 0 /\ log[1] = [type |-> "approved", budget |-> 1]
    /\ \A i \in 2..Len(log) : EventSound(i)
    /\ \A o \in Operation : facts[o] = FactsBy(Len(log), o)
    /\ BudgetBy(Len(log)) = Approved

(* The two lemmas on what follows an event, as facts of every state. *)
FactsFollow ==
    \A i \in Nat \ {0} : \A o :
        /\ log[i].type # "approved" /\ log[i].operation = o =>
               FactsBy(i, o) = log[i].after
        /\ ~(log[i].type # "approved" /\ log[i].operation = o) =>
               FactsBy(i, o) = FactsBy(i - 1, o)
BudgetFollows ==
    \A i \in Nat \ {0} :
        /\ log[i].type = "approved" => BudgetBy(i) = log[i].budget
        /\ log[i].type # "approved" => BudgetBy(i) = BudgetBy(i - 1)

LEMMA Follows == FactsFollow /\ BudgetFollows
BY FactsNext, BudgetNext DEF FactsFollow, BudgetFollows

LEMMA FollowsNext == (FactsFollow /\ BudgetFollows)'
BY Follows, PTL

LEMMA OperationsOf ==
  ASSUME TypeInv
  PROVE  /\ Approved \in Nat \ {0} /\ budgets[Approved] \in Budget
         /\ \A b \in Budget : DOMAIN b \subseteq Operation
<1>1. Approved \in Nat \ {0}
  BY DEF TypeInv, Approved
<1>2. ASSUME NEW b \in Budget
      PROVE  DOMAIN b \subseteq Operation
  <2>1. PICK ops \in (SUBSET Operation) \ {{}} : b \in [ops -> Amount \ {0}]
    BY DEF Budget
  <2> QED
    BY <2>1
<1> QED
  BY <1>1, <1>2, AllocationType

(* Every event but the first, and what it knew before. *)
LEMMA PastOf ==
  ASSUME LogInv
  PROVE  /\ Len(log) \in Nat \ {0} /\ DOMAIN log = 1..Len(log)
         /\ \A i \in 1..Len(log) : log[i] \in Approval \cup Entry
         /\ \A i \in 1..Len(log) : log[i].budget \in 1..Approved
         /\ \A i \in 1..Len(log) :
                \/ log[i] \in Approval /\ log[i].type = "approved"
                \/ log[i] \in Entry /\ log[i].type \in {"started", "recorded"}
         /\ log[1].type = "approved" /\ log[1].budget = 1
<1>1. /\ Len(log) \in Nat \ {0} /\ DOMAIN log = 1..Len(log)
      /\ \A i \in 1..Len(log) : log[i] \in Approval \cup Entry
  BY DEF LogInv, TypeInv
<1>2. log[1].type = "approved" /\ log[1].budget = 1
  BY DEF LogInv
<1>3. ASSUME NEW i \in 1..Len(log)
      PROVE  log[i].budget \in 1..Approved
  <2>1. CASE i = 1
    BY <1>2, <2>1, OperationsOf DEF LogInv
  <2>2. CASE i # 1
    <3>1. i \in 2..Len(log)
      BY <1>1, <2>2
    <3> QED
      BY <3>1 DEF LogInv, EventSound
  <2> QED
    BY <2>1, <2>2
<1>4. \A e \in Approval : e.type = "approved"
  BY DEF Approval
<1>5. \A e \in Entry : e.type \in {"started", "recorded"}
  BY DEF Entry
<1> QED
  BY <1>1, <1>2, <1>3, <1>4, <1>5

(* An event that fits what is known keeps the whole log sound. *)
LEMMA EventAdded ==
  ASSUME LogInv, TypeInv', NEW e \in Approval \cup Entry, log' = Append(log, e),
         Approved <= Approved', \A n \in 1..Approved : budgets'[n] = budgets[n],
         Operations \subseteq Operations',
         e.budget \in 1..Approved',
         e.type = "approved" => e.budget = BudgetBy(Len(log)) + 1,
         e.type # "approved" =>
             /\ e.operation \in Operations'
             /\ e.budget = BudgetBy(Len(log))
             /\ e.operation \in DOMAIN budgets'[e.budget]
             /\ e.allocation = budgets'[e.budget][e.operation]
             /\ e.before = FactsBy(Len(log), e.operation)
             /\ e.before # e.after
             /\ e.type = "started" =>
                    /\ e.before = Unstarted
                    /\ e.after.started /\ e.after.spent = Unknown
             /\ e.type = "recorded" => e.before.started
  PROVE  /\ Len(log') > 0 /\ log'[1] = [type |-> "approved", budget |-> 1]
         /\ \A i \in 2..Len(log') : EventSound(i)'
         /\ \A n \in 1..Len(log) :
                /\ BudgetBy(n)' = BudgetBy(n)
                /\ \A o : FactsBy(n, o)' = FactsBy(n, o)
<1>1. PICK N \in Nat \ {0} : N = Len(log)
  BY PastOf
<1>2. log \in Seq(Approval \cup Entry)
  BY DEF LogInv, TypeInv
<1>3. /\ Len(log') = N + 1 /\ log'[N + 1] = e
      /\ \A j \in 1..N : log'[j] = log[j]
  BY <1>1, <1>2
<1>4. ASSUME NEW n \in 1..N
      PROVE  /\ BudgetBy(n)' = BudgetBy(n)
             /\ \A o : FactsBy(n, o)' = FactsBy(n, o)
  <2>1. \A j \in 1..n : log'[j] = log[j]
    BY <1>3
  <2>2. 1 \in 1..n /\ n \in Nat /\ log[1].type = "approved"
    BY PastOf
  <2> QED
    BY <2>1, <2>2, PastKept
<1>5. ASSUME NEW i \in 2..N
      PROVE  EventSound(i)'
  <2>1. EventSound(i) /\ log'[i] = log[i] /\ i - 1 \in 1..N
    BY <1>1, <1>3 DEF LogInv
  <2>2. /\ BudgetBy(i - 1)' = BudgetBy(i - 1)
        /\ \A o : FactsBy(i - 1, o)' = FactsBy(i - 1, o)
    BY <1>4, <2>1
  <2>3. log[i].budget \in 1..Approved /\ log[i].budget \in 1..Approved'
    <3>1. Approved \in Nat /\ Approved' \in Nat
      BY DEF TypeInv, LogInv, Approved
    <3> QED
      BY <2>1, <3>1 DEF EventSound
  <2>4. budgets'[log[i].budget] = budgets[log[i].budget]
    BY <2>3
  <2> QED
    BY <2>1, <2>2, <2>3, <2>4 DEF EventSound, EntrySound
<1>6. EventSound(N + 1)'
  <2>1. /\ BudgetBy(N)' = BudgetBy(N)
        /\ \A o : FactsBy(N, o)' = FactsBy(N, o)
    BY <1>4
  <2>2. (N + 1) - 1 = N
    OBVIOUS
  <2> QED
    BY <1>1, <1>3, <2>1, <2>2 DEF EventSound, EntrySound
<1>7. \A i \in 2..Len(log') : i \in 2..N \/ i = N + 1
  BY <1>3
<1>8. Len(log') > 0 /\ log'[1] = [type |-> "approved", budget |-> 1]
  BY <1>3 DEF LogInv
<1> QED
  BY <1>1, <1>4, <1>5, <1>6, <1>7, <1>8

LEMMA ExecuteLog ==
  ASSUME LogInv, TypeInv', NEW u \in User, NEW o \in Operations, NEW new \in Facts,
         NEW type \in {"started", "recorded"}, Execute(u, type, o, new),
         Steady, RowSound(new), new # facts[o],
         type = "started" =>
             facts[o] = Unstarted /\ new.started /\ new.spent = Unknown,
         type = "recorded" => facts[o].started
  PROVE  LogInv'
<1> DEFINE e == Written(u, type, o, new)
<1>1. TypeInv /\ o \in Operation /\ budgets[Approved][o] \in Amount
      /\ Approved \in Nat \ {0}
  BY AllocationType, OperationsOf DEF LogInv
<1>2. /\ log' = Append(log, e) /\ facts' = [facts EXCEPT ![o] = new]
      /\ budgets' = budgets /\ draft' = draft
  BY DEF Execute, Events, planning, LogInv, TypeInv
<1>3. /\ e.type = type /\ e.operation = o /\ e.budget = Approved
      /\ e.allocation = budgets[Approved][o]
      /\ e.before = facts[o] /\ e.after = new
  BY DEF Written
<1>4. e \in Entry
  <2>1. facts[o] \in Facts
    BY <1>1 DEF TypeInv
  <2> QED
    BY <1>1, <2>1 DEF Written, Entry
<1> HIDE DEF e
<1>5. /\ Approved' = Approved /\ Operations' = Operations
  BY <1>2 DEF Approved, Operations
<1>6. /\ facts[o] = FactsBy(Len(log), o)
      /\ BudgetBy(Len(log)) = Approved
  BY <1>1 DEF LogInv
<1>7. /\ Len(log') > 0 /\ log'[1] = [type |-> "approved", budget |-> 1]
      /\ \A i \in 2..Len(log') : EventSound(i)'
      /\ \A n \in 1..Len(log) :
             /\ BudgetBy(n)' = BudgetBy(n)
             /\ \A p : FactsBy(n, p)' = FactsBy(n, p)
  <2>1. /\ Approved <= Approved'
        /\ \A n \in 1..Approved : budgets'[n] = budgets[n]
        /\ e.budget \in 1..Approved'
    BY <1>1, <1>2, <1>3, <1>5
  <2>2. e.type # "approved"
    BY <1>3
  <2>3. /\ e.operation \in Operations'
        /\ e.budget = BudgetBy(Len(log))
        /\ e.operation \in DOMAIN budgets'[e.budget]
        /\ e.allocation = budgets'[e.budget][e.operation]
        /\ e.before = FactsBy(Len(log), e.operation)
        /\ e.before # e.after
    BY <1>2, <1>3, <1>5, <1>6 DEF Operations
  <2>4. /\ e.type = "started" =>
               /\ e.before = Unstarted
               /\ e.after.started /\ e.after.spent = Unknown
        /\ e.type = "recorded" => e.before.started
    BY <1>3
  <2> QED
    BY <1>2, <1>4, <1>5, <2>1, <2>2, <2>3, <2>4, EventAdded
<1>8. PICK N \in Nat \ {0} : N = Len(log)
  BY PastOf
<1>9. Len(log') = N + 1 /\ log'[N + 1] = e
  BY <1>1, <1>2, <1>4, <1>8 DEF TypeInv
<1>a. /\ BudgetBy(N)' = Approved
      /\ \A p \in Operation : FactsBy(N, p)' = facts[p]
  BY <1>6, <1>7, <1>8 DEF LogInv
<1>10. BudgetBy(N + 1)' = Approved
  <2>1. log'[N + 1].type # "approved" /\ N + 1 \in Nat \ {0} /\ (N + 1) - 1 = N
    BY <1>3, <1>9
  <2>2. BudgetBy(N + 1)' = BudgetBy(N)'
    BY <2>1, FollowsNext DEF BudgetFollows
  <2> QED
    BY <1>a, <2>2
<1>11. ASSUME NEW p \in Operation
       PROVE  facts'[p] = FactsBy(N + 1, p)'
  <2>1. log'[N + 1].type # "approved" /\ N + 1 \in Nat \ {0} /\ (N + 1) - 1 = N
    BY <1>3, <1>9
  <2>2. CASE p = o
    <3>1. FactsBy(N + 1, p)' = log'[N + 1].after
      BY <1>3, <1>9, <2>1, <2>2, FollowsNext DEF FactsFollow
    <3>2. facts'[p] = new
      BY <1>1, <1>2, <2>2 DEF TypeInv
    <3> QED
      BY <1>3, <1>9, <3>1, <3>2
  <2>3. CASE p # o
    <3>1. FactsBy(N + 1, p)' = FactsBy(N, p)'
      BY <1>3, <1>9, <2>1, <2>3, FollowsNext DEF FactsFollow
    <3>2. facts'[p] = facts[p]
      BY <1>1, <1>2, <2>3 DEF TypeInv
    <3> QED
      BY <1>a, <3>1, <3>2
  <2> QED
    BY <2>2, <2>3
<1>12. \A p \in Operation : RowSound(facts'[p])
  BY <1>1, <1>2 DEF LogInv, TypeInv
<1>13. /\ \A p \in Operation : facts'[p] = FactsBy(Len(log), p)'
       /\ BudgetBy(Len(log))' = Approved'
  BY <1>5, <1>9, <1>10, <1>11
<1> QED
  BY <1>2, <1>5, <1>7, <1>12, <1>13 DEF LogInv, Steady, RowSound

(* The approval of an amendment adds the next budget, which keeps every
   Operation that was ever executed. *)
LEMMA ApproveLog ==
  ASSUME LogInv, TypeInv', ApproveAmendment
  PROVE  LogInv'
<1> DEFINE e == [type |-> "approved", budget |-> Approved + 1]
<1>1. /\ TypeInv /\ Approved \in Nat \ {0} /\ draft \in Budget
      /\ draft # NoAmendment /\ Operations \subseteq DOMAIN draft
  BY OperationsOf DEF LogInv, TypeInv, ApproveAmendment
<1>2. /\ log' = Append(log, e) /\ facts' = facts
      /\ budgets' = Append(budgets, draft) /\ draft' = NoAmendment
  BY DEF ApproveAmendment, Events, LogInv, TypeInv
<1>3. e.type = "approved" /\ e.budget = Approved + 1 /\ e \in Approval
  BY <1>1 DEF Approval
<1>4. e = [type |-> "approved", budget |-> Approved + 1]
  OBVIOUS
<1> HIDE DEF e
<1>5. /\ Approved' = Approved + 1
      /\ \A n \in 1..Approved : budgets'[n] = budgets[n]
      /\ budgets'[Approved + 1] = draft
  BY <1>1, <1>2 DEF Approved, TypeInv
<1>6. Operations \subseteq Operations'
  <2>1. Operations' = DOMAIN draft
    BY <1>5 DEF Operations
  <2> QED
    BY <1>1, <2>1
<1>7. BudgetBy(Len(log)) = Approved
  BY DEF LogInv
<1>8. /\ Len(log') > 0 /\ log'[1] = [type |-> "approved", budget |-> 1]
      /\ \A i \in 2..Len(log') : EventSound(i)'
      /\ \A n \in 1..Len(log) :
             /\ BudgetBy(n)' = BudgetBy(n)
             /\ \A o : FactsBy(n, o)' = FactsBy(n, o)
  <2>1. /\ Approved <= Approved' /\ e.budget \in 1..Approved'
        /\ e.budget = BudgetBy(Len(log)) + 1
    BY <1>1, <1>3, <1>5, <1>7
  <2> QED
    BY <1>2, <1>3, <1>5, <1>6, <2>1, EventAdded
<1>9. PICK N \in Nat \ {0} : N = Len(log)
  BY PastOf
<1>10. /\ Len(log') = N + 1 /\ log'[N + 1] = e
       /\ N + 1 \in Nat \ {0} /\ (N + 1) - 1 = N
  BY <1>1, <1>2, <1>3, <1>9 DEF TypeInv
<1>11. BudgetBy(N + 1)' = Approved'
  <2>1. BudgetBy(N + 1)' = log'[N + 1].budget
    BY <1>3, <1>10, FollowsNext DEF BudgetFollows
  <2> QED
    BY <1>3, <1>5, <1>10, <2>1
<1>12. ASSUME NEW p \in Operation
       PROVE  facts'[p] = FactsBy(N + 1, p)'
  <2>1. FactsBy(N + 1, p)' = FactsBy(N, p)'
    BY <1>3, <1>10, FollowsNext DEF FactsFollow
  <2>2. FactsBy(N, p)' = facts[p]
    BY <1>8, <1>9 DEF LogInv
  <2> QED
    BY <1>2, <2>1, <2>2
<1>13. /\ \A p \in Operation : facts'[p] = FactsBy(Len(log), p)'
       /\ BudgetBy(Len(log))' = Approved'
  BY <1>10, <1>11, <1>12
<1> QED
  BY <1>2, <1>8, <1>13 DEF LogInv, RowSound

LEMMA InitLog == Init => LogInv
<1> SUFFICES ASSUME Init PROVE LogInv
  OBVIOUS
<1>1. /\ TypeInv /\ draft = NoAmendment
      /\ facts = [o \in Operation |-> Unstarted]
      /\ log = <<[type |-> "approved", budget |-> 1]>>
  BY InitType DEF Init
<1>2. Approved = 1
  BY DEF Init, Approved
<1>3. Len(log) = 1 /\ log[1] = [type |-> "approved", budget |-> 1]
  BY <1>1
<1>4. BudgetBy(1) = 1
  BY <1>3, BudgetNext
<1>5. \A o \in Operation : FactsBy(1, o) = Unstarted
  <2>1. log[1].type = "approved" /\ 1 - 1 = 0 /\ 1 \in Nat \ {0}
    BY <1>3
  <2> QED
    BY <2>1, FactsNext, FactsFirst
<1>6. \A o \in Operation : facts[o] = Unstarted
  BY <1>1
<1>7. \A o \in Operation : RowSound(facts[o])
  <2>1. RowSound(Unstarted)
    BY DEF RowSound, Unstarted
  <2> QED
    BY <1>6, <2>1
<1> QED
  BY <1>1, <1>2, <1>3, <1>4, <1>5, <1>6, <1>7 DEF LogInv

(* What writes neither the log nor what it is about keeps it sound. *)
LEMMA QuietLog ==
  ASSUME LogInv, TypeInv', UNCHANGED <<budgets, facts, log>>,
         draft' # NoAmendment => Operations \subseteq DOMAIN draft'
  PROVE  LogInv'
<1>1. Approved' = Approved /\ Operations' = Operations
  BY DEF Approved, Operations
<1>2. PICK N \in Nat \ {0} : N = Len(log) /\ N = Len(log')
  BY PastOf
<1>3. ASSUME NEW n \in 1..N
      PROVE  /\ BudgetBy(n)' = BudgetBy(n)
             /\ \A o : FactsBy(n, o)' = FactsBy(n, o)
  <2>1. 1 \in 1..n /\ n \in Nat /\ log[1].type = "approved"
    BY PastOf
  <2> QED
    BY <2>1, PastKept
<1>4. ASSUME NEW i \in 2..N
      PROVE  EventSound(i)'
  <2>1. EventSound(i) /\ i - 1 \in 1..N
    BY <1>2 DEF LogInv
  <2>2. /\ BudgetBy(i - 1)' = BudgetBy(i - 1)
        /\ \A o : FactsBy(i - 1, o)' = FactsBy(i - 1, o)
    BY <1>3, <2>1
  <2> QED
    BY <1>1, <2>1, <2>2 DEF EventSound, EntrySound
<1>5. /\ BudgetBy(N)' = Approved'
      /\ \A o \in Operation : facts'[o] = FactsBy(N, o)'
  BY <1>1, <1>2, <1>3 DEF LogInv
<1>6. /\ \A o \in Operation : facts'[o] = FactsBy(Len(log), o)'
      /\ BudgetBy(Len(log))' = Approved'
  BY <1>2, <1>5
<1> QED
  BY <1>1, <1>2, <1>4, <1>6 DEF LogInv, RowSound

LEMMA StepLog == LogInv /\ [Next]_vars => LogInv'
<1> SUFFICES ASSUME LogInv, [Next]_vars PROVE LogInv'
  OBVIOUS
<1>0. TypeInv /\ TypeInv'
  BY StepType DEF LogInv
<1>1. ASSUME NEW u \in User, NEW o \in Operation, StartOperation(u, o)
      PROVE  LogInv'
  <2> DEFINE new == [facts[o] EXCEPT !.started = TRUE]
  <2>1. facts[o] \in Facts /\ facts[o] = Unstarted /\ o \in Operations /\ Steady
    BY <1>0, <1>1 DEF TypeInv, LogInv, RowSound, StartOperation, MayExecute
  <2>2. /\ new \in Facts /\ new.started /\ new.spent = Unknown
        /\ ~new.completed /\ new # facts[o]
    <3>1. \A f : f = Unstarted =>
              LET n == [f EXCEPT !.started = TRUE]
              IN  /\ n.started /\ n.spent = Unknown
                  /\ ~n.completed /\ ~f.started
      BY DEF Unstarted
    <3>2. new \in Facts
      BY <2>1 DEF Facts
    <3> QED
      BY <2>1, <3>1, <3>2
  <2>3. RowSound(new) /\ Execute(u, "started", o, new)
    BY <1>1, <2>2 DEF RowSound, StartOperation
  <2> HIDE DEF new
  <2> QED
    BY <1>0, <2>1, <2>2, <2>3, ExecuteLog
<1>2. ASSUME NEW u \in User, NEW o \in Operation, NEW new \in Facts,
             RecordExecution(u, o, new)
      PROVE  LogInv'
  <2>1. /\ o \in Operations /\ Steady /\ facts[o].started /\ new # facts[o]
        /\ RowSound(new) /\ Execute(u, "recorded", o, new)
    BY <1>2 DEF RecordExecution, MayExecute, RowSound
  <2> QED
    BY <1>0, <2>1, ExecuteLog
<1>3. ASSUME NEW u \in User, OpenAmendment(u)
      PROVE  LogInv'
  BY <1>0, <1>3, QuietLog DEF OpenAmendment, Operations
<1>4. ASSUME NEW u \in User, NEW b \in Budget, EditAmendment(u, b)
      PROVE  LogInv'
  BY <1>0, <1>4, QuietLog DEF EditAmendment
<1>5. ASSUME NEW u \in User, CancelAmendment(u)
      PROVE  LogInv'
  BY <1>0, <1>5, QuietLog DEF CancelAmendment
<1>6. CASE ApproveAmendment
  BY <1>0, <1>6, ApproveLog
<1>7. ASSUME NEW u \in User, NEW n \in Pending, SubmitFunding(u, n)
      PROVE  LogInv'
  <2>1. UNCHANGED <<budgets, facts, log, draft>>
    BY <1>7 DEF SubmitFunding, planning
  <2> QED
    BY <1>0, <2>1, QuietLog DEF LogInv
<1>8. ASSUME NEW u \in User, NEW r \in DOMAIN funding, Reviewed(u, r)
      PROVE  LogInv'
  <2>1. UNCHANGED <<budgets, facts, log, draft>>
    BY <1>8 DEF Reviewed, PrevalidateFunding, ApproveFunding, ReturnFunding,
       CancelFunding, Move, planning
  <2> QED
    BY <1>0, <2>1, QuietLog DEF LogInv
<1>9. CASE UNCHANGED <<budgets, draft, contributors, facts, log, funding,
                       verdicts>>
  BY <1>0, <1>9, QuietLog DEF LogInv
<1> QED
  BY <1>1, <1>2, <1>3, <1>4, <1>5, <1>6, <1>7, <1>8, <1>9, StepCases

LEMMA LogAlwaysSound == Spec => []LogInv
<1>1. Init => LogInv
  BY InitLog
<1>2. LogInv /\ [Next]_vars => LogInv'
  BY StepLog
<1> QED
  BY <1>1, <1>2, PTL DEF Spec

-----------------------------------------------------------------------------
(* The history.  A replay is a recursive function; what it comes to after each
   event is stated outright, and the least event at which another solution of
   the recursion would differ gives the contradiction. *)

TellingBy(i) ==
    IF i = 0 THEN [budget |-> 0, approvals |-> <<>>, true |-> TRUE,
                   facts |-> [o \in Operation |-> Unstarted]]
    ELSE [budget |-> BudgetBy(i), approvals |-> [n \in 1..BudgetBy(i) |-> n],
          true |-> TRUE, facts |-> [o \in Operation |-> FactsBy(i, o)]]

(* The solutions of the recursion that defines Story. *)
Retells(g) ==
    g = [i \in 0..Len(log) |->
            IF i = 0 THEN [budget |-> 0, approvals |-> <<>>, true |-> TRUE,
                           facts |-> [o \in Operation |-> Unstarted]]
            ELSE Retell(g[i - 1], log[i])]

LEMMA StoryChosen == Story = CHOOSE g : Retells(g)
BY Zenon DEF Story, Retells

LEMMA RetellApproval ==
  ASSUME NEW b, NEW a, NEW f, NEW e, e.type = "approved"
  PROVE  Retell([budget |-> b, approvals |-> a, true |-> TRUE, facts |-> f], e)
             = [budget |-> e.budget, approvals |-> Append(a, e.budget),
                true |-> TRUE, facts |-> f]
BY DEF Retell

LEMMA RetellEntry ==
  ASSUME NEW b, NEW a, NEW f, NEW e, e.type # "approved",
         e.operation \in Operations, e.before = f[e.operation],
         e.before # e.after, e.budget = b, e.operation \in DOMAIN budgets[b],
         e.allocation = budgets[b][e.operation],
         e.type = "started" => e.before = Unstarted /\ e.after.started,
         e.type # "started" => e.before.started
  PROVE  Retell([budget |-> b, approvals |-> a, true |-> TRUE, facts |-> f], e)
             = [budget |-> b, approvals |-> a, true |-> TRUE,
                facts |-> [f EXCEPT ![e.operation] = e.after]]
<1> DEFINE s == [budget |-> b, approvals |-> a, true |-> TRUE, facts |-> f]
<1> DEFINE good == /\ s.true
                   /\ e.operation \in Operations
                   /\ e.before = s.facts[e.operation]
                   /\ e.before # e.after
                   /\ e.budget = s.budget
                   /\ e.operation \in DOMAIN budgets[s.budget]
                   /\ e.allocation = budgets[s.budget][e.operation]
                   /\ IF e.type = "started"
                      THEN s.facts[e.operation] = Unstarted /\ e.after.started
                      ELSE s.facts[e.operation].started
<1>1. Retell(s, e) = [s EXCEPT !.facts[e.operation] = e.after, !.true = good]
  BY Zenon DEF Retell
<1>2. s.true = TRUE /\ s.facts = f /\ s.budget = b
  OBVIOUS
<1>3. good = TRUE
  BY <1>2
<1> HIDE DEF good
<1> QED
  BY <1>1, <1>3

LEMMA BudgetByType ==
  ASSUME LogInv, NEW i \in 1..Len(log)
  PROVE  BudgetBy(i) \in 1..Approved
<1> DEFINE A == {j \in 1..i : log[j].type = "approved"}
<1> DEFINE c == CHOOSE j \in A : \A k \in A : k <= j
<1>1. BudgetBy(i) = log[c].budget
  BY DEF BudgetBy
<1>2. c \in A
  <2>1. A \subseteq Nat /\ A # {} /\ i \in Nat /\ \A j \in A : j <= i
    BY PastOf
  <2> HIDE DEF A
  <2>2. \E j \in A : \A k \in A : k <= j
    BY <2>1, GreatestNatural
  <2> QED
    BY <2>2
<1>3. c \in 1..Len(log)
  BY <1>2, PastOf
<1> QED
  BY <1>1, <1>3, PastOf

(* One event leads from what was told before it to what is told after it. *)
LEMMA TellingStep ==
  ASSUME LogInv, NEW i \in 1..Len(log)
  PROVE  Retell(TellingBy(i - 1), log[i]) = TellingBy(i)
<1> DEFINE e == log[i]
<1>0. /\ i \in Nat \ {0} /\ i - 1 \in Nat /\ Len(log) \in Nat
  BY PastOf
<1>1. TellingBy(i) =
        [budget |-> BudgetBy(i), approvals |-> [n \in 1..BudgetBy(i) |-> n],
         true |-> TRUE, facts |-> [o \in Operation |-> FactsBy(i, o)]]
  BY <1>0 DEF TellingBy
<1>2. CASE i = 1
  <2>1. e.type = "approved" /\ e.budget = 1 /\ BudgetBy(i) = 1
    BY <1>2, PastOf, BudgetNext
  <2>2. \A o \in Operation : FactsBy(i, o) = Unstarted
    BY <1>2, <2>1, FactsNext, FactsFirst
  <2> DEFINE a == <<>>
             f == [o \in Operation |-> Unstarted]
  <2>3. TellingBy(i - 1) =
          [budget |-> 0, approvals |-> a, true |-> TRUE, facts |-> f]
    BY <1>2 DEF TellingBy
  <2>4. Append(a, 1) = [n \in 1..1 |-> n]
    OBVIOUS
  <2>5. [o \in Operation |-> FactsBy(i, o)] = f
    BY <2>2
  <2> HIDE DEF e, a, f
  <2>6. Retell(TellingBy(i - 1), e) =
          [budget |-> e.budget, approvals |-> Append(a, e.budget),
           true |-> TRUE, facts |-> f]
    BY <2>1, <2>3, RetellApproval
  <2>7. Retell(TellingBy(i - 1), e) = TellingBy(i)
    BY <1>1, <2>1, <2>4, <2>5, <2>6
  <2> QED
    BY <2>7 DEF e
<1>3. CASE i # 1
  <2>0. i \in 2..Len(log) /\ i - 1 \in 1..Len(log) /\ i - 1 # 0
    BY <1>0, <1>3
  <2>1. EventSound(i) /\ BudgetBy(i - 1) \in Nat
    BY <2>0, BudgetByType DEF LogInv
  <2> DEFINE b == BudgetBy(i - 1)
             a == [n \in 1..b |-> n]
             f == [o \in Operation |-> FactsBy(i - 1, o)]
  <2>2. TellingBy(i - 1) =
          [budget |-> b, approvals |-> a, true |-> TRUE, facts |-> f]
    BY <2>0 DEF TellingBy
  <2>3. CASE e.type = "approved"
    <3>1. e.budget = b + 1 /\ BudgetBy(i) = b + 1
      BY <1>0, <2>1, <2>3, BudgetNext DEF EventSound
    <3>2. \A o \in Operation : FactsBy(i, o) = FactsBy(i - 1, o)
      BY <1>0, <2>3, FactsNext
    <3>3. f = [o \in Operation |-> FactsBy(i, o)]
      BY <3>2
    <3>4. Append(a, b + 1) = [n \in 1..(b + 1) |-> n]
      BY <2>1
    <3> HIDE DEF e, a, b, f
    <3>5. Retell(TellingBy(i - 1), e) =
            [budget |-> e.budget, approvals |-> Append(a, e.budget),
             true |-> TRUE, facts |-> f]
      BY <2>2, <2>3, RetellApproval
    <3>6. Retell(TellingBy(i - 1), e) = TellingBy(i)
      BY <1>1, <3>1, <3>3, <3>4, <3>5
    <3> QED
      BY <3>6 DEF e
  <2>4. CASE e.type # "approved"
    <3>1. e \in Entry /\ e.type \in {"started", "recorded"}
      BY <2>4, PastOf
    <3>2. e.operation \in Operation
      BY <3>1 DEF Entry
    <3>3. EntrySound(i, e)
      BY <2>1, <2>4 DEF EventSound
    <3>4. BudgetBy(i) = b
      BY <1>0, <2>4, BudgetNext
    <3>5. \A o \in Operation :
              FactsBy(i, o) = IF o = e.operation THEN e.after
                              ELSE FactsBy(i - 1, o)
      BY <1>0, <2>4, FactsNext
    <3>6. [o \in Operation |-> FactsBy(i, o)]
              = [f EXCEPT ![e.operation] = e.after]
      BY <3>2, <3>5
    <3>7. f[e.operation] = FactsBy(i - 1, e.operation)
      BY <3>2
    <3>8. /\ e.operation \in Operations /\ e.before = f[e.operation]
          /\ e.before # e.after /\ e.budget = b
          /\ e.operation \in DOMAIN budgets[b]
          /\ e.allocation = budgets[b][e.operation]
          /\ e.type = "started" => e.before = Unstarted /\ e.after.started
          /\ e.type # "started" => e.before.started
      BY <3>1, <3>3, <3>7 DEF EntrySound
    <3> HIDE DEF e, a, b, f
    <3>9. Retell(TellingBy(i - 1), e) =
            [budget |-> b, approvals |-> a, true |-> TRUE,
             facts |-> [f EXCEPT ![e.operation] = e.after]]
      BY <2>2, <2>4, <3>8, RetellEntry
    <3>10. a = [n \in 1..BudgetBy(i) |-> n]
      BY <3>4 DEF a
    <3>11. Retell(TellingBy(i - 1), e) = TellingBy(i)
      BY <1>1, <3>4, <3>6, <3>9, <3>10
    <3> QED
      BY <3>11 DEF e
  <2> QED
    BY <2>3, <2>4
<1> QED
  BY <1>2, <1>3

LEMMA StoryIs ==
  ASSUME LogInv
  PROVE  Retold = TellingBy(Len(log))
<1>0. PICK N \in Nat \ {0} : N = Len(log)
  BY PastOf
<1> DEFINE h == [i \in 0..N |-> TellingBy(i)]
<1>1. Retells(h)
  <2> DEFINE first == [budget |-> 0, approvals |-> <<>>, true |-> TRUE,
                       facts |-> [o \in Operation |-> Unstarted]]
  <2>1. TellingBy(0) = first
    BY DEF TellingBy
  <2>2. ASSUME NEW i \in 1..N
        PROVE  TellingBy(i) = Retell(h[i - 1], log[i])
    <3>1. h[i - 1] = TellingBy(i - 1)
      OBVIOUS
    <3> QED
      BY <1>0, <2>2, <3>1, TellingStep
  <2> DEFINE k == [i \in 0..N |-> IF i = 0 THEN first
                                  ELSE Retell(h[i - 1], log[i])]
  <2> HIDE DEF first
  <2>3. \A i \in 0..N : h[i] = k[i]
    BY <2>1, <2>2
  <2>4. h = k
    BY <2>3
  <2> HIDE DEF h
  <2>5. h = k
    BY <2>4
  <2> QED
    BY <1>0, <2>5 DEF Retells, first
<1>2. ASSUME NEW g, Retells(g)
      PROVE  g[N] = TellingBy(N)
  <2> DEFINE Bad == {i \in 0..N : g[i] # TellingBy(i)}
  <2>0. \A i \in 0..N : g[i] = IF i = 0 THEN TellingBy(0)
                                ELSE Retell(g[i - 1], log[i])
    <3> DEFINE k == [i \in 0..N |-> IF i = 0 THEN TellingBy(0)
                                    ELSE Retell(g[i - 1], log[i])]
    <3>1. g = k
      BY <1>0, <1>2 DEF Retells, TellingBy
    <3>2. \A i \in 0..N : k[i] = IF i = 0 THEN TellingBy(0)
                                ELSE Retell(g[i - 1], log[i])
      OBVIOUS
    <3> QED
      BY <3>1, <3>2, Zenon
  <2>1. CASE Bad # {}
    <3>1. Bad \subseteq Nat
      OBVIOUS
    <3>2. PICK i \in Bad : \A j \in Bad : i <= j
      <4> HIDE DEF Bad
      <4> QED
        BY <2>1, <3>1, LeastNatural
    <3>3. i # 0
      BY <2>0
    <3>4. i \in 1..N /\ i - 1 \in 0..N /\ g[i - 1] = TellingBy(i - 1)
      BY <3>2, <3>3
    <3>5. g[i] = Retell(TellingBy(i - 1), log[i])
      BY <2>0, <3>3, <3>4
    <3>6. g[i] = TellingBy(i)
      BY <1>0, <3>4, <3>5, TellingStep
    <3> QED
      BY <3>6
  <2>2. CASE Bad = {}
    BY <2>2
  <2> QED
    BY <2>1, <2>2
<1> HIDE DEF h
<1>3. Retells(Story)
  BY <1>1, StoryChosen
<1> QED
  BY <1>0, <1>2, <1>3 DEF Retold

(* The audit log always retells the execution, and not only of complete
   Activities. *)
LEMMA HistoryHolds == LogInv => HistoryVerifies
<1> SUFFICES ASSUME LogInv PROVE HistoryVerifies
  OBVIOUS
<1>1. PICK N \in Nat \ {0} : N = Len(log)
  BY PastOf
<1>2. Retold = [budget |-> BudgetBy(N), approvals |-> [n \in 1..BudgetBy(N) |-> n],
                true |-> TRUE, facts |-> [o \in Operation |-> FactsBy(N, o)]]
  BY <1>1, StoryIs DEF TellingBy
<1>3. BudgetBy(N) = Approved /\ \A o \in Operation : facts[o] = FactsBy(N, o)
  BY <1>1 DEF LogInv
<1>4. facts = [o \in Operation |-> FactsBy(N, o)]
  BY <1>3 DEF LogInv, TypeInv
<1> QED
  BY <1>2, <1>3, <1>4 DEF HistoryVerifies

(* Retold from the audit log, every column of an Operation is what the row says,
   so verified_financial_basis never refuses a payment for its history. *)
THEOREM HistoryAlwaysVerified == Spec => []HistoryVerified
<1>1. LogInv => HistoryVerified
  BY HistoryHolds DEF HistoryVerified
<1> QED
  BY <1>1, LogAlwaysSound, PTL

-----------------------------------------------------------------------------
(* The shortfall.  The scan skips the start of an Operation, which spends
   nothing: its facts are what was last recorded. *)

RecordedBy(i, o) ==
    LET entries == {j \in 1..i :
                       log[j].type = "recorded" /\ log[j].operation = o}
    IN  IF entries = {} THEN Unstarted
        ELSE log[CHOOSE j \in entries : \A k \in entries : k <= j].after

LEMMA RecordedNext ==
  ASSUME NEW i \in Nat \ {0}, NEW o
  PROVE  /\ log[i].type = "recorded" /\ log[i].operation = o =>
                RecordedBy(i, o) = log[i].after
         /\ ~(log[i].type = "recorded" /\ log[i].operation = o) =>
                RecordedBy(i, o) = RecordedBy(i - 1, o)
<1> DEFINE E(n) == {j \in 1..n : log[j].type = "recorded" /\ log[j].operation = o}
<1>0. \A n : RecordedBy(n, o) = IF E(n) = {} THEN Unstarted
                      ELSE log[CHOOSE j \in E(n) : \A k \in E(n) : k <= j].after
  BY DEF RecordedBy
<1>1. ASSUME i \in E(i)
      PROVE  RecordedBy(i, o) = log[i].after
  <2>1. \A k \in E(i) : k <= i
    OBVIOUS
  <2>2. (CHOOSE j \in E(i) : \A k \in E(i) : k <= j) = i
    <3> DEFINE c == CHOOSE j \in E(i) : \A k \in E(i) : k <= j
    <3>1. c \in E(i) /\ \A k \in E(i) : k <= c
      BY <1>1, <2>1
    <3>2. c \in 1..i /\ i <= c
      BY <1>1, <3>1
    <3> QED
      BY <3>2
  <2> HIDE DEF E
  <2> QED
    BY <1>0, <1>1, <2>2
<1>2. ASSUME i \notin E(i)
      PROVE  RecordedBy(i, o) = RecordedBy(i - 1, o)
  <2>1. E(i) = E(i - 1)
    <3>1. 1..i = (1..(i - 1)) \cup {i}
      OBVIOUS
    <3> QED
      BY <1>2, <3>1
  <2> HIDE DEF E
  <2> QED
    BY <1>0, <2>1, Zenon
<1> QED
  BY <1>1, <1>2

LEMMA RecordedFirst ==
  ASSUME NEW o
  PROVE  RecordedBy(0, o) = Unstarted
BY DEF RecordedBy

(* What was last recorded is what is known to be spent. *)
LEMMA RecordedSpent ==
  ASSUME LogInv
  PROVE  \A i \in 0..Len(log) : \A o \in Operation :
             RecordedBy(i, o).spent = FactsBy(i, o).spent
<1> DEFINE Bad == {i \in 0..Len(log) : ~\A o \in Operation :
                       RecordedBy(i, o).spent = FactsBy(i, o).spent}
<1>1. CASE Bad # {}
  <2>1. Bad \subseteq Nat
    OBVIOUS
  <2>2. PICK i \in Bad : \A j \in Bad : i <= j
    <3> HIDE DEF Bad
    <3> QED
      BY <1>1, <2>1, LeastNatural
  <2>3. i # 0
    BY RecordedFirst, FactsFirst
  <2>4. /\ i \in 1..Len(log) /\ i \in Nat \ {0}
        /\ i - 1 \in 0..Len(log) /\ i - 1 \notin Bad
    BY <2>2, <2>3, PastOf
  <2>5. ASSUME NEW o \in Operation
        PROVE  RecordedBy(i, o).spent = FactsBy(i, o).spent
    <3>0. RecordedBy(i - 1, o).spent = FactsBy(i - 1, o).spent
      BY <2>4
    <3>1. CASE log[i].type = "recorded" /\ log[i].operation = o
      BY <2>4, <3>1, RecordedNext, FactsNext
    <3>2. CASE log[i].type = "started" /\ log[i].operation = o
      <4>1. i \in 2..Len(log)
        BY <2>4, <3>2, PastOf
      <4>2. EntrySound(i, log[i])
        BY <3>2, <4>1 DEF LogInv, EventSound
      <4>3. /\ FactsBy(i - 1, o) = Unstarted
            /\ log[i].after.spent = Unknown
        BY <3>2, <4>2 DEF EntrySound
      <4>4. FactsBy(i, o) = log[i].after /\ RecordedBy(i, o) = RecordedBy(i - 1, o)
        BY <2>4, <3>2, RecordedNext, FactsNext
      <4> QED
        BY <3>0, <4>3, <4>4 DEF Unstarted
    <3>3. CASE log[i].type = "approved" \/ log[i].operation # o
      BY <2>4, <3>0, <3>3, RecordedNext, FactsNext
    <3> QED
      BY <2>4, <3>1, <3>2, <3>3, PastOf
  <2> QED
    BY <2>2, <2>5
<1>2. CASE Bad = {}
  BY <1>2
<1> QED
  BY <1>1, <1>2

LEMMA SpendingOfSpent ==
  ASSUME NEW f, NEW g, \A o \in Operation : f[o].spent = g[o].spent
  PROVE  Spending(f) = Spending(g)
<1>1. [o \in Operation |-> IF f[o].spent = Unknown THEN 0 ELSE f[o].spent]
      = [o \in Operation |-> IF g[o].spent = Unknown THEN 0 ELSE g[o].spent]
  OBVIOUS
<1> QED
  BY <1>1 DEF Spending

(* What the scan has found after the i-th event. *)
FoundBy(i) ==
    IF i = 0 THEN Blackboard
    ELSE [budget |-> BudgetBy(i),
          facts |-> [o \in Operation |-> RecordedBy(i, o)],
          short |-> \E j \in 1..i : ShortAt(j)]

Scans(g) ==
    g = [i \in 0..Len(log) |->
            IF i = 0 THEN Blackboard ELSE Scan(g[i - 1], log[i])]

LEMMA ScannedChosen == Scanned = CHOOSE g : Scans(g)
BY Zenon DEF Scanned, Scans

TooMuch(b, f) == Spending(f) > Total(b) /\ ~Covered(b, Spending(f))

LEMMA JudgeIs ==
  ASSUME NEW b, NEW f, NEW s \in BOOLEAN
  PROVE  Judge([budget |-> b, facts |-> f, short |-> s])
             = [budget |-> b, facts |-> f, short |-> s \/ TooMuch(b, f)]
<1> DEFINE scan == [budget |-> b, facts |-> f, short |-> s]
<1>1. Judge(scan) = [scan EXCEPT !.short =
            \/ @
            \/ Spending(scan.facts) > Total(scan.budget)
               /\ ~Covered(scan.budget, Spending(scan.facts))]
  BY Zenon DEF Judge
<1>2. scan.facts = f /\ scan.budget = b /\ scan.short = s
  OBVIOUS
<1>3. Judge(scan) = [scan EXCEPT !.short = @ \/ TooMuch(b, f)]
  <2> HIDE DEF scan
  <2> QED
    BY <1>1, <1>2, Zenon DEF TooMuch
<1> DEFINE v == s \/ TooMuch(b, f)
<1>4. Judge(scan) = [scan EXCEPT !.short = v]
  BY <1>2, <1>3
<1> HIDE DEF v
<1>5. Judge(scan) = [budget |-> b, facts |-> f, short |-> v]
  BY <1>4
<1> QED
  BY <1>5 DEF v

LEMMA ScanApproval ==
  ASSUME NEW b, NEW f, NEW s, NEW scan,
         scan = [budget |-> b, facts |-> f, short |-> s],
         NEW e, e.type = "approved"
  PROVE  Scan(scan, e) = Judge([budget |-> e.budget, facts |-> f, short |-> s])
<1>1. [scan EXCEPT !.budget = e.budget]
          = [budget |-> e.budget, facts |-> f, short |-> s]
  OBVIOUS
<1>2. Scan(scan, e) = Judge([scan EXCEPT !.budget = e.budget])
  BY DEF Scan
<1> QED
  BY <1>1, <1>2

LEMMA ScanRecord ==
  ASSUME NEW b, NEW f, NEW s, NEW scan,
         scan = [budget |-> b, facts |-> f, short |-> s],
         NEW e, e.type = "recorded",
         NEW g, g = [f EXCEPT ![e.operation] = e.after]
  PROVE  Scan(scan, e) = Judge([budget |-> b, facts |-> g, short |-> s])
<1>1. [scan EXCEPT !.facts[e.operation] = e.after]
          = [budget |-> b, facts |-> g, short |-> s]
  OBVIOUS
<1>2. Scan(scan, e) = Judge([scan EXCEPT !.facts[e.operation] = e.after])
  BY DEF Scan
<1> QED
  BY <1>1, <1>2

LEMMA ScanStart ==
  ASSUME NEW scan, NEW e, e.type = "started"
  PROVE  Scan(scan, e) = scan
BY DEF Scan

LEMMA ShortIs ==
  ASSUME LogInv, NEW i \in 1..Len(log),
         NEW f, \A o \in Operation : f[o].spent = RecordedBy(i, o).spent
  PROVE  ShortAt(i) = TooMuch(BudgetBy(i), f)
<1> DEFINE g == [o \in Operation |-> FactsBy(i, o)]
<1>1. i \in 0..Len(log)
  BY PastOf
<1>2. \A o \in Operation : f[o].spent = g[o].spent
  BY <1>1, RecordedSpent
<1>3. Spending(f) = Spending(g)
  <2> HIDE DEF g
  <2> QED
    BY <1>2, SpendingOfSpent
<1> QED
  BY <1>3 DEF ShortAt, TooMuch

(* One event leads from what the scan had found to what it finds after it. *)
LEMMA FoundStep ==
  ASSUME LogInv, NEW i \in 1..Len(log)
  PROVE  Scan(FoundBy(i - 1), log[i]) = FoundBy(i)
<1> DEFINE e == log[i]
           S(k) == \E j \in 1..k : ShortAt(j)
           B == IF i = 1 THEN 1 ELSE BudgetBy(i - 1)
           f == [o \in Operation |-> RecordedBy(i - 1, o)]
           h == [o \in Operation |-> RecordedBy(i, o)]
<1>0. i \in Nat \ {0} /\ i - 1 \in Nat
  BY PastOf
<1>1. FoundBy(i) = [budget |-> BudgetBy(i), facts |-> h, short |-> S(i)]
  BY <1>0 DEF FoundBy
<1>2. FoundBy(i - 1) = [budget |-> B, facts |-> f, short |-> S(i - 1)]
  <2>1. CASE i = 1
    <3>1. f = [o \in Operation |-> Unstarted]
      BY <2>1, RecordedFirst
    <3>2. S(i - 1) = FALSE
      BY <2>1
    <3>3. B = 1 /\ FoundBy(i - 1) = Blackboard
      BY <2>1 DEF FoundBy
    <3> HIDE DEF S, f, B
    <3> QED
      BY <3>1, <3>2, <3>3 DEF Blackboard
  <2>2. CASE i # 1
    BY <1>0, <2>2 DEF FoundBy
  <2> QED
    BY <2>1, <2>2
<1>3. S(i) = (S(i - 1) \/ ShortAt(i)) /\ S(i - 1) \in BOOLEAN
  <2>1. 1..i = (1..(i - 1)) \cup {i}
    BY <1>0
  <2>2. S(i) <=> (S(i - 1) \/ ShortAt(i))
    BY <2>1
  <2> QED
    BY <2>2
<1>4. ShortAt(i) = TooMuch(BudgetBy(i), h)
  <2>1. \A o \in Operation : h[o].spent = RecordedBy(i, o).spent
    OBVIOUS
  <2> HIDE DEF h
  <2> QED
    BY <2>1, ShortIs
<1>5. e.type \in {"approved", "recorded", "started"}
  BY PastOf
<1>6. CASE e.type = "approved"
  <2>1. BudgetBy(i) = e.budget
    BY <1>0, <1>6, BudgetNext
  <2>2. h = f
    BY <1>0, <1>6, RecordedNext
  <2> HIDE DEF e, S, B, f, h
  <2>3. Scan(FoundBy(i - 1), e)
            = Judge([budget |-> e.budget, facts |-> f, short |-> S(i - 1)])
    <3> DEFINE s == S(i - 1)
               scan == FoundBy(i - 1)
    <3>1. scan = [budget |-> B, facts |-> f, short |-> s]
      BY <1>2
    <3> HIDE DEF s, scan
    <3>2. Scan(scan, e) = Judge([budget |-> e.budget, facts |-> f, short |-> s])
      BY <1>6, <3>1, ScanApproval
    <3> QED
      BY <3>2 DEF s, scan
  <2>4. Scan(FoundBy(i - 1), e)
            = [budget |-> e.budget, facts |-> f,
               short |-> S(i - 1) \/ TooMuch(e.budget, f)]
    BY <1>3, <2>3, JudgeIs
  <2>5. Scan(FoundBy(i - 1), e) = FoundBy(i)
    BY <1>1, <1>3, <1>4, <2>1, <2>2, <2>4
  <2> QED
    BY <2>5 DEF e
<1>7. CASE e.type = "recorded"
  <2>0. i # 1 /\ e.operation \in Operation
    <3>1. e \in Entry /\ i # 1
      BY <1>7, PastOf
    <3> QED
      BY <3>1 DEF Entry
  <2>1. BudgetBy(i) = B
    BY <1>0, <1>7, <2>0, BudgetNext
  <2>2. h = [f EXCEPT ![e.operation] = e.after]
    <3>1. \A o \in Operation : RecordedBy(i, o) =
              IF o = e.operation THEN e.after ELSE RecordedBy(i - 1, o)
      BY <1>0, <1>7, RecordedNext
    <3> QED
      BY <2>0, <3>1
  <2> HIDE DEF e, S, B, f, h
  <2>3. Scan(FoundBy(i - 1), e)
            = Judge([budget |-> B, facts |-> h, short |-> S(i - 1)])
    <3> DEFINE s == S(i - 1)
               scan == FoundBy(i - 1)
    <3>1. scan = [budget |-> B, facts |-> f, short |-> s]
      BY <1>2
    <3> HIDE DEF s, scan
    <3>2. Scan(scan, e) = Judge([budget |-> B, facts |-> h, short |-> s])
      BY <1>7, <2>2, <3>1, ScanRecord
    <3> QED
      BY <3>2 DEF s, scan
  <2>4. Scan(FoundBy(i - 1), e)
            = [budget |-> B, facts |-> h, short |-> S(i - 1) \/ TooMuch(B, h)]
    BY <1>3, <2>3, JudgeIs
  <2>5. Scan(FoundBy(i - 1), e) = FoundBy(i)
    BY <1>1, <1>3, <1>4, <2>1, <2>4
  <2> QED
    BY <2>5 DEF e
<1>8. CASE e.type = "started"
  <2>0. i # 1 /\ i - 1 \in 1..Len(log)
    BY <1>0, <1>8, PastOf
  <2>1. BudgetBy(i) = B
    BY <1>0, <1>8, <2>0, BudgetNext
  <2>2. h = f
    BY <1>0, <1>8, RecordedNext
  <2>3. ShortAt(i - 1) = ShortAt(i)
    <3>1. ShortAt(i - 1) = TooMuch(BudgetBy(i - 1), f)
      <4>1. \A o \in Operation : f[o].spent = RecordedBy(i - 1, o).spent
        OBVIOUS
      <4> HIDE DEF f
      <4> QED
        BY <2>0, <4>1, ShortIs
    <3> HIDE DEF f, h
    <3> QED
      BY <1>4, <2>0, <2>1, <2>2, <3>1
  <2>4. S(i) = S(i - 1)
    <3>1. ShortAt(i - 1) => S(i - 1)
      BY <1>0, <2>0
    <3> HIDE DEF S
    <3> QED
      BY <1>3, <2>3, <3>1
  <2> HIDE DEF e, S, B, f, h
  <2>5. Scan(FoundBy(i - 1), e) = FoundBy(i - 1)
    BY <1>8, ScanStart
  <2>6. Scan(FoundBy(i - 1), e) = FoundBy(i)
    BY <1>1, <1>2, <2>1, <2>2, <2>4, <2>5
  <2> QED
    BY <2>6 DEF e
<1> QED
  BY <1>5, <1>6, <1>7, <1>8

LEMMA ScannedIs ==
  ASSUME LogInv
  PROVE  Shortfall <=> \E i \in 1..Len(log) : ShortAt(i)
<1>0. PICK N \in Nat \ {0} : N = Len(log)
  BY PastOf
<1> DEFINE h == [i \in 0..N |-> FoundBy(i)]
<1>1. Scans(h)
  <2>1. FoundBy(0) = Blackboard
    BY DEF FoundBy
  <2>2. ASSUME NEW i \in 1..N
        PROVE  FoundBy(i) = Scan(h[i - 1], log[i])
    <3>1. h[i - 1] = FoundBy(i - 1)
      OBVIOUS
    <3> QED
      BY <1>0, <2>2, <3>1, FoundStep
  <2> DEFINE k == [i \in 0..N |-> IF i = 0 THEN Blackboard
                                  ELSE Scan(h[i - 1], log[i])]
  <2>3. \A i \in 0..N : h[i] = k[i]
    BY <2>1, <2>2
  <2>4. h = k
    BY <2>3
  <2> HIDE DEF h
  <2>5. h = k
    BY <2>4
  <2> QED
    BY <1>0, <2>5 DEF Scans
<1>2. ASSUME NEW g, Scans(g)
      PROVE  g[N] = FoundBy(N)
  <2> DEFINE Bad == {i \in 0..N : g[i] # FoundBy(i)}
  <2>0. \A i \in 0..N : g[i] = IF i = 0 THEN FoundBy(0)
                                ELSE Scan(g[i - 1], log[i])
    <3> DEFINE k == [i \in 0..N |-> IF i = 0 THEN FoundBy(0)
                                    ELSE Scan(g[i - 1], log[i])]
    <3>1. g = k
      BY <1>0, <1>2 DEF Scans, FoundBy
    <3>2. \A i \in 0..N : k[i] = IF i = 0 THEN FoundBy(0)
                                ELSE Scan(g[i - 1], log[i])
      OBVIOUS
    <3> QED
      BY <3>1, <3>2, Zenon
  <2>1. CASE Bad # {}
    <3>1. Bad \subseteq Nat
      OBVIOUS
    <3>2. PICK i \in Bad : \A j \in Bad : i <= j
      <4> HIDE DEF Bad
      <4> QED
        BY <2>1, <3>1, LeastNatural
    <3>3. i # 0
      BY <2>0
    <3>4. i \in 1..N /\ i - 1 \in 0..N /\ g[i - 1] = FoundBy(i - 1)
      BY <3>2, <3>3
    <3>5. g[i] = Scan(FoundBy(i - 1), log[i])
      BY <2>0, <3>3, <3>4
    <3>6. g[i] = FoundBy(i)
      BY <1>0, <3>4, <3>5, FoundStep
    <3> QED
      BY <3>6
  <2>2. CASE Bad = {}
    BY <2>2
  <2> QED
    BY <2>1, <2>2
<1> HIDE DEF h
<1>3. Scans(Scanned)
  BY <1>1, ScannedChosen
<1>4. Scanned[N] = FoundBy(N)
  BY <1>2, <1>3
<1>5. FoundBy(N).short = (\E i \in 1..N : ShortAt(i))
  BY <1>0 DEF FoundBy
<1> QED
  BY <1>0, <1>4, <1>5 DEF Shortfall

(* The shortfall of the scan is the one that the history shows. *)
THEOREM ShortfallAlwaysFound == Spec => []ShortfallFound
<1>1. LogInv => ShortfallFound
  BY ScannedIs, PastOf DEF ShortfallFound
<1> QED
  BY <1>1, LogAlwaysSound, PTL

-----------------------------------------------------------------------------
(* The money.  What each budget added, what it gave up, and what was funded
   for it; a request keeps the increment of the increase it is for. *)

Rise == [n \in 1..Approved |-> IF n \in Increases THEN Increment(n) ELSE 0]
Fall == [n \in 1..Approved |->
            IF n > 1 /\ Total(n) < Total(n - 1) THEN Total(n - 1) - Total(n) ELSE 0]
FundedFor == [n \in 1..Approved |-> IF n \in Funded THEN Increment(n) ELSE 0]
Granted == [r \in DOMAIN funding |->
               IF funding[r].state = "approved" THEN funding[r].amount ELSE 0]

RowsFunded ==
    \A r \in DOMAIN funding :
        /\ funding[r].budget \in Increases
        /\ funding[r].amount = Increment(funding[r].budget)
FundedSum == SumFunction(Granted) = SumFunction(FundedFor)
TotalSum ==
    Total(Approved) = Total(1) + SumFunction(Rise) - SumFunction(Fall)

MoneyInv == TypeInv /\ RowsFunded /\ FundedSum /\ TotalSum

LEMMA CostType ==
  ASSUME NEW b \in Budget
  PROVE  Cost(b) \in Nat
<1>1. PICK ops \in (SUBSET Operation) \ {{}} : b \in [ops -> Amount \ {0}]
  BY DEF Budget
<1>2. IsFiniteSet(ops)
  BY <1>1, OperationsAssumption, FS_Subset
<1>3. \A o \in ops : b[o] \in Nat
  BY <1>1, AmountAssumption
<1>4. SumFunctionOnSet(b, ops) \in Nat
  BY <1>2, <1>3, SumNat
<1> QED
  BY <1>1, <1>4 DEF Cost, SumFunction

LEMMA TotalType ==
  ASSUME TypeInv
  PROVE  /\ Approved \in Nat \ {0}
         /\ \A n \in 1..Approved : Total(n) \in Nat
<1>1. Approved \in Nat \ {0} /\ \A n \in 1..Approved : budgets[n] \in Budget
  BY DEF TypeInv, Approved
<1> QED
  BY <1>1, CostType DEF Total

(* One more term. *)
LEMMA SumOneMore ==
  ASSUME NEW n \in Nat, NEW f, NEW g, \A i \in 1..n : f[i] = g[i],
         \A i \in 1..(n + 1) : g[i] \in Nat
  PROVE  SumFunctionOnSet(g, 1..(n + 1)) = SumFunctionOnSet(f, 1..n) + g[n + 1]
<1>1. (1..(n + 1)) \ {n + 1} = 1..n
  OBVIOUS
<1>2. IsFiniteSet(1..(n + 1)) /\ IsFiniteSet(1..n) /\ n + 1 \in 1..(n + 1)
  BY FS_Interval
<1>3. SumFunctionOnSet(g, 1..(n + 1)) = g[n + 1] + SumFunctionOnSet(g, 1..n)
  BY <1>1, <1>2, SumWithout
<1>4. SumFunctionOnSet(g, 1..n) = SumFunctionOnSet(f, 1..n)
  BY <1>2, SumSame
<1>5. SumFunctionOnSet(g, 1..n) \in Nat /\ g[n + 1] \in Nat
  <2>1. \A i \in 1..n : g[i] \in Nat
    OBVIOUS
  <2> QED
    BY <1>2, <2>1, SumNat
<1> QED
  BY <1>3, <1>4, <1>5

LEMMA IncreaseType ==
  ASSUME TypeInv
  PROVE  /\ Increases \subseteq 2..Approved
         /\ \A n \in Increases : Increment(n) \in Nat \ {0}
<1>1. Increases \subseteq 2..Approved /\ \A n \in Increases : Total(n) > Total(n - 1)
  BY DEF Increases
<1>2. \A n \in Increases : Total(n) \in Nat /\ Total(n - 1) \in Nat
  <2>1. \A n \in 2..Approved : n \in 1..Approved /\ n - 1 \in 1..Approved
    BY TotalType
  <2> QED
    BY <1>1, <2>1, TotalType
<1> QED
  BY <1>1, <1>2 DEF Increment

LEMMA FundedType ==
  ASSUME TypeInv, RowsFunded
  PROVE  Funded \subseteq Increases
BY DEF RowsFunded, Funded

(* The terms of the three sums over the budgets and of the one over the
   requests. *)
LEMMA TermsType ==
  ASSUME TypeInv, RowsFunded
  PROVE  /\ \A n \in 1..Approved : Rise[n] \in Nat /\ Fall[n] \in Nat
         /\ \A n \in 1..Approved : FundedFor[n] \in Nat
         /\ \A r \in DOMAIN funding : Granted[r] \in Nat
<1>1. \A n \in 1..Approved : Rise[n] \in Nat
  BY IncreaseType DEF Rise
<1>2. ASSUME NEW n \in 1..Approved
      PROVE  Fall[n] \in Nat
  <2>1. n > 1 => n - 1 \in 1..Approved
    BY TotalType
  <2> QED
    BY <2>1, TotalType DEF Fall
<1>3. \A n \in 1..Approved : FundedFor[n] \in Nat
  BY FundedType, IncreaseType DEF FundedFor
<1>4. \A r \in DOMAIN funding : Granted[r] \in Nat
  BY IncreaseType DEF Granted, RowsFunded
<1> QED
  BY <1>1, <1>2, <1>3, <1>4

(* What is worked out from the budgets, the requests and the log only changes
   with them. *)
LEMMA SameBudgets ==
  ASSUME UNCHANGED budgets
  PROVE  /\ Approved' = Approved
         /\ \A n : Total(n)' = Total(n)
         /\ \A n : Increment(n)' = Increment(n)
         /\ Increases' = Increases
         /\ Rise' = Rise /\ Fall' = Fall
<1>1. Approved' = Approved /\ \A n : Total(n)' = Total(n)
  BY DEF Approved, Total
<1>2. \A n : Increment(n)' = Increment(n)
  BY <1>1 DEF Increment
<1>3. Increases' = Increases
  BY <1>1 DEF Increases
<1>4. Rise' = Rise
  BY <1>1, <1>2, <1>3 DEF Rise
<1>5. Fall' = Fall
  BY <1>1 DEF Fall
<1> QED
  BY <1>1, <1>2, <1>3, <1>4, <1>5

LEMMA SameRequests ==
  ASSUME UNCHANGED funding
  PROVE  Funded' = Funded /\ Granted' = Granted
BY DEF Funded, Granted

LEMMA InitMoney == Init => MoneyInv
<1> SUFFICES ASSUME Init PROVE MoneyInv
  OBVIOUS
<1>1. TypeInv /\ Approved = 1 /\ funding = <<>>
  BY InitType DEF Init, Approved
<1>2. RowsFunded /\ Granted = [r \in {} |-> 0]
  BY <1>1 DEF RowsFunded, Granted
<1>3. Funded = {} /\ Increases = {}
  BY <1>1 DEF Funded, Increases
<1>4. /\ Rise[1] = 0 /\ Fall[1] = 0 /\ FundedFor[1] = 0
      /\ DOMAIN Rise = {1} /\ DOMAIN Fall = {1} /\ DOMAIN FundedFor = {1}
  BY <1>1, <1>3 DEF Rise, Fall, FundedFor
<1>5. ASSUME NEW f, f[1] = 0
      PROVE  SumFunctionOnSet(f, {1}) = 0
  <2>1. IsFiniteSet({1}) /\ \A s \in {1} : f[s] \in Nat
    <3>1. \A s \in {1} : f[s] \in Nat
      BY <1>5
    <3> QED
      BY <3>1, FS_Singleton, Zenon
  <2>2. SumFunctionOnSet(f, {1}) = f[1] + SumFunctionOnSet(f, {1} \ {1})
    BY <2>1, SumWithout
  <2>3. {1} \ {1} = {}
    OBVIOUS
  <2> QED
    BY <1>5, <2>2, <2>3, SumOfNone
<1>6. SumFunction(Rise) = 0 /\ SumFunction(Fall) = 0 /\ SumFunction(FundedFor) = 0
  BY <1>4, <1>5 DEF SumFunction
<1>7. SumFunction(Granted) = 0
  BY <1>2, SumOfNone DEF SumFunction
<1>8. Total(1) \in Nat
  BY <1>1, TotalType
<1> QED
  BY <1>1, <1>2, <1>6, <1>7, <1>8 DEF MoneyInv, FundedSum, TotalSum

LEMMA SubmitMoney ==
  ASSUME MoneyInv, NEW u \in User, NEW n \in Pending, SubmitFunding(u, n)
  PROVE  RowsFunded' /\ FundedSum'
<1> DEFINE L == Len(funding)
           row == [budget |-> n, amount |-> Increment(n), submitter |-> u,
                   excluded |-> ExcludedReviewers(u), state |-> "submitted"]
<1>1. /\ TypeInv /\ funding \in Seq(FundingRow) /\ L \in Nat
      /\ funding' = Append(funding, row) /\ UNCHANGED budgets
  BY DEF MoneyInv, TypeInv, SubmitFunding, planning
<1>2. row.budget = n /\ row.amount = Increment(n) /\ row.state = "submitted"
  OBVIOUS
<1> HIDE DEF row
<1>3. /\ DOMAIN funding = 1..L /\ DOMAIN funding' = 1..(L + 1)
      /\ \A r \in 1..L : funding'[r] = funding[r]
      /\ funding'[L + 1] = row
  BY <1>1
<1>4. /\ Approved' = Approved /\ \A m : Increment(m)' = Increment(m)
      /\ Increases' = Increases
  BY <1>1, SameBudgets
<1>5. RowsFunded'
  <2>1. ASSUME NEW r \in 1..(L + 1)
        PROVE  /\ funding'[r].budget \in Increases
               /\ funding'[r].amount = Increment(funding'[r].budget)
    BY <1>2, <1>3, <2>1 DEF MoneyInv, RowsFunded, Pending
  <2>2. /\ \A r \in DOMAIN funding' : funding'[r].budget \in Increases'
        /\ \A r \in DOMAIN funding' :
              funding'[r].amount = Increment(funding'[r].budget)
    BY <1>3, <1>4, <2>1
  <2>3. \A b : Increment(b)' = Increment(b)
    BY <1>4
  <2>4. \A m \in Nat : \A k : k = m => (Increment(k)' = Increment(m))
    BY <2>3
  <2> QED
    BY <1>1, <2>2 DEF RowsFunded, Increment, Total
<1>6. Funded' = Funded
  BY <1>2, <1>3 DEF Funded
<1>7. FundedFor' = FundedFor
  BY <1>4, <1>6 DEF FundedFor
<1>8. SumFunction(Granted') = SumFunction(Granted)
  <2>1. /\ DOMAIN Granted = 1..L /\ DOMAIN Granted' = 1..(L + 1)
        /\ \A r \in 1..L : Granted[r] = Granted'[r]
        /\ Granted'[L + 1] = 0
    BY <1>1, <1>2, <1>3 DEF Granted
  <2>2. \A r \in 1..L : Granted[r] \in Nat
    BY <1>1, <1>3, TermsType DEF MoneyInv
  <2>3. \A r \in 1..(L + 1) : Granted'[r] \in Nat
    BY <1>1, <2>1, <2>2
  <2> DEFINE f == Granted
             g == Granted'
  <2>4. SumFunctionOnSet(f, 1..L) \in Nat
    <3>1. IsFiniteSet(1..L)
      BY <1>1, FS_Interval
    <3> HIDE DEF L
    <3> QED
      BY <2>2, <3>1, SumNat
  <2> HIDE DEF f, g
  <2>5. SumFunctionOnSet(g, 1..(L + 1)) = SumFunctionOnSet(f, 1..L) + g[L + 1]
    BY <1>1, <2>1, <2>3, SumOneMore DEF f, g
  <2> QED
    BY <2>1, <2>4, <2>5 DEF SumFunction, f, g
<1> QED
  BY <1>5, <1>7, <1>8 DEF MoneyInv, FundedSum

(* A review that does not approve moves no money. *)
LEMMA MoveMoney ==
  ASSUME MoneyInv, NEW r \in DOMAIN funding, NEW state, NEW rows,
         Move(r, state, rows), Open(r), state # "approved"
  PROVE  RowsFunded' /\ FundedSum'
<1>1. /\ TypeInv /\ funding \in Seq(FundingRow) /\ UNCHANGED budgets
      /\ funding' = [funding EXCEPT ![r].state = state]
  BY DEF MoneyInv, TypeInv, Move, planning
<1> DEFINE row == [funding[r] EXCEPT !.state = state]
<1>2. /\ row.budget = funding[r].budget /\ row.amount = funding[r].amount
      /\ row.state = state
  BY <1>1 DEF FundingRow
<1>3. funding' = [funding EXCEPT ![r] = row]
  BY <1>1
<1> HIDE DEF row
<1>4. /\ DOMAIN funding' = DOMAIN funding
      /\ \A q \in DOMAIN funding :
             /\ funding'[q].budget = funding[q].budget
             /\ funding'[q].amount = funding[q].amount
             /\ funding'[q].state = "approved" <=> funding[q].state = "approved"
  BY <1>2, <1>3 DEF Open
<1>5. /\ Approved' = Approved /\ \A m : Increment(m)' = Increment(m)
      /\ Increases' = Increases
  BY <1>1, SameBudgets
<1>6. Funded' = Funded
  BY <1>4 DEF Funded
<1>7. FundedFor' = FundedFor
  BY <1>5, <1>6 DEF FundedFor
<1>8. Granted' = Granted
  BY <1>4 DEF Granted
<1>9. RowsFunded'
  BY <1>1, <1>4, <1>5 DEF MoneyInv, RowsFunded, Increment, Total
<1> QED
  BY <1>7, <1>8, <1>9 DEF MoneyInv, FundedSum

(* One term that was zero is raised. *)
LEMMA SumRaised ==
  ASSUME NEW S, IsFiniteSet(S), NEW f, NEW g, NEW x \in S, NEW a \in Nat,
         \A s \in S : f[s] \in Nat, f[x] = 0, g[x] = a,
         \A s \in S \ {x} : f[s] = g[s]
  PROVE  SumFunctionOnSet(g, S) = SumFunctionOnSet(f, S) + a
<1>1. \A s \in S : f[s] \in Nat /\ g[s] \in Nat
  OBVIOUS
<1>2. SumFunctionOnSet(g, S) = SumFunctionOnSet(f, S) - f[x] + g[x]
  BY <1>1, SumChanged
<1>3. SumFunctionOnSet(f, S) \in Nat
  BY SumNat
<1> QED
  BY <1>2, <1>3

(* An approval funds one increase that was not funded, for what it added. *)
LEMMA ApproveMoney ==
  ASSUME MoneyInv, EachIncreaseFundedOnce, NEW u \in User,
         NEW r \in DOMAIN funding, ApproveFunding(u, r)
  PROVE  RowsFunded' /\ FundedSum'
<1>1. /\ TypeInv /\ funding \in Seq(FundingRow) /\ UNCHANGED budgets
      /\ funding' = [funding EXCEPT ![r].state = "approved"]
      /\ funding[r].state = "prevalidated"
  BY DEF MoneyInv, TypeInv, ApproveFunding, Move, planning, MayDecide, Advertised
<1> DEFINE row == [funding[r] EXCEPT !.state = "approved"]
<1>2. /\ row.budget = funding[r].budget /\ row.amount = funding[r].amount
      /\ row.state = "approved"
  BY <1>1 DEF FundingRow
<1>3. funding' = [funding EXCEPT ![r] = row]
  BY <1>1
<1> HIDE DEF row
<1>4. /\ DOMAIN funding' = DOMAIN funding
      /\ \A q \in DOMAIN funding :
             /\ funding'[q].budget = funding[q].budget
             /\ funding'[q].amount = funding[q].amount
             /\ q # r => funding'[q].state = funding[q].state
      /\ funding'[r].state = "approved"
  BY <1>2, <1>3
<1>5. /\ Approved' = Approved /\ \A m : Increment(m)' = Increment(m)
      /\ Increases' = Increases
  BY <1>1, SameBudgets
<1>6. PICK n : n = funding[r].budget
  OBVIOUS
<1>7. /\ n \in Increases /\ n \in 1..Approved /\ n \notin Funded
      /\ funding[r].amount = Increment(n)
      /\ Increment(n) \in Nat
  <2>1. n \in Increases /\ funding[r].amount = Increment(n)
    BY <1>6 DEF MoneyInv, RowsFunded
  <2>2. n \notin Funded
    <3>1. ASSUME NEW q \in DOMAIN funding, funding[q].state = "approved",
                 funding[q].budget = n
          PROVE  FALSE
      <4>1. q # r /\ Active(q) /\ Active(r)
        BY <1>1, <3>1 DEF Active
      <4> QED
        BY <1>6, <3>1, <4>1 DEF EachIncreaseFundedOnce
    <3> QED
      BY <3>1 DEF Funded
  <2> QED
    BY <1>1, <2>1, <2>2, IncreaseType
<1>8. Funded' = Funded \cup {n}
  <2>1. ASSUME NEW q \in DOMAIN funding, funding'[q].state = "approved"
        PROVE  funding'[q].budget \in Funded \cup {n}
    BY <1>4, <1>6, <2>1 DEF Funded
  <2>2. ASSUME NEW q \in DOMAIN funding, funding[q].state = "approved"
        PROVE  funding[q].budget \in Funded'
    BY <1>4, <2>2 DEF Funded
  <2>3. n \in Funded'
    BY <1>4, <1>6 DEF Funded
  <2>4. Funded' \subseteq Funded \cup {n}
    BY <1>4, <2>1 DEF Funded
  <2>5. Funded \subseteq Funded'
    BY <2>2 DEF Funded
  <2> QED
    BY <2>3, <2>4, <2>5
<1> DEFINE a == Increment(n)
<1>9. SumFunction(FundedFor') = SumFunction(FundedFor) + a
  <2> DEFINE f == FundedFor
             g == FundedFor'
             S == 1..Approved
  <2>1. /\ DOMAIN FundedFor = S /\ DOMAIN FundedFor' = S
        /\ f[n] = 0 /\ g[n] = a
        /\ \A m \in S \ {n} : f[m] = g[m]
    BY <1>5, <1>7, <1>8 DEF FundedFor
  <2>2. \A m \in S : f[m] \in Nat
    BY <1>1, TermsType DEF MoneyInv
  <2>4. IsFiniteSet(S) /\ n \in S
    <3>1. Approved \in Int
      BY <1>1, TotalType
    <3>2. IsFiniteSet(1..Approved)
      BY <3>1, FS_Interval
    <3> QED
      BY <1>7, <3>2
  <2> HIDE DEF f, g, S, a
  <2>5. a \in Nat
    BY <1>7 DEF a
  <2>6. SumFunctionOnSet(g, S) = SumFunctionOnSet(f, S) + a
    BY <2>1, <2>2, <2>4, <2>5, SumRaised
  <2> QED
    BY <2>1, <2>6 DEF SumFunction, f, g
<1>10. SumFunction(Granted') = SumFunction(Granted) + a
  <2> DEFINE f == Granted
             g == Granted'
             S == DOMAIN funding
  <2>1. /\ DOMAIN Granted = S /\ DOMAIN Granted' = S
        /\ f[r] = 0 /\ g[r] = a
        /\ \A q \in S \ {r} : f[q] = g[q]
    BY <1>1, <1>4, <1>7 DEF Granted
  <2>2. \A q \in S : f[q] \in Nat
    BY <1>1, TermsType DEF MoneyInv
  <2>4. IsFiniteSet(S) /\ r \in S
    <3>1. DOMAIN funding = 1..Len(funding) /\ Len(funding) \in Int
      BY <1>1
    <3>2. IsFiniteSet(1..Len(funding))
      BY <3>1, FS_Interval
    <3> QED
      BY <3>1, <3>2
  <2> HIDE DEF f, g, S, a
  <2>5. a \in Nat
    BY <1>7 DEF a
  <2>6. SumFunctionOnSet(g, S) = SumFunctionOnSet(f, S) + a
    BY <2>1, <2>2, <2>4, <2>5, SumRaised
  <2> QED
    BY <2>1, <2>6 DEF SumFunction, f, g
<1>11. RowsFunded'
  BY <1>1, <1>4, <1>5 DEF MoneyInv, RowsFunded, Increment, Total
<1> QED
  BY <1>9, <1>10, <1>11 DEF MoneyInv, FundedSum

(* An approved amendment adds one budget, and funds nothing. *)
LEMMA AmendMoney ==
  ASSUME MoneyInv, TypeInv', ApproveAmendment
  PROVE  RowsFunded' /\ FundedSum' /\ TotalSum'
<1>0. PICK N : N = Approved
  OBVIOUS
<1>1. /\ TypeInv /\ N \in Nat \ {0} /\ UNCHANGED funding
      /\ budgets' = Append(budgets, draft)
  BY <1>0, TotalType DEF MoneyInv, ApproveAmendment, requests
<1>2. /\ Approved' = N + 1
      /\ \A n \in 1..N : budgets'[n] = budgets[n]
  BY <1>0, <1>1 DEF Approved, TypeInv
<1>3. /\ \A n \in 1..N : Total(n)' = Total(n)
      /\ \A n \in 1..(N + 1) : Total(n)' \in Nat
      /\ \A n \in 1..N : Total(n) \in Nat
  <2>1. \A n \in 1..N : Total(n)' = Total(n)
    BY <1>2 DEF Total
  <2>2. \A n \in 1..(N + 1) : budgets'[n] \in Budget
    BY <1>2 DEF TypeInv, Approved
  <2>3. \A n \in 1..(N + 1) : Total(n)' \in Nat
    BY <2>2, CostType DEF Total
  <2> QED
    BY <1>0, <1>1, <2>1, <2>3, TotalType
<1>4. \A n \in 2..N : n \in 1..N /\ n - 1 \in 1..N
  BY <1>1
<1>5. \A n \in 2..N : Increment(n)' = Increment(n)
  BY <1>3, <1>4 DEF Increment
<1>6. \A n \in 1..N : n \in Increases' <=> n \in Increases
  BY <1>0, <1>1, <1>2, <1>3, <1>4 DEF Increases
<1>7. Funded' = Funded /\ Granted' = Granted
  BY <1>1, SameRequests
<1>8. /\ Increases \subseteq 2..N /\ Funded \subseteq Increases
      /\ \A r \in DOMAIN funding : funding[r].budget \in Increases
      /\ \A r \in DOMAIN funding : funding[r].amount = Increment(funding[r].budget)
  BY <1>0, <1>1, IncreaseType, FundedType DEF MoneyInv, RowsFunded
<1>9. RowsFunded'
  <2>1. ASSUME NEW r \in DOMAIN funding
        PROVE  /\ funding[r].budget \in Increases'
               /\ \A m : m = funding[r].budget => funding[r].amount = Increment(m)'
    <3>1. funding[r].budget \in 2..N
      BY <1>8
    <3> QED
      BY <1>4, <1>5, <1>6, <1>8, <3>1
  <2> QED
    BY <1>1, <2>1 DEF RowsFunded, Increment, Total
<1>10. /\ \A n \in 1..N : Rise[n] = Rise'[n]
       /\ \A n \in 1..N : Fall[n] = Fall'[n]
       /\ \A n \in 1..N : FundedFor[n] = FundedFor'[n]
       /\ DOMAIN Rise = 1..N /\ DOMAIN Rise' = 1..(N + 1)
       /\ DOMAIN Fall = 1..N /\ DOMAIN Fall' = 1..(N + 1)
       /\ DOMAIN FundedFor = 1..N /\ DOMAIN FundedFor' = 1..(N + 1)
  <2>1. \A n \in 1..N : Rise[n] = Rise'[n]
    BY <1>0, <1>1, <1>2, <1>5, <1>6, <1>8 DEF Rise
  <2>2. \A n \in 1..N : Fall[n] = Fall'[n]
    <3>1. \A n \in 1..N : n > 1 => n \in 2..N
      BY <1>1
    <3> QED
      BY <1>0, <1>1, <1>2, <1>3, <1>4, <3>1 DEF Fall
  <2>3. \A n \in 1..N : FundedFor[n] = FundedFor'[n]
    BY <1>0, <1>1, <1>2, <1>5, <1>7, <1>8 DEF FundedFor
  <2> QED
    BY <1>0, <1>2, <2>1, <2>2, <2>3 DEF Rise, Fall, FundedFor
<1>11. /\ \A n \in 1..(N + 1) : Rise'[n] \in Nat
       /\ \A n \in 1..(N + 1) : Fall'[n] \in Nat
       /\ \A n \in 1..(N + 1) : FundedFor'[n] \in Nat
       /\ FundedFor'[N + 1] = 0
       /\ Total(N + 1)' = Total(N) + Rise'[N + 1] - Fall'[N + 1]
       /\ Rise'[N + 1] \in Nat /\ Fall'[N + 1] \in Nat
  <2>1. /\ \A n \in 1..N : Rise'[n] \in Nat /\ Fall'[n] \in Nat
        /\ \A n \in 1..N : FundedFor'[n] \in Nat
    BY <1>0, <1>1, <1>10, TermsType DEF MoneyInv
  <2>2. N + 1 \notin Funded' /\ N + 1 \in 1..(N + 1) /\ N \in 1..(N + 1)
    BY <1>1, <1>7, <1>8
  <2>3. FundedFor'[N + 1] = 0
    BY <1>2, <2>2 DEF FundedFor
  <2> DEFINE t == Total(N)
  <2>4. PICK s : s = Total(N + 1)'
    OBVIOUS
  <2>5. s \in Nat /\ t \in Nat /\ Total(N)' = t
    BY <1>1, <1>3, <2>2, <2>4
  <2>6. /\ Rise'[N + 1] = IF s > t THEN s - t ELSE 0
        /\ Fall'[N + 1] = IF s < t THEN t - s ELSE 0
    <3>1. (N + 1) - 1 = N /\ N + 1 \in 2..(N + 1) /\ N + 1 > 1
      BY <1>1
    <3>2. Increment(N + 1)' = s - t
      BY <2>4, <2>5, <3>1 DEF Increment
    <3>3. N + 1 \in Increases' <=> s > t
      BY <1>2, <2>4, <2>5, <3>1 DEF Increases
    <3>4. Rise'[N + 1] = IF s > t THEN s - t ELSE 0
      BY <1>2, <2>2, <3>2, <3>3 DEF Rise
    <3>5. Fall'[N + 1] = IF s < t THEN t - s ELSE 0
      BY <1>2, <2>2, <2>4, <2>5, <3>1 DEF Fall
    <3> QED
      BY <3>4, <3>5
  <2>7. /\ Rise'[N + 1] \in Nat /\ Fall'[N + 1] \in Nat
        /\ s = t + Rise'[N + 1] - Fall'[N + 1]
    BY <2>5, <2>6
  <2>8. \A n \in 1..(N + 1) : n \in 1..N \/ n = N + 1
    BY <1>1
  <2> QED
    BY <2>1, <2>3, <2>4, <2>7, <2>8
<1> DEFINE T(f) == SumFunctionOnSet(f, 1..N)
           U(f) == SumFunctionOnSet(f, 1..(N + 1))
<1>12. ASSUME NEW f, NEW g, \A i \in 1..N : f[i] = g[i],
              \A i \in 1..(N + 1) : g[i] \in Nat
       PROVE  U(g) = T(f) + g[N + 1] /\ T(f) \in Nat
  <2>1. U(g) = T(f) + g[N + 1]
    BY <1>1, <1>12, SumOneMore
  <2>2. \A i \in 1..N : f[i] \in Nat
    BY <1>1, <1>12
  <2>3. T(f) \in Nat
    <3>1. IsFiniteSet(1..N)
      BY <1>1, FS_Interval
    <3> QED
      BY <2>2, <3>1, SumNat
  <2> QED
    BY <2>1, <2>3
<1>13. /\ SumFunction(Rise) = T(Rise) /\ SumFunction(Rise') = U(Rise')
       /\ SumFunction(Fall) = T(Fall) /\ SumFunction(Fall') = U(Fall')
       /\ SumFunction(FundedFor) = T(FundedFor)
       /\ SumFunction(FundedFor') = U(FundedFor')
  BY <1>10 DEF SumFunction
<1> HIDE DEF T, U
<1>14. /\ U(Rise') = T(Rise) + Rise'[N + 1] /\ T(Rise) \in Nat
       /\ U(Fall') = T(Fall) + Fall'[N + 1] /\ T(Fall) \in Nat
       /\ U(FundedFor') = T(FundedFor) + FundedFor'[N + 1]
       /\ T(FundedFor) \in Nat
  <2>1. U(Rise') = T(Rise) + Rise'[N + 1] /\ T(Rise) \in Nat
    BY <1>10, <1>11, <1>12
  <2>2. U(Fall') = T(Fall) + Fall'[N + 1] /\ T(Fall) \in Nat
    BY <1>10, <1>11, <1>12
  <2>3. U(FundedFor') = T(FundedFor) + FundedFor'[N + 1] /\ T(FundedFor) \in Nat
    BY <1>10, <1>11, <1>12
  <2> QED
    BY <2>1, <2>2, <2>3
<1>15. FundedSum'
  <2>1. SumFunction(FundedFor') = SumFunction(FundedFor)
    BY <1>11, <1>13, <1>14
  <2> QED
    BY <1>7, <2>1 DEF MoneyInv, FundedSum
<1>16. TotalSum'
  <2>1. Total(N) = Total(1) + SumFunction(Rise) - SumFunction(Fall)
    BY <1>0 DEF MoneyInv, TotalSum
  <2>2. Total(1)' = Total(1) /\ Total(1) \in Nat /\ Total(N) \in Nat
    BY <1>1, <1>3
  <2>3. Total(N + 1)' = Total(1) + SumFunction(Rise') - SumFunction(Fall')
    BY <1>11, <1>13, <1>14, <2>1, <2>2
  <2>4. Total(Approved)' = Total(N + 1)'
    BY <1>2 DEF Total
  <2> QED
    BY <2>2, <2>3, <2>4 DEF TotalSum
<1> QED
  BY <1>9, <1>15, <1>16

LEMMA StepMoney ==
  ASSUME MoneyInv, EachIncreaseFundedOnce, [Next]_vars
  PROVE  MoneyInv'
<1>1. TypeInv /\ TypeInv'
  BY StepType DEF MoneyInv
<1>2. ASSUME UNCHANGED budgets
      PROVE  TotalSum'
  BY <1>2, SameBudgets DEF MoneyInv, TotalSum, Total
<1>3. ASSUME UNCHANGED budgets, UNCHANGED funding
      PROVE  MoneyInv'
  <2>1. FundedFor' = FundedFor /\ Granted' = Granted
    BY <1>3, SameBudgets, SameRequests DEF FundedFor
  <2>2. RowsFunded'
    BY <1>3, SameBudgets DEF MoneyInv, RowsFunded, Increment, Total
  <2> QED
    BY <1>1, <1>2, <1>3, <2>1, <2>2 DEF MoneyInv, FundedSum
<1>4. ASSUME NEW u \in User, NEW n \in Pending, SubmitFunding(u, n)
      PROVE  MoneyInv'
  BY <1>1, <1>2, <1>4, SubmitMoney DEF MoneyInv, SubmitFunding, planning
<1>5. ASSUME NEW u \in User, NEW r \in DOMAIN funding, Reviewed(u, r)
      PROVE  MoneyInv'
  <2>1. Open(r) /\ UNCHANGED budgets
    BY <1>5 DEF Reviewed, PrevalidateFunding, ApproveFunding, ReturnFunding,
       CancelFunding, MayCancelFunding, MayDecide, Advertised, Open, Move,
       planning
  <2>2. CASE ApproveFunding(u, r)
    BY <1>1, <1>2, <2>1, <2>2, ApproveMoney DEF MoneyInv
  <2>3. CASE ~ApproveFunding(u, r)
    <3>1. PICK state, rows : /\ state \in {"prevalidated", "returned", "cancelled"}
                             /\ Move(r, state, rows)
      BY <1>5, <2>3 DEF Reviewed, PrevalidateFunding, ReturnFunding,
         CancelFunding
    <3> QED
      BY <1>1, <1>2, <2>1, <3>1, MoveMoney DEF MoneyInv
  <2> QED
    BY <2>2, <2>3
<1>6. ASSUME ApproveAmendment
      PROVE  MoneyInv'
  BY <1>1, <1>6, AmendMoney DEF MoneyInv
<1>7. ASSUME NEW u, NEW o, NEW type, NEW new, Execute(u, type, o, new)
      PROVE  UNCHANGED <<budgets, funding>>
  BY <1>7 DEF Execute, requests, planning
<1>8. ASSUME NEW u, NEW o,
             StartOperation(u, o) \/ \E new \in Facts : RecordExecution(u, o, new)
      PROVE  MoneyInv'
  BY <1>3, <1>7, <1>8 DEF StartOperation, RecordExecution
<1>9. ASSUME NEW u, OpenAmendment(u) \/ CancelAmendment(u)
                    \/ \E b \in Budget : EditAmendment(u, b)
      PROVE  MoneyInv'
  BY <1>3, <1>9 DEF OpenAmendment, CancelAmendment, EditAmendment, requests
<1> QED
  BY <1>3, <1>4, <1>5, <1>6, <1>8, <1>9, StepCases

LEMMA MoneyAlwaysRight == Spec => []MoneyInv
<1>1. Init => MoneyInv
  BY InitMoney
<1>2. MoneyInv /\ EachIncreaseFundedOnce /\ [Next]_vars => MoneyInv'
  BY StepMoney
<1> QED
  BY <1>1, <1>2, IncreasesFundedOnce, PTL DEF Spec

-----------------------------------------------------------------------------
(* What a payment starts from.  While it freezes the Activity nothing that was
   true of the budget, the log or the requests can change. *)

PeopleInv ==
    /\ role \in [User -> Role] /\ roleChanges \in Nat
    /\ finance \in {"none", "pending", "approved"}

Settled ==
    /\ Steady
    /\ Pending = {}
    /\ ~\E i \in 1..Len(log) : ShortAt(i)
    /\ ~\E r \in DOMAIN funding : Open(r)
    /\ Spending(facts) <= Total(Approved)

FrozenInv == PeopleInv /\ (Frozen => Settled)

LEMMA SameLog ==
  ASSUME UNCHANGED <<budgets, log, funding>>
  PROVE  /\ \A i : ShortAt(i)' <=> ShortAt(i)
         /\ Pending' = Pending
<1>1. /\ \A n : Total(n)' = Total(n)
      /\ Increases' = Increases /\ Funded' = Funded
  BY SameBudgets, SameRequests
<1>2. ASSUME NEW i
      PROVE  BudgetBy(i)' = BudgetBy(i) /\ \A o : FactsBy(i, o)' = FactsBy(i, o)
  BY DEF BudgetBy, FactsBy
<1>3. ASSUME NEW i
      PROVE  ShortAt(i)' <=> ShortAt(i)
  <2> DEFINE known == [o \in Operation |-> FactsBy(i, o)]
  <2>1. known' = known
    BY <1>2
  <2>2. PICK b : b = BudgetBy(i) /\ b = BudgetBy(i)'
    BY <1>2
  <2>3. Spending(known)' = Spending(known)
    BY <2>1 DEF Spending
  <2>4. PICK s : s = Spending(known) /\ s = Spending(known)'
    BY <2>3
  <2>5. Covered(b, s)' <=> Covered(b, s)
    BY <1>1 DEF Covered, Total
  <2>6. Total(b)' = Total(b)
    BY <1>1
  <2>7. ShortAt(i) <=> s > Total(b) /\ ~Covered(b, s)
    BY <2>2, <2>4 DEF ShortAt
  <2> HIDE DEF known
  <2>8. ShortAt(i)' <=> s > Total(b)' /\ ~Covered(b, s)'
    BY <2>2, <2>4 DEF ShortAt, known, Total, Covered
  <2> QED
    BY <2>5, <2>6, <2>7, <2>8
<1> QED
  BY <1>1, <1>3 DEF Pending

LEMMA SettledKept ==
  ASSUME Settled, UNCHANGED <<planning, facts, log, requests>>
  PROVE  Settled'
<1>1. UNCHANGED <<budgets, draft, facts, log, funding>>
  BY DEF planning, requests
<1>2. Pending' = Pending /\ \A i : ShortAt(i)' <=> ShortAt(i)
  BY <1>1, SameLog
<1>3. Spending(facts)' = Spending(facts)
  BY <1>1 DEF Spending
<1>4. Total(Approved)' = Total(Approved)
  BY <1>1 DEF Approved, Total
<1>5. \A r \in DOMAIN funding : Open(r)' <=> Open(r)
  BY <1>1 DEF Open
<1>6. Spending(facts)' <= Total(Approved)'
  BY <1>3, <1>4 DEF Settled
<1>7. Steady' /\ Pending' = {}
  BY <1>1, <1>2 DEF Settled, Steady
<1>8. /\ ~\E i \in 1..Len(log') : ShortAt(i)'
      /\ ~\E r \in DOMAIN funding' : Open(r)'
  BY <1>1, <1>2, <1>5 DEF Settled
<1> QED
  BY <1>6, <1>7, <1>8 DEF Settled

LEMMA PaymentSettled ==
  ASSUME LogInv, MoneyInv, EachIncreaseFundedOnce, NEW u, RequestPayment(u)
  PROVE  Settled
<1>1. Steady /\ Pending = {} /\ ~Shortfall /\ Spending(facts) <= Total(Approved)
  BY DEF RequestPayment, FundingRequired
<1>2. ~\E i \in 1..Len(log) : ShortAt(i)
  BY <1>1, ScannedIs
<1>3. ASSUME NEW r \in DOMAIN funding, Open(r)
      PROVE  FALSE
  <2>1. funding[r].budget \in Funded
    BY <1>1 DEF MoneyInv, RowsFunded, Pending
  <2>2. PICK q \in DOMAIN funding : /\ funding[q].state = "approved"
                                   /\ funding[q].budget = funding[r].budget
    BY <2>1 DEF Funded
  <2>3. q # r /\ Active(q) /\ Active(r)
    BY <1>3, <2>2 DEF Active, Open
  <2> QED
    BY <2>2, <2>3 DEF EachIncreaseFundedOnce
<1> QED
  BY <1>1, <1>2, <1>3 DEF Settled

LEMMA StepFrozen ==
  ASSUME LogInv, MoneyInv, EachIncreaseFundedOnce, FrozenInv, [Next]_vars
  PROVE  FrozenInv'
<1>1. ASSUME NEW u \in User, RequestPayment(u)
      PROVE  FrozenInv'
  <2>1. Settled'
    BY <1>1, PaymentSettled, SettledKept DEF RequestPayment
  <2> QED
    BY <1>1, <2>1 DEF FrozenInv, PeopleInv, RequestPayment, people
<1>2. ASSUME NEW outcome \in {"none", "approved"}, EndPayment(outcome)
      PROVE  FrozenInv'
  <2>1. Settled'
    BY <1>2, SettledKept DEF EndPayment, FrozenInv, Frozen
  <2> QED
    BY <1>2, <2>1 DEF FrozenInv, PeopleInv, EndPayment, people
<1>3. ASSUME NEW u \in User, NEW r \in Role, ChangeRole(u, r)
      PROVE  FrozenInv'
  <2>1. Frozen' => Settled'
    BY <1>3, SettledKept DEF ChangeRole, FrozenInv, Frozen
  <2>2. PeopleInv'
    BY <1>3 DEF ChangeRole, FrozenInv, PeopleInv
  <2> QED
    BY <2>1, <2>2 DEF FrozenInv
<1>4. ASSUME UNCHANGED vars
      PROVE  FrozenInv'
  <2>1. Frozen' => Settled'
    BY <1>4, SettledKept DEF vars, FrozenInv, Frozen
  <2> QED
    BY <1>4, <2>1 DEF FrozenInv, PeopleInv, vars, people
  (* Every other step needs an Activity that is not frozen, or something open
     that a settled Activity does not have. *)
<1>5. ASSUME ~Frozen, UNCHANGED <<people, finance>>
      PROVE  FrozenInv'
  BY <1>5 DEF FrozenInv, PeopleInv, people, Frozen
<1>6. ASSUME NEW u \in User, NEW o \in Operation, StartOperation(u, o)
      PROVE  FrozenInv'
  BY <1>5, <1>6 DEF StartOperation, MayExecute, Execute
<1>7. ASSUME NEW u \in User, NEW o \in Operation, NEW new \in Facts,
             RecordExecution(u, o, new)
      PROVE  FrozenInv'
  BY <1>5, <1>7 DEF RecordExecution, MayExecute, Execute
<1>8. ASSUME NEW u \in User, OpenAmendment(u)
      PROVE  FrozenInv'
  BY <1>5, <1>8 DEF OpenAmendment
<1>9. ASSUME NEW u \in User, CancelAmendment(u) \/ \E b \in Budget : EditAmendment(u, b)
      PROVE  FrozenInv'
  BY <1>5, <1>9 DEF CancelAmendment, EditAmendment, FrozenInv, Settled
<1>10. ASSUME ApproveAmendment
       PROVE  FrozenInv'
  BY <1>5, <1>10 DEF ApproveAmendment, FrozenInv, Settled, Steady
<1>11. ASSUME NEW u \in User, NEW n \in Pending, SubmitFunding(u, n)
       PROVE  FrozenInv'
  BY <1>5, <1>11 DEF SubmitFunding, MaySubmitFunding
<1>12. ASSUME NEW u \in User, NEW r \in DOMAIN funding, Reviewed(u, r)
       PROVE  FrozenInv'
  <2>1. CASE CancelFunding(u, r)
    BY <1>5, <2>1 DEF CancelFunding, MayCancelFunding, Move, FrozenInv, Settled
  <2>2. CASE ~CancelFunding(u, r)
    BY <1>5, <1>12, <2>2 DEF Reviewed, PrevalidateFunding, ApproveFunding,
       ReturnFunding, MayDecide, Move
  <2> QED
    BY <2>1, <2>2
<1> QED
  BY <1>1, <1>2, <1>3, <1>4, <1>6, <1>7, <1>8, <1>9, <1>10, <1>11, <1>12
     DEF Next, Reviewed

LEMMA FrozenAlwaysSettled == Spec => []FrozenInv
<1>1. Init => FrozenInv
  BY RolesAssumption DEF Init, FrozenInv, PeopleInv, Frozen
<1>2. /\ LogInv /\ MoneyInv /\ EachIncreaseFundedOnce /\ FrozenInv /\ [Next]_vars
      => FrozenInv'
  BY StepFrozen
<1> QED
  BY <1>1, <1>2, LogAlwaysSound, MoneyAlwaysRight, IncreasesFundedOnce, PTL
     DEF Spec

(* The rows have their types and satisfy the CHECKs of their tables; and a
   payment starts, and goes on, with everything funded, nothing short and the
   sums adding up. *)
THEOREM BudgetAlwaysSound == Spec => []BudgetIsSound
<1>1. ASSUME LogInv, MoneyInv, FrozenInv
      PROVE  BudgetIsSound
  <2>1. TypeOK
    <3>1. ASSUME NEW r \in DOMAIN funding
          PROVE  funding[r] \in Request
      <4>1. funding[r] \in FundingRow
        BY <1>1 DEF MoneyInv, TypeInv
      <4>2. funding[r].amount \in Nat \ {0}
        BY <1>1, IncreaseType DEF MoneyInv, RowsFunded
      <4> QED
        BY <4>1, <4>2 DEF FundingRow, Request
    <3>2. funding \in Seq(Request)
      <4>1. /\ DOMAIN funding = 1..Len(funding) /\ Len(funding) \in Nat
            /\ funding = [r \in 1..Len(funding) |-> funding[r]]
        BY <1>1 DEF MoneyInv, TypeInv
      <4>2. funding \in [1..Len(funding) -> Request]
        BY <3>1, <4>1
      <4> QED
        BY <4>1, <4>2
    <3> QED
      BY <1>1, <3>2 DEF TypeOK, LogInv, TypeInv, FrozenInv, PeopleInv, RowSound
  <2>2. FundedBeforePayment
    BY <1>1, PastOf DEF FundedBeforePayment, FrozenInv, Settled
  <2>3. FundingAddsUp
    <3> SUFFICES ASSUME Frozen
                 PROVE  Total(Approved) = Total(1) + FundedAmounts - GivenUp
      BY DEF FundingAddsUp
    <3>1. Funded = Increases
      <4>1. Pending = {}
        BY <1>1 DEF FrozenInv, Settled
      <4> QED
        BY <1>1, <4>1, FundedType DEF Pending, MoneyInv
    <3>2. FundedFor = Rise
      BY <3>1 DEF FundedFor, Rise
    <3>3. FundedAmounts = SumFunction(Rise)
      BY <1>1, <3>2 DEF MoneyInv, FundedSum, FundedAmounts, Granted
    <3>4. GivenUp = SumFunction(Fall)
      BY DEF GivenUp, Fall
    <3> QED
      BY <1>1, <3>3, <3>4 DEF MoneyInv, TotalSum
  <2> QED
    BY <2>1, <2>2, <2>3 DEF BudgetIsSound
<1> QED
  BY <1>1, LogAlwaysSound, MoneyAlwaysRight, FrozenAlwaysSettled, PTL

-----------------------------------------------------------------------------
(* The pause.  What is owed is found in what only grows: the approved budgets,
   the log, and the requests, whose rows change in their state alone. *)

Grows ==
    /\ Approved <= Approved'
    /\ \A n \in 1..Approved : budgets'[n] = budgets[n]
    /\ Len(log) <= Len(log')
    /\ \A i \in 1..Len(log) : log'[i] = log[i]
    /\ \A r \in DOMAIN funding' :
           \/ r \in DOMAIN funding /\ funding'[r].budget = funding[r].budget
           \/ funding'[r].state = "submitted"

LEMMA StepGrows ==
  ASSUME TypeInv, [Next]_vars
  PROVE  Grows
<1>1. Approved \in Nat /\ Len(log) \in Nat
  BY DEF TypeInv, Approved
<1>2. ASSUME UNCHANGED <<budgets, log, funding>>
      PROVE  Grows
  BY <1>1, <1>2 DEF Grows, Approved
<1>3. ASSUME NEW u, NEW o \in Operations, NEW type \in {"started", "recorded"},
             NEW new \in Facts, Execute(u, type, o, new)
      PROVE  Grows
  <2>1. UNCHANGED <<budgets, funding>>
    BY <1>3 DEF Execute, planning, requests
  <2>2. PICK e : log' = log \o <<e>>
    BY <1>3 DEF Execute, Events
  <2>3. Len(log') = Len(log) + 1 /\ \A i \in 1..Len(log) : log'[i] = log[i]
    BY <2>2 DEF TypeInv
  <2> QED
    BY <1>1, <2>1, <2>3 DEF Grows, Approved
<1>4. ASSUME ApproveAmendment
      PROVE  Grows
  <2>1. UNCHANGED funding /\ budgets' = Append(budgets, draft)
    BY <1>4 DEF ApproveAmendment, requests
  <2>2. PICK e : log' = log \o <<e>>
    BY <1>4 DEF ApproveAmendment, Events
  <2>3. Len(log') = Len(log) + 1 /\ \A i \in 1..Len(log) : log'[i] = log[i]
    BY <2>2 DEF TypeInv
  <2>4. Approved' = Approved + 1 /\ \A n \in 1..Approved : budgets'[n] = budgets[n]
    BY <2>1 DEF TypeInv, Approved
  <2>5. Approved <= Approved' /\ Len(log) <= Len(log')
    BY <1>1, <2>3, <2>4
  <2>6. \A r \in DOMAIN funding' :
            r \in DOMAIN funding /\ funding'[r].budget = funding[r].budget
    BY <2>1
  <2> QED
    BY <2>3, <2>4, <2>5, <2>6 DEF Grows
<1>5. ASSUME NEW u \in User, NEW n \in Pending, SubmitFunding(u, n)
      PROVE  Grows
  <2>1. UNCHANGED <<budgets, log>>
    BY <1>5 DEF SubmitFunding, planning
  <2> DEFINE row == [budget |-> n, amount |-> Increment(n), submitter |-> u,
                     excluded |-> ExcludedReviewers(u), state |-> "submitted"]
  <2>0. funding' = Append(funding, row) /\ row.state = "submitted"
    BY <1>5 DEF SubmitFunding
  <2> HIDE DEF row
  <2>2. \A r \in DOMAIN funding' :
           \/ r \in DOMAIN funding /\ funding'[r] = funding[r]
           \/ funding'[r].state = "submitted"
    BY <2>0 DEF TypeInv
  <2>3. \A r \in DOMAIN funding' :
           \/ r \in DOMAIN funding /\ funding'[r].budget = funding[r].budget
           \/ funding'[r].state = "submitted"
    BY <2>2
  <2> QED
    BY <1>1, <2>1, <2>3 DEF Grows, Approved
<1>6. ASSUME NEW u \in User, NEW r \in DOMAIN funding, Reviewed(u, r)
      PROVE  Grows
  <2>1. UNCHANGED <<budgets, log>>
    BY <1>6 DEF Reviewed, PrevalidateFunding, ApproveFunding, ReturnFunding,
       CancelFunding, Move, planning
  <2> QED
    BY <1>1, <1>6, <2>1, ReviewMoves DEF Grows, Approved
<1>7. ASSUME NEW u, NEW o \in Operation,
             StartOperation(u, o) \/ \E new \in Facts : RecordExecution(u, o, new)
      PROVE  Grows
  <2>1. CASE StartOperation(u, o)
    <3>1. [facts[o] EXCEPT !.started = TRUE] \in Facts
      BY DEF TypeInv, Facts
    <3> QED
      BY <1>3, <2>1, <3>1 DEF StartOperation, MayExecute
  <2>2. ASSUME NEW new \in Facts, RecordExecution(u, o, new)
        PROVE  Grows
    BY <1>3, <2>2 DEF RecordExecution, MayExecute
  <2> QED
    BY <1>7, <2>1, <2>2
<1>8. ASSUME NEW u, OpenAmendment(u) \/ CancelAmendment(u)
                    \/ \E b \in Budget : EditAmendment(u, b)
      PROVE  Grows
  BY <1>2, <1>8 DEF OpenAmendment, CancelAmendment, EditAmendment, requests
<1> QED
  BY <1>2, <1>4, <1>5, <1>6, <1>7, <1>8, StepCases

(* What was short stays short when nothing more is funded. *)
LEMMA ShortStays ==
  ASSUME LogInv, TypeInv, RowsFunded, TypeInv', RowsFunded', Grows,
         Funded' \subseteq Funded, NEW i \in 1..Len(log), ShortAt(i)
  PROVE  ShortAt(i)'
<1>1. BudgetBy(i)' = BudgetBy(i) /\ \A o : FactsBy(i, o)' = FactsBy(i, o)
  <2>1. \A j \in 1..i : log'[j] = log[j]
    BY PastOf DEF Grows
  <2>2. 1 \in 1..i /\ i \in Nat /\ log[1].type = "approved"
    BY PastOf
  <2> QED
    BY <2>1, <2>2, PastKept
<1> DEFINE known == [o \in Operation |-> FactsBy(i, o)]
<1>2. known' = known
  BY <1>1
<1>3. PICK b : b = BudgetBy(i) /\ b = BudgetBy(i)'
  BY <1>1
<1>4. PICK s : s = Spending(known) /\ s = Spending(known)'
  <2>1. Spending(known)' = Spending(known)
    BY <1>2 DEF Spending
  <2> QED
    BY <2>1
<1>5. \A n \in 1..Approved : Total(n)' = Total(n)
  BY DEF Grows, Total
<1>6. b \in 1..Approved
  BY <1>3, BudgetByType
<1>7. s > Total(b) /\ ~Covered(b, s)
  BY <1>3, <1>4 DEF ShortAt
<1>8. ASSUME NEW m \in Increases' \cap Funded', m > b, Total(m)' >= s
      PROVE  FALSE
  <2>1. m \in Increases \cap Funded /\ m \in 1..Approved
    BY FundedType, IncreaseType
  <2>2. Total(m) >= s
    BY <1>5, <1>8, <2>1
  <2> QED
    BY <1>7, <1>8, <2>1, <2>2 DEF Covered
<1>9. ~Covered(b, s)'
  BY <1>8 DEF Covered, Total
<1>10. s > Total(b)'
  BY <1>5, <1>6, <1>7
<1> HIDE DEF known
<1> QED
  BY <1>3, <1>4, <1>9, <1>10 DEF ShortAt, known, Total, Covered

LEMMA ShortfallIs == LogInv => (Shortfall <=> \E i \in 1..Len(log) : ShortAt(i))
BY ScannedIs

LEMMA ShortfallNext ==
  (LogInv => (Shortfall <=> \E i \in 1..Len(log) : ShortAt(i)))'
BY ShortfallIs, PTL

LEMMA PauseStays ==
  ASSUME LogInv, MoneyInv, LogInv', MoneyInv', [Next]_vars, FundingRequired,
         ~\E r \in DOMAIN funding :
              funding[r].state # "approved" /\ funding'[r].state = "approved"
  PROVE  FundingRequired'
<1>1. /\ TypeInv /\ RowsFunded /\ TypeInv' /\ RowsFunded' /\ Grows
  BY StepGrows DEF MoneyInv
<1>2. Funded' \subseteq Funded
  <2>1. ASSUME NEW r \in DOMAIN funding', funding'[r].state = "approved"
        PROVE  funding'[r].budget \in Funded
    <3>1. r \in DOMAIN funding /\ funding'[r].budget = funding[r].budget
      BY <1>1, <2>1 DEF Grows
    <3>2. funding[r].state = "approved"
      BY <2>1, <3>1
    <3> QED
      BY <3>1, <3>2 DEF Funded
  <2> QED
    BY <2>1 DEF Funded
<1>3. CASE Pending # {}
  <2>1. PICK n \in Increases : n \notin Funded
    BY <1>3 DEF Pending
  <2>2. n \in 2..Approved /\ n - 1 \in 1..Approved /\ n \in 1..Approved
    BY <1>1, <2>1, IncreaseType, TotalType
  <2>3. Total(n)' = Total(n)
    BY <1>1, <2>2 DEF Grows, Total
  <2>4. budgets'[n - 1] = budgets[n - 1] /\ budgets'[n] = budgets[n]
    BY <1>1, <2>2 DEF Grows
  <2>5. Total(n) > Total(n - 1)
    BY <2>1 DEF Increases
  <2>6. n \in 2..Approved'
    BY <1>1, <2>2, TotalType DEF Grows, TypeInv, Approved
  <2>7. n \in Increases'
    BY <2>4, <2>5, <2>6 DEF Increases, Total
  <2>8. Pending' # {}
    BY <1>2, <2>1, <2>7 DEF Pending
  <2> QED
    BY <2>8 DEF FundingRequired
<1>4. CASE Shortfall
  <2>1. PICK i \in 1..Len(log) : ShortAt(i)
    BY <1>4, ShortfallIs
  <2>2. ShortAt(i)'
    BY <1>1, <1>2, <2>1, ShortStays
  <2>3. i \in 1..Len(log')
    BY <1>1, PastOf DEF Grows, TypeInv
  <2>4. Shortfall'
    BY <2>2, <2>3, ShortfallNext
  <2> QED
    BY <2>4 DEF FundingRequired
<1> QED
  BY <1>3, <1>4 DEF FundingRequired

(* Only an approval of a funding request ends the pause. *)
THEOREM PauseAlwaysFunded == Spec => PauseLiftedByFunding
<1>1. /\ LogInv /\ MoneyInv /\ LogInv' /\ MoneyInv' /\ [Next]_vars
      => [FundingRequired /\ ~FundingRequired' =>
              \E r \in DOMAIN funding :
                  funding[r].state # "approved" /\ funding'[r].state = "approved"]_vars
  BY PauseStays
<1> QED
  BY <1>1, LogAlwaysSound, MoneyAlwaysRight, PTL DEF Spec, PauseLiftedByFunding
=============================================================================
