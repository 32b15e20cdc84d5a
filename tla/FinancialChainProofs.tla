------------------------- MODULE FinancialChainProofs -------------------------
(***************************************************************************)
(* Theorems about FinancialChain for every set of accounts, Operations and *)
(* amounts and for every bound.                                            *)
(***************************************************************************)
EXTENDS FinancialChain, DataTheorems, FiniteSetTheorems, TLAPS

-----------------------------------------------------------------------------
(* Types, as far as the invariants of the requests need them; amounts have
   theirs from sums, further below. *)

Request == Payment \cup Virement

TypeInv ==
    /\ revision \in Nat /\ allocation \in Amount
    /\ paused \in BOOLEAN /\ closed \in BOOLEAN
    /\ contributors \subseteq User /\ authors \subseteq User
    /\ work \in Work
    /\ requests \in Seq(Request)
    /\ decisions \subseteq Decision
    /\ \A d \in decisions : d.request \in DOMAIN requests

(* The steps of Next, sorted by what they write. *)
PlanStep ==
    \/ \E u \in User : \E o \in Operation : \E a \in Amount \cup {Unfinished} :
           Execute(u, o, a)
    \/ \E u \in User : Pause(u) \/ Contribute(u)
    \/ \E a \in Amount \ {0} : ApproveRevision(a)
    \/ Resume

Submitted(u) ==
    \/ SubmitDisbursement(u)
    \/ SubmitZeroSpending(u)
    \/ \E s \in DOMAIN requests : SubmitVirement(u, s)

Reviewed(u, r) ==
    \/ Prevalidate(u, r)
    \/ ApproveRequest(u, r)
    \/ Return(u, r)
    \/ Cancel(u, r)

Quiet == UNCHANGED <<planning, execution, reviews, closed>>

LEMMA StepCases ==
  ASSUME [Next]_vars
  PROVE  \/ PlanStep
         \/ \E u \in User : Submitted(u)
         \/ \E u \in User : \E r \in DOMAIN requests : Reviewed(u, r)
         \/ \E u \in User : CloseActivity(u)
         \/ Quiet
<1>1. ASSUME NEW u, NEW r, ChangeRole(u, r)
      PROVE  Quiet
  BY <1>1 DEF ChangeRole, Quiet
<1>2. ASSUME NEW v, NEW date, NEW note,
             \/ CreateConfirmation(v, date, note)
             \/ CreateReversement(v, date, note)
      PROVE  Quiet
  BY <1>2 DEF CreateConfirmation, CreateReversement, Quiet
<1>3. ASSUME NEW u, NEW v, NEW date, NEW note,
             \/ Confirm(u, v, date, note) \/ CorrectConfirmation(u, v, date, note)
             \/ Declare(u, v, date, note) \/ CorrectReversement(u, v, date, note)
      PROVE  Quiet
  BY <1>2, <1>3 DEF Confirm, CorrectConfirmation, Declare, CorrectReversement
<1>4. NewDay \/ UNCHANGED vars => Quiet
  BY DEF NewDay, vars, Quiet
<1> QED
  BY <1>1, <1>3, <1>4, Zenon DEF Next, PlanStep, Submitted, Reviewed

(* A step of planning or execution leaves the requests alone and happens only
   during a pause or while nothing is frozen. *)
LEMMA PlanStepScope ==
  ASSUME PlanStep
  PROVE  /\ UNCHANGED <<reviews, closed>>
         /\ paused \/ (~Paused /\ ~Frozen)
BY DEF PlanStep, Execute, Pause, Contribute, ApproveRevision, Resume

LEMMA SubmissionScope ==
  ASSUME NEW u \in User, Submitted(u)
  PROVE  UNCHANGED <<planning, execution, decisions, closed>>
BY DEF Submitted, SubmitDisbursement, SubmitZeroSpending, SubmitVirement, Submit

LEMMA ReviewScope ==
  ASSUME NEW u \in User, NEW r \in DOMAIN requests, Reviewed(u, r)
  PROVE  UNCHANGED <<planning, execution, closed>>
BY DEF Reviewed, Prevalidate, ApproveRequest, Return, Cancel, Move

(* What a submission appends. *)
LEMMA Submission ==
  ASSUME TypeInv, NEW u \in User, Submitted(u)
  PROVE  \E row \in Request :
            /\ requests' = Append(requests, row)
            /\ row.state = "submitted" /\ row.submitter = u
            /\ \/ /\ row = PaymentRow(u, "disbursement")
                  /\ SubmitDisbursement(u)
               \/ /\ row = PaymentRow(u, "zero")
                  /\ SubmitZeroSpending(u)
               \/ \E s \in DOMAIN requests :
                     row = VirementRow(u, s) /\ SubmitVirement(u, s)
<1>1. ASSUME NEW kind \in {"disbursement", "zero"}
      PROVE  /\ PaymentRow(u, kind) \in Request
             /\ PaymentRow(u, kind).state = "submitted"
             /\ PaymentRow(u, kind).submitter = u
  <2>1. Live \in Basis
    BY DEF TypeInv, Live, Basis
  <2>2. ExcludedReviewers(u) \subseteq User
    BY DEF TypeInv, ExcludedReviewers
  <2> QED
    BY <2>1, <2>2 DEF PaymentRow, Payment, Request
<1>2. CASE SubmitDisbursement(u)
  BY <1>1, <1>2 DEF SubmitDisbursement, Submit
<1>3. CASE SubmitZeroSpending(u)
  BY <1>1, <1>3 DEF SubmitZeroSpending, Submit
<1>4. ASSUME NEW s \in DOMAIN requests, SubmitVirement(u, s)
      PROVE  /\ VirementRow(u, s) \in Request
             /\ VirementRow(u, s).state = "submitted"
             /\ VirementRow(u, s).submitter = u
             /\ requests' = Append(requests, VirementRow(u, s))
  <2>1. requests[s] \in Payment /\ s \in Nat
    BY <1>4 DEF TypeInv, SubmitVirement, MaySubmitVirement, VerifiedSource,
       Request, Virement
  <2>2. VirementExclusions(u, s) \subseteq User
    BY <2>1 DEF TypeInv, VirementExclusions, Payment
  <2> QED
    BY <1>4, <2>1, <2>2 DEF SubmitVirement, VirementRow, Submit, Request, Virement
<1> QED
  BY <1>2, <1>3, <1>4 DEF Submitted

(* A review moves one open request and leaves its facts alone. *)
SameFacts(q) ==
    /\ requests'[q].kind = requests[q].kind
    /\ requests'[q].submitter = requests[q].submitter
    /\ requests'[q].excluded = requests[q].excluded
    /\ requests[q] \in Payment => requests'[q].basis = requests[q].basis
    /\ requests[q] \in Virement => requests'[q].source = requests[q].source

LEMMA Kinds ==
  ASSUME TypeInv, NEW r \in DOMAIN requests
  PROVE  /\ requests[r] \in Request
         /\ requests[r].kind # "virement" <=> requests[r] \in Payment
         /\ requests[r].kind = "virement" <=> requests[r] \in Virement
         /\ requests[r].kind \in {"disbursement", "zero", "virement"}
<1>1. requests[r] \in Request
  BY DEF TypeInv
<1>2. \A row \in Payment : row.kind \in {"disbursement", "zero"}
  BY DEF Payment
<1>3. \A row \in Virement : row.kind = "virement"
  BY DEF Virement
<1> QED
  BY <1>1, <1>2, <1>3 DEF Request

LEMMA Movement ==
  ASSUME TypeInv, NEW r \in DOMAIN requests,
         NEW state \in {"prevalidated", "returned", "approved", "cancelled"},
         NEW rows, Move(r, state, rows)
  PROVE  /\ requests' \in Seq(Request)
         /\ DOMAIN requests' = DOMAIN requests
         /\ \A q \in DOMAIN requests :
                /\ SameFacts(q)
                /\ q # r => requests'[q] = requests[q]
         /\ requests'[r].state = state
         /\ decisions' = decisions \cup rows
<1> DEFINE row == [requests[r] EXCEPT !.state = state]
<1>1. requests' = [requests EXCEPT ![r] = row] /\ decisions' = decisions \cup rows
  BY DEF Move
<1>2. /\ row.kind = requests[r].kind /\ row.submitter = requests[r].submitter
      /\ row.excluded = requests[r].excluded /\ row.state = state
      /\ requests[r] \in Payment => row \in Payment /\ row.basis = requests[r].basis
      /\ requests[r] \in Virement =>
             row \in Virement /\ row.source = requests[r].source
  <2>1. CASE requests[r] \in Payment
    <3>1. requests[r].kind # "virement"
      BY <2>1, Kinds
    <3>2. row \in Payment /\ row.kind = requests[r].kind
          /\ row.submitter = requests[r].submitter
          /\ row.excluded = requests[r].excluded /\ row.state = state
          /\ row.basis = requests[r].basis
      BY <2>1 DEF Payment
    <3> QED
      BY <3>1, <3>2, Kinds
  <2>2. CASE requests[r] \in Virement
    <3>1. requests[r].kind = "virement"
      BY <2>2, Kinds
    <3>2. row \in Virement /\ row.kind = requests[r].kind
          /\ row.submitter = requests[r].submitter
          /\ row.excluded = requests[r].excluded /\ row.state = state
          /\ row.source = requests[r].source
      BY <2>2 DEF Virement
    <3> QED
      BY <3>1, <3>2, Kinds
  <2> QED
    BY <2>1, <2>2, Kinds DEF Request
<1> HIDE DEF row
<1>3. row \in Request /\ requests \in Seq(Request)
  BY <1>2, Kinds DEF Request, TypeInv
<1>4. /\ requests' \in Seq(Request) /\ DOMAIN requests' = DOMAIN requests
      /\ requests'[r] = row
      /\ \A q \in DOMAIN requests : q # r => requests'[q] = requests[q]
  BY <1>1, <1>3
<1> QED
  BY <1>1, <1>2, <1>4 DEF SameFacts

LEMMA Review ==
  ASSUME TypeInv, NEW u \in User, NEW r \in DOMAIN requests, Reviewed(u, r)
  PROVE  /\ Open(r)
         /\ requests' \in Seq(Request)
         /\ DOMAIN requests' = DOMAIN requests
         /\ \A q \in DOMAIN requests :
                /\ SameFacts(q)
                /\ q # r => requests'[q] = requests[q]
         /\ requests'[r].state \in {"prevalidated", "returned", "approved",
                                    "cancelled"}
<1>1. \A a \in {"prevalidate", "approve", "return", "cancel"} :
          May(u, r, a) => Open(r)
  BY DEF May, AllowedActions, Cancellable, MayPrevalidate, MayApprove, Open
<1>2. Open(r)
  BY <1>1 DEF Reviewed, Prevalidate, ApproveRequest, Return, Cancel
<1>3. \E state \in {"prevalidated", "returned", "approved", "cancelled"} :
          \E rows : Move(r, state, rows)
  BY DEF Reviewed, Prevalidate, ApproveRequest, Return, Cancel
<1> QED
  BY <1>2, <1>3, Movement

LEMMA RowType ==
  ASSUME TypeInv, NEW u \in User, NEW r \in DOMAIN requests,
         NEW stage \in {"supervisor", "validator"},
         NEW outcome \in {"prevalidated", "returned", "approved"}
  PROVE  Row(u, r, stage, outcome) \in Decision
<1>1. r \in Nat
  BY DEF TypeInv
<1> QED
  BY <1>1 DEF Row, Decision, Cites

(* A review adds at most one decision, by the account that decided. *)
LEMMA Decided ==
  ASSUME TypeInv, NEW u \in User, NEW r \in DOMAIN requests, Reviewed(u, r)
  PROVE  \/ decisions' = decisions /\ requests'[r].state = "cancelled"
         \/ \E stage \in {"supervisor", "validator"} :
                \E outcome \in {"prevalidated", "returned", "approved"} :
                   /\ decisions' = decisions \cup {Row(u, r, stage, outcome)}
                   /\ requests'[r].state = outcome
                   /\ u \notin requests[r].excluded
                   /\ outcome = "prevalidated" => requests[r].state = "submitted"
                   /\ outcome = "approved" => stage = "validator"
                   /\ outcome = "approved" => Prevalidators(r) \ {u} # {}
<1>1. CASE Prevalidate(u, r)
  BY <1>1, Movement DEF Prevalidate, May, AllowedActions, MayPrevalidate
<1>2. CASE ApproveRequest(u, r)
  BY <1>2, Movement DEF ApproveRequest, May, AllowedActions, MayApprove
<1>3. CASE Return(u, r)
  <2>1. u \notin requests[r].excluded
    BY <1>3 DEF Return, May, AllowedActions, MayPrevalidate, MayApprove
  <2> DEFINE stage == IF Supervisor(u) THEN "supervisor" ELSE "validator"
  <2>2. stage \in {"supervisor", "validator"}
    OBVIOUS
  <2>3. Move(r, "returned", {Row(u, r, stage, "returned")})
    BY <1>3 DEF Return
  <2> HIDE DEF stage
  <2> QED
    BY <2>1, <2>2, <2>3, Movement
<1>4. CASE Cancel(u, r)
  BY <1>4, Movement DEF Cancel
<1> QED
  BY <1>1, <1>2, <1>3, <1>4 DEF Reviewed

LEMMA InitType == Init => TypeInv
<1> SUFFICES ASSUME Init PROVE TypeInv
  OBVIOUS
<1>1. work \in Work
  BY DEF Init, Work
<1>2. contributors \subseteq User
  BY DEF Init
<1>3. requests \in Seq(Request) /\ decisions = {}
  BY DEF Init
<1> QED
  BY <1>1, <1>2, <1>3 DEF Init, TypeInv

LEMMA PlanType ==
  ASSUME TypeInv, PlanStep
  PROVE  TypeInv'
<1>1. ASSUME NEW u \in User, NEW o \in Operation,
             NEW a \in Amount \cup {Unfinished}, Execute(u, o, a)
      PROVE  TypeInv'
  BY <1>1 DEF TypeInv, Execute, Work, planning, reviews
<1>2. ASSUME NEW u \in User, Pause(u) \/ Contribute(u)
      PROVE  TypeInv'
  BY <1>2 DEF TypeInv, Pause, Contribute, execution, reviews
<1>3. ASSUME NEW a \in Amount \ {0}, ApproveRevision(a)
      PROVE  TypeInv'
  <2>1. /\ revision' = revision + 1 /\ allocation' = a /\ paused' = FALSE
        /\ UNCHANGED <<contributors, work, authors, requests, decisions, closed>>
    BY <1>3 DEF ApproveRevision, execution, reviews
  <2>2. revision' \in Nat
    BY <2>1 DEF TypeInv
  <2>3. work' \in Work /\ requests' \in Seq(Request) /\ contributors' \subseteq User
    BY <2>1 DEF TypeInv
  <2>4. \A d \in decisions' : d \in Decision /\ d.request \in DOMAIN requests'
    BY <2>1 DEF TypeInv
  <2> QED
    BY <2>1, <2>2, <2>3, <2>4 DEF TypeInv
<1>4. CASE Resume
  BY <1>4 DEF TypeInv, Resume, execution, reviews
<1> QED
  BY <1>1, <1>2, <1>3, <1>4 DEF PlanStep

(* Every step keeps the types. *)
LEMMA StepType ==
  ASSUME TypeInv, [Next]_vars
  PROVE  TypeInv'
<1>1. ASSUME NEW u \in User, Submitted(u)
      PROVE  TypeInv'
  <2>1. PICK row \in Request : requests' = Append(requests, row)
    BY <1>1, Submission
  <2>2. requests' \in Seq(Request) /\ DOMAIN requests \subseteq DOMAIN requests'
    BY <2>1 DEF TypeInv
  <2> QED
    BY <1>1, <2>2, SubmissionScope DEF TypeInv, planning, execution
<1>2. ASSUME NEW u \in User, NEW r \in DOMAIN requests, Reviewed(u, r)
      PROVE  TypeInv'
  <2>1. decisions' \subseteq Decision
        /\ \A d \in decisions' : d.request \in DOMAIN requests
    <3>1. CASE decisions' = decisions
      BY <3>1 DEF TypeInv
    <3>2. ASSUME NEW stage \in {"supervisor", "validator"},
                 NEW outcome \in {"prevalidated", "returned", "approved"},
                 decisions' = decisions \cup {Row(u, r, stage, outcome)}
          PROVE  decisions' \subseteq Decision
                 /\ \A d \in decisions' : d.request \in DOMAIN requests
      <4>1. Row(u, r, stage, outcome).request = r
        BY DEF Row
      <4> QED
        BY <3>2, <4>1, RowType DEF TypeInv
    <3> QED
      BY <1>2, <3>1, <3>2, Decided
  <2> QED
    BY <1>2, <2>1, Review, ReviewScope DEF TypeInv, planning, execution
<1>3. ASSUME NEW u \in User, CloseActivity(u)
      PROVE  TypeInv'
  BY <1>3 DEF CloseActivity, TypeInv, planning, execution, reviews
<1>4. CASE Quiet
  BY <1>4 DEF Quiet, TypeInv, planning, execution, reviews
<1> QED
  BY <1>1, <1>2, <1>3, <1>4, PlanType, StepCases

(* The requests, decisions and facts have their types in every reachable
   state. *)
THEOREM ChainTyped == Spec => []TypeInv
<1>1. TypeInv /\ [Next]_vars => TypeInv'
  BY StepType
<1> QED
  BY <1>1, InitType, PTL DEF Spec

-----------------------------------------------------------------------------
(* A review finds its request open, and nothing else writes requests that
   exist. *)
LEMMA OutcomeKept ==
  ASSUME TypeInv, [Next]_vars, NEW r \in DOMAIN requests, ~Open(r)
  PROVE  r \in DOMAIN requests' /\ requests'[r] = requests[r]
<1>1. ASSUME NEW u \in User, Submitted(u)
      PROVE  r \in DOMAIN requests' /\ requests'[r] = requests[r]
  <2>1. PICK row \in Request : requests' = Append(requests, row)
    BY <1>1, Submission
  <2> QED
    BY <2>1 DEF TypeInv
<1>2. ASSUME NEW u \in User, NEW q \in DOMAIN requests, Reviewed(u, q)
      PROVE  r \in DOMAIN requests' /\ requests'[r] = requests[r]
  BY <1>2, Review
<1>3. ASSUME requests' = requests
      PROVE  r \in DOMAIN requests' /\ requests'[r] = requests[r]
  BY <1>3
<1> QED
  BY <1>1, <1>2, <1>3, StepCases, PlanStepScope
     DEF CloseActivity, Quiet, reviews

(* The outcome of a request is never revised. *)
THEOREM RequestOutcomesStand == Spec => OutcomesStand
<1> DEFINE Kept == \A r \in DOMAIN requests :
               ~Open(r) => r \in DOMAIN requests' /\ requests'[r] = requests[r]
<1>1. TypeInv /\ [Next]_vars => [Kept]_vars
  BY OutcomeKept
<1> QED
  BY <1>1, ChainTyped, PTL DEF Spec, OutcomesStand

-----------------------------------------------------------------------------
(* What keeps a basis still.  BasisStands is inductive once a virement is known
   to be on an approved payment, so that it stands only while that does. *)

VirementOnPayment ==
    \A v \in DOMAIN requests : requests[v].kind = "virement" =>
        /\ requests[v].source \in DOMAIN requests
        /\ requests[requests[v].source].kind = "disbursement"
        /\ requests[requests[v].source].state = "approved"

OnePerKind ==
    \A q, r \in DOMAIN requests :
        q # r /\ Active(q) /\ Active(r) => requests[q].kind # requests[r].kind

KindBySpending ==
    \A r \in DOMAIN requests :
        /\ requests[r].kind = "disbursement" => Spent(requests[r].basis.work) > 0
        /\ requests[r].kind = "zero" => Spent(requests[r].basis.work) = 0

ChainInv ==
    TypeInv /\ VirementOnPayment /\ BasisStands /\ OnePerKind /\ KindBySpending

(* Whatever can move the basis runs only while no request stands. *)
LEMMA NothingStands ==
  ASSUME ChainInv, PlanStep
  PROVE  \A r \in DOMAIN requests : ~Active(r)
<1>1. Current("disbursement") \cup Current("zero") = {}
  BY PlanStepScope DEF ChainInv, BasisStands, Frozen
<1>2. \A r \in DOMAIN requests : requests[r].kind # "virement" => ~Active(r)
  BY <1>1, Kinds DEF ChainInv, Current
<1>3. ASSUME NEW v \in DOMAIN requests, requests[v].kind = "virement"
      PROVE  FALSE
  <2>1. requests[v].source \in Current("disbursement")
    BY <1>3 DEF ChainInv, VirementOnPayment, Current, Active
  <2> QED
    BY <1>1, <2>1
<1> QED
  BY <1>2, <1>3

LEMMA PlanChain ==
  ASSUME ChainInv, PlanStep
  PROVE  ChainInv'
<1>1. requests' = requests
  BY PlanStepScope DEF reviews
<1>2. TypeInv'
  BY PlanType DEF ChainInv
<1>3. \A r \in DOMAIN requests : ~Active(r)
  BY NothingStands
<1>4. BasisStands' /\ OnePerKind'
  BY <1>1, <1>3 DEF BasisStands, OnePerKind, Current, Active
<1> QED
  BY <1>1, <1>2, <1>4 DEF ChainInv, VirementOnPayment, KindBySpending

(* What the row of a submission says. *)
LEMMA SubmittedRow ==
  ASSUME NEW u \in User, NEW row,
         \/ row = PaymentRow(u, "disbursement") /\ SubmitDisbursement(u)
         \/ row = PaymentRow(u, "zero") /\ SubmitZeroSpending(u)
         \/ \E s \in DOMAIN requests :
               row = VirementRow(u, s) /\ SubmitVirement(u, s)
  PROVE  /\ Current(row.kind) = {}
         /\ ~paused /\ ~closed
         /\ row.kind # "virement" => row.basis = Live
         /\ row.kind = "disbursement" => Spent(row.basis.work) > 0
         /\ row.kind = "zero" => Spent(row.basis.work) = 0
<1>1. ASSUME row = PaymentRow(u, "disbursement"), SubmitDisbursement(u)
      PROVE  /\ row.kind = "disbursement" /\ row.basis = Live
             /\ Current("disbursement") = {} /\ ~paused /\ ~closed
             /\ Spent(work) > 0
  BY <1>1 DEF PaymentRow, SubmitDisbursement, Payable, Paused
<1>2. ASSUME row = PaymentRow(u, "zero"), SubmitZeroSpending(u)
      PROVE  /\ row.kind = "zero" /\ row.basis = Live
             /\ Current("zero") = {} /\ ~paused /\ ~closed
             /\ Spent(work) = 0
  BY <1>2 DEF PaymentRow, SubmitZeroSpending, Paused
<1>3. ASSUME NEW s, row = VirementRow(u, s), SubmitVirement(u, s)
      PROVE  /\ row.kind = "virement"
             /\ Current("virement") = {} /\ ~paused /\ ~closed
  BY <1>3 DEF VirementRow, SubmitVirement, MaySubmitVirement, VerifiedSource,
     Paused
<1>4. Live.work = work
  BY DEF Live
<1>5. CASE row.kind = "disbursement"
  BY <1>1, <1>2, <1>3, <1>4, <1>5
<1>6. CASE row.kind = "zero"
  BY <1>1, <1>2, <1>3, <1>4, <1>6
<1>7. CASE row.kind = "virement"
  BY <1>1, <1>2, <1>3, <1>7
<1> QED
  BY <1>1, <1>2, <1>3, <1>5, <1>6, <1>7

(* A new request stands on the present basis, beside none of its kind. *)
LEMMA SubmissionChain ==
  ASSUME ChainInv, TypeInv', NEW u \in User, Submitted(u)
  PROVE  ChainInv'
<1>1. PICK row \in Request :
          /\ requests' = Append(requests, row)
          /\ row.state = "submitted" /\ row.submitter = u
          /\ \/ row = PaymentRow(u, "disbursement") /\ SubmitDisbursement(u)
             \/ row = PaymentRow(u, "zero") /\ SubmitZeroSpending(u)
             \/ \E s \in DOMAIN requests :
                   row = VirementRow(u, s) /\ SubmitVirement(u, s)
  BY Submission DEF ChainInv
<1> DEFINE new == Len(requests) + 1
<1>2. /\ DOMAIN requests' = DOMAIN requests \cup {new}
      /\ requests'[new] = row
      /\ \A q \in DOMAIN requests : q # new /\ requests'[q] = requests[q]
  BY <1>1 DEF ChainInv, TypeInv
<1>3. Live' = Live /\ paused' = paused
  BY SubmissionScope DEF planning, execution, Live
<1> HIDE DEF new
<1>4. VirementOnPayment'
  <2>1. ASSUME row.kind = "virement"
        PROVE  /\ row.source \in DOMAIN requests
               /\ requests[row.source].kind = "disbursement"
               /\ requests[row.source].state = "approved"
    <3>1. \A s \in DOMAIN requests : SubmitVirement(u, s) =>
              /\ VirementRow(u, s).source = s
              /\ requests[s].kind = "disbursement"
              /\ requests[s].state = "approved"
      BY DEF VirementRow, SubmitVirement, MaySubmitVirement, VerifiedSource
    <3>2. \A kind \in {"disbursement", "zero"} : PaymentRow(u, kind).kind = kind
      BY DEF PaymentRow
    <3> QED
      BY <1>1, <2>1, <3>1, <3>2
  <2> QED
    BY <1>2, <2>1 DEF ChainInv, VirementOnPayment
<1>5. BasisStands'
  <2>1. ASSUME row.kind # "virement"
        PROVE  row.basis = Live /\ ~paused
    BY <1>1, <2>1, SubmittedRow
  <2>2. Current("disbursement")' \cup Current("zero")'
            \subseteq Current("disbursement") \cup Current("zero") \cup {new}
    BY <1>2 DEF Current, Active
  <2>3. ASSUME NEW q \in Current("disbursement") \cup Current("zero")
        PROVE  requests'[q].basis = Live' /\ ~paused'
    BY <1>2, <1>3, <2>3 DEF ChainInv, BasisStands, Current
  <2>4. ASSUME new \in Current("disbursement")' \cup Current("zero")'
        PROVE  requests'[new].basis = Live' /\ ~paused'
    BY <1>2, <1>3, <2>1, <2>4 DEF Current
  <2> QED
    BY <2>2, <2>3, <2>4 DEF BasisStands
<1>6. OnePerKind'
  <2>1. \A q \in DOMAIN requests : Active(q) => requests[q].kind # row.kind
    <3>1. Current(row.kind) = {}
      BY <1>1, SubmittedRow
    <3> QED
      BY <3>1 DEF Current
  <2> QED
    BY <1>2, <2>1 DEF ChainInv, OnePerKind, Active
<1>7. KindBySpending'
  <2>1. /\ row.kind = "disbursement" => Spent(row.basis.work) > 0
        /\ row.kind = "zero" => Spent(row.basis.work) = 0
    BY <1>1, SubmittedRow
  <2> QED
    BY <1>2, <2>1 DEF ChainInv, KindBySpending
<1> QED
  BY <1>4, <1>5, <1>6, <1>7 DEF ChainInv

LEMMA ReviewChain ==
  ASSUME ChainInv, TypeInv', NEW u \in User, NEW r \in DOMAIN requests,
         Reviewed(u, r)
  PROVE  ChainInv'
<1>1. /\ DOMAIN requests' = DOMAIN requests
      /\ \A q \in DOMAIN requests : SameFacts(q)
      /\ \A q \in DOMAIN requests : ~Open(q) => requests'[q] = requests[q]
      /\ \A q \in DOMAIN requests :
             requests'[q].state \notin {"returned", "cancelled"} => Active(q)
  BY Review DEF ChainInv, Open, Active
<1>2. Live' = Live /\ paused' = paused
  BY ReviewScope DEF planning, execution, Live
<1>3. VirementOnPayment'
  BY <1>1, Kinds DEF ChainInv, VirementOnPayment, SameFacts, Open
<1>4. BasisStands'
  <2>1. \A q \in Current("disbursement")' \cup Current("zero")' :
            /\ q \in Current("disbursement") \cup Current("zero")
            /\ requests'[q].basis = requests[q].basis
    BY <1>1, Kinds DEF ChainInv, Current, Active, SameFacts
  <2> QED
    BY <1>2, <2>1 DEF ChainInv, BasisStands
<1>5. OnePerKind'
  BY <1>1 DEF ChainInv, OnePerKind, Active, SameFacts
<1>6. KindBySpending'
  BY <1>1, Kinds DEF ChainInv, KindBySpending, SameFacts
<1> QED
  BY <1>3, <1>4, <1>5, <1>6 DEF ChainInv

LEMMA StepChain ==
  ASSUME ChainInv, [Next]_vars
  PROVE  ChainInv'
<1>1. TypeInv'
  BY StepType DEF ChainInv
<1>2. ASSUME UNCHANGED <<revision, allocation, paused, work, requests>>
      PROVE  ChainInv'
  BY <1>1, <1>2 DEF ChainInv, VirementOnPayment, BasisStands, OnePerKind,
     KindBySpending, Current, Active, Live
<1>3. ASSUME NEW u \in User, CloseActivity(u)
      PROVE  ChainInv'
  BY <1>2, <1>3 DEF CloseActivity, planning, execution, reviews
<1>4. CASE Quiet
  BY <1>2, <1>4 DEF Quiet, planning, execution, reviews
<1> QED
  BY <1>1, <1>3, <1>4, PlanChain, SubmissionChain, ReviewChain, StepCases

LEMMA InitChain == Init => ChainInv
BY InitType DEF Init, ChainInv, VirementOnPayment, BasisStands, OnePerKind,
   KindBySpending, Current

LEMMA ChainInvariant == Spec => []ChainInv
BY InitChain, StepChain, PTL DEF Spec

(* No request that stands ever loses the basis it was submitted with. *)
THEOREM BasisAlwaysStands == Spec => []BasisStands
<1>1. ChainInv => BasisStands
  BY DEF ChainInv
<1> QED
  BY <1>1, ChainInvariant, PTL

(* A payment and a declaration of no spending exclude each other: both would
   stand on the present spending, which is positive for the one and zero for
   the other. *)
THEOREM RoutesExclusive == Spec => []OneRoute
<1>1. ASSUME ChainInv
      PROVE  OneRoute
  <2>1. ASSUME NEW kind \in {"disbursement", "zero", "virement"}
        PROVE  Cardinality(Current(kind)) <= 1
    <3>0. Cardinality({}) = 0
      BY FS_EmptySet
    <3>1. CASE Current(kind) = {}
      BY <3>0, <3>1
    <3>2. ASSUME NEW r \in Current(kind)
          PROVE  Cardinality(Current(kind)) <= 1
      <4>1. Current(kind) = {r}
        BY <1>1, <3>2 DEF ChainInv, OnePerKind, Current
      <4>2. Cardinality({r}) = 1
        BY FS_Singleton
      <4> QED
        BY <4>1, <4>2
    <3> QED
      BY <3>1, <3>2
  <2>2. ASSUME NEW d \in Current("disbursement"), NEW z \in Current("zero")
        PROVE  FALSE
    <3>1. requests[d].basis = Live /\ requests[z].basis = Live
      BY <1>1, <2>2 DEF ChainInv, BasisStands
    <3>2. Spent(requests[d].basis.work) > 0 /\ Spent(requests[z].basis.work) = 0
      BY <1>1, <2>2 DEF ChainInv, KindBySpending, Current
    <3> QED
      BY <3>1, <3>2
  <2>3. \A v \in Current("virement") :
            /\ requests[v].source \in Current("disbursement")
            /\ requests[requests[v].source].state = "approved"
    BY <1>1 DEF ChainInv, VirementOnPayment, Current, Active
  <2> QED
    BY <2>1, <2>2, <2>3 DEF OneRoute
<1> QED
  BY <1>1, ChainInvariant, PTL

-----------------------------------------------------------------------------
(* The reviewers.  The exclusions of a request that stands cover the present
   contributors and authors, because both sets are still while it does; that a
   supervisor's decision on it is a prevalidation needs the state of requests
   that were returned. *)

Exclusions ==
    \A r \in DOMAIN requests :
        /\ requests[r].submitter \in requests[r].excluded
        /\ requests[r].kind = "virement" =>
               requests[requests[r].source].submitter \in requests[r].excluded
        /\ Active(r) => contributors \cup authors \subseteq requests[r].excluded

Deciders ==
    \A d \in decisions :
        /\ d.actor \notin requests[d.request].excluded
        /\ d.outcome = "returned" => requests[d.request].state = "returned"
        /\ d.stage = "supervisor" => d.outcome # "approved"

TwoReviewers ==
    \A r \in DOMAIN requests : requests[r].state = "approved" =>
        \E d, e \in decisions :
            /\ d.request = r /\ d.outcome = "prevalidated"
            /\ e.request = r /\ e.outcome = "approved"
            /\ d.actor # e.actor

ReviewInv == ChainInv /\ Exclusions /\ Deciders /\ TwoReviewers

(* Whom the row of a submission excludes. *)
LEMMA RowExclusions ==
  ASSUME ReviewInv, NEW u \in User, NEW row, row.submitter = u,
         \/ row = PaymentRow(u, "disbursement") /\ SubmitDisbursement(u)
         \/ row = PaymentRow(u, "zero") /\ SubmitZeroSpending(u)
         \/ \E s \in DOMAIN requests :
               row = VirementRow(u, s) /\ SubmitVirement(u, s)
  PROVE  /\ u \in row.excluded
         /\ contributors \cup authors \subseteq row.excluded
         /\ row.kind = "virement" =>
                /\ row.source \in DOMAIN requests
                /\ requests[row.source].submitter \in row.excluded
<1>1. \A kind \in {"disbursement", "zero"} :
          /\ PaymentRow(u, kind).kind # "virement"
          /\ u \in PaymentRow(u, kind).excluded
          /\ contributors \cup authors \subseteq PaymentRow(u, kind).excluded
  BY DEF PaymentRow, ExcludedReviewers
<1>2. ASSUME NEW s \in DOMAIN requests, row = VirementRow(u, s),
             SubmitVirement(u, s)
      PROVE  /\ u \in row.excluded
             /\ contributors \cup authors \subseteq row.excluded
             /\ row.source = s
             /\ requests[s].submitter \in row.excluded
  <2>1. Active(s)
    BY <1>2 DEF SubmitVirement, MaySubmitVirement, VerifiedSource, Active
  <2>2. /\ requests[s].submitter \in requests[s].excluded
        /\ contributors \cup authors \subseteq requests[s].excluded
    BY <2>1 DEF ReviewInv, Exclusions
  <2>3. /\ row.excluded = {u} \cup contributors \cup requests[s].excluded
        /\ row.source = s
    BY <1>2 DEF VirementRow, VirementExclusions
  <2> QED
    BY <2>2, <2>3
<1> QED
  BY <1>1, <1>2

LEMMA PlanReviewers ==
  ASSUME ReviewInv, PlanStep
  PROVE  ReviewInv'
<1>1. requests' = requests /\ decisions' = decisions
  BY PlanStepScope DEF reviews
<1>2. ChainInv'
  BY StepChain, PlanChain DEF ReviewInv
<1>3. \A r \in DOMAIN requests : ~Active(r)
  BY NothingStands DEF ReviewInv
<1>4. Exclusions'
  BY <1>1, <1>3 DEF ReviewInv, Exclusions, Active
<1> QED
  BY <1>1, <1>2, <1>4 DEF ReviewInv, Deciders, TwoReviewers

LEMMA SubmissionReviewers ==
  ASSUME ReviewInv, ChainInv', NEW u \in User, Submitted(u)
  PROVE  ReviewInv'
<1>1. PICK row \in Request :
          /\ requests' = Append(requests, row)
          /\ row.state = "submitted" /\ row.submitter = u
          /\ \/ row = PaymentRow(u, "disbursement") /\ SubmitDisbursement(u)
             \/ row = PaymentRow(u, "zero") /\ SubmitZeroSpending(u)
             \/ \E s \in DOMAIN requests :
                   row = VirementRow(u, s) /\ SubmitVirement(u, s)
  BY Submission DEF ReviewInv, ChainInv
<1> DEFINE new == Len(requests) + 1
<1>2. /\ DOMAIN requests' = DOMAIN requests \cup {new}
      /\ requests'[new] = row
      /\ \A q \in DOMAIN requests : q # new /\ requests'[q] = requests[q]
  BY <1>1 DEF ReviewInv, ChainInv, TypeInv
<1>3. /\ u \in row.excluded
      /\ contributors \cup authors \subseteq row.excluded
      /\ row.kind = "virement" =>
             /\ row.source \in DOMAIN requests
             /\ requests[row.source].submitter \in row.excluded
  BY <1>1, RowExclusions
<1>4. /\ contributors' = contributors /\ authors' = authors
      /\ decisions' = decisions
  BY SubmissionScope DEF planning, execution
<1> HIDE DEF new
<1>5. Exclusions'
  <2>1. ASSUME NEW q \in DOMAIN requests
        PROVE  /\ requests'[q].submitter \in requests'[q].excluded
               /\ requests'[q].kind = "virement" =>
                      requests'[requests'[q].source].submitter
                          \in requests'[q].excluded
               /\ Active(q)' => contributors' \cup authors'
                                    \subseteq requests'[q].excluded
    BY <1>2, <1>4, <2>1
       DEF ReviewInv, ChainInv, VirementOnPayment, Exclusions, Active
  <2>2. /\ requests'[new].submitter \in requests'[new].excluded
        /\ requests'[new].kind = "virement" =>
               requests'[requests'[new].source].submitter
                   \in requests'[new].excluded
        /\ contributors' \cup authors' \subseteq requests'[new].excluded
    BY <1>1, <1>2, <1>3, <1>4
  <2> QED
    BY <1>2, <2>1, <2>2 DEF Exclusions
<1>6. Deciders'
  BY <1>2, <1>4 DEF ReviewInv, ChainInv, TypeInv, Deciders
<1>7. TwoReviewers'
  BY <1>1, <1>2, <1>4 DEF ReviewInv, TwoReviewers
<1> QED
  BY <1>5, <1>6, <1>7 DEF ReviewInv

LEMMA ReviewReviewers ==
  ASSUME ReviewInv, ChainInv', NEW u \in User, NEW r \in DOMAIN requests,
         Reviewed(u, r)
  PROVE  ReviewInv'
<1>1. TypeInv
  BY DEF ReviewInv, ChainInv
<1>2. /\ Open(r)
      /\ DOMAIN requests' = DOMAIN requests
      /\ \A q \in DOMAIN requests : SameFacts(q)
      /\ \A q \in DOMAIN requests : q # r => requests'[q] = requests[q]
      /\ \A q \in DOMAIN requests : Active(q)' => Active(q)
  BY <1>1, Review DEF Open, Active
<1>3. contributors' = contributors /\ authors' = authors
  BY ReviewScope DEF planning, execution
<1>4. Exclusions'
  <2>1. \A q \in DOMAIN requests : requests[q].kind = "virement" =>
            /\ requests[q].source \in DOMAIN requests
            /\ requests'[q].source = requests[q].source
    BY <1>1, <1>2, Kinds DEF ReviewInv, ChainInv, VirementOnPayment, SameFacts
  <2> QED
    BY <1>2, <1>3, <2>1 DEF ReviewInv, Exclusions, SameFacts
<1>5. \A d \in decisions :
          /\ d.request \in DOMAIN requests
          /\ d.actor \notin requests'[d.request].excluded
          /\ d.outcome = "returned" => requests'[d.request].state = "returned"
          /\ d.stage = "supervisor" => d.outcome # "approved"
  BY <1>1, <1>2 DEF ReviewInv, TypeInv, Deciders, SameFacts, Open
<1>6. CASE decisions' = decisions /\ requests'[r].state = "cancelled"
  <2>1. Deciders'
    BY <1>5, <1>6 DEF Deciders
  <2>2. TwoReviewers'
    BY <1>2, <1>6 DEF ReviewInv, TwoReviewers
  <2> QED
    BY <1>4, <2>1, <2>2 DEF ReviewInv
<1>7. ASSUME NEW stage \in {"supervisor", "validator"},
             NEW outcome \in {"prevalidated", "returned", "approved"},
             decisions' = decisions \cup {Row(u, r, stage, outcome)},
             requests'[r].state = outcome,
             u \notin requests[r].excluded,
             outcome = "approved" => stage = "validator",
             outcome = "approved" => Prevalidators(r) \ {u} # {}
      PROVE  ReviewInv'
  <2> DEFINE d == Row(u, r, stage, outcome)
  <2>1. /\ d.request = r /\ d.actor = u /\ d.stage = stage
        /\ d.outcome = outcome
    BY DEF Row
  <2> HIDE DEF d
  <2>2. decisions' = decisions \cup {d}
    BY <1>7 DEF d
  <2>3. Deciders'
    <3>1. u \notin requests'[r].excluded
      BY <1>2, <1>7 DEF SameFacts
    <3> QED
      BY <1>5, <1>7, <2>1, <2>2, <3>1 DEF Deciders
  <2>4. ASSUME outcome = "approved"
        PROVE  \E e \in decisions : e.request = r /\ e.outcome = "prevalidated"
                                    /\ e.actor # u
    <3>1. PICK e \in decisions : /\ e.request = r /\ e.stage = "supervisor"
                                 /\ e.actor # u
      BY <1>7, <2>4 DEF Prevalidators
    <3>2. e.outcome \in {"prevalidated", "returned", "approved"}
      BY <1>1 DEF TypeInv, Decision
    <3>3. e.outcome # "returned" /\ e.outcome # "approved"
      BY <1>2, <3>1 DEF ReviewInv, Deciders, Open
    <3> QED
      BY <3>1, <3>2, <3>3
  <2>5. TwoReviewers'
    <3>1. ASSUME NEW q \in DOMAIN requests, q # r,
                 requests'[q].state = "approved"
          PROVE  \E e, f \in decisions :
                     /\ e.request = q /\ e.outcome = "prevalidated"
                     /\ f.request = q /\ f.outcome = "approved"
                     /\ e.actor # f.actor
      BY <1>2, <3>1 DEF ReviewInv, TwoReviewers
    <3>2. ASSUME requests'[r].state = "approved"
          PROVE  \E e \in decisions : /\ e.request = r
                                      /\ e.outcome = "prevalidated"
                                      /\ e.actor # d.actor /\ d.request = r
                                      /\ d.outcome = "approved"
      BY <1>7, <2>1, <2>4, <3>2
    <3> QED
      BY <1>2, <2>2, <3>1, <3>2 DEF TwoReviewers
  <2> QED
    BY <1>4, <2>3, <2>5 DEF ReviewInv
<1> QED
  BY <1>1, <1>6, <1>7, Decided

LEMMA StepReviewers ==
  ASSUME ReviewInv, [Next]_vars
  PROVE  ReviewInv'
<1>1. ChainInv'
  BY StepChain DEF ReviewInv
<1>2. ASSUME UNCHANGED <<contributors, authors, requests, decisions>>
      PROVE  ReviewInv'
  BY <1>1, <1>2 DEF ReviewInv, Exclusions, Deciders, TwoReviewers, Active
<1>3. ASSUME NEW u \in User, CloseActivity(u)
      PROVE  ReviewInv'
  BY <1>2, <1>3 DEF CloseActivity, planning, execution, reviews
<1>4. CASE Quiet
  BY <1>2, <1>4 DEF Quiet, planning, execution, reviews
<1> QED
  BY <1>1, <1>3, <1>4, PlanReviewers, SubmissionReviewers, ReviewReviewers,
     StepCases

(* Every request that stands is reviewed by people outside the Activity, and an
   approved one by two of them. *)
THEOREM ChainReviewedByOutsiders == Spec => []ReviewedByOutsiders
<1>1. Init => ReviewInv
  BY InitChain DEF Init, ReviewInv, Exclusions, Deciders, TwoReviewers
<1>2. ReviewInv => ReviewedByOutsiders
  BY DEF ReviewInv, Exclusions, Deciders, TwoReviewers, ReviewedByOutsiders,
     Outsider
<1> QED
  BY <1>1, <1>2, StepReviewers, PTL DEF Spec

-----------------------------------------------------------------------------
(* Closing.  The guards of closing leave no request open: the one that settles
   the Activity is approved, it is the only one of its kind, and no other kind
   can stand on the same spending. *)

ClosedInv ==
    /\ ChainInv
    /\ closed => ~paused /\ \A r \in DOMAIN requests : ~Open(r)

LEMMA ClosingSettles ==
  ASSUME ChainInv, NEW u \in User, CloseActivity(u)
  PROVE  ~paused /\ \A r \in DOMAIN requests : ~Open(r)
<1>1. ~paused
  BY DEF CloseActivity, Paused
<1>2. \A r \in Current("disbursement") : Spent(work) > 0
  BY DEF ChainInv, BasisStands, KindBySpending, Current, Live
<1>3. \A r \in Current("zero") : Spent(work) = 0
  BY DEF ChainInv, BasisStands, KindBySpending, Current, Live
<1>4. \A v \in Current("virement") :
          requests[v].source \in Current("disbursement")
  BY DEF ChainInv, VirementOnPayment, Current, Active
<1>5. \A kind : \A q, r \in Current(kind) : q = r
  BY DEF ChainInv, OnePerKind, Current
<1>6. \A r \in DOMAIN requests : Open(r) =>
          /\ r \in Current(requests[r].kind)
          /\ requests[r].state # "approved"
          /\ requests[r].kind \in {"disbursement", "zero", "virement"}
  BY Kinds DEF ChainInv, Open, Current, Active
<1>7. CASE Spent(work) = 0
  <2>1. PICK z \in DOMAIN requests :
            requests[z].kind = "zero" /\ requests[z].state = "approved"
    BY <1>7 DEF CloseActivity, NoSpendingApproved
  <2>2. z \in Current("zero")
    BY <2>1 DEF Current, Active
  <2>3. ~(Spent(work) > 0)
    BY <1>7
  <2> QED
    BY <1>1, <1>2, <1>4, <1>5, <1>6, <2>1, <2>2, <2>3, Zenon
<1>8. CASE Spent(work) # 0
  <2>1. PICK s \in Current("disbursement"), v \in Current("virement") :
            requests[s].state = "approved" /\ requests[v].state = "approved"
    BY <1>8 DEF CloseActivity, PaymentSettled
  <2> QED
    BY <1>1, <1>3, <1>5, <1>6, <1>8, <2>1, Zenon
<1> QED
  BY <1>7, <1>8

(* Every command on a closed Activity is refused. *)
LEMMA ClosedStep ==
  ASSUME ClosedInv, closed, [Next]_vars
  PROVE  UNCHANGED <<planning, execution, reviews, declared, closed>>
<1>1. ~paused /\ Paused
  BY DEF ClosedInv, Paused
<1>2. ~PlanStep
  BY <1>1 DEF PlanStep, Execute, Pause, Contribute, ApproveRevision, Resume
<1>3. \A u \in User : ~Submitted(u)
  BY <1>1 DEF Submitted, SubmitDisbursement, SubmitZeroSpending, SubmitVirement,
     MaySubmitVirement, VerifiedSource
<1>4. \A u \in User : \A r \in DOMAIN requests : ~Reviewed(u, r)
  BY Review DEF ClosedInv, ChainInv
<1>5. \A u \in User : ~CloseActivity(u)
  BY <1>1 DEF CloseActivity
<1>6. \A v : ~Settled(v)
  BY <1>1 DEF Settled, VerifiedSource
<1>7. \A u, v, date, note :
          /\ ~Confirm(u, v, date, note)
          /\ ~CorrectConfirmation(u, v, date, note)
          /\ ~Declare(u, v, date, note)
          /\ ~CorrectReversement(u, v, date, note)
  BY <1>6 DEF Confirm, MayConfirm, CorrectConfirmation, MayCorrectConfirmation,
     Declare, MayDeclare, CorrectReversement, MayCorrectReversement, Returnable
<1>8. CASE UNCHANGED vars
  BY <1>8 DEF vars
<1>9. CASE NewDay
  BY <1>9 DEF NewDay
<1>10. ASSUME NEW u, NEW r, ChangeRole(u, r)
       PROVE  UNCHANGED <<planning, execution, reviews, declared, closed>>
  BY <1>10 DEF ChangeRole
<1>11. CASE Next
  BY <1>2, <1>3, <1>4, <1>5, <1>7, <1>9, <1>10, <1>11, Zenon
     DEF Next, PlanStep, Submitted, Reviewed
<1> QED
  BY <1>8, <1>11

LEMMA ClosedInvariant == Spec => []ClosedInv
<1>1. Init => ClosedInv
  BY InitChain DEF Init, ClosedInv
<1>2. ClosedInv /\ [Next]_vars => ClosedInv'
  <2> SUFFICES ASSUME ClosedInv, [Next]_vars PROVE ClosedInv'
    OBVIOUS
  <2>1. ChainInv'
    BY StepChain DEF ClosedInv
  <2>2. CASE closed
    <3>1. UNCHANGED <<planning, execution, reviews, declared, closed>>
      BY <2>2, ClosedStep
    <3>2. paused' = paused /\ requests' = requests /\ closed' = closed
      BY <3>1 DEF planning, reviews
    <3> QED
      BY <2>1, <2>2, <3>2 DEF ClosedInv, Open
  <2>3. ASSUME NEW u \in User, CloseActivity(u)
        PROVE  ClosedInv'
    BY <2>1, <2>3, ClosingSettles
       DEF ClosedInv, CloseActivity, planning, reviews, Open
  <2>4. ASSUME ~closed, closed' = closed
        PROVE  ClosedInv'
    BY <2>1, <2>4 DEF ClosedInv
  <2> QED
    BY <2>2, <2>3, <2>4, StepCases, PlanStepScope, SubmissionScope, ReviewScope
       DEF Quiet
<1> QED
  BY <1>1, <1>2, PTL DEF Spec

(* Closing is final for the Activity and for everything that settled it. *)
THEOREM ClosingIsFinal == Spec => ClosedForGood
<1>1. ClosedInv /\ [Next]_vars =>
          [closed => UNCHANGED <<planning, execution, reviews, declared, closed>>]_vars
  BY ClosedStep
<1> QED
  BY <1>1, ClosedInvariant, PTL DEF Spec, ClosedForGood

-----------------------------------------------------------------------------
(* The decisions.  How the verdicts on a request fit its state is inductive on
   its own: each command finds the verdicts that the state promises, and adds
   one at most. *)

SupervisorReturned == <<"supervisor", "returned">>
ValidatorReturned == <<"validator", "returned">>
ValidatorApproved == <<"validator", "approved">>

Fits(r) ==
    /\ requests[r].state = "submitted" => Verdicts(r) = {}
    /\ requests[r].state = "prevalidated" => Verdicts(r) = {Prevalidated}
    /\ requests[r].state = "approved" => Verdicts(r) = {Prevalidated, ValidatorApproved}
    /\ requests[r].state = "returned" =>
           Verdicts(r) \in {{SupervisorReturned}, {Prevalidated, ValidatorReturned}}
    /\ requests[r].state = "cancelled" => Verdicts(r) \in {{}, {Prevalidated}}

OnePerStage ==
    \A d, e \in decisions : d.request = e.request /\ d.stage = e.stage => d = e

Cited(d) ==
    (d.outcome = "approved" \/ requests[d.request].kind = "virement") =>
        /\ d.stage = "validator" => d.cites
        /\ d.actor \notin requests[d.request].excluded

DecisionsInv ==
    /\ TypeInv
    /\ \A r \in DOMAIN requests : Fits(r)
    /\ OnePerStage
    /\ \A d \in decisions : Cited(d)

LEMMA States ==
  ASSUME TypeInv, NEW r \in DOMAIN requests
  PROVE  requests[r].state \in {"submitted", "prevalidated", "returned",
                                "approved", "cancelled"}
<1>1. requests[r] \in Request
  BY DEF TypeInv
<1> QED
  BY <1>1 DEF Request, Payment, Virement

(* The invariant is the property the runs check, spelled out. *)
LEMMA FitsMatches ==
  ASSUME DecisionsInv
  PROVE  StateMatchesDecisions
<1> DEFINE Allowed(r) ==
        CASE requests[r].state = "submitted" -> {{}}
          [] requests[r].state = "prevalidated" -> {{Prevalidated}}
          [] requests[r].state = "approved" ->
                 {{Prevalidated, <<"validator", "approved">>}}
          [] requests[r].state = "returned" ->
                 {{<<"supervisor", "returned">>},
                  {Prevalidated, <<"validator", "returned">>}}
          [] requests[r].state = "cancelled" -> {{}, {Prevalidated}}
<1>1. ASSUME NEW r \in DOMAIN requests
      PROVE  Verdicts(r) \in Allowed(r)
  <2>1. Fits(r)
    BY <1>1 DEF DecisionsInv
  <2>2. CASE requests[r].state = "submitted"
    <3>1. Allowed(r) = {{}}
      BY <2>2
    <3> HIDE DEF Allowed
    <3> QED
      BY <2>1, <2>2, <3>1 DEF Fits
  <2>3. CASE requests[r].state = "prevalidated"
    <3>1. Allowed(r) = {{Prevalidated}}
      BY <2>3
    <3> HIDE DEF Allowed
    <3> QED
      BY <2>1, <2>3, <3>1 DEF Fits
  <2>4. CASE requests[r].state = "approved"
    <3>1. Allowed(r) = {{Prevalidated, ValidatorApproved}}
      BY <2>4 DEF ValidatorApproved
    <3> HIDE DEF Allowed
    <3> QED
      BY <2>1, <2>4, <3>1 DEF Fits
  <2>5. CASE requests[r].state = "returned"
    <3>1. Allowed(r) = {{SupervisorReturned}, {Prevalidated, ValidatorReturned}}
      BY <2>5 DEF SupervisorReturned, ValidatorReturned
    <3> HIDE DEF Allowed
    <3> QED
      BY <2>1, <2>5, <3>1 DEF Fits
  <2>6. CASE requests[r].state = "cancelled"
    <3>1. Allowed(r) = {{}, {Prevalidated}}
      BY <2>6
    <3> HIDE DEF Allowed
    <3> QED
      BY <2>1, <2>6, <3>1 DEF Fits
  <2> HIDE DEF Allowed
  <2> QED
    BY <2>2, <2>3, <2>4, <2>5, <2>6, States DEF DecisionsInv
<1> QED
  BY <1>1 DEF DecisionsInv, OnePerStage, Cited, StateMatchesDecisions

(* What a review finds and what it decides. *)
LEMMA Judgement ==
  ASSUME TypeInv, NEW u \in User, NEW r \in DOMAIN requests, Reviewed(u, r)
  PROVE  \/ /\ decisions' = decisions
            /\ requests[r].state \in {"submitted", "prevalidated"}
            /\ requests'[r].state = "cancelled"
         \/ \E stage \in {"supervisor", "validator"} :
            \E outcome \in {"prevalidated", "returned", "approved"} :
               /\ decisions' = decisions \cup {Row(u, r, stage, outcome)}
               /\ requests'[r].state = outcome
               /\ u \notin requests[r].excluded
               /\ \/ /\ requests[r].state = "submitted"
                     /\ stage = "supervisor" /\ outcome # "approved"
                  \/ /\ requests[r].state = "prevalidated"
                     /\ stage = "validator" /\ outcome # "prevalidated"
<1>1. CASE Prevalidate(u, r)
  BY <1>1, Movement DEF Prevalidate, May, AllowedActions, MayPrevalidate
<1>2. CASE ApproveRequest(u, r)
  BY <1>2, Movement DEF ApproveRequest, May, AllowedActions, MayApprove
<1>3. CASE Return(u, r)
  <2>1. MayPrevalidate(u, r) \/ MayApprove(u, r)
    BY <1>3 DEF Return, May, AllowedActions
  <2>2. ASSUME MayPrevalidate(u, r)
        PROVE  /\ Move(r, "returned", {Row(u, r, "supervisor", "returned")})
               /\ u \notin requests[r].excluded
               /\ requests[r].state = "submitted"
    BY <1>3, <2>2 DEF Return, MayPrevalidate
  <2>3. ASSUME MayApprove(u, r)
        PROVE  /\ Move(r, "returned", {Row(u, r, "validator", "returned")})
               /\ u \notin requests[r].excluded
               /\ requests[r].state = "prevalidated"
    <3>1. ~Supervisor(u)
      BY <2>3 DEF MayApprove, Validator, Supervisor
    <3> QED
      BY <1>3, <2>3, <3>1 DEF Return, MayApprove
  <2> QED
    BY <2>1, <2>2, <2>3, Movement
<1>4. CASE Cancel(u, r)
  <2>1. requests[r].state \in {"submitted", "prevalidated"}
    BY <1>4 DEF Cancel, May, AllowedActions, Cancellable, Open
  <2>2. Move(r, "cancelled", {})
    BY <1>4 DEF Cancel
  <2>3. decisions' = decisions
    BY <2>2 DEF Move
  <2>4. requests'[r].state = "cancelled"
    BY <2>2, Movement
  <2> QED
    BY <2>1, <2>3, <2>4
<1> QED
  BY <1>1, <1>2, <1>3, <1>4 DEF Reviewed

(* A decision adds its verdict to those on its request, and to no others. *)
LEMMA VerdictsGrow ==
  ASSUME NEW u, NEW r, NEW stage, NEW outcome, NEW q,
         decisions' = decisions \cup {Row(u, r, stage, outcome)}
  PROVE  /\ q = r => Verdicts(q)' = Verdicts(q) \cup {<<stage, outcome>>}
         /\ q # r => Verdicts(q)' = Verdicts(q)
<1> DEFINE row == Row(u, r, stage, outcome)
<1>1. row.request = r /\ row.stage = stage /\ row.outcome = outcome
  BY DEF Row
<1> HIDE DEF row
<1>2. {e \in decisions' : e.request = q} =
          {e \in decisions : e.request = q}
          \cup (IF q = r THEN {row} ELSE {})
  BY <1>1 DEF row
<1> QED
  BY <1>1, <1>2 DEF Verdicts

LEMMA PlanDecisions ==
  ASSUME DecisionsInv, TypeInv', UNCHANGED <<requests, decisions>>
  PROVE  DecisionsInv'
BY DEF DecisionsInv, Fits, OnePerStage, Cited, Verdicts

LEMMA SubmissionDecisions ==
  ASSUME DecisionsInv, TypeInv', NEW u \in User, Submitted(u)
  PROVE  DecisionsInv'
<1>1. PICK row \in Request : /\ requests' = Append(requests, row)
                             /\ row.state = "submitted"
  BY Submission DEF DecisionsInv
<1>2. decisions' = decisions
  BY SubmissionScope
<1>3. PICK new \in Nat :
          /\ DOMAIN requests' = DOMAIN requests \cup {new}
          /\ requests'[new] = row /\ new \notin DOMAIN requests
          /\ \A q \in DOMAIN requests : requests'[q] = requests[q]
  <2>1. requests \in Seq(Request) /\ Len(requests) + 1 \in Nat
    BY DEF DecisionsInv, TypeInv
  <2> QED
    BY <1>1, <2>1
<1>4. \A q : Verdicts(q)' = Verdicts(q)
  BY <1>2 DEF Verdicts
<1>5. Verdicts(new) = {}
  BY <1>3 DEF Verdicts, DecisionsInv, TypeInv
<1>6. \A q \in DOMAIN requests' : Fits(q)'
  <2>1. Fits(new)'
    BY <1>1, <1>3, <1>4, <1>5 DEF Fits
  <2>2. ASSUME NEW q \in DOMAIN requests
        PROVE  Fits(q)'
    <3>1. Fits(q) /\ requests'[q] = requests[q] /\ Verdicts(q)' = Verdicts(q)
      BY <1>3, <1>4 DEF DecisionsInv
    <3> QED
      BY <3>1 DEF Fits
  <2> QED
    BY <1>3, <2>1, <2>2
<1>7. \A d \in decisions' : Cited(d)'
  BY <1>2, <1>3 DEF DecisionsInv, TypeInv, Cited
<1>8. OnePerStage'
  BY <1>2 DEF DecisionsInv, OnePerStage
<1> QED
  BY <1>6, <1>7, <1>8 DEF DecisionsInv

LEMMA ReviewDecisions ==
  ASSUME DecisionsInv, TypeInv', NEW u \in User, NEW r \in DOMAIN requests,
         Reviewed(u, r)
  PROVE  DecisionsInv'
<1>1. TypeInv
  BY DEF DecisionsInv
<1>2. /\ DOMAIN requests' = DOMAIN requests
      /\ \A q \in DOMAIN requests : SameFacts(q)
      /\ \A q \in DOMAIN requests : q # r => requests'[q] = requests[q]
  BY <1>1, Review
<1>3. ASSUME NEW d \in decisions
      PROVE  Cited(d)'
  <2>1. Cited(d) /\ d.request \in DOMAIN requests
    BY <1>1 DEF DecisionsInv, TypeInv
  <2> QED
    BY <1>2, <2>1 DEF Cited, SameFacts
<1>4. ASSUME decisions' = decisions,
             requests[r].state \in {"submitted", "prevalidated"},
             requests'[r].state = "cancelled"
      PROVE  DecisionsInv'
  <2>1. \A q : Verdicts(q)' = Verdicts(q)
    BY <1>4 DEF Verdicts
  <2>2. ASSUME NEW q \in DOMAIN requests
        PROVE  Fits(q)'
    <3>1. Fits(q) /\ Verdicts(q)' = Verdicts(q)
      BY <2>1 DEF DecisionsInv
    <3>2. CASE q = r
      BY <1>4, <3>1, <3>2 DEF Fits
    <3>3. CASE q # r
      BY <1>2, <3>1, <3>3 DEF Fits
    <3> QED
      BY <3>2, <3>3
  <2> QED
    BY <1>2, <1>3, <1>4, <2>2 DEF DecisionsInv, OnePerStage
<1>5. ASSUME NEW stage \in {"supervisor", "validator"},
             NEW outcome \in {"prevalidated", "returned", "approved"},
             decisions' = decisions \cup {Row(u, r, stage, outcome)},
             requests'[r].state = outcome,
             u \notin requests[r].excluded,
             \/ /\ requests[r].state = "submitted"
                /\ stage = "supervisor" /\ outcome # "approved"
             \/ /\ requests[r].state = "prevalidated"
                /\ stage = "validator" /\ outcome # "prevalidated"
      PROVE  DecisionsInv'
  <2>1. Fits(r)
    BY DEF DecisionsInv
  <2>2. Fits(r)'
    <3>1. Verdicts(r)' = Verdicts(r) \cup {<<stage, outcome>>}
      BY <1>5, VerdictsGrow
    <3> QED
      BY <1>5, <2>1, <3>1 DEF Fits, Prevalidated, SupervisorReturned,
         ValidatorReturned, ValidatorApproved
  <2>3. ASSUME NEW q \in DOMAIN requests, q # r
        PROVE  Fits(q)'
    <3>1. Verdicts(q)' = Verdicts(q) /\ Fits(q) /\ requests'[q] = requests[q]
      BY <1>2, <1>5, <2>3, VerdictsGrow DEF DecisionsInv
    <3> QED
      BY <3>1 DEF Fits
  <2> DEFINE row == Row(u, r, stage, outcome)
  <2>4. /\ row.request = r /\ row.stage = stage /\ row.outcome = outcome
        /\ row.actor = u /\ row.cites = Cites(r, stage, outcome)
    BY DEF Row
  <2> HIDE DEF row
  <2>5. ASSUME NEW d \in decisions, d.request = r, d.stage = stage
        PROVE  FALSE
    <3>1. <<d.stage, d.outcome>> \in Verdicts(r)
      BY <2>5 DEF Verdicts
    <3>2. d.stage # "supervisor" \/ requests[r].state # "submitted"
      BY <2>1, <3>1 DEF Fits
    <3>3. requests[r].state = "prevalidated" => d.stage = "supervisor"
      BY <2>1, <3>1 DEF Fits, Prevalidated
    <3> QED
      BY <1>5, <2>5, <3>2, <3>3
  <2>6. OnePerStage'
    BY <1>5, <2>4, <2>5 DEF row, DecisionsInv, OnePerStage
  <2>7. \A d : d = row => Cited(d)'
    <3>1. /\ requests'[r].kind = requests[r].kind
          /\ requests'[r].excluded = requests[r].excluded
      BY <1>2 DEF SameFacts
    <3> QED
      BY <1>5, <2>4, <3>1 DEF Cited, Cites
  <2>8. \A d \in decisions' : Cited(d)'
    BY <1>3, <1>5, <2>7 DEF row
  <2> QED
    BY <1>2, <2>2, <2>3, <2>6, <2>8 DEF DecisionsInv
<1> QED
  BY <1>1, <1>4, <1>5, Judgement

(* In every reachable state the deferred triggers on the decision tables find
   nothing to refuse. *)
THEOREM StatesMatchDecisions == Spec => []StateMatchesDecisions
<1>1. Init => DecisionsInv
  BY InitType DEF Init, DecisionsInv, OnePerStage
<1>2. DecisionsInv /\ [Next]_vars => DecisionsInv'
  <2> SUFFICES ASSUME DecisionsInv, [Next]_vars PROVE DecisionsInv'
    OBVIOUS
  <2>1. TypeInv'
    BY StepType DEF DecisionsInv
  <2> QED
    BY <2>1, StepCases, PlanStepScope, PlanDecisions, SubmissionDecisions,
       ReviewDecisions DEF CloseActivity, Quiet, reviews
<1>3. DecisionsInv => StateMatchesDecisions
  BY FitsMatches
<1> QED
  BY <1>1, <1>2, <1>3, PTL DEF Spec

-----------------------------------------------------------------------------
(* What happened at the bank.  The amounts of the confirmations and
   reversements are those of a payment and a virement that are approved, so
   they stay what they were; a reversement keeps the confirmation it follows
   because none can be added after it. *)

(* The spending of a payment was complete and within the allocation. *)
Figured(r) ==
    requests[r].kind # "virement" =>
        /\ Complete(requests[r].basis.work)
        /\ Spent(requests[r].basis.work) <= requests[r].basis.allocation

Transferred(v) ==
    /\ v \in DOMAIN requests
    /\ requests[v].kind = "virement" /\ requests[v].state = "approved"

ConfirmationSound(row) ==
    /\ row \in Confirmation
    /\ Transferred(row.request)
    /\ row.amount = AmountPaid(row.request)

ReversementSound(row) ==
    /\ row \in Reversement
    /\ Transferred(row.request)
    /\ row.amount = Required(row.request) /\ row.amount > 0
    /\ row.confirmation \in Rows(confirmations, row.request)
    /\ row.confirmation = Latest(confirmations, row.request)
    /\ confirmations[row.confirmation].date <= row.date
    /\ row.date <= today

SettlementInv ==
    /\ ChainInv
    /\ role \in [User -> Role] /\ roleChanges \in Nat
    /\ allocation # 0 /\ today \in Nat
    /\ \A r \in DOMAIN requests : Figured(r)
    /\ confirmations \in Seq(Confirmation)
    /\ reversements \in Seq(Reversement)
    /\ \A i \in DOMAIN confirmations : ConfirmationSound(confirmations[i])
    /\ \A i \in DOMAIN reversements : ReversementSound(reversements[i])

LEMMA SpentNat ==
  ASSUME NEW facts \in [Operation -> Nat]
  PROVE  Spent(facts) \in Nat
<1>1. Spent(facts) = SumFunctionOnSet(facts, Operation)
  BY DEF Spent, SumFunction
<1> QED
  BY <1>1, SumNat, OperationsAssumption

LEMMA CompleteNat ==
  ASSUME NEW facts \in Work, Complete(facts)
  PROVE  Spent(facts) \in Nat
<1>1. facts \in [Operation -> Nat]
  BY AmountAssumption DEF Work, Complete
<1> QED
  BY <1>1, SpentNat

(* The latest row of a request, once it has one. *)
LEMMA LatestRow ==
  ASSUME NEW S, NEW rows \in Seq(S), NEW v
  PROVE  /\ Rows(rows, v) = {} => Latest(rows, v) = 0
         /\ Rows(rows, v) # {} => Latest(rows, v) \in Rows(rows, v)
         /\ Rows(rows, v) \subseteq Nat \ {0}
<1> DEFINE R == Rows(rows, v)
<1>1. R \subseteq 1..Len(rows) /\ Len(rows) \in Nat
  BY DEF Rows
<1>2. Latest(rows, v) = CHOOSE i \in R \cup {0} : \A j \in R : j <= i
  BY DEF Latest
<1> HIDE DEF R
<1>3. R = {} => Latest(rows, v) = 0
  BY <1>2
<1>4. ASSUME R # {}
      PROVE  Latest(rows, v) \in R
  <2>1. \E n \in R : \A m \in R : m <= n
    <3>1. R \subseteq Nat /\ \A n \in R : n <= Len(rows)
      BY <1>1
    <3> QED
      BY <1>1, <1>4, <3>1, GreatestNatural
  <2>2. /\ Latest(rows, v) \in R \cup {0}
        /\ \A m \in R : m <= Latest(rows, v)
    BY <1>2, <2>1
  <2>3. PICK m \in R : TRUE
    BY <1>4
  <2>4. m \in 1..Len(rows)
    BY <1>1
  <2>5. ~(m <= 0)
    BY <1>1, <2>4
  <2> QED
    BY <2>2, <2>5
<1> QED
  BY <1>1, <1>3, <1>4 DEF R

LEMMA AppendedRow ==
  ASSUME NEW S, NEW rows \in Seq(S), NEW row \in S
  PROVE  LET grown == Append(rows, row)
         IN  /\ grown \in Seq(S)
             /\ DOMAIN grown = DOMAIN rows \cup {Len(rows) + 1}
             /\ grown[Len(rows) + 1] = row
             /\ \A i \in DOMAIN rows : grown[i] = rows[i]
             /\ \A v : Rows(rows, v) \subseteq Rows(grown, v)
             /\ \A v : v # row.request =>
                    /\ Rows(grown, v) = Rows(rows, v)
                    /\ Latest(grown, v) = Latest(rows, v)
<1> DEFINE grown == Append(rows, row)
<1>1. /\ grown \in Seq(S)
      /\ DOMAIN grown = DOMAIN rows \cup {Len(rows) + 1}
      /\ grown[Len(rows) + 1] = row
      /\ \A i \in DOMAIN rows : grown[i] = rows[i]
  OBVIOUS
<1> HIDE DEF grown
<1>2. \A v : Rows(rows, v) \subseteq Rows(grown, v)
  BY <1>1 DEF Rows
<1>3. \A v : v # row.request => Rows(grown, v) = Rows(rows, v)
  BY <1>1 DEF Rows
<1>4. ASSUME NEW v, v # row.request
      PROVE  Latest(grown, v) = Latest(rows, v)
  <2>1. Rows(grown, v) = Rows(rows, v)
    BY <1>3, <1>4
  <2> QED
    BY <2>1, Zenon DEF Latest
<1> QED
  BY <1>1, <1>2, <1>3, <1>4 DEF grown

(* What a virement that is approved was paid from is still what is spent. *)
LEMMA Paid ==
  ASSUME ChainInv, \A r \in DOMAIN requests : Figured(r),
         NEW v, Transferred(v)
  PROVE  /\ requests[v].source \in Current("disbursement")
         /\ requests[requests[v].source].state = "approved"
         /\ requests[requests[v].source].basis = Live
         /\ ~paused /\ Settleable
         /\ Spent(work) \in Nat /\ Spent(work) > 0 /\ allocation \in Nat
         /\ AmountPaid(v) = Spent(work)
         /\ Required(v) = allocation - Spent(work)
<1> DEFINE s == requests[v].source
<1>1. /\ s \in DOMAIN requests
      /\ requests[s].kind = "disbursement" /\ requests[s].state = "approved"
  BY DEF ChainInv, VirementOnPayment, Transferred
<1> HIDE DEF s
<1>2. s \in Current("disbursement")
  BY <1>1 DEF Current, Active
<1>3. requests[s].basis = Live /\ ~paused
  BY <1>2 DEF ChainInv, BasisStands
<1>4. Live.work = work /\ Live.allocation = allocation
  BY DEF Live
<1>5. Complete(work) /\ Spent(work) <= allocation
  BY <1>1, <1>3, <1>4 DEF Figured
<1>6. Spent(work) > 0
  BY <1>1, <1>3, <1>4 DEF ChainInv, KindBySpending
<1>7. Spent(work) \in Nat /\ allocation \in Nat
  BY <1>5, CompleteNat, AmountAssumption DEF ChainInv, TypeInv
<1>8. AmountPaid(v) = Spent(work) /\ Required(v) = allocation - Spent(work)
  BY <1>3, <1>4 DEF AmountPaid, Required, s
<1> QED
  BY <1>1, <1>2, <1>3, <1>5, <1>6, <1>7, <1>8 DEF s, Settleable

LEMMA TransferStands ==
  ASSUME ChainInv, [Next]_vars, NEW v, Transferred(v)
  PROVE  /\ Transferred(v)'
         /\ AmountPaid(v)' = AmountPaid(v) /\ Required(v)' = Required(v)
<1> DEFINE s == requests[v].source
<1>1. /\ v \in DOMAIN requests /\ ~Open(v)
      /\ s \in DOMAIN requests /\ ~Open(s)
  BY DEF ChainInv, VirementOnPayment, Transferred, Open
<1>2. /\ v \in DOMAIN requests' /\ requests'[v] = requests[v]
      /\ requests'[s] = requests[s]
  BY <1>1, OutcomeKept DEF ChainInv
<1> QED
  BY <1>2 DEF Transferred, AmountPaid, Required

(* The basis of a request was complete and within the allocation when it was
   submitted, and is never rewritten. *)
LEMMA FiguresKept ==
  ASSUME TypeInv, \A r \in DOMAIN requests : Figured(r), [Next]_vars
  PROVE  \A r \in DOMAIN requests' : Figured(r)'
<1>1. ASSUME NEW u \in User, Submitted(u)
      PROVE  \A r \in DOMAIN requests' : Figured(r)'
  <2>1. PICK row \in Request :
            /\ requests' = Append(requests, row)
            /\ \/ row = PaymentRow(u, "disbursement") /\ SubmitDisbursement(u)
               \/ row = PaymentRow(u, "zero") /\ SubmitZeroSpending(u)
               \/ \E s \in DOMAIN requests :
                     row = VirementRow(u, s) /\ SubmitVirement(u, s)
    BY <1>1, Submission
  <2>2. row.kind # "virement" => row.basis = Live /\ Settleable
    BY <2>1 DEF PaymentRow, VirementRow, SubmitDisbursement, SubmitZeroSpending,
       Payable
  <2>3. row.kind # "virement" =>
            /\ Complete(row.basis.work)
            /\ Spent(row.basis.work) <= row.basis.allocation
    BY <2>2 DEF Live, Settleable
  <2>4. ASSUME NEW r \in DOMAIN requests'
        PROVE  Figured(r)'
    <3>1. \/ r \in DOMAIN requests /\ requests'[r] = requests[r]
          \/ requests'[r] = row
      BY <2>1 DEF TypeInv
    <3> QED
      BY <2>3, <3>1 DEF Figured
  <2> QED
    BY <2>4
<1>2. ASSUME NEW u \in User, NEW q \in DOMAIN requests, Reviewed(u, q)
      PROVE  \A r \in DOMAIN requests' : Figured(r)'
  <2>1. DOMAIN requests' = DOMAIN requests
        /\ \A r \in DOMAIN requests : SameFacts(r)
    BY <1>2, Review
  <2>2. ASSUME NEW r \in DOMAIN requests
        PROVE  Figured(r)'
    BY <2>1, Kinds DEF SameFacts, Figured
  <2> QED
    BY <2>1, <2>2
<1>3. ASSUME requests' = requests
      PROVE  \A r \in DOMAIN requests' : Figured(r)'
  BY <1>3 DEF Figured
<1> QED
  BY <1>1, <1>2, <1>3, StepCases, PlanStepScope
     DEF CloseActivity, Quiet, reviews

(* The people, the allocation and the calendar. *)
LEMMA PeopleKept ==
  ASSUME role \in [User -> Role], roleChanges \in Nat, allocation # 0,
         today \in Nat, [Next]_vars
  PROVE  /\ role' \in [User -> Role] /\ roleChanges' \in Nat
         /\ allocation' # 0
         /\ today' \in Nat /\ today <= today'
<1>1. ASSUME NEW u \in User, NEW r, ChangeRole(u, r)
      PROVE  /\ role' \in [User -> Role] /\ roleChanges' \in Nat
             /\ allocation' # 0 /\ today' = today
  BY <1>1 DEF ChangeRole, planning
<1>2. ASSUME NewDay
      PROVE  /\ UNCHANGED <<role, roleChanges, allocation>>
             /\ today' = today + 1
  BY <1>2 DEF NewDay, people, planning
<1>3. ASSUME NEW a \in Amount \ {0}, ApproveRevision(a)
      PROVE  /\ UNCHANGED <<role, roleChanges, today>>
             /\ allocation' # 0
  BY <1>3 DEF ApproveRevision, people
<1>4. ASSUME NEW u, NEW r, Reviewed(u, r)
      PROVE  UNCHANGED <<role, roleChanges, allocation, today>>
  BY <1>4 DEF Reviewed, Prevalidate, ApproveRequest, Return, Cancel, Move,
     people, planning
<1>5. ASSUME NEW u, Submitted(u) \/ CloseActivity(u) \/ Pause(u) \/ Contribute(u)
             \/ Resume \/ \E o \in Operation : \E a \in Amount \cup {Unfinished} :
                              Execute(u, o, a)
      PROVE  UNCHANGED <<role, roleChanges, allocation, today>>
  BY <1>5 DEF Submitted, SubmitDisbursement, SubmitZeroSpending, SubmitVirement,
     Submit, CloseActivity, Pause, Contribute, Resume, Execute, people, planning
<1>6. ASSUME NEW v, NEW date, NEW note,
             \/ CreateConfirmation(v, date, note)
             \/ CreateReversement(v, date, note)
      PROVE  UNCHANGED <<role, roleChanges, allocation, today>>
  BY <1>6 DEF CreateConfirmation, CreateReversement, people, planning
<1>7. ASSUME NEW u, NEW v, NEW date, NEW note,
             \/ Confirm(u, v, date, note) \/ CorrectConfirmation(u, v, date, note)
             \/ Declare(u, v, date, note) \/ CorrectReversement(u, v, date, note)
      PROVE  UNCHANGED <<role, roleChanges, allocation, today>>
  BY <1>6, <1>7 DEF Confirm, CorrectConfirmation, Declare, CorrectReversement
<1>8. ASSUME UNCHANGED vars
      PROVE  UNCHANGED <<role, roleChanges, allocation, today>>
  BY <1>8 DEF vars, people, planning
<1>9. ASSUME UNCHANGED <<role, roleChanges, allocation, today>>
      PROVE  /\ role' \in [User -> Role] /\ roleChanges' \in Nat
             /\ allocation' # 0
             /\ today' \in Nat /\ today <= today'
  BY <1>9
<1>10. CASE Next
  <2>1. \/ \E u \in User : \E r \in Role : ChangeRole(u, r)
        \/ NewDay
        \/ \E a \in Amount \ {0} : ApproveRevision(a)
        \/ UNCHANGED <<role, roleChanges, allocation, today>>
    BY <1>4, <1>5, <1>7, <1>10, Zenon DEF Next, Submitted, Reviewed
  <2> QED
    BY <1>1, <1>2, <1>3, <1>9, <2>1
<1> QED
  BY <1>8, <1>9, <1>10

(* What a step does to the declarations of the bank. *)
Confirmed(v, date, note) ==
    /\ CreateConfirmation(v, date, note)
    /\ Settled(v)
    /\ Rows(confirmations, v) = {} \/ Rows(reversements, v) = {}

Returned(v, date, note) ==
    /\ CreateReversement(v, date, note)
    /\ Settled(v)
    /\ Rows(confirmations, v) # {}
    /\ Required(v) > 0

LEMMA BankCases ==
  ASSUME [Next]_vars
  PROVE  \/ \E v \in DOMAIN requests : \E date \in 1..LastDay : \E note \in Note :
                Confirmed(v, date, note) \/ Returned(v, date, note)
         \/ UNCHANGED <<confirmations, reversements>>
<1>1. ASSUME NEW u, NEW v, NEW date, NEW note,
             Confirm(u, v, date, note) \/ CorrectConfirmation(u, v, date, note)
      PROVE  Confirmed(v, date, note)
  BY <1>1 DEF Confirm, CorrectConfirmation, MayConfirm, MayCorrectConfirmation,
     Confirmed
<1>2. ASSUME NEW u, NEW v, NEW date, NEW note,
             Declare(u, v, date, note) \/ CorrectReversement(u, v, date, note)
      PROVE  Returned(v, date, note)
  BY <1>2 DEF Declare, CorrectReversement, MayDeclare, MayCorrectReversement,
     Returnable, Returned
<1>3. ASSUME NEW u, NEW r, Reviewed(u, r) \/ ChangeRole(u, r)
      PROVE  UNCHANGED <<confirmations, reversements>>
  BY <1>3 DEF Reviewed, Prevalidate, ApproveRequest, Return, Cancel, Move,
     ChangeRole, declared
<1>4. ASSUME NEW u, Submitted(u) \/ CloseActivity(u) \/ Pause(u) \/ Contribute(u)
             \/ \E o \in Operation : \E a \in Amount \cup {Unfinished} :
                              Execute(u, o, a)
      PROVE  UNCHANGED <<confirmations, reversements>>
  BY <1>4 DEF Submitted, SubmitDisbursement, SubmitZeroSpending, SubmitVirement,
     Submit, CloseActivity, Pause, Contribute, Execute, declared
<1>5. ASSUME Resume \/ NewDay \/ (\E a \in Amount \ {0} : ApproveRevision(a))
      PROVE  UNCHANGED <<confirmations, reversements>>
  BY <1>5 DEF Resume, NewDay, ApproveRevision, declared
<1>6. ASSUME UNCHANGED vars
      PROVE  UNCHANGED <<confirmations, reversements>>
  BY <1>6 DEF vars, declared
<1> QED
  BY <1>1, <1>2, <1>3, <1>4, <1>5, <1>6, Zenon DEF Next, Submitted, Reviewed

LEMMA SettledTransfer ==
  ASSUME NEW v \in DOMAIN requests, Settled(v)
  PROVE  Transferred(v)
BY DEF Settled, Transferred

(* A confirmation stays sound, because its virement stays approved. *)
LEMMA ConfirmationKept ==
  ASSUME ChainInv, [Next]_vars, NEW row, ConfirmationSound(row)
  PROVE  ConfirmationSound(row)'
BY TransferStands DEF ConfirmationSound

(* So does a reversement, as long as no confirmation follows it. *)
LEMMA ReversementKept ==
  ASSUME ChainInv, [Next]_vars, today \in Nat, today' \in Nat, today <= today',
         NEW row, ReversementSound(row),
         Latest(confirmations', row.request) = Latest(confirmations, row.request),
         Rows(confirmations, row.request) \subseteq Rows(confirmations', row.request),
         confirmations'[row.confirmation] = confirmations[row.confirmation]
  PROVE  ReversementSound(row)'
<1>1. /\ Transferred(row.request)'
      /\ Required(row.request)' = Required(row.request)
  BY TransferStands DEF ReversementSound
<1>2. row.date <= today'
  <2>1. row.date \in Nat
    BY DEF ReversementSound, Reversement
  <2> QED
    BY <2>1 DEF ReversementSound
<1> QED
  BY <1>1, <1>2 DEF ReversementSound

LEMMA ConfirmedSettlement ==
  ASSUME SettlementInv, [Next]_vars,
         NEW v \in DOMAIN requests, NEW date \in 1..LastDay, NEW note \in Note,
         Confirmed(v, date, note), today' \in Nat, today <= today'
  PROVE  /\ confirmations' \in Seq(Confirmation)
         /\ reversements' = reversements
         /\ \A i \in DOMAIN confirmations' : ConfirmationSound(confirmations[i])'
         /\ \A i \in DOMAIN reversements : ReversementSound(reversements[i])'
<1> DEFINE row == [request |-> v, amount |-> AmountPaid(v), date |-> date,
                   note |-> note]
<1>1. confirmations' = Append(confirmations, row) /\ reversements' = reversements
  BY DEF Confirmed, CreateConfirmation
<1>2. Transferred(v)
  BY SettledTransfer DEF Confirmed
<1>3. row.request = v /\ row.amount = AmountPaid(v)
  OBVIOUS
<1>4. row \in Confirmation
  <2>1. AmountPaid(v) \in Int
    BY <1>2, Paid DEF SettlementInv
  <2>2. v \in Nat /\ date \in Nat
    BY BoundsAssumption DEF SettlementInv, ChainInv, TypeInv
  <2> QED
    BY <2>1, <2>2 DEF Confirmation
<1>5. ConfirmationSound(row)
  BY <1>2, <1>3, <1>4 DEF ConfirmationSound
<1>a. confirmations \in Seq(Confirmation)
  BY DEF SettlementInv
<1> HIDE DEF row
<1>6. /\ confirmations' \in Seq(Confirmation)
      /\ DOMAIN confirmations' = DOMAIN confirmations \cup {Len(confirmations) + 1}
      /\ confirmations'[Len(confirmations) + 1] = row
      /\ \A i \in DOMAIN confirmations : confirmations'[i] = confirmations[i]
      /\ \A w : Rows(confirmations, w) \subseteq Rows(confirmations', w)
      /\ \A w : w # v => Latest(confirmations', w) = Latest(confirmations, w)
  BY <1>1, <1>3, <1>4, <1>a, AppendedRow
<1>7. ASSUME NEW c, ConfirmationSound(c)
      PROVE  ConfirmationSound(c)'
  BY <1>7, ConfirmationKept DEF SettlementInv
<1>8. ASSUME NEW i \in DOMAIN confirmations'
      PROVE  ConfirmationSound(confirmations[i])'
  <2>1. PICK c : c = confirmations'[i] /\ ConfirmationSound(c)
    BY <1>5, <1>6 DEF SettlementInv
  <2>2. ConfirmationSound(c)'
    BY <1>7, <2>1
  <2> QED
    BY <2>1, <2>2 DEF ConfirmationSound
<1>9. ASSUME NEW i \in DOMAIN reversements
      PROVE  ReversementSound(reversements[i])'
  <2>1. PICK d : d = reversements[i] /\ ReversementSound(d)
    BY DEF SettlementInv
  <2>2. d.request # v
    BY <1>1, <2>1 DEF Confirmed, ReversementSound, Rows
  <2>3. d.confirmation \in DOMAIN confirmations
    BY <2>1 DEF ReversementSound, Rows
  <2>4. ReversementSound(d)'
    BY <1>6, <2>1, <2>2, <2>3, ReversementKept DEF SettlementInv
  <2> QED
    BY <1>1, <2>1, <2>4
<1> QED
  BY <1>1, <1>6, <1>8, <1>9

LEMMA ReturnedSettlement ==
  ASSUME SettlementInv, [Next]_vars,
         NEW v \in DOMAIN requests, NEW date \in 1..LastDay, NEW note \in Note,
         Returned(v, date, note), today' \in Nat, today <= today'
  PROVE  /\ reversements' \in Seq(Reversement)
         /\ confirmations' = confirmations
         /\ \A i \in DOMAIN confirmations : ConfirmationSound(confirmations[i])'
         /\ \A i \in DOMAIN reversements' : ReversementSound(reversements[i])'
<1> DEFINE last == Latest(confirmations, v)
<1> DEFINE row == [request |-> v, confirmation |-> last, amount |-> Required(v),
                   date |-> date, note |-> note]
<1>1. /\ reversements' = Append(reversements, row)
      /\ confirmations' = confirmations
      /\ date \in confirmations[last].date .. today
  BY DEF Returned, CreateReversement
<1>2. Transferred(v)
  BY SettledTransfer DEF Returned
<1>3. /\ row.request = v /\ row.amount = Required(v) /\ row.confirmation = last
      /\ row.date = date
  OBVIOUS
<1>a. /\ confirmations \in Seq(Confirmation) /\ reversements \in Seq(Reversement)
      /\ today \in Nat
  BY DEF SettlementInv
<1>4. last \in Rows(confirmations, v) /\ last \in DOMAIN confirmations /\ last \in Nat
  BY <1>a, LatestRow DEF Returned, Rows
<1> HIDE DEF last
<1>5. row \in Reversement
  <2>1. Required(v) \in Int
    BY <1>2, Paid DEF SettlementInv
  <2>2. v \in Nat /\ date \in Nat
    BY BoundsAssumption DEF SettlementInv, ChainInv, TypeInv
  <2> QED
    BY <1>4, <2>1, <2>2 DEF Reversement
<1> HIDE DEF row
<1>6. confirmations[last].date <= date /\ date <= today
  <2>1. confirmations[last].date \in Nat
    <3>1. confirmations[last] \in Confirmation
      BY <1>4, <1>a
    <3> QED
      BY <3>1 DEF Confirmation
  <2> QED
    BY <1>1, <1>a, <2>1
<1>7. ReversementSound(row)
  BY <1>2, <1>3, <1>4, <1>5, <1>6 DEF ReversementSound, Returned, last
<1>8. /\ reversements' \in Seq(Reversement)
      /\ DOMAIN reversements' = DOMAIN reversements \cup {Len(reversements) + 1}
      /\ reversements'[Len(reversements) + 1] = row
      /\ \A i \in DOMAIN reversements : reversements'[i] = reversements[i]
  BY <1>1, <1>5, <1>a, AppendedRow
<1>9. ASSUME NEW i \in DOMAIN confirmations
      PROVE  ConfirmationSound(confirmations[i])'
  <2>1. PICK c : c = confirmations[i] /\ ConfirmationSound(c)
    BY DEF SettlementInv
  <2>2. ConfirmationSound(c)'
    BY <2>1, ConfirmationKept DEF SettlementInv
  <2> QED
    BY <1>1, <2>1, <2>2 DEF ConfirmationSound
<1>10. ASSUME NEW d, ReversementSound(d)
       PROVE  ReversementSound(d)'
  BY <1>1, <1>10, ReversementKept DEF SettlementInv
<1>11. ASSUME NEW i \in DOMAIN reversements'
       PROVE  ReversementSound(reversements[i])'
  <2>1. PICK d : d = reversements'[i] /\ ReversementSound(d)
    BY <1>7, <1>8 DEF SettlementInv
  <2>2. ReversementSound(d)'
    BY <1>10, <2>1
  <2> QED
    BY <2>1, <2>2 DEF ReversementSound
<1> QED
  BY <1>1, <1>8, <1>9, <1>11

LEMMA StepSettlement ==
  ASSUME SettlementInv, [Next]_vars
  PROVE  SettlementInv'
<1>1. ChainInv'
  BY StepChain DEF SettlementInv
<1>2. /\ role' \in [User -> Role] /\ roleChanges' \in Nat
      /\ allocation' # 0
      /\ today' \in Nat /\ today <= today'
  BY PeopleKept DEF SettlementInv
<1>3. \A r \in DOMAIN requests' : Figured(r)'
  BY FiguresKept DEF SettlementInv, ChainInv
<1> DEFINE Sound ==
        /\ confirmations \in Seq(Confirmation)
        /\ reversements \in Seq(Reversement)
        /\ \A i \in DOMAIN confirmations : ConfirmationSound(confirmations[i])
        /\ \A i \in DOMAIN reversements : ReversementSound(reversements[i])
<1>4. ASSUME NEW v \in DOMAIN requests, NEW date \in 1..LastDay, NEW note \in Note,
             Confirmed(v, date, note)
      PROVE  Sound'
  BY <1>2, <1>4, ConfirmedSettlement DEF SettlementInv
<1>5. ASSUME NEW v \in DOMAIN requests, NEW date \in 1..LastDay, NEW note \in Note,
             Returned(v, date, note)
      PROVE  Sound'
  BY <1>2, <1>5, ReturnedSettlement DEF SettlementInv
<1>6. ASSUME UNCHANGED <<confirmations, reversements>>
      PROVE  Sound'
  <2>1. ASSUME NEW i \in DOMAIN confirmations
        PROVE  ConfirmationSound(confirmations[i])'
    <3>1. PICK c : c = confirmations[i] /\ ConfirmationSound(c)
      BY DEF SettlementInv
    <3>2. ConfirmationSound(c)'
      BY <3>1, ConfirmationKept DEF SettlementInv
    <3> QED
      BY <1>6, <3>1, <3>2 DEF ConfirmationSound
  <2>2. ASSUME NEW i \in DOMAIN reversements
        PROVE  ReversementSound(reversements[i])'
    <3>1. PICK d : d = reversements[i] /\ ReversementSound(d)
      BY DEF SettlementInv
    <3>2. ReversementSound(d)'
      BY <1>2, <1>6, <3>1, ReversementKept DEF SettlementInv
    <3> QED
      BY <1>6, <3>1, <3>2 DEF ReversementSound
  <2> QED
    BY <1>6, <2>1, <2>2 DEF SettlementInv
<1>7. Sound'
  BY <1>4, <1>5, <1>6, BankCases
<1> QED
  BY <1>1, <1>2, <1>3, <1>7 DEF SettlementInv

LEMMA InitSettlement == Init => SettlementInv
<1> SUFFICES ASSUME Init PROVE SettlementInv
  OBVIOUS
<1>1. role \in [User -> Role]
  BY RolesAssumption DEF Init
<1> QED
  BY <1>1, InitChain DEF Init, SettlementInv

LEMMA SettlementInvariant == Spec => []SettlementInv
BY InitSettlement, StepSettlement, PTL DEF Spec

(* Every row has its type, every payment and every declaration of the bank its
   positive amount. *)
THEOREM ChainAccepted == Spec => []DatabaseAccepts
<1>1. ASSUME SettlementInv
      PROVE  TypeOK
  <2>1. \A i \in DOMAIN confirmations : confirmations[i].amount > 0
    BY <1>1, Paid DEF SettlementInv, ConfirmationSound
  <2>2. \A i \in DOMAIN reversements : reversements[i].amount > 0
    BY <1>1 DEF SettlementInv, ReversementSound
  <2>3. /\ role \in [User -> Role] /\ roleChanges \in Nat /\ today \in Nat
        /\ confirmations \in Seq(Confirmation)
        /\ reversements \in Seq(Reversement)
    BY <1>1 DEF SettlementInv
  <2>4. /\ revision \in Nat /\ allocation \in Amount \ {0}
        /\ paused \in BOOLEAN /\ closed \in BOOLEAN
        /\ contributors \subseteq User /\ authors \subseteq User
        /\ work \in Work /\ requests \in Seq(Payment \cup Virement)
        /\ decisions \subseteq Decision
    BY <1>1 DEF SettlementInv, ChainInv, TypeInv, Request
  <2>5. \A r \in DOMAIN requests :
            requests[r].kind = "disbursement" => Spent(requests[r].basis.work) > 0
    BY <1>1 DEF SettlementInv, ChainInv, KindBySpending
  <2> QED
    BY <2>1, <2>2, <2>3, <2>4, <2>5 DEF TypeOK
<1>2. TypeOK /\ StateMatchesDecisions => DatabaseAccepts
  BY DEF DatabaseAccepts
<1> QED
  BY <1>1, <1>2, SettlementInvariant, StatesMatchDecisions, PTL

(* What is returned is what the confirmation that counts left of the
   allocation. *)
THEOREM ReturnsFollowTransfers == Spec => []ReturnFollowsTransfer
<1>1. ASSUME SettlementInv, NEW i \in DOMAIN reversements
      PROVE  LET confirmed == reversements[i].confirmation
                 last == Latest(confirmations, reversements[i].request)
             IN  /\ confirmed = last
                 /\ confirmations[last].amount + reversements[i].amount = allocation
                 /\ confirmations[last].date <= reversements[i].date
                 /\ reversements[i].date <= today
  <2> DEFINE row == reversements[i]
  <2> DEFINE c == row.confirmation
  <2>1. ReversementSound(row)
    BY <1>1 DEF SettlementInv
  <2>2. c \in DOMAIN confirmations /\ confirmations[c].request = row.request
    BY <2>1 DEF ReversementSound, Rows
  <2>3. ConfirmationSound(confirmations[c])
    BY <1>1, <2>2 DEF SettlementInv
  <2> HIDE DEF row, c
  <2>4. /\ Transferred(row.request)
        /\ row.amount = Required(row.request)
        /\ confirmations[c].amount = AmountPaid(row.request)
    BY <2>1, <2>2, <2>3 DEF ReversementSound, ConfirmationSound
  <2>5. confirmations[c].amount + row.amount = allocation
    <3>1. /\ Spent(work) \in Nat /\ allocation \in Nat
          /\ AmountPaid(row.request) = Spent(work)
          /\ Required(row.request) = allocation - Spent(work)
      BY <1>1, <2>4, Paid DEF SettlementInv
    <3> QED
      BY <2>4, <3>1
  <2>6. /\ c = Latest(confirmations, row.request)
        /\ confirmations[c].date <= row.date /\ row.date <= today
    BY <2>1 DEF ReversementSound, c
  <2> QED
    BY <2>5, <2>6 DEF row, c
<1>2. SettlementInv => ReturnFollowsTransfer
  BY <1>1 DEF ReturnFollowsTransfer
<1> QED
  BY <1>2, SettlementInvariant, PTL

-----------------------------------------------------------------------------
(* Closing, with what it settled. *)

LEMMA ClosureSettles ==
  ASSUME SettlementInv, NEW u \in User, CloseActivity(u)
  PROVE  /\ Complete(work)
         /\ \/ /\ Spent(work) = 0
               /\ \E z \in Current("zero") : /\ requests[z].state = "approved"
                                             /\ requests[z].basis = Live
            \/ \E v \in Current("virement") :
                   LET c == Latest(confirmations, v)
                       d == Latest(reversements, v)
                   IN  /\ requests[v].state = "approved"
                       /\ requests[requests[v].source].state = "approved"
                       /\ c # 0
                       /\ confirmations[c].amount = Spent(work)
                       /\ confirmations[c].amount
                          + (IF d = 0 THEN 0 ELSE reversements[d].amount)
                          = allocation
<1>1. Complete(work) /\ Settleable
  BY DEF CloseActivity, Settleable
<1>2. CASE Spent(work) = 0
  <2>1. PICK z \in DOMAIN requests :
            requests[z].kind = "zero" /\ requests[z].state = "approved"
    BY <1>2 DEF CloseActivity, NoSpendingApproved
  <2>2. z \in Current("zero")
    BY <2>1 DEF Current, Active
  <2>3. requests[z].basis = Live
    BY <2>2 DEF SettlementInv, ChainInv, BasisStands
  <2> QED
    BY <1>1, <1>2, <2>1, <2>2, <2>3
<1>3. CASE Spent(work) # 0
  <2>1. PICK s \in Current("disbursement"), v \in Current("virement") :
            /\ requests[s].state = "approved"
            /\ requests[v].state = "approved" /\ requests[v].source = s
            /\ Latest(confirmations, v) # 0
            /\ confirmations[Latest(confirmations, v)].amount = Spent(work)
            /\ ReturnSettled(v)
    BY <1>3 DEF CloseActivity, PaymentSettled
  <2>2. Transferred(v)
    BY <2>1 DEF Transferred, Current
  <2>3. /\ Spent(work) \in Nat /\ allocation \in Nat
        /\ Spent(work) <= allocation
        /\ Required(v) = allocation - Spent(work)
    BY <2>2, Paid DEF SettlementInv, Settleable
  <2> DEFINE d == Latest(reversements, v)
  <2>4. CASE allocation = Spent(work)
    <3>1. Rows(reversements, v) = {}
      <4> SUFFICES ASSUME NEW i \in Rows(reversements, v) PROVE FALSE
        OBVIOUS
      <4>1. /\ ReversementSound(reversements[i])
            /\ reversements[i].request = v
        BY DEF SettlementInv, Rows
      <4>2. Required(v) > 0
        BY <4>1 DEF ReversementSound
      <4> QED
        BY <2>3, <2>4, <4>2
    <3>2. d = 0
      BY <3>1, LatestRow DEF SettlementInv
    <3> QED
      BY <1>1, <2>1, <2>3, <2>4, <3>2
  <2>5. CASE allocation # Spent(work)
    <3>1. allocation - Spent(work) > 0
      BY <2>3, <2>5
    <3>2. d # 0 /\ reversements[d].amount = allocation - Spent(work)
      BY <2>1, <3>1 DEF ReturnSettled
    <3> HIDE DEF d
    <3>3. Spent(work) + reversements[d].amount = allocation
      BY <2>3, <3>2
    <3> QED
      BY <1>1, <2>1, <3>2, <3>3 DEF d
  <2> QED
    BY <2>4, <2>5
<1> QED
  BY <1>2, <1>3

(* Once closed an Activity is settled, because it was when it closed and
   nothing is written afterwards. *)
THEOREM ClosedAlwaysSettled == Spec => []ClosedSettled
<1> DEFINE Inv == SettlementInv /\ ClosedInv /\ ClosedSettled
<1>1. Init => Inv
  BY InitChain, InitSettlement DEF Init, ClosedInv, ClosedSettled
<1>2. Inv /\ SettlementInv' /\ ClosedInv' /\ [Next]_vars => ClosedSettled'
  <2> SUFFICES ASSUME Inv, [Next]_vars PROVE ClosedSettled'
    OBVIOUS
  <2>1. CASE closed
    <3>1. UNCHANGED <<planning, execution, reviews, declared, closed>>
      BY <2>1, ClosedStep
    <3>2. UNCHANGED <<revision, allocation, work, requests, confirmations,
                      reversements, closed>>
      BY <3>1 DEF planning, execution, reviews, declared
    <3> QED
      BY <3>2 DEF ClosedSettled, Current, Active, Live
  <2>2. ASSUME NEW u \in User, CloseActivity(u)
        PROVE  ClosedSettled'
    <3>1. UNCHANGED <<revision, allocation, work, requests, confirmations,
                      reversements>>
      BY <2>2 DEF CloseActivity, planning, execution, reviews, declared
    <3> QED
      BY <2>2, <3>1, ClosureSettles DEF ClosedSettled, Current, Active, Live
  <2>3. ASSUME ~closed, closed' = closed
        PROVE  ClosedSettled'
    BY <2>3 DEF ClosedSettled
  <2> QED
    BY <2>1, <2>2, <2>3, StepCases, PlanStepScope, SubmissionScope, ReviewScope
       DEF Quiet
<1> QED
  BY <1>1, <1>2, SettlementInvariant, ClosedInvariant, PTL DEF Spec

-----------------------------------------------------------------------------
(* What is offered.  The views look at states and roles alone; that the
   commands, which verify the source and its whole basis again, never refuse
   what is offered rests on the basis standing still. *)

LEMMA SourceVerified ==
  ASSUME SettlementInv, NEW s \in DOMAIN requests,
         requests[s].kind = "disbursement", requests[s].state = "approved",
         ~closed
  PROVE  VerifiedSource(s)
<1>1. s \in Current("disbursement")
  BY DEF Current, Active
<1>2. requests[s].basis = Live /\ ~paused
  BY <1>1 DEF SettlementInv, ChainInv, BasisStands
<1>3. Live.work = work /\ Live.allocation = allocation
  BY DEF Live
<1>4. Complete(work) /\ Spent(work) <= allocation
  BY <1>2, <1>3 DEF SettlementInv, Figured
<1>5. Spent(work) > 0
  BY <1>2, <1>3 DEF SettlementInv, ChainInv, KindBySpending
<1> QED
  BY <1>2, <1>4, <1>5 DEF VerifiedSource, Payable, Settleable, Paused

(* Every action the views offer is one whose command accepts it from the same
   account in the same state, the verified basis included. *)
THEOREM OffersAlwaysAccepted == Spec => []OffersAccepted
<1>1. ASSUME SettlementInv, ClosedInv, NEW u \in User, NEW r \in DOMAIN requests
      PROVE  /\ \A a \in AllowedActions(u, r) : May(u, r, a)
             /\ CanSubmitVirement(u, r) <=> MaySubmitVirement(u, r)
             /\ requests[r].kind = "virement" =>
                    /\ "confirm" \in SettlementActions(u, r) <=> MayConfirm(u, r)
                    /\ "correct_confirmation" \in SettlementActions(u, r)
                           <=> MayCorrectConfirmation(u, r)
                    /\ "declare" \in SettlementActions(u, r) <=> MayDeclare(u, r)
                    /\ "correct" \in SettlementActions(u, r)
                           <=> MayCorrectReversement(u, r)
  <2>1. ASSUME requests[r].kind = "virement"
        PROVE  /\ requests[r].source \in DOMAIN requests
               /\ requests[requests[r].source].kind = "disbursement"
               /\ requests[requests[r].source].state = "approved"
    BY <1>1, <2>1 DEF SettlementInv, ChainInv, VirementOnPayment
  <2>2. ASSUME NEW a \in AllowedActions(u, r)
        PROVE  May(u, r, a)
    <3>1. Open(r)
      BY <2>2 DEF AllowedActions, Cancellable, MayPrevalidate, MayApprove, Open
    <3>2. ~closed
      BY <1>1, <3>1 DEF ClosedInv
    <3>3. SourceStands(r)
      BY <1>1, <2>1, <3>2, SourceVerified DEF SourceStands
    <3> QED
      BY <2>2, <3>3 DEF May
  <2>3. CanSubmitVirement(u, r) <=> MaySubmitVirement(u, r)
    BY <1>1, SourceVerified
       DEF CanSubmitVirement, MaySubmitVirement, VerifiedSource, Paused
  <2>4. ASSUME requests[r].kind = "virement"
        PROVE  Settled(r) <=> requests[r].state = "approved" /\ ~Paused
    <3>1. ASSUME ~Paused
          PROVE  VerifiedSource(requests[r].source)
      BY <1>1, <2>1, <2>4, <3>1, SourceVerified DEF Paused
    <3>2. VerifiedSource(requests[r].source) => ~Paused
      BY DEF VerifiedSource
    <3> QED
      BY <2>4, <3>1, <3>2 DEF Settled
  <2>5. ASSUME requests[r].kind = "virement"
        PROVE  /\ "confirm" \in SettlementActions(u, r) <=> MayConfirm(u, r)
               /\ "correct_confirmation" \in SettlementActions(u, r)
                      <=> MayCorrectConfirmation(u, r)
    BY <2>4, <2>5 DEF SettlementActions, MayConfirm, MayCorrectConfirmation
  <2>6. ASSUME requests[r].kind = "virement"
        PROVE  /\ "declare" \in SettlementActions(u, r) <=> MayDeclare(u, r)
               /\ "correct" \in SettlementActions(u, r)
                      <=> MayCorrectReversement(u, r)
    BY <2>4, <2>6 DEF SettlementActions, MayDeclare, MayCorrectReversement,
       Returnable
  <2> QED
    BY <2>2, <2>3, <2>5, <2>6
<1>2. SettlementInv /\ ClosedInv => OffersAccepted
  BY <1>1 DEF OffersAccepted
<1> QED
  BY <1>2, SettlementInvariant, ClosedInvariant, PTL
=============================================================================
