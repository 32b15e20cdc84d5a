# A formal model of the PTA application

This directory models the server of the repository in TLA+: the program with
which an association plans the Activities of its annual work plans (PTA), has
them reviewed by two people, executes them, and settles their spending. The
modules are translated from the code under `src/`; TLC checks small instances
of them and TLAPS proves the most important results for every instance.

## 1. Inventory

The program is a FastAPI server over one PostgreSQL database, with a React
client. **Every** command that changes planning, finance or accounts opens one
transaction and first takes one advisory lock (`planning/service.py:49`,
`auth/access.py:389`). Commands are therefore serial, and one command is one
action of a model. What remains hard is everything *between* commands: several
people act in an order nobody planned, their roles change meanwhile, clients
act on versions they read long ago, a request is returned, corrected and
submitted again, and the database re-checks the result in deferred triggers
that may roll the command back after its handler was satisfied. Some work takes
several transactions: whatever sends mail (invitations, password resets, sign-in
codes, reminders) prepares a row in one transaction, mails outside of all of them
and records the outcome in another, and anything may happen in between, a crash
included.

| Component | State | Operations | Interacts with |
| --- | --- | --- | --- |
| Activity review (`planning/routes.py`, `service.py`) | Activity row with five pointers and a version, Operation rows, contributors, assignments, immutable revisions and decisions | create, edit, submit; open and cancel an amendment; request and cancel a withdrawal or a transfer; prevalidate, return, approve; assign | reads execution (`assert_never_started`) and settlement (`assert_financially_unfrozen`); writes the assignment that account changes read |
| Projects, Partners, types, PTAs (`planning/routes.py`) | catalogue rows, Project state, idempotency key of a creation | create, close | a Project closes only over ended Activities; a transfer creates the PTA it needs |
| Execution (`planning/execution.py`) | start, completion and spending of each Operation, and the audit events that must tell the same story | start, complete, record and correct spending, close | pauses on every pending change, on insufficient budget and on outstanding funding |
| Disbursement (`planning/disbursement.py`) | requests with a frozen basis, decisions | submit, prevalidate, return, approve, cancel | freezes planning and execution |
| Zero spending (`planning/zero_spending.py`) | declarations, decisions | submit, prevalidate, return, approve | the alternative to a disbursement |
| Virement and its confirmation (`planning/virement*.py`) | requests, decisions, the confirmed date | submit, review, cancel; confirm, correct | built on the approved disbursement |
| Reversement (`planning/reversement.py`) | the declared return of what was not spent | declare, correct | allocation minus spending, after the confirmation |
| Funding (`planning/funding.py`, `funding_basis.py`) | requests for each approved increase of the budget | submit, review, cancel | pauses execution and settlement until every increase is funded |
| Accounts (`auth/access.py`, `auth/service.py`) | users with role, state and version; invitations; reset links | invite, renew, revoke, accept, change role, deactivate; ask for and complete a reset; the tasks that mail the links | refused while an assignment is current; a change ends sessions, links and codes |
| Sign-in (`auth/service.py`) | contexts (anonymous, pending, verified), one code per user, attempt counters | open a context, log in, resend, verify, sign out; the mailing of codes | every command derives its actor here |
| Reminders (`planning/reminders.py`) | one row per Activity, Agent and approved end date | a run creates what is due and mails it; the recipient reads it | reads assignments, approvals and roles |
| Documents (`planning/documents.py`) | documents, their withdrawals and their sharing | upload, withdraw with or without a correction, share, unshare, deliver | the Partner portal shows what is shared |
| Partner portal, audit, reports (`partner_portal/`, `planning/annual_*.py`) | none of their own | list, export | projections of the planning rows |
| Frontend | access state per tab, form state, the versions it last saw | probe, navigate, send commands | sends `expected_version` with each command |

What makes each part correct, and what could go wrong where, is the list of
`hazards` in `PROJECT.json`, each at its line with the properties that cover it.

## 2. Plan

The modules in order of importance; the ones marked * exist.

1. `ActivityReview`* — the two-stage review, the heart of the program. Separation of
   duties across role changes, the integrity of the approved baseline, the
   agreement of handlers, database constraints and advertised actions.
2. `ActivityReviewProofs`* — its theorems.
3. `BudgetFunding`*, `BudgetFundingProofs`* — execution of the Operations, the
   amendments that move the budget, what must be funded according to the audit log,
   and the funding requests. Every increase funded once, nothing forgotten.
4. `FinancialChain`*, `FinancialChainProofs`* — disbursement or zero spending,
   virement, confirmation, reversement and closing of one executed Activity. Reviewers
   separated along the chain, the frozen basis, closed means settled, offered equals
   accepted.
5. `OneTimeSecret`* — the abstract promise of everything that is mailed to prove who
   somebody is. `Accounts`*, `AccountsProofs`* (invitation and reset links) and
   `SignIn`*, `SignInProofs`* (codes) implement it by refinement.
6. `Reminders`*, `RemindersProofs`* — overlapping runs that die anywhere, one mail per
   approved date.
7. `Documents`*, `DocumentsProofs`* — corrections, sharing on a version last read, what a
   Partner sees. `DataTheorems`* holds the facts about sums that the proofs share.
8. `ReviewProtocol` — the abstract promise of any two-stage request (submitted,
   prevalidated by one, decided by another, or ended), which the Activity review
   and each financial request implement by refinement.
9. `StaleView` — clients that act on the version they read, as a refinement of
   atomic editing. `Documents` already has it for sharing.
10. `Portfolio` — several Activities in a Project: idempotent creation, one PTA
   per year, and the paging of lists that change between two pages.
11. `AccessCoordinator` — the client's access state over several tabs and late answers.

Every safety invariant and action property that a passing run checks is also the
statement of a theorem (section 10 says how, and what is left to TLC). Theorems planned
beyond the present ones go with the modules that are still to be written: that the
review and each financial request implement `ReviewProtocol`.

A passing run checks conjunctions of named invariants where several of them speak of
the same question; each part is a definition with its own comment.

## 3. The Activity review

`ActivityReview.tla` is one Activity from before its creation to its end.

**State.** `role` and `userVersion` are the accounts. `status`, `version`,
`current`, `approved`, `amendment`, `withdrawal`, `transfer` and `placement`
are the columns of the Activity row, with 0 for NULL. `plan` is the live
content (live Operation rows, total, year of the dates and one member of `Text`
for everything else), `known` all Operation rows, removed ones included.
`revisions` and `decisions` are the immutable rows of the review;
`contributors` and `assigned` the two association tables. `started` and
`settlement` are what the review reads of execution and finance,
`projectActive` the state of the Project, and `fixture` whether the policy the server
runs under has the lifecycle fixture, without which every step of a withdrawal or a
transfer is refused (`auth/policy.py:170`, `planning/routes.py:1316`).

**Actions.** One per handler and outcome: `CreateActivity`, `ReplaceActivity`,
`SubmitActivity`, `OpenAmendment`, `CancelAmendment`, `RequestWithdrawal`,
`CancelWithdrawal`, `RequestTransfer`, `CancelTransfer`, the six outcomes of
`decide_activity`, `AssignAgents`, `ChangeRole`, `Deactivate`, the steps of
execution and closure the review depends on, and `ChangePolicy`, a restart of the server
under the other policy, between any two commands. A handler's refusals are the
negation of its guard `May...`; the guards are operators of their own because
`Advertised`, the model of `service.allowed` and the filters of `activity_item`,
is compared with them. `expected_version` is not a parameter: a command on an
old version is refused and changes nothing, so only commands on the current row
act, and `VersionTokens` states what makes that check sound.

**The annual plan.** `approved_plan` and `annual_metrics_data` do not read the
pointers of the row: they look for the newest revision with a final approval and
leave it out when it is a withdrawal or names another year. `FinallyApproved` and
`AnnualPlan` are that query at the present moment; `AnnualPlanAgrees` compares it with
the row. A cutoff in the past shows an earlier state of the same decisions, because
`decided_at` is taken after the lock and readers hold the lock shared.

**Abstractions.** Reasons and observations, sizes and wording are left out, with
the comparisons of reasons (a corrected withdrawal must change its reason). Dates
are their year, the part that ties a plan to its PTA. The identifier drawn for an
amendment, a withdrawal or a transfer is the version it was drawn at. `settlement` is
one request that is pending or approved and stands for a disbursement or a zero
declaration; the real chain is the subject of `FinancialChain`. An Operation is started
or not; the date it may start on is left out, so the model starts Operations earlier
than the program would, which only adds behaviours.

**Triggers.** The deferred triggers of migrations 0008 and 0009 are properties here
(`ReviewStateValid`, `TransferStateValid`), not guards: that they hold in every
reachable state means no handler is ever rolled back after it decided to commit. The
one exception found is the closure of a transferred Activity. There the trigger is
part of the action `CloseActivity`, as it is of the program, and the disagreement
between handler and trigger is the property `ClosureCommits`.

### Runs

| Run | Instance | Shows |
| --- | --- | --- |
| `review_duties` | three accounts, any roles at the start, each changed at most once; one Operation, two texts, three revisions, version at most 10 | `SeparationOfDuties`; `AdvertisedMatchesGuards`: under either policy, advertised actions are the accepted ones but for two refusals (see below) |
| `review_content` | one account per role; two Operations, two totals, two years, four revisions, version at most 13 | `DatabaseAccepts` (types, database constraints, both review triggers), `LiveMatchesRecord` (baseline, candidate, contributors on record), `KeptThroughCorrections` (Operations and totals), `ReviewRespectsExecution` (endings, frozen basis), `ClosedProjectIsIdle`, `AnnualPlanAgrees`, `BaselineMovesInSequence` |
| `transferred_closure` | as `review_content` | a violation: `ClosureCommits` |

*Why the bounds are enough.* The review concerns one revision and the one before
it. Three revisions allow a plan, a returned correction or an amendment, and a
request after it; four allow a return inside an amendment, a second amendment, or a
transfer after an amendment. A lineage needs at most an author, a prevalidator and
a validator, and a fourth account behaves as one of the three; each may change its
role between any two steps. Version 10 and 13 leave room for the longest such
histories with an edit and an assignment in them: plan approved (5 commands),
amendment opened, edited, submitted, returned, edited, submitted, approved. The
two halves of the state, who and what, are enlarged in separate runs: roles never
read the content of a plan, and the content rules never read an identity other than
whether it is a contributor. The mutants in `PROJECT.json` show for every property
a plausible fault in the code that the run's own bounds are large enough to reveal.

*Symmetry.* Accounts are interchangeable in `review_duties`, because every
assignment of roles is an initial state, and Operations in `review_content`.

*Deadlock* is not checked: a closed Activity in a closed Project has nothing left
to do. *Liveness* is not claimed: nothing in the program obliges a person to act,
and there is no background task in the review, so there is no fairness to assume.

### Disagreements found

* `transferred_closure`: the trigger at
  `migrations/versions/0009_activity_transfer.py:167` lists the states in which a
  transfer revision may be current as `approved` and `amendment_draft`, and omits
  `closed`. `close_activity` sets `closed` and the commit fails.
* `docs/engineering.md:205` says that advertised actions match the guards of the
  server. They do but for two refusals, which `AdvertisedMatchesGuards` names:
  * `submit` is offered while a correction or an amendment equals the revision it
    follows (`planning/service.py:105`), and `submit_activity` answers
    `correction_unchanged` (`planning/routes.py:2198`). So it is after every
    `open_amendment` and every return, until the first edit.
  * Under a policy without the fixture, as LOCAL is (`auth/policy.py:122`), requests,
    cancellations and decisions of withdrawals and transfers are offered and refused
    (`planning/routes.py:1316`).

  `Advertised` has neither condition and the guards `MaySubmit` and `May...` have both;
  the property demands that nothing else differs, in any state, for anybody. There is
  no run of its own for the two: the statement without the exceptions fails as soon as a
  revision is returned, and the exceptions say exactly where.

### Proofs

`ActivityReviewProofs.tla` proves, for any sets of accounts, Operations, totals,
texts and years, and any bounds:

* `TypeCorrect` — `[]TypeOK`, inductive by itself.
* `AssignmentsHeldByAgents` — an assignment is made to Agents, and an account with
  an assignment cannot change; inductive with `TypeOK`.
* `DutiesSeparated` — `SeparationOfDuties` is not inductive: it speaks of decisions
  and old revisions, while the guard `Independent` reads the live contributors. The
  invariant `DutiesInv` adds `ContributorsAccumulate` (every revision's
  contributors and submitter are among the live ones, which only grow) and
  `DecisionsOnRecord` (no decision is on a revision yet to be submitted, so a new
  revision cannot discredit an old decision). Roles appear nowhere in it: this is
  why role changes cannot break it.
* `BaselineSequential` and `PlacementForward` — a candidate under review was built
  on the present baseline (`CandidateOnBaseline`); every command that moves the
  baseline clears what is pending, and every step of the review preserves it.
* `VersionsAreTokens` — every action advances the version by one except the
  closing of the Project and the account changes, which leave the row alone; an
  ended Activity is out of the reach of every guard (`SettlementStage` excludes a
  settlement decision after the end).
* `ClosedProjectsStayIdle` — nothing leaves the ended states.

`AssignedAreAgents`, `PlacementOnlyByTransfer` and `VersionTokens` are proved and no
longer part of a run.

The other theorems rest on one invariant, `ReviewInv`. None of the properties is
inductive alone, because each command finds in one part of the state what the others
left there:

* `Pointers` says which pointers are set in each status, and `Candidate` that the
  revision under review says of itself (its kind, request, base and origin) what the row
  says of it. A decision reads the revision, a cancellation the row; this makes them agree.
* `OneDecision`, `VerdictsMatch`: one decision per revision and stage, and exactly those
  the status tells of. With `ApprovedChain` they are what the trigger of migration 0008
  compares.
* `PlansSound`, `LiveSound`, `LifecycleSound` tie years, plans and Operation rows
  together: a submitted plan starts in the year it plans for, only a transfer changes
  the year, a withdrawal and a transfer carry the approved plan. Without the last one
  the approval of a transfer might install another plan than the approved one.
* `OperationsInv`: every candidate keeps the approved Operations, only those were
  started, and none was while a withdrawal or a transfer is pending. This is why a test at
  the request is still true at the decision.
* `TotalsInv`: what a return locks. `TotalHeld` says of the *live* plan, while it is
  corrected, what `CorrectionsKeepTotal` says of the revisions; `RequestsOld` that
  identifiers are never drawn twice, so a correction cannot be mistaken for one of
  another request.
* `EndInv`, `SettlementStage`, `NewestApproved`: what is settled was executed to the end,
  a closed Activity does not rest on a transfer, and no final approval is newer than the
  baseline but that of the withdrawal.

From it follow `ReviewAccepted` (`DatabaseAccepts`: every CHECK and both deferred
triggers, after every command), `LiveAlwaysMatches`, `CorrectionsKeep`,
`ExecutionRespected`, `AnnualPlansAgree`, and the two theorems on what is advertised:
`AcceptedIsAdvertised` (whatever a handler accepts is offered, under either policy) and
`AdvertisedIsAccepted` (what is offered and not accepted is one of the two refusals
above). The second has no hypothesis on the policy, which is part of the state.

The assumptions are the four named ones of `ActivityReview`.

## 4. The budget and its funding

`BudgetFunding.tla` is one approved Activity while it is executed and amended. What
must be funded is stored nowhere: `funding_basis.py` works it out on every command
from the approved revisions and from the execution events in `auth_audit`. Two rules
apply: every approved budget that is larger than the one before needs an approved
request of its own, and spending that ever exceeded the budget approved at the time
needs a later, funded budget that reaches it. Until then the Activity is paused, and
only corrections that lower spending are accepted.

**State.** `budgets` are the allocations in the approved revisions, `draft` those of the
pending amendment, `facts` the execution columns of each Operation row, `log` the
approvals and the execution events with their *before* and *after*, `funding` and
`verdicts` the rows of `FundingRequest` and `FundingDecision`, `contributors` and
`role` as in the review. `finance` is the state of the payment that freezes the Activity.

**Actions.** `StartOperation` and `RecordExecution` (`change_execution`, with the
audit event), `OpenAmendment`, `EditAmendment`, `CancelAmendment`,
`ApproveAmendment`, `SubmitFunding`, the outcomes of `funding.decide`,
`CancelFunding`, `RequestPayment` and `EndPayment`, `ChangeRole`. `Scan` is
`funding_basis` event by event and `Retell` the replay in
`verified_financial_basis`; both are folds over the log, and each is compared with
a definition that does not read the log in this way (`ShortfallFound`,
`HistoryVerified`). The trigger `pta_validate_funding_state` of migration 0024 is the
guard `Unobjectionable` of every write to a request, because it does refuse what the
handlers accept.

**Abstractions.** The review of an amendment is the one step `ApproveAmendment`, whose
reviewers may be accounts that `User` does not contain. The payment is `none`,
`pending` or `approved`. An Operation's start is a Boolean, an observation a member of
`Note`. Withdrawal, transfer and closing are left to the other modules; what they
add is a pause.

| Run | Instance | Shows |
| --- | --- | --- |
| `funding_basis` | three accounts, one per role, one change of role; one Operation, amounts 0 to 2, three budgets, five events, two requests | `BudgetIsSound` (types, increases funded before any payment, the amounts adding up), the shortfall found in the log, each increase funded once, the log retelling the columns a payment is verified against, the pause lifted only by funding, approval by two outsiders |
| `funding_cancellation` | three accounts of any roles, two changes of role; two budgets, three events | a violation: `CancellationCommits` |

*Bounds.* Three budgets are an increase after an increase and an increase after a
decrease, the cases in which increments could be confused; amounts 0 to 2 give
spending below, at and above each of them; five events are a start, an excess, a
correction and two approvals. Two requests are one that was returned or cancelled and
the one after it, or one per increase. The reviewers' case needs three accounts and one
change of role, which lets a person who decided become a person who contributes; the
disagreement needs a second change. A single Operation suffices for the amounts: the
shortfall and the budget are sums, and the replay keeps one record per Operation.
*Symmetry* as in the review. *Deadlock* is not checked, since an approved payment
freezes everything here, and no *liveness* is claimed: only people act.

*Disagreements.* In `funding_cancellation` a reviewer prevalidates, becomes an Agent and
edits an amendment or corrects an amount; the trigger then refuses every later write
to the request, its cancellation included, and the Activity stays paused. Besides, a
request lists decisions that its handler refuses (`planning/funding.py:166`, against
`docs/engineering.md:205`), because the handler looks at the pause and at today's
exclusions and the list does not; this is an observation from the source, without a run.

**Proofs** (`BudgetFundingProofs.tla`, for any accounts, Operations, amounts and bounds):

* `RowsTyped` — inductive by itself. It states an amount as a difference of two
  totals, because that the difference is positive follows from the sum it was
  computed with; `TypeOK` says it outright and is part of `BudgetAlwaysSound`.
* `IncreasesFundedOnce` — from the guard `Unrequested` and the fact that a request
  that ended never comes back.
* `FundingReviewedByOutsiders` — the guard of the handler looks only at the reviewer who
  approves. That the first, who decided earlier and may have changed role since, still
  is an outsider follows from the trigger alone, which holds both against the present
  contributors and authors.
* `NothingDoneWhileOwed` — from the guards of execution; `WorkHeldWhileOwed` is proved
  and no longer part of a run.

* `HistoryAlwaysVerified`, `ShortfallAlwaysFound` — the two replays of the log. `LogInv`
  says that every event tells what was true when it was written (the facts before it,
  the budget of the moment and what it allotted). A replay is a recursive function over the
  log; `TellingBy` and `FoundBy` say without recursion what it comes to after each event,
  and the least event at which another solution of the recursion differed would be one
  whose predecessor agrees and whose step does not (`StoryIs`, `ScannedIs`). The scan
  skips the start of an Operation, so it is compared with what was last *recorded*.
* `BudgetAlwaysSound` — `MoneyInv` keeps three sums in step: the approved budget is the
  first plus the rises minus the falls, and what the approved requests grant is what the
  funded increases need (`RowsFunded`: a request keeps the increment of its increase).
  `FrozenInv` carries what a payment found when it was submitted through every later step:
  while it stands nothing is short, nothing is open and the spending fits.
* `PauseAlwaysFunded` — what is owed is computed from what only grows (`Grows`: budgets,
  events and the facts in requests). So a shortfall, once found, stays found until more is
  funded (`ShortStays`), whatever is corrected or amended meanwhile.

The assumptions are those of `BudgetFunding`. `OperationsAssumption`, that the identifiers
are finitely many, is what makes a sum over Operations a number: a database has
finitely many rows, and the plan of an Activity lists them one by one.

## 5. Settlement and closing

`FinancialChain.tla` is one Activity from its first spending to its closing. Positive
spending is paid: a disbursement request, reviewed by two people, then a virement
request on it, reviewed by two people, a confirmation of the transfer and, where
something is left of the allocation, a reversement. Spending of nothing is declared
and reviewed instead. No request locks the Activity; its basis is kept still by the
checks that each other command makes (`assert_disbursement_unfrozen`).

**State.** `revision`, `allocation`, `paused` (an amendment, withdrawal or transfer is
pending) and `contributors` of the Activity; `work`, the final spending of each
Operation, and `authors`, the actors of its execution events; `requests`, the rows of
the three request tables in order of submission, with the frozen facts (`basis`), the
excluded reviewers and the state; `decisions`; `confirmations`; `reversements`;
`closed`; `today`, for the dates.

**Actions.** `SubmitDisbursement`, `SubmitZeroSpending`, `SubmitVirement`;
`Prevalidate`, `ApproveRequest`, `Return` and `Cancel`, which the three files
implement with one text and the differences that `Cancellable`, `SourceStands` and
`Cites` name; `Confirm`, `CorrectConfirmation`, `Declare`, `CorrectReversement`;
`CloseActivity`; and the environment of the chain: `Execute`, `Pause`, `Contribute`,
`ApproveRevision`, `Resume`, `ChangeRole`, `NewDay`.

**Abstractions.** The approved plan has a fixed set of Operations, and an Operation is
unfinished or has its final spending. The pause while funding is owed, and the
verification of the audit log, are in `BudgetFunding` and left out here: both only
refuse more, to commands and views alike, so what is shown of steps and states holds
with them. A note on a confirmation or reversement is a member of a small set; texts
of reasons are left out. `ApproveRevision` stands for a whole reviewed amendment, and
`Pause` followed by `Resume` for one that was given up. A second closing is refused in
the program by the trigger `pta_validate_activity_closure`, here by the guard.

| Run | Instance | Shows |
| --- | --- | --- |
| `settlement` | one account per role, one Operation, amounts 0 to 2, two notes, two days, two revisions, three requests, three confirmations and reversements in all | `DatabaseAccepts` (types and the states that the decisions lead to), a standing request keeps its basis, the routes exclude each other, amounts and dates of the return, closed means settled, offers are accepted |
| `chain_reviewers` | four accounts in any roles, one change of role, two requests | two reviewers per request, all of them outsiders |

*Bounds.* Three requests are a payment, a virement and one that was returned or
cancelled before or after them. Three confirmations and reversements are a confirmation, its
correction and a return, or a return and its correction; two days separate the
transfer from the return. For the reviewers, one account submits, one contributes and
two review, and one change of role lets any of them arrive in the review from
elsewhere; two requests are a payment and its virement, whose exclusions are inherited.
Dates and amounts do not depend on who acts and identities do not depend on amounts, so
the runs enlarge them separately. *Deadlock* is not checked: a closed Activity stops.

**Proofs** (`FinancialChainProofs.tla`, for any accounts, Operations, amounts and bounds):

* `ChainTyped`, `RequestOutcomesStand` — a review finds its request open, and nothing
  else writes an existing request.
* `BasisAlwaysStands`, `RoutesExclusive` — `BasisStands` alone is not inductive. A
  virement stands on an approved payment (`VirementOnPayment`), one request of each
  kind stands at a time (`OnePerKind`), and the kind tells whether the basis spends
  something (`KindBySpending`); together with the types this is `ChainInv`. Its key
  step is `NothingStands`: whatever moves the basis happens while no request stands.
  The two routes exclude each other because both would stand on the present spending,
  positive for one and zero for the other; the value of the sum plays no part.
* `ChainReviewedByOutsiders` — the exclusions of a standing request cover the present
  contributors and authors (`Exclusions`), again because those are still while it
  stands; a virement inherits what its payment excludes. `Deciders` and `TwoReviewers`
  carry this over to the decisions.
* `ClosingIsFinal` — the guards of closing leave no request open: the settled one is
  approved, it is the only one of its kind, and the other route is excluded.

`OutcomesStand` and `ClosedForGood` are proved and no longer part of a run; that a basis
is the spending of each Operation and not its sum is covered by the proofs alone, the
run having one.

* `StatesMatchDecisions` — `Fits` gives for each state of a request the exact set of
  verdicts on it, which the trigger only bounds; each command finds what the state promises
  and adds one verdict at most. `OnePerStage` and `Cited` complete `DecisionsInv`.
* `ChainAccepted`, `ReturnsFollowTransfers` — `SettlementInv` adds to `ChainInv` what
  happened at the bank: a payment's spending was complete and within the allocation
  (`Figured`), confirmations and reversements are of a virement that is approved and bear
  its amounts, and a reversement refers to the *latest* confirmation, which stays the
  latest because a correction is refused once something was returned.
* `ClosedAlwaysSettled` — closing verifies the chain once; afterwards nothing of it moves
  (`ClosedInv`).
* `OffersAlwaysAccepted` — the views look at states and roles, the commands verify the source
  and its whole basis again; `SourceVerified` shows that an approved payment, while the
  Activity is open, always passes that verification.

That spending is a natural number comes from `DataTheorems`; `OperationsAssumption`
(finitely many Operations) is used for nothing else.

## 6. Accounts and the links that activate them

`OneTimeSecret.tla` is the abstract specification: a holder is issued secrets, only the
newest counts, it becomes usable, is redeemed once or becomes void, and nothing that was
replaced, redeemed or voided becomes usable again. Time may void many at once.

`Accounts.tla` is the life of the accounts of a few addresses.

**State.** `user`, `invitation` and `recovery` are the rows of an address; `offers` is
what the audit log says of each generation of its invitation, which
`invitation_bound` and `invitation_item` read back; `tasks` are deliveries under way,
each with the step it has reached; `mailed` are the links that have left the server,
whatever the mailer said, and `redeemed` those that were used. The last two are history
variables, read by no guard but the reader's: nobody uses a link that was not mailed.

**Actions.** The commands `Bootstrap`, `ReissueBootstrap`, `Invite`, `Resend`, `Revoke`,
`Accept`, `ChangeRole`, `Deactivate`, `AskRecovery`, `CompleteRecovery`; the steps of a
delivery `PrepareRecovery`, `CheckRecovery`, `Send`, `DeliverInvitation`,
`DeliverRecovery`; `Lose`, which ends a task anywhere; the expiry of each kind of link.

**Abstractions.** `Proof` is the keyed hash over a row: equal exactly for equal rows. A
password is named by the version that set it. The full name is always given. That an
account with a current assignment cannot change is in `ActivityReview`, and left out
here, as are `expected_version` (the row's version guards every command that changes it),
the limits on requests for a reset, the mail after a reset (it has no state) and CSRF
tokens.

`accounts` has two addresses, two offers and two resets each, two deliveries under way and
versions up to 4: a link and the one that replaces it, in flight together, for an account
that changes in between. It shows `AccountsConsistent` (types, passwords explained by
links, one administrator, the constraints of the tables), `LinksWereMailed` (a link works
only after its own mail, and the administrator is told the truth), `PasswordsByFreshLink`,
`EndingsAreFinal` (a used or revoked invitation is never made out again, a revoked address
never gets an account, a deactivated account never changes, whatever deliveries are still
under way), `LinksAreOneTime` (both kinds of link refine `OneTimeSecret`) and `ResetsReopen`.

*Refinement.* `InvitationPhase` and `RecoveryPhase` map rows to phases. An expired link is
void; a reset link is void as soon as the proof it holds is not the account's any more,
which is what `Preserved` tests. *Fairness.* Each task proceeds unless it is lost, because
the server runs it; links expire, because time passes. No person is obliged to act.
`ResetsReopen` needs both: a request is ignored while an earlier link is preserved, even
one whose mail failed, and only its expiry lets the holder ask again.

**Proofs** (`AccountsProofs.tla`, for any addresses, offers, resets and deliveries at once).
`AccountsInv` describes one account by the state of its row (`AbsentSound`, `PendingSound`,
`ActivatedSound`), what the log and the outbox say of its links (`MailSound`,
`UsedSound`), and the tasks. Two parts carry most of the weight: a reset link was issued
for a version the account *has had* (`RecoverySound`), so no later change makes an old
link current again; and a task that has sent is the reason that its link is `mailed`
(`TaskSound`), so recording a delivery is true even when it comes late.
`AccountsAlwaysConsistent`, `LinksAlwaysMailed` and `PasswordsNeedFreshLinks` follow, and so
does `EndingsStayFinal`: the state of the row determines that of its invitation
(`EndingsByState`), so an account that may still change has an accepted invitation, and an
address that may still be invited has none.
`LinksImplementOneTimeSecret` proves both refinements step by step: a step of the
accounts issues, arms, redeems or voids a link of one holder (`InvitationMove`,
`RecoveryMove`), or leaves every phase as it is (`InvitationStill`, `RecoveryStill`).

## 7. Sign-in

`SignIn.tla` is one account's sign-in in several browsers.

**State.** `account` is what a proof is computed from; `context` the rows of browsers;
`otp` the one row of a user's code, with its attempts, resends and lock; `counter` the
windows of attempts per user and per network address, counted up to the first refused
one, because nothing tells the later ones apart; `tasks` the codes being mailed.
`mailed`, `guesses` and `granted` are history. Every time is kept as what is left of it
or has passed since, up to the longest period a test compares it with, so `Tick` can
go on for ever in finitely many states.

**Actions.** `NewContext`, `Logout`, `LoginChallenged`, `LoginRefused`, `ResendCode`,
`VerifyRight`, `VerifyWrong`, `Send`, `DeliverOtp`, `Lose`, the three ways an account
changes, `Tick`, and `Forget`, which lets the names of dead contexts be used again.
A wrong password and a refused one are the same step, `LoginRefused`: both count.

An attempt comes from any `Address`; those in `Network` are the ones whose counter the
model keeps, and the others stand for all the rest, where an attacker always finds one
that is within its limit.

**Assumptions.** `PolicyAssumption` (the numbers of a policy are positive) is demanded of
every policy. `PeriodAssumption` holds of the LOCAL policy and of the one the tests use
(a lock and a code of 600 seconds each), but `auth/policy.py` does **not** refuse a
policy file that breaks it. That a lock lasts at least as long as a code is needed:
otherwise a locked code would be redeemable again, and the refinement of `OneTimeSecret`
fails. Whoever writes such a file should know.

`sign_in` has three browsers, an account that changes up to twice, two codes and two
mails in flight: `CodesConsistent` (types, codes mailed before they work, one session per
code, bounded guessing), `GrantFollowsBothProofs`, `SignedOutForGood`, `LocksHold`. Three browsers
are the two that compete for the code and the session that one of them opens.
`sign_in_codes` has two browsers whose names are used again for ever, an account that does
not change, two addresses and *no symmetry*, since it checks liveness: `CodesAreOneTime`
(the refinement) and `SignInReopens`. The code, the lock and the resend wait last one
tick, a context two, so that each can end before, with or after another. The window of an
address lasts two ticks and that of the account three, so that, as with the 60 and 900
seconds of the policy, the two begin and end at different times.

*What `SignInReopens` promises.* If from some time on the limit of the holder's own address
is not used up, then again and again the holder is not held back, whatever others try on
the account from elsewhere. They can use up the account's limit in each window, and
refused attempts count, but they cannot move its end. *Fairness* is `WF(Tick)` alone: time
passes. The promise does **not** extend to an address whose limit others keep using up. Without the
antecedent TLC finds, in this instance, somebody at the holder's own address who uses up
the account's limit while the address is still refused, and the address's while the
account is: the holder is never admitted. That the rules of `limit` allow; the program
promises nothing else.

**Proofs** (`SignInProofs.tla`, for any users, browsers, addresses, attempts and periods
within `PolicyAssumption` and `PeriodAssumption`). `SignInInv` consists of parts that share few variables: counters stay
within their windows; a browser knows the account as it once was, never a later version
(`ContextsSound`); a code that opens a session was mailed (`RowsSound`); a task in flight
for the newest code finds it still prepared (`TaskSound`), which is why two mails cannot
both deliver; a row without a lock has counted every guess, and one with a lock has no
code left when the lock ends (`GuessSound`, where the assumption on the length of a lock
is used); and a user has at most as many sessions as codes that were accepted
(`SessionsCounted`). `CodesAlwaysConsistent`, `SessionsNeedBothProofs`,
`EndedContextsStayEnded` (versions only grow, so what has expired stays expired) and
`LocksAreObeyed` follow from it. `CodesImplementOneTimeSecret` is the refinement for any
number of users, where TLC has one. The proof needed a correction of the abstract
specification that one user never shows: a browser in which a second user signs in
forgets the first one's challenge, so `Issue` for one holder may void the secret of
another in the same step.

## 8. Reminders

`Reminders.tla` is the command that an operator (or a scheduler, deferred in
`docs/business-rules.md:208`) starts: create all cycles due, then for each claim, mail, record.

**State.** `activity` with its live end date and the approved ones, `assigned`, `agents`;
`reminder`, the rows; `dispatcher`, the runs with the step each has reached; `mails`, the
mails that left (history). **Actions.** `Start` takes the day before the lock is waited for,
`Create`, `Claim`, `Send`, `Record`, `Abandon` (any exception of one delivery), `Finish`,
`Die`; `MarkRead`; and what they depend on: `Edit`, `Approve`, `EndActivity`,
`AssignAgents`, `ChangeAccount`, `NextDay`. The option of the command that names another day is left
out.

`reminders` has one Activity and Agent, two end dates and two runs at once that fail and
die anywhere: `MailsAccountedFor` (one mail per cycle, one run per cycle, truthful status,
only approved dates) and `DueAreReminded`. The claim asks whether the Agent still has the
Activity; what changes between the claim and the mail is not looked at again, so an Agent
replaced at that moment is still mailed, in the model as in the program. Cycles of different Activities
or Agents never touch the same row, so one of each suffices; two dates let an amendment
move the date there and back, two runs overlap. *Fairness.* The operator starts runs, and
runs go on; `Create` is *strongly* fair, for a run may die before it, only not every one.
`DueAreReminded` promises a notification, not a mail: the only attempt may fail, and a run
that dies after creating leaves its cycles unsent for ever, as the rules say ("never
automatically resent").

**Proofs** (`RemindersProofs.tla`, for any Activities, Agents, dates and number of runs).
`EveryMailAccountedFor` proves `MailsAccountedFor`. One mail per cycle is not inductive:
it rests on what the runs hold. The invariant adds that a run holds cycles only after
creating them (`RunsShaped`), that each is held once and has a row (`HeldOnce`), and that an
attempt is on a claimed row without outcome and knows what was mailed (`AttemptsSound`).
A cycle created was absent, so nobody held it; a claim is on a row no other run holds;
so the mail of a claimed row is its first. The types follow only together with
`AttemptsSound`, since an outcome is recorded that an answer must have set.

## 9. Documents

`Documents.tla` has the rows of documents and their withdrawals (one record), `clock` for the
order of uploads, and for every user the sharing versions last read (`seen`) and which of
them are out of date (`outdated`, history). **Actions** are `StoreUpload`, `Withdraw`, `Look`
(the listing), `SetShared` on the version last seen, and the changes of roles and
Activities. An upload is two transactions; the first only checks what the second checks
again, so the second is the action. What a body contains decides only whether there is
an upload. Roles change more freely here than in the program, which only adds behaviours.

`documents` has two documents, Activities, Partners and users of any roles, three changes of
sharing: `RowsConsistent` (types, corrections lead forward in time), `AdvertisedAreAccepted`,
`SharingIsInformed` (a Partner comes to see a document only by the decision of a Validator
who knew the last one) and `TriggersAccept` (the triggers of migrations 0019 and 0022, which
are no guards here, accept every write). Two users are the Validator who decides and the one
whose page is stale; three changes let a document be shared, unshared and shared again.

**Proofs** (`DocumentsProofs.tla`, for any Activities, documents, users and Partners).
`RowsAlwaysConsistent`, `PartnersSeeByDecision` and `WritesAlwaysAccepted` prove
`RowsConsistent`, `SharingIsInformed` and `TriggersAccept` from one invariant: a row that is
not stored is blank, a shared document is of an Activity past its planning
(`SharedWereEligible`, so no approval shows anything), and whoever missed a decision has
read a smaller version (`LateHaveReadLess`, so the version last read tells whether the
last decision is known). It needs `NoneAssumption`: no version was read is not a number.
`OffersAreAccepted` proves `AdvertisedAreAccepted` from the types and the guards: what is
offered is accepted from whoever holds the version he read. The converse is not
claimed: a withdrawn document may still be unshared, and the listing does not offer it.

*Deadlock* is not checked in sections 6 to 9: bounds on codes, versions, days and documents
end what would go on in the program.

## 10. What the proofs cover

The theorems hold for every value of the constants under the named assumptions, with no
bound on the behaviours but those in the guards (`MaxRevision`, `MaxVersion`, `MaxSharing`
and their like, themselves constants). Each module's invariant was first checked by TLC
on the instances of its runs. Each theorem `Spec => []P` has the same three parts: the
initial states satisfy the invariant, every step keeps it, and it implies `P`.

*Sums and recursion.* `DataTheorems.tla` proves about `SumFunction` what the budget and the
settlement need: it is the recursion it is defined by, it is a natural number for
natural terms, one term may be taken out or changed, and a sum over a part is at most the
sum. The induction is by the smallest set, or the least index, at which a claim would fail,
which well-foundedness provides as a first-order fact; the library's induction rules,
which quantify over predicates, are not used. For this reason the replays of the log are
recursive functions and not folds of the community modules.

*Left to TLC.* The three liveness properties (`ResetsReopen`, `SignInReopens`,
`DueAreReminded`), because the prover has no rules for fairness and `ENABLED`; and the two
runs that expect a violation, which are counterexamples already.

## 11. What is not modelled

Reports, exports, PDF layout, the Partner portal's projections other than documents, and the
audit list are reads without state. The transport of mail is the nondeterminism of `Send`.
Configuration and health have no state of their own. The creation of Partners, types,
Projects and PTAs, the paging of lists and the client are in the plan above.

Liveness is claimed where the server or time acts by itself (`ResetsReopen`,
`SignInReopens`) and, in `DueAreReminded`, of what follows if the operator keeps starting
runs: that start is a person's act, or that of a scheduler the rules defer, and the
fairness of `Start` is an assumption about them. The review, the funding and the
settlement wait for people, and nothing obliges one to act.
