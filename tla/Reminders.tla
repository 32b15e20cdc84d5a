------------------------------ MODULE Reminders ------------------------------
(***************************************************************************)
(* Reminders of the end of an Activity (planning/reminders.py). A          *)
(* dispatcher is one run of the command: it creates the cycles that are    *)
(* due in one transaction, then makes the only mail attempt of each, in    *)
(* three steps with the mail itself outside of all transactions. Several   *)
(* may run at once, and each may die at any point.                         *)
(***************************************************************************)
EXTENDS Integers, Sequences, SequencesExt

CONSTANTS Activity, Agent, Dispatcher, None,
          End,            \* the end dates a plan may have
          Lead,           \* days before the end at which a reminder is due (21)
          LastDay,        \* bound: the days of the calendar
          MaxRevision     \* bound: approvals of one Activity

ASSUME CalendarAssumption == /\ End \subseteq Nat /\ None \notin End
                             /\ {Lead, LastDay, MaxRevision} \subseteq Nat

VARIABLES today,
          activity,     \* activity[a]: its live end date, approved end dates and life
          assigned,     \* the current assignments, <<activity, agent>>
          agents,       \* accounts that are active and have the role AGENT_SAISIE
          reminder,     \* reminder[c]: the row of pta_activity_reminder
          dispatcher,   \* dispatcher[d]: one run
          mails         \* mails[c]: mails that have left the server

vars == <<today, activity, assigned, agents, reminder, dispatcher, mails>>
work == <<reminder, dispatcher, mails>>
planning == <<activity, assigned, agents>>
-----------------------------------------------------------------------------
\* One cycle per Activity, Agent and approved end date, whatever the revision.
Cycle == Activity \X Agent \X End

Plan == [planned : End, approved : Seq(End), open : BOOLEAN]

Row == [revision : Nat, status : {"absent", "unconfirmed", "delivered", "failed", "skipped"},
        claimed : BOOLEAN, read : BOOLEAN]

NoRow == [revision |-> 0, status |-> "absent", claimed |-> FALSE, read |-> FALSE]

Run == [step : {"idle", "started", "delivering", "claimed", "answered"},
        day : Nat, todo : SUBSET Cycle, cycle : Cycle \union {None},
        outcome : {"delivered", "failed", None}]

Idle == [step |-> "idle", day |-> 0, todo |-> {}, cycle |-> None, outcome |-> None]

Init ==
    /\ today = 0
    /\ activity \in [Activity -> {[planned |-> e, approved |-> <<>>, open |-> TRUE] : e \in End}]
    /\ assigned = {}
    /\ agents = Agent
    /\ reminder = [c \in Cycle |-> NoRow]
    /\ dispatcher = [d \in Dispatcher |-> Idle]
    /\ mails = [c \in Cycle |-> 0]

Revision(a) == Len(activity[a].approved)

\* The end date in the approved snapshot; the live one may be a pending amendment's.
ApprovedEnd(a) == IF activity[a].approved = <<>> THEN None
                                                 ELSE Last(activity[a].approved)

\* What makes c the present cycle of its Agent, day apart.
Current(c) == /\ activity[c[1]].open
              /\ <<c[1], c[2]>> \in assigned /\ c[2] \in agents
              /\ ApprovedEnd(c[1]) = c[3]

\* mutant: only on the very day, for those assigned by then
InWindow_FirstDay(end, day) == day = end - Lead
InWindow(end, day) == end - Lead <= day /\ day <= end
-----------------------------------------------------------------------------
(***************************************************************************)
(* What the reminders depend on: plans, assignments and accounts.          *)
(***************************************************************************)
Edit(a) ==
    /\ activity[a].open
    /\ \E e \in End : activity' = [activity EXCEPT ![a].planned = e]
    /\ UNCHANGED <<today, assigned, agents, work>>

Approve(a) ==
    /\ activity[a].open /\ Revision(a) < MaxRevision
    /\ activity' = [activity EXCEPT ![a].approved = Append(@, activity[a].planned)]
    /\ UNCHANGED <<today, assigned, agents, work>>

\* A withdrawal or the closing ends the assignments as well.
EndActivity(a) ==
    /\ activity[a].open /\ activity[a].approved # <<>>
    /\ activity' = [activity EXCEPT ![a].open = FALSE]
    /\ assigned' = assigned \ ({a} \X Agent)
    /\ UNCHANGED <<today, agents, work>>

AssignAgents(a) ==
    /\ activity[a].open
    /\ \E S \in SUBSET agents : assigned' = (assigned \ ({a} \X Agent)) \union ({a} \X S)
    /\ UNCHANGED <<today, activity, agents, work>>

\* An account gets or loses the role; not while it has an assignment.
ChangeAccount(u) ==
    /\ assigned \intersect (Activity \X {u}) = {}
    /\ agents' = IF u \in agents THEN agents \ {u} ELSE agents \union {u}
    /\ UNCHANGED <<today, activity, assigned, work>>

NextDay == today < LastDay /\ today' = today + 1 /\ UNCHANGED <<planning, work>>
-----------------------------------------------------------------------------
(***************************************************************************)
(* One run.                                                                *)
(***************************************************************************)
\* The day is taken before the lock is waited for.
Start(d) ==
    /\ dispatcher[d].step = "idle"
    /\ dispatcher' = [dispatcher EXCEPT ![d].step = "started", ![d].day = today]
    /\ UNCHANGED <<today, planning, reminder, mails>>

\* mutant: a new revision begins a new cycle, also one that keeps the end date
Missing_ByRevision(c) == reminder[c].status = "absent" \/ reminder[c].revision # Revision(c[1])
Missing(c) == reminder[c].status = "absent"

Create(d) ==
    LET due == {c \in Cycle : Current(c) /\ InWindow(c[3], dispatcher[d].day) /\ Missing(c)}
    IN  /\ dispatcher[d].step = "started"
        /\ reminder' = [c \in Cycle |->
              IF c \in due THEN [NoRow EXCEPT !.revision = Revision(c[1]),
                                              !.status = "unconfirmed"]
                           ELSE reminder[c]]
        /\ dispatcher' = [dispatcher EXCEPT ![d].step = "delivering", ![d].todo = due]
        /\ UNCHANGED <<today, planning, mails>>

Claimable(c) == reminder[c].status = "unconfirmed" /\ ~reminder[c].claimed

\* The claim is committed before the mail: an outcome nobody learns is final. The cycle
\* may have ended since it was created; then there is no mail. Its day is not looked at.
Claim(d, c) ==
    LET mail == Claimable(c) /\ Current(c)
    IN  /\ dispatcher[d].step = "delivering" /\ c \in dispatcher[d].todo
        /\ reminder' = IF ~Claimable(c) THEN reminder
                       ELSE [reminder EXCEPT ![c].claimed = TRUE,
                                             ![c].status = IF mail THEN @ ELSE "skipped"]
        /\ dispatcher' = [dispatcher EXCEPT ![d].todo = @ \ {c},
              ![d].step = IF mail THEN "claimed" ELSE @,
              ![d].cycle = IF mail THEN c ELSE @]
        /\ UNCHANGED <<today, planning, mails>>

\* The mail may have left although the provider's answer says otherwise.
Send(d) ==
    /\ dispatcher[d].step = "claimed"
    /\ \E outcome \in {"delivered", "failed"}, left \in BOOLEAN :
          /\ outcome = "delivered" => left
          /\ dispatcher' = [dispatcher EXCEPT ![d].step = "answered", ![d].outcome = outcome]
          /\ mails' = [mails EXCEPT ![dispatcher[d].cycle] = IF left THEN @ + 1 ELSE @]
    /\ UNCHANGED <<today, planning, reminder>>

Done(d) == [dispatcher EXCEPT ![d].step = "delivering", ![d].cycle = None,
                              ![d].outcome = None]

Record(d) ==
    LET c == dispatcher[d].cycle
    IN  /\ dispatcher[d].step = "answered"
        /\ reminder' = IF reminder[c].status = "unconfirmed" /\ reminder[c].claimed
                       THEN [reminder EXCEPT ![c].status = dispatcher[d].outcome]
                       ELSE reminder
        /\ dispatcher' = Done(d)
        /\ UNCHANGED <<today, planning, mails>>

\* Any exception of one delivery, at any point of it; the run goes on with the next.
Abandon(d) ==
    /\ \/ /\ dispatcher[d].step = "delivering"
          /\ \E c \in dispatcher[d].todo :
                dispatcher' = [dispatcher EXCEPT ![d].todo = @ \ {c}]
       \/ /\ dispatcher[d].step \in {"claimed", "answered"}
          /\ dispatcher' = Done(d)
    /\ UNCHANGED <<today, planning, reminder, mails>>

\* The run is over, or its process died; nothing of it is resumed.
Finish(d) ==
    /\ dispatcher[d].step = "delivering" /\ dispatcher[d].todo = {}
    /\ dispatcher' = [dispatcher EXCEPT ![d] = Idle]
    /\ UNCHANGED <<today, planning, reminder, mails>>
Die(d) ==
    /\ dispatcher[d].step # "idle"
    /\ dispatcher' = [dispatcher EXCEPT ![d] = Idle]
    /\ UNCHANGED <<today, planning, reminder, mails>>

\* Its recipient reads it, once: the version is 1 before and 2 after.
MarkRead(c) ==
    /\ c[2] \in agents
    /\ reminder[c].status # "absent" /\ ~reminder[c].read
    /\ reminder' = [reminder EXCEPT ![c].read = TRUE]
    /\ UNCHANGED <<today, planning, dispatcher, mails>>

Next ==
    \/ \E a \in Activity : Edit(a) \/ Approve(a) \/ EndActivity(a) \/ AssignAgents(a)
    \/ \E u \in Agent : ChangeAccount(u)
    \/ NextDay
    \/ \E d \in Dispatcher : \/ Start(d) \/ Create(d) \/ Send(d) \/ Record(d)
                             \/ Abandon(d) \/ Finish(d) \/ Die(d)
                             \/ \E c \in Cycle : Claim(d, c)
    \/ \E c \in Cycle : MarkRead(c)

Spec == Init /\ [][Next]_vars

\* The operator starts runs, and not every one of them dies before it has created
\* its cycles. Nothing else is obliged to happen.
FairSpec == /\ Spec
            /\ \A d \in Dispatcher : /\ WF_vars(Start(d)) /\ SF_vars(Create(d))
                                     /\ WF_vars(Finish(d)) /\ WF_vars(Send(d) \/ Record(d))
                                     /\ WF_vars(\E c \in Cycle : Claim(d, c))
-----------------------------------------------------------------------------
\* The types of all rows.
TypeOK ==
    /\ today \in 0..LastDay
    /\ activity \in [Activity -> Plan]
    /\ assigned \subseteq Activity \X agents
    /\ agents \subseteq Agent
    /\ reminder \in [Cycle -> Row]
    /\ dispatcher \in [Dispatcher -> Run]
    /\ mails \in [Cycle -> Nat]

\* An Agent gets one mail at most for an end date, however many runs there are, however
\* they end, and whether or not the approved plan is renewed with the same date.
OneMailPerCycle == \A c \in Cycle : mails[c] <= 1

\* What a notification says of its mail is true; "failed" and "unconfirmed" leave open
\* whether one has left, and a row without a claim has never been mailed.
StatusIsTrue ==
    \A c \in Cycle :
        /\ reminder[c].status = "delivered" => mails[c] = 1
        /\ reminder[c].status \in {"absent", "skipped"} \/ ~reminder[c].claimed => mails[c] = 0
        /\ reminder[c].status \notin {"absent", "unconfirmed"} => reminder[c].claimed

\* A notification names an end date that was approved, in the revision it names, never
\* one that a pending amendment only asks for.
RemindsOfApprovedEnd ==
    \A c \in Cycle : reminder[c].status # "absent" =>
        /\ reminder[c].revision \in 1..Revision(c[1])
        /\ activity[c[1]].approved[reminder[c].revision] = c[3]

\* At most one run works on a cycle, so what it finds at the end of the delivery is
\* what it claimed at its beginning.
OneRunPerCycle ==
    \A d, e \in Dispatcher : d # e =>
        LET Held(x) == dispatcher[x].todo \union ({dispatcher[x].cycle} \ {None})
        IN  Held(d) \intersect Held(e) = {}

\* The notifications account for the mails: one at most for each end date approved,
\* made by one run, and reported as what it was.
MailsAccountedFor == /\ TypeOK
                     /\ OneMailPerCycle /\ OneRunPerCycle
                     /\ StatusIsTrue
                     /\ RemindsOfApprovedEnd
-----------------------------------------------------------------------------
\* Whoever is due is reminded, even if assigned when the reminder date has passed
\* and after runs that died; or else the reason has gone.
DueAreReminded ==
    \A c \in Cycle :
        activity[c[1]].open /\ <<c[1], c[2]>> \in assigned
            /\ ApprovedEnd(c[1]) = c[3] /\ c[3] - Lead <= today /\ today <= c[3]
        ~> \/ reminder[c].status # "absent"
           \/ ~activity[c[1]].open \/ <<c[1], c[2]>> \notin assigned
           \/ ApprovedEnd(c[1]) # c[3] \/ today > c[3]
=============================================================================
