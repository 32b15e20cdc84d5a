--------------------------- MODULE RemindersProofs ---------------------------
(***************************************************************************)
(* Theorems about Reminders for every set of Activities, Agents, end dates *)
(* and runs, and for every bound.                                          *)
(***************************************************************************)
EXTENDS Reminders, TLAPS

-----------------------------------------------------------------------------
\* The invariant. OneMailPerCycle alone is not inductive: that a run sends no second
\* mail rests on what it holds, and that nobody else holds the same.

Attempting(d) == dispatcher[d].step \in {"claimed", "answered"}

\* The cycles d still has to attempt, and the one it is attempting.
Held(d) == dispatcher[d].todo \union
           {c \in Cycle : Attempting(d) /\ dispatcher[d].cycle = c}

\* A run has cycles only after it created them, and one at hand only in an attempt.
RunsShaped ==
    \A d \in Dispatcher :
        /\ dispatcher[d].step \in {"idle", "started"} => dispatcher[d].todo = {}
        /\ IF Attempting(d) THEN dispatcher[d].cycle \in Cycle
                            ELSE dispatcher[d].cycle = None

\* Whatever is held has been created, by the one run that holds it.
HeldOnce ==
    /\ \A d \in Dispatcher : \A c \in Held(d) : reminder[c].status # "absent"
    /\ \A d, e \in Dispatcher : d # e => Held(d) \intersect Held(e) = {}

\* An attempt is on a claimed row without outcome, and knows how much was mailed.
AttemptSound(d) ==
    LET c == dispatcher[d].cycle
    IN  /\ reminder[c].status = "unconfirmed" /\ reminder[c].claimed
        /\ dispatcher[d].step = "claimed" => mails[c] = 0
        /\ dispatcher[d].step = "answered" =>
              /\ dispatcher[d].outcome \in {"delivered", "failed"}
              /\ dispatcher[d].outcome = "delivered" => mails[c] = 1

AttemptsSound == \A d \in Dispatcher : Attempting(d) => AttemptSound(d)

Mailed == OneMailPerCycle /\ StatusIsTrue

RunInv == TypeOK /\ RunsShaped /\ HeldOnce /\ AttemptsSound /\ Mailed

LEMMA IdleRun == Idle \in Run
BY DEF Idle, Run
-----------------------------------------------------------------------------
\* The types. An outcome is recorded only after an answer, and a mail counted only for
\* a cycle: this is why the attempts are assumed to be sound.
LEMMA InitType ==
  ASSUME Init
  PROVE  TypeOK
<1>1. today \in 0..LastDay
  BY CalendarAssumption DEF Init
<1>2. activity \in [Activity -> Plan]
  <2>1. <<>> \in Seq(End)
    OBVIOUS
  <2>2. \A e \in End : [planned |-> e, approved |-> <<>>, open |-> TRUE] \in Plan
    BY <2>1 DEF Plan
  <2> QED
    BY <2>2 DEF Init
<1>3. reminder \in [Cycle -> Row] /\ mails \in [Cycle -> Nat]
  BY DEF Init, NoRow, Row
<1>4. dispatcher \in [Dispatcher -> Run]
  BY IdleRun DEF Init
<1> QED
  BY <1>1, <1>2, <1>3, <1>4 DEF Init, TypeOK

LEMMA StepType ==
  ASSUME TypeOK, RunsShaped, AttemptsSound, [Next]_vars
  PROVE  TypeOK'
<1>1. ASSUME NEW a \in Activity, Edit(a) \/ Approve(a) PROVE TypeOK'
  <2>1. activity[a] \in Plan /\ activity[a].approved \in Seq(End)
        /\ activity[a].planned \in End
    BY DEF TypeOK, Plan
  <2>2. activity' \in [Activity -> Plan]
    <3>1. CASE Edit(a)
      BY <3>1 DEF Edit, TypeOK, Plan
    <3>2. CASE Approve(a)
      <4>1. Append(activity[a].approved, activity[a].planned) \in Seq(End)
        BY <2>1
      <4> QED
        BY <3>2, <4>1 DEF Approve, TypeOK, Plan
    <3> QED
      BY <1>1, <3>1, <3>2
  <2> QED
    BY <1>1, <2>2 DEF TypeOK, Edit, Approve, work
<1>2. ASSUME NEW a \in Activity, EndActivity(a) \/ AssignAgents(a) PROVE TypeOK'
  <2>1. activity' \in [Activity -> Plan]
    BY <1>2 DEF TypeOK, EndActivity, AssignAgents, Plan
  <2>2. assigned' \subseteq Activity \X agents /\ agents' = agents
    BY <1>2 DEF TypeOK, EndActivity, AssignAgents
  <2> QED
    BY <1>2, <2>1, <2>2 DEF TypeOK, EndActivity, AssignAgents, work
<1>3. ASSUME NEW u \in Agent, ChangeAccount(u) PROVE TypeOK'
  BY <1>3 DEF TypeOK, ChangeAccount, work
<1>4. ASSUME NextDay PROVE TypeOK'
  BY <1>4, CalendarAssumption DEF TypeOK, NextDay, work, planning
<1>5. ASSUME NEW d \in Dispatcher,
             Start(d) \/ Create(d) \/ Send(d) \/ Record(d) \/ Abandon(d)
             \/ Finish(d) \/ Die(d) \/ \E c \in Cycle : Claim(d, c)
      PROVE  TypeOK'
  <2>0. dispatcher[d] \in Run /\ today \in Nat
    BY CalendarAssumption DEF TypeOK
  <2>1. CASE Start(d)
    BY <2>0, <2>1 DEF Start, TypeOK, Run, planning
  <2>2. CASE Create(d)
    <3> DEFINE due == {c \in Cycle : Current(c) /\ InWindow(c[3], dispatcher[d].day)
                                     /\ Missing(c)}
    <3>1. dispatcher' = [dispatcher EXCEPT ![d].step = "delivering", ![d].todo = due]
      BY <2>2 DEF Create
    <3>2. dispatcher' \in [Dispatcher -> Run]
      <4>1. due \in SUBSET Cycle
        OBVIOUS
      <4> HIDE DEF due
      <4> QED
        BY <2>0, <3>1, <4>1 DEF TypeOK, Run
    <3>3. \A a \in Activity : Revision(a) \in Nat
      BY DEF Revision, TypeOK, Plan
    <3>4. \A c \in Cycle : c[1] \in Activity
      BY DEF Cycle
    <3>5. reminder' \in [Cycle -> Row]
      BY <2>2, <3>3, <3>4 DEF Create, TypeOK, Row, NoRow
    <3> QED
      BY <2>2, <3>2, <3>5 DEF Create, TypeOK, planning
  <2>3. CASE Send(d)
    <3>1. PICK outcome \in {"delivered", "failed"}, left \in BOOLEAN :
            /\ dispatcher' = [dispatcher EXCEPT ![d].step = "answered",
                                                ![d].outcome = outcome]
            /\ mails' = [mails EXCEPT ![dispatcher[d].cycle] =
                            IF left THEN @ + 1 ELSE @]
      BY <2>3 DEF Send
    <3>2. dispatcher' \in [Dispatcher -> Run]
      BY <2>0, <3>1 DEF TypeOK, Run
    <3>3. mails' \in [Cycle -> Nat]
      <4>1. dispatcher[d].cycle \in Cycle
        BY <2>3 DEF Send, RunsShaped, Attempting
      <4>2. mails[dispatcher[d].cycle] \in Nat
        BY <4>1 DEF TypeOK
      <4> QED
        BY <3>1, <4>1, <4>2 DEF TypeOK
    <3> QED
      BY <2>3, <3>2, <3>3 DEF Send, TypeOK, planning
  <2>4. CASE Record(d)
    <3>1. dispatcher' \in [Dispatcher -> Run]
      BY <2>0, <2>4 DEF Record, Done, TypeOK, Run
    <3>2. dispatcher[d].outcome \in {"delivered", "failed"}
      BY <2>4 DEF Record, AttemptsSound, AttemptSound, Attempting
    <3>3. reminder' \in [Cycle -> Row]
      BY <2>4, <3>2 DEF Record, TypeOK, Row
    <3> QED
      BY <2>4, <3>1, <3>3 DEF Record, TypeOK, planning
  <2>5. CASE Abandon(d)
    <3>1. dispatcher' \in [Dispatcher -> Run]
      BY <2>0, <2>5 DEF Abandon, Done, TypeOK, Run
    <3> QED
      BY <2>5, <3>1 DEF Abandon, TypeOK, planning
  <2>6. CASE Finish(d) \/ Die(d)
    BY <2>6, IdleRun DEF Finish, Die, TypeOK, planning
  <2>7. ASSUME NEW c \in Cycle, Claim(d, c) PROVE TypeOK'
    <3>1. dispatcher' \in [Dispatcher -> Run]
      BY <2>0, <2>7 DEF Claim, TypeOK, Run
    <3>2. reminder' \in [Cycle -> Row]
      BY <2>7 DEF Claim, TypeOK, Row
    <3> QED
      BY <2>7, <3>1, <3>2 DEF Claim, TypeOK, planning
  <2> QED
    BY <1>5, <2>1, <2>2, <2>3, <2>4, <2>5, <2>6, <2>7
<1>6. ASSUME NEW c \in Cycle, MarkRead(c) PROVE TypeOK'
  BY <1>6 DEF MarkRead, TypeOK, Row, planning
<1>7. CASE UNCHANGED vars
  BY <1>7 DEF TypeOK, vars
<1> QED
  BY <1>1, <1>2, <1>3, <1>4, <1>5, <1>6, <1>7 DEF Next
-----------------------------------------------------------------------------
\* What a step leaves alone keeps the invariant.
Rest == RunsShaped /\ HeldOnce /\ AttemptsSound /\ Mailed

LEMMA InitRest ==
  ASSUME Init
  PROVE  Rest
BY DEF Init, Rest, RunsShaped, HeldOnce, AttemptsSound, AttemptSound, Mailed, OneMailPerCycle,
   StatusIsTrue, Attempting, Held, Idle, NoRow

LEMMA RestUnchanged ==
  ASSUME Rest, UNCHANGED work
  PROVE  Rest'
BY DEF work, Rest, RunsShaped, HeldOnce, AttemptsSound, AttemptSound, Mailed, OneMailPerCycle,
   StatusIsTrue, Attempting, Held

\* A run that begins, ends or gives something up holds no more than before.
LEMMA RunLetsGo ==
  ASSUME TypeOK, Rest, NEW d \in Dispatcher,
         Start(d) \/ Abandon(d) \/ Finish(d) \/ Die(d)
  PROVE  Rest'
<1>0. dispatcher[d] \in Run /\ dispatcher[d].todo \subseteq Cycle
  BY DEF TypeOK, Run
<1>1. /\ UNCHANGED <<reminder, mails>>
      /\ \A e \in Dispatcher : e # d => dispatcher'[e] = dispatcher[e]
      /\ dispatcher'[d].step \in {"idle", "started", "delivering"}
      /\ dispatcher'[d].cycle = None
      /\ dispatcher'[d].todo \subseteq dispatcher[d].todo
      /\ dispatcher'[d].step # "delivering" => dispatcher'[d].todo = {}
  BY <1>0 DEF Start, Abandon, Finish, Die, Done, Idle, TypeOK, Run, Rest, RunsShaped,
     Attempting
<1>2. ~Attempting(d)'
  BY <1>1 DEF Attempting
<1>3. \A e \in Dispatcher : Held(e)' \subseteq Held(e)
  BY <1>1, <1>2 DEF Held, Attempting
<1>4. RunsShaped'
  BY <1>1, <1>2 DEF Rest, RunsShaped, Attempting
<1>5. HeldOnce'
  BY <1>1, <1>3 DEF Rest, HeldOnce
<1>6. AttemptsSound'
  BY <1>1, <1>2 DEF Rest, AttemptsSound, AttemptSound, Attempting
<1>7. Mailed'
  BY <1>1 DEF Rest, Mailed, OneMailPerCycle, StatusIsTrue
<1> QED
  BY <1>4, <1>5, <1>6, <1>7 DEF Rest

\* What a run creates was absent before, so nobody held it and nobody was mailed.
LEMMA CreateKeepsRest ==
  ASSUME TypeOK, Rest, NEW d \in Dispatcher, Create(d)
  PROVE  Rest'
<1> DEFINE due == {c \in Cycle : Current(c) /\ InWindow(c[3], dispatcher[d].day)
                                 /\ Missing(c)}
<1>1. /\ mails' = mails
      /\ reminder' = [c \in Cycle |->
            IF c \in due THEN [NoRow EXCEPT !.revision = Revision(c[1]),
                                            !.status = "unconfirmed"]
                         ELSE reminder[c]]
      /\ dispatcher' = [dispatcher EXCEPT ![d].step = "delivering", ![d].todo = due]
      /\ dispatcher[d].step = "started"
  BY DEF Create
<1>2. due \subseteq Cycle /\ \A c \in due : reminder[c].status = "absent"
  BY DEF Missing
<1> HIDE DEF due
<1>3. /\ \A e \in Dispatcher : e # d => dispatcher'[e] = dispatcher[e]
      /\ dispatcher'[d].step = "delivering" /\ dispatcher'[d].todo = due
      /\ dispatcher'[d].cycle = None
  BY <1>1 DEF TypeOK, Run, Rest, RunsShaped, Attempting
<1>4. /\ \A c \in due : reminder'[c].status = "unconfirmed" /\ ~reminder'[c].claimed
      /\ \A c \in Cycle \ due : reminder'[c] = reminder[c]
  BY <1>1, <1>2 DEF NoRow
<1>5. Held(d)' = due /\ \A e \in Dispatcher : e # d => Held(e)' = Held(e)
  BY <1>2, <1>3 DEF Held, Attempting
<1>6. \A e \in Dispatcher : Held(e) \subseteq Cycle /\ Held(e) \intersect due = {}
  BY <1>2 DEF Held, Rest, HeldOnce, TypeOK, Run
<1>7. RunsShaped'
  BY <1>3 DEF Rest, RunsShaped, Attempting
<1>8. HeldOnce'
  BY <1>2, <1>4, <1>5, <1>6 DEF Rest, HeldOnce
<1>9. AttemptsSound'
  <2>1. ASSUME NEW e \in Dispatcher, Attempting(e)'
        PROVE  AttemptSound(e)'
    <3>1. e # d /\ dispatcher'[e] = dispatcher[e] /\ Attempting(e)
      BY <1>3, <2>1 DEF Attempting
    <3>2. AttemptSound(e) /\ dispatcher[e].cycle \in Cycle \ due
      BY <1>2, <3>1 DEF Rest, AttemptsSound, AttemptSound, RunsShaped
    <3> QED
      BY <1>1, <1>4, <3>1, <3>2 DEF AttemptSound
  <2> QED
    BY <2>1 DEF AttemptsSound
<1>10. Mailed'
  BY <1>1, <1>2, <1>4 DEF Rest, Mailed, OneMailPerCycle, StatusIsTrue
<1> QED
  BY <1>7, <1>8, <1>9, <1>10 DEF Rest

\* A claim is on a row that no other run holds.
LEMMA ClaimKeepsRest ==
  ASSUME TypeOK, Rest, NEW d \in Dispatcher, NEW c \in Cycle, Claim(d, c)
  PROVE  Rest'
<1> DEFINE mail == Claimable(c) /\ Current(c)
<1>0. /\ dispatcher[d].step = "delivering" /\ c \in dispatcher[d].todo
      /\ mails' = mails
  BY DEF Claim
<1>1. /\ reminder' = IF ~Claimable(c) THEN reminder
                     ELSE [reminder EXCEPT ![c].claimed = TRUE,
                                           ![c].status = IF mail THEN @ ELSE "skipped"]
      /\ dispatcher' = [dispatcher EXCEPT ![d].todo = @ \ {c},
            ![d].step = IF mail THEN "claimed" ELSE @,
            ![d].cycle = IF mail THEN c ELSE @]
  BY DEF Claim
<1>2. mail \in BOOLEAN /\ (mail => Claimable(c))
  BY DEF Claimable, Current
<1> HIDE DEF mail
<1>3. /\ \A e \in Dispatcher : e # d => dispatcher'[e] = dispatcher[e]
      /\ dispatcher'[d].todo = dispatcher[d].todo \ {c}
      /\ dispatcher'[d].step = IF mail THEN "claimed" ELSE "delivering"
      /\ dispatcher'[d].cycle = IF mail THEN c ELSE None
  BY <1>0, <1>1 DEF TypeOK, Run, Rest, RunsShaped, Attempting
<1>4. /\ \A x \in Cycle : x # c => reminder'[x] = reminder[x]
      /\ Claimable(c) => reminder'[c].claimed
      /\ reminder'[c].status = IF ~Claimable(c) \/ mail THEN reminder[c].status
                                                       ELSE "skipped"
      /\ ~Claimable(c) => reminder'[c] = reminder[c]
  BY <1>1, <1>2 DEF TypeOK, Row
<1>5. /\ c \in Held(d) /\ Held(d)' \subseteq Held(d)
      /\ \A e \in Dispatcher : e # d => Held(e)' = Held(e)
  BY <1>0, <1>2, <1>3 DEF Held, Attempting
<1>6. \A e \in Dispatcher : e # d => c \notin Held(e)
  BY <1>5 DEF Rest, HeldOnce
<1>7. Claimable(c) => mails[c] = 0
  BY DEF Claimable, Rest, Mailed, StatusIsTrue
<1>8. RunsShaped'
  BY <1>2, <1>3 DEF Rest, RunsShaped, Attempting
<1>9. HeldOnce'
  <2>1. \A x \in Cycle : reminder[x].status # "absent" => reminder'[x].status # "absent"
    BY <1>2, <1>4 DEF Claimable
  <2>2. \A e \in Dispatcher : Held(e) \subseteq Cycle
    BY DEF Held, TypeOK, Run
  <2>3. \A e \in Dispatcher : Held(e)' \subseteq Held(e)
    BY <1>5
  <2> QED
    BY <2>1, <2>2, <2>3 DEF Rest, HeldOnce
<1>10. AttemptsSound'
  <2>1. ASSUME NEW e \in Dispatcher, e # d, Attempting(e)'
        PROVE  AttemptSound(e)'
    <3>1. dispatcher'[e] = dispatcher[e] /\ Attempting(e)
      BY <1>3, <2>1 DEF Attempting
    <3>2. AttemptSound(e) /\ dispatcher[e].cycle \in Cycle
      BY <3>1 DEF Rest, AttemptsSound, RunsShaped
    <3>3. dispatcher[e].cycle # c
      BY <1>6, <2>1, <3>1, <3>2 DEF Held
    <3> QED
      BY <1>0, <1>4, <3>1, <3>2, <3>3 DEF AttemptSound
  <2>2. Attempting(d)' => AttemptSound(d)'
    <3>1. CASE mail
      BY <1>0, <1>2, <1>3, <1>4, <1>7, <3>1 DEF AttemptSound, Claimable
    <3>2. CASE ~mail
      BY <1>3, <3>2 DEF Attempting
    <3> QED
      BY <3>1, <3>2
  <2> QED
    BY <2>1, <2>2 DEF AttemptsSound
<1>11. Mailed'
  BY <1>0, <1>2, <1>4, <1>7
     DEF Rest, Mailed, OneMailPerCycle, StatusIsTrue, Claimable
<1> QED
  BY <1>8, <1>9, <1>10, <1>11 DEF Rest

\* The mail of a claimed row is its first.
LEMMA SendKeepsRest ==
  ASSUME TypeOK, Rest, NEW d \in Dispatcher, Send(d)
  PROVE  Rest'
<1> DEFINE c == dispatcher[d].cycle
<1>1. PICK outcome \in {"delivered", "failed"}, left \in BOOLEAN :
        /\ outcome = "delivered" => left
        /\ dispatcher' = [dispatcher EXCEPT ![d].step = "answered", ![d].outcome = outcome]
        /\ mails' = [mails EXCEPT ![c] = IF left THEN @ + 1 ELSE @]
  BY DEF Send
<1>2. /\ dispatcher[d].step = "claimed" /\ c \in Cycle /\ reminder' = reminder
      /\ mails[c] = 0 /\ reminder[c].status = "unconfirmed" /\ reminder[c].claimed
  BY DEF Send, Rest, AttemptsSound, AttemptSound, RunsShaped, Attempting
<1>3. /\ \A e \in Dispatcher : e # d => dispatcher'[e] = dispatcher[e]
      /\ dispatcher'[d].step = "answered" /\ dispatcher'[d].outcome = outcome
      /\ dispatcher'[d].todo = dispatcher[d].todo /\ dispatcher'[d].cycle = c
  BY <1>1 DEF TypeOK, Run
<1>4. /\ \A x \in Cycle : x # c => mails'[x] = mails[x]
      /\ mails'[c] = IF left THEN 1 ELSE 0
  BY <1>1, <1>2 DEF TypeOK
<1>5. \A e \in Dispatcher : Held(e)' = Held(e)
  BY <1>2, <1>3 DEF Held, Attempting
<1>6. \A e \in Dispatcher : e # d => c \notin Held(e)
  BY <1>2 DEF Rest, HeldOnce, Held, Attempting
<1>7. RunsShaped'
  BY <1>2, <1>3 DEF Rest, RunsShaped, Attempting
<1>8. HeldOnce'
  BY <1>2, <1>5 DEF Rest, HeldOnce
<1>9. AttemptsSound'
  <2>1. ASSUME NEW e \in Dispatcher, e # d, Attempting(e)'
        PROVE  AttemptSound(e)'
    <3>1. dispatcher'[e] = dispatcher[e] /\ Attempting(e)
      BY <1>3, <2>1 DEF Attempting
    <3>2. AttemptSound(e) /\ dispatcher[e].cycle \in Cycle
      BY <3>1 DEF Rest, AttemptsSound, RunsShaped
    <3>3. dispatcher[e].cycle # c
      BY <1>6, <2>1, <3>1, <3>2 DEF Held
    <3> QED
      BY <1>2, <1>4, <3>1, <3>2, <3>3 DEF AttemptSound
  <2>2. Attempting(d)' => AttemptSound(d)'
    BY <1>1, <1>2, <1>3, <1>4 DEF AttemptSound, Attempting
  <2> QED
    BY <2>1, <2>2 DEF AttemptsSound
<1>10. Mailed'
  BY <1>2, <1>4 DEF Rest, Mailed, OneMailPerCycle, StatusIsTrue
<1> QED
  BY <1>7, <1>8, <1>9, <1>10 DEF Rest

\* What is recorded is what the run saw, on the row it claimed.
LEMMA RecordKeepsRest ==
  ASSUME TypeOK, Rest, NEW d \in Dispatcher, Record(d)
  PROVE  Rest'
<1> DEFINE c == dispatcher[d].cycle
<1>1. /\ dispatcher[d].step = "answered" /\ c \in Cycle /\ mails' = mails
      /\ reminder[c].status = "unconfirmed" /\ reminder[c].claimed
      /\ dispatcher[d].outcome \in {"delivered", "failed"}
      /\ dispatcher[d].outcome = "delivered" => mails[c] = 1
  BY DEF Record, Rest, AttemptsSound, AttemptSound, RunsShaped, Attempting
<1>2. /\ \A x \in Cycle : x # c => reminder'[x] = reminder[x]
      /\ reminder'[c].status = dispatcher[d].outcome /\ reminder'[c].claimed
  BY <1>1 DEF Record, TypeOK, Row
<1>3. /\ \A e \in Dispatcher : e # d => dispatcher'[e] = dispatcher[e]
      /\ dispatcher'[d].step = "delivering" /\ dispatcher'[d].cycle = None
      /\ dispatcher'[d].todo = dispatcher[d].todo
  BY DEF Record, Done, TypeOK, Run
<1>4. \A e \in Dispatcher : Held(e)' \subseteq Held(e)
  BY <1>3 DEF Held, Attempting
<1>5. \A e \in Dispatcher : e # d => c \notin Held(e)
  BY <1>1 DEF Rest, HeldOnce, Held, Attempting
<1>6. RunsShaped'
  BY <1>3 DEF Rest, RunsShaped, Attempting
<1>7. HeldOnce'
  <2>1. \A x \in Cycle : reminder[x].status # "absent" => reminder'[x].status # "absent"
    BY <1>1, <1>2
  <2>2. \A e \in Dispatcher : Held(e) \subseteq Cycle
    BY DEF Held, TypeOK, Run
  <2> QED
    BY <1>4, <2>1, <2>2 DEF Rest, HeldOnce
<1>8. AttemptsSound'
  <2>1. ASSUME NEW e \in Dispatcher, e # d, Attempting(e)'
        PROVE  AttemptSound(e)'
    <3>1. dispatcher'[e] = dispatcher[e] /\ Attempting(e)
      BY <1>3, <2>1 DEF Attempting
    <3>2. AttemptSound(e) /\ dispatcher[e].cycle \in Cycle
      BY <3>1 DEF Rest, AttemptsSound, RunsShaped
    <3>3. dispatcher[e].cycle # c
      BY <1>5, <2>1, <3>1, <3>2 DEF Held
    <3> QED
      BY <1>1, <1>2, <3>1, <3>2, <3>3 DEF AttemptSound
  <2>2. Attempting(d)' => AttemptSound(d)'
    BY <1>3 DEF Attempting
  <2> QED
    BY <2>1, <2>2 DEF AttemptsSound
<1>9. Mailed'
  BY <1>1, <1>2 DEF Rest, Mailed, OneMailPerCycle, StatusIsTrue
<1> QED
  BY <1>6, <1>7, <1>8, <1>9 DEF Rest

\* Reading a notification changes nothing that a run looks at.
LEMMA ReadingKeepsRest ==
  ASSUME TypeOK, Rest, NEW c \in Cycle, MarkRead(c)
  PROVE  Rest'
<1>1. /\ UNCHANGED <<dispatcher, mails>>
      /\ \A x \in Cycle : /\ reminder'[x].status = reminder[x].status
                           /\ reminder'[x].claimed = reminder[x].claimed
  BY DEF MarkRead, TypeOK, Row
<1>2. \A e \in Dispatcher : Held(e)' = Held(e) /\ Held(e) \subseteq Cycle
                              /\ (Attempting(e)' <=> Attempting(e))
  BY <1>1 DEF Held, Attempting, TypeOK, Run
<1>3. RunsShaped' /\ HeldOnce'
  BY <1>1, <1>2 DEF Rest, RunsShaped, HeldOnce
<1>4. AttemptsSound'
  BY <1>1, <1>2 DEF Rest, AttemptsSound, AttemptSound, RunsShaped
<1>5. Mailed'
  BY <1>1 DEF Rest, Mailed, OneMailPerCycle, StatusIsTrue
<1> QED
  BY <1>3, <1>4, <1>5 DEF Rest

LEMMA StepRest ==
  ASSUME TypeOK, Rest, [Next]_vars
  PROVE  Rest'
<1>1. ASSUME \/ \E a \in Activity : Edit(a) \/ Approve(a) \/ EndActivity(a) \/ AssignAgents(a)
             \/ \E u \in Agent : ChangeAccount(u)
             \/ NextDay
             \/ UNCHANGED vars
      PROVE  UNCHANGED work
  BY <1>1 DEF Edit, Approve, EndActivity, AssignAgents, ChangeAccount, NextDay, work, vars
<1> QED
  BY <1>1, RestUnchanged, RunLetsGo, CreateKeepsRest, ClaimKeepsRest, SendKeepsRest,
     RecordKeepsRest, ReadingKeepsRest DEF Next

LEMMA NamesApprovedEnd ==
  ASSUME TypeOK, RemindsOfApprovedEnd, [Next]_vars
  PROVE  RemindsOfApprovedEnd'
<1> DEFINE Names(c, r) == /\ r \in 1..Len(activity[c[1]].approved)
                          /\ activity[c[1]].approved[r] = c[3]
<1>0. \A a \in Activity : activity[a].approved \in Seq(End)
  BY DEF TypeOK, Plan
<1>1. ASSUME NEW c \in Cycle, NEW r \in Nat, Names(c, r)
      PROVE  Names(c, r)'
  <2> DEFINE a == c[1]
  <2>1. a \in Activity
    BY DEF Cycle
  <2>2. ASSUME NEW b \in Activity, Approve(b)
        PROVE  Names(c, r)'
    <3>1. activity[b].planned \in End
      BY DEF TypeOK, Plan
    <3>2. CASE a = b
      <4>1. activity'[a].approved = Append(activity[a].approved, activity[a].planned)
        BY <2>1, <2>2, <3>2 DEF Approve, TypeOK, Plan
      <4> QED
        BY <1>0, <1>1, <2>1, <3>1, <3>2, <4>1
    <3>3. CASE a # b
      BY <1>1, <2>1, <2>2, <3>3 DEF Approve, TypeOK
    <3> QED
      BY <3>2, <3>3
  <2>3. ASSUME NEW b \in Activity, Edit(b) \/ EndActivity(b) \/ AssignAgents(b)
        PROVE  Names(c, r)'
    <3>1. activity'[a].approved = activity[a].approved
      <4>1. CASE Edit(b)
        BY <2>1, <4>1 DEF Edit, TypeOK, Plan
      <4>2. CASE EndActivity(b)
        BY <2>1, <4>2 DEF EndActivity, TypeOK, Plan
      <4>3. CASE AssignAgents(b)
        BY <4>3 DEF AssignAgents
      <4> QED
        BY <2>3, <4>1, <4>2, <4>3
    <3> QED
      BY <1>1, <3>1
  <2>4. ASSUME UNCHANGED activity
        PROVE  Names(c, r)'
    BY <1>1, <2>4
  <2>5. ASSUME \/ \E u \in Agent : ChangeAccount(u)
               \/ NextDay \/ (\E x \in Cycle : MarkRead(x)) \/ UNCHANGED vars
               \/ \E d \in Dispatcher :
                     \/ Start(d) \/ Create(d) \/ Send(d) \/ Record(d) \/ Abandon(d)
                     \/ Finish(d) \/ Die(d) \/ \E x \in Cycle : Claim(d, x)
        PROVE  UNCHANGED activity
    BY <2>5 DEF ChangeAccount, NextDay, MarkRead, Start, Create, Send, Record, Abandon,
       Finish, Die, Claim, planning, vars
  <2> QED
    BY <2>2, <2>3, <2>4, <2>5 DEF Next
<1>2. ASSUME NEW c \in Cycle, reminder'[c].status # "absent"
      PROVE  \E r \in Nat : reminder'[c].revision = r /\ Names(c, r)
  <2>1. ASSUME NEW d \in Dispatcher, Create(d),
               Current(c), InWindow(c[3], dispatcher[d].day), Missing(c)
        PROVE  reminder'[c].revision = Revision(c[1]) /\ Names(c, Revision(c[1]))
    <3>1. activity[c[1]].approved \in Seq(End) /\ c[3] \in End
      BY <1>0 DEF Cycle
    <3>2. reminder'[c].revision = Revision(c[1])
      BY <2>1 DEF Create, NoRow
    <3>3. activity[c[1]].approved # <<>> /\ Last(activity[c[1]].approved) = c[3]
      BY <2>1, <3>1, CalendarAssumption DEF Current, ApprovedEnd
    <3> QED
      BY <3>1, <3>2, <3>3 DEF Revision, Last
  <2>2. ASSUME reminder'[c].revision = reminder[c].revision,
               reminder[c].status # "absent"
        PROVE  \E r \in Nat : reminder'[c].revision = r /\ Names(c, r)
    BY <2>2 DEF RemindsOfApprovedEnd, Revision, TypeOK, Row
  <2>3. ASSUME NEW d \in Dispatcher, Create(d),
               ~(Current(c) /\ InWindow(c[3], dispatcher[d].day) /\ Missing(c))
        PROVE  reminder'[c] = reminder[c]
    BY <2>3 DEF Create
  <2>4. ASSUME \/ \E a \in Activity : Edit(a) \/ Approve(a) \/ EndActivity(a)
                                       \/ AssignAgents(a)
               \/ \E u \in Agent : ChangeAccount(u)
               \/ NextDay \/ UNCHANGED vars
               \/ \E d \in Dispatcher : \/ Start(d) \/ Send(d) \/ Abandon(d)
                                        \/ Finish(d) \/ Die(d)
        PROVE  reminder' = reminder
    BY <2>4 DEF Edit, Approve, EndActivity, AssignAgents, ChangeAccount, NextDay, Start,
       Send, Abandon, Finish, Die, work, vars
  <2>5. ASSUME \/ \E x \in Cycle : MarkRead(x)
               \/ \E d \in Dispatcher : Record(d) \/ \E x \in Cycle : Claim(d, x)
        PROVE  /\ reminder'[c].revision = reminder[c].revision
               /\ reminder[c].status # "absent"
    <3>1. ASSUME NEW x \in Cycle, MarkRead(x)
          PROVE  /\ reminder'[c].revision = reminder[c].revision
                 /\ reminder'[c].status = reminder[c].status
      BY <3>1 DEF MarkRead, TypeOK, Row
    <3>2. ASSUME NEW d \in Dispatcher, Record(d)
          PROVE  /\ reminder'[c].revision = reminder[c].revision
                 /\ reminder[c].status = "absent" => reminder'[c] = reminder[c]
      BY <3>2 DEF Record, TypeOK, Row
    <3>3. ASSUME NEW d \in Dispatcher, NEW x \in Cycle, Claim(d, x)
          PROVE  /\ reminder'[c].revision = reminder[c].revision
                 /\ reminder[c].status = "absent" => reminder'[c] = reminder[c]
      BY <3>3 DEF Claim, Claimable, TypeOK, Row
    <3> QED
      BY <1>2, <2>5, <3>1, <3>2, <3>3
  <2>6. Revision(c[1]) \in Nat
    BY <1>0 DEF Cycle, Revision
  <2> QED
    BY <1>2, <2>1, <2>2, <2>3, <2>4, <2>5, <2>6 DEF Next
<1> QED
  BY <1>1, <1>2 DEF RemindsOfApprovedEnd, Revision

LEMMA MailsInvariant == Spec => [](TypeOK /\ Rest /\ RemindsOfApprovedEnd)
<1>1. Init => TypeOK /\ Rest /\ RemindsOfApprovedEnd
  BY InitType, InitRest DEF Init, NoRow, RemindsOfApprovedEnd
<1>2. TypeOK /\ Rest /\ RemindsOfApprovedEnd /\ [Next]_vars
         => (TypeOK /\ Rest /\ RemindsOfApprovedEnd)'
  BY StepType, StepRest, NamesApprovedEnd DEF Rest
<1> QED
  BY <1>1, <1>2, PTL DEF Spec

\* One mail at most for each end date approved, by one run, truly reported: overlapping
\* runs, lost answers, deaths and renewed approvals included (dispatch_due_reminders,
\* deliver_reminder).
THEOREM EveryMailAccountedFor == Spec => []MailsAccountedFor
<1>1. TypeOK /\ Rest => OneRunPerCycle
  <2> SUFFICES ASSUME TypeOK, Rest, NEW d \in Dispatcher, NEW e \in Dispatcher, d # e
               PROVE  (dispatcher[d].todo \union ({dispatcher[d].cycle} \ {None}))
                      \intersect
                      (dispatcher[e].todo \union ({dispatcher[e].cycle} \ {None})) = {}
    BY DEF OneRunPerCycle
  <2>1. \A x \in Dispatcher :
          dispatcher[x].todo \union ({dispatcher[x].cycle} \ {None}) \subseteq Held(x)
    BY DEF Held, Rest, RunsShaped
  <2>2. Held(d) \intersect Held(e) = {}
    BY DEF Rest, HeldOnce
  <2> QED
    BY <2>1, <2>2
<1>2. TypeOK /\ Rest /\ RemindsOfApprovedEnd => MailsAccountedFor
  BY <1>1 DEF MailsAccountedFor, Rest, Mailed
<1> QED
  BY <1>2, MailsInvariant, PTL
=============================================================================
