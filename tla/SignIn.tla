------------------------------- MODULE SignIn -------------------------------
(***************************************************************************)
(* Signing in (auth/service.py): a browser opens an anonymous context, the *)
(* password turns it into a pending one and mails a code of six digits,    *)
(* and the code turns it into a verified session.                          *)
(*                                                                         *)
(* Every stored time is kept as the time that is left of it, or that has   *)
(* passed since it, up to the longest period any test compares it with; a  *)
(* step of the clock moves all of them.                                    *)
(***************************************************************************)
EXTENDS Integers, FiniteSets

CONSTANTS User, Context, BusinessRole, None,
          Address,                      \* where attempts come from
          Network,                      \* the addresses whose attempts are followed
          OtpSeconds, OtpAttempts, OtpLockSeconds, ResendSeconds, ResendMax,
          ContextSeconds, SessionSeconds,
          LoginLimit, LoginWindow, IpLimit, IpWindow,
          Reuse,                        \* bound: whether names of contexts are reused
          MaxCodes,                     \* bound: codes issued to one user
          MaxVersion,                   \* bound: the version of an account
          MaxTasks                      \* bound: mails under way at once

\* What auth/policy.py demands of every policy: its numbers are positive.
ASSUME PolicyAssumption ==
    /\ {OtpSeconds, OtpAttempts, OtpLockSeconds, ResendSeconds, ResendMax,
        ContextSeconds, SessionSeconds, LoginLimit, LoginWindow, IpLimit, IpWindow,
        MaxCodes, MaxVersion, MaxTasks} \subseteq Nat \ {0}
    /\ Reuse \in BOOLEAN
\* The periods of the LOCAL policy, and of the one the tests run under. A policy file
\* may have others: nothing refuses a lock shorter than the code it is about.
ASSUME PeriodAssumption ==
    /\ OtpSeconds <= OtpLockSeconds
    /\ ResendSeconds <= ContextSeconds /\ OtpSeconds <= ContextSeconds
\* Addresses outside Network stand for all others; there is always a fresh one.
ASSUME NameAssumption == /\ None \notin User \union Context
                         /\ Network \subseteq Address /\ Address \intersect User = {}

VARIABLES account,    \* account[u]: what a proof of u is computed from
          context,    \* context[c]: one browser's row in auth_context
          otp,        \* otp[u]: u's row in auth_otp
          counter,    \* counter[k]: attempts in the window of a user or of an address
          tasks,      \* codes being mailed
          mailed,     \* mailed[u]: codes that have left the server
          guesses,    \* guesses[u]: attempts at a live code, see GuessesBounded
          granted     \* granted[u]: codes that opened a session

vars == <<account, context, otp, counter, tasks, mailed, guesses, granted>>
-----------------------------------------------------------------------------
Key == User \union Network
Maximum(k) == IF k \in Network THEN IpLimit ELSE LoginLimit
Window(k) == IF k \in Network THEN IpWindow ELSE LoginWindow

Account == [state : {"active", "inactive"}, role : BusinessRole,
            version : Nat, password : Nat]

\* "free" is an identifier not drawn yet.
ContextRow == [state : {"free", "anonymous", "pending", "verified", "revoked"},
               user : User \union {None}, proof : Account \union {None},
               left : 0..(ContextSeconds + SessionSeconds)]

NoContext == [state |-> "free", user |-> None, proof |-> None, left |-> 0]

\* No lock at all, which the code tells apart from one that has ended (0).
NoLock == -1

OtpRow == [state : {"absent", "prepared", "delivered", "consumed"},
           context : Context \union {None}, generation : Nat,
           left : 0..OtpSeconds, since : 0..ContextSeconds,
           attempts : 0..OtpAttempts, resends : 0..ResendMax,
           lock : {NoLock} \union 0..OtpLockSeconds]

NoOtp == [state |-> "absent", context |-> None, generation |-> 0, left |-> 0,
          since |-> ContextSeconds, attempts |-> 0, resends |-> 0, lock |-> NoLock]

\* No row, or one whose window has passed: the next attempt begins a window.
NoAttempts == [count |-> 0, left |-> 0]

Task == [user : User, generation : 1..MaxCodes, step : {"prepared", "sent", "failed"}]

Init ==
    /\ account \in [User -> {[state |-> "active", role |-> r, version |-> 2,
                              password |-> 2] : r \in BusinessRole}]
    /\ context = [c \in Context |-> NoContext]
    /\ otp = [u \in User |-> NoOtp]
    /\ counter = [k \in Key |-> NoAttempts]
    /\ tasks = {}
    /\ mailed = [u \in User |-> {}]
    /\ guesses = [u \in User |-> 0]
    /\ granted = [u \in User |-> {}]
-----------------------------------------------------------------------------
(***************************************************************************)
(* Contexts.                                                               *)
(***************************************************************************)
Proof(u) == account[u]

\* mutant: only verified sessions are compared with the account
Usable_Verified(c) ==
    /\ context[c].state \notin {"free", "revoked"} /\ context[c].left > 0
    /\ context[c].state = "verified" =>
          /\ account[context[c].user].state = "active"
          /\ context[c].proof = Proof(context[c].user)
\* The test every request begins with. last_activity is written once, when the
\* row is made, so the idle limit never ends a context before its own expiry.
Usable(c) ==
    /\ context[c].state \notin {"free", "revoked"} /\ context[c].left > 0
    /\ context[c].user # None =>
          /\ account[context[c].user].state = "active"
          /\ context[c].proof = Proof(context[c].user)

\* What every business command asks of its caller.
Principal(c, u) == Usable(c) /\ context[c].state = "verified" /\ context[c].user = u

NewContext(c) ==
    /\ context[c].state = "free"
    /\ context' = [context EXCEPT ![c] = [state |-> "anonymous", user |-> None,
                                          proof |-> None, left |-> ContextSeconds]]
    /\ UNCHANGED <<account, otp, counter, tasks, mailed, guesses, granted>>

\* The program draws identifiers without end; with Reuse, so does the model: those of
\* dead rows are drawn again.
Forget(c) ==
    /\ Reuse /\ context[c].state # "free"
    /\ context[c].state = "revoked" \/ context[c].left = 0
    /\ context' = [context EXCEPT ![c] = NoContext]
    /\ UNCHANGED <<account, otp, counter, tasks, mailed, guesses, granted>>

Logout(c) ==
    /\ Usable(c)
    /\ context' = [context EXCEPT ![c].state = "revoked"]
    /\ UNCHANGED <<account, otp, counter, tasks, mailed, guesses, granted>>
-----------------------------------------------------------------------------
(***************************************************************************)
(* Limits. A refused attempt counts too; the window does not move.         *)
(***************************************************************************)
\* mutant: every attempt begins the window anew
Counted_Sliding(k) ==
    LET row == IF counter[k] = NoAttempts THEN [count |-> 0, left |-> Window(k)]
                                          ELSE counter[k]
    IN  [count |-> IF row.count = Maximum(k) THEN row.count ELSE row.count + 1,
         left |-> Window(k)]
\* One more attempt; counts from the last one accepted on are not told apart.
Counted(k) ==
    LET row == IF counter[k] = NoAttempts THEN [count |-> 0, left |-> Window(k)]
                                          ELSE counter[k]
    IN  [row EXCEPT !.count = IF @ = Maximum(k) THEN @ ELSE @ + 1]

\* The next attempt will be accepted.
Within(k) == k \in Key => counter[k].count < Maximum(k)

CountAttempt(u, n) == counter' = [k \in Key |-> IF k \in {u, n} THEN Counted(k)
                                                               ELSE counter[k]]
-----------------------------------------------------------------------------
(***************************************************************************)
(* The challenge.                                                          *)
(***************************************************************************)
Locked(u) == otp[u].lock > 0

\* Nothing was sent to u for as long as a context lives.
Quiet(u) == otp[u].since >= ContextSeconds /\ ~Locked(u)

\* mutant: a lock holds for attempts only, not for new codes
Challengeable_Locked(u) ==
    \/ otp[u].state = "absent"
    \/ /\ otp[u].since >= ResendSeconds
       /\ otp[u].state = "consumed" \/ Quiet(u) \/ otp[u].resends < ResendMax
\* The three answers 429 of login() to the right password.
Challengeable(u) ==
    \/ otp[u].state = "absent"
    \/ /\ ~Locked(u)
       /\ otp[u].since >= ResendSeconds
       /\ otp[u].state = "consumed" \/ Quiet(u) \/ otp[u].resends < ResendMax

Cleared(row) == [row EXCEPT !.attempts = 0, !.resends = 0, !.lock = NoLock]

\* A lock that has ended takes its attempts with it.
Unlocked(row) == IF row.lock = 0 THEN [row EXCEPT !.attempts = 0, !.lock = NoLock]
                                 ELSE row

\* The row a new code is prepared on when the password was right.
Reopened(u) ==
    LET row == IF Quiet(u) THEN Cleared(otp[u]) ELSE otp[u]
    IN  CASE row.state = "absent" -> row
          [] row.state = "consumed" -> Cleared(row)
          [] OTHER -> [Unlocked(row) EXCEPT !.resends = @ + 1]

PrepareOtp(u, c, row) ==
    LET g == otp[u].generation + 1
    IN  /\ g <= MaxCodes
        /\ Cardinality(tasks) < MaxTasks
        /\ otp' = [otp EXCEPT ![u] = [row EXCEPT !.state = "prepared", !.context = c,
                      !.generation = g, !.left = OtpSeconds, !.since = 0]]
        /\ context' = [context EXCEPT ![c].state = "pending", ![c].user = u,
                                      ![c].proof = Proof(u)]
        /\ tasks' = tasks \union {[user |-> u, generation |-> g, step |-> "prepared"]}
        \* A count may start anew after a sign-in, a silence or a lock.
        /\ guesses' = [guesses EXCEPT ![u] =
              IF otp[u].state = "consumed" \/ Quiet(u) \/ otp[u].lock = 0
              THEN 0 ELSE @]
        /\ UNCHANGED <<account, mailed, granted>>

\* A login that reaches the password: its attempts are counted. One with a spent or
\* verified context is rolled back, the counters included.
Login(u, c, n) == Usable(c) /\ context[c].state # "verified" /\ CountAttempt(u, n)

LoginChallenged(u, c, n) ==
    /\ Login(u, c, n)
    /\ Within(u) /\ Within(n)
    /\ account[u].state = "active"
    /\ Challengeable(u)
    /\ PrepareOtp(u, c, Reopened(u))

\* Wrong credentials, a limit, or a challenge that has to wait.
LoginRefused(u, c, n) ==
    /\ Login(u, c, n)
    /\ UNCHANGED <<account, context, otp, tasks, mailed, guesses, granted>>

\* mutant: any pending context of the user will do
Challenged_AnyContext(u, c) == /\ Usable(c) /\ context[c].state = "pending"
                               /\ context[c].user = u /\ otp[u].state # "absent"
                               /\ otp[u].state # "consumed" /\ ~Locked(u)
\* The pending context that holds the newest code of its user.
Challenged(u, c) == /\ Usable(c) /\ context[c].state = "pending"
                    /\ context[c].user = u /\ otp[u].context = c
                    /\ otp[u].state # "consumed" /\ ~Locked(u)

\* mutant: another code, another five attempts
ResendCode_Forgiving(u, c) ==
    /\ Challenged(u, c)
    /\ otp[u].since >= ResendSeconds /\ otp[u].resends < ResendMax
    /\ PrepareOtp(u, c, [otp[u] EXCEPT !.resends = @ + 1, !.attempts = 0, !.lock = NoLock])
    /\ UNCHANGED counter
ResendCode(u, c) ==
    /\ Challenged(u, c)
    /\ otp[u].since >= ResendSeconds /\ otp[u].resends < ResendMax
    /\ PrepareOtp(u, c, [Unlocked(otp[u]) EXCEPT !.resends = @ + 1])
    /\ UNCHANGED counter

Live(u) == otp[u].state = "delivered" /\ otp[u].left > 0

\* mutant: the code and the context it was entered in stay as they were
VerifyRight_Unconsumed(u, c, d) ==
    /\ Challenged(u, c) /\ Live(u)
    /\ context[d].state = "free"
    /\ context' = [context EXCEPT ![d] = [state |-> "verified", user |-> u,
                       proof |-> Proof(u), left |-> SessionSeconds]]
    /\ granted' = [granted EXCEPT ![u] = @ \union {otp[u].generation}]
    /\ UNCHANGED <<account, otp, counter, tasks, mailed, guesses>>
\* The right code: the context is rotated for a session of its own.
VerifyRight(u, c, d) ==
    /\ Challenged(u, c) /\ Live(u)
    /\ context[d].state = "free"
    /\ otp' = [otp EXCEPT ![u].state = "consumed"]
    /\ context' = [context EXCEPT ![c].state = "revoked",
          ![d] = [state |-> "verified", user |-> u, proof |-> Proof(u),
                  left |-> SessionSeconds]]
    /\ granted' = [granted EXCEPT ![u] = @ \union {otp[u].generation}]
    /\ UNCHANGED <<account, counter, tasks, mailed, guesses>>

\* Anything else counts as an attempt, on a code that cannot succeed as well.
VerifyWrong(u, c) ==
    /\ Challenged(u, c)
    /\ LET attempts == IF otp[u].attempts = OtpAttempts THEN OtpAttempts
                                                        ELSE otp[u].attempts + 1
       IN  otp' = [otp EXCEPT ![u].attempts = attempts,
                      ![u].lock = IF attempts >= OtpAttempts THEN OtpLockSeconds ELSE @]
    /\ guesses' = [guesses EXCEPT ![u] = IF Live(u) THEN @ + 1 ELSE @]
    /\ UNCHANGED <<account, context, counter, tasks, mailed, granted>>
-----------------------------------------------------------------------------
(***************************************************************************)
(* The mail.                                                               *)
(***************************************************************************)
Send(t) ==
    /\ t.step = "prepared"
    /\ \E step \in {"sent", "failed"}, left \in BOOLEAN :
          /\ step = "sent" => left
          /\ tasks' = (tasks \ {t}) \union {[t EXCEPT !.step = step]}
          /\ mailed' = [mailed EXCEPT ![t.user] =
                           IF left THEN @ \union {t.generation} ELSE @]
    /\ UNCHANGED <<account, context, otp, counter, guesses, granted>>

\* The only test is the generation; a code cannot be redeemed before.
DeliverOtp(t) ==
    /\ t.step # "prepared"
    /\ tasks' = tasks \ {t}
    /\ otp' = IF otp[t.user].generation = t.generation
              THEN [otp EXCEPT ![t.user].state =
                       IF t.step = "sent" THEN "delivered" ELSE "prepared"]
              ELSE otp
    /\ UNCHANGED <<account, context, counter, mailed, guesses, granted>>

Lose(t) == /\ tasks' = tasks \ {t}
           /\ UNCHANGED <<account, context, otp, counter, mailed, guesses, granted>>
-----------------------------------------------------------------------------
(***************************************************************************)
(* The account, which Accounts changes in these three ways, and the clock. *)
(***************************************************************************)
Change(u, row) ==
    /\ account[u].state = "active" /\ account[u].version < MaxVersion
    /\ account' = [account EXCEPT ![u] = [row EXCEPT !.version = @ + 1]]
    /\ UNCHANGED <<context, otp, counter, tasks, mailed, guesses, granted>>

ChangeRole(u) == \E role \in BusinessRole \ {account[u].role} :
                    Change(u, [account[u] EXCEPT !.role = role])

Deactivate(u) == Change(u, [account[u] EXCEPT !.state = "inactive"])

ResetPassword(u) == Change(u, [account[u] EXCEPT !.password = account[u].version + 1])

Sooner(n) == IF n > 0 THEN n - 1 ELSE n

Tick ==
    /\ context' = [c \in Context |-> [context[c] EXCEPT !.left = Sooner(@)]]
    /\ otp' = [u \in User |-> [otp[u] EXCEPT !.left = Sooner(@), !.lock = Sooner(@),
                  !.since = IF @ < ContextSeconds THEN @ + 1 ELSE @]]
    /\ counter' = [k \in Key |-> IF counter[k].left > 1
                                 THEN [counter[k] EXCEPT !.left = @ - 1] ELSE NoAttempts]
    /\ UNCHANGED <<account, tasks, mailed, guesses, granted>>

Next ==
    \/ \E c \in Context : NewContext(c) \/ Forget(c) \/ Logout(c)
    \/ \E u \in User, c \in Context :
          \/ \E n \in Address : LoginChallenged(u, c, n) \/ LoginRefused(u, c, n)
          \/ ResendCode(u, c)
          \/ VerifyWrong(u, c) \/ \E d \in Context : VerifyRight(u, c, d)
    \/ \E u \in User : ChangeRole(u) \/ Deactivate(u) \/ ResetPassword(u)
    \/ \E t \in tasks : Send(t) \/ DeliverOtp(t) \/ Lose(t)
    \/ Tick

Spec == Init /\ [][Next]_vars

\* Time passes; nobody is obliged to do anything.
FairSpec == Spec /\ WF_vars(Tick)
-----------------------------------------------------------------------------
\* The types of all rows.
TypeOK ==
    /\ account \in [User -> Account]
    /\ context \in [Context -> ContextRow]
    /\ otp \in [User -> OtpRow]
    /\ counter \in [Key -> [count : Nat, left : Nat]]
    /\ \A k \in Key : counter[k].count <= Maximum(k) /\ counter[k].left <= Window(k)
    /\ tasks \subseteq Task
    /\ \A u \in User : mailed[u] \union granted[u] \subseteq 1..otp[u].generation
    /\ guesses \in [User -> Nat]

\* A code that opens a session is one that has left the server: the late delivery
\* of a replaced code does not make the new one acceptable before its own mail.
CodesWereMailed ==
    \A u \in User : /\ otp[u].state \in {"delivered", "consumed"} =>
                          otp[u].generation \in mailed[u]
                    /\ granted[u] \subseteq mailed[u]

\* Whoever holds the password can try at most OtpAttempts codes that could be
\* right, over all the codes sent, until a lock has run its time, a code was
\* accepted or nothing was sent for the life of a context.
GuessesBounded == \A u \in User : guesses[u] <= OtpAttempts

\* Each code opens one session at most: the sessions of a user that were ever
\* opened are no more than the codes that opened them.
OneSessionPerCode ==
    \A u \in User :
        Cardinality({c \in Context : context[c].state = "verified" /\ context[c].user = u})
            <= Cardinality(granted[u])

\* The rows agree with the codes that were mailed, tried and accepted.
CodesConsistent == TypeOK /\ CodesWereMailed /\ OneSessionPerCode /\ GuessesBounded
-----------------------------------------------------------------------------
\* A session begins only in the browser that gave the password and then the mailed
\* code, while the account is exactly what it was when the password was checked.
GrantFollowsBothProofs ==
    [][\A d \in Context : context'[d].state = "verified" /\ context[d].state # "verified" =>
         \E c \in Context, u \in User :
            /\ context[c].state = "pending" /\ context[c].user = u
            /\ context[c].proof = account[u] /\ context'[d].proof = account[u]
            /\ account[u].state = "active"
            /\ otp[u].context = c /\ otp[u].generation \in mailed[u] \ granted[u]
            /\ context'[c].state = "revoked"]_vars

\* What a request was once refused for, it is refused for ever: a context that was
\* signed out, has expired or belongs to an account that changed never works again,
\* not even when the account gets its old role back.
DeadContextsStayDead ==
    [][\A c \in Context :
         context[c].state # "free" /\ ~Usable(c) => ~Usable(c)']_vars

\* A change of role, state or password ends all sessions and challenges of the
\* account at once.
ChangesSignOut ==
    [][\A u \in User : account'[u] # account[u] =>
         \A c \in Context : context[c].user = u => ~Usable(c)']_vars

\* What a sign-out, an expiry or a change of the account ends is over at once and for
\* good.
SignedOutForGood == DeadContextsStayDead /\ ChangesSignOut

\* Nothing goes around a lock: while it lasts no new code is issued, in whatever
\* browser, and no attempt is counted or accepted.
LocksHold ==
    [][\A u \in User : Locked(u) =>
         /\ otp'[u].generation = otp[u].generation
         /\ otp'[u].attempts = otp[u].attempts
         /\ otp'[u].lock \in {otp[u].lock, otp[u].lock - 1}
         /\ granted'[u] = granted[u]]_vars
-----------------------------------------------------------------------------
\* The codes of a sign-in are one-time secrets.
Redeemable(u) == /\ Challenged(u, otp[u].context)
                 /\ otp[u].left > 0

CodePhase(u) == CASE otp[u].state = "absent" -> "idle"
                  [] otp[u].state = "consumed" -> "spent"
                  [] otp[u].state = "prepared" /\ Redeemable(u) -> "issued"
                  [] otp[u].state = "delivered" /\ Redeemable(u) -> "usable"
                  [] OTHER -> "void"

Codes == INSTANCE OneTimeSecret WITH Holder <- User,
    issued <- [u \in User |-> otp[u].generation],
    phase <- [u \in User |-> CodePhase(u)],
    redeemed <- granted

\* A code that was locked, that ran out, whose browser signed out or began another
\* sign-in, or whose account changed, is dead for good; this needs the lock to last
\* at least as long as the code.
CodesAreOneTime == Codes!Spec
-----------------------------------------------------------------------------
\* Why the right password may be answered with 429 to someone at n.
HeldBack(u, n) == ~Within(u) \/ ~Within(n) \/ ~Challengeable(u)

\* Nobody is shut out for good by what others try on the account, from wherever they
\* try it: as long as the limit of the holder's own address is not used up, the moment
\* comes again and again at which the holder can sign in. At an address whose limit
\* others use up again and again this is not so: the two windows need not end together.
SignInReopens ==
    \A u \in User, n \in Network : <>[]Within(n) => []<>~HeldBack(u, n)
=============================================================================
