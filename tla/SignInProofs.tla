---------------------------- MODULE SignInProofs ----------------------------
(***************************************************************************)
(* Theorems about SignIn for any users, browsers, addresses, roles, limits *)
(* and bounds, and for periods that keep PeriodAssumption.                 *)
(***************************************************************************)
EXTENDS SignIn, FiniteSetTheorems, TLAPS

-----------------------------------------------------------------------------
\* The invariant, in parts that share few variables.

CountersTyped ==
    /\ counter \in [Key -> [count : Nat, left : Nat]]
    /\ \A k \in Key : counter[k].count <= Maximum(k) /\ counter[k].left <= Window(k)

\* A context knows the account as it was once: never a later version of it.
ContextsSound ==
    /\ account \in [User -> Account]
    /\ context \in [Context -> ContextRow]
    /\ \A c \in Context :
          /\ context[c].state \in {"pending", "verified"} => context[c].user # None
          /\ context[c].user # None =>
                /\ context[c].proof \in Account
                /\ context[c].proof.version <= account[context[c].user].version

CodesTyped ==
    /\ otp \in [User -> OtpRow]
    /\ tasks \subseteq Task
    /\ mailed \in [User -> SUBSET Nat] /\ granted \in [User -> SUBSET Nat]
    /\ \A u \in User : mailed[u] \union granted[u] \subseteq 1..otp[u].generation

RowsShaped ==
    \A u \in User : IF otp[u].state = "absent" THEN otp[u] = NoOtp
                                               ELSE otp[u].context \in Context

\* A code was mailed before it opens a session, and it is consumed by that.
RowsSound ==
    \A u \in User :
        /\ otp[u].state \in {"delivered", "consumed"} => otp[u].generation \in mailed[u]
        /\ granted[u] \subseteq mailed[u]
        /\ otp[u].generation \in granted[u] => otp[u].state = "consumed"

\* The mail of a code is one task, which ends before the code can be accepted.
TaskSound(t) ==
    /\ t.generation <= otp[t.user].generation
    /\ t.generation = otp[t.user].generation => otp[t.user].state = "prepared"
    /\ t.step = "sent" => t.generation \in mailed[t.user]
    /\ \A s \in tasks : s.user = t.user /\ s.generation = t.generation => s = t

CodesSound == CodesTyped /\ RowsShaped /\ RowsSound /\ \A t \in tasks : TaskSound(t)

\* Without a lock the row has counted every guess; with one there is no code left
\* to guess when it ends.
GuessSound(u) ==
    /\ otp[u].lock = NoLock =>
          guesses[u] <= otp[u].attempts /\ otp[u].attempts < OtpAttempts
    /\ otp[u].lock # NoLock =>
          guesses[u] <= OtpAttempts /\ otp[u].left <= otp[u].lock

GuessesSound == guesses \in [User -> Nat] /\ \A u \in User : GuessSound(u)

Sessions(u) == {c \in Context : context[c].state = "verified" /\ context[c].user = u}

SessionsCounted ==
    \A u \in User : /\ IsFiniteSet(Sessions(u))
                    /\ Cardinality(Sessions(u)) <= Cardinality(granted[u])

SignInInv == /\ CountersTyped /\ ContextsSound /\ CodesSound
             /\ GuessesSound /\ SessionsCounted
-----------------------------------------------------------------------------
LEMMA Policy ==
    /\ OtpSeconds \in Nat \ {0} /\ OtpAttempts \in Nat \ {0} /\ OtpLockSeconds \in Nat \ {0}
    /\ ResendSeconds \in Nat \ {0} /\ ResendMax \in Nat \ {0}
    /\ ContextSeconds \in Nat \ {0} /\ SessionSeconds \in Nat \ {0}
    /\ OtpSeconds <= OtpLockSeconds /\ OtpSeconds <= ContextSeconds
    /\ ResendSeconds <= ContextSeconds /\ MaxCodes \in Nat \ {0}
BY PolicyAssumption, PeriodAssumption

LEMMA Limits ==
    ASSUME NEW k \in Key
    PROVE  Maximum(k) \in Nat \ {0} /\ Window(k) \in Nat \ {0}
BY PolicyAssumption DEF Maximum, Window

LEMMA OtpFields ==
    ASSUME NEW r \in OtpRow
    PROVE  /\ r.state \in {"absent", "prepared", "delivered", "consumed"}
           /\ r.context \in Context \union {None} /\ r.generation \in Nat
           /\ r.left \in 0..OtpSeconds /\ r.since \in 0..ContextSeconds
           /\ r.attempts \in 0..OtpAttempts /\ r.resends \in 0..ResendMax
           /\ r.lock \in {NoLock} \union 0..OtpLockSeconds
BY DEF OtpRow

LEMMA NoOtpRow == NoOtp \in OtpRow
BY Policy DEF NoOtp, OtpRow, NoLock

LEMMA Bounds ==
    /\ OtpSeconds \in 0..OtpSeconds /\ 0 \in 0..ContextSeconds /\ 0 \in 0..OtpAttempts
    /\ 0 \in 0..ResendMax /\ NoLock \in {NoLock} \union 0..OtpLockSeconds
    /\ OtpLockSeconds \in {NoLock} \union 0..OtpLockSeconds
BY Policy

\* A row keeps its type, and its other fields, when one field is set.
LEMMA OtpUpdate ==
    ASSUME NEW r \in OtpRow
    PROVE  /\ \A v \in {"absent", "prepared", "delivered", "consumed"} :
                 [r EXCEPT !.state = v] \in OtpRow
           /\ \A v \in Context \union {None} : [r EXCEPT !.context = v] \in OtpRow
           /\ \A v \in Nat : [r EXCEPT !.generation = v] \in OtpRow
           /\ \A v \in 0..OtpSeconds : [r EXCEPT !.left = v] \in OtpRow
           /\ \A v \in 0..ContextSeconds : [r EXCEPT !.since = v] \in OtpRow
           /\ \A v \in 0..OtpAttempts : [r EXCEPT !.attempts = v] \in OtpRow
           /\ \A v \in 0..ResendMax : [r EXCEPT !.resends = v] \in OtpRow
           /\ \A v \in {NoLock} \union 0..OtpLockSeconds : [r EXCEPT !.lock = v] \in OtpRow
BY DEF OtpRow

\* The row of a code that was prepared on r.
WithCode(r, c, g) == [r EXCEPT !.state = "prepared", !.context = c, !.generation = g,
                               !.left = OtpSeconds, !.since = 0]

LEMMA PreparedRow ==
    ASSUME NEW r \in OtpRow, NEW c \in Context, NEW g \in Nat
    PROVE  /\ WithCode(r, c, g) \in OtpRow
           /\ WithCode(r, c, g).state = "prepared" /\ WithCode(r, c, g).context = c
           /\ WithCode(r, c, g).generation = g /\ WithCode(r, c, g).left = OtpSeconds
           /\ WithCode(r, c, g).attempts = r.attempts /\ WithCode(r, c, g).lock = r.lock
<1> DEFINE r1 == [r EXCEPT !.state = "prepared"]
           r2 == [r1 EXCEPT !.context = c]
           r3 == [r2 EXCEPT !.generation = g]
           r4 == [r3 EXCEPT !.left = OtpSeconds]
           n == WithCode(r, c, g)
<1>1. r1 \in OtpRow /\ r2 \in OtpRow /\ r3 \in OtpRow /\ r4 \in OtpRow /\ n \in OtpRow
  <2>1. r1 \in OtpRow
    BY OtpUpdate
  <2>2. r2 \in OtpRow
    BY <2>1, OtpUpdate
  <2>3. r3 \in OtpRow
    BY <2>2, OtpUpdate
  <2>4. r4 \in OtpRow
    BY <2>3, OtpUpdate, Bounds, Zenon
  <2>5. n = [r4 EXCEPT !.since = 0]
    BY DEF WithCode
  <2> HIDE DEF n, r4
  <2> QED
    BY <2>1, <2>2, <2>3, <2>4, <2>5, OtpUpdate, Bounds
<1>2. /\ n.state = "prepared" /\ n.context = c /\ n.generation = g
      /\ n.left = OtpSeconds
      /\ n.attempts = r.attempts /\ n.lock = r.lock
  BY DEF OtpRow, WithCode
<1> QED
  BY <1>1, <1>2

LEMMA ClearedRow ==
    ASSUME NEW r \in OtpRow
    PROVE  /\ Cleared(r) \in OtpRow
           /\ Cleared(r).state = r.state /\ Cleared(r).lock = NoLock
           /\ Cleared(r).attempts = 0 /\ Cleared(r).resends = 0
<1> DEFINE r1 == [r EXCEPT !.attempts = 0]
           r2 == [r1 EXCEPT !.resends = 0]
<1>1. r1 \in OtpRow
  BY Zenon, OtpUpdate, Bounds
<1>2. r2 \in OtpRow
  BY <1>1, OtpUpdate, Bounds, Zenon
<1>3. Cleared(r) = [r2 EXCEPT !.lock = NoLock]
  BY DEF Cleared
<1> HIDE DEF r2
<1>4. Cleared(r) \in OtpRow
  BY <1>2, <1>3, OtpUpdate, Bounds
<1> USE DEF r2
<1>5. /\ Cleared(r).state = r.state /\ Cleared(r).lock = NoLock
      /\ Cleared(r).attempts = 0 /\ Cleared(r).resends = 0
  BY DEF OtpRow, Cleared
<1> QED
  BY <1>4, <1>5

LEMMA UnlockedRow ==
    ASSUME NEW r \in OtpRow
    PROVE  /\ Unlocked(r) \in OtpRow
           /\ Unlocked(r).state = r.state /\ Unlocked(r).resends = r.resends
           /\ r.lock = 0 => Unlocked(r).lock = NoLock /\ Unlocked(r).attempts = 0
           /\ r.lock # 0 => Unlocked(r) = r
<1>1. CASE r.lock # 0
  BY <1>1 DEF Unlocked
<1>2. CASE r.lock = 0
  <2> DEFINE r1 == [r EXCEPT !.attempts = 0]
  <2>1. r1 \in OtpRow
    BY Zenon, OtpUpdate, Bounds
  <2>2. Unlocked(r) = [r1 EXCEPT !.lock = NoLock]
    BY <1>2 DEF Unlocked
  <2>3. Unlocked(r) \in OtpRow
    BY <2>1, <2>2, OtpUpdate, Bounds, Zenon
  <2>4. /\ Unlocked(r).state = r.state /\ Unlocked(r).resends = r.resends
        /\ Unlocked(r).lock = NoLock /\ Unlocked(r).attempts = 0
    BY <1>2 DEF OtpRow, Unlocked
  <2> QED
    BY <1>2, <2>3, <2>4
<1> QED
  BY <1>1, <1>2

\* What a new code leaves of the guesses counted so far.
CountAfter(u) == IF otp[u].state = "consumed" \/ Quiet(u) \/ otp[u].lock = 0
                 THEN 0 ELSE guesses[u]

LEMMA ReopenedRow ==
    ASSUME CodesSound, GuessesSound, NEW u \in User, Challengeable(u)
    PROVE  /\ Reopened(u) \in OtpRow /\ Reopened(u).lock = NoLock
           /\ CountAfter(u) <= Reopened(u).attempts /\ Reopened(u).attempts < OtpAttempts
<1>1. /\ otp[u] \in OtpRow /\ GuessSound(u) /\ guesses[u] \in Nat
      /\ otp[u].state = "absent" => otp[u] = NoOtp
  BY DEF CodesSound, CodesTyped, RowsShaped, GuessesSound
<1>2. /\ otp[u].lock \in {NoLock, 0} /\ ~Locked(u)
  <2>1. CASE otp[u].state = "absent"
    BY <1>1, <2>1 DEF NoOtp, NoLock, Locked
  <2>2. CASE otp[u].state # "absent"
    BY <1>1, <2>2, OtpFields DEF Challengeable, NoLock, Locked
  <2> QED
    BY <2>1, <2>2
<1> DEFINE row == IF Quiet(u) THEN Cleared(otp[u]) ELSE otp[u]
<1>3. /\ row \in OtpRow /\ row.state = otp[u].state
      /\ Quiet(u) => row.lock = NoLock /\ row.attempts = 0 /\ row.resends = 0
      /\ ~Quiet(u) => row = otp[u]
  BY <1>1, ClearedRow
<1>4. CASE otp[u].state = "absent"
  <2>1. Reopened(u) = row
    BY <1>3, <1>4 DEF Reopened
  <2>2. Quiet(u)
    BY <1>1, <1>2, <1>4, Policy DEF NoOtp, Quiet
  <2> QED
    BY <1>3, <2>1, <2>2, Policy DEF CountAfter
<1>5. CASE otp[u].state = "consumed"
  <2>1. Reopened(u) = Cleared(row)
    BY <1>3, <1>5 DEF Reopened
  <2> HIDE DEF row
  <2> QED
    BY <1>3, <1>5, <2>1, ClearedRow, Policy DEF CountAfter
<1>6. CASE otp[u].state \notin {"absent", "consumed"}
  <2> HIDE DEF row
  <2>1. Reopened(u) = [Unlocked(row) EXCEPT !.resends = @ + 1]
    BY <1>3, <1>6 DEF Reopened, row
  <2>2. /\ Unlocked(row) \in OtpRow /\ Unlocked(row).resends = row.resends
        /\ row.lock = 0 => Unlocked(row).lock = NoLock /\ Unlocked(row).attempts = 0
        /\ row.lock # 0 => Unlocked(row) = row
    BY <1>3, UnlockedRow
  <2>3. row.resends + 1 \in 0..ResendMax
    <3>1. row.resends \in 0..ResendMax
      BY <1>3, OtpFields
    <3>2. row.resends < ResendMax
      BY <1>3, <1>6, Policy DEF Challengeable
    <3> QED
      BY <3>1, <3>2, Policy
  <2>4. Reopened(u) \in OtpRow
    <3>1. Unlocked(row).resends + 1 \in 0..ResendMax
      BY <2>2, <2>3
    <3>2. Reopened(u) = [Unlocked(row) EXCEPT !.resends = Unlocked(row).resends + 1]
      BY <2>1
    <3> QED
      BY <2>2, <3>1, <3>2, OtpUpdate, Zenon
  <2>5. /\ Reopened(u).lock = Unlocked(row).lock
        /\ Reopened(u).attempts = Unlocked(row).attempts
    BY <2>1, <2>2 DEF OtpRow
  <2>6. /\ row.lock \in {NoLock, 0}
        /\ row.lock = NoLock /\ ~Quiet(u) => row.attempts = otp[u].attempts /\ otp[u].lock = NoLock
    BY <1>2, <1>3
  <2>7. Unlocked(row).lock = NoLock
    BY <2>2, <2>6 DEF NoLock
  <2>8. CountAfter(u) <= Unlocked(row).attempts /\ Unlocked(row).attempts < OtpAttempts
    <3>1. CASE row.lock = 0 \/ Quiet(u)
      <4>1. Unlocked(row).attempts = 0
        BY <1>3, <2>2, <3>1 DEF NoLock
      <4>2. CountAfter(u) = 0
        BY <1>3, <3>1 DEF CountAfter
      <4> QED
        BY <4>1, <4>2, Policy
    <3>2. CASE row.lock = NoLock /\ ~Quiet(u)
      <4>1. otp[u].attempts = Unlocked(row).attempts /\ otp[u].lock = NoLock
        BY <2>2, <2>6, <3>2 DEF NoLock
      <4>2. CountAfter(u) <= guesses[u] /\ CountAfter(u) \in Nat
        BY <1>1 DEF CountAfter
      <4> QED
        BY <1>1, <4>1, <4>2, OtpFields DEF GuessSound
    <3> QED
      BY <2>6, <3>1, <3>2
  <2> QED
    BY <2>4, <2>5, <2>7, <2>8
<1> QED
  BY <1>1, <1>4, <1>5, <1>6

LEMMA ResentRow ==
    ASSUME CodesSound, GuessesSound, NEW u \in User, NEW c \in Context,
           Challenged(u, c), otp[u].resends < ResendMax
    PROVE  LET row == [Unlocked(otp[u]) EXCEPT !.resends = @ + 1]
           IN  /\ row \in OtpRow /\ row.lock = NoLock
               /\ CountAfter(u) <= row.attempts /\ row.attempts < OtpAttempts
<1> DEFINE base == Unlocked(otp[u])
           row == [base EXCEPT !.resends = @ + 1]
<1>1. otp[u] \in OtpRow /\ GuessSound(u) /\ guesses[u] \in Nat
  BY DEF CodesSound, CodesTyped, GuessesSound
<1>2. otp[u].lock \in {NoLock, 0}
  BY <1>1, OtpFields DEF Challenged, Locked, NoLock
<1>3. /\ base \in OtpRow /\ base.resends = otp[u].resends
      /\ otp[u].lock = 0 => base.lock = NoLock /\ base.attempts = 0
      /\ otp[u].lock # 0 => base = otp[u]
  BY <1>1, UnlockedRow
<1> HIDE DEF base
<1>4. row \in OtpRow /\ row.lock = base.lock /\ row.attempts = base.attempts
  <2>1. base.resends + 1 \in 0..ResendMax
    BY <1>1, <1>3, OtpFields, Policy
  <2>2. row \in OtpRow
    BY <1>3, <2>1, OtpUpdate
  <2> QED
    BY <1>3, <2>2 DEF OtpRow
<1>5. base.lock = NoLock /\ CountAfter(u) <= base.attempts /\ base.attempts < OtpAttempts
  <2>1. CASE otp[u].lock = 0
    BY <1>3, <2>1, Policy DEF CountAfter
  <2>2. CASE otp[u].lock = NoLock
    <3>1. CountAfter(u) <= guesses[u] /\ CountAfter(u) \in Nat
      BY <1>1 DEF CountAfter
    <3> QED
      BY <1>1, <1>3, <2>2, <3>1, OtpFields DEF GuessSound, NoLock
  <2> QED
    BY <1>2, <2>1, <2>2
<1> QED
  BY <1>4, <1>5 DEF base
-----------------------------------------------------------------------------
\* A context that somebody may use has no verified user but an unchanged one.
LEMMA UsableContext ==
    ASSUME ContextsSound, NEW c \in Context
    PROVE  /\ context[c] \in ContextRow
           /\ context[c].state \in {"free", "anonymous", "pending", "verified", "revoked"}
           /\ context[c].user \in User \union {None} /\ context[c].left \in Nat
           /\ context[c].user # None => context[c].user \in User
           /\ context[c].state \in {"pending", "verified"} => context[c].user \in User
BY Policy DEF ContextsSound, ContextRow

LEMMA ContextUpdate ==
    ASSUME NEW r \in ContextRow
    PROVE  /\ \A v \in {"free", "anonymous", "pending", "verified", "revoked"} :
                 [r EXCEPT !.state = v] \in ContextRow
           /\ \A v \in User \union {None} : [r EXCEPT !.user = v] \in ContextRow
           /\ \A v \in Account \union {None} : [r EXCEPT !.proof = v] \in ContextRow
           /\ \A v \in 0..(ContextSeconds + SessionSeconds) :
                 [r EXCEPT !.left = v] \in ContextRow
BY DEF ContextRow

LEMMA SessionRow ==
    ASSUME ContextsSound, NEW u \in User
    PROVE  [state |-> "verified", user |-> u, proof |-> Proof(u), left |-> SessionSeconds]
             \in ContextRow
BY Policy DEF ContextsSound, ContextRow, Proof

\* A code is prepared: its row, its context and its task are new.
LEMMA PrepareContext ==
    ASSUME ContextsSound, NEW u \in User, NEW c \in Context, NEW row, PrepareOtp(u, c, row)
    PROVE  /\ ContextsSound'
           /\ \A d \in Context : d # c => context'[d] = context[d]
           /\ context'[c].state = "pending" /\ context'[c].user = u
           /\ context'[c].proof = account[u] /\ context'[c].left = context[c].left
<1> DEFINE n == [context[c] EXCEPT !.state = "pending", !.user = u, !.proof = account[u]]
<1>0. context[c] \in ContextRow /\ account[u] \in Account /\ account[u].version \in Nat
  BY DEF ContextsSound, Account
<1>1. /\ n.state = "pending" /\ n.user = u /\ n.proof = account[u]
      /\ n.left = context[c].left
  BY <1>0 DEF ContextRow
<1>2. n \in ContextRow
  <2> DEFINE r1 == [context[c] EXCEPT !.state = "pending"]
             r2 == [r1 EXCEPT !.user = u]
  <2>1. r1 \in ContextRow
    BY <1>0, ContextUpdate, Zenon
  <2>2. r2 \in ContextRow
    BY <2>1, ContextUpdate, Zenon
  <2>3. n = [r2 EXCEPT !.proof = account[u]]
    OBVIOUS
  <2> HIDE DEF r2, n
  <2> QED
    BY <1>0, <2>2, <2>3, ContextUpdate
<1>3. context' = [context EXCEPT ![c] = n] /\ account' = account
  BY <1>0 DEF PrepareOtp, Proof
<1> HIDE DEF n
<1>4. \A d \in Context : context'[d] = IF d = c THEN n ELSE context[d]
  BY <1>3 DEF ContextsSound
<1>5. context' \in [Context -> ContextRow]
  BY <1>2, <1>3 DEF ContextsSound
<1>6. ContextsSound'
  BY <1>0, <1>1, <1>3, <1>4, <1>5, NameAssumption DEF ContextsSound
<1> QED
  BY <1>1, <1>4, <1>6

LEMMA PrepareCodes ==
    ASSUME CodesSound, NEW u \in User, NEW c \in Context, NEW row \in OtpRow,
           PrepareOtp(u, c, row)
    PROVE  /\ CodesSound'
           /\ \A x \in User : x # u => otp'[x] = otp[x]
           /\ otp'[u].state = "prepared" /\ otp'[u].context = c
           /\ otp'[u].generation = otp[u].generation + 1
           /\ otp'[u].left = OtpSeconds
           /\ otp'[u].attempts = row.attempts /\ otp'[u].lock = row.lock
<1> DEFINE g == otp[u].generation + 1
           n == WithCode(row, c, g)
           t0 == [user |-> u, generation |-> g, step |-> "prepared"]
<1>1. otp[u] \in OtpRow /\ otp[u].generation \in Nat /\ g \in Nat /\ g >= 1
  BY DEF CodesSound, CodesTyped, OtpRow
<1>2. /\ g <= MaxCodes /\ otp' = [otp EXCEPT ![u] = n] /\ tasks' = tasks \union {t0}
      /\ mailed' = mailed /\ granted' = granted
  BY DEF PrepareOtp, WithCode
<1>3. /\ n \in OtpRow /\ n.state = "prepared" /\ n.context = c /\ n.generation = g
      /\ n.left = OtpSeconds /\ n.attempts = row.attempts /\ n.lock = row.lock
  BY <1>1, PreparedRow
<1> HIDE DEF n
<1>4. \A x \in User : otp'[x] = IF x = u THEN n ELSE otp[x]
  BY <1>2 DEF CodesSound, CodesTyped
<1>5. t0 \in Task /\ t0.user = u /\ t0.generation = g /\ t0.step = "prepared"
  BY <1>1, <1>2, Policy DEF Task
<1> HIDE DEF t0
<1>6. CodesTyped'
  <2>1. otp' \in [User -> OtpRow] /\ tasks' \subseteq Task
    BY <1>2, <1>3, <1>5 DEF CodesSound, CodesTyped
  <2>2. ASSUME NEW x \in User
        PROVE  mailed[x] \union granted[x] \subseteq 1..otp'[x].generation
    <3>1. mailed[x] \union granted[x] \subseteq 1..otp[x].generation
      BY DEF CodesSound, CodesTyped
    <3>2. x = u => otp'[x].generation = otp[u].generation + 1
      BY <1>3, <1>4
    <3>3. x # u => otp'[x] = otp[x]
      BY <1>4
    <3> QED
      BY <1>1, <3>1, <3>2, <3>3
  <2> QED
    BY <1>2, <2>1, <2>2 DEF CodesSound, CodesTyped
<1>7. RowsShaped'
  BY <1>3, <1>4 DEF CodesSound, RowsShaped
<1>8. RowsSound'
  <2>1. g \notin granted[u]
    <3>1. granted[u] \subseteq 1..otp[u].generation
      BY DEF CodesSound, CodesTyped
    <3> QED
      BY <1>1, <3>1
  <2> QED
    BY <1>2, <1>3, <1>4, <2>1 DEF CodesSound, RowsSound
<1>9. ASSUME NEW t \in tasks'
      PROVE  TaskSound(t)'
  <2>1. \A s \in tasks : /\ s.user \in User /\ s.generation \in Nat
                         /\ s.user = u => s.generation < g
    <3>1. \A s \in tasks : /\ s.user \in User /\ s.generation \in Nat
                           /\ s.generation <= otp[s.user].generation
      BY Policy DEF CodesSound, CodesTyped, TaskSound, Task
    <3> QED
      BY <1>1, <3>1
  <2>2. CASE t = t0
    BY <1>1, <1>2, <1>3, <1>4, <1>5, <2>1, <2>2 DEF TaskSound
  <2>3. CASE t \in tasks
    <3>1. TaskSound(t) /\ t.user \in User /\ t.generation \in Nat
      BY <2>1, <2>3 DEF CodesSound
    <3>2. ~ (t0.user = t.user /\ t0.generation = t.generation)
      BY <1>1, <1>5, <2>1, <2>3
    <3>3. CASE t.user = u
      BY <1>1, <1>2, <1>3, <1>4, <2>1, <2>3, <3>1, <3>2, <3>3 DEF TaskSound
    <3>4. CASE t.user # u
      BY <1>2, <1>4, <3>1, <3>2, <3>4 DEF TaskSound
    <3> QED
      BY <3>3, <3>4
  <2> QED
    BY <1>2, <2>2, <2>3
<1> QED
  BY <1>3, <1>4, <1>6, <1>7, <1>8, <1>9 DEF CodesSound

LEMMA PrepareKeeps ==
    ASSUME ContextsSound, CodesSound, GuessesSound, SessionsCounted,
           NEW u \in User, NEW c \in Context, NEW row \in OtpRow,
           row.lock = NoLock, CountAfter(u) <= row.attempts, row.attempts < OtpAttempts,
           context[c].state # "verified", PrepareOtp(u, c, row)
    PROVE  ContextsSound' /\ CodesSound' /\ GuessesSound' /\ SessionsCounted'
<1>1. ContextsSound' /\ CodesSound'
  BY PrepareContext, PrepareCodes
<1>2. GuessesSound'
  <2>1. /\ guesses' = [guesses EXCEPT ![u] = CountAfter(u)]
        /\ guesses \in [User -> Nat] /\ CountAfter(u) \in Nat
    BY DEF PrepareOtp, CountAfter, GuessesSound
  <2>2. /\ \A x \in User : x # u => otp'[x] = otp[x]
        /\ otp'[u].attempts = row.attempts /\ otp'[u].lock = row.lock
    BY PrepareCodes
  <2>3. GuessSound(u)'
    BY <2>1, <2>2 DEF GuessSound
  <2>4. ASSUME NEW x \in User, x # u
        PROVE  GuessSound(x)'
    BY <2>1, <2>2, <2>4 DEF GuessSound, GuessesSound
  <2> QED
    BY <2>1, <2>3, <2>4 DEF GuessesSound
<1>3. SessionsCounted'
  <2>1. ASSUME NEW x \in User
        PROVE  Sessions(x)' = Sessions(x)
    BY PrepareContext DEF Sessions
  <2> QED
    BY <2>1 DEF SessionsCounted, PrepareOtp
<1> QED
  BY <1>1, <1>2, <1>3
-----------------------------------------------------------------------------
\* Each part depends on its own variables alone.
LEMMA Untouched ==
    /\ CountersTyped /\ UNCHANGED counter => CountersTyped'
    /\ ContextsSound /\ UNCHANGED <<account, context>> => ContextsSound'
    /\ CodesSound /\ UNCHANGED <<otp, tasks, mailed, granted>> => CodesSound'
    /\ GuessesSound /\ UNCHANGED <<otp, guesses>> => GuessesSound'
    /\ SessionsCounted /\ UNCHANGED <<context, granted>> => SessionsCounted'
<1>1. CountersTyped /\ UNCHANGED counter => CountersTyped'
  BY DEF CountersTyped
<1>2. ContextsSound /\ UNCHANGED <<account, context>> => ContextsSound'
  BY DEF ContextsSound
<1>3. CodesSound /\ UNCHANGED <<otp, tasks, mailed, granted>> => CodesSound'
  BY DEF CodesSound, CodesTyped, RowsShaped, RowsSound, TaskSound
<1>4. GuessesSound /\ UNCHANGED <<otp, guesses>> => GuessesSound'
  BY DEF GuessesSound, GuessSound
<1>5. SessionsCounted /\ UNCHANGED <<context, granted>> => SessionsCounted'
  BY DEF SessionsCounted, Sessions
<1> QED
  BY <1>1, <1>2, <1>3, <1>4, <1>5

LEMMA InitSound ==
    ASSUME Init
    PROVE  SignInInv
<1>1. CountersTyped
  BY Limits DEF Init, CountersTyped, NoAttempts
<1>2. ContextsSound
  BY Policy DEF Init, ContextsSound, NoContext, ContextRow, Account
<1>3. CodesSound
  <2>1. CodesTyped
    BY NoOtpRow DEF Init, CodesTyped, NoOtp
  <2>2. RowsShaped /\ RowsSound /\ \A t \in tasks : TaskSound(t)
    BY DEF Init, RowsShaped, RowsSound, NoOtp
  <2> QED
    BY <2>1, <2>2 DEF CodesSound
<1>4. GuessesSound
  BY Policy DEF Init, GuessesSound, GuessSound, NoOtp
<1>5. SessionsCounted
  <2>1. ASSUME NEW u \in User
        PROVE  Sessions(u) = {} /\ granted[u] = {}
    BY DEF Init, Sessions, NoContext
  <2> QED
    BY <2>1, FS_EmptySet DEF SessionsCounted
<1> QED
  BY <1>1, <1>2, <1>3, <1>4, <1>5 DEF SignInInv

\* What only takes sessions away.
LEMMA FewerSessions ==
    ASSUME SessionsCounted, UNCHANGED granted, CodesTyped,
           \A u \in User : Sessions(u)' \subseteq Sessions(u)
    PROVE  SessionsCounted'
<1> SUFFICES ASSUME NEW u \in User
             PROVE  /\ IsFiniteSet(Sessions(u)')
                    /\ Cardinality(Sessions(u)') <= Cardinality(granted[u])
  BY DEF SessionsCounted
<1>1. /\ IsFiniteSet(Sessions(u)) /\ Sessions(u)' \subseteq Sessions(u)
      /\ Cardinality(Sessions(u)) <= Cardinality(granted[u])
  BY DEF SessionsCounted
<1>2. IsFiniteSet(granted[u])
  <2>1. granted[u] \subseteq 1..otp[u].generation /\ otp[u].generation \in Nat
    BY DEF CodesTyped, OtpRow
  <2>2. IsFiniteSet(1..otp[u].generation)
    BY <2>1, FS_Interval
  <2> QED
    BY <2>1, <2>2, FS_Subset, Zenon
<1>3. /\ IsFiniteSet(Sessions(u)')
      /\ Cardinality(Sessions(u)') <= Cardinality(Sessions(u))
  BY <1>1, FS_Subset
<1> QED
  BY <1>1, <1>2, <1>3, FS_CardinalityType
-----------------------------------------------------------------------------
\* Contexts that begin, are forgotten or end without a code.
LEMMA BrowsersKeep ==
    ASSUME SignInInv, NEW c \in Context, NewContext(c) \/ Forget(c) \/ Logout(c)
    PROVE  SignInInv'
<1>1. /\ CountersTyped' /\ CodesSound' /\ GuessesSound'
      /\ UNCHANGED <<account, granted>>
  BY Untouched DEF SignInInv, NewContext, Forget, Logout
<1>2. \E r \in ContextRow :
         /\ context' = [context EXCEPT ![c] = r]
         /\ r.state \in {"free", "anonymous", "revoked"}
         /\ r.user # None => r.user = context[c].user /\ r.proof = context[c].proof
  <2>1. CASE NewContext(c)
    <3> DEFINE row == [state |-> "anonymous", user |-> None, proof |-> None,
                       left |-> ContextSeconds]
    <3>1. row \in ContextRow /\ row.state = "anonymous" /\ row.user = None
      BY Policy DEF ContextRow
    <3>2. context' = [context EXCEPT ![c] = row]
      BY <2>1 DEF NewContext
    <3> HIDE DEF row
    <3> QED
      BY <3>1, <3>2
  <2>2. CASE Forget(c)
    <3>1. NoContext \in ContextRow /\ NoContext.state = "free" /\ NoContext.user = None
      BY Policy DEF ContextRow, NoContext
    <3>2. context' = [context EXCEPT ![c] = NoContext]
      BY <2>2 DEF Forget
    <3> QED
      BY <3>1, <3>2
  <2>3. CASE Logout(c)
    <3> DEFINE row == [context[c] EXCEPT !.state = "revoked"]
    <3>1. /\ row \in ContextRow /\ row.state = "revoked"
          /\ row.user = context[c].user /\ row.proof = context[c].proof
      BY DEF ContextRow, SignInInv, ContextsSound
    <3>2. context' = [context EXCEPT ![c] = row]
      BY <2>3 DEF Logout
    <3> HIDE DEF row
    <3> QED
      BY <3>1, <3>2
  <2> QED
    BY <2>1, <2>2, <2>3
<1>3. PICK r \in ContextRow :
         /\ context' = [context EXCEPT ![c] = r]
         /\ r.state \in {"free", "anonymous", "revoked"}
         /\ r.user # None => r.user = context[c].user /\ r.proof = context[c].proof
  BY <1>2
<1>4. /\ context' \in [Context -> ContextRow]
      /\ \A d \in Context : context'[d] = IF d = c THEN r ELSE context[d]
  BY <1>3 DEF SignInInv, ContextsSound
<1>5. ContextsSound'
  BY <1>1, <1>3, <1>4 DEF SignInInv, ContextsSound
<1>6. SessionsCounted'
  <2>1. \A u \in User : Sessions(u)' \subseteq Sessions(u)
    BY <1>3, <1>4 DEF Sessions
  <2> QED
    BY <1>1, <2>1, FewerSessions DEF SignInInv, CodesSound
<1> QED
  BY <1>1, <1>5, <1>6 DEF SignInInv

LEMMA CountKeeps ==
    ASSUME CountersTyped, NEW u \in User, NEW n \in Address, CountAttempt(u, n)
    PROVE  CountersTyped'
<1>1. ASSUME NEW k \in Key
      PROVE  /\ Counted(k) \in [count : Nat, left : Nat]
             /\ Counted(k).count <= Maximum(k) /\ Counted(k).left <= Window(k)
  <2> DEFINE row == IF counter[k] = NoAttempts THEN [count |-> 0, left |-> Window(k)]
                                               ELSE counter[k]
  <2>1. /\ row \in [count : Nat, left : Nat]
        /\ row.count <= Maximum(k) /\ row.left <= Window(k)
    BY Limits DEF CountersTyped
  <2> HIDE DEF row
  <2>2. Counted(k) = [row EXCEPT !.count = IF @ = Maximum(k) THEN @ ELSE @ + 1]
    BY DEF Counted, row
  <2> QED
    BY <2>1, <2>2, Limits
<1> QED
  BY <1>1 DEF CountersTyped, CountAttempt

LEMMA LoginKeeps ==
    ASSUME SignInInv, NEW u \in User, NEW c \in Context, NEW n \in Address,
           LoginChallenged(u, c, n) \/ LoginRefused(u, c, n)
    PROVE  SignInInv'
<1>1. CountersTyped'
  BY CountKeeps DEF SignInInv, LoginChallenged, LoginRefused, Login
<1>2. CASE LoginRefused(u, c, n)
  BY <1>1, <1>2, Untouched DEF SignInInv, LoginRefused
<1>3. CASE LoginChallenged(u, c, n)
  BY <1>1, <1>3, PrepareKeeps, ReopenedRow DEF SignInInv, LoginChallenged, Login
<1> QED
  BY <1>2, <1>3

LEMMA ResendKeeps ==
    ASSUME SignInInv, NEW u \in User, NEW c \in Context, ResendCode(u, c)
    PROVE  SignInInv'
<1> DEFINE row == [Unlocked(otp[u]) EXCEPT !.resends = @ + 1]
<1>1. CountersTyped' /\ PrepareOtp(u, c, row) /\ context[c].state = "pending"
  BY Untouched DEF SignInInv, ResendCode, Challenged
<1>2. /\ row \in OtpRow /\ row.lock = NoLock
      /\ CountAfter(u) <= row.attempts /\ row.attempts < OtpAttempts
  BY ResentRow DEF SignInInv, ResendCode
<1> HIDE DEF row
<1> QED
  BY <1>1, <1>2, PrepareKeeps DEF SignInInv
-----------------------------------------------------------------------------
\* The right code: its context ends, and the session it opens is counted.
LEMMA RightKeeps ==
    ASSUME SignInInv, NEW u \in User, NEW c \in Context, NEW d \in Context,
           VerifyRight(u, c, d)
    PROVE  SignInInv'
<1> DEFINE old == [context[c] EXCEPT !.state = "revoked"]
           new == [state |-> "verified", user |-> u, proof |-> Proof(u),
                   left |-> SessionSeconds]
           row == [otp[u] EXCEPT !.state = "consumed"]
           g == otp[u].generation
<1>0. /\ context[c].state = "pending" /\ context[c].user = u /\ context[d].state = "free"
      /\ otp[u].state = "delivered" /\ c # d
      /\ context[c] \in ContextRow /\ otp[u] \in OtpRow
  BY DEF VerifyRight, Challenged, Live, SignInInv, ContextsSound, CodesSound, CodesTyped
<1>1. /\ context' = [context EXCEPT ![c].state = "revoked", ![d] = new]
      /\ otp' = [otp EXCEPT ![u] = row]
      /\ granted' = [granted EXCEPT ![u] = @ \union {g}]
      /\ UNCHANGED <<account, counter, tasks, mailed, guesses>>
  BY DEF VerifyRight
<1>2. /\ old \in ContextRow /\ old.state = "revoked"
      /\ old.user = context[c].user /\ old.proof = context[c].proof
  BY <1>0 DEF ContextRow
<1>3. /\ new \in ContextRow /\ new.state = "verified" /\ new.user = u
      /\ new.proof = account[u]
  BY SessionRow DEF SignInInv, Proof
<1>4. /\ row \in OtpRow /\ row.state = "consumed" /\ row.generation = g
      /\ row.context = otp[u].context /\ row.lock = otp[u].lock
      /\ row.left = otp[u].left /\ row.attempts = otp[u].attempts
  BY <1>0 DEF OtpRow
<1>5. /\ context' \in [Context -> ContextRow]
      /\ \A x \in Context : context'[x] = IF x = d THEN new ELSE IF x = c THEN old
                                                              ELSE context[x]
  BY <1>0, <1>1, <1>2, <1>3 DEF SignInInv, ContextsSound
<1> HIDE DEF old, new, row
<1>6. /\ otp' \in [User -> OtpRow]
      /\ \A x \in User : otp'[x] = IF x = u THEN row ELSE otp[x]
  BY <1>1, <1>4 DEF SignInInv, CodesSound, CodesTyped
<1>7. /\ g \in mailed[u] /\ g \notin granted[u] /\ g \in Nat
      /\ \A t \in tasks : t.user = u => t.generation # g
  <2>1. g \in mailed[u] /\ g \notin granted[u] /\ g \in Nat
    BY <1>0 DEF SignInInv, CodesSound, RowsSound, OtpRow
  <2> QED
    BY <1>0, <2>1 DEF SignInInv, CodesSound, TaskSound
<1>8. /\ granted' \in [User -> SUBSET Nat]
      /\ \A x \in User : granted'[x] = IF x = u THEN granted[u] \union {g} ELSE granted[x]
  BY <1>1, <1>7 DEF SignInInv, CodesSound, CodesTyped
<1>9. CodesSound'
  <2>1. CodesTyped'
    <3>1. ASSUME NEW x \in User
          PROVE  mailed[x] \union granted'[x] \subseteq 1..otp'[x].generation
      BY <1>4, <1>6, <1>7, <1>8 DEF SignInInv, CodesSound, CodesTyped
    <3> QED
      BY <1>1, <1>6, <1>8, <3>1 DEF SignInInv, CodesSound, CodesTyped
  <2>2. RowsShaped'
    BY <1>0, <1>4, <1>6 DEF SignInInv, CodesSound, RowsShaped
  <2>3. RowsSound'
    BY <1>1, <1>4, <1>6, <1>7, <1>8 DEF SignInInv, CodesSound, RowsSound
  <2>4. ASSUME NEW t \in tasks
        PROVE  TaskSound(t)'
    <3>1. TaskSound(t) /\ t.user \in User
      BY DEF SignInInv, CodesSound, CodesTyped, Task
    <3> QED
      BY <1>1, <1>4, <1>6, <1>7, <3>1 DEF TaskSound
  <2> QED
    BY <1>1, <2>1, <2>2, <2>3, <2>4 DEF CodesSound
<1>10. GuessesSound'
  BY <1>1, <1>4, <1>6 DEF SignInInv, GuessesSound, GuessSound
<1>11. ContextsSound'
  BY <1>0, <1>1, <1>2, <1>3, <1>5, NameAssumption DEF SignInInv, ContextsSound, Account
<1>12. SessionsCounted'
  <2>1. ASSUME NEW x \in User, x # u
        PROVE  Sessions(x)' = Sessions(x) /\ granted'[x] = granted[x]
    BY <1>0, <1>2, <1>3, <1>5, <1>8, <2>1 DEF Sessions
  <2>2. Sessions(u)' = Sessions(u) \union {d} /\ d \notin Sessions(u)
    BY <1>0, <1>2, <1>3, <1>5 DEF Sessions
  <2>3. /\ IsFiniteSet(Sessions(u))
        /\ Cardinality(Sessions(u)) <= Cardinality(granted[u])
    BY DEF SignInInv, SessionsCounted
  <2>4. IsFiniteSet(granted[u])
    <3>1. granted[u] \subseteq 1..g
      BY DEF SignInInv, CodesSound, CodesTyped
    <3> HIDE DEF g
    <3>2. IsFiniteSet(1..g)
      BY <1>7, FS_Interval
    <3> QED
      BY <3>1, <3>2, FS_Subset
  <2>5. /\ IsFiniteSet(Sessions(u) \union {d})
        /\ Cardinality(Sessions(u) \union {d}) = Cardinality(Sessions(u)) + 1
    BY <2>2, <2>3, FS_AddElement
  <2>6. Cardinality(granted[u] \union {g}) = Cardinality(granted[u]) + 1
    BY <1>7, <2>4, FS_AddElement
  <2>7. Cardinality(Sessions(u)) \in Nat /\ Cardinality(granted[u]) \in Nat
    BY <2>3, <2>4, FS_CardinalityType
  <2>8. /\ IsFiniteSet(Sessions(u)')
        /\ Cardinality(Sessions(u)') <= Cardinality(granted'[u])
    BY <1>8, <2>2, <2>3, <2>5, <2>6, <2>7
  <2> QED
    BY <2>1, <2>8 DEF SignInInv, SessionsCounted
<1>13. CountersTyped'
  BY <1>1, Untouched DEF SignInInv
<1> QED
  BY <1>9, <1>10, <1>11, <1>12, <1>13 DEF SignInInv

\* CodesSound does not depend on the attempts, the lock or the time left.
LEMMA OtherFields ==
    ASSUME CodesSound, otp' \in [User -> OtpRow], UNCHANGED <<tasks, mailed, granted>>,
           \A x \in User : \/ otp'[x] = otp[x]
                          \/ /\ otp[x].state # "absent"
                             /\ otp'[x].state = otp[x].state
                             /\ otp'[x].context = otp[x].context
                             /\ otp'[x].generation = otp[x].generation
    PROVE  CodesSound'
<1>1. CodesTyped' /\ RowsShaped' /\ RowsSound'
  BY DEF CodesSound, CodesTyped, RowsShaped, RowsSound
<1>2. ASSUME NEW t \in tasks
      PROVE  TaskSound(t)'
  BY DEF CodesSound, CodesTyped, TaskSound, Task
<1> QED
  BY <1>1, <1>2 DEF CodesSound

\* A wrong one: the row counts it, and locks while the code can still be live.
LEMMA WrongKeeps ==
    ASSUME SignInInv, NEW u \in User, NEW c \in Context, VerifyWrong(u, c)
    PROVE  SignInInv'
<1> DEFINE n == IF otp[u].attempts = OtpAttempts THEN OtpAttempts ELSE otp[u].attempts + 1
           l == IF n >= OtpAttempts THEN OtpLockSeconds ELSE otp[u].lock
           row == [otp[u] EXCEPT !.attempts = n, !.lock = l]
<1>1. /\ otp[u] \in OtpRow /\ GuessSound(u) /\ guesses[u] \in Nat
      /\ otp[u].lock \in {NoLock, 0} /\ otp[u].left \in 0..OtpSeconds
      /\ otp[u].attempts \in 0..OtpAttempts
  <2>1. otp[u] \in OtpRow /\ GuessSound(u) /\ guesses[u] \in Nat
    BY DEF SignInInv, CodesSound, CodesTyped, GuessesSound
  <2> QED
    BY <2>1, OtpFields DEF VerifyWrong, Challenged, Locked, NoLock
<1>2. /\ otp' = [otp EXCEPT ![u] = row]
      /\ guesses' = [guesses EXCEPT ![u] = IF Live(u) THEN @ + 1 ELSE @]
      /\ UNCHANGED <<account, context, counter, tasks, mailed, granted>>
  BY DEF VerifyWrong
<1>3. n \in 0..OtpAttempts /\ l \in {NoLock} \union 0..OtpLockSeconds
  BY <1>1, Policy
<1>4. /\ row \in OtpRow /\ row.attempts = n /\ row.lock = l /\ row.left = otp[u].left
      /\ row.state = otp[u].state /\ row.context = otp[u].context
      /\ row.generation = otp[u].generation
  <2> HIDE DEF n, l
  <2> DEFINE r1 == [otp[u] EXCEPT !.attempts = n]
  <2>1. r1 \in OtpRow
    BY <1>1, <1>3, OtpUpdate, Zenon
  <2>2. row = [r1 EXCEPT !.lock = l]
    OBVIOUS
  <2>3. /\ row.attempts = n /\ row.lock = l /\ row.left = otp[u].left
        /\ row.state = otp[u].state /\ row.context = otp[u].context
        /\ row.generation = otp[u].generation
    BY <1>1 DEF OtpRow
  <2> HIDE DEF r1, row
  <2> QED
    BY <1>3, <2>1, <2>2, <2>3, OtpUpdate
<1> HIDE DEF row
<1>5. \A x \in User : otp'[x] = IF x = u THEN row ELSE otp[x]
  BY <1>2, <1>4 DEF SignInInv, CodesSound, CodesTyped
<1>6. CodesSound'
  <2>1. otp[u].state # "absent"
    BY NameAssumption DEF VerifyWrong, Challenged, NoOtp, SignInInv, CodesSound, RowsShaped
  <2>2. otp' \in [User -> OtpRow]
    BY <1>2, <1>4 DEF SignInInv, CodesSound, CodesTyped
  <2> QED
    BY <1>2, <1>4, <1>5, <2>1, <2>2, OtherFields DEF SignInInv
<1>7. GuessesSound'
  <2>1. /\ guesses' \in [User -> Nat]
        /\ \A x \in User : x # u => guesses'[x] = guesses[x]
        /\ guesses'[u] = IF Live(u) THEN guesses[u] + 1 ELSE guesses[u]
    BY <1>1, <1>2 DEF SignInInv, GuessesSound
  <2>2. GuessSound(u)'
    <3>1. Live(u) => otp[u].lock = NoLock
      BY <1>1 DEF Live, GuessSound, NoLock
    <3>2. CASE otp[u].lock = NoLock
      BY <1>1, <1>4, <1>5, <2>1, <3>2, Policy DEF GuessSound, NoLock
    <3>3. CASE otp[u].lock = 0
      BY <1>1, <1>4, <1>5, <2>1, <3>1, <3>3, Policy DEF GuessSound, NoLock
    <3> QED
      BY <1>1, <3>2, <3>3
  <2>3. ASSUME NEW x \in User, x # u
        PROVE  GuessSound(x)'
    BY <1>5, <2>1, <2>3 DEF SignInInv, GuessesSound, GuessSound
  <2> QED
    BY <2>1, <2>2, <2>3 DEF GuessesSound
<1> QED
  BY <1>2, <1>6, <1>7, Untouched DEF SignInInv

\* The mail, its outcome and the loss of the task.
LEMMA MailKeeps ==
    ASSUME SignInInv, NEW t \in tasks, Send(t) \/ DeliverOtp(t) \/ Lose(t)
    PROVE  SignInInv'
<1>0. /\ CodesTyped /\ TaskSound(t) /\ t \in Task /\ t.user \in User
      /\ t.step \in {"prepared", "sent", "failed"} /\ t.generation \in 1..MaxCodes
  BY DEF SignInInv, CodesSound, CodesTyped, Task
<1>1. CASE Send(t)
  <2>1. PICK step \in {"sent", "failed"}, left \in BOOLEAN :
          /\ step = "sent" => left
          /\ tasks' = (tasks \ {t}) \union {[t EXCEPT !.step = step]}
          /\ mailed' = [mailed EXCEPT ![t.user] = IF left THEN @ \union {t.generation} ELSE @]
    BY <1>1 DEF Send
  <2> DEFINE s == [t EXCEPT !.step = step]
  <2>2. /\ s \in Task /\ s.user = t.user /\ s.generation = t.generation
        /\ s.step = step
    BY <1>0 DEF Task
  <2> HIDE DEF s
  <2>3. UNCHANGED <<account, context, otp, counter, guesses, granted>>
    BY <1>1 DEF Send
  <2>4. /\ mailed' \in [User -> SUBSET Nat]
        /\ \A x \in User : mailed[x] \subseteq mailed'[x]
        /\ \A x \in User : x # t.user => mailed'[x] = mailed[x]
        /\ mailed'[t.user] \subseteq mailed[t.user] \union {t.generation}
        /\ step = "sent" => t.generation \in mailed'[t.user]
    BY <1>0, <2>1, Policy DEF CodesTyped
  <2>5. CodesTyped'
    <3>1. ASSUME NEW x \in User
          PROVE  mailed'[x] \subseteq 1..otp[x].generation
      BY <1>0, <2>4, Policy DEF CodesTyped, TaskSound, OtpRow
    <3> QED
      BY <2>1, <2>2, <2>3, <2>4, <3>1, <1>0 DEF CodesTyped, s
  <2>6. RowsShaped' /\ RowsSound'
    BY <2>3, <2>4 DEF SignInInv, CodesSound, RowsShaped, RowsSound
  <2>7. ASSUME NEW x \in tasks'
        PROVE  TaskSound(x)'
    <3>1. CASE x = s
      BY <1>0, <2>1, <2>2, <2>3, <2>4, <3>1 DEF TaskSound, s
    <3>2. CASE x \in tasks /\ x # t
      <4>1. TaskSound(x) /\ x.user \in User
        BY <1>0, <3>2 DEF SignInInv, CodesSound, CodesTyped, Task
      <4>2. ~ (s.user = x.user /\ s.generation = x.generation)
        BY <2>2, <3>2, <4>1 DEF TaskSound
      <4> QED
        BY <2>1, <2>3, <2>4, <4>1, <4>2 DEF TaskSound, s
    <3> QED
      BY <2>1, <3>1, <3>2 DEF s
  <2> QED
    BY <2>3, <2>5, <2>6, <2>7, Untouched DEF SignInInv, CodesSound
<1>2. CASE DeliverOtp(t)
  <2>1. /\ tasks' = tasks \ {t}
        /\ UNCHANGED <<account, context, counter, mailed, guesses, granted>>
    BY <1>2 DEF DeliverOtp
  <2>2. ASSUME NEW x \in User
        PROVE  /\ otp'[x] \in OtpRow
               /\ otp'[x].context = otp[x].context /\ otp'[x].lock = otp[x].lock
               /\ otp'[x].generation = otp[x].generation
               /\ otp'[x].left = otp[x].left /\ otp'[x].attempts = otp[x].attempts
               /\ \/ otp'[x] = otp[x]
                  \/ /\ x = t.user /\ t.generation = otp[x].generation
                     /\ t.step = "sent" /\ otp'[x].state = "delivered"
    <3>1. otp[x] \in OtpRow
      BY <1>0 DEF CodesTyped
    <3>2. CASE otp[t.user].generation = t.generation
      <4>1. otp[t.user].state = "prepared"
        BY <1>0, <3>2 DEF TaskSound
      <4>2. otp' = [otp EXCEPT ![t.user].state =
                       IF t.step = "sent" THEN "delivered" ELSE "prepared"]
        BY <1>2, <3>2 DEF DeliverOtp
      <4>3. CASE x # t.user
        BY <1>0, <3>1, <4>2, <4>3 DEF CodesTyped
      <4>4. CASE x = t.user
        <5>1. otp'[x] = [otp[x] EXCEPT !.state =
                            IF t.step = "sent" THEN "delivered" ELSE "prepared"]
          BY <1>0, <4>2, <4>4 DEF CodesTyped
        <5>2. CASE t.step = "sent"
          BY <3>1, <3>2, <4>4, <5>1, <5>2 DEF OtpRow
        <5>3. CASE t.step # "sent"
          <6>1. otp'[x] = [otp[x] EXCEPT !.state = "prepared"] /\ otp[x].state = "prepared"
            BY <4>1, <4>4, <5>1, <5>3
          <6>2. otp'[x] = otp[x]
            BY <3>1, <6>1 DEF OtpRow
          <6> QED
            BY <3>1, <6>2
        <5> QED
          BY <5>2, <5>3
      <4> QED
        BY <4>3, <4>4
    <3>3. CASE otp[t.user].generation # t.generation
      BY <1>2, <3>1, <3>3 DEF DeliverOtp
    <3> QED
      BY <3>2, <3>3
  <2>3. otp' \in [User -> OtpRow]
    BY <1>0, <1>2, <2>2 DEF DeliverOtp, CodesTyped
  <2>4. CodesTyped' /\ RowsShaped' /\ RowsSound'
    <3>1. CodesTyped'
      BY <1>0, <2>1, <2>2, <2>3 DEF CodesTyped
    <3>2. RowsShaped'
      BY <2>2, <1>0 DEF SignInInv, CodesSound, RowsShaped, TaskSound, NoOtp
    <3>3. RowsSound'
      BY <1>0, <2>1, <2>2 DEF SignInInv, CodesSound, RowsSound, TaskSound
    <3> QED
      BY <3>1, <3>2, <3>3
  <2>5. ASSUME NEW x \in tasks'
        PROVE  TaskSound(x)'
    <3>1. TaskSound(x) /\ x.user \in User /\ x \in tasks /\ x # t
      BY <2>1, <1>0 DEF SignInInv, CodesSound, CodesTyped, Task
    <3>2. ~ (t.user = x.user /\ t.generation = x.generation)
      BY <1>0, <3>1 DEF TaskSound
    <3> QED
      BY <2>1, <2>2, <3>1, <3>2 DEF TaskSound
  <2>6. GuessesSound'
    BY <2>1, <2>2 DEF SignInInv, GuessesSound, GuessSound
  <2> QED
    BY <2>1, <2>4, <2>5, <2>6, Untouched DEF SignInInv, CodesSound
<1>3. CASE Lose(t)
  <2>1. /\ tasks' = tasks \ {t}
        /\ UNCHANGED <<account, context, otp, counter, mailed, guesses, granted>>
    BY <1>3 DEF Lose
  <2>2. CodesSound'
    BY <2>1 DEF SignInInv, CodesSound, CodesTyped, RowsShaped, RowsSound, TaskSound
  <2> QED
    BY <2>1, <2>2, Untouched DEF SignInInv
<1> QED
  BY <1>1, <1>2, <1>3
-----------------------------------------------------------------------------
\* The three changes of an account: the version grows, and an inactive one stays so.
LEMMA ChangeFacts ==
    ASSUME ContextsSound, NEW u \in User, ChangeRole(u) \/ Deactivate(u) \/ ResetPassword(u)
    PROVE  /\ account' \in [User -> Account]
           /\ \A x \in User : x # u => account'[x] = account[x]
           /\ account'[u].version = account[u].version + 1
           /\ account[u].state = "active"
           /\ UNCHANGED <<context, otp, counter, tasks, mailed, guesses, granted>>
<1>0. account[u] \in Account /\ account[u].version \in Nat
  BY DEF ContextsSound, Account
<1>1. \E row \in Account : row.version = account[u].version /\ Change(u, row)
  <2>1. CASE ChangeRole(u)
    <3>1. PICK role \in BusinessRole : Change(u, [account[u] EXCEPT !.role = role])
      BY <2>1 DEF ChangeRole
    <3> DEFINE row == [account[u] EXCEPT !.role = role]
    <3>2. row \in Account /\ row.version = account[u].version
      BY <1>0 DEF Account
    <3>3. Change(u, row)
      BY <3>1
    <3> HIDE DEF row
    <3> QED
      BY <3>2, <3>3
  <2>2. CASE Deactivate(u)
    <3> DEFINE row == [account[u] EXCEPT !.state = "inactive"]
    <3>2. row \in Account /\ row.version = account[u].version
      BY <1>0 DEF Account
    <3>3. Change(u, row)
      BY <2>2 DEF Deactivate
    <3> HIDE DEF row
    <3> QED
      BY <3>2, <3>3
  <2>3. CASE ResetPassword(u)
    <3> DEFINE row == [account[u] EXCEPT !.password = account[u].version + 1]
    <3>2. row \in Account /\ row.version = account[u].version
      BY <1>0 DEF Account
    <3>3. Change(u, row)
      BY <2>3 DEF ResetPassword
    <3> HIDE DEF row
    <3> QED
      BY <3>2, <3>3
  <2> QED
    BY <2>1, <2>2, <2>3
<1>2. PICK row \in Account : row.version = account[u].version /\ Change(u, row)
  BY <1>1
<1> DEFINE new == [row EXCEPT !.version = @ + 1]
<1>3. new \in Account /\ new.version = account[u].version + 1
  BY <1>0, <1>2 DEF Account
<1>4. /\ account' = [account EXCEPT ![u] = new] /\ account[u].state = "active"
      /\ UNCHANGED <<context, otp, counter, tasks, mailed, guesses, granted>>
  BY <1>2 DEF Change
<1> HIDE DEF new
<1> QED
  BY <1>3, <1>4 DEF ContextsSound

LEMMA ChangeKeeps ==
    ASSUME SignInInv, NEW u \in User, ChangeRole(u) \/ Deactivate(u) \/ ResetPassword(u)
    PROVE  SignInInv'
<1>1. /\ account' \in [User -> Account]
      /\ \A x \in User : x # u => account'[x] = account[x]
      /\ account'[u].version = account[u].version + 1
      /\ UNCHANGED <<context, otp, counter, tasks, mailed, guesses, granted>>
  BY ChangeFacts DEF SignInInv
<1>2. ContextsSound'
  <2>1. ASSUME NEW c \in Context, context[c].user # None
        PROVE  context[c].proof.version <= account'[context[c].user].version
    <3>1. /\ context[c].user \in User /\ context[c].proof.version \in Nat
          /\ context[c].proof.version <= account[context[c].user].version
          /\ account[context[c].user].version \in Nat
      BY <2>1 DEF SignInInv, ContextsSound, ContextRow, Account
    <3> QED
      BY <1>1, <3>1
  <2> QED
    BY <1>1, <2>1 DEF SignInInv, ContextsSound
<1> QED
  BY <1>1, <1>2, Untouched DEF SignInInv
-----------------------------------------------------------------------------
\* The clock.
LEMMA SoonerFacts ==
    /\ \A n \in Nat : Sooner(n) \in Nat /\ Sooner(n) <= n
    /\ \A n \in Nat : n > 0 => Sooner(n) = n - 1
    /\ Sooner(0) = 0 /\ Sooner(NoLock) = NoLock
BY DEF Sooner, NoLock

LEMMA TickOtp ==
    ASSUME CodesTyped, Tick
    PROVE  /\ otp' \in [User -> OtpRow]
           /\ \A u \in User :
                 /\ otp'[u].state = otp[u].state /\ otp'[u].context = otp[u].context
                 /\ otp'[u].generation = otp[u].generation
                 /\ otp'[u].attempts = otp[u].attempts
                 /\ otp'[u].left = Sooner(otp[u].left) /\ otp'[u].lock = Sooner(otp[u].lock)
                 /\ otp[u] = NoOtp => otp'[u] = NoOtp
<1> SUFFICES ASSUME NEW u \in User
             PROVE  /\ otp'[u] \in OtpRow
                    /\ otp'[u].state = otp[u].state /\ otp'[u].context = otp[u].context
                    /\ otp'[u].generation = otp[u].generation
                    /\ otp'[u].attempts = otp[u].attempts
                    /\ otp'[u].left = Sooner(otp[u].left) /\ otp'[u].lock = Sooner(otp[u].lock)
                    /\ otp[u] = NoOtp => otp'[u] = NoOtp
  BY DEF Tick
<1> DEFINE r == otp[u]
           l == Sooner(r.left)
           k == Sooner(r.lock)
           s == IF r.since < ContextSeconds THEN r.since + 1 ELSE r.since
           r1 == [r EXCEPT !.left = l]
           r2 == [r1 EXCEPT !.lock = k]
<1>1. r \in OtpRow
  BY DEF CodesTyped
<1>2. otp'[u] = [r EXCEPT !.left = l, !.lock = k, !.since = s]
  BY DEF Tick
<1>3. /\ l \in 0..OtpSeconds /\ k \in {NoLock} \union 0..OtpLockSeconds
      /\ s \in 0..ContextSeconds
  <2>1. /\ r.left \in 0..OtpSeconds /\ r.since \in 0..ContextSeconds
        /\ r.lock \in {NoLock} \union 0..OtpLockSeconds
    BY <1>1, OtpFields
  <2> HIDE DEF r
  <2> QED
    BY <2>1, Policy DEF Sooner, NoLock
<1>4. r = NoOtp => l = 0 /\ k = NoLock /\ s = ContextSeconds
  BY Policy DEF NoOtp, Sooner, NoLock
<1> HIDE DEF l, k, s
<1>5. otp'[u] \in OtpRow
  <2>1. r1 \in OtpRow
    BY <1>1, <1>3, OtpUpdate, Zenon
  <2>2. r2 \in OtpRow
    BY <1>3, <2>1, OtpUpdate, Zenon
  <2>3. otp'[u] = [r2 EXCEPT !.since = s]
    BY <1>2
  <2> HIDE DEF r2
  <2> QED
    BY <1>3, <2>2, <2>3, OtpUpdate
<1>6. /\ otp'[u].state = otp[u].state /\ otp'[u].context = otp[u].context
      /\ otp'[u].generation = otp[u].generation
      /\ otp'[u].attempts = otp[u].attempts
      /\ otp'[u].left = l /\ otp'[u].lock = k
  BY <1>1, <1>2 DEF OtpRow
<1>7. otp[u] = NoOtp => otp'[u] = NoOtp
  <2>1. ASSUME otp[u] = NoOtp
        PROVE  otp'[u] = [NoOtp EXCEPT !.left = 0, !.lock = NoLock, !.since = ContextSeconds]
    <3>1. r = NoOtp /\ l = 0 /\ k = NoLock /\ s = ContextSeconds
      BY <1>4, <2>1
    <3> HIDE DEF r
    <3> QED
      BY <1>2, <3>1, Zenon
  <2>2. /\ [NoOtp EXCEPT !.left = 0] = NoOtp /\ [NoOtp EXCEPT !.lock = NoLock] = NoOtp
        /\ [NoOtp EXCEPT !.since = ContextSeconds] = NoOtp
    BY DEF NoOtp
  <2>3. [NoOtp EXCEPT !.left = 0, !.lock = NoLock, !.since = ContextSeconds]
          = [[[NoOtp EXCEPT !.left = 0] EXCEPT !.lock = NoLock] EXCEPT !.since = ContextSeconds]
    OBVIOUS
  <2> QED
    BY <2>1, <2>2, <2>3
<1> QED
  BY <1>5, <1>6, <1>7 DEF l, k

LEMMA TickContext ==
    ASSUME ContextsSound, Tick
    PROVE  /\ context' \in [Context -> ContextRow]
           /\ \A c \in Context :
                 /\ context'[c].state = context[c].state /\ context'[c].user = context[c].user
                 /\ context'[c].proof = context[c].proof
                 /\ context'[c].left = Sooner(context[c].left)
<1> SUFFICES ASSUME NEW c \in Context
             PROVE  /\ context'[c] \in ContextRow
                    /\ context'[c].state = context[c].state /\ context'[c].user = context[c].user
                    /\ context'[c].proof = context[c].proof
                    /\ context'[c].left = Sooner(context[c].left)
  BY DEF Tick
<1> DEFINE l == Sooner(context[c].left)
<1>1. context[c] \in ContextRow /\ context'[c] = [context[c] EXCEPT !.left = l]
  BY DEF ContextsSound, Tick
<1>2. l \in 0..(ContextSeconds + SessionSeconds)
  BY <1>1, Policy DEF ContextRow, Sooner
<1> HIDE DEF l
<1>3. context'[c] \in ContextRow
  BY <1>1, <1>2, ContextUpdate
<1>4. /\ context'[c].state = context[c].state /\ context'[c].user = context[c].user
      /\ context'[c].proof = context[c].proof /\ context'[c].left = l
  BY <1>1 DEF ContextRow
<1> QED
  BY <1>3, <1>4 DEF l

LEMMA TickKeeps ==
    ASSUME SignInInv, Tick
    PROVE  SignInInv'
<1>0. UNCHANGED <<account, tasks, mailed, guesses, granted>>
  BY DEF Tick
<1>1. CountersTyped'
  <2>1. ASSUME NEW k \in Key
        PROVE  /\ counter'[k] \in [count : Nat, left : Nat]
               /\ counter'[k].count <= Maximum(k) /\ counter'[k].left <= Window(k)
    <3>1. /\ counter[k] \in [count : Nat, left : Nat]
          /\ counter[k].count <= Maximum(k) /\ counter[k].left <= Window(k)
      BY DEF SignInInv, CountersTyped
    <3>2. CASE counter[k].left > 1
      <4>1. counter'[k] = [counter[k] EXCEPT !.left = @ - 1]
        BY <3>2 DEF Tick
      <4> QED
        BY <3>1, <3>2, <4>1, Limits
    <3>3. CASE ~ (counter[k].left > 1)
      <4>1. counter'[k] = NoAttempts
        BY <3>3 DEF Tick
      <4> QED
        BY <4>1, Limits DEF NoAttempts
    <3> QED
      BY <3>2, <3>3
  <2> QED
    BY <2>1 DEF CountersTyped, Tick
<1>2. ContextsSound'
  BY <1>0, TickContext DEF SignInInv, ContextsSound
<1>3. CodesSound'
  <2>1. /\ otp' \in [User -> OtpRow]
        /\ \A u \in User : /\ otp'[u].state = otp[u].state /\ otp'[u].context = otp[u].context
                           /\ otp'[u].generation = otp[u].generation
                           /\ otp[u] = NoOtp => otp'[u] = NoOtp
    BY TickOtp DEF SignInInv, CodesSound
  <2>2. ASSUME NEW u \in User
        PROVE  \/ otp'[u] = otp[u]
               \/ /\ otp[u].state # "absent"
                  /\ otp'[u].state = otp[u].state /\ otp'[u].context = otp[u].context
                  /\ otp'[u].generation = otp[u].generation
    BY <2>1 DEF SignInInv, CodesSound, RowsShaped
  <2> QED
    BY <1>0, <2>1, <2>2, OtherFields DEF SignInInv
<1>4. GuessesSound'
  <2>1. ASSUME NEW u \in User
        PROVE  GuessSound(u)'
    <3>1. /\ otp'[u].attempts = otp[u].attempts
          /\ otp'[u].left = Sooner(otp[u].left) /\ otp'[u].lock = Sooner(otp[u].lock)
      BY TickOtp DEF SignInInv, CodesSound
    <3>2. /\ GuessSound(u) /\ otp[u].left \in Nat /\ otp[u].lock \in {NoLock} \union Nat
      BY Policy DEF SignInInv, GuessesSound, CodesSound, CodesTyped, OtpRow
    <3> QED
      BY <1>0, <3>1, <3>2 DEF GuessSound, Sooner, NoLock
  <2> QED
    BY <1>0, <2>1 DEF SignInInv, GuessesSound
<1>5. SessionsCounted'
  <2>1. \A u \in User : Sessions(u)' \subseteq Sessions(u)
    BY TickContext DEF SignInInv, Sessions
  <2> QED
    BY <1>0, <2>1, FewerSessions DEF SignInInv, CodesSound
<1> QED
  BY <1>1, <1>2, <1>3, <1>4, <1>5 DEF SignInInv
-----------------------------------------------------------------------------
LEMMA InvariantStep ==
    ASSUME SignInInv, [Next]_vars
    PROVE  SignInInv'
<1>1. CASE UNCHANGED vars
  BY <1>1, Untouched DEF vars, SignInInv
<1>2. ASSUME NEW c \in Context, NewContext(c) \/ Forget(c) \/ Logout(c)
      PROVE  SignInInv'
  BY <1>2, BrowsersKeep
<1>3. ASSUME NEW u \in User, NEW c \in Context,
             \/ \E n \in Address : LoginChallenged(u, c, n) \/ LoginRefused(u, c, n)
             \/ ResendCode(u, c) \/ VerifyWrong(u, c)
             \/ \E d \in Context : VerifyRight(u, c, d)
      PROVE  SignInInv'
  BY <1>3, LoginKeeps, ResendKeeps, WrongKeeps, RightKeeps
<1>4. ASSUME NEW u \in User, ChangeRole(u) \/ Deactivate(u) \/ ResetPassword(u)
      PROVE  SignInInv'
  BY <1>4, ChangeKeeps
<1>5. ASSUME NEW t \in tasks, Send(t) \/ DeliverOtp(t) \/ Lose(t)
      PROVE  SignInInv'
  BY <1>5, MailKeeps
<1>6. CASE Tick
  BY <1>6, TickKeeps
<1> QED
  BY <1>1, <1>2, <1>3, <1>4, <1>5, <1>6 DEF Next

LEMMA Invariance == Spec => []SignInInv
<1>1. Init => SignInInv
  BY InitSound
<1>2. SignInInv /\ [Next]_vars => SignInInv'
  BY InvariantStep
<1> QED
  BY <1>1, <1>2, PTL DEF Spec
-----------------------------------------------------------------------------
(***************************************************************************)
(* Safety.                                                                 *)
(***************************************************************************)

\* All rows keep their types, a code that opens a session was mailed, each opens one
\* session at most, and no more than OtpAttempts guesses are made at live codes until
\* a lock has run its time, with any users, browsers, limits and periods.
THEOREM CodesAlwaysConsistent == Spec => []CodesConsistent
<1>1. SignInInv => TypeOK
  BY DEF SignInInv, CountersTyped, ContextsSound, CodesSound, CodesTyped, GuessesSound, TypeOK
<1>2. SignInInv => CodesWereMailed
  BY DEF SignInInv, CodesSound, RowsSound, CodesWereMailed
<1>3. SignInInv => OneSessionPerCode
  BY DEF SignInInv, SessionsCounted, Sessions, OneSessionPerCode
<1>4. SignInInv => GuessesBounded
  <2> SUFFICES ASSUME SignInInv, NEW u \in User
               PROVE  guesses[u] <= OtpAttempts
    BY DEF GuessesBounded
  <2>1. GuessSound(u) /\ guesses[u] \in Nat /\ otp[u].attempts \in Nat
    BY Policy DEF SignInInv, GuessesSound, CodesSound, CodesTyped, OtpRow
  <2> QED
    BY <2>1, Policy DEF GuessSound
<1>5. SignInInv => CodesConsistent
  BY <1>1, <1>2, <1>3, <1>4 DEF CodesConsistent
<1> QED
  BY <1>5, Invariance, PTL

\* A session begins only where a password was given and then the code mailed for it,
\* for the account exactly as it was when the password was checked.
THEOREM SessionsNeedBothProofs == Spec => GrantFollowsBothProofs
<1> DEFINE Granted(c, d, u) ==
             /\ context[c].state = "pending" /\ context[c].user = u
             /\ context[c].proof = account[u] /\ context'[d].proof = account[u]
             /\ account[u].state = "active"
             /\ otp[u].context = c /\ otp[u].generation \in mailed[u] \ granted[u]
             /\ context'[c].state = "revoked"
           Begins(d) == context'[d].state = "verified" /\ context[d].state # "verified"
           Grants == \A d \in Context : Begins(d) =>
                        \E c \in Context, u \in User : Granted(c, d, u)
<1>1. ASSUME SignInInv, [Next]_vars
      PROVE  Grants
  <2> SUFFICES ASSUME NEW d \in Context, Begins(d)
               PROVE  \E c \in Context, u \in User : Granted(c, d, u)
    OBVIOUS
  <2>0. context \in [Context -> ContextRow]
    BY <1>1 DEF SignInInv, ContextsSound
  <2>1. ASSUME UNCHANGED context
        PROVE  FALSE
    BY <2>1
  <2>2. ASSUME NEW c \in Context, NewContext(c) \/ Forget(c) \/ Logout(c)
        PROVE  FALSE
    <3>1. /\ \A x \in Context : x # c => context'[x] = context[x]
          /\ context'[c].state \in {"anonymous", "free", "revoked"}
      <4>1. CASE NewContext(c)
        BY <2>0, <4>1 DEF NewContext
      <4>2. CASE Forget(c)
        BY <2>0, <4>2 DEF Forget, NoContext
      <4>3. CASE Logout(c)
        BY <2>0, <4>3 DEF Logout, ContextRow
      <4> QED
        BY <2>2, <4>1, <4>2, <4>3
    <3> QED
      BY <3>1
  <2>3. ASSUME NEW u \in User, NEW c \in Context, NEW row, PrepareOtp(u, c, row)
        PROVE  FALSE
    BY <1>1, <2>3, PrepareContext DEF SignInInv
  <2>4. ASSUME NEW u \in User, NEW c \in Context,
               \/ \E n \in Address : LoginChallenged(u, c, n) \/ LoginRefused(u, c, n)
               \/ ResendCode(u, c) \/ VerifyWrong(u, c)
        PROVE  FALSE
    BY <2>1, <2>3, <2>4 DEF LoginChallenged, LoginRefused, ResendCode, VerifyWrong
  <2>5. ASSUME NEW u \in User, NEW c \in Context, NEW x \in Context, VerifyRight(u, c, x)
        PROVE  \E z \in Context, y \in User : Granted(z, d, y)
    <3>1. /\ context[c].state = "pending" /\ context[c].user = u
          /\ context[c].proof = account[u] /\ account[u].state = "active"
          /\ otp[u].context = c /\ otp[u].state = "delivered"
          /\ context[x].state = "free" /\ c # x
      BY <2>5, NameAssumption DEF VerifyRight, Challenged, Usable, Live, Proof
    <3>2. \A z \in Context : context'[z] =
             IF z = x THEN [state |-> "verified", user |-> u, proof |-> account[u],
                            left |-> SessionSeconds]
             ELSE IF z = c THEN [context[c] EXCEPT !.state = "revoked"] ELSE context[z]
      BY <2>0, <2>5, <3>1 DEF VerifyRight, Proof
    <3>3. d = x /\ context'[d].proof = account[u] /\ context'[c].state = "revoked"
      BY <2>0, <3>1, <3>2 DEF ContextRow
    <3>4. otp[u].generation \in mailed[u] \ granted[u]
      BY <1>1, <3>1 DEF SignInInv, CodesSound, RowsSound
    <3>5. Granted(c, d, u)
      BY <3>1, <3>3, <3>4
    <3> QED
      BY <3>5
  <2>6. ASSUME NEW u \in User, ChangeRole(u) \/ Deactivate(u) \/ ResetPassword(u)
        PROVE  FALSE
    BY <2>1, <2>6 DEF ChangeRole, Deactivate, ResetPassword, Change
  <2>7. ASSUME NEW t \in tasks, Send(t) \/ DeliverOtp(t) \/ Lose(t)
        PROVE  FALSE
    BY <2>1, <2>7 DEF Send, DeliverOtp, Lose
  <2>8. ASSUME Tick
        PROVE  FALSE
    BY <1>1, <2>8, TickContext DEF SignInInv
  <2> QED
    BY <1>1, <2>1, <2>2, <2>4, <2>5, <2>6, <2>7, <2>8 DEF Next, vars
<1> QED
  BY <1>1, Invariance, PTL DEF Spec, GrantFollowsBothProofs
-----------------------------------------------------------------------------
\* How a step can change a context, and how an account.
LEMMA ContextStep ==
    ASSUME SignInInv, [Next]_vars, NEW c \in Context
    PROVE  \/ context'[c] = context[c]
           \/ context[c].state = "free" /\ context'[c].state \in {"anonymous", "verified"}
           \/ context'[c].state \in {"free", "revoked"}
           \/ /\ Usable(c) /\ context'[c].state = "pending" /\ UNCHANGED account
              /\ \E u \in User : \E row : PrepareOtp(u, c, row)
           \/ /\ Tick /\ UNCHANGED account
              /\ context'[c].state = context[c].state /\ context'[c].user = context[c].user
              /\ context'[c].proof = context[c].proof
              /\ context'[c].left = Sooner(context[c].left)
<1>0. context \in [Context -> ContextRow]
  BY DEF SignInInv, ContextsSound
<1>1. CASE UNCHANGED context
  BY <1>1
<1>2. ASSUME NEW d \in Context, NewContext(d) \/ Forget(d) \/ Logout(d)
      PROVE  \/ context'[c] = context[c]
             \/ context[c].state = "free" /\ context'[c].state \in {"anonymous", "verified"}
             \/ context'[c].state \in {"free", "revoked"}
  <2>1. CASE NewContext(d)
    BY <1>0, <2>1 DEF NewContext
  <2>2. CASE Forget(d)
    BY <1>0, <2>2 DEF Forget, NoContext
  <2>3. CASE Logout(d)
    BY <1>0, <2>3 DEF Logout, ContextRow
  <2> QED
    BY <1>2, <2>1, <2>2, <2>3
<1>3. ASSUME NEW u \in User, NEW d \in Context, NEW row, Usable(d), PrepareOtp(u, d, row)
      PROVE  \/ context'[c] = context[c]
             \/ /\ Usable(c) /\ context'[c].state = "pending" /\ UNCHANGED account
                /\ \E x \in User : \E y : PrepareOtp(x, c, y)
  <2>1. CASE c # d
    BY <1>3, <2>1, PrepareContext DEF SignInInv
  <2>2. CASE c = d
    <3>1. context'[c].state = "pending" /\ UNCHANGED account
      BY <1>3, <2>2, PrepareContext DEF SignInInv, PrepareOtp
    <3> QED
      BY <1>3, <2>2, <3>1, Zenon
  <2> QED
    BY <2>1, <2>2
<1>4. ASSUME NEW u \in User, NEW d \in Context,
             \/ \E n \in Address : LoginChallenged(u, d, n)
             \/ ResendCode(u, d)
      PROVE  Usable(d) /\ \E row : PrepareOtp(u, d, row)
  BY <1>4 DEF LoginChallenged, Login, ResendCode, Challenged
<1>5. ASSUME NEW u \in User, NEW d \in Context,
             \/ \E n \in Address : LoginRefused(u, d, n)
             \/ VerifyWrong(u, d)
      PROVE  UNCHANGED context
  BY <1>5 DEF LoginRefused, VerifyWrong
<1>6. ASSUME NEW u \in User, NEW d \in Context, NEW x \in Context, VerifyRight(u, d, x)
      PROVE  \/ context'[c] = context[c]
             \/ context[c].state = "free" /\ context'[c].state \in {"anonymous", "verified"}
             \/ context'[c].state \in {"free", "revoked"}
  <2>1. context[x].state = "free" /\ context[d].state = "pending" /\ x # d
    BY <1>6 DEF VerifyRight, Challenged
  <2>2. context'[c] = IF c = x THEN [state |-> "verified", user |-> u, proof |-> Proof(u),
                                     left |-> SessionSeconds]
                      ELSE IF c = d THEN [context[d] EXCEPT !.state = "revoked"] ELSE context[c]
    BY <1>0, <1>6, <2>1 DEF VerifyRight
  <2> QED
    BY <1>0, <2>1, <2>2 DEF ContextRow
<1>7. ASSUME NEW u \in User, ChangeRole(u) \/ Deactivate(u) \/ ResetPassword(u)
      PROVE  UNCHANGED context
  BY <1>7 DEF ChangeRole, Deactivate, ResetPassword, Change
<1>8. ASSUME NEW t \in tasks, Send(t) \/ DeliverOtp(t) \/ Lose(t)
      PROVE  UNCHANGED context
  BY <1>8 DEF Send, DeliverOtp, Lose
<1>9. CASE Tick
  BY <1>9, TickContext DEF SignInInv, Tick
<1> QED
  BY <1>1, <1>2, <1>3, <1>4, <1>5, <1>6, <1>7, <1>8, <1>9 DEF Next, vars

LEMMA AccountStep ==
    ASSUME SignInInv, [Next]_vars, NEW u \in User
    PROVE  \/ account'[u] = account[u]
           \/ /\ account[u].state = "active" /\ UNCHANGED context
              /\ account'[u].version = account[u].version + 1
<1>1. CASE UNCHANGED account
  BY <1>1
<1>2. ASSUME NEW x \in User, ChangeRole(x) \/ Deactivate(x) \/ ResetPassword(x)
      PROVE  \/ account'[u] = account[u]
             \/ /\ account[u].state = "active" /\ UNCHANGED context
                /\ account'[u].version = account[u].version + 1
  BY <1>2, ChangeFacts DEF SignInInv
<1>3. ASSUME ~ UNCHANGED account
      PROVE  \E x \in User : ChangeRole(x) \/ Deactivate(x) \/ ResetPassword(x)
  <2>1. ASSUME NEW c \in Context, NewContext(c) \/ Forget(c) \/ Logout(c)
        PROVE  UNCHANGED account
    BY <2>1 DEF NewContext, Forget, Logout
  <2>2. ASSUME NEW x \in User, NEW c \in Context,
               \/ \E n \in Address : LoginChallenged(x, c, n) \/ LoginRefused(x, c, n)
               \/ ResendCode(x, c)
        PROVE  UNCHANGED account
    BY <2>2 DEF LoginChallenged, LoginRefused, ResendCode, PrepareOtp
  <2>3. ASSUME NEW x \in User, NEW c \in Context,
               VerifyWrong(x, c) \/ \E d \in Context : VerifyRight(x, c, d)
        PROVE  UNCHANGED account
    BY <2>3 DEF VerifyWrong, VerifyRight
  <2>4. ASSUME NEW t \in tasks, Send(t) \/ DeliverOtp(t) \/ Lose(t)
        PROVE  UNCHANGED account
    BY <2>4 DEF Send, DeliverOtp, Lose
  <2>5. CASE Tick
    BY <1>3, <2>5 DEF Tick
  <2> QED
    BY <1>3, <2>1, <2>2, <2>3, <2>4, <2>5 DEF Next, vars
<1> QED
  BY <1>1, <1>2, <1>3

\* What the account was, it never is again: its version has grown.
LEMMA ProofsExpire ==
    ASSUME SignInInv, [Next]_vars, NEW c \in Context, context[c].user # None,
           ~ (/\ account[context[c].user].state = "active"
              /\ context[c].proof = Proof(context[c].user))
           \/ account'[context[c].user] # account[context[c].user]
    PROVE  ~ (/\ account'[context[c].user].state = "active"
              /\ context[c].proof = account'[context[c].user])
<1> DEFINE u == context[c].user
<1>1. /\ u \in User /\ context[c].proof \in Account
      /\ context[c].proof.version <= account[u].version
      /\ context[c].proof.version \in Nat /\ account[u].version \in Nat
  BY UsableContext DEF SignInInv, ContextsSound, Account
<1>2. CASE account'[u] = account[u]
  BY <1>2 DEF Proof
<1>3. CASE account'[u] # account[u]
  <2>1. account'[u].version = account[u].version + 1
    BY <1>1, <1>3, AccountStep
  <2>2. context[c].proof # account'[u]
    BY <1>1, <2>1
  <2> QED
    BY <2>2
<1> QED
  BY <1>2, <1>3

LEMMA DeadStaysDead ==
    ASSUME SignInInv, [Next]_vars, NEW c \in Context,
           context[c].state # "free", ~Usable(c)
    PROVE  ~Usable(c)'
<1> SUFFICES ASSUME Usable(c)'
             PROVE  FALSE
  OBVIOUS
<1>1. /\ context'[c].state \notin {"free", "revoked"} /\ context'[c].left > 0
      /\ context'[c].user # None =>
            /\ account'[context'[c].user].state = "active"
            /\ context'[c].proof = account'[context'[c].user]
  BY DEF Usable, Proof
<1>2. /\ context'[c].state = context[c].state /\ context'[c].user = context[c].user
      /\ context'[c].proof = context[c].proof /\ context[c].left > 0
  <2>1. context[c].left \in Nat
    BY UsableContext DEF SignInInv
  <2>2. Sooner(context[c].left) > 0 => context[c].left > 0
    BY <2>1 DEF Sooner
  <2> QED
    BY <1>1, <2>2, ContextStep
<1>3. /\ context[c].user # None
      /\ ~ (/\ account[context[c].user].state = "active"
            /\ context[c].proof = Proof(context[c].user))
  BY <1>1, <1>2 DEF Usable
<1> QED
  BY <1>1, <1>2, <1>3, ProofsExpire

\* A context that was signed out, has run out or belongs to an account that changed
\* works never again, and a change of an account ends its contexts at once.
THEOREM EndedContextsStayEnded == Spec => SignedOutForGood
<1> DEFINE Dead == \A c \in Context :
                      context[c].state # "free" /\ ~Usable(c) => ~Usable(c)'
           Ended == \A u \in User : account'[u] # account[u] =>
                      \A c \in Context : context[c].user = u => ~Usable(c)'
<1>1. SignInInv /\ [Next]_vars => Dead
  BY DeadStaysDead
<1>2. SignInInv /\ [Next]_vars => Ended
  <2> SUFFICES ASSUME SignInInv, [Next]_vars, NEW u \in User, account'[u] # account[u],
                      NEW c \in Context, context[c].user = u
               PROVE  ~Usable(c)'
    OBVIOUS
  <2>1. UNCHANGED context
    BY AccountStep
  <2>2. u # None
    BY NameAssumption
  <2>3. ~ (account'[u].state = "active" /\ context[c].proof = account'[u])
    BY <2>2, ProofsExpire
  <2> QED
    BY <2>1, <2>2, <2>3 DEF Usable, Proof
<1>3. Spec => DeadContextsStayDead
  BY <1>1, Invariance, PTL DEF Spec, DeadContextsStayDead
<1>4. Spec => ChangesSignOut
  BY <1>2, Invariance, PTL DEF Spec, ChangesSignOut
<1> QED
  BY <1>3, <1>4 DEF SignedOutForGood
-----------------------------------------------------------------------------
\* How a step can change the row of a code.
LEMMA OtpStep ==
    ASSUME SignInInv, [Next]_vars
    PROVE  \/ \E u \in User, c \in Context, row \in OtpRow :
                /\ PrepareOtp(u, c, row) /\ row.lock = NoLock /\ ~Locked(u)
                /\ Usable(c) /\ context[c].state \in {"anonymous", "pending"}
                /\ account[u].state = "active"
           \/ \E u \in User, c \in Context, d \in Context : VerifyRight(u, c, d)
           \/ \E u \in User, c \in Context : VerifyWrong(u, c)
           \/ \E t \in tasks : DeliverOtp(t)
           \/ Tick
           \/ UNCHANGED <<otp, granted>>
<1>1. CASE UNCHANGED vars
  BY <1>1 DEF vars
<1>2. ASSUME NEW c \in Context, NewContext(c) \/ Forget(c) \/ Logout(c)
      PROVE  UNCHANGED <<otp, granted>>
  BY <1>2 DEF NewContext, Forget, Logout
<1>3. ASSUME NEW u \in User, NEW c \in Context, NEW n \in Address,
             LoginChallenged(u, c, n)
      PROVE  \E row \in OtpRow :
                /\ PrepareOtp(u, c, row) /\ row.lock = NoLock /\ ~Locked(u)
                /\ Usable(c) /\ context[c].state \in {"anonymous", "pending"}
                /\ account[u].state = "active"
  <2>1. Reopened(u) \in OtpRow /\ Reopened(u).lock = NoLock
    BY <1>3, ReopenedRow DEF SignInInv, LoginChallenged
  <2>2. ~Locked(u)
    BY <1>3 DEF LoginChallenged, Challengeable, SignInInv, CodesSound, RowsShaped, NoOtp,
       Locked, NoLock
  <2>3. Usable(c) /\ context[c].state \in {"anonymous", "pending"}
    BY <1>3, UsableContext DEF LoginChallenged, Login, Usable, SignInInv
  <2> QED
    BY <1>3, <2>1, <2>2, <2>3 DEF LoginChallenged
<1>4. ASSUME NEW u \in User, NEW c \in Context, ResendCode(u, c)
      PROVE  \E row \in OtpRow :
                /\ PrepareOtp(u, c, row) /\ row.lock = NoLock /\ ~Locked(u)
                /\ Usable(c) /\ context[c].state \in {"anonymous", "pending"}
                /\ account[u].state = "active"
  <2> DEFINE fresh == [Unlocked(otp[u]) EXCEPT !.resends = @ + 1]
  <2>1. fresh \in OtpRow /\ fresh.lock = NoLock
    BY <1>4, ResentRow DEF SignInInv, ResendCode
  <2>2. PrepareOtp(u, c, fresh) /\ Challenged(u, c)
    BY <1>4 DEF ResendCode
  <2> HIDE DEF fresh
  <2>3. ~Locked(u) /\ Usable(c) /\ context[c].state = "pending" /\ account[u].state = "active"
    BY <2>2, NameAssumption DEF Challenged, Usable
  <2> QED
    BY <2>1, <2>2, <2>3
<1>5. ASSUME NEW u \in User, NEW c \in Context, NEW n \in Address,
             LoginRefused(u, c, n)
      PROVE  UNCHANGED <<otp, granted>>
  BY <1>5 DEF LoginRefused
<1>6. ASSUME NEW u \in User, ChangeRole(u) \/ Deactivate(u) \/ ResetPassword(u)
      PROVE  UNCHANGED <<otp, granted>>
  BY <1>6 DEF ChangeRole, Deactivate, ResetPassword, Change
<1>7. ASSUME NEW t \in tasks, Send(t) \/ Lose(t)
      PROVE  UNCHANGED <<otp, granted>>
  BY <1>7 DEF Send, Lose
<1> QED
  BY <1>1, <1>2, <1>3, <1>4, <1>5, <1>6, <1>7 DEF Next

\* While an account is locked no code is issued for it, no attempt is counted and no
\* code is accepted, in any browser.
THEOREM LocksAreObeyed == Spec => LocksHold
<1> DEFINE Kept(u) == /\ otp'[u].generation = otp[u].generation
                      /\ otp'[u].attempts = otp[u].attempts
                      /\ otp'[u].lock \in {otp[u].lock, otp[u].lock - 1}
                      /\ granted'[u] = granted[u]
           Held == \A u \in User : Locked(u) => Kept(u)
<1>1. ASSUME SignInInv, [Next]_vars
      PROVE  Held
  <2> SUFFICES ASSUME NEW u \in User, Locked(u)
               PROVE  Kept(u)
    OBVIOUS
  <2>0. otp \in [User -> OtpRow] /\ granted \in [User -> SUBSET Nat]
    BY <1>1 DEF SignInInv, CodesSound, CodesTyped
  <2>1. ASSUME NEW x \in User, NEW c \in Context, NEW row \in OtpRow,
               PrepareOtp(x, c, row), ~Locked(x)
        PROVE  Kept(u)
    BY <1>1, <2>1, PrepareCodes DEF SignInInv, PrepareOtp
  <2>2. ASSUME NEW x \in User, NEW c \in Context,
               VerifyWrong(x, c) \/ \E d \in Context : VerifyRight(x, c, d)
        PROVE  Kept(u)
    <3>1. x # u
      BY <2>2 DEF VerifyWrong, VerifyRight, Challenged
    <3>2. otp'[u] = otp[u] /\ granted'[u] = granted[u]
      BY <2>0, <2>2, <3>1 DEF VerifyWrong, VerifyRight
    <3> QED
      BY <3>2
  <2>3. ASSUME NEW t \in tasks, DeliverOtp(t)
        PROVE  Kept(u)
    <3>1. \/ otp' = otp
          \/ \E state : otp' = [otp EXCEPT ![t.user].state = state]
      BY <2>3 DEF DeliverOtp
    <3>2. /\ otp'[u].generation = otp[u].generation /\ otp'[u].lock = otp[u].lock
          /\ otp'[u].attempts = otp[u].attempts
      <4>1. otp'[u] = otp[u] \/ \E state : otp'[u] = [otp[u] EXCEPT !.state = state]
        BY <2>0, <3>1
      <4>2. ASSUME NEW state, otp'[u] = [otp[u] EXCEPT !.state = state]
            PROVE  /\ otp'[u].generation = otp[u].generation
                   /\ otp'[u].lock = otp[u].lock /\ otp'[u].attempts = otp[u].attempts
        BY <2>0, <4>2 DEF OtpRow
      <4> QED
        BY <4>1, <4>2
    <3> QED
      BY <2>3, <3>2 DEF DeliverOtp
  <2>4. CASE Tick
    <3>1. /\ otp'[u].generation = otp[u].generation
          /\ otp'[u].attempts = otp[u].attempts /\ otp'[u].lock = Sooner(otp[u].lock)
      BY <1>1, <2>4, TickOtp DEF SignInInv, CodesSound
    <3> QED
      BY <2>4, <3>1 DEF Tick, Sooner
  <2>5. CASE UNCHANGED <<otp, granted>>
    BY <2>5
  <2> QED
    BY <1>1, <2>1, <2>2, <2>3, <2>4, <2>5, OtpStep
<1> QED
  BY <1>1, Invariance, PTL DEF Spec, LocksHold
-----------------------------------------------------------------------------
(***************************************************************************)
(* The codes implement OneTimeSecret.                                      *)
(***************************************************************************)
LEMMA Phases ==
    ASSUME SignInInv, NEW u \in User
    PROVE  /\ otp[u].state = "absent" => CodePhase(u) = "idle"
           /\ otp[u].state = "consumed" => CodePhase(u) = "spent"
           /\ otp[u].state = "prepared" /\ Redeemable(u) => CodePhase(u) = "issued"
           /\ otp[u].state = "delivered" /\ Redeemable(u) => CodePhase(u) = "usable"
           /\ otp[u].state \in {"prepared", "delivered"} /\ ~Redeemable(u)
                 => CodePhase(u) = "void"
           /\ otp[u].state \in {"absent", "prepared", "delivered", "consumed"}
           /\ Redeemable(u) => otp[u].state \in {"prepared", "delivered"}
<1>1. otp[u].state \in {"absent", "prepared", "delivered", "consumed"}
  BY DEF SignInInv, CodesSound, CodesTyped, OtpRow
<1>2. Redeemable(u) => otp[u].state \in {"prepared", "delivered"}
  <2>1. ASSUME otp[u].state = "absent", Redeemable(u)
        PROVE  FALSE
    <3>1. otp[u].left = 0
      BY <2>1 DEF SignInInv, CodesSound, RowsShaped, NoOtp
    <3> QED
      BY <2>1, <3>1 DEF Redeemable
  <2> QED
    BY <1>1, <2>1 DEF Redeemable, Challenged
<1> QED
  BY <1>1, <1>2 DEF CodePhase

LEMMA PhasesPrimed ==
    ASSUME SignInInv', NEW u \in User
    PROVE  /\ otp'[u].state = "absent" => CodePhase(u)' = "idle"
           /\ otp'[u].state = "consumed" => CodePhase(u)' = "spent"
           /\ otp'[u].state = "prepared" /\ Redeemable(u)' => CodePhase(u)' = "issued"
           /\ otp'[u].state = "delivered" /\ Redeemable(u)' => CodePhase(u)' = "usable"
           /\ otp'[u].state \in {"prepared", "delivered"} /\ ~Redeemable(u)'
                 => CodePhase(u)' = "void"
           /\ otp'[u].state \in {"absent", "prepared", "delivered", "consumed"}
           /\ Redeemable(u)' => otp'[u].state \in {"prepared", "delivered"}
<1>1. otp'[u].state \in {"absent", "prepared", "delivered", "consumed"}
  BY DEF SignInInv, CodesSound, CodesTyped, OtpRow
<1>2. Redeemable(u)' => otp'[u].state \in {"prepared", "delivered"}
  <2>1. ASSUME otp'[u].state = "absent", Redeemable(u)'
        PROVE  FALSE
    <3>1. otp'[u].left = 0
      BY <2>1 DEF SignInInv, CodesSound, RowsShaped, NoOtp
    <3> QED
      BY <2>1, <3>1 DEF Redeemable
  <2> QED
    BY <1>1, <2>1 DEF Redeemable, Challenged
<1> QED
  BY <1>1, <1>2 DEF CodePhase

\* A code that cannot be redeemed never can be again: its browser is gone for good,
\* and it has run out by the time a lock ends.
LEMMA NothingRevives ==
    ASSUME SignInInv, [Next]_vars, NEW u \in User,
           otp'[u].generation = otp[u].generation,
           otp'[u].context = otp[u].context,
           otp'[u].state = "consumed" \/ otp[u].state # "consumed",
           otp'[u].left > 0 => otp[u].left > 0,
           otp'[u].left > 0 /\ ~Locked(u)' => ~Locked(u),
           Redeemable(u)'
    PROVE  Redeemable(u)
<1> DEFINE c == otp[u].context
<1>0. /\ otp'[u].left > 0 /\ ~Locked(u)' /\ otp'[u].state # "consumed"
      /\ Usable(c)' /\ context'[c].state = "pending" /\ context'[c].user = u
  BY DEF Redeemable, Challenged
<1>1. c \in Context
  <2>1. otp[u].state # "absent"
    <3>1. otp[u].state = "absent" => otp[u].left = 0
      BY DEF SignInInv, CodesSound, RowsShaped, NoOtp
    <3> QED
      BY <1>0, <3>1
  <2> QED
    BY <2>1 DEF SignInInv, CodesSound, RowsShaped
<1>2. context[c].state = "pending" /\ context[c].user = u
  <2>1. ASSUME NEW x \in User, NEW row, PrepareOtp(x, c, row)
        PROVE  FALSE
    <3>1. context'[c].user = x
      BY <1>1, <2>1, PrepareContext DEF SignInInv
    <3>2. otp'[x].generation = otp[x].generation + 1 /\ otp[x].generation \in Nat
      BY <2>1 DEF PrepareOtp, SignInInv, CodesSound, CodesTyped, OtpRow
    <3> QED
      BY <1>0, <3>1, <3>2
  <2> QED
    BY <1>0, <1>1, <2>1, ContextStep
<1>3. Usable(c)
  BY <1>0, <1>1, <1>2, DeadStaysDead
<1> QED
  BY <1>0, <1>2, <1>3 DEF Redeemable, Challenged

Issued == [u \in User |-> otp[u].generation]
Phase == [u \in User |-> CodePhase(u)]

\* The code of u goes on, or is void.
Calm(u) == \/ CodePhase(u)' = CodePhase(u)
           \/ CodePhase(u)' = "void" /\ CodePhase(u) \in {"issued", "usable"}

\* A row that a step leaves alone, or only lets run: its code goes on or is void.
LEMMA LeftAlone ==
    ASSUME SignInInv, SignInInv', [Next]_vars, NEW u \in User,
           otp'[u].generation = otp[u].generation,
           otp'[u].context = otp[u].context,
           otp'[u].state = otp[u].state,
           otp'[u].left > 0 => otp[u].left > 0,
           otp'[u].left > 0 /\ ~Locked(u)' => ~Locked(u)
    PROVE  Calm(u)
<1>1. Redeemable(u)' /\ otp[u].state # "consumed" => Redeemable(u)
  BY NothingRevives
<1> QED
  BY <1>1, Phases, PhasesPrimed DEF Calm


\* Whatever a step does to rows, the codes see of it that some are void.
OnlyVoids == granted' = granted /\ Issued' = Issued /\ \A u \in User : Calm(u)

LEMMA VoidStep == OnlyVoids => Codes!Next
<1> SUFFICES ASSUME OnlyVoids
             PROVE  Codes!Next
  OBVIOUS
<1> DEFINE H == {u \in User : CodePhase(u)' # CodePhase(u)}
<1>1. \A h \in H : Phase[h] \in {"issued", "usable"}
  BY DEF Phase, OnlyVoids, Calm
<1>2. Phase' = [h \in User |-> IF h \in H THEN "void" ELSE Phase[h]]
  BY DEF Phase, OnlyVoids, Calm
<1>3. Codes!Void(H)
  BY <1>1, <1>2 DEF Codes!Void, Issued, Phase, OnlyVoids
<1>4. H \in SUBSET User
  OBVIOUS
<1> HIDE DEF H
<1> QED
  BY <1>3, <1>4 DEF Codes!Next

LEMMA IssueStep ==
    ASSUME SignInInv, SignInInv', [Next]_vars, NEW u \in User, NEW c \in Context,
           NEW row \in OtpRow, PrepareOtp(u, c, row), row.lock = NoLock,
           Usable(c), account[u].state = "active"
    PROVE  Codes!Issue(u)
<1>1. /\ \A x \in User : x # u => otp'[x] = otp[x]
      /\ otp'[u].state = "prepared" /\ otp'[u].context = c /\ otp'[u].lock = NoLock
      /\ otp'[u].generation = otp[u].generation + 1 /\ otp'[u].left = OtpSeconds
  BY PrepareCodes DEF SignInInv
<1>2. /\ context'[c].state = "pending" /\ context'[c].user = u
      /\ context'[c].proof = account[u] /\ context'[c].left = context[c].left
      /\ account' = account /\ granted' = granted
  BY PrepareContext DEF SignInInv, PrepareOtp
<1>3. CodePhase(u)' = "issued"
  <2>1. Usable(c)'
    BY <1>2 DEF Usable, Proof
  <2>2. Redeemable(u)'
    BY <1>1, <1>2, <2>1, Policy DEF Redeemable, Challenged, Locked, NoLock
  <2> QED
    BY <1>1, <2>2, PhasesPrimed
<1>4. ASSUME NEW x \in User, x # u
      PROVE  Calm(x)
  BY <1>1, <1>4, LeftAlone DEF Locked
<1> DEFINE H == {x \in User : x # u /\ CodePhase(x)' # CodePhase(x)}
<1>5. H \in SUBSET (User \ {u}) /\ \A h \in H : Phase[h] \in {"issued", "usable"}
  BY <1>4 DEF Phase, Calm
<1>6. Phase' = [h \in User |-> IF h = u THEN "issued" ELSE IF h \in H THEN "void" ELSE Phase[h]]
  BY <1>3, <1>4 DEF Phase, Calm
<1>7. Issued' = [Issued EXCEPT ![u] = @ + 1]
  BY <1>1 DEF Issued
<1> HIDE DEF H
<1> QED
  BY <1>2, <1>5, <1>6, <1>7 DEF Codes!Issue, Issued, Phase

LEMMA RedeemStep ==
    ASSUME SignInInv, SignInInv', [Next]_vars, NEW u \in User, NEW c \in Context,
           NEW d \in Context, VerifyRight(u, c, d)
    PROVE  Codes!Redeem(u)
<1>0. /\ otp \in [User -> OtpRow] /\ granted \in [User -> SUBSET Nat]
      /\ otp' = [otp EXCEPT ![u].state = "consumed"]
      /\ granted' = [granted EXCEPT ![u] = @ \union {otp[u].generation}]
      /\ Challenged(u, c) /\ otp[u].state = "delivered" /\ otp[u].left > 0
  BY DEF SignInInv, CodesSound, CodesTyped, VerifyRight, Live
<1>1. /\ \A x \in User : x # u => otp'[x] = otp[x]
      /\ otp'[u].state = "consumed" /\ otp'[u].generation = otp[u].generation
  BY <1>0 DEF OtpRow
<1>2. CodePhase(u) = "usable" /\ CodePhase(u)' = "spent"
  <2>1. Redeemable(u)
    BY <1>0 DEF Redeemable, Challenged
  <2> QED
    BY <1>0, <1>1, <2>1, Phases, PhasesPrimed
<1>3. ASSUME NEW x \in User, x # u
      PROVE  CodePhase(x)' = CodePhase(x)
  <2>1. Calm(x)
    BY <1>1, <1>3, LeftAlone DEF Locked
  <2>2. ASSUME Redeemable(x)
        PROVE  Redeemable(x)'
    <3> DEFINE e == otp[x].context
    <3>1. Usable(e) /\ context[e].state = "pending" /\ context[e].user = x
      BY <2>2 DEF Redeemable, Challenged
    <3>2. e \in Context
      BY <2>2, Phases DEF SignInInv, CodesSound, RowsShaped
    <3>3. e # c /\ e # d
      BY <1>3, <3>1 DEF VerifyRight, Challenged
    <3>4. context'[e] = context[e] /\ account' = account
      BY <3>2, <3>3 DEF VerifyRight, SignInInv, ContextsSound
    <3>5. Usable(e)'
      BY <1>1, <1>3, <3>1, <3>4 DEF Usable, Proof
    <3> QED
      BY <1>1, <1>3, <2>2, <3>1, <3>4, <3>5 DEF Redeemable, Challenged, Locked
  <2> QED
    BY <1>1, <1>3, <2>1, <2>2, Phases, PhasesPrimed DEF Calm
<1>4. Phase' = [Phase EXCEPT ![u] = "spent"] /\ Phase[u] = "usable"
  BY <1>2, <1>3 DEF Phase
<1>5. Issued' = Issued /\ Issued[u] = otp[u].generation
  BY <1>1 DEF Issued
<1>6. granted' = [granted EXCEPT ![u] = @ \union {Issued[u]}]
  BY <1>0, <1>5
<1> QED
  BY <1>4, <1>5, <1>6 DEF Codes!Redeem, Issued, Phase

LEMMA WrongStep ==
    ASSUME SignInInv, SignInInv', [Next]_vars, NEW u \in User, NEW c \in Context,
           VerifyWrong(u, c)
    PROVE  Codes!Next
<1> DEFINE n == IF otp[u].attempts = OtpAttempts THEN OtpAttempts ELSE otp[u].attempts + 1
           l == IF n >= OtpAttempts THEN OtpLockSeconds ELSE otp[u].lock
<1>1. /\ otp' = [otp EXCEPT ![u].attempts = n, ![u].lock = l] /\ granted' = granted
      /\ ~Locked(u) /\ otp \in [User -> OtpRow]
  BY DEF VerifyWrong, Challenged, SignInInv, CodesSound, CodesTyped
<1> HIDE DEF n, l
<1>2. /\ \A x \in User : x # u => otp'[x] = otp[x]
      /\ otp'[u].state = otp[u].state /\ otp'[u].context = otp[u].context
      /\ otp'[u].generation = otp[u].generation /\ otp'[u].left = otp[u].left
  BY <1>1 DEF OtpRow
<1>3. ASSUME NEW x \in User
      PROVE  Calm(x)
  <2>1. CASE x = u
    BY <1>1, <1>2, <2>1, LeftAlone
  <2>2. CASE x # u
    BY <1>2, <2>2, LeftAlone DEF Locked
  <2> QED
    BY <2>1, <2>2
<1>4. Issued' = Issued
  BY <1>2 DEF Issued
<1> QED
  BY <1>1, <1>3, <1>4, VoidStep DEF OnlyVoids

LEMMA DeliverStep ==
    ASSUME SignInInv, SignInInv', [Next]_vars, NEW t \in tasks, DeliverOtp(t)
    PROVE  Codes!Next
<1> DEFINE u == t.user
<1>1. /\ u \in User /\ otp \in [User -> OtpRow] /\ TaskSound(t) /\ otp[u] \in OtpRow
      /\ UNCHANGED <<account, context, granted>>
  BY DEF SignInInv, CodesSound, CodesTyped, Task, DeliverOtp
<1>2. CASE otp[u].generation # t.generation
  <2>1. otp' = otp
    BY <1>2 DEF DeliverOtp
  <2>2. ASSUME NEW x \in User
        PROVE  Calm(x)
    BY <2>1, LeftAlone DEF Locked
  <2> QED
    BY <1>1, <2>1, <2>2, VoidStep DEF Issued, OnlyVoids
<1>3. CASE otp[u].generation = t.generation
  <2> DEFINE new == IF t.step = "sent" THEN "delivered" ELSE "prepared"
  <2>1. otp[u].state = "prepared" /\ otp' = [otp EXCEPT ![u].state = new]
    BY <1>1, <1>3 DEF TaskSound, DeliverOtp
  <2>2. /\ \A x \in User : x # u => otp'[x] = otp[x]
        /\ otp'[u] = [otp[u] EXCEPT !.state = new]
    BY <1>1, <2>1
  <2>3. /\ otp'[u].state = new /\ otp'[u].context = otp[u].context
        /\ otp'[u].generation = otp[u].generation /\ otp'[u].left = otp[u].left
        /\ otp'[u].lock = otp[u].lock
    BY <1>1, <2>2 DEF OtpRow
  <2>4. ASSUME NEW x \in User
        PROVE  /\ otp'[x].generation = otp[x].generation
               /\ Redeemable(x)' <=> Redeemable(x)
    <3>1. /\ otp'[x].context = otp[x].context /\ otp'[x].left = otp[x].left
          /\ otp'[x].lock = otp[x].lock /\ otp'[x].generation = otp[x].generation
          /\ (otp'[x].state = "consumed") <=> (otp[x].state = "consumed")
      BY <2>1, <2>2, <2>3
    <3> QED
      BY <1>1, <3>1 DEF Redeemable, Challenged, Locked, Usable, Proof
  <2>5. ASSUME NEW x \in User, x # u
        PROVE  CodePhase(x)' = CodePhase(x)
    BY <2>2, <2>4, <2>5, Phases, PhasesPrimed
  <2>6. Issued' = Issued
    BY <2>4 DEF Issued
  <2>7. CASE t.step = "sent" /\ Redeemable(u)
    <3>1. CodePhase(u) = "issued" /\ CodePhase(u)' = "usable"
      BY <1>1, <2>1, <2>3, <2>4, <2>7, Phases, PhasesPrimed
    <3>2. Phase' = [Phase EXCEPT ![u] = "usable"] /\ Phase[u] = "issued"
      BY <1>1, <2>5, <3>1 DEF Phase
    <3>3. Codes!Arm(u)
      BY <1>1, <2>6, <3>2 DEF Codes!Arm, Issued, Phase
    <3> QED
      BY <1>1, <3>3 DEF Codes!Next
  <2>8. CASE ~ (t.step = "sent" /\ Redeemable(u))
    <3>1. CodePhase(u)' = CodePhase(u)
      BY <1>1, <2>1, <2>3, <2>4, <2>8, Phases, PhasesPrimed
    <3> QED
      BY <1>1, <2>5, <2>6, <3>1, VoidStep DEF OnlyVoids, Calm
  <2> QED
    BY <2>7, <2>8
<1> QED
  BY <1>2, <1>3

LEMMA TickStep ==
    ASSUME SignInInv, SignInInv', [Next]_vars, Tick
    PROVE  Codes!Next
<1>1. ASSUME NEW u \in User
      PROVE  /\ otp'[u].generation = otp[u].generation
             /\ Calm(u)
  <2>1. /\ otp'[u].state = otp[u].state /\ otp'[u].context = otp[u].context
        /\ otp'[u].generation = otp[u].generation
        /\ otp'[u].left = Sooner(otp[u].left) /\ otp'[u].lock = Sooner(otp[u].lock)
    BY TickOtp DEF SignInInv, CodesSound
  <2>2. /\ otp[u].left \in Nat /\ otp[u].lock \in {NoLock} \union Nat
        /\ otp[u].lock # NoLock => otp[u].left <= otp[u].lock
    BY Policy DEF SignInInv, GuessesSound, GuessSound, CodesSound, CodesTyped, OtpRow
  <2>3. /\ otp'[u].left > 0 => otp[u].left > 0
        /\ otp'[u].left > 0 /\ ~Locked(u)' => ~Locked(u)
    BY <2>1, <2>2 DEF Sooner, Locked, NoLock
  <2> QED
    BY <2>1, <2>3, LeftAlone
<1>2. granted' = granted /\ Issued' = Issued
  BY <1>1 DEF Tick, Issued
<1> QED
  BY <1>1, <1>2, VoidStep DEF OnlyVoids

\* The codes of any number of users are one-time secrets: what was replaced, accepted,
\* locked, signed out of or outlived is dead for good, and each is redeemed at most once.
THEOREM CodesImplementOneTimeSecret == Spec => CodesAreOneTime
<1>1. Init => Codes!Init
  <2> SUFFICES ASSUME Init
               PROVE  Codes!Init
    OBVIOUS
  <2>1. SignInInv
    BY InitSound
  <2>2. \A u \in User : otp[u].generation = 0 /\ otp[u].state = "absent"
    BY DEF Init, NoOtp
  <2>3. \A u \in User : CodePhase(u) = "idle"
    BY <2>1, <2>2, Phases
  <2> QED
    BY <2>2, <2>3 DEF Init, Codes!Init
<1>2. SignInInv /\ SignInInv' /\ [Next]_vars => [Codes!Next]_(Codes!vars)
  <2> SUFFICES ASSUME SignInInv, SignInInv', [Next]_vars
               PROVE  Codes!Next
    OBVIOUS
  <2>1. ASSUME NEW u \in User, NEW c \in Context, NEW row \in OtpRow,
               PrepareOtp(u, c, row), row.lock = NoLock, Usable(c),
               account[u].state = "active"
        PROVE  Codes!Next
    BY <2>1, IssueStep DEF Codes!Next
  <2>2. ASSUME NEW u \in User, NEW c \in Context, NEW d \in Context, VerifyRight(u, c, d)
        PROVE  Codes!Next
    BY <2>2, RedeemStep DEF Codes!Next
  <2>3. ASSUME UNCHANGED <<otp, granted>>
        PROVE  Codes!Next
    <3>1. ASSUME NEW x \in User
          PROVE  Calm(x)
      BY <2>3, LeftAlone DEF Locked
    <3> QED
      BY <2>3, <3>1, VoidStep DEF Issued, OnlyVoids
  <2> QED
    BY <2>1, <2>2, <2>3, WrongStep, DeliverStep, TickStep, OtpStep
<1> QED
  BY <1>1, <1>2, Invariance, PTL DEF Spec, CodesAreOneTime, Codes!Spec
=============================================================================
