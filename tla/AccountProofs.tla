--------------------------- MODULE AccountProofs ---------------------------
(***************************************************************************)
(* The lockout, password history, devices, codes and sessions of an        *)
(* account, for any number of requests, any limits and every overlap and   *)
(* failure of the requests.                                                *)
(***************************************************************************)
EXTENDS Account, FiniteSetTheorems, WellFoundedInduction, NaturalsInduction, TLAPS

-----------------------------------------------------------------------------
(* Every step of an account is a step of its lockout keys or leaves them alone *)

\* A login's steps touch the keys only through is_locked, the recorded failure
\* and clear_lockout (serializers.py:33-88).
LEMMA LoginOnLock ==
    ASSUME NEW r \in Requests, LoginStep(r)
    PROVE  [LockNext]_lockVars
<1>1. CASE LoginAdmitted(r)
  BY <1>1 DEF LoginAdmitted, LockNext
<1>2. CASE LoginWrong(r)
  BY <1>2 DEF LoginWrong, LockNext
<1>3. CASE LoginWithoutTenant(r) \/ LoginFromBlockedIp(r) \/ LoginExpired(r) \/ LoginNotEnrolled(r)
  <2>1. Leave(r)
    BY <1>3 DEF LoginWithoutTenant, LoginFromBlockedIp, LoginExpired, LoginNotEnrolled, Denied
  <2>. QED
    BY <2>1 DEF LockNext
<1>4. CASE LoginAnswer(r)
  BY <1>4 DEF LoginAnswer, LockNext
<1>5. CASE LoginThrottled(r) \/ LoginLocked(r) \/ LoginPassed(r) \/ LoginChallenged(r) \/ LoginEvicted(r)
  BY <1>5 DEF LoginThrottled, LoginLocked, LoginPassed, LoginChallenged, LoginEvicted, PcOnly
<1>6. CASE LoginRight(r) \/ LoginIssue(r) \/ LoginCount(r) \/ LoginSlice(r) \/ LoginBlacklist(r)
  BY <1>6 DEF LoginRight, LoginIssue, LoginCount, LoginSlice, LoginBlacklist, TokensOnly
<1>. QED
  BY <1>1, <1>2, <1>3, <1>4, <1>5, <1>6 DEF LoginStep

\* Second factors, sessions and MFA devices have nothing to do with the keys.
LEMMA OthersOffLock ==
    ASSUME NEW r \in Requests, VerifyRequest(r) \/ SessionStep(r) \/ MfaRequest(r)
    PROVE  UNCHANGED lockVars
<1>1. CASE VerifyRequest(r)
  BY <1>1 DEF VerifyRequest, VerifyBegin, VerifyProof, VerifyRefused, VerifyIssue, MfaOnly, TokensOnly
<1>2. CASE SessionStep(r)
  BY <1>2 DEF SessionStep, RefreshCheck, LogoutCheck, RefreshBlacklist, RefreshIssue, LogoutBlacklist,
              LogoutAllList, LogoutAllEach, LogoutAllConflict, LogoutAllDone, TokensOnly, PcOnly
<1>3. CASE MfaRequest(r)
  BY <1>3 DEF MfaRequest, EnrolSetup, EnrolConfirm, DisableBegin, DisableWork, CodesBegin, CodesWork,
              MfaRefused, MfaAnswer, MfaOnly, PcOnly
<1>. QED
  BY <1>1, <1>2, <1>3

\* A password change clears the keys at its end.
LEMMA PasswordOnLock ==
    ASSUME NEW r \in Requests, PasswordStep(r)
    PROVE  [LockNext]_lockVars
<1>1. CASE PasswordUnlock(r)
  BY <1>1 DEF PasswordUnlock, LockNext
<1>2. CASE \/ PasswordLoad(r) \/ (\E p \in Passwords : PasswordAccepted(r, p)) \/ PasswordRefused(r)
           \/ PasswordRemember(r) \/ PasswordSet(r) \/ PasswordExpiry(r)
  BY <1>2 DEF PasswordLoad, PasswordAccepted, PasswordRefused, PasswordRemember, PasswordSet,
              PasswordExpiry, PassOnly, PcOnly
<1>. QED
  BY <1>1, <1>2 DEF PasswordStep

\* A step of any endpoint is one of the lockout keys, or leaves them alone.
LEMMA StepOnLock ==
    ASSUME [Next]_vars
    PROVE  [LockNext]_lockVars
<1>1. ASSUME NEW r \in Requests, LoginStep(r) PROVE [LockNext]_lockVars
  BY <1>1, LoginOnLock
<1>2. ASSUME NEW r \in Requests, VerifyRequest(r) \/ SessionStep(r) \/ MfaRequest(r)
      PROVE  [LockNext]_lockVars
  BY <1>2, OthersOffLock
<1>3. ASSUME NEW r \in Requests, PasswordStep(r) PROVE [LockNext]_lockVars
  BY <1>3, PasswordOnLock
<1>4. ASSUME NEW r \in Requests, Unlock(r) PROVE [LockNext]_lockVars
  BY <1>4 DEF Unlock, LockNext
<1>5. ASSUME NEW r \in Requests, LockWork(r) PROVE [LockNext]_lockVars
  BY <1>5 DEF LockWork, LockNext
<1>6. ASSUME NEW r \in Requests, Breaks(r) PROVE [LockNext]_lockVars
  BY <1>6 DEF Breaks, LockNext
<1>7. CASE KeysExpire
  BY <1>7 DEF KeysExpire, LockNext
<1>8. CASE UNCHANGED vars
  BY <1>8 DEF vars
<1>. QED
  BY <1>1, <1>2, <1>3, <1>4, <1>5, <1>6, <1>7, <1>8 DEF Next

\* Whatever the requests of an account do (iam_auth/views.py, serializers.py), its
\* two cache keys behave as lockout.py alone says.
THEOREM AccountImplementsLockout == Spec => LockSpec
<1>1. Init => LockInit
  BY DEF Init
<1>. QED
  BY <1>1, StepOnLock, PTL DEF Spec, LockSpec

-----------------------------------------------------------------------------
(* The lock *)

Counted == MaxAttempts > 0 /\ attempts >= MaxAttempts

\* What keeps the lock of a full counter: it is to be set, it was undone on record,
\* the counter outlives it, or the flag is set and outlives the counter.  The flag
\* alone would not do: it expires while a counter younger than it goes on.
Held == undone \/ (Expiring /\ forever) \/ (locked /\ older) \/ \E r \in Requests : lockPc[r] = "locking"

LockInv == LockTypeOK /\ (Counted => Held)

\* A step of one request out of lockPc "locking" is SetLock or LockLost.
LEMMA OthersStayLocking ==
    ASSUME NEW r \in Requests, NEW from, NEW to, LockGoto(r, from, to), from # "locking" \/ to = "locking",
           LockTypeOK, \E q \in Requests : lockPc[q] = "locking"
    PROVE  \E q \in Requests : lockPc'[q] = "locking"
<1>1. PICK q \in Requests : lockPc[q] = "locking"
  OBVIOUS
<1>2. lockPc'[q] = "locking"
  BY <1>1 DEF LockGoto, LockTypeOK
<1>. QED
  BY <1>2

\* lockout.py:79-93: the request whose count fills the counter goes on to set the flag.
LEMMA RecordKeepsLock ==
    ASSUME LockInv, NEW r \in Requests, Record(r)
    PROVE  LockInv'
<1>. USE LockoutAssumption DEF LockInv, LockTypeOK, Counted, Held
<1>1. CASE CounterAdd(r)
  <2>1. CASE Fresh(r, "failing", ~Expiring)
    BY <2>1 DEF Fresh, LockGoto, AfterCount, LockSteps
  <2>2. CASE LockGoto(r, "failing", "exists") /\ UNCHANGED <<attempts, locked, older, forever, undone>>
    <3>1. LockTypeOK'
      BY <2>2 DEF LockGoto, LockSteps
    <3>. QED
      BY <2>2, <3>1, OthersStayLocking
  <2>. QED
    BY <1>1, <2>1, <2>2 DEF CounterAdd
<1>2. CASE CounterExists(r)
  <2>1. LockTypeOK'
    BY <1>2 DEF CounterExists, LockGoto, LockSteps
  <2>. QED
    BY <1>2, <2>1, OthersStayLocking DEF CounterExists
<1>3. CASE CounterIncr(r)
  <2>1. CASE Fresh(r, "incr", TRUE)
    BY <2>1 DEF Fresh, LockGoto, AfterCount, LockSteps
  <2>2. CASE /\ LockGoto(r, "incr", AfterCount(attempts + 1)) /\ attempts' = attempts + 1
             /\ UNCHANGED <<locked, older, forever, undone>>
    <3>1. LockTypeOK'
      BY <2>2 DEF LockGoto, LockSteps, AfterCount
    <3>2. Counted' => lockPc'[r] = "locking"
      BY <2>2 DEF LockGoto, AfterCount
    <3>. QED
      BY <3>1, <3>2
  <2>. QED
    BY <1>3, <2>1, <2>2 DEF CounterIncr
<1>4. CASE CounterReset(r)
  BY <1>4 DEF CounterReset, Fresh, LockGoto, AfterCount, LockSteps
<1>5. CASE SetLock(r)
  BY <1>5 DEF SetLock, LockGoto, LockSteps
<1>. QED
  BY <1>1, <1>2, <1>3, <1>4, <1>5 DEF Record

\* lockout.py:79-105: counting, locking and clearing keep the count, the flag and the
\* requests between them in step.
LEMMA LockInvariant == LockSpec => []LockInv
<1>. USE LockoutAssumption DEF LockInv, LockTypeOK, Counted, Held
<1>1. LockInit => LockInv
  <2>. SUFFICES ASSUME LockInit PROVE LockInv
    OBVIOUS
  <2>1. lockPc \in [Requests -> LockSteps] /\ attempts = 0
    BY DEF LockInit, LockSteps
  <2>2. {locked, older, forever, undone} \subseteq BOOLEAN
    BY DEF LockInit
  <2>. QED
    BY <2>1, <2>2
<1>2. LockInv /\ [LockNext]_lockVars => LockInv'
  <2>. SUFFICES ASSUME LockInv, [LockNext]_lockVars PROVE LockInv'
    OBVIOUS
  <2>1. ASSUME NEW r \in Requests, NEW from, NEW to, LockGoto(r, from, to), from # "locking", to \in LockSteps,
               UNCHANGED <<attempts, locked, older, forever, undone>>
        PROVE  LockInv'
    <3>1. LockTypeOK'
      BY <2>1 DEF LockGoto
    <3>. QED
      BY <2>1, <3>1, OthersStayLocking
  <2>2. ASSUME NEW r \in Requests, Admit(r) \/ Leave(r) \/ Fail(r) \/ Clear(r, "admitted") \/ Clear(r, "idle")
        PROVE  LockInv'
    <3>1. \E from \in {"idle", "admitted"}, to \in LockSteps : LockGoto(r, from, to)
      BY <2>2 DEF Admit, Leave, Fail, Clear, LockSteps
    <3>2. UNCHANGED <<attempts, locked, older, forever, undone>>
      BY <2>2 DEF Admit, Leave, Fail, Clear
    <3>. QED
      BY <2>1, <3>1, <3>2
  <2>3. ASSUME NEW r \in Requests, LockStep(r) PROVE LockInv'
    <3>1. CASE ClearAttempts(r)
      <4>1. attempts' = 0 /\ lockPc' \in [Requests -> LockSteps]
        BY <3>1 DEF ClearAttempts, LockGoto, LockSteps
      <4>2. {locked, older, forever, undone}' \subseteq BOOLEAN
        BY <3>1 DEF ClearAttempts
      <4>. QED
        BY <4>1, <4>2
    <3>2. CASE ClearLocked(r)
      <4>1. UNCHANGED attempts /\ lockPc' \in [Requests -> LockSteps]
        BY <3>2 DEF ClearLocked, LockGoto, LockSteps
      <4>2. undone' = (attempts >= MaxAttempts) /\ locked' = FALSE /\ UNCHANGED <<older, forever>>
        BY <3>2 DEF ClearLocked
      <4>3. CASE attempts >= MaxAttempts
        <5>1. undone' = TRUE
          BY <4>2, <4>3
        <5>. QED
          BY <4>1, <4>2, <5>1
      <4>4. CASE ~(attempts >= MaxAttempts)
        <5>1. (attempts >= MaxAttempts) = FALSE
          BY <4>4
        <5>2. undone' = FALSE
          BY <4>2, <5>1, Zenon
        <5>. QED
          BY <4>1, <4>2, <4>4, <5>2
      <4>. QED
        BY <4>3, <4>4
    <3>. QED
      BY <2>3, <3>1, <3>2, RecordKeepsLock DEF LockStep
  <2>4. ASSUME NEW r \in Requests, LockLost(r) PROVE LockInv'
    <3>1. LockTypeOK'
      BY <2>4 DEF LockLost, LockSteps
    <3>2. ASSUME Counted', NEW q \in Requests, lockPc[q] = "locking"
          PROVE  Held'
      <4>1. CASE q = r
        BY <2>4, <3>2, <4>1 DEF LockLost
      <4>2. CASE q # r
        BY <2>4, <3>2, <4>2 DEF LockLost
      <4>. QED
        BY <4>1, <4>2
    <3>. QED
      BY <2>4, <3>1, <3>2 DEF LockLost
  <2>5. CASE Expiry
    <3>1. CASE CounterExpires
      <4>1. attempts' = 0 /\ UNCHANGED lockPc
        BY <3>1 DEF CounterExpires
      <4>2. {locked, older, forever, undone}' \subseteq BOOLEAN
        BY <3>1 DEF CounterExpires
      <4>. QED
        BY <4>1, <4>2
    <3>2. CASE LockExpires
      <4>1. {locked, older, forever, undone}' \subseteq BOOLEAN
        BY <3>2 DEF LockExpires
      <4>2. attempts > 0 => ~older \/ (Expiring /\ forever)
        BY <3>2 DEF LockExpires
      <4>3. UNCHANGED <<attempts, older, forever, undone, lockPc>>
        BY <3>2 DEF LockExpires
      <4>. QED
        BY <4>1, <4>2, <4>3
    <3>. QED
      BY <2>5, <3>1, <3>2 DEF Expiry
  <2>6. CASE UNCHANGED lockVars
    BY <2>6 DEF lockVars
  <2>. QED
    BY <2>2, <2>3, <2>4, <2>5, <2>6 DEF LockNext
<1>. QED
  BY <1>1, <1>2, PTL DEF LockSpec

\* A full counter of failed logins means a locked account, whatever overlaps and
\* expires, but for what LockedOnceCounted names (lockout.py:79-105).
THEOREM LockedOnceCountedCorrect == Spec => []LockedOnceCounted
<1>1. LockInv => LockedOnceCounted
  BY DEF LockInv, Counted, Held, LockedOnceCounted
<1>. QED
  BY <1>1, AccountImplementsLockout, LockInvariant, PTL

-----------------------------------------------------------------------------
(* The password history *)

Remembered == {history[i] : i \in DOMAIN history}

PassTypes ==
    /\ DOMAIN pc = Requests
    /\ history \in Seq(Passwords) /\ password \in Passwords
    /\ copy \in [Requests -> Passwords] /\ want \in [Requests -> Passwords]

\* ReplacedIsRemembered is not inductive: a change that is about to set the password
\* must have put the one it loaded into the history.
PassInv ==
    /\ PassTypes
    /\ \A r \in Requests : pc[r] = "setPassword" => copy[r] \in Remembered
    /\ ReplacedIsRemembered

\* No other endpoint touches passwords, or takes a request to where it sets one.
OffPass == UNCHANGED passVars /\ DOMAIN pc' = DOMAIN pc
           /\ \A q \in Requests : pc'[q] = "setPassword" => pc[q] = "setPassword"

\* Logins (serializers.py:33-88, 172-240) read no password but to compare it.
LEMMA LoginOffPass ==
    ASSUME DOMAIN pc = Requests, NEW r \in Requests, LoginStep(r)
    PROVE  OffPass
<1>. USE DEF OffPass, Move, Begin
<1>1. CASE LoginAdmitted(r) \/ LoginWrong(r)
  BY <1>1 DEF LoginAdmitted, LoginWrong, LockOnly
<1>2. CASE LoginWithoutTenant(r) \/ LoginFromBlockedIp(r) \/ LoginExpired(r) \/ LoginNotEnrolled(r)
  BY <1>2 DEF LoginWithoutTenant, LoginFromBlockedIp, LoginExpired, LoginNotEnrolled, Denied, LockOnly
<1>3. CASE LoginAnswer(r)
  BY <1>3 DEF LoginAnswer
<1>4. CASE LoginThrottled(r) \/ LoginLocked(r) \/ LoginPassed(r) \/ LoginChallenged(r) \/ LoginEvicted(r)
  BY <1>4 DEF LoginThrottled, LoginLocked, LoginPassed, LoginChallenged, LoginEvicted, PcOnly
<1>5. CASE LoginRight(r) \/ LoginIssue(r) \/ LoginCount(r) \/ LoginSlice(r) \/ LoginBlacklist(r)
  BY <1>5 DEF LoginRight, LoginIssue, LoginCount, LoginSlice, LoginBlacklist, TokensOnly
<1>. QED
  BY <1>1, <1>2, <1>3, <1>4, <1>5 DEF LoginStep

\* Nor do second factors, sessions and MFA devices change one.
LEMMA OthersOffPass ==
    ASSUME DOMAIN pc = Requests, NEW r \in Requests, VerifyRequest(r) \/ SessionStep(r) \/ MfaRequest(r)
    PROVE  OffPass
<1>. USE DEF OffPass, Move, Begin
<1>1. CASE VerifyRequest(r)
  BY <1>1 DEF VerifyRequest, VerifyBegin, VerifyProof, VerifyRefused, VerifyIssue, MfaOnly, TokensOnly
<1>2. CASE SessionStep(r)
  BY <1>2 DEF SessionStep, RefreshCheck, LogoutCheck, RefreshBlacklist, RefreshIssue, LogoutBlacklist,
              LogoutAllList, LogoutAllEach, LogoutAllConflict, LogoutAllDone, TokensOnly, PcOnly
<1>3. CASE MfaRequest(r)
  BY <1>3 DEF MfaRequest, EnrolSetup, EnrolConfirm, DisableBegin, DisableWork, CodesBegin, CodesWork,
              MfaRefused, MfaAnswer, MfaOnly, PcOnly
<1>. QED
  BY <1>1, <1>2, <1>3

\* Nor do unlocking (views.py), the cache and a request that breaks off.
LEMMA RestOffPass ==
    ASSUME DOMAIN pc = Requests, NEW r \in Requests, Unlock(r) \/ LockWork(r) \/ Breaks(r)
    PROVE  OffPass
<1>. USE DEF OffPass, Move, Begin
<1>1. CASE Unlock(r)
  BY <1>1 DEF Unlock, LockOnly
<1>2. CASE LockWork(r)
  BY <1>2 DEF LockWork, LockOnly
<1>3. CASE Breaks(r)
  BY <1>3 DEF Breaks
<1>. QED
  BY <1>1, <1>2, <1>3

\* What changes no password keeps the invariant.
LEMMA OffPassKeeps ==
    ASSUME PassInv, OffPass
    PROVE  PassInv'
  BY DEF PassInv, OffPass, PassTypes, passVars, Remembered, ReplacedIsRemembered

\* serializers.py:342-357: the history row, then the password, from the copy loaded
\* when the request was authenticated.
LEMMA PasswordKeeps ==
    ASSUME PassInv, NEW r \in Requests, PasswordStep(r)
    PROVE  PassInv'
<1>. USE DEF PassInv, PassTypes, Remembered, ReplacedIsRemembered, Move, Begin, passVars
<1>1. CASE PasswordLoad(r)
  BY <1>1 DEF PasswordLoad, PassOnly
<1>2. CASE \E p \in Passwords : PasswordAccepted(r, p)
  BY <1>2 DEF PasswordAccepted, PassOnly
<1>3. CASE PasswordRefused(r) \/ PasswordUnlock(r)
  BY <1>3 DEF PasswordRefused, PasswordUnlock, PcOnly, LockOnly
<1>4. CASE PasswordRemember(r)
  <2>1. history' = <<copy[r]>> \o history /\ history' \in Seq(Passwords)
    BY <1>4 DEF PasswordRemember
  <2>2. Remembered \subseteq Remembered' /\ copy[r] \in Remembered'
    <3>1. DOMAIN history = 1..Len(history) /\ DOMAIN history' = 1..(Len(history) + 1)
      BY <2>1
    <3>2. history'[1] = copy[r] /\ \A i \in DOMAIN history : history'[i + 1] = history[i]
      BY <2>1, <3>1
    <3>3. 1 \in DOMAIN history' /\ \A i \in DOMAIN history : i + 1 \in DOMAIN history'
      BY <3>1
    <3>. QED
      BY <3>2, <3>3
  <2>. QED
    BY <1>4, <2>1, <2>2 DEF PasswordRemember, PassOnly
<1>5. CASE PasswordSet(r)
  <2>1. CASE password = copy[r]
    BY <1>5, <2>1 DEF PasswordSet, PassOnly
  <2>2. CASE password # copy[r]
    BY <1>5, <2>2 DEF PasswordSet, PassOnly
  <2>. QED
    BY <2>1, <2>2
<1>6. CASE PasswordExpiry(r)
  BY <1>6 DEF PasswordExpiry, PassOnly
<1>. QED
  BY <1>1, <1>2, <1>3, <1>4, <1>5, <1>6 DEF PasswordStep

\* A password change (serializers.py:342-357) has remembered what it replaces.
LEMMA PassInvariant == Spec => []PassInv
<1>1. Init => PassInv
  BY DEF Init, PassInv, PassTypes, ReplacedIsRemembered
<1>2. PassInv /\ [Next]_vars => PassInv'
  <2>. SUFFICES ASSUME PassInv, [Next]_vars PROVE PassInv'
    OBVIOUS
  <2>. DOMAIN pc = Requests
    BY DEF PassInv, PassTypes
  <2>1. ASSUME NEW r \in Requests, LoginStep(r) PROVE PassInv'
    BY <2>1, LoginOffPass, OffPassKeeps
  <2>2. ASSUME NEW r \in Requests, VerifyRequest(r) \/ SessionStep(r) \/ MfaRequest(r) PROVE PassInv'
    BY <2>2, OthersOffPass, OffPassKeeps
  <2>3. ASSUME NEW r \in Requests, Unlock(r) \/ LockWork(r) \/ Breaks(r) PROVE PassInv'
    BY <2>3, RestOffPass, OffPassKeeps
  <2>4. ASSUME NEW r \in Requests, PasswordStep(r) PROVE PassInv'
    BY <2>4, PasswordKeeps
  <2>5. CASE KeysExpire \/ UNCHANGED vars
    <3>1. OffPass
      BY <2>5 DEF KeysExpire, LockOnly, OffPass, vars, passVars
    <3>. QED
      BY <3>1, OffPassKeeps
  <2>. QED
    BY <2>1, <2>2, <2>3, <2>4, <2>5 DEF Next
<1>. QED
  BY <1>1, <1>2, PTL DEF Spec

\* A password that was replaced can be refused as a recent one, unless its change
\* had loaded an earlier one (serializers.py:350-352).
THEOREM ReplacedIsRememberedCorrect == Spec => []ReplacedIsRemembered
<1>1. PassInv => ReplacedIsRemembered
  BY DEF PassInv
<1>. QED
  BY <1>1, PassInvariant, PTL


-----------------------------------------------------------------------------
(* Devices and backup codes *)

\* A non-empty set of naturals has a least element, ...
LEMMA Least ==
    ASSUME NEW S \in SUBSET Nat, S # {}
    PROVE  \E m \in S : \A n \in S : m <= n
<1>. DEFINE R == OpToRel(<, Nat)
<1>1. IsWellFoundedOn(R, Nat)
  BY NatLessThanWellFounded
<1>2. \A x, y \in Nat : x < y => <<x, y>> \in R
  BY DEF OpToRel
<1>. HIDE DEF R
<1>3. PICK m \in S : \A n \in S : ~ (<<n, m>> \in R)
  BY <1>1, WFMin, Zenon
<1>4. \A n \in S : ~ (n < m)
  BY <1>2, <1>3, Zenon
<1>5. m \in Nat /\ \A n \in S : n \in Nat
  OBVIOUS
<1>6. \A n \in S : m <= n
  BY <1>4, <1>5, SMT
<1>. QED
  BY <1>6

\* ... and one with a bound has a greatest.
LEMMA Greatest ==
    ASSUME NEW N \in Nat, NEW S \in SUBSET (1..N), S # {}
    PROVE  \E m \in S : \A n \in S : n <= m
<1>. DEFINE D == {N - n : n \in S}
<1>1. D \in SUBSET Nat /\ D # {}
  <2>1. \A n \in S : n \in Nat /\ N - n \in Nat
    OBVIOUS
  <2>2. D # {}
    OBVIOUS
  <2>. QED
    BY <2>1, <2>2
<1>. HIDE DEF D
<1>2. PICK d \in D : \A e \in D : d <= e
  BY <1>1, Least
<1>3. PICK m \in S : d = N - m
  BY <1>2 DEF D
<1>4. \A n \in S : d <= N - n
  BY <1>2 DEF D
<1>. QED
  BY <1>3, <1>4

\* A function on 1..n is a sequence.
LEMMA SeqOfFunction ==
    ASSUME NEW S, NEW n \in Nat, NEW f \in [1..n -> S]
    PROVE  f \in Seq(S) /\ Len(f) = n /\ DOMAIN f = 1..n
OBVIOUS

\* A sequence of one element, such as the device of an enrolled account, is one.
LEMMA SeqOfOne ==
    ASSUME NEW S, NEW x \in S
    PROVE  <<x>> \in Seq(S) /\ DOMAIN <<x>> = 1..1 /\ 1 \in DOMAIN <<x>>
OBVIOUS

\* filter(is_active=True).first() finds a device if there is an active one.
LEMMA NewestIsActive ==
    ASSUME active \in Seq(BOOLEAN)
    PROVE  /\ MFA!Newest = None <=> MFA!Active = {}
           /\ MFA!Newest # None => MFA!Newest \in MFA!Active /\ MFA!Newest \in MFA!Devices
<1>1. MFA!Active \in SUBSET (1..Len(active)) /\ Len(active) \in Nat /\ MFA!Devices = 1..Len(active)
  BY DEF MFA!Active, MFA!Devices
<1>2. CASE MFA!Active = {}
  BY <1>2 DEF MFA!Newest, MFA!NoDevice, None
<1>3. CASE MFA!Active # {}
  <2>1. \E d \in MFA!Active : \A e \in MFA!Active : e <= d
    BY <1>1, <1>3, Greatest
  <2>2. MFA!Newest \in MFA!Active
    BY <1>3, <2>1 DEF MFA!Newest
  <2>. QED
    BY <1>1, <1>3, <2>2 DEF None
<1>. QED
  BY <1>2, <1>3

\* The steps of iam_mfa, and a request that breaks off between two of them.
MfaLost(r) ==
    /\ mfaPc' = [mfaPc EXCEPT ![r] = "idle"]
    /\ UNCHANGED <<active, rows, owner, shown, dev, code, uses, raced, late, clear>>

MfaNext ==
    \E r \in Requests :
        \/ MFA!Setup(r) \/ MFA!Confirm(r)
        \/ MFA!DisableCheck(r) \/ MFA!DisableStep(r)
        \/ MFA!CodesFind(r) \/ MFA!CodesStep(r)
        \/ MFA!VerifyFind(r) \/ MFA!VerifyStep(r) \/ MFA!VerifyWrong(r) \/ MFA!VerifyUseFails(r)
        \/ MfaLost(r)

\* No other endpoint touches devices or codes.
LEMMA StepOnMfa ==
    ASSUME [Next]_vars
    PROVE  [MfaNext]_mfaVars
<1>1. ASSUME NEW r \in Requests, LoginStep(r) PROVE UNCHANGED mfaVars
  BY <1>1 DEF LoginStep, LoginThrottled, LoginLocked, LoginAdmitted, LoginWrong, LoginRight, LoginWithoutTenant,
              LoginFromBlockedIp, LoginExpired, LoginNotEnrolled, Denied, LoginPassed, LoginChallenged, LoginIssue,
              LoginCount, LoginSlice, LoginBlacklist, LoginEvicted, LoginAnswer, LockOnly, PcOnly, TokensOnly, KeepMfa
<1>2. ASSUME NEW r \in Requests, VerifyRequest(r) PROVE [MfaNext]_mfaVars
  BY <1>2 DEF VerifyRequest, VerifyBegin, VerifyProof, VerifyRefused, VerifyIssue, TokensOnly, KeepMfa, MfaNext
<1>3. ASSUME NEW r \in Requests, SessionStep(r) PROVE UNCHANGED mfaVars
  BY <1>3 DEF SessionStep, RefreshCheck, LogoutCheck, RefreshBlacklist, RefreshIssue, LogoutBlacklist,
              LogoutAllList, LogoutAllEach, LogoutAllConflict, LogoutAllDone, TokensOnly, PcOnly, KeepMfa
<1>4. ASSUME NEW r \in Requests, PasswordStep(r) PROVE UNCHANGED mfaVars
  BY <1>4 DEF PasswordStep, PasswordLoad, PasswordAccepted, PasswordRefused, PasswordRemember, PasswordSet,
              PasswordExpiry, PasswordUnlock, PassOnly, PcOnly, LockOnly, KeepMfa
<1>5. ASSUME NEW r \in Requests, MfaRequest(r) PROVE [MfaNext]_mfaVars
  BY <1>5 DEF MfaRequest, EnrolSetup, EnrolConfirm, DisableBegin, DisableWork, CodesBegin, CodesWork,
              MfaRefused, MfaAnswer, PcOnly, KeepMfa, MfaNext
<1>6. ASSUME NEW r \in Requests, Unlock(r) \/ LockWork(r) PROVE UNCHANGED mfaVars
  BY <1>6 DEF Unlock, LockWork, LockOnly, KeepMfa
<1>7. ASSUME NEW r \in Requests, Breaks(r) PROVE MfaNext
  BY <1>7 DEF Breaks, MfaNext, MfaLost
<1>8. CASE KeysExpire \/ UNCHANGED vars
  BY <1>8 DEF KeysExpire, LockOnly, KeepMfa, vars
<1>. QED
  BY <1>1, <1>2, <1>3, <1>4, <1>5, <1>6, <1>7, <1>8 DEF Next

\* CodeAdmitsOnce is not inductive: while one verification is between its match and its
\* save (serializers.py:290-308), the code has admitted nobody and no other has matched it,
\* or it is known to be raced for.
CodesInv ==
    /\ \A c \in MFA!Codes : rows[c] \in {"none", "unused"} => uses[c] = 0
    /\ \A r \in Requests : mfaPc[r] = "use" =>
         /\ code[r] \in MFA!Codes /\ rows[code[r]] # "none"
         /\ code[r] \in raced \/ uses[code[r]] = 0
    /\ \A q, r \in Requests :
         mfaPc[q] = "use" /\ mfaPc[r] = "use" /\ code[q] = code[r] => q = r \/ code[r] \in raced
    /\ MFA!CodeAdmitsOnce

\* iam_mfa creates devices and code sets, and marks and deletes codes; every step
\* keeps the types.
LEMMA MfaTypesKeep ==
    ASSUME MFA!MfaTypeOK, CodesInv, MfaNext
    PROVE  MFA!MfaTypeOK'
<1>. USE DEF MFA!MfaTypeOK, MFA!MfaGoto, MFA!Steps, MFA!Devices, MFA!Find
<1>. PICK r \in Requests :
        \/ MFA!Setup(r) \/ MFA!Confirm(r)
        \/ MFA!DisableCheck(r) \/ MFA!DisableStep(r)
        \/ MFA!CodesFind(r) \/ MFA!CodesStep(r)
        \/ MFA!VerifyFind(r) \/ MFA!VerifyStep(r) \/ MFA!VerifyWrong(r) \/ MFA!VerifyUseFails(r)
        \/ MfaLost(r)
  BY DEF MfaNext
<1>1. CASE MFA!Setup(r) \/ MFA!DisableCheck(r) \/ MFA!VerifyWrong(r) \/ MFA!VerifyUseFails(r) \/ MfaLost(r)
  BY <1>1 DEF MFA!Setup, MFA!DisableCheck, MFA!VerifyWrong, MFA!VerifyUseFails, MfaLost
<1>2. CASE MFA!Confirm(r)
  <2>1. /\ active' \in Seq(BOOLEAN) /\ DOMAIN active = 1..Len(active) /\ DOMAIN active' = 1..(Len(active) + 1)
        /\ Len(active) \in Nat
    BY <1>2 DEF MFA!Confirm
  <2>2. DOMAIN active \subseteq DOMAIN active' /\ Len(active) + 1 \in DOMAIN active'
    BY <2>1
  <2>. QED
    BY <1>2, <2>1, <2>2 DEF MFA!Confirm
<1>3. CASE MFA!DisableFind(r) \/ MFA!CodesFind(r) \/ MFA!VerifyFind(r)
  BY <1>3, NewestIsActive DEF MFA!DisableFind, MFA!CodesFind, MFA!VerifyFind, None, MFA!NoDevice
<1>4. CASE MFA!DisableOff(r)
  <2>1. active \in [1..Len(active) -> BOOLEAN] /\ Len(active) \in Nat
    OBVIOUS
  <2>2. active' \in [1..Len(active) -> BOOLEAN]
    BY <1>4, <2>1 DEF MFA!DisableOff
  <2>3. active' \in Seq(BOOLEAN) /\ DOMAIN active' = DOMAIN active
    BY <2>1, <2>2, SeqOfFunction
  <2>. QED
    BY <1>4, <2>3 DEF MFA!DisableOff
<1>5. CASE MFA!DisableCodes(r)
  BY <1>5 DEF MFA!DisableCodes, MFA!Deleted
<1>6. CASE MFA!CodesDelete(r)
  BY <1>6 DEF MFA!CodesDelete, MFA!Deleted
<1>7. CASE MFA!CodesCreate(r)
  BY <1>7 DEF MFA!CodesCreate
<1>8. CASE MFA!CodesAnswer(r)
  BY <1>8 DEF MFA!CodesAnswer, MFA!Sets
<1>9. CASE MFA!VerifyTotp(r)
  BY <1>9 DEF MFA!VerifyTotp
<1>10. CASE \E c \in MFA!Codes : MFA!VerifyMatch(r, c)
  BY <1>10 DEF MFA!VerifyMatch
<1>11. CASE MFA!VerifyUse(r)
  <2>1. code[r] \in MFA!Codes
    BY <1>11 DEF MFA!VerifyUse, CodesInv
  <2>2. rows' \in [MFA!Codes -> {"none", "unused", "used", "deleted"}]
    BY <1>11 DEF MFA!VerifyUse
  <2>3. uses' \in [MFA!Codes -> Nat]
    BY <1>11, <2>1 DEF MFA!VerifyUse
  <2>. QED
    BY <1>11, <2>2, <2>3 DEF MFA!VerifyUse
<1>. QED
  BY <1>1, <1>2, <1>3, <1>4, <1>5, <1>6, <1>7, <1>8, <1>9, <1>10, <1>11
  DEF MFA!DisableStep, MFA!CodesStep, MFA!VerifyStep

\* Only a match and the save after it say anything new about a code.
LEMMA CodesKeep ==
    ASSUME MFA!MfaTypeOK, CodesInv, MfaNext
    PROVE  CodesInv'
<1>. USE DEF MFA!MfaTypeOK, CodesInv, MFA!CodeAdmitsOnce, MFA!MfaGoto
<1>. DEFINE Same == UNCHANGED <<rows, uses, raced>>
                    /\ \A q \in Requests : mfaPc'[q] = "use" => mfaPc[q] = "use" /\ code'[q] = code[q]
            Off  == /\ UNCHANGED <<uses, raced, code>>
                    /\ \A q \in Requests : mfaPc'[q] = "use" => mfaPc[q] = "use"
                    /\ \A c \in MFA!Codes : rows'[c] = rows[c] \/ (rows[c] # "none" /\ rows'[c] = "deleted")
<1>a. Same => CodesInv'
  OBVIOUS
<1>b. Off => CodesInv'
  <2>. SUFFICES ASSUME Off PROVE CodesInv'
    OBVIOUS
  <2>1. ASSUME NEW c \in MFA!Codes
        PROVE  /\ rows'[c] \in {"none", "unused"} => rows[c] \in {"none", "unused"}
               /\ rows'[c] = "none" => rows[c] = "none"
    <3>1. CASE rows'[c] = rows[c]
      BY <3>1
    <3>2. CASE rows[c] # "none" /\ rows'[c] = "deleted"
      BY <3>2
    <3>. QED
      BY <3>1, <3>2
  <2>2. UNCHANGED <<uses, raced, code>> /\ \A q \in Requests : mfaPc'[q] = "use" => mfaPc[q] = "use"
    OBVIOUS
  <2>. HIDE DEF Off
  <2>. QED
    BY <2>1, <2>2
<1>. PICK r \in Requests :
        \/ MFA!Setup(r) \/ MFA!Confirm(r)
        \/ MFA!DisableCheck(r) \/ MFA!DisableStep(r)
        \/ MFA!CodesFind(r) \/ MFA!CodesStep(r)
        \/ MFA!VerifyFind(r) \/ MFA!VerifyStep(r) \/ MFA!VerifyWrong(r) \/ MFA!VerifyUseFails(r)
        \/ MfaLost(r)
  BY DEF MfaNext
<1>1. CASE \/ MFA!Setup(r) \/ MFA!Confirm(r) \/ MFA!DisableCheck(r) \/ MFA!VerifyWrong(r)
           \/ MFA!VerifyUseFails(r) \/ MfaLost(r)
  <2>1. Same
    BY <1>1 DEF MFA!Setup, MFA!Confirm, MFA!DisableCheck, MFA!VerifyWrong, MFA!VerifyUseFails, MfaLost
  <2>. QED
    BY <2>1, <1>a
<1>2. CASE \/ MFA!DisableFind(r) \/ MFA!DisableOff(r) \/ MFA!CodesFind(r) \/ MFA!CodesAnswer(r)
           \/ MFA!VerifyFind(r) \/ MFA!VerifyTotp(r)
  <2>1. Same
    BY <1>2 DEF MFA!DisableFind, MFA!DisableOff, MFA!CodesFind, MFA!CodesAnswer, MFA!VerifyFind, MFA!VerifyTotp
  <2>. QED
    BY <2>1, <1>a
<1>3. CASE MFA!DisableCodes(r) \/ MFA!CodesDelete(r)
  <2>1. Off
    BY <1>3 DEF MFA!DisableCodes, MFA!CodesDelete, MFA!Deleted
  <2>. QED
    BY <2>1, <1>b
<1>4. CASE MFA!CodesCreate(r)
  <2>1. PICK n \in 1..CodesPerSet : rows[<<r, n>>] = "none" /\ rows' = [rows EXCEPT ![<<r, n>>] = "unused"]
    BY <1>4 DEF MFA!CodesCreate
  <2>2. <<r, n>> \in MFA!Codes
    BY DEF MFA!Codes, MFA!Sets
  <2>3. UNCHANGED <<mfaPc, code, uses, raced>>
    BY <1>4 DEF MFA!CodesCreate
  <2>. QED
    BY <2>1, <2>2, <2>3
<1>5. CASE \E c \in MFA!Codes : MFA!VerifyMatch(r, c)
  <2>1. PICK c \in MFA!Codes : MFA!VerifyMatch(r, c)
    BY <1>5
  <2>2. /\ rows[c] = "unused" /\ UNCHANGED <<rows, uses>>
        /\ mfaPc[r] = "match" /\ mfaPc' = [mfaPc EXCEPT ![r] = "use"] /\ code' = [code EXCEPT ![r] = c]
        /\ raced \subseteq raced'
        /\ \A q \in Requests : mfaPc[q] = "use" /\ code[q] = c => c \in raced'
    BY <2>1 DEF MFA!VerifyMatch, MFA!Matches
  <2>. QED
    BY <2>2
<1>6. CASE MFA!VerifyUse(r)
  <2>1. /\ mfaPc[r] = "use" /\ mfaPc' = [mfaPc EXCEPT ![r] = "passed"]
        /\ rows' = [rows EXCEPT ![code[r]] = "used"] /\ uses' = [uses EXCEPT ![code[r]] = @ + 1]
        /\ UNCHANGED <<code, raced>>
    BY <1>6 DEF MFA!VerifyUse
  <2>. QED
    BY <2>1
<1>. QED
  BY <1>1, <1>2, <1>3, <1>4, <1>5, <1>6 DEF MFA!DisableStep, MFA!CodesStep, MFA!VerifyStep

\* OneActiveDevice is not inductive: an enrolment that nothing has overtaken since its
\* setup check (serializers.py:25) still finds no active device.
DevicesInv ==
    /\ \A d, e \in MFA!Active \ late : d = e
    /\ \A r \in Requests : clear[r] => MFA!Active = {}

\* No request of iam_mfa spoils it: a device is confirmed only by a request that saw no active
\* one or is counted in late, and a code is saved by a request that has matched it
\* (iam_mfa/serializers.py:57-104, 281-313).
LEMMA DevicesKeep ==
    ASSUME MFA!MfaTypeOK, DevicesInv, MfaNext
    PROVE  DevicesInv'
<1>. USE DEF MFA!MfaTypeOK, DevicesInv, MFA!MfaGoto, MFA!Active, MFA!Devices
<1>. PICK r \in Requests :
        \/ MFA!Setup(r) \/ MFA!Confirm(r)
        \/ MFA!DisableCheck(r) \/ MFA!DisableStep(r)
        \/ MFA!CodesFind(r) \/ MFA!CodesStep(r)
        \/ MFA!VerifyFind(r) \/ MFA!VerifyStep(r) \/ MFA!VerifyWrong(r) \/ MFA!VerifyUseFails(r)
        \/ MfaLost(r)
  BY DEF MfaNext
<1>1. CASE UNCHANGED <<active, late, clear>>
  BY <1>1
<1>2. CASE MFA!Setup(r)
  <2>1. MFA!Active = {} /\ UNCHANGED <<active, late>>
    BY <1>2, NewestIsActive DEF MFA!Setup, None, MFA!NoDevice
  <2>. QED
    BY <2>1
<1>3. CASE MFA!Confirm(r)
  <2>1. /\ Len(active) \in Nat /\ DOMAIN active = 1..Len(active) /\ DOMAIN active' = 1..(Len(active) + 1)
        /\ \A d \in 1..Len(active) : active'[d] = active[d]
    BY <1>3 DEF MFA!Confirm
  <2>2. MFA!Active' \subseteq MFA!Active \cup {Len(active) + 1}
    BY <2>1
  <2>3. \A q \in Requests : ~ clear'[q]
    BY <1>3 DEF MFA!Confirm
  <2>4. CASE clear[r]
    BY <1>3, <2>2, <2>3, <2>4 DEF MFA!Confirm
  <2>5. CASE ~ clear[r]
    BY <1>3, <2>2, <2>3, <2>5 DEF MFA!Confirm
  <2>. QED
    BY <2>4, <2>5
<1>4. CASE MFA!DisableOff(r)
  <2>1. MFA!Active' \subseteq MFA!Active /\ UNCHANGED <<late, clear>>
    BY <1>4 DEF MFA!DisableOff
  <2>. QED
    BY <2>1
<1>. QED
  BY <1>1, <1>2, <1>3, <1>4 DEF MFA!DisableCheck, MFA!DisableStep, MFA!DisableFind, MFA!DisableCodes,
     MFA!CodesFind, MFA!CodesStep, MFA!CodesDelete, MFA!CodesCreate, MFA!CodesAnswer, MFA!VerifyFind,
     MFA!VerifyStep, MFA!VerifyTotp, MFA!VerifyMatch, MFA!VerifyUse, MFA!VerifyWrong, MFA!VerifyUseFails, MfaLost

MfaInv == MFA!MfaTypeOK /\ CodesInv /\ DevicesInv

\* An account begins without a device or with one that is confirmed.
LEMMA MfaInitially == Init => MfaInv
<1>. SUFFICES ASSUME Init PROVE MfaInv
  OBVIOUS
<1>1. MFA!MfaInit
  BY DEF Init
<1>2. MFA!MfaTypeOK
  <2>1. active \in Seq(BOOLEAN) /\ (active # <<>> => 1 \in DOMAIN active)
    <3>1. active \in {<<>>, <<TRUE>>}
      BY <1>1 DEF MFA!MfaInit
    <3>2. <<>> \in Seq(BOOLEAN)
      OBVIOUS
    <3>3. <<TRUE>> \in Seq(BOOLEAN) /\ 1 \in DOMAIN <<TRUE>>
      BY SeqOfOne
    <3>. QED
      BY <3>1, <3>2, <3>3
  <2>2. rows \in [MFA!Codes -> {"none", "unused", "used", "deleted"}]
    BY <1>1 DEF MFA!MfaInit
  <2>3. owner \in [MFA!Sets -> MFA!Devices \cup {MFA!NoDevice}]
    BY <1>1, <2>1 DEF MFA!MfaInit, MFA!Devices
  <2>4. shown \subseteq MFA!Sets
    BY <1>1 DEF MFA!MfaInit, MFA!Sets
  <2>. QED
    BY <1>1, <2>1, <2>2, <2>3, <2>4 DEF MFA!MfaInit, MFA!MfaTypeOK, MFA!Steps
<1>3. CodesInv
  BY <1>1 DEF MFA!MfaInit, CodesInv, MFA!CodeAdmitsOnce
<1>4. DevicesInv
  <2>1. DOMAIN active = 1..0 \/ DOMAIN active = 1..1
    <3>1. active \in {<<>>, <<TRUE>>}
      BY <1>1 DEF MFA!MfaInit
    <3>2. CASE active = <<>>
      BY <3>2
    <3>3. CASE active = <<TRUE>>
      <4>1. DOMAIN <<TRUE>> = 1..1
        BY SeqOfOne
      <4>. QED
        BY <3>3, <4>1, Zenon
    <3>. QED
      BY <3>1, <3>2, <3>3, Zenon
  <2>2. \A d \in MFA!Active : d = 1
    BY <2>1 DEF MFA!Active, MFA!Devices
  <2>. QED
    BY <1>1, <2>2 DEF MFA!MfaInit, DevicesInv
<1>. QED
  BY <1>2, <1>3, <1>4 DEF MfaInv

\* The devices and codes of a user keep MfaInv through every overlap of his requests.
LEMMA MfaInvariant == Spec => []MfaInv
<1>1. MfaInv /\ [Next]_vars => MfaInv'
  <2>. SUFFICES ASSUME MfaInv, [Next]_vars PROVE MfaInv'
    OBVIOUS
  <2>1. CASE MfaNext
    BY <2>1, MfaTypesKeep, CodesKeep, DevicesKeep DEF MfaInv
  <2>2. CASE UNCHANGED mfaVars
    BY <2>2 DEF mfaVars, MfaInv, MFA!MfaTypeOK, CodesInv, MFA!CodeAdmitsOnce, DevicesInv, MFA!Active, MFA!Devices
  <2>. QED
    BY <2>1, <2>2, StepOnMfa
<1>. QED
  BY <1>1, MfaInitially, PTL DEF Spec

\* NoBareLogin is not inductive: a login between its two device queries
\* (serializers.py:54-58) has an active device, or one was turned off meanwhile.
Bare == {"count", "evict", "blacklist", "success"}

BareInv ==
    /\ DOMAIN pc = Requests
    /\ \A r \in Requests :
         required => /\ pc[r] = "device" => dropped[r] \/ MFA!Active # {}
                     /\ pc[r] \in Bare => dropped[r]

\* Nothing but LoginPassed takes a request between the queries, nothing but LoginIssue
\* takes it past them, and nothing but DisableWork turns a device off.
OffBare ==
    /\ DOMAIN pc' = DOMAIN pc /\ UNCHANGED <<required, dropped>>
    /\ MFA!Active # {} => MFA!Active' # {}
    /\ \A q \in Requests : /\ pc'[q] = "device" => pc[q] = "device"
                           /\ pc'[q] \in Bare => pc[q] \in Bare

\* Whoever reads and turns off no device lets no login round one.
LEMMA OffBareKeeps == ASSUME BareInv, OffBare PROVE BareInv'
BY DEF BareInv, OffBare

\* What filter(is_active=True) finds changes with the devices only.
LEMMA ActiveAlike == UNCHANGED mfaVars => UNCHANGED <<MFA!Active, MFA!Newest>>
BY DEF mfaVars, MFA!Active, MFA!Devices, MFA!Newest, MFA!NoDevice

\* A login goes on without a challenge only after it has found no device, and after the
\* tenant's rule was looked at when one is required (iam_auth/serializers.py:49-123).
LEMMA LoginKeepsBare ==
    ASSUME active \in Seq(BOOLEAN), BareInv, NEW r \in Requests, LoginStep(r)
    PROVE  BareInv'
<1>. USE DEF Move, Begin, Bare, KeepMfa, situation
<1>1. CASE LoginPassed(r)
  <2>1. /\ pc[r] = "authed" /\ pc' = [pc EXCEPT ![r] = "device"]
        /\ UNCHANGED <<mfaVars, dropped, required>> /\ (required => MFA!Newest # None)
    BY <1>1 DEF LoginPassed, PcOnly
  <2>2. MFA!Active' = MFA!Active /\ (required => MFA!Active # {})
    BY <2>1, ActiveAlike, NewestIsActive
  <2>. QED
    BY <2>1, <2>2 DEF BareInv
<1>2. CASE LoginIssue(r)
  <2>1. /\ pc[r] = "device" /\ pc' = [pc EXCEPT ![r] = IF Limit = 0 THEN "success" ELSE "count"]
        /\ UNCHANGED <<mfaVars, dropped, required>> /\ MFA!Newest = None
    BY <1>2 DEF LoginIssue, TokensOnly
  <2>2. MFA!Active' = MFA!Active /\ MFA!Active = {}
    BY <2>1, ActiveAlike, NewestIsActive
  <2>. QED
    BY <2>1, <2>2 DEF BareInv
<1>3. ASSUME UNCHANGED <<mfaVars, dropped, required>>,
             NEW from, NEW to, pc' = [pc EXCEPT ![r] = to], pc[r] = from, to # "device", to \in Bare => from \in Bare
      PROVE  BareInv'
  <2>1. MFA!Active' = MFA!Active
    BY <1>3, ActiveAlike
  <2>2. OffBare
    BY <1>3, <2>1 DEF OffBare, BareInv
  <2>. QED
    BY <2>2, OffBareKeeps
<1>4. CASE LoginThrottled(r) \/ LoginLocked(r) \/ LoginAdmitted(r) \/ LoginWrong(r) \/ LoginRight(r)
  <2>1. \E from \in {"new", "login"}, to \in {"refused", "login", "authed"} : Move(r, from, to)
    BY <1>4 DEF LoginThrottled, LoginLocked, LoginAdmitted, LoginWrong, LoginRight
  <2>2. UNCHANGED <<mfaVars, dropped, required>>
    BY <1>4 DEF LoginThrottled, LoginLocked, LoginAdmitted, LoginWrong, LoginRight, PcOnly, LockOnly, TokensOnly
  <2>. QED
    BY <1>3, <2>1, <2>2
<1>5. CASE LoginWithoutTenant(r) \/ LoginFromBlockedIp(r) \/ LoginExpired(r) \/ LoginNotEnrolled(r) \/ LoginChallenged(r)
  <2>1. \E from \in {"authed", "device"}, to \in {"refused", "challenged"} : Move(r, from, to)
    BY <1>5 DEF LoginWithoutTenant, LoginFromBlockedIp, LoginExpired, LoginNotEnrolled, Denied, LoginChallenged
  <2>2. UNCHANGED <<mfaVars, dropped, required>>
    BY <1>5 DEF LoginWithoutTenant, LoginFromBlockedIp, LoginExpired, LoginNotEnrolled, Denied, LoginChallenged,
                PcOnly, LockOnly
  <2>. QED
    BY <1>3, <2>1, <2>2
<1>6. CASE LoginCount(r) \/ LoginSlice(r) \/ LoginBlacklist(r) \/ LoginEvicted(r)
  <2>1. \/ \E from \in Bare, to \in Bare : Move(r, from, to)
        \/ pc[r] = "blacklist" /\ UNCHANGED pc
    BY <1>6 DEF LoginCount, LoginSlice, LoginBlacklist, LoginEvicted
  <2>2. UNCHANGED <<mfaVars, dropped, required>>
    BY <1>6 DEF LoginCount, LoginSlice, LoginBlacklist, LoginEvicted, PcOnly, TokensOnly
  <2>3. CASE UNCHANGED pc
    BY <2>2, <2>3, ActiveAlike, OffBareKeeps DEF OffBare
  <2>. QED
    BY <1>3, <2>1, <2>2, <2>3
<1>7. CASE LoginAnswer(r)
  <2>1. \E from \in {"challenged", "success"}, to \in {"challenge", "tokens"} : Move(r, from, to)
    BY <1>7 DEF LoginAnswer
  <2>2. UNCHANGED <<mfaVars, dropped, required>>
    BY <1>7 DEF LoginAnswer
  <2>. QED
    BY <1>3, <2>1, <2>2
<1>. QED
  BY <1>1, <1>2, <1>4, <1>5, <1>6, <1>7 DEF LoginStep

\* A device that is turned off while a login is between the two queries is remembered.
LEMMA MfaKeepsBare ==
    ASSUME MFA!MfaTypeOK, BareInv, NEW r \in Requests, MfaRequest(r)
    PROVE  BareInv'
<1>. USE DEF Move, Begin, Bare, situation
<1>. active \in Seq(BOOLEAN)
  BY DEF MFA!MfaTypeOK
<1>1. CASE DisableWork(r)
  <2>1. UNCHANGED <<pc, required>> /\ MFA!DisableStep(r)
        /\ dropped' = [q \in Requests |-> dropped[q] \/ (active' # active /\ pc[q] = "device")]
    BY <1>1 DEF DisableWork, MfaOnly
  <2>2. active' = active => MFA!Active' = MFA!Active
    BY DEF MFA!Active, MFA!Devices
  <2>3. \A q \in Requests : /\ dropped[q] => dropped'[q]
                            /\ active' # active /\ pc[q] = "device" => dropped'[q]
    BY <2>1
  <2>. QED
    BY <2>1, <2>2, <2>3 DEF BareInv
<1>2. CASE EnrolConfirm(r)
  <2>1. active' = Append(active, TRUE) /\ UNCHANGED <<required, dropped>>
    BY <1>2 DEF EnrolConfirm, MFA!Confirm, MfaOnly
  <2>2. MFA!Active # {} => MFA!Active' # {}
    <3>1. DOMAIN active' = 1..(Len(active) + 1) /\ DOMAIN active = 1..Len(active) /\ Len(active) \in Nat
          /\ \A d \in 1..Len(active) : active'[d] = active[d]
      BY <2>1
    <3>. QED
      BY <3>1 DEF MFA!Active, MFA!Devices
  <2>. QED
    BY <1>2, <2>1, <2>2, OffBareKeeps DEF EnrolConfirm, OffBare
<1>3. CASE EnrolSetup(r) \/ DisableBegin(r) \/ CodesBegin(r) \/ CodesWork(r) \/ MfaRefused(r) \/ MfaAnswer(r)
  <2>1. UNCHANGED <<active, required, dropped>>
    BY <1>3 DEF EnrolSetup, DisableBegin, CodesBegin, CodesWork, MfaRefused, MfaAnswer, MfaOnly, PcOnly, KeepMfa,
       mfaVars, MFA!Setup, MFA!DisableCheck, MFA!CodesFind, MFA!CodesStep, MFA!CodesDelete, MFA!CodesCreate,
       MFA!CodesAnswer
  <2>2. MFA!Active' = MFA!Active
    BY <2>1 DEF MFA!Active, MFA!Devices
  <2>3. DOMAIN pc' = DOMAIN pc /\ \A q \in Requests : pc'[q] \in Bare \cup {"device"} => pc'[q] = pc[q]
    BY <1>3 DEF EnrolSetup, DisableBegin, CodesBegin, CodesWork, MfaRefused, MfaAnswer, BareInv
  <2>. QED
    BY <2>1, <2>2, <2>3, OffBareKeeps DEF OffBare
<1>. QED
  BY <1>1, <1>2, <1>3 DEF MfaRequest

\* The other endpoints take no login past its device.
LEMMA OthersKeepBare ==
    ASSUME BareInv, NEW r \in Requests,
           VerifyRequest(r) \/ SessionStep(r) \/ PasswordStep(r) \/ Unlock(r) \/ LockWork(r) \/ Breaks(r)
    PROVE  BareInv'
<1>. USE DEF Move, Begin, Bare, KeepMfa, situation
<1>1. ASSUME UNCHANGED <<active, required, dropped>>, DOMAIN pc' = DOMAIN pc,
             \A q \in Requests : pc'[q] \in Bare \cup {"device"} => pc'[q] = pc[q]
      PROVE  BareInv'
  <2>1. MFA!Active' = MFA!Active
    BY <1>1 DEF MFA!Active, MFA!Devices
  <2>. QED
    BY <1>1, <2>1, OffBareKeeps DEF OffBare
<1>2. CASE VerifyRequest(r)
  <2>1. UNCHANGED <<active, required, dropped>>
    BY <1>2 DEF VerifyRequest, VerifyBegin, VerifyProof, VerifyRefused, VerifyIssue, MfaOnly, TokensOnly, mfaVars,
       MFA!VerifyFind, MFA!VerifyStep, MFA!VerifyTotp, MFA!VerifyMatch, MFA!VerifyUse, MFA!VerifyWrong,
       MFA!VerifyUseFails
  <2>2. DOMAIN pc' = DOMAIN pc /\ \A q \in Requests : pc'[q] \in Bare \cup {"device"} => pc'[q] = pc[q]
    BY <1>2 DEF VerifyRequest, VerifyBegin, VerifyProof, VerifyRefused, VerifyIssue, BareInv
  <2>. QED
    BY <1>1, <2>1, <2>2
<1>3. CASE SessionStep(r)
  <2>1. UNCHANGED <<active, required, dropped>>
    BY <1>3 DEF SessionStep, RefreshCheck, LogoutCheck, RefreshBlacklist, RefreshIssue, LogoutBlacklist,
       LogoutAllList, LogoutAllEach, LogoutAllConflict, LogoutAllDone, TokensOnly, PcOnly, mfaVars
  <2>2. DOMAIN pc' = DOMAIN pc /\ \A q \in Requests : pc'[q] \in Bare \cup {"device"} => pc'[q] = pc[q]
    BY <1>3 DEF SessionStep, RefreshCheck, LogoutCheck, RefreshBlacklist, RefreshIssue, LogoutBlacklist,
       LogoutAllList, LogoutAllEach, LogoutAllConflict, LogoutAllDone, BareInv
  <2>. QED
    BY <1>1, <2>1, <2>2
<1>4. CASE PasswordStep(r)
  <2>1. UNCHANGED <<active, required, dropped>>
    BY <1>4 DEF PasswordStep, PasswordLoad, PasswordAccepted, PasswordRefused, PasswordRemember, PasswordSet,
       PasswordExpiry, PasswordUnlock, PassOnly, PcOnly, LockOnly, mfaVars
  <2>2. DOMAIN pc' = DOMAIN pc /\ \A q \in Requests : pc'[q] \in Bare \cup {"device"} => pc'[q] = pc[q]
    BY <1>4 DEF PasswordStep, PasswordLoad, PasswordAccepted, PasswordRefused, PasswordRemember, PasswordSet,
       PasswordExpiry, PasswordUnlock, BareInv
  <2>. QED
    BY <1>1, <2>1, <2>2
<1>5. CASE Unlock(r) \/ LockWork(r) \/ Breaks(r)
  <2>1. UNCHANGED <<active, required, dropped>>
    BY <1>5 DEF Unlock, LockWork, Breaks, LockOnly, mfaVars
  <2>2. DOMAIN pc' = DOMAIN pc /\ \A q \in Requests : pc'[q] \in Bare \cup {"device"} => pc'[q] = pc[q]
    BY <1>5 DEF Unlock, LockWork, Breaks, BareInv
  <2>. QED
    BY <1>1, <2>1, <2>2
<1>. QED
  BY <1>2, <1>3, <1>4, <1>5

\* A set whose members are all the same has at most one.
LEMMA AtMostOne == ASSUME NEW S, \A x, y \in S : x = y PROVE Cardinality(S) <= 1
<1>1. CASE S = {}
  BY <1>1, FS_EmptySet
<1>2. CASE S # {}
  <2>1. PICK x \in S : S = {x}
    BY <1>2
  <2>. QED
    BY <2>1, FS_Singleton
<1>. QED
  BY <1>1, <1>2

\* A backup code admits once (iam_mfa/models.py:36), enrolment makes one device and no
\* login goes round it, but for the races MfaKept names.
THEOREM MfaKeptCorrect == Spec => []MfaKept
<1>1. Init => BareInv
  BY DEF Init, BareInv, Bare
<1>2. BareInv /\ MfaInv /\ [Next]_vars => BareInv'
  <2>. SUFFICES ASSUME BareInv, MfaInv, [Next]_vars PROVE BareInv'
    OBVIOUS
  <2>. MFA!MfaTypeOK /\ active \in Seq(BOOLEAN)
    BY DEF MfaInv, MFA!MfaTypeOK
  <2>1. ASSUME NEW r \in Requests, LoginStep(r) PROVE BareInv'
    BY <2>1, LoginKeepsBare
  <2>2. ASSUME NEW r \in Requests, MfaRequest(r) PROVE BareInv'
    BY <2>2, MfaKeepsBare
  <2>3. ASSUME NEW r \in Requests,
               VerifyRequest(r) \/ SessionStep(r) \/ PasswordStep(r) \/ Unlock(r) \/ LockWork(r) \/ Breaks(r)
        PROVE  BareInv'
    BY <2>3, OthersKeepBare
  <2>4. CASE KeysExpire \/ UNCHANGED vars
    <3>1. UNCHANGED <<pc, mfaVars, dropped, required>>
      BY <2>4 DEF KeysExpire, LockOnly, KeepMfa, vars, situation
    <3>. QED
      BY <3>1, ActiveAlike, OffBareKeeps DEF OffBare
  <2>. QED
    BY <2>1, <2>2, <2>3, <2>4 DEF Next
<1>3. BareInv /\ MfaInv => MfaKept
  <2>. SUFFICES ASSUME BareInv, MfaInv PROVE MfaKept
    OBVIOUS
  <2>1. MFA!CodeAdmitsOnce
    BY DEF MfaInv, CodesInv
  <2>2. MFA!OneActiveDevice
    <3>1. \A d, e \in MFA!Active \ late : d = e
      BY DEF MfaInv, DevicesInv
    <3>2. Cardinality(MFA!Active \ late) <= 1
      BY <3>1, AtMostOne
    <3>3. MFA!Cardinality(MFA!Active \ late) = Cardinality(MFA!Active \ late)
      BY DEF MFA!Cardinality, Cardinality
    <3>. QED
      BY <3>2, <3>3 DEF MFA!OneActiveDevice
  <2>3. NoBareLogin
    BY DEF BareInv, Bare, NoBareLogin
  <2>. QED
    BY <2>1, <2>2, <2>3 DEF MfaKept
<1>. QED
  BY <1>1, <1>2, <1>3, MfaInvariant, PTL DEF Spec

-----------------------------------------------------------------------------
(* Tokens and sessions *)

\* The steps of a login or a refresh between which it has a token of its own.
Granted == {"authed", "device", "challenged", "count", "evict", "blacklist", "success"}

TokenTypes ==
    /\ token \in Seq({"live", "black"})
    /\ given \subseteq Tokens
    /\ pc \in [Requests -> {"new"} \cup Working \cup Over]
    /\ own \in [Requests -> Tokens \cup {None}]
    /\ excess \in [Requests -> 0..Len(token)]
    /\ plan \in [Requests -> SUBSET Tokens]
    /\ alone \in [Requests -> BOOLEAN]
    /\ \A r \in Requests : pc[r] \in Granted => own[r] # None

\* The tokens that are not blacklisted are finitely many of those issued.
LEMMA LiveIsFinite ==
    ASSUME token \in Seq({"live", "black"})
    PROVE  /\ Tokens = 1..Len(token) /\ Len(token) \in Nat
           /\ IsFiniteSet(Live) /\ Cardinality(Live) \in 0..Len(token) /\ Live \subseteq Tokens
<1>1. Tokens = 1..Len(token) /\ Len(token) \in Nat /\ Live \subseteq Tokens
  BY DEF Tokens, Live
<1>2. IsFiniteSet(1..Len(token)) /\ Cardinality(1..Len(token)) = Len(token)
  BY <1>1, FS_Interval
<1>3. IsFiniteSet(Live) /\ Cardinality(Live) <= Len(token)
  BY <1>1, <1>2, FS_Subset
<1>4. Cardinality(Live) \in Nat
  BY <1>3, FS_CardinalityType
<1>. QED
  BY <1>1, <1>3, <1>4

\* Every endpoint's steps keep the types of the token tables.
LEMMA IssueKeepsTypes ==
    ASSUME TokenTypes, NEW r \in Requests, Issue(r), NEW from, NEW to \in Working \cup Over,
           pc' = [pc EXCEPT ![r] = to], given' \in {given, given \cup {Len(token) + 1}}
    PROVE  TokenTypes'
<1>1. /\ token' \in Seq({"live", "black"}) /\ Len(token') = Len(token) + 1 /\ Len(token) \in Nat
      /\ Tokens = 1..Len(token) /\ Tokens' = 1..Len(token')
  BY DEF Issue, TokenTypes, Tokens
<1>2. Tokens \subseteq Tokens' /\ Len(token) + 1 \in Tokens' /\ 0..Len(token) \subseteq 0..Len(token')
      /\ Len(token) + 1 # None
  BY <1>1 DEF None
<1>3. given' \subseteq Tokens'
  BY <1>2 DEF TokenTypes
<1>4. own' \in [Requests -> Tokens' \cup {None}] /\ own'[r] # None /\ \A q \in Requests : q # r => own'[q] = own[q]
  BY <1>2 DEF Issue, TokenTypes
<1>5. alone' \in [Requests -> BOOLEAN]
  BY DEF Issue, Began
<1>6. plan' \in [Requests -> SUBSET Tokens'] /\ excess' \in [Requests -> 0..Len(token')]
  BY <1>2 DEF Issue, TokenTypes
<1>7. pc' \in [Requests -> {"new"} \cup Working \cup Over] /\ \A q \in Requests : q # r => pc'[q] = pc[q]
  BY DEF TokenTypes
<1>. QED
  BY <1>1, <1>3, <1>4, <1>5, <1>6, <1>7 DEF TokenTypes

\* BlacklistedToken.get_or_create takes one token from the live ones and adds none.
LEMMA BlacklistKeeps ==
    ASSUME TokenTypes, NEW r \in Requests, NEW t, Blacklist(r, t)
    PROVE  /\ token' \in Seq({"live", "black"}) /\ Len(token') = Len(token) /\ Tokens' = Tokens
           /\ alone' \in [Requests -> BOOLEAN]
           /\ Live' = Live \ {t}
<1>1. /\ token \in [1..Len(token) -> {"live", "black"}] /\ Len(token) \in Nat /\ Tokens = 1..Len(token)
  BY DEF TokenTypes, Tokens
<1>2. token' = [token EXCEPT ![t] = "black"]
  BY DEF Blacklist
<1>3. token' \in [1..Len(token) -> {"live", "black"}]
  BY <1>1, <1>2
<1>4. token' \in Seq({"live", "black"}) /\ Len(token') = Len(token) /\ Tokens' = Tokens
  BY <1>1, <1>3, SeqOfFunction DEF Tokens
<1>5. Live' = Live \ {t}
  BY <1>1, <1>2, <1>4 DEF Live
<1>6. alone' \in [Requests -> BOOLEAN]
  BY DEF Blacklist, Touched, TokenTypes
<1>. QED
  BY <1>4, <1>5, <1>6

\* A step that leaves the token tables alone, but for what the client is given.
OffTokens(r) ==
    /\ UNCHANGED <<token, excess, plan, alone, own>>
    /\ given' = given \/ (pc[r] = "success" /\ given' = given \cup {own[r]})

\* Whoever leaves the token tables alone leaves their types, if it goes where a request may be.
LEMMA OffTokensKeeps ==
    ASSUME TokenTypes, NEW r \in Requests, OffTokens(r),
           pc' = pc \/ \E to \in Working \cup Over :
                          pc' = [pc EXCEPT ![r] = to] /\ (to \in Granted => pc[r] \in Granted)
    PROVE  TokenTypes'
<1>1. Tokens' = Tokens
  BY DEF OffTokens, Tokens
<1>2. pc' \in [Requests -> {"new"} \cup Working \cup Over]
  BY DEF TokenTypes
<1>3. \A q \in Requests : pc'[q] \in Granted => pc[q] \in Granted
  BY DEF TokenTypes
<1>4. given' \subseteq Tokens
  BY DEF OffTokens, TokenTypes, Granted
<1>. QED
  BY <1>1, <1>2, <1>3, <1>4 DEF TokenTypes, OffTokens

\* A login issues one token, counts, plans and blacklists only what was issued
\* (iam_auth/serializers.py:182-212).
LEMMA LoginKeepsTokens ==
    ASSUME TokenTypes, NEW r \in Requests, LoginStep(r)
    PROVE  TokenTypes'
<1>. USE DEF Move, Begin, tokenVars
<1>1. CASE \/ LoginThrottled(r) \/ LoginLocked(r) \/ LoginAdmitted(r) \/ LoginWrong(r) \/ LoginPassed(r)
           \/ LoginWithoutTenant(r) \/ LoginFromBlockedIp(r) \/ LoginExpired(r) \/ LoginNotEnrolled(r)
           \/ LoginChallenged(r) \/ LoginEvicted(r) \/ LoginAnswer(r)
  <2>1. \E to \in Working \cup Over : pc' = [pc EXCEPT ![r] = to] /\ (to \in Granted => pc[r] \in Granted)
    BY <1>1 DEF LoginThrottled, LoginLocked, LoginAdmitted, LoginWrong, LoginPassed, LoginWithoutTenant,
       LoginFromBlockedIp, LoginExpired, LoginNotEnrolled, Denied, LoginChallenged, LoginEvicted, LoginAnswer,
       Working, LoginSteps, Over, Granted
  <2>2. OffTokens(r)
    BY <1>1 DEF LoginThrottled, LoginLocked, LoginAdmitted, LoginWrong, LoginPassed, LoginWithoutTenant,
       LoginFromBlockedIp, LoginExpired, LoginNotEnrolled, Denied, LoginChallenged, LoginEvicted, LoginAnswer,
       PcOnly, LockOnly, OffTokens, Give
  <2>. QED
    BY <2>1, <2>2, OffTokensKeeps
<1>2. CASE LoginRight(r) \/ LoginIssue(r)
  <2>1. Issue(r) /\ given' = given
    BY <1>2 DEF LoginRight, LoginIssue
  <2>2. \E to \in Working \cup Over : pc' = [pc EXCEPT ![r] = to]
    BY <1>2 DEF LoginRight, LoginIssue, Working, LoginSteps, Over
  <2>. QED
    BY <2>1, <2>2, IssueKeepsTypes
<1>3. CASE LoginCount(r)
  <2>1. /\ pc[r] = "count" /\ pc' \in [Requests -> {"new"} \cup Working \cup Over]
        /\ \A q \in Requests : pc'[q] \in Granted => pc[q] \in Granted
    BY <1>3 DEF LoginCount, TokenTypes, Working, LoginSteps, Over, Granted
  <2>2. UNCHANGED <<token, given, own, plan, alone>>
    BY <1>3 DEF LoginCount
  <2>3. (IF Cardinality(Live) > Limit THEN Cardinality(Live) - Limit ELSE 0) \in 0..Len(token)
    BY LiveIsFinite, AccountAssumption DEF TokenTypes, AccountAssumption
  <2>4. excess' \in [Requests -> 0..Len(token)]
    BY <1>3, <2>3 DEF LoginCount, TokenTypes
  <2>. QED
    BY <2>1, <2>2, <2>4 DEF TokenTypes, Tokens
<1>4. CASE LoginSlice(r)
  <2>1. /\ pc[r] = "evict" /\ pc' \in [Requests -> {"new"} \cup Working \cup Over]
        /\ \A q \in Requests : pc'[q] \in Granted => pc[q] \in Granted
    BY <1>4 DEF LoginSlice, TokenTypes, Working, LoginSteps, Over, Granted
  <2>2. UNCHANGED <<token, given, own, excess, alone>>
    BY <1>4 DEF LoginSlice
  <2>3. plan' \in [Requests -> SUBSET Tokens]
    BY <1>4 DEF LoginSlice, TokenTypes, Oldest, Live
  <2>. QED
    BY <2>1, <2>2, <2>3 DEF TokenTypes, Tokens
<1>5. CASE LoginBlacklist(r)
  <2>1. PICK t \in plan[r] : Blacklist(r, t) /\ plan' = [plan EXCEPT ![r] = @ \ {t}]
    BY <1>5 DEF LoginBlacklist
  <2>2. UNCHANGED <<pc, given, own, excess>>
    BY <1>5 DEF LoginBlacklist
  <2>3. plan' \in [Requests -> SUBSET Tokens]
    BY <2>1 DEF TokenTypes
  <2>. QED
    BY <2>1, <2>2, <2>3, BlacklistKeeps DEF TokenTypes
<1>. QED
  BY <1>1, <1>2, <1>3, <1>4, <1>5 DEF LoginStep

\* Refresh and the two logouts blacklist tokens that were issued and issue at most one.
LEMMA SessionKeepsTokens ==
    ASSUME TokenTypes, NEW r \in Requests, SessionStep(r)
    PROVE  TokenTypes'
<1>. USE DEF Move, Begin, tokenVars
<1>1. CASE \E t \in Tokens : RefreshCheck(r, t) \/ LogoutCheck(r, t)
  <2>1. PICK t \in Tokens : own' = [own EXCEPT ![r] = t] /\ UNCHANGED <<token, given, excess, plan, alone>>
    BY <1>1 DEF RefreshCheck, LogoutCheck, Present
  <2>2. \E to \in {"rotate", "logout"} : pc' = [pc EXCEPT ![r] = to]
    BY <1>1 DEF RefreshCheck, LogoutCheck
  <2>3. pc' \in [Requests -> {"new"} \cup Working \cup Over]
        /\ \A q \in Requests : pc'[q] \in Granted => pc[q] \in Granted /\ q # r
    BY <2>2 DEF TokenTypes, Working, Granted
  <2>4. own' \in [Requests -> Tokens \cup {None}] /\ \A q \in Requests : q # r => own'[q] = own[q]
    BY <2>1 DEF TokenTypes
  <2>5. Tokens' = Tokens
    BY <2>1 DEF Tokens
  <2>. QED
    BY <2>1, <2>3, <2>4, <2>5 DEF TokenTypes
<1>2. CASE RefreshBlacklist(r) \/ LogoutBlacklist(r)
  <2>1. Blacklist(r, own[r]) /\ UNCHANGED <<given, own, excess, plan>>
    BY <1>2 DEF RefreshBlacklist, LogoutBlacklist
  <2>2. \E to \in {"reissue", "done"} : pc' = [pc EXCEPT ![r] = to]
    BY <1>2 DEF RefreshBlacklist, LogoutBlacklist
  <2>3. pc' \in [Requests -> {"new"} \cup Working \cup Over]
        /\ \A q \in Requests : pc'[q] \in Granted => pc[q] \in Granted
    BY <2>2 DEF TokenTypes, Working, Over, Granted
  <2>. QED
    BY <2>1, <2>3, BlacklistKeeps DEF TokenTypes
<1>3. CASE RefreshIssue(r)
  BY <1>3, IssueKeepsTypes DEF RefreshIssue, Over
<1>4. CASE LogoutAllList(r)
  <2>1. /\ plan' = [plan EXCEPT ![r] = Live] /\ own' = [own EXCEPT ![r] = Len(token)] /\ Began(r)
        /\ UNCHANGED <<token, given, excess>> /\ pc' = [pc EXCEPT ![r] = "each"]
    BY <1>4 DEF LogoutAllList
  <2>2. Live \subseteq Tokens /\ Len(token) \in Tokens \cup {None}
    BY LiveIsFinite DEF TokenTypes, None
  <2>3. plan' \in [Requests -> SUBSET Tokens]
    BY <2>1, <2>2 DEF TokenTypes
  <2>4. own' \in [Requests -> Tokens \cup {None}] /\ \A q \in Requests : q # r => own'[q] = own[q]
    BY <2>1, <2>2 DEF TokenTypes
  <2>5. pc' \in [Requests -> {"new"} \cup Working \cup Over]
        /\ \A q \in Requests : pc'[q] \in Granted => pc[q] \in Granted /\ q # r
    BY <2>1 DEF TokenTypes, Working, Granted
  <2>6. alone' \in [Requests -> BOOLEAN]
    BY <2>1 DEF Began
  <2>7. Tokens' = Tokens
    BY <2>1 DEF Tokens
  <2>. QED
    BY <2>1, <2>3, <2>4, <2>5, <2>6, <2>7 DEF TokenTypes
<1>5. CASE LogoutAllEach(r)
  <2>1. PICK t \in plan[r] : Blacklist(r, t) /\ plan' = [plan EXCEPT ![r] = @ \ {t}]
    BY <1>5 DEF LogoutAllEach
  <2>2. UNCHANGED <<pc, given, own, excess>>
    BY <1>5 DEF LogoutAllEach
  <2>3. plan' \in [Requests -> SUBSET Tokens]
    BY <2>1 DEF TokenTypes
  <2>. QED
    BY <2>1, <2>2, <2>3, BlacklistKeeps DEF TokenTypes
<1>6. CASE LogoutAllConflict(r) \/ LogoutAllDone(r)
  <2>1. \E to \in Working \cup Over : pc' = [pc EXCEPT ![r] = to] /\ (to \in Granted => pc[r] \in Granted)
    BY <1>6 DEF LogoutAllConflict, LogoutAllDone, Over, Granted
  <2>2. OffTokens(r)
    BY <1>6 DEF LogoutAllConflict, LogoutAllDone, PcOnly, OffTokens
  <2>. QED
    BY <2>1, <2>2, OffTokensKeeps
<1>. QED
  BY <1>1, <1>2, <1>3, <1>4, <1>5, <1>6 DEF SessionStep

\* A verification may issue a token; every other endpoint leaves the tables alone.
LEMMA OthersKeepTokens ==
    ASSUME TokenTypes, NEW r \in Requests,
           \/ VerifyRequest(r) \/ PasswordStep(r) \/ MfaRequest(r)
           \/ Unlock(r) \/ LockWork(r) \/ Breaks(r)
    PROVE  TokenTypes'
<1>. USE DEF Move, Begin, tokenVars
<1>1. ASSUME UNCHANGED <<token, given, own, excess, plan, alone>>,
             pc' = pc \/ \E to \in (Working \cup Over) \ Granted : pc' = [pc EXCEPT ![r] = to]
      PROVE  TokenTypes'
  BY <1>1, OffTokensKeeps DEF OffTokens
<1>2. CASE VerifyBegin(r) \/ VerifyProof(r) \/ VerifyRefused(r)
  <2>1. UNCHANGED <<token, given, own, excess, plan, alone>>
    BY <1>2 DEF VerifyBegin, VerifyProof, VerifyRefused, MfaOnly
  <2>2. pc' = pc \/ \E to \in {"verify", "refused"} : pc' = [pc EXCEPT ![r] = to]
    BY <1>2 DEF VerifyBegin, VerifyProof, VerifyRefused
  <2>. QED
    BY <1>1, <2>1, <2>2 DEF Working, Over, Granted
<1>3. CASE VerifyIssue(r)
  BY <1>3, IssueKeepsTypes DEF VerifyIssue, Over
<1>4. CASE PasswordStep(r)
  <2>1. UNCHANGED <<token, given, own, excess, plan, alone>>
    BY <1>4 DEF PasswordStep, PasswordLoad, PasswordAccepted, PasswordRefused, PasswordRemember, PasswordSet,
       PasswordExpiry, PasswordUnlock, PassOnly, PcOnly, LockOnly
  <2>2. \E to \in {"checkPassword", "remember", "refused", "setPassword", "expiry", "unlocking", "done"} :
           pc' = [pc EXCEPT ![r] = to]
    BY <1>4 DEF PasswordStep, PasswordLoad, PasswordAccepted, PasswordRefused, PasswordRemember, PasswordSet,
       PasswordExpiry, PasswordUnlock
  <2>. QED
    BY <1>1, <2>1, <2>2 DEF Working, Over, Granted
<1>5. CASE MfaRequest(r)
  <2>1. UNCHANGED <<token, given, own, excess, plan, alone>>
    BY <1>5 DEF MfaRequest, EnrolSetup, EnrolConfirm, DisableBegin, DisableWork, CodesBegin, CodesWork,
       MfaRefused, MfaAnswer, MfaOnly, PcOnly
  <2>2. pc' = pc \/ \E to \in {"enrol", "refused", "done", "disable", "codes"} : pc' = [pc EXCEPT ![r] = to]
    BY <1>5 DEF MfaRequest, EnrolSetup, EnrolConfirm, DisableBegin, DisableWork, CodesBegin, CodesWork,
       MfaRefused, MfaAnswer
  <2>. QED
    BY <1>1, <2>1, <2>2 DEF Working, Over, Granted
<1>6. CASE Unlock(r) \/ LockWork(r) \/ Breaks(r)
  <2>1. UNCHANGED <<token, given, own, excess, plan, alone>>
    BY <1>6 DEF Unlock, LockWork, Breaks, LockOnly
  <2>2. pc' = pc \/ \E to \in {"done", "refused", "broken"} : pc' = [pc EXCEPT ![r] = to]
    BY <1>6 DEF Unlock, LockWork, Breaks
  <2>. QED
    BY <1>1, <2>1, <2>2 DEF Working, Over, Granted
<1>. QED
  BY <1>2, <1>3, <1>4, <1>5, <1>6 DEF VerifyRequest

\* Tokens and what requests hold of them have their types in every state.
LEMMA TokensInvariant == Spec => []TokenTypes
<1>1. Init => TokenTypes
  <2>. SUFFICES ASSUME Init PROVE TokenTypes
    OBVIOUS
  <2>1. token = [t \in 1..FirstTokens |-> "live"] /\ FirstTokens \in Nat
    BY AccountAssumption DEF Init, AccountAssumption
  <2>2. token \in Seq({"live", "black"}) /\ Len(token) = FirstTokens /\ Tokens = 1..FirstTokens
    BY <2>1 DEF Tokens
  <2>. QED
    BY <2>1, <2>2 DEF Init, TokenTypes, Granted
<1>2. TokenTypes /\ [Next]_vars => TokenTypes'
  <2>. SUFFICES ASSUME TokenTypes, [Next]_vars PROVE TokenTypes'
    OBVIOUS
  <2>1. CASE KeysExpire \/ UNCHANGED vars
    BY <2>1 DEF KeysExpire, LockOnly, vars, tokenVars, TokenTypes, Tokens
  <2>. QED
    BY <2>1, LoginKeepsTokens, SessionKeepsTokens, OthersKeepTokens DEF Next
<1>. QED
  BY <1>1, <1>2, PTL DEF Spec

\* _enforce_session_limit's second query (serializers.py:182-207): the oldest tokens beyond
\* the limit are all but Limit of the live ones, and not the newest.
LEMMA OldestLeavesTheLimit ==
    ASSUME token \in Seq({"live", "black"}), Limit \in Nat, Limit > 0, NEW n,
           n = Cardinality(Live) - Limit, Len(token) \in Live
    PROVE  /\ Len(token) \notin Oldest(n)
           /\ Cardinality(Live \ Oldest(n)) <= Limit
<1>. DEFINE Below(t) == {u \in Live : u < t}
            Kept     == Live \ Oldest(n)
<1>1. /\ Live \subseteq 1..Len(token) /\ Len(token) \in Nat /\ IsFiniteSet(Live)
      /\ Cardinality(Live) \in Nat /\ n \in Int
  BY LiveIsFinite
<1>2. Kept = {t \in Live : ~ (Cardinality(Below(t)) < n)}
  BY DEF Oldest
<1>b. \A t, u : u \in Below(t) <=> u \in Live /\ u < t
  OBVIOUS
<1>k. \A t : t \in Kept <=> t \in Live /\ ~ (Cardinality(Below(t)) < n)
  BY <1>2
<1>n. \A t \in Live : t \in Nat /\ t <= Len(token)
  BY <1>1
<1>. HIDE DEF Kept, Below
<1>3. Len(token) \in Kept
  <2>1. \A u : u \in Below(Len(token)) <=> u \in Live \ {Len(token)}
    <3>1. \A u \in Live : u < Len(token) <=> u # Len(token)
      BY <1>1, <1>n
    <3>. QED
      BY <1>b, <3>1, Zenon
  <2>2. Below(Len(token)) = Live \ {Len(token)}
    BY <2>1, Zenon
  <2>3. Cardinality(Live \ {Len(token)}) = Cardinality(Live) - 1
    BY <1>1, FS_RemoveElement
  <2>4. Cardinality(Below(Len(token))) = Cardinality(Live) - 1
    BY <2>2, <2>3, Zenon
  <2>5. ~ (Cardinality(Below(Len(token))) < n)
    BY <1>1, <2>4
  <2>. QED
    BY <1>k, <2>5
<1>4. PICK t \in Kept : \A s \in Kept : t <= s
  <2>1. Kept \in SUBSET Nat /\ Kept # {}
    BY <1>3, <1>k, <1>n
  <2>. QED
    BY <2>1, Least
<1>5. Below(t) \in SUBSET Live /\ ~ (Cardinality(Below(t)) < n) /\ t \in Nat
  BY <1>4, <1>b, <1>k, <1>n
<1>6. IsFiniteSet(Below(t)) /\ Cardinality(Below(t)) \in Nat
  BY <1>1, <1>5, FS_Subset, FS_CardinalityType
<1>7. Kept \in SUBSET (Live \ Below(t))
  <2>1. ASSUME NEW s \in Kept PROVE s \in Live /\ s \notin Below(t)
    <3>1. s \in Live /\ s \in Nat /\ t <= s
      BY <1>4, <1>k, <1>n, <2>1
    <3>. QED
      BY <1>5, <1>b, <3>1
  <2>. QED
    BY <2>1
<1>8. IsFiniteSet(Live \ Below(t)) /\ Cardinality(Live \ Below(t)) = Cardinality(Live) - Cardinality(Live \cap Below(t))
  BY <1>1, FS_Difference
<1>9. Cardinality(Live \ Below(t)) = Cardinality(Live) - Cardinality(Below(t))
  <2>1. Live \cap Below(t) = Below(t)
    BY <1>5
  <2>. QED
    BY <1>8, <2>1, Zenon
<1>10. Cardinality(Kept) <= Cardinality(Live \ Below(t)) /\ IsFiniteSet(Kept)
  BY <1>7, <1>8, FS_Subset
<1>11. Cardinality(Kept) \in Nat
  BY <1>10, FS_CardinalityType
<1>12. Cardinality(Kept) <= Limit
  BY <1>1, <1>5, <1>6, <1>9, <1>10, <1>11
<1>. QED
  BY <1>3, <1>12 DEF Kept

\* SessionsKept is not inductive: a login that nobody overlaps has the newest token while it
\* counts, the exact excess before the second query, and a plan that spares its own token and
\* leaves the limit while it blacklists ...
LimitOf(r) ==
    alone[r] /\ Limit > 0 =>
        /\ pc[r] \in {"count", "evict", "blacklist", "success"} => own[r] \in Live
        /\ pc[r] \in {"count", "evict"} => own[r] = Len(token)
        /\ pc[r] = "evict" => excess[r] = Cardinality(Live) - Limit
        /\ pc[r] = "blacklist" => own[r] \notin plan[r] /\ Cardinality(Live \ plan[r]) <= Limit
        /\ pc[r] = "success" => Cardinality(Live) <= Limit

\* ... and a logout of all sessions has what is still live of its list in its plan.
LogoutOf(r) ==
    /\ pc[r] = "each" => Live \cap 1..own[r] \subseteq plan[r] /\ (alone[r] => plan[r] \subseteq Live)
    /\ pc[r] = "loggedOut" => Live \cap 1..own[r] = {}
    /\ pc[r] = "conflict" => ~ alone[r]

SessionInv == \A r \in Requests : LimitOf(r) /\ LogoutOf(r)

Counting == {"count", "evict", "blacklist", "success", "each", "loggedOut", "conflict"}

\* What a request r does to the tokens another request q may rely on: it issues newer ones
\* and blacklists, and in both cases q is no longer alone.
Seen(q) ==
    /\ UNCHANGED <<own[q], excess[q], plan[q]>>
    /\ pc'[q] \in Counting => pc'[q] = pc[q]
    /\ alone'[q] => alone[q] /\ token' = token
    /\ Live' \cap Tokens \subseteq Live

\* What a login or a logout of all sessions has counted on stays true, unless another request
\* issued or blacklisted a token and it is alone no longer.
LEMMA SeenKeeps ==
    ASSUME TokenTypes, NEW q \in Requests, LimitOf(q), LogoutOf(q), Seen(q)
    PROVE  LimitOf(q)' /\ LogoutOf(q)'
<1>. USE DEF Seen, Counting
<1>1. 1..own[q] \subseteq Tokens
  <2>1. Tokens = 1..Len(token) /\ Len(token) \in Nat
    BY LiveIsFinite DEF TokenTypes
  <2>. QED
    BY <2>1 DEF TokenTypes, None
<1>2. token' = token => Live' = Live /\ Len(token') = Len(token)
  BY DEF Live, Tokens
<1>3. LimitOf(q)'
  BY <1>2 DEF LimitOf
<1>4. LogoutOf(q)'
  BY <1>1, <1>2 DEF LogoutOf
<1>. QED
  BY <1>3, <1>4

\* A new token is a newer one, and ends everybody's being alone but the issuer's.
LEMMA IssueKeepsSessions ==
    ASSUME TokenTypes, SessionInv, NEW r \in Requests, Issue(r), NEW to,
           pc' = [pc EXCEPT ![r] = to],
           to \in Counting => to = "count" \/ (to = "success" /\ Limit = 0)
    PROVE  SessionInv'
<1>1. /\ token \in Seq({"live", "black"}) /\ token' = Append(token, "live") /\ Len(token) \in Nat
      /\ Tokens = 1..Len(token) /\ Tokens' = 1..(Len(token) + 1) /\ Len(token') = Len(token) + 1
      /\ \A t \in Tokens : token'[t] = token[t]
      /\ token'[Len(token) + 1] = "live"
  BY DEF Issue, TokenTypes, Tokens
<1>2. Live' \cap Tokens \subseteq Live /\ Len(token) + 1 \in Live'
  BY <1>1 DEF Live
<1>3. own'[r] = Len(token) + 1 /\ \A q \in Requests : q # r => ~ alone'[q] /\ UNCHANGED <<own[q], excess[q], plan[q]>>
  BY DEF Issue, Began, TokenTypes
<1>4. ASSUME NEW q \in Requests, q # r PROVE LimitOf(q)' /\ LogoutOf(q)'
  <2>1. pc'[q] = pc[q]
    BY <1>4 DEF TokenTypes
  <2>2. Seen(q)
    BY <1>2, <1>3, <1>4, <2>1 DEF Seen
  <2>. QED
    BY <2>2, SeenKeeps DEF SessionInv
<1>5. LimitOf(r)' /\ LogoutOf(r)'
  <2>1. pc'[r] = to
    BY DEF TokenTypes
  <2>. QED
    BY <1>1, <1>2, <1>3, <2>1 DEF LimitOf, LogoutOf, Counting
<1>. QED
  BY <1>4, <1>5 DEF SessionInv

\* Who blacklists a live token is the only one that may still be alone.
LEMMA BlacklistIsSeen ==
    ASSUME TokenTypes, NEW r \in Requests, NEW t, Blacklist(r, t), NEW q \in Requests, q # r,
           UNCHANGED <<own[q], excess[q], plan[q], pc[q]>>
    PROVE  Seen(q)
<1>1. Live' \subseteq Live /\ token' = [token EXCEPT ![t] = "black"]
      /\ token \in Seq({"live", "black"})
  BY BlacklistKeeps DEF Blacklist, TokenTypes
<1>2. CASE token[t] = "live"
  <2>1. ~ alone'[q]
    BY <1>2 DEF Blacklist, Touched
  <2>. QED
    BY <1>1, <2>1 DEF Seen
<1>3. CASE token[t] # "live"
  <2>1. token' = token
    BY <1>1, <1>3, LiveIsFinite DEF TokenTypes, Tokens
  <2>2. alone' = alone
    BY <1>3 DEF Blacklist
  <2>. QED
    BY <1>1, <2>1, <2>2 DEF Seen
<1>. QED
  BY <1>2, <1>3

\* A step that leaves tokens and counting requests alone.
OffSessions(r) ==
    /\ UNCHANGED <<token, alone>>
    /\ \A q \in Requests : q # r => UNCHANGED <<own[q], excess[q], plan[q], pc[q]>>

\* A step away from the tokens leaves what every other request counts on.
LEMMA OffSessionsKeeps ==
    ASSUME TokenTypes, SessionInv, NEW r \in Requests, OffSessions(r),
           pc'[r] \notin Counting \/ (LimitOf(r)' /\ LogoutOf(r)')
    PROVE  SessionInv'
<1>1. Live' = Live
  BY DEF OffSessions, Live, Tokens
<1>2. ASSUME NEW q \in Requests, q # r PROVE LimitOf(q)' /\ LogoutOf(q)'
  <2>1. Seen(q)
    BY <1>1, <1>2 DEF OffSessions, Seen
  <2>. QED
    BY <2>1, SeenKeeps DEF SessionInv
<1>3. LimitOf(r)' /\ LogoutOf(r)'
  BY DEF LimitOf, LogoutOf, Counting
<1>. QED
  BY <1>2, <1>3 DEF SessionInv

\* Issue, count, slice of the oldest, and each blacklisting lead a login nobody overlaps to
\* the limit with its own token live (iam_auth/serializers.py:182-212).
LEMMA LoginKeepsSessions ==
    ASSUME TokenTypes, SessionInv, NEW r \in Requests, LoginStep(r)
    PROVE  SessionInv'
<1>. USE DEF Move, Begin, tokenVars
<1>. /\ DOMAIN pc = Requests /\ LimitOf(r) /\ LogoutOf(r)
     /\ own \in [Requests -> Tokens \cup {None}] /\ excess \in [Requests -> 0..Len(token)]
     /\ plan \in [Requests -> SUBSET Tokens] /\ alone \in [Requests -> BOOLEAN]
  BY DEF TokenTypes, SessionInv
<1>l. /\ Tokens = 1..Len(token) /\ Len(token) \in Nat /\ IsFiniteSet(Live) /\ Cardinality(Live) \in Nat
      /\ Limit \in Nat
  BY LiveIsFinite, AccountAssumption DEF TokenTypes, AccountAssumption
<1>1. CASE \/ LoginThrottled(r) \/ LoginLocked(r) \/ LoginAdmitted(r) \/ LoginWrong(r) \/ LoginPassed(r)
           \/ LoginWithoutTenant(r) \/ LoginFromBlockedIp(r) \/ LoginExpired(r) \/ LoginNotEnrolled(r)
           \/ LoginChallenged(r) \/ LoginAnswer(r)
  <2>1. \E to \in {"refused", "login", "device", "challenged", "challenge", "tokens"} : pc' = [pc EXCEPT ![r] = to]
    BY <1>1 DEF LoginThrottled, LoginLocked, LoginAdmitted, LoginWrong, LoginPassed, LoginWithoutTenant,
       LoginFromBlockedIp, LoginExpired, LoginNotEnrolled, Denied, LoginChallenged, LoginAnswer
  <2>2. UNCHANGED <<token, own, excess, plan, alone>>
    BY <1>1 DEF LoginThrottled, LoginLocked, LoginAdmitted, LoginWrong, LoginPassed, LoginWithoutTenant,
       LoginFromBlockedIp, LoginExpired, LoginNotEnrolled, Denied, LoginChallenged, LoginAnswer,
       PcOnly, LockOnly
  <2>3. OffSessions(r) /\ pc'[r] \notin Counting
    BY <2>1, <2>2 DEF OffSessions, Counting
  <2>. QED
    BY <2>3, OffSessionsKeeps
<1>2. CASE LoginRight(r) \/ LoginIssue(r)
  BY <1>2, IssueKeepsSessions DEF LoginRight, LoginIssue, Counting
<1>3. CASE LoginCount(r)
  <2>1. /\ pc[r] = "count" /\ UNCHANGED <<token, given, own, plan, alone>>
        /\ pc'[r] = (IF Cardinality(Live) > Limit THEN "evict" ELSE "success")
        /\ excess'[r] = IF Cardinality(Live) > Limit THEN Cardinality(Live) - Limit ELSE 0
    BY <1>3 DEF LoginCount
  <2>2. OffSessions(r)
    BY <1>3 DEF LoginCount, OffSessions
  <2>3. Live' = Live
    BY <2>1 DEF Live, Tokens
  <2>4. LimitOf(r)' /\ LogoutOf(r)'
    BY <1>l, <2>1, <2>3 DEF LimitOf, LogoutOf
  <2>. QED
    BY <2>2, <2>4, OffSessionsKeeps
<1>4. CASE LoginSlice(r)
  <2>1. /\ pc[r] = "evict" /\ pc'[r] = "blacklist" /\ UNCHANGED <<token, given, own, excess, alone>>
        /\ plan'[r] = Oldest(excess[r])
    BY <1>4 DEF LoginSlice
  <2>2. OffSessions(r)
    BY <1>4 DEF LoginSlice, OffSessions
  <2>3. Live' = Live
    BY <2>1 DEF Live, Tokens
  <2>4. ASSUME alone[r], Limit > 0
        PROVE  own[r] \in Live /\ own[r] \notin Oldest(excess[r]) /\ Cardinality(Live \ Oldest(excess[r])) <= Limit
    <3>1. own[r] \in Live /\ own[r] = Len(token) /\ excess[r] = Cardinality(Live) - Limit
      BY <2>1, <2>4 DEF LimitOf
    <3>. QED
      BY <1>l, <2>4, <3>1, OldestLeavesTheLimit DEF TokenTypes
  <2>5. LimitOf(r)' /\ LogoutOf(r)'
    BY <2>1, <2>3, <2>4 DEF LimitOf, LogoutOf
  <2>. QED
    BY <2>2, <2>5, OffSessionsKeeps
<1>5. CASE LoginBlacklist(r)
  <2>1. PICK t \in plan[r] : Blacklist(r, t) /\ plan' = [plan EXCEPT ![r] = @ \ {t}]
    BY <1>5 DEF LoginBlacklist
  <2>2. pc[r] = "blacklist" /\ UNCHANGED <<pc, given, own, excess>>
    BY <1>5 DEF LoginBlacklist
  <2>3. ASSUME NEW q \in Requests, q # r PROVE LimitOf(q)' /\ LogoutOf(q)'
    <3>1. UNCHANGED <<own[q], excess[q], plan[q], pc[q]>>
      BY <2>1, <2>2, <2>3
    <3>. QED
      BY <2>1, <2>3, <3>1, BlacklistIsSeen, SeenKeeps DEF SessionInv
  <2>4. Live' = Live \ {t} /\ plan'[r] = plan[r] \ {t} /\ (alone'[r] => alone[r])
    BY <2>1, BlacklistKeeps DEF Blacklist, Touched
  <2>5. LimitOf(r)' /\ LogoutOf(r)'
    <3>1. (Live \ {t}) \ (plan[r] \ {t}) = Live \ plan[r]
      BY <2>1
    <3>. QED
      BY <2>1, <2>2, <2>4, <3>1 DEF LimitOf, LogoutOf
  <2>. QED
    BY <2>3, <2>5 DEF SessionInv
<1>6. CASE LoginEvicted(r)
  <2>1. /\ pc[r] = "blacklist" /\ pc'[r] = "success" /\ plan[r] = {}
        /\ UNCHANGED <<token, own, excess, plan, alone>>
    BY <1>6 DEF LoginEvicted, PcOnly
  <2>2. OffSessions(r)
    BY <1>6, <2>1 DEF LoginEvicted, OffSessions
  <2>3. Live' = Live /\ Live \ {} = Live
    BY <2>1 DEF Live, Tokens
  <2>4. LimitOf(r)' /\ LogoutOf(r)'
    BY <2>1, <2>3 DEF LimitOf, LogoutOf
  <2>. QED
    BY <2>2, <2>4, OffSessionsKeeps
<1>. QED
  BY <1>1, <1>2, <1>3, <1>4, <1>5, <1>6 DEF LoginStep

\* A logout of all sessions lists the live tokens and blacklists them one by one; nobody gives
\* one back (iam_auth/views.py:142-161).
LEMMA SessionKeepsSessions ==
    ASSUME TokenTypes, SessionInv, NEW r \in Requests, SessionStep(r)
    PROVE  SessionInv'
<1>. USE DEF Move, Begin, tokenVars
<1>. /\ DOMAIN pc = Requests /\ LimitOf(r) /\ LogoutOf(r)
     /\ own \in [Requests -> Tokens \cup {None}] /\ excess \in [Requests -> 0..Len(token)]
     /\ plan \in [Requests -> SUBSET Tokens] /\ alone \in [Requests -> BOOLEAN]
  BY DEF TokenTypes, SessionInv
<1>l. Tokens = 1..Len(token) /\ Len(token) \in Nat /\ Live \subseteq Tokens
  BY LiveIsFinite DEF TokenTypes
<1>1. CASE \E t \in Tokens : RefreshCheck(r, t) \/ LogoutCheck(r, t)
  <2>1. PICK t \in Tokens : own' = [own EXCEPT ![r] = t] /\ UNCHANGED <<token, given, excess, plan, alone>>
    BY <1>1 DEF RefreshCheck, LogoutCheck, Present
  <2>2. \E to \in {"rotate", "logout"} : pc' = [pc EXCEPT ![r] = to]
    BY <1>1 DEF RefreshCheck, LogoutCheck
  <2>3. OffSessions(r) /\ pc'[r] \notin Counting
    BY <2>1, <2>2 DEF OffSessions, Counting
  <2>. QED
    BY <2>3, OffSessionsKeeps
<1>2. CASE RefreshBlacklist(r) \/ LogoutBlacklist(r)
  <2>1. Blacklist(r, own[r]) /\ UNCHANGED <<given, own, excess, plan>>
    BY <1>2 DEF RefreshBlacklist, LogoutBlacklist
  <2>2. \E to \in {"reissue", "done"} : pc' = [pc EXCEPT ![r] = to]
    BY <1>2 DEF RefreshBlacklist, LogoutBlacklist
  <2>3. ASSUME NEW q \in Requests, q # r PROVE LimitOf(q)' /\ LogoutOf(q)'
    <3>1. UNCHANGED <<own[q], excess[q], plan[q], pc[q]>>
      BY <2>1, <2>2, <2>3
    <3>. QED
      BY <2>1, <2>3, <3>1, BlacklistIsSeen, SeenKeeps DEF SessionInv
  <2>4. LimitOf(r)' /\ LogoutOf(r)'
    BY <2>2 DEF LimitOf, LogoutOf
  <2>. QED
    BY <2>3, <2>4 DEF SessionInv
<1>3. CASE RefreshIssue(r)
  BY <1>3, IssueKeepsSessions DEF RefreshIssue, Counting
<1>4. CASE LogoutAllList(r)
  <2>1. /\ plan'[r] = Live /\ own'[r] = Len(token) /\ Began(r) /\ UNCHANGED token /\ pc'[r] = "each"
        /\ \A q \in Requests : q # r => UNCHANGED <<own[q], excess[q], plan[q], pc[q]>>
    BY <1>4 DEF LogoutAllList
  <2>2. Live' = Live
    BY <2>1 DEF Live, Tokens
  <2>3. ASSUME NEW q \in Requests, q # r PROVE LimitOf(q)' /\ LogoutOf(q)'
    <3>1. Seen(q)
      BY <2>1, <2>2, <2>3 DEF Seen, Began
    <3>. QED
      BY <2>3, <3>1, SeenKeeps DEF SessionInv
  <2>4. LimitOf(r)' /\ LogoutOf(r)'
    BY <2>1, <2>2 DEF LimitOf, LogoutOf
  <2>. QED
    BY <2>3, <2>4 DEF SessionInv
<1>5. CASE LogoutAllEach(r)
  <2>1. PICK t \in plan[r] : Blacklist(r, t) /\ plan' = [plan EXCEPT ![r] = @ \ {t}]
    BY <1>5 DEF LogoutAllEach
  <2>2. pc[r] = "each" /\ UNCHANGED <<pc, given, own, excess>>
    BY <1>5 DEF LogoutAllEach
  <2>3. ASSUME NEW q \in Requests, q # r PROVE LimitOf(q)' /\ LogoutOf(q)'
    <3>1. UNCHANGED <<own[q], excess[q], plan[q], pc[q]>>
      BY <2>1, <2>2, <2>3
    <3>. QED
      BY <2>1, <2>3, <3>1, BlacklistIsSeen, SeenKeeps DEF SessionInv
  <2>4. Live' = Live \ {t} /\ plan'[r] = plan[r] \ {t} /\ (alone'[r] => alone[r])
    BY <2>1, BlacklistKeeps DEF Blacklist, Touched
  <2>5. LimitOf(r)' /\ LogoutOf(r)'
    BY <2>2, <2>4 DEF LimitOf, LogoutOf
  <2>. QED
    BY <2>3, <2>5 DEF SessionInv
<1>6. CASE LogoutAllConflict(r)
  <2>1. /\ pc[r] = "each" /\ pc'[r] = "conflict" /\ UNCHANGED <<token, own, excess, plan, alone>>
        /\ \E t \in plan[r] : token[t] = "black"
    BY <1>6 DEF LogoutAllConflict, PcOnly
  <2>2. OffSessions(r)
    BY <1>6, <2>1 DEF LogoutAllConflict, OffSessions
  <2>3. ~ alone[r]
    BY <2>1 DEF LogoutOf, Live
  <2>4. LimitOf(r)' /\ LogoutOf(r)'
    BY <2>1, <2>3 DEF LimitOf, LogoutOf
  <2>. QED
    BY <2>2, <2>4, OffSessionsKeeps
<1>7. CASE LogoutAllDone(r)
  <2>1. pc[r] = "each" /\ pc'[r] = "loggedOut" /\ plan[r] = {} /\ UNCHANGED <<token, own, excess, plan, alone>>
    BY <1>7 DEF LogoutAllDone, PcOnly
  <2>2. OffSessions(r)
    BY <1>7, <2>1 DEF LogoutAllDone, OffSessions
  <2>3. Live' = Live
    BY <2>1 DEF Live, Tokens
  <2>4. LimitOf(r)' /\ LogoutOf(r)'
    BY <2>1, <2>3 DEF LimitOf, LogoutOf
  <2>. QED
    BY <2>2, <2>4, OffSessionsKeeps
<1>. QED
  BY <1>1, <1>2, <1>3, <1>4, <1>5, <1>6, <1>7 DEF SessionStep

\* The other endpoints at most issue a token, as a verification does.
LEMMA OthersKeepSessions ==
    ASSUME TokenTypes, SessionInv, NEW r \in Requests,
           \/ VerifyRequest(r) \/ PasswordStep(r) \/ MfaRequest(r)
           \/ Unlock(r) \/ LockWork(r) \/ Breaks(r)
    PROVE  SessionInv'
<1>. USE DEF Move, Begin, tokenVars
<1>. DOMAIN pc = Requests
  BY DEF TokenTypes
<1>1. ASSUME UNCHANGED <<token, own, excess, plan, alone>>,
             pc' = pc \/ \E to : to \notin Counting /\ pc' = [pc EXCEPT ![r] = to]
      PROVE  SessionInv'
  <2>1. CASE pc' = pc
    <3>1. Live' = Live
      BY <1>1 DEF Live, Tokens
    <3>2. \A q \in Requests : Seen(q)
      BY <1>1, <2>1, <3>1 DEF Seen
    <3>. QED
      BY <3>2, SeenKeeps DEF SessionInv
  <2>2. CASE \E to : to \notin Counting /\ pc' = [pc EXCEPT ![r] = to]
    BY <1>1, <2>2, OffSessionsKeeps DEF OffSessions
  <2>. QED
    BY <1>1, <2>1, <2>2
<1>2. CASE VerifyBegin(r) \/ VerifyProof(r) \/ VerifyRefused(r)
  <2>1. UNCHANGED <<token, own, excess, plan, alone>>
    BY <1>2 DEF VerifyBegin, VerifyProof, VerifyRefused, MfaOnly
  <2>2. pc' = pc \/ \E to \in {"verify", "refused"} : pc' = [pc EXCEPT ![r] = to]
    BY <1>2 DEF VerifyBegin, VerifyProof, VerifyRefused
  <2>. QED
    BY <1>1, <2>1, <2>2 DEF Counting
<1>3. CASE VerifyIssue(r)
  BY <1>3, IssueKeepsSessions DEF VerifyIssue, Counting
<1>4. CASE PasswordStep(r)
  <2>1. UNCHANGED <<token, own, excess, plan, alone>>
    BY <1>4 DEF PasswordStep, PasswordLoad, PasswordAccepted, PasswordRefused, PasswordRemember, PasswordSet,
       PasswordExpiry, PasswordUnlock, PassOnly, PcOnly, LockOnly
  <2>2. \E to \in {"checkPassword", "remember", "refused", "setPassword", "expiry", "unlocking", "done"} :
           pc' = [pc EXCEPT ![r] = to]
    BY <1>4 DEF PasswordStep, PasswordLoad, PasswordAccepted, PasswordRefused, PasswordRemember, PasswordSet,
       PasswordExpiry, PasswordUnlock
  <2>. QED
    BY <1>1, <2>1, <2>2 DEF Counting
<1>5. CASE MfaRequest(r)
  <2>1. UNCHANGED <<token, own, excess, plan, alone>>
    BY <1>5 DEF MfaRequest, EnrolSetup, EnrolConfirm, DisableBegin, DisableWork, CodesBegin, CodesWork,
       MfaRefused, MfaAnswer, MfaOnly, PcOnly
  <2>2. pc' = pc \/ \E to \in {"enrol", "refused", "done", "disable", "codes"} : pc' = [pc EXCEPT ![r] = to]
    BY <1>5 DEF MfaRequest, EnrolSetup, EnrolConfirm, DisableBegin, DisableWork, CodesBegin, CodesWork,
       MfaRefused, MfaAnswer
  <2>. QED
    BY <1>1, <2>1, <2>2 DEF Counting
<1>6. CASE Unlock(r) \/ LockWork(r) \/ Breaks(r)
  <2>1. UNCHANGED <<token, own, excess, plan, alone>>
    BY <1>6 DEF Unlock, LockWork, Breaks, LockOnly
  <2>2. pc' = pc \/ \E to \in {"done", "refused", "broken"} : pc' = [pc EXCEPT ![r] = to]
    BY <1>6 DEF Unlock, LockWork, Breaks
  <2>. QED
    BY <1>1, <2>1, <2>2 DEF Counting
<1>. QED
  BY <1>2, <1>3, <1>4, <1>5, <1>6 DEF VerifyRequest

\* A login that nobody overlaps leaves no more sessions than the limit and keeps its own, and
\* a logout of all sessions ends all there were (serializers.py:182-207, views.py:149-153).
THEOREM SessionsKeptCorrect == Spec => []SessionsKept
<1>1. Init => SessionInv
  BY DEF Init, SessionInv, LimitOf, LogoutOf
<1>2. SessionInv /\ TokenTypes /\ [Next]_vars => SessionInv'
  <2>. SUFFICES ASSUME SessionInv, TokenTypes, [Next]_vars PROVE SessionInv'
    OBVIOUS
  <2>1. CASE KeysExpire \/ UNCHANGED vars
    <3>1. UNCHANGED <<token, own, excess, plan, alone, pc>>
      BY <2>1 DEF KeysExpire, LockOnly, vars, tokenVars
    <3>2. Live' = Live
      BY <3>1 DEF Live, Tokens
    <3>. QED
      BY <3>1, <3>2, SeenKeeps DEF SessionInv, Seen
  <2>. QED
    BY <2>1, LoginKeepsSessions, SessionKeepsSessions, OthersKeepSessions DEF Next
<1>3. SessionInv => SessionsKept
  BY DEF SessionInv, LimitOf, LogoutOf, SessionsKept, LimitKept, LogoutAllEnds, Live
<1>. QED
  BY <1>1, <1>2, <1>3, TokensInvariant, PTL DEF Spec

-----------------------------------------------------------------------------
(* Types *)

\* What no other part speaks of.
RestTypes ==
    /\ forced \in BOOLEAN /\ required \in BOOLEAN
    /\ dropped \in [Requests -> BOOLEAN]
    /\ replaced \subseteq Passwords /\ rewrote \subseteq replaced

\* Passwords, tenant rules and the history of a password change keep their types.
LEMMA RestKeeps ==
    ASSUME RestTypes, password \in Passwords, [Next]_vars
    PROVE  RestTypes'
<1>. USE DEF RestTypes, situation, passVars, KeepMfa
<1>0. UNCHANGED <<passVars, required, dropped>> => RestTypes'
  OBVIOUS
<1>1. ASSUME NEW r \in Requests, LoginStep(r) PROVE RestTypes'
  <2>1. UNCHANGED <<passVars, required, dropped>>
    BY <1>1 DEF LoginStep, LoginThrottled, LoginLocked, LoginAdmitted, LoginWrong, LoginRight, LoginWithoutTenant,
       LoginFromBlockedIp, LoginExpired, LoginNotEnrolled, Denied, LoginPassed, LoginChallenged, LoginIssue,
       LoginCount, LoginSlice, LoginBlacklist, LoginEvicted, LoginAnswer, LockOnly, PcOnly, TokensOnly
  <2>. QED
    BY <1>0, <2>1
<1>2. ASSUME NEW r \in Requests, VerifyRequest(r) \/ SessionStep(r) \/ Unlock(r) \/ LockWork(r) \/ Breaks(r)
      PROVE  RestTypes'
  <2>1. UNCHANGED <<passVars, required, dropped>>
    BY <1>2 DEF VerifyRequest, VerifyBegin, VerifyProof, VerifyRefused, VerifyIssue, MfaOnly, SessionStep,
       RefreshCheck, LogoutCheck, RefreshBlacklist, RefreshIssue, LogoutBlacklist, LogoutAllList, LogoutAllEach,
       LogoutAllConflict, LogoutAllDone, Unlock, LockWork, Breaks, LockOnly, PcOnly, TokensOnly
  <2>. QED
    BY <1>0, <2>1
<1>3. ASSUME NEW r \in Requests, PasswordStep(r) PROVE RestTypes'
  <2>1. UNCHANGED <<required, dropped>>
    BY <1>3 DEF PasswordStep, PasswordLoad, PasswordAccepted, PasswordRefused, PasswordRemember, PasswordSet,
       PasswordExpiry, PasswordUnlock, PassOnly, PcOnly, LockOnly
  <2>2. /\ forced' = forced \/ forced' = FALSE
        /\ \/ UNCHANGED <<replaced, rewrote>>
           \/ replaced' = replaced \cup {password} /\ rewrote' \in {rewrote, rewrote \cup {password}}
    BY <1>3 DEF PasswordStep, PasswordLoad, PasswordAccepted, PasswordRefused, PasswordRemember, PasswordSet,
       PasswordExpiry, PasswordUnlock, PassOnly, PcOnly, LockOnly
  <2>3. forced' \in BOOLEAN /\ required' \in BOOLEAN /\ dropped' \in [Requests -> BOOLEAN]
    BY <2>1, <2>2
  <2>4. replaced' \subseteq Passwords /\ rewrote' \subseteq replaced'
    BY <2>2
  <2>. QED
    BY <2>3, <2>4
<1>4. ASSUME NEW r \in Requests, MfaRequest(r) PROVE RestTypes'
  <2>1. UNCHANGED <<passVars, required>>
    BY <1>4 DEF MfaRequest, EnrolSetup, EnrolConfirm, DisableBegin, DisableWork, CodesBegin, CodesWork,
       MfaRefused, MfaAnswer, MfaOnly, PcOnly
  <2>2. \/ UNCHANGED dropped
        \/ dropped' = [q \in Requests |-> dropped[q] \/ (active' # active /\ pc[q] = "device")]
    BY <1>4 DEF MfaRequest, EnrolSetup, EnrolConfirm, DisableBegin, DisableWork, CodesBegin, CodesWork,
       MfaRefused, MfaAnswer, MfaOnly, PcOnly
  <2>3. dropped' \in [Requests -> BOOLEAN]
    BY <2>2
  <2>. QED
    BY <2>1, <2>3
<1>5. CASE KeysExpire \/ UNCHANGED vars
  <2>1. UNCHANGED <<passVars, required, dropped>>
    BY <1>5 DEF KeysExpire, LockOnly, vars
  <2>. QED
    BY <1>0, <2>1
<1>. QED
  BY <1>1, <1>2, <1>3, <1>4, <1>5 DEF Next

\* The keys, devices, codes, tokens and passwords of an account keep their types
\* whatever requests overlap and break off (iam_auth/views.py, iam_mfa/serializers.py).
THEOREM AccountTypesCorrect == Spec => []TypeOK
<1>1. Init => RestTypes
  <2>. SUFFICES ASSUME Init PROVE RestTypes
    OBVIOUS
  <2>1. forced \in BOOLEAN /\ required \in BOOLEAN /\ dropped = [r \in Requests |-> FALSE] /\ replaced = {} /\ rewrote = {}
    BY DEF Init
  <2>2. dropped \in [Requests -> BOOLEAN]
    BY <2>1
  <2>. QED
    BY <2>1, <2>2 DEF RestTypes
<1>2. RestTypes /\ PassInv /\ [Next]_vars => RestTypes'
  BY RestKeeps DEF PassInv, PassTypes
<1>3. LockInv /\ MfaInv /\ TokenTypes /\ PassInv /\ RestTypes => TypeOK
  BY DEF LockInv, MfaInv, TokenTypes, PassInv, PassTypes, RestTypes, TypeOK
<1>4. Spec => []LockInv
  BY AccountImplementsLockout, LockInvariant, PTL
<1>5. Spec => []RestTypes
  BY <1>1, <1>2, PassInvariant, PTL DEF Spec
<1>. QED
  BY <1>3, <1>4, <1>5, MfaInvariant, TokensInvariant, PassInvariant, PTL
=============================================================================
