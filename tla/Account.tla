------------------------------ MODULE Account ------------------------------
(***************************************************************************)
(* One user's account: what its requests do to its lockout keys (Lockout), *)
(* its MFA devices and codes (Mfa), its refresh tokens and its password    *)
(* (apps/iam_auth/views.py and serializers.py, apps/iam_mfa).              *)
(*                                                                         *)
(* A request is one call of one endpoint.  Its queries and cache calls are *)
(* steps; requests overlap between them and may break off anywhere: no     *)
(* handler has a transaction.  Tokens are numbered in the order of their   *)
(* OutstandingToken rows.                                                  *)
(***************************************************************************)
EXTENDS Lockout, Sequences, FiniteSets

CONSTANTS
    CodesPerSet,
    Limit,          \* AUTH_SESSION["MAX_CONCURRENT_SESSIONS"]; 0 is no limit
    Passwords,
    HistoryLimit,   \* PASSWORD_HISTORY_LIMIT
    FirstTokens,    \* how many sessions there are at the beginning
    Mixes,          \* bound: which requests run together: the endpoints each may call
    Failures        \* whether requests may break off

ASSUME AccountAssumption ==
    /\ CodesPerSet \in Nat /\ Limit \in Nat /\ HistoryLimit \in Nat /\ FirstTokens \in Nat
    /\ Failures \in BOOLEAN

VARIABLES
    active, rows, owner, shown, mfaPc, dev, code, uses, raced, late, clear,
    token,     \* per token: "live", or "black" once it has a BlacklistedToken row
    given,     \* the tokens that were answered to the client
    password, history,  \* UserPasswordHistory, the newest first
    forced,    \* whether password_expires_at is set and in the past
    required,  \* whether the tenant's mfa_enforcement is "required"
    mix,       \* what each request may be; "wrong" is a login with a wrong password
    pc,        \* where each request is
    own,       \* the token a request presented or issued, or the last there was when it listed
    excess,    \* how many tokens a login is to blacklist
    plan,      \* the tokens a request is to blacklist
    copy, want,     \* a password change: the password it loaded, the one it sets
    alone,     \* history: no other request changed the tokens since a request began with them
    dropped,   \* history: a device was turned off between a login's two device queries
    replaced, rewrote   \* history: passwords replaced; those replaced from a stale copy

MFA == INSTANCE Mfa

mfaVars     == <<active, rows, owner, shown, mfaPc, dev, code, uses, raced, late, clear>>
tokenVars   == <<token, given, own, excess, plan, alone>>
passVars    == <<password, history, forced, copy, want, replaced, rewrote>>
situation   == <<required, mix>>
vars        == <<lockVars, mfaVars, tokenVars, passVars, situation, pc, dropped>>

Tokens == DOMAIN token
None   == 0
Live   == {t \in Tokens : token[t] = "live"}

LoginSteps == {"login", "authed", "device", "challenged", "issue", "count", "evict", "blacklist", "success"}
Working == LoginSteps \cup
    {"verify", "rotate", "reissue", "logout", "each",
     "checkPassword", "remember", "setPassword", "expiry", "unlocking", "enrol", "disable", "codes"}
Over    == {"tokens", "challenge", "refused", "conflict", "loggedOut", "done", "broken"}

TypeOK ==
    /\ LockTypeOK /\ MFA!MfaTypeOK
    /\ token \in Seq({"live", "black"})
    /\ given \subseteq Tokens
    /\ password \in Passwords /\ history \in Seq(Passwords)
    /\ forced \in BOOLEAN /\ required \in BOOLEAN
    /\ pc \in [Requests -> {"new"} \cup Working \cup Over]
    /\ own \in [Requests -> Tokens \cup {None}]
    /\ excess \in [Requests -> 0..Len(token)]
    /\ plan \in [Requests -> SUBSET Tokens]
    /\ copy \in [Requests -> Passwords] /\ want \in [Requests -> Passwords]
    /\ alone \in [Requests -> BOOLEAN] /\ dropped \in [Requests -> BOOLEAN]
    /\ replaced \subseteq Passwords /\ rewrote \subseteq replaced

Init ==
    /\ LockInit /\ MFA!MfaInit
    /\ token = [t \in 1..FirstTokens |-> "live"] /\ given = 1..FirstTokens
    /\ password \in Passwords /\ history = <<>> /\ forced \in BOOLEAN
    /\ required \in BOOLEAN /\ mix \in Mixes
    /\ pc = [r \in Requests |-> "new"]
    /\ own = [r \in Requests |-> None]
    /\ excess = [r \in Requests |-> 0]
    /\ plan = [r \in Requests |-> {}]
    /\ copy = [r \in Requests |-> password] /\ want = copy
    /\ alone = [r \in Requests |-> FALSE] /\ dropped = [r \in Requests |-> FALSE]
    /\ replaced = {} /\ rewrote = {}

Move(r, from, to)  == pc[r] = from /\ pc' = [pc EXCEPT ![r] = to]
Begin(r, kind, to) == kind \in mix[r] /\ Move(r, "new", to)

KeepMfa    == UNCHANGED <<mfaVars, dropped>>
LockOnly   == KeepMfa /\ UNCHANGED <<tokenVars, passVars, situation>>
MfaOnly    == UNCHANGED <<lockVars, tokenVars, passVars, situation>>
TokensOnly == KeepMfa /\ UNCHANGED <<lockVars, passVars, situation>>
PassOnly   == KeepMfa /\ UNCHANGED <<lockVars, tokenVars, situation>>
PcOnly     == KeepMfa /\ UNCHANGED <<lockVars, tokenVars, passVars, situation>>

\* Of the tokens a request r has changed, whether it was the only one to change them.
Touched(r) == alone' = [q \in Requests |-> q = r /\ alone[q]]
Began(r)   == alone' = [q \in Requests |-> q = r]

\* RefreshToken.for_user writes the OutstandingToken row.
Issue(r) ==
    /\ token' = Append(token, "live")
    /\ own' = [own EXCEPT ![r] = Len(token) + 1]
    /\ Began(r)
    /\ UNCHANGED <<excess, plan>>

\* BlacklistedToken.objects.get_or_create
Blacklist(r, t) ==
    /\ token' = [token EXCEPT ![t] = "black"]
    /\ IF token[t] = "live" THEN Touched(r) ELSE UNCHANGED alone

\* The client holds the token of the answer.
Give(r) == given' = given \cup {own[r]}

-----------------------------------------------------------------------------
(* LoginView.post, LoginSerializer.validate *)

\* LoginIPThrottle, LoginEmailThrottle: answered 429 before post is called.
LoginThrottled(r) ==
    /\ Begin(r, "login", "refused") \/ Begin(r, "wrong", "refused")
    /\ PcOnly

LoginLocked(r) ==
    /\ locked
    /\ Begin(r, "login", "refused") \/ Begin(r, "wrong", "refused")
    /\ PcOnly

LoginAdmitted(r) ==
    /\ Begin(r, "login", "login") \/ Begin(r, "wrong", "login")
    /\ Admit(r)
    /\ LockOnly

\* AuthenticationFailed; the attempt is recorded (LockStep) before the answer.
LoginWrong(r) ==
    /\ "wrong" \in mix[r]
    /\ Move(r, "login", "refused") /\ Fail(r)
    /\ LockOnly

\* The password is right: super().validate issues a token that is never answered.
LoginRight(r) ==
    /\ "login" \in mix[r]
    /\ Move(r, "login", "authed")
    /\ Issue(r) /\ UNCHANGED given
    /\ TokensOnly

\* Reasons to refuse a login whose password was right, in the order they are asked.
\* A refusal is no failed attempt: it neither counts nor clears anything.
Denied(r) == Move(r, "authed", "refused") /\ Leave(r) /\ LockOnly

\* No active membership of the tenant, or several to choose from.
LoginWithoutTenant(r) == Denied(r)

\* The tenant's ip_blocklist and ip_allowlist.
LoginFromBlockedIp(r) == Denied(r)

\* password_expires_at is past, or the password is older than password_expiry_days.
LoginExpired(r) == Denied(r)

LoginNotEnrolled(r) == required /\ MFA!Newest = None /\ Denied(r)

\* None of them.
LoginPassed(r) ==
    /\ ~forced
    /\ required => MFA!Newest # None
    /\ Move(r, "authed", "device")
    /\ PcOnly

LoginChallenged(r) ==
    /\ MFA!Newest # None
    /\ Move(r, "device", "challenged")
    /\ PcOnly

\* No device in the second query: tokens for the password alone.
LoginIssue(r) ==
    /\ MFA!Newest = None
    /\ Move(r, "device", IF Limit = 0 THEN "success" ELSE "count")
    /\ Issue(r) /\ UNCHANGED given
    /\ TokensOnly

LoginCountUnchecked(r) ==
    /\ Move(r, "count", "evict")
    /\ excess' = [excess EXCEPT ![r] = Cardinality(Live) - Limit]
    /\ UNCHANGED <<token, given, own, plan, alone>>
    /\ TokensOnly

\* _enforce_session_limit counts the live tokens ...
LoginCount(r) ==
    /\ Move(r, "count", IF Cardinality(Live) > Limit THEN "evict" ELSE "success")
    /\ excess' = [excess EXCEPT ![r] = IF Cardinality(Live) > Limit
                                       THEN Cardinality(Live) - Limit ELSE 0]
    /\ UNCHANGED <<token, given, own, plan, alone>>
    /\ TokensOnly

OldestAll(n) == Live
Oldest(n)    == {t \in Live : Cardinality({u \in Live : u < t}) < n}

\* ... and a second query takes the oldest ones.
LoginSlice(r) ==
    /\ Move(r, "evict", "blacklist")
    /\ plan' = [plan EXCEPT ![r] = Oldest(excess[r])]
    /\ UNCHANGED <<token, given, own, excess, alone>>
    /\ TokensOnly

LoginBlacklist(r) ==
    /\ pc[r] = "blacklist"
    /\ \E t \in plan[r] :
         /\ \A u \in plan[r] : t <= u
         /\ Blacklist(r, t)
         /\ plan' = [plan EXCEPT ![r] = @ \ {t}]
    /\ UNCHANGED <<pc, given, own, excess>>
    /\ TokensOnly

LoginEvicted(r) ==
    /\ plan[r] = {}
    /\ Move(r, "blacklist", "success")
    /\ PcOnly

\* The log entries, clear_lockout, the answer.
LoginAnswer(r) ==
    /\ \/ Move(r, "challenged", "challenge") /\ UNCHANGED given
       \/ Move(r, "success", "tokens") /\ Give(r)
    /\ Clear(r, "admitted")
    /\ UNCHANGED <<token, own, excess, plan, alone>>
    /\ KeepMfa /\ UNCHANGED <<passVars, situation>>

-----------------------------------------------------------------------------
(* MFALoginVerifyView.post: the challenge is a signed token nobody stores,
   good for any number of calls until it expires; a login may have been answered
   one before, and its device disabled since *)

VerifyBegin(r) ==
    /\ Begin(r, "verify", "verify") /\ MFA!VerifyFind(r)
    /\ MfaOnly /\ UNCHANGED dropped

VerifyProof(r) ==
    /\ pc[r] = "verify" /\ MFA!VerifyStep(r)
    /\ MfaOnly /\ UNCHANGED <<dropped, pc>>

VerifyRefused(r) ==
    /\ Move(r, "verify", "refused")
    /\ MFA!VerifyWrong(r) \/ MFA!VerifyUseFails(r)
    /\ MfaOnly /\ UNCHANGED dropped

\* No session limit here.
VerifyIssue(r) ==
    /\ mfaPc[r] = "passed"
    /\ Move(r, "verify", "tokens")
    /\ Issue(r) /\ given' = given \cup {Len(token) + 1}
    /\ TokensOnly

-----------------------------------------------------------------------------
(* RefreshView, LogoutView, LogoutAllView *)

Present(r, t) ==
    /\ t \in given /\ token[t] = "live"
    /\ own' = [own EXCEPT ![r] = t]
    /\ UNCHANGED <<token, given, excess, plan, alone>>

\* The token is valid and not blacklisted.
RefreshCheck(r, t) ==
    /\ Begin(r, "refresh", "rotate") /\ Present(r, t)
    /\ TokensOnly

\* BLACKLIST_AFTER_ROTATION: the old token first, then the new one.
RefreshBlacklist(r) ==
    /\ Move(r, "rotate", "reissue")
    /\ Blacklist(r, own[r])
    /\ UNCHANGED <<given, own, excess, plan>>
    /\ TokensOnly

RefreshIssue(r) ==
    /\ Move(r, "reissue", "tokens")
    /\ Issue(r) /\ given' = given \cup {Len(token) + 1}
    /\ TokensOnly

LogoutCheck(r, t) ==
    /\ Begin(r, "logout", "logout") /\ Present(r, t)
    /\ TokensOnly

LogoutBlacklist(r) ==
    /\ Move(r, "logout", "done")
    /\ Blacklist(r, own[r])
    /\ UNCHANGED <<given, own, excess, plan>>
    /\ TokensOnly

LogoutAllList(r) ==
    /\ Begin(r, "logoutAll", "each")
    /\ plan' = [plan EXCEPT ![r] = Live]
    /\ own' = [own EXCEPT ![r] = Len(token)]
    /\ Began(r)
    /\ UNCHANGED <<token, given, excess>>
    /\ TokensOnly

\* BlacklistedToken.objects.create, in no particular order.
LogoutAllEach(r) ==
    /\ pc[r] = "each"
    /\ \E t \in plan[r] :
         /\ token[t] = "live"
         /\ Blacklist(r, t)
         /\ plan' = [plan EXCEPT ![r] = @ \ {t}]
    /\ UNCHANGED <<pc, given, own, excess>>
    /\ TokensOnly

\* Another request has blacklisted it: IntegrityError, answered 400.
LogoutAllConflict(r) ==
    /\ \E t \in plan[r] : token[t] = "black"
    /\ Move(r, "each", "conflict")
    /\ PcOnly

LogoutAllDone(r) ==
    /\ plan[r] = {}
    /\ Move(r, "each", "loggedOut")
    /\ PcOnly

-----------------------------------------------------------------------------
(* PasswordChangeView, PasswordChangeSerializer *)

\* Authentication loads the user; the old password is right for this copy.
PasswordLoad(r) ==
    /\ Begin(r, "password", "checkPassword")
    /\ copy' = [copy EXCEPT ![r] = password]
    /\ UNCHANGED <<password, history, forced, want, replaced, rewrote>>
    /\ PassOnly

Recent == {history[i] : i \in 1..Len(history) \cap 1..HistoryLimit}

PasswordAccepted(r, p) ==
    /\ p \notin Recent
    /\ Move(r, "checkPassword", "remember")
    /\ want' = [want EXCEPT ![r] = p]
    /\ UNCHANGED <<password, history, forced, copy, replaced, rewrote>>
    /\ PassOnly

\* A wrong old password, a confirmation that differs, a weak or a recent password.
PasswordRefused(r) == Move(r, "checkPassword", "refused") /\ PcOnly

PasswordRememberNew(r) ==
    /\ Move(r, "remember", "setPassword")
    /\ history' = <<want[r]>> \o history
    /\ UNCHANGED <<password, forced, copy, want, replaced, rewrote>>
    /\ PassOnly

\* UserPasswordHistory gets the password of the copy.
PasswordRemember(r) ==
    /\ Move(r, "remember", "setPassword")
    /\ history' = <<copy[r]>> \o history
    /\ UNCHANGED <<password, forced, copy, want, replaced, rewrote>>
    /\ PassOnly

PasswordSet(r) ==
    /\ Move(r, "setPassword", "expiry")
    /\ password' = want[r]
    /\ replaced' = replaced \cup {password}
    /\ rewrote' = IF password = copy[r] THEN rewrote ELSE rewrote \cup {password}
    /\ UNCHANGED <<history, forced, copy, want>>
    /\ PassOnly

\* delete_attribute(user, tenant, "password_expires_at")
PasswordExpiry(r) ==
    /\ Move(r, "expiry", "unlocking")
    /\ forced' = FALSE
    /\ UNCHANGED <<password, history, copy, want, replaced, rewrote>>
    /\ PassOnly

\* password_changed: its receiver clears the lockout.
PasswordUnlock(r) ==
    /\ Move(r, "unlocking", "done") /\ Clear(r, "idle")
    /\ LockOnly

-----------------------------------------------------------------------------
(* UnlockAccountView.post, the MFA endpoints *)

Actors == [self : BOOLEAN, superuser : BOOLEAN, scoped : BOOLEAN, admin : BOOLEAN]

\* Nobody unlocks his own account; others need to be superuser, or an active
\* admin of the tenant they work in.
MayUnlock(a) == ~a.self /\ (a.superuser \/ (a.scoped /\ a.admin))

Unlock(r) ==
    /\ \E a \in Actors :
         \/ MayUnlock(a) /\ Begin(r, "unlock", "done") /\ Clear(r, "idle")
         \/ ~MayUnlock(a) /\ Begin(r, "unlock", "refused") /\ UNCHANGED lockVars
    /\ LockOnly

EnrolSetup(r) ==
    /\ \/ Begin(r, "enrol", "enrol") /\ MFA!Setup(r)
       \/ MFA!Newest # None /\ Begin(r, "enrol", "refused") /\ UNCHANGED mfaVars
    /\ MfaOnly /\ UNCHANGED dropped

EnrolConfirm(r) ==
    /\ Move(r, "enrol", "done") /\ MFA!Confirm(r)
    /\ MfaOnly /\ UNCHANGED dropped

DisableBegin(r) ==
    /\ Begin(r, "disable", "disable") /\ MFA!DisableCheck(r)
    /\ MfaOnly /\ UNCHANGED dropped

DisableWork(r) ==
    /\ pc[r] = "disable" /\ MFA!DisableStep(r)
    /\ dropped' = [q \in Requests |-> dropped[q] \/ (active' # active /\ pc[q] = "device")]
    /\ MfaOnly /\ UNCHANGED pc

CodesBegin(r) ==
    /\ Begin(r, "codes", "codes") /\ MFA!CodesFind(r)
    /\ MfaOnly /\ UNCHANGED dropped

CodesWork(r) ==
    /\ pc[r] = "codes" /\ MFA!CodesStep(r)
    /\ MfaOnly /\ UNCHANGED <<pc, dropped>>

\* The challenge token is forged, expired or of another type, the code is wrong for
\* MFADisable, or there is no active device.
MfaRefused(r) ==
    /\ \E kind \in {"verify", "disable", "codes"} : Begin(r, kind, "refused")
    /\ PcOnly

MfaAnswer(r) ==
    /\ mfaPc[r] = "idle"
    /\ Move(r, "disable", "done") \/ Move(r, "codes", "done")
    /\ PcOnly

-----------------------------------------------------------------------------

\* The cache calls of a login that failed or of one that clears the keys.
LockWork(r) == LockStep(r) /\ LockOnly /\ UNCHANGED pc

KeysExpire == Expiry /\ LockOnly /\ UNCHANGED pc

\* The worker is lost, or the database or the cache fails; nothing is undone.
\* Bound: one request breaks off.
Breaks(r) ==
    /\ Failures /\ \A q \in Requests : pc[q] # "broken"
    /\ \/ LockLost(r)
       \/ pc[r] \in Working /\ lockPc[r] = "idle" /\ UNCHANGED lockVars
    /\ pc' = [pc EXCEPT ![r] = "broken"]
    /\ mfaPc' = [mfaPc EXCEPT ![r] = "idle"]
    /\ UNCHANGED <<active, rows, owner, shown, dev, code, uses, raced, late, clear,
                   tokenVars, passVars, situation, dropped>>

LoginStep(r) ==
    \/ LoginThrottled(r) \/ LoginLocked(r) \/ LoginAdmitted(r) \/ LoginWrong(r) \/ LoginRight(r)
    \/ LoginWithoutTenant(r) \/ LoginFromBlockedIp(r) \/ LoginExpired(r) \/ LoginNotEnrolled(r)
    \/ LoginPassed(r) \/ LoginChallenged(r) \/ LoginIssue(r) \/ LoginCount(r) \/ LoginSlice(r)
    \/ LoginBlacklist(r) \/ LoginEvicted(r) \/ LoginAnswer(r)

VerifyRequest(r) == VerifyBegin(r) \/ VerifyProof(r) \/ VerifyRefused(r) \/ VerifyIssue(r)

SessionStep(r) ==
    \/ \E t \in Tokens : RefreshCheck(r, t) \/ LogoutCheck(r, t)
    \/ RefreshBlacklist(r) \/ RefreshIssue(r) \/ LogoutBlacklist(r)
    \/ LogoutAllList(r) \/ LogoutAllEach(r) \/ LogoutAllConflict(r) \/ LogoutAllDone(r)

PasswordStep(r) ==
    \/ PasswordLoad(r) \/ (\E p \in Passwords : PasswordAccepted(r, p)) \/ PasswordRefused(r)
    \/ PasswordRemember(r) \/ PasswordSet(r) \/ PasswordExpiry(r) \/ PasswordUnlock(r)

MfaRequest(r) ==
    \/ EnrolSetup(r) \/ EnrolConfirm(r) \/ DisableBegin(r) \/ DisableWork(r)
    \/ CodesBegin(r) \/ CodesWork(r) \/ MfaRefused(r) \/ MfaAnswer(r)

Next ==
    \/ \E r \in Requests :
         \/ LoginStep(r) \/ VerifyRequest(r) \/ SessionStep(r) \/ PasswordStep(r)
         \/ Unlock(r) \/ MfaRequest(r) \/ LockWork(r) \/ Breaks(r)
    \/ KeysExpire

Spec == Init /\ [][Next]_vars

-----------------------------------------------------------------------------
(* Properties *)

\* A login that nobody overlaps leaves no more live tokens than the limit and
\* keeps its own (serializers.py:182-207).
LimitKept ==
    \A r \in Requests :
        pc[r] = "success" /\ Limit > 0 /\ alone[r] =>
            Cardinality(Live) <= Limit /\ token[own[r]] = "live"

\* After a logout of all sessions every token there was when it listed them is
\* blacklisted, whatever else revoked or rotated some of them meanwhile; it only
\* fails if another request did (views.py:149-153).
LogoutAllEnds ==
    \A r \in Requests :
        /\ pc[r] = "loggedOut" => Live \cap 1..own[r] = {}
        /\ pc[r] = "conflict" => ~alone[r]

SessionsKept == LimitKept /\ LogoutAllEnds

\* Where the tenant requires MFA, a login gets tokens for its password alone only
\* if its device was turned off between the two queries (serializers.py:54-58).
NoBareLogin ==
    \A r \in Requests :
        required /\ pc[r] \in {"count", "evict", "blacklist", "success"} => dropped[r]

\* What MFA promises to a user whose requests overlap: a backup code is single-use
\* (iam_mfa/models.py:36), enrolment makes one device, and no login goes round it.
MfaKept == MFA!CodeAdmitsOnce /\ MFA!OneActiveDevice /\ NoBareLogin

\* A password that was replaced is in the history unless the change that replaced
\* it had loaded an earlier one (serializers.py:350-352).
ReplacedIsRemembered ==
    replaced \ rewrote \subseteq {history[i] : i \in DOMAIN history}

=============================================================================
