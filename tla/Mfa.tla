-------------------------------- MODULE Mfa --------------------------------
(***************************************************************************)
(* The MFA devices and backup codes of one user in one tenant              *)
(* (apps/iam_mfa): enrolment, disabling, new backup codes, and the proof a *)
(* login challenge asks for.  Every query is a step; there is no lock and  *)
(* no transaction.                                                         *)
(***************************************************************************)
EXTENDS Naturals, Sequences, FiniteSets

CONSTANTS
    Requests,    \* requests that touch the devices
    CodesPerSet  \* AUTH_MFA["backup_code_count"]

VARIABLES
    active,  \* is_active of the devices, in the order they were created
    rows,    \* the backup codes: what became of each code of each set
    owner,   \* the device of each set of codes
    shown,   \* the sets the user was told
    mfaPc,   \* where each request is in this module's code
    dev,     \* the device a request has found
    code,    \* the backup code a verification has matched
    uses,    \* history: verifications each code has passed
    raced,   \* history: codes that two verifications had matched at once
    late,    \* history: devices confirmed after another confirmation overtook them
    clear    \* history: no device was confirmed since a request's setup check

mfaVars == <<active, rows, owner, shown, mfaPc, dev, code, uses, raced, late, clear>>

NoDevice == 0
First    == "first"              \* the set of codes there may be at the beginning
Sets     == Requests \cup {First}
Codes    == Sets \X (1..CodesPerSet)
NoCode   == <<>>
Devices  == DOMAIN active

Steps == {"idle", "enrol", "disable", "found", "off", "codes", "create", "match", "use", "passed"}

MfaTypeOK ==
    /\ active \in Seq(BOOLEAN)
    /\ rows \in [Codes -> {"none", "unused", "used", "deleted"}]
    /\ owner \in [Sets -> Devices \cup {NoDevice}]
    /\ shown \subseteq Sets
    /\ mfaPc \in [Requests -> Steps]
    /\ dev \in [Requests -> Devices \cup {NoDevice}]
    /\ code \in [Requests -> Codes \cup {NoCode}]
    /\ uses \in [Codes -> Nat]
    /\ raced \subseteq Codes
    /\ late \subseteq Devices
    /\ clear \in [Requests -> BOOLEAN]

\* No device, or one with a fresh set of codes.
MfaInit ==
    /\ active \in {<<>>, <<TRUE>>}
    /\ rows = [c \in Codes |-> IF c[1] = First /\ active # <<>> THEN "unused" ELSE "none"]
    /\ owner = [s \in Sets |-> IF s = First /\ active # <<>> THEN 1 ELSE NoDevice]
    /\ shown = IF active # <<>> THEN {First} ELSE {}
    /\ mfaPc = [r \in Requests |-> "idle"]
    /\ dev = [r \in Requests |-> NoDevice]
    /\ code = [r \in Requests |-> NoCode]
    /\ uses = [c \in Codes |-> 0]
    /\ raced = {} /\ late = {}
    /\ clear = [r \in Requests |-> FALSE]

\* MFADevice.objects.filter(user=..., is_active=True).first(), newest first.
Active == {d \in Devices : active[d]}
Newest == IF Active = {} THEN NoDevice ELSE CHOOSE d \in Active : \A e \in Active : e <= d

MfaGoto(r, from, to) == mfaPc[r] = from /\ mfaPc' = [mfaPc EXCEPT ![r] = to]
Find(r)              == Newest # NoDevice /\ dev' = [dev EXCEPT ![r] = Newest]
Deleted(d)           == [c \in Codes |-> IF owner[c[1]] = d /\ rows[c] # "none"
                                         THEN "deleted" ELSE rows[c]]

-----------------------------------------------------------------------------
(* Enrolment: two requests of the client, the secret travels with it *)

\* MFASetupSerializer: only for a user without an active device.
Setup(r) ==
    /\ Newest = NoDevice
    /\ MfaGoto(r, "idle", "enrol")
    /\ clear' = [clear EXCEPT ![r] = TRUE]
    /\ UNCHANGED <<active, rows, owner, shown, dev, code, uses, raced, late>>

\* MFAConfirmSetupSerializer: creates an active device, whatever devices there are.
Confirm(r) ==
    /\ MfaGoto(r, "enrol", "idle")
    /\ active' = Append(active, TRUE)
    /\ late' = IF clear[r] THEN late ELSE late \cup {Len(active) + 1}
    /\ clear' = [q \in Requests |-> FALSE]
    /\ UNCHANGED <<rows, owner, shown, dev, code, uses, raced>>

-----------------------------------------------------------------------------
(* MFADisableSerializer *)

\* validate_code: the code is right for the newest active device.
DisableCheck(r) ==
    /\ Newest # NoDevice
    /\ MfaGoto(r, "idle", "disable")
    /\ UNCHANGED <<active, rows, owner, shown, dev, code, uses, raced, late, clear>>

\* save looks for the device again.
DisableFind(r) ==
    /\ \/ Find(r) /\ MfaGoto(r, "disable", "found")
       \/ Newest = NoDevice /\ MfaGoto(r, "disable", "idle") /\ UNCHANGED dev
    /\ UNCHANGED <<active, rows, owner, shown, code, uses, raced, late, clear>>

DisableOff(r) ==
    /\ MfaGoto(r, "found", "off")
    /\ active' = [active EXCEPT ![dev[r]] = FALSE]
    /\ UNCHANGED <<rows, owner, shown, dev, code, uses, raced, late, clear>>

DisableCodes(r) ==
    /\ MfaGoto(r, "off", "idle")
    /\ rows' = Deleted(dev[r])
    /\ UNCHANGED <<active, owner, shown, dev, code, uses, raced, late, clear>>

-----------------------------------------------------------------------------
(* MFABackupCodeSerializer: delete the old codes, create the new ones one by one *)

CodesFind(r) ==
    /\ Find(r)
    /\ MfaGoto(r, "idle", "codes")
    /\ UNCHANGED <<active, rows, owner, shown, code, uses, raced, late, clear>>

CodesDelete(r) ==
    /\ MfaGoto(r, "codes", "create")
    /\ rows' = Deleted(dev[r])
    /\ owner' = [owner EXCEPT ![r] = dev[r]]
    /\ UNCHANGED <<active, shown, dev, code, uses, raced, late, clear>>

CodesCreate(r) ==
    /\ mfaPc[r] = "create"
    /\ \E n \in 1..CodesPerSet :
         /\ rows[<<r, n>>] = "none" /\ \A m \in 1..(n - 1) : rows[<<r, m>>] # "none"
         /\ rows' = [rows EXCEPT ![<<r, n>>] = "unused"]
    /\ UNCHANGED <<active, owner, shown, mfaPc, dev, code, uses, raced, late, clear>>

CodesAnswer(r) ==
    /\ \A n \in 1..CodesPerSet : rows[<<r, n>>] # "none"
    /\ MfaGoto(r, "create", "idle")
    /\ shown' = shown \cup {r}
    /\ UNCHANGED <<active, rows, owner, dev, code, uses, raced, late, clear>>

-----------------------------------------------------------------------------
(* MFALoginVerifySerializer, after the challenge token was verified *)

VerifyFind(r) ==
    /\ Find(r)
    /\ MfaGoto(r, "idle", "match")
    /\ UNCHANGED <<active, rows, owner, shown, code, uses, raced, late, clear>>

\* The code is the device's TOTP.
VerifyTotp(r) ==
    /\ MfaGoto(r, "match", "passed")
    /\ UNCHANGED <<active, rows, owner, shown, dev, code, uses, raced, late, clear>>

MatchAny(r, c) == rows[c] # "none" /\ owner[c[1]] = dev[r]
Matches(r, c)  == rows[c] = "unused" /\ owner[c[1]] = dev[r]

\* It is one of the device's backup codes with is_used=False.
VerifyMatch(r, c) ==
    /\ c[1] \in shown
    /\ Matches(r, c)
    /\ MfaGoto(r, "match", "use")
    /\ code' = [code EXCEPT ![r] = c]
    /\ raced' = IF \E q \in Requests : mfaPc[q] = "use" /\ code[q] = c
                THEN raced \cup {c} ELSE raced
    /\ UNCHANGED <<active, rows, owner, shown, dev, uses, late, clear>>

\* The code is neither: refused.
VerifyWrong(r) ==
    /\ MfaGoto(r, "match", "idle")
    /\ UNCHANGED <<active, rows, owner, shown, dev, code, uses, raced, late, clear>>

\* matched_backup.save(update_fields=["is_used"])
VerifyUse(r) ==
    /\ MfaGoto(r, "use", "passed")
    /\ rows[code[r]] # "deleted"
    /\ rows' = [rows EXCEPT ![code[r]] = "used"]
    /\ uses' = [uses EXCEPT ![code[r]] = @ + 1]
    /\ UNCHANGED <<active, owner, shown, dev, code, raced, late, clear>>

\* The row is gone: a save of named fields that updates nothing raises.
VerifyUseFails(r) ==
    /\ MfaGoto(r, "use", "idle")
    /\ rows[code[r]] = "deleted"
    /\ UNCHANGED <<active, rows, owner, shown, dev, code, uses, raced, late, clear>>

VerifyStep(r)  == VerifyTotp(r) \/ (\E c \in Codes : VerifyMatch(r, c)) \/ VerifyUse(r)
DisableStep(r) == DisableFind(r) \/ DisableOff(r) \/ DisableCodes(r)
CodesStep(r)   == CodesDelete(r) \/ CodesCreate(r) \/ CodesAnswer(r)

-----------------------------------------------------------------------------
(* Properties *)

\* A backup code passes one verification, unless another had matched it before
\* the first one saved it as used (serializers.py:290-308).
CodeAdmitsOnce == \A c \in Codes : uses[c] <= 1 \/ c \in raced

\* Of the active devices all but one were confirmed after a confirmation that
\* came between their setup check and their own (serializers.py:25, 88).
OneActiveDevice == Cardinality(Active \ late) <= 1

=============================================================================
