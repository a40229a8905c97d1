------------------------------ MODULE Lockout ------------------------------
(***************************************************************************)
(* The lockout of one account (apps/iam_auth/lockout.py): a counter of     *)
(* failed logins and a lock flag, two keys of the cache with a TTL each.   *)
(* Every cache call is a step, and incr is two, EXISTS and INCR; logins    *)
(* and unlocks overlap between them.                                       *)
(***************************************************************************)
EXTENDS Naturals

CONSTANTS
    Requests,     \* requests that touch the account's keys
    MaxAttempts,  \* AUTH_LOCKOUT["MAX_ATTEMPTS"]; 0 turns lockout off
    Expiring      \* whether LOCKOUT_DURATION > 0, so that the keys have a TTL

ASSUME LockoutAssumption == MaxAttempts \in Nat /\ Expiring \in BOOLEAN

VARIABLES
    attempts,  \* the counter, 0 when its key does not exist
    locked,    \* the flag
    older,     \* whether the counter's key was created before the flag was last set
    forever,   \* whether the counter has no TTL: INCR found no key and made one
    undone,    \* history: the flag of a full counter was deleted, or its request was lost
    lockPc     \* where each request is in this module's code

lockVars == <<attempts, locked, older, forever, undone, lockPc>>

LockSteps == {"idle", "admitted", "failing", "exists", "incr", "reset", "locking", "clear", "clear2"}

LockTypeOK ==
    /\ attempts \in Nat
    /\ {locked, older, forever, undone} \subseteq BOOLEAN
    /\ lockPc \in [Requests -> LockSteps]

LockInit ==
    /\ attempts = 0 /\ locked = FALSE /\ older = FALSE /\ forever = FALSE /\ undone = FALSE
    /\ lockPc = [r \in Requests |-> "idle"]

LockGoto(r, from, to) == lockPc[r] = from /\ lockPc' = [lockPc EXCEPT ![r] = to]

\* is_locked: a login goes on only without the flag.
Admit(r) ==
    /\ ~locked
    /\ LockGoto(r, "idle", "admitted")
    /\ UNCHANGED <<attempts, locked, older, forever, undone>>

\* The login of an admitted request ends without a wrong password: refused for
\* another reason, or accepted, which clears the keys.
Leave(r) == LockGoto(r, "admitted", "idle") /\ UNCHANGED <<attempts, locked, older, forever, undone>>

\* clear_lockout is called: by a login that succeeded, an unlock or a password change.
Clear(r, from) == LockGoto(r, from, "clear") /\ UNCHANGED <<attempts, locked, older, forever, undone>>

\* AuthenticationFailed sends login_failed; its receiver records the attempt,
\* unless lockout is off.
Fail(r) ==
    /\ LockGoto(r, "admitted", IF MaxAttempts = 0 THEN "idle" ELSE "failing")
    /\ UNCHANGED <<attempts, locked, older, forever, undone>>

-----------------------------------------------------------------------------
(* record_failed_attempt *)

AfterCountStrict(n) == IF n > MaxAttempts THEN "locking" ELSE "idle"

\* What a recorded attempt does next, by the count it made.
AfterCount(n) == IF n >= MaxAttempts THEN "locking" ELSE "idle"

\* The counter's key is new, with the value 1.
Fresh(r, from, byIncr) ==
    /\ LockGoto(r, from, AfterCount(1))
    /\ attempts' = 1 /\ older' = FALSE /\ forever' = byIncr /\ undone' = FALSE
    /\ UNCHANGED locked

\* cache.add stores 1 if there is no counter.
CounterAdd(r) ==
    \/ attempts = 0 /\ Fresh(r, "failing", ~Expiring)
    \/ /\ attempts > 0
       /\ LockGoto(r, "failing", "exists")
       /\ UNCHANGED <<attempts, locked, older, forever, undone>>

\* cache.incr raises a ValueError if the key has expired since the add ...
CounterExists(r) ==
    /\ LockGoto(r, "exists", IF attempts = 0 THEN "reset" ELSE "incr")
    /\ UNCHANGED <<attempts, locked, older, forever, undone>>

\* ... and makes a key without a TTL if it expires only now.
CounterIncr(r) ==
    \/ attempts = 0 /\ Fresh(r, "incr", TRUE)
    \/ /\ attempts > 0
       /\ LockGoto(r, "incr", AfterCount(attempts + 1))
       /\ attempts' = attempts + 1
       /\ UNCHANGED <<locked, older, forever, undone>>

\* cache.set of 1, over whatever another request has counted by now.
CounterReset(r) == Fresh(r, "reset", ~Expiring)

SetLock(r) ==
    /\ LockGoto(r, "locking", "idle")
    /\ locked' = TRUE /\ older' = TRUE /\ undone' = FALSE
    /\ UNCHANGED <<attempts, forever>>

Record(r) == CounterAdd(r) \/ CounterExists(r) \/ CounterIncr(r) \/ CounterReset(r) \/ SetLock(r)

-----------------------------------------------------------------------------
(* clear_lockout: two deletes *)

ClearAttempts(r) ==
    /\ LockGoto(r, "clear", "clear2")
    /\ attempts' = 0 /\ forever' = FALSE /\ undone' = FALSE
    /\ UNCHANGED <<locked, older>>

ClearLocked(r) ==
    /\ LockGoto(r, "clear2", "idle")
    /\ locked' = FALSE
    /\ undone' = (attempts >= MaxAttempts)
    /\ UNCHANGED <<attempts, older, forever>>

-----------------------------------------------------------------------------
(* TTLs: both keys get LOCKOUT_DURATION when they are set, so the flag outlives
   a counter that was created before it. *)

CounterExpires ==
    /\ attempts > 0 /\ ~forever
    /\ attempts' = 0 /\ undone' = FALSE
    /\ UNCHANGED <<locked, older, forever, lockPc>>

LockExpires ==
    /\ Expiring /\ locked
    /\ attempts > 0 => ~older \/ forever
    /\ locked' = FALSE
    /\ UNCHANGED <<attempts, older, forever, undone, lockPc>>

Expiry == CounterExpires \/ LockExpires

\* The request's worker is lost, or the cache fails.
LockLost(r) ==
    /\ lockPc[r] # "idle"
    /\ lockPc' = [lockPc EXCEPT ![r] = "idle"]
    /\ undone' = (undone \/ (lockPc[r] = "locking" /\ attempts >= MaxAttempts))
    /\ UNCHANGED <<attempts, locked, older, forever>>

LockStep(r) == Record(r) \/ ClearAttempts(r) \/ ClearLocked(r)

LockNext ==
    \/ \E r \in Requests :
         Admit(r) \/ Leave(r) \/ Fail(r) \/ Clear(r, "admitted") \/ Clear(r, "idle") \/ LockStep(r) \/ LockLost(r)
    \/ Expiry

LockSpec == LockInit /\ [][LockNext]_lockVars

-----------------------------------------------------------------------------
(* Properties *)

\* A full counter means a locked account, while the flag is about to be set or
\* unless a clear that overlapped the failures deleted the flag after they were
\* counted, or the request that was to set it was lost, or the counter has no
\* TTL and outlives the flag: no other order of adds, increments, resets and
\* expiries loses the lock (lockout.py:79-93).
LockedOnceCounted ==
    MaxAttempts > 0 /\ attempts >= MaxAttempts =>
        locked \/ undone \/ (Expiring /\ forever) \/ \E r \in Requests : lockPc[r] = "locking"

=============================================================================
