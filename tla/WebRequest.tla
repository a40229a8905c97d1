---------------------------- MODULE WebRequest ----------------------------
(***************************************************************************)
(* Requests to one resource of the API, from the rate limit and the        *)
(* idempotency middleware through authentication, the base viewset and     *)
(* serializer with their tenant and audit plugins, and back                *)
(* (core/middleware, core/base, apps/tenants, apps/sys_audit).             *)
(*                                                                         *)
(* The requests are of one user and path and, if they carry one, have one  *)
(* X-Idempotency-Key.  A worker thread serves one request at a time; what  *)
(* authentication binds stays in the thread's context.  No view has a      *)
(* transaction.                                                            *)
(***************************************************************************)
EXTENDS RateLimit, Sequences, FiniteSets

CONSTANTS
    Threads,
    Tenants,
    Names,      \* values of the resource's unique field
    Mixes,      \* bound: which requests come together: their calls, whether rates are limited
    Failures    \* whether a query may fail and a worker be lost

None == "none"

\* tenant: the claim of the JWT.  session: whether the middlewares see an authenticated
\* user, who comes from the Django session and never from the JWT.  keyed: whether the
\* request carries the key.  superuser: of the JWT's user.  deleted: an admin's
\* include_deleted=true.
Calls == [kind : {"create", "update", "delete"}, tenant : Tenants \cup {None},
          session : BOOLEAN, keyed : BOOLEAN, superuser : BOOLEAN, deleted : BOOLEAN]

\* Requests are told apart from what else the idempotency key may hold.
ASSUME WebRequestAssumption ==
    /\ Failures \in BOOLEAN
    /\ \A mix \in Mixes : mix.calls \in [Requests -> Calls] /\ mix.limited \in BOOLEAN
    /\ Requests \cap {"absent", "in_flight", "none"} = {}

VARIABLES
    entry, idemPc, copied, ran, raced,
    call,     \* what each request is, see Calls
    soft,     \* whether the resource's model is soft-deletable
    pc,       \* where each request is
    thread,   \* the thread that serves it
    scope,    \* the scope bound in each thread
    token,    \* the _scope_token on the request: what unbind_scope resets the scope to
    rows,     \* the resource's rows, in the order they were created
    target,   \* the row a request works on
    copy,     \* the instance it has loaded or is to insert
    answer,   \* what the view answered: a 2xx, a 4xx or a 500
    audit,    \* AuditLog
    changed,  \* history: requests that have written a row
    overlap   \* history: rows that two requests worked on at once

IDEM == INSTANCE Idempotency

idemVars  == <<entry, idemPc, copied, ran, raced>>
scopeVars == <<thread, scope, token>>
rowVars   == <<rows, target, copy, answer, audit, changed, overlap>>
vars      == <<rateVars, idemVars, scopeVars, rowVars, call, soft, pc>>

NoRow == 0

Row == [tenant : Tenants, name : Names, by : Requests \cup {None}, state : {"live", "deleted", "gone"}]
Blank == [tenant |-> None, name |-> None, by |-> None, state |-> "blank"]

ViewSteps == {"auth", "permission", "object", "validate", "insert", "save", "remove", "log"}

TypeOK ==
    /\ RateTypeOK /\ IDEM!IdemTypeOK
    /\ call \in [Requests -> Calls] /\ soft \in BOOLEAN
    /\ pc \in [Requests -> {"new", "rate", "idem", "store", "leave", "done", "lost"} \cup ViewSteps]
    /\ thread \in [Requests -> Threads \cup {None}]
    /\ scope \in [Threads -> Tenants \cup {None}]
    /\ token \in [Requests -> Tenants \cup {None, "unset"}]
    /\ rows \in Seq(Row)
    /\ target \in [Requests -> DOMAIN rows \cup {NoRow}]
    /\ copy \in [Requests -> Row \cup {Blank}]
    /\ answer \in [Requests -> {"none", "ok", "refused", "failed"}]
    /\ audit \in Seq([by : Requests, action : {"create", "update", "delete"},
                      row : DOMAIN rows, tenant : Tenants \cup {None}])
    /\ changed \subseteq Requests /\ overlap \subseteq DOMAIN rows

\* There is one row, of one of the tenants.
Init ==
    /\ RateInit /\ IDEM!IdemInit
    /\ \E mix \in Mixes : call = mix.calls /\ limited = mix.limited
    /\ soft \in BOOLEAN
    /\ pc = [r \in Requests |-> "new"]
    /\ thread = [r \in Requests |-> None]
    /\ scope = [t \in Threads |-> None]
    /\ token = [r \in Requests |-> "unset"]
    /\ \E n \in Names, t \in Tenants : rows = <<[tenant |-> t, name |-> n, by |-> None, state |-> "live"]>>
    /\ target = [r \in Requests |-> NoRow] /\ copy = [r \in Requests |-> Blank]
    /\ answer = [r \in Requests |-> "none"]
    /\ audit = <<>> /\ changed = {} /\ overlap = {}

Move(r, from, to) == pc[r] = from /\ pc' = [pc EXCEPT ![r] = to]
Answer(r, a)      == answer' = [answer EXCEPT ![r] = a]
Claim(r)          == call[r].tenant
Scope(r)          == scope[thread[r]]
Busy              == {thread[r] : r \in {q \in Requests : pc[q] \notin {"new", "done", "lost"}}}

KeepRate   == UNCHANGED <<rateVars, call, soft>>
KeepIdem   == UNCHANGED <<entry, idemPc, copied, ran, raced>>
KeepScope  == UNCHANGED scopeVars
KeepRows   == UNCHANGED rowVars
ViewOnly   == KeepRate /\ KeepIdem /\ KeepScope

-----------------------------------------------------------------------------
(* The middlewares: tenant context, rate limit, idempotency *)

Begin(r) ==
    /\ Move(r, "new", "rate")
    /\ \E t \in Threads \ Busy : thread' = [thread EXCEPT ![r] = t]
    /\ UNCHANGED <<scope, token>>
    /\ KeepRate /\ KeepIdem /\ KeepRows

\* A refusal is a ThrottlingError, raised outside of any view.
RateWork(r) ==
    /\ RateStep(r)
    /\ Move(r, "rate", CASE ratePc'[r] = "admitted" -> "idem"
                         [] ratePc'[r] = "limited"  -> "leave"
                         [] OTHER                   -> "rate")
    /\ UNCHANGED <<call, soft>> /\ KeepIdem /\ KeepScope /\ KeepRows

Guarded(r) == call[r].session /\ call[r].keyed

\* On to the view, or 409, or the answer that is stored.
IdemWork(r) ==
    /\ IF Guarded(r) THEN IDEM!IdemGet(r) \/ IDEM!IdemMark(r) ELSE IDEM!IdemThrough(r)
    /\ Move(r, "idem", CASE idemPc'[r] \in {"running", "through"}   -> "auth"
                         [] idemPc'[r] \in {"conflict", "replayed"} -> "leave"
                         [] OTHER                                   -> "idem")
    /\ KeepRate /\ KeepScope /\ KeepRows

\* Whatever the view answers is stored.
IdemStores(r) ==
    /\ Move(r, "store", "leave")
    /\ \/ IDEM!IdemStore(r)
       \/ idemPc[r] = "through" /\ KeepIdem
    /\ KeepRate /\ KeepScope /\ KeepRows

LeaveBound(r) ==
    /\ Move(r, "leave", "done")
    /\ token' = [token EXCEPT ![r] = "unset"]
    /\ UNCHANGED <<thread, scope>>
    /\ KeepRate /\ KeepIdem /\ KeepRows

Bind(r) ==
    /\ token' = [token EXCEPT ![r] = Scope(r)]
    /\ scope' = [scope EXCEPT ![thread[r]] = Claim(r)]

Unbind(r) ==
    /\ token' = [token EXCEPT ![r] = "unset"]
    /\ scope' = [scope EXCEPT ![thread[r]] = token[r]]

\* TenantContextMiddleware: unbind_scope in a finally.
Leave(r) ==
    /\ Move(r, "leave", "done")
    /\ IF token[r] = "unset" THEN UNCHANGED <<scope, token>> ELSE Unbind(r)
    /\ UNCHANGED thread
    /\ KeepRate /\ KeepIdem /\ KeepRows

-----------------------------------------------------------------------------
(* The view: authentication, permissions, lookup, validation, plugins, save *)

\* TenantJWTAuthentication binds the claim, if the token has one.
Authenticate(r) ==
    /\ Move(r, "auth", "permission")
    /\ IF Claim(r) = None THEN UNCHANGED <<scope, token>> ELSE Bind(r)
    /\ UNCHANGED thread
    /\ KeepRate /\ KeepIdem /\ KeepRows

Refuse(r, from) ==
    /\ Move(r, from, "store") /\ Answer(r, "refused")
    /\ UNCHANGED <<rows, target, copy, audit, changed, overlap>>
    /\ ViewOnly

Unauthenticated(r) == Refuse(r, "auth")

\* The action's codename is not granted by any role of the claim's tenant.
Denied(r) == Refuse(r, "permission")

\* An invalid field, or a hook or plugin that raises before the write.
Invalid(r) == Refuse(r, "validate")

ViewPermitsAll(r) == Move(r, "permission", "validate") /\ KeepRows /\ ViewOnly

ViewPermits(r) ==
    /\ Move(r, "permission", IF call[r].kind = "create" THEN "validate" ELSE "object")
    /\ KeepRows /\ ViewOnly

RowsOf(tenant) == {i \in DOMAIN rows : rows[i].tenant = tenant}

\* get_queryset.  The view's queryset was built when the class was loaded: no bound
\* scope narrows it, only the viewset plugin does, and not for superusers.
Queried(r) == IF call[r].superuser THEN DOMAIN rows ELSE RowsOf(Claim(r))

\* SoftDeleteFilterBackend
Undeleted(r) ==
    {i \in DOMAIN rows : rows[i].state \in {"live"} \cup (IF call[r].deleted THEN {"deleted"} ELSE {})}

\* What get_object may find, after TenantFilterBackend too.
Visible(r) == Queried(r) \cap Undeleted(r) \cap RowsOf(Claim(r))

GetObject(r, i) ==
    /\ i \in Visible(r)
    /\ Move(r, "object", IF call[r].kind = "update" THEN "validate" ELSE "remove")
    /\ target' = [target EXCEPT ![r] = i]
    /\ copy' = [copy EXCEPT ![r] = rows[i]]
    /\ overlap' = IF \E q \in Requests \ {r} : target[q] = i /\ pc[q] \in ViewSteps
                  THEN overlap \cup {i} ELSE overlap
    /\ UNCHANGED <<rows, answer, audit, changed>>
    /\ ViewOnly

NotFound(r) == Refuse(r, "object")

\* A row that has the name already, deleted ones included.
Taken(t, n, except) ==
    \E i \in DOMAIN rows \ {except} : rows[i].tenant = t /\ rows[i].name = n /\ rows[i].state # "gone"

\* UniqueTogetherContextValidator queries through the manager, within the bound scope.
Duplicate(r, n) == Scope(r) = Claim(r) /\ Taken(Claim(r), n, NoRow)

\* The tenant plugin puts the claim into the new row; without one it raises.
NewRow(r, n) == [tenant |-> Claim(r), name |-> n, by |-> r, state |-> "live"]

ValidateCreate(r, n) ==
    /\ call[r].kind = "create" /\ Claim(r) # None
    /\ Move(r, "validate", "insert")
    /\ ~Duplicate(r, n)
    /\ copy' = [copy EXCEPT ![r] = NewRow(r, n)]
    /\ UNCHANGED <<rows, target, answer, audit, changed, overlap>>
    /\ ViewOnly

\* setattr of the validated fields on the loaded instance.
ValidateUpdate(r) ==
    /\ call[r].kind = "update"
    /\ Move(r, "validate", "save")
    /\ copy' = [copy EXCEPT ![r].by = r]
    /\ UNCHANGED <<rows, target, answer, audit, changed, overlap>>
    /\ ViewOnly

\* The constraint refuses what the check let through: IntegrityError, answered 400.
Integrity(r) ==
    \/ Taken(copy[r].tenant, copy[r].name, NoRow) /\ Refuse(r, "insert")
    \/ Taken(copy[r].tenant, copy[r].name, target[r]) /\ Refuse(r, "save")

Insert(r) ==
    /\ Move(r, "insert", "log")
    /\ ~Taken(copy[r].tenant, copy[r].name, NoRow)
    /\ rows' = Append(rows, copy[r])
    /\ target' = [target EXCEPT ![r] = Len(rows) + 1]
    /\ changed' = changed \cup {r}
    /\ UNCHANGED <<copy, answer, audit, overlap>>
    /\ ViewOnly

\* save writes every field of the instance, and inserts a row that is gone.
Save(r) ==
    /\ Move(r, "save", "log")
    /\ ~Taken(copy[r].tenant, copy[r].name, target[r])
    /\ rows' = [rows EXCEPT ![target[r]] = copy[r]]
    /\ changed' = changed \cup {r}
    /\ UNCHANGED <<target, copy, answer, audit, overlap>>
    /\ ViewOnly

\* delete: a save with deleted_at set, or a real one.
Remove(r) ==
    /\ Move(r, "remove", "log")
    /\ rows' = IF soft THEN [rows EXCEPT ![target[r]] = [copy[r] EXCEPT !.state = "deleted"]]
                       ELSE [rows EXCEPT ![target[r]].state = "gone"]
    /\ changed' = changed \cup {r}
    /\ UNCHANGED <<target, copy, answer, audit, overlap>>
    /\ ViewOnly

LogNothing(r) ==
    /\ Move(r, "log", "store") /\ Answer(r, "ok")
    /\ UNCHANGED <<rows, target, copy, audit, changed, overlap>>
    /\ ViewOnly

\* AuditLog only takes inserts.
Entry(r) == [by |-> r, action |-> call[r].kind, row |-> target[r], tenant |-> Claim(r)]

\* The audit plugins' log_audit, after the write.
Log(r) ==
    /\ soft \/ call[r].kind # "delete"
    /\ Move(r, "log", "store") /\ Answer(r, "ok")
    /\ audit' = Append(audit, Entry(r))
    /\ UNCHANGED <<rows, target, copy, changed, overlap>>
    /\ ViewOnly

\* A really deleted instance has lost its pk, and target_id may not be null: 400.
LogWithoutPk(r) == ~soft /\ call[r].kind = "delete" /\ Refuse(r, "log")

\* Bound: one request fails.
MayFail == Failures /\ \A q \in Requests : pc[q] # "lost" /\ answer[q] # "failed"

\* A query fails: exception_handler answers 500, nothing is undone.
ViewFails(r) ==
    /\ MayFail /\ pc[r] \in ViewSteps
    /\ pc' = [pc EXCEPT ![r] = "store"] /\ Answer(r, "failed")
    /\ UNCHANGED <<rows, target, copy, audit, changed, overlap>>
    /\ ViewOnly

\* The worker is lost with the context of its thread.
Lost(r) ==
    /\ MayFail /\ pc[r] \notin {"new", "done", "lost"}
    /\ pc' = [pc EXCEPT ![r] = "lost"]
    /\ scope' = [scope EXCEPT ![thread[r]] = None]
    /\ IDEM!IdemLost(r)
    /\ UNCHANGED <<thread, token>>
    /\ KeepRate /\ KeepRows

Expire ==
    /\ \/ WindowEnds /\ KeepIdem /\ UNCHANGED <<call, soft>>
       \/ IDEM!IdemExpires /\ KeepRate
    /\ UNCHANGED pc /\ KeepScope /\ KeepRows

MiddlewareStep(r) ==
    Begin(r) \/ RateWork(r) \/ IdemWork(r) \/ IdemStores(r) \/ Leave(r)

ViewStep(r) ==
    \/ Authenticate(r) \/ Unauthenticated(r) \/ ViewPermits(r) \/ Denied(r) \/ Invalid(r)
    \/ (\E i \in DOMAIN rows : GetObject(r, i)) \/ NotFound(r)
    \/ (\E n \in Names : ValidateCreate(r, n)) \/ ValidateUpdate(r)
    \/ Integrity(r) \/ Insert(r) \/ Save(r) \/ Remove(r)
    \/ Log(r) \/ LogWithoutPk(r) \/ ViewFails(r)

Next ==
    \/ \E r \in Requests : MiddlewareStep(r) \/ ViewStep(r) \/ Lost(r)
    \/ Expire

Spec == Init /\ [][Next]_vars

-----------------------------------------------------------------------------
(* Properties *)

\* One key runs the view once while it lives, but for requests that read it before
\* the mark; who is refused or answered from the store changes nothing, and such an
\* answer is one that a view has made (idempotency.py:89-145).
KeyedOnce ==
    /\ IDEM!OnceUnlessRaced
    /\ \A r \in Requests :
         /\ idemPc[r] \in {"conflict", "replayed"} => r \notin changed /\ answer[r] = "none"
         /\ idemPc[r] = "replayed" => answer[copied[r]] # "none"

\* The tenant of a claim is bound in the thread for exactly as long as the request's
\* view, none when the next request of the thread passes the middlewares, and every
\* row a request wrote is of the tenant it claimed (tenants/authentication.py:35-66,
\* tenants/middleware.py:33-52).
TenantKept ==
    \A r \in Requests :
        /\ pc[r] \in {"rate", "idem", "auth"} => Scope(r) = None
        /\ pc[r] \in ViewSteps \ {"auth"} => Scope(r) = Claim(r)
        /\ r \in changed => rows[target[r]].tenant = Claim(r)

Entries(r) == {i \in DOMAIN audit : audit[i].by = r}

\* The log entry of a change may be missing: it is still to come, the query for it
\* failed, the worker was lost, or the deleted instance has no pk.
Unlogged(r) == r \in changed /\ Entries(r) = {}

ChangesLogged ==
    \A r \in Requests :
        /\ Entries(r) # {} => r \in changed
        /\ answer[r] = "ok" => Cardinality(Entries(r)) = 1
        /\ Unlogged(r) => \/ pc[r] \in {"log", "lost"} \/ answer[r] = "failed"
                          \/ answer[r] = "refused" /\ call[r].kind = "delete" /\ ~soft

\* The last entry about a row agrees with the row.
RowFollowsTrail ==
    \A i \in DOMAIN audit :
        LET e == audit[i]
            row == rows[e.row]
            last == \A j \in DOMAIN audit : audit[j].row = e.row => j <= i
            sure == e.row \notin overlap /\ \A r \in Requests : target[r] = e.row => ~Unlogged(r)
        IN /\ e.tenant = row.tenant
           /\ last /\ sure => IF e.action = "delete" THEN row.state # "live" ELSE row.by = e.by

\* What the audit log tells of the rows whose requests did not overlap: each change
\* answered with success has its one entry, each entry a change, and the last entry
\* of a row says what became of it (sys_audit/plugins.py:40-119).
TrailKept == ChangesLogged /\ RowFollowsTrail

=============================================================================
