-------------------------- MODULE WebRequestProofs --------------------------
(***************************************************************************)
(* The rate limit, the idempotency key, the tenant scope and the audit     *)
(* trail of requests, for any number of requests, threads, tenants and     *)
(* rows, every overlap and every failure.                                  *)
(***************************************************************************)
EXTENDS WebRequest, FiniteSetTheorems, TLAPS

-----------------------------------------------------------------------------
(* The rate limit *)

RateInv == RateTypeOK /\ WindowKept

\* rate_limit.py:170-178: add, EXISTS, INCR and the repair keep count and requests in step.
LEMMA RateKept ==
    ASSUME RateInv, RateNext
    PROVE  RateInv'
<1>. USE RateLimitAssumption DEF RateInv, WindowKept
<1>. DEFINE PcTypes == [Requests -> {"new", "exists", "incr", "repair", "admitted", "limited"}]
<1>1. ASSUME NEW r \in Requests, RateStep(r) PROVE RateTypeOK'
  <2>1. ratePc' \in PcTypes
    BY <1>1 DEF RateStep, RateSkip, RateAdd, RateExists, RateIncr, RateRepair, RateGoto, RateTypeOK
  <2>2. count' \in Nat /\ admitted' \in Nat
    BY <1>1 DEF RateStep, RateSkip, RateAdd, RateExists, RateIncr, RateRepair, StartWindow, RateTypeOK
  <2>3. {forever, limited, overwritten}' \subseteq BOOLEAN
    BY <1>1 DEF RateStep, RateSkip, RateAdd, RateExists, RateIncr, RateRepair, StartWindow, RateTypeOK
  <2>. QED
    BY <2>1, <2>2, <2>3 DEF RateTypeOK
<1>2. ASSUME NEW r \in Requests, RateStep(r) PROVE WindowKept'
  <2>. USE DEF RateTypeOK
  <2>1. CASE RateSkip(r)
    BY <2>1 DEF RateSkip
  <2>2. CASE RateAdd(r)
    BY <2>2 DEF RateAdd, StartWindow
  <2>3. CASE RateExists(r)
    BY <2>3 DEF RateExists
  <2>4. CASE RateIncr(r)
    BY <2>4 DEF RateIncr, Over
  <2>5. CASE RateRepair(r)
    BY <2>5 DEF RateRepair, StartWindow
  <2>. QED
    BY <1>2, <2>1, <2>2, <2>3, <2>4, <2>5 DEF RateStep
<1>3. CASE WindowEnds
  <2>1. count' = 0 /\ admitted' = 0 /\ UNCHANGED ratePc
    BY <1>3 DEF WindowEnds
  <2>2. {forever, limited, overwritten}' \subseteq BOOLEAN
    BY <1>3 DEF WindowEnds, RateTypeOK
  <2>. QED
    BY <2>1, <2>2 DEF RateTypeOK
<1>. QED
  BY <1>1, <1>2, <1>3 DEF RateNext

\* The rest of a request leaves the counter alone.
LEMMA StepOnRate ==
    ASSUME [Next]_vars
    PROVE  [RateNext]_rateVars
<1>1. ASSUME NEW r \in Requests, MiddlewareStep(r) PROVE [RateNext]_rateVars
  BY <1>1 DEF MiddlewareStep, Begin, RateWork, IdemWork, IdemStores, Leave, KeepRate, RateNext
<1>2. ASSUME NEW r \in Requests, ViewStep(r) PROVE UNCHANGED rateVars
  BY <1>2 DEF ViewStep, Authenticate, Unauthenticated, ViewPermits, Denied, Invalid, GetObject, NotFound,
              ValidateCreate, ValidateUpdate, Integrity, Insert, Save, Remove, Log, LogWithoutPk, ViewFails,
              Refuse, ViewOnly, KeepRate
<1>3. ASSUME NEW r \in Requests, Lost(r) PROVE UNCHANGED rateVars
  BY <1>3 DEF Lost, KeepRate
<1>4. CASE Expire
  BY <1>4 DEF Expire, KeepRate, RateNext
<1>5. CASE UNCHANGED vars
  BY <1>5 DEF vars
<1>. QED
  BY <1>1, <1>2, <1>3, <1>4, <1>5 DEF Next

\* The counter alone is what the windows rest on (rate_limit.py:150-190).
LEMMA RateInvariant == Spec => []RateInv
<1>1. Init => RateInv
  <2>. SUFFICES ASSUME RateInit PROVE RateInv
    BY DEF Init
  <2>1. count = 0 /\ admitted = 0 /\ ratePc = [r \in Requests |-> "new"]
    BY DEF RateInit
  <2>2. {forever, limited, overwritten} \subseteq BOOLEAN
    BY DEF RateInit
  <2>. QED
    BY <2>1, <2>2 DEF RateInv, RateTypeOK, WindowKept
<1>2. RateInv /\ [Next]_vars => RateInv'
  <2>1. RateInv /\ UNCHANGED rateVars => RateInv'
    BY DEF RateInv, RateTypeOK, WindowKept, rateVars
  <2>. QED
    BY <2>1, StepOnRate, RateKept
<1>. QED
  BY <1>1, <1>2, PTL DEF Spec

\* No window admits more requests than its rate, but for the first one and a
\* repair over somebody else's count (rate_limit.py:170-178).
THEOREM WindowKeptCorrect == Spec => []WindowKept
<1>1. RateInv => WindowKept
  BY DEF RateInv
<1>. QED
  BY <1>1, RateInvariant, PTL

\* Whatever middlewares and views do around it, the counter goes through a behaviour of the
\* rate limit alone (rate_limit.py:150-190).
THEOREM RequestImplementsRateLimit == Spec => RateSpec
<1>1. Init => RateInit
  BY DEF Init
<1>2. [Next]_vars => [RateNext]_rateVars
  BY StepOnRate
<1>. QED
  BY <1>1, <1>2, PTL DEF Spec, RateSpec

-----------------------------------------------------------------------------
(* The idempotency key *)

\* While requests have run under the key it is there, and who has read its absence
\* and not yet marked it is on record; so the next to run is, too.
OnceInv ==
    /\ IDEM!IdemTypeOK
    /\ ran # {} => entry # IDEM!NoEntry /\ \A q \in Requests : idemPc[q] = "mark" => q \in raced
    /\ IDEM!OnceUnlessRaced

\* idempotency.py:89-145, step by step.
LEMMA OnceKept ==
    ASSUME OnceInv, IDEM!IdemNext
    PROVE  OnceInv'
<1>. USE WebRequestAssumption DEF OnceInv, IDEM!IdemTypeOK, IDEM!IdemGoto, IDEM!NoEntry, IDEM!InFlight, IDEM!NoAnswer, IDEM!OnceUnlessRaced
<1>1. ASSUME NEW r \in Requests, IDEM!IdemThrough(r) PROVE OnceInv'
  BY <1>1 DEF IDEM!IdemThrough
<1>2. ASSUME NEW r \in Requests, IDEM!IdemGet(r) PROVE OnceInv'
  <2>1. CASE entry = IDEM!NoEntry
    BY <1>2, <2>1 DEF IDEM!IdemGet
  <2>2. CASE entry # IDEM!NoEntry
    BY <1>2, <2>2 DEF IDEM!IdemGet
  <2>. QED
    BY <2>1, <2>2
<1>3. ASSUME NEW r \in Requests, IDEM!IdemMark(r) PROVE OnceInv'
  <2>1. IDEM!IdemTypeOK'
    BY <1>3 DEF IDEM!IdemMark, IDEM!Readers
  <2>2. \A q \in Requests : idemPc'[q] = "mark" => q \in raced'
    BY <1>3 DEF IDEM!IdemMark, IDEM!Readers
  <2>3. CASE ran = {}
    BY <1>3, <2>1, <2>2, <2>3 DEF IDEM!IdemMark
  <2>4. CASE ran # {}
    <3>1. r \in raced
      BY <1>3, <2>4 DEF IDEM!IdemMark
    <3>. QED
      BY <1>3, <2>1, <2>2, <3>1 DEF IDEM!IdemMark
  <2>. QED
    BY <2>3, <2>4
<1>4. ASSUME NEW r \in Requests, IDEM!IdemStore(r) PROVE OnceInv'
  BY <1>4 DEF IDEM!IdemStore
<1>5. ASSUME NEW r \in Requests, IDEM!IdemLost(r) PROVE OnceInv'
  BY <1>5 DEF IDEM!IdemLost
<1>6. CASE IDEM!IdemExpires
  BY <1>6 DEF IDEM!IdemExpires
<1>. QED
  BY <1>1, <1>2, <1>3, <1>4, <1>5, <1>6 DEF IDEM!IdemNext, IDEM!IdemStep

-----------------------------------------------------------------------------
(* What the steps of a request change *)

Flow == DOMAIN pc = Requests /\ DOMAIN answer = Requests

\* A view leaves the key alone, moves on inside the view or to "store", where it has an
\* answer, and changes rows only as its own request.
LEMMA ViewEffect ==
    ASSUME Flow, NEW r \in Requests, ViewStep(r)
    PROVE  /\ pc[r] \in ViewSteps /\ pc'[r] \in (ViewSteps \ {"auth"}) \cup {"store"}
           /\ DOMAIN pc' = Requests /\ \A q \in Requests \ {r} : pc'[q] = pc[q] /\ answer'[q] = answer[q]
           /\ DOMAIN answer' = Requests
           /\ answer'[r] = answer[r] \/ answer'[r] # "none"
           /\ pc'[r] = "store" => answer'[r] # "none"
           /\ changed \subseteq changed' /\ changed' \subseteq changed \cup {r}
           /\ UNCHANGED <<entry, idemPc, copied, ran, raced, call, soft, thread>>
<1>. USE DEF Flow, ViewSteps, Move, Answer, Refuse, ViewOnly, KeepIdem, KeepRate, KeepScope, KeepRows, scopeVars, rowVars
<1>1. CASE Authenticate(r)
  BY <1>1 DEF Authenticate
<1>2. CASE Unauthenticated(r) \/ Denied(r) \/ Invalid(r) \/ NotFound(r) \/ Integrity(r) \/ LogWithoutPk(r)
  BY <1>2 DEF Unauthenticated, Denied, Invalid, NotFound, Integrity, LogWithoutPk
<1>3. CASE ViewPermits(r)
  BY <1>3 DEF ViewPermits
<1>4. CASE \E i \in DOMAIN rows : GetObject(r, i)
  BY <1>4 DEF GetObject
<1>5. CASE (\E n \in Names : ValidateCreate(r, n)) \/ ValidateUpdate(r)
  BY <1>5 DEF ValidateCreate, ValidateUpdate
<1>6. CASE Insert(r) \/ Save(r) \/ Remove(r)
  BY <1>6 DEF Insert, Save, Remove
<1>7. CASE Log(r)
  BY <1>7 DEF Log
<1>8. CASE ViewFails(r)
  BY <1>8 DEF ViewFails
<1>. QED
  BY <1>1, <1>2, <1>3, <1>4, <1>5, <1>6, <1>7, <1>8 DEF ViewStep

-----------------------------------------------------------------------------
(* Keyed requests *)

\* What KeyedOnce says of answers is inductive with: who is not past the middlewares
\* has changed nothing and answered nothing; who stores has an answer; and a refused
\* or replayed request is not in a view.
KeyInv ==
    /\ OnceInv /\ Flow
    /\ entry \in Requests => answer[entry] # "none"
    /\ \A r \in Requests :
         /\ pc[r] \in {"new", "rate", "idem"} => r \notin changed /\ answer[r] = "none"
         /\ pc[r] = "store" => answer[r] # "none"
         /\ idemPc[r] \in {"conflict", "replayed"} =>
                pc[r] \notin ViewSteps /\ r \notin changed /\ answer[r] = "none"
         /\ idemPc[r] = "replayed" => copied[r] \in Requests /\ answer[copied[r]] # "none"

\* What a request does with the key is a step of the key.
LEMMA StepOnKey ==
    ASSUME Flow, [Next]_vars
    PROVE  [IDEM!IdemNext]_idemVars
<1>1. ASSUME NEW r \in Requests, MiddlewareStep(r) PROVE [IDEM!IdemNext]_idemVars
  BY <1>1 DEF MiddlewareStep, Begin, RateWork, IdemWork, IdemStores, Leave, KeepIdem, IDEM!IdemNext, IDEM!IdemStep,
              idemVars
<1>2. ASSUME NEW r \in Requests, ViewStep(r) PROVE UNCHANGED idemVars
  BY <1>2, ViewEffect DEF idemVars
<1>3. ASSUME NEW r \in Requests, Lost(r) PROVE [IDEM!IdemNext]_idemVars
  BY <1>3 DEF Lost, IDEM!IdemNext, IDEM!IdemStep
<1>4. CASE Expire
  BY <1>4 DEF Expire, KeepIdem, IDEM!IdemNext, idemVars
<1>5. CASE UNCHANGED vars
  BY <1>5 DEF vars, idemVars
<1>. QED
  BY <1>1, <1>2, <1>3, <1>4, <1>5 DEF Next

\* The key's own invariant does not ask what requests are.
LEMMA StepKeepsOnce ==
    ASSUME KeyInv, [Next]_vars
    PROVE  OnceInv'
<1>1. OnceInv /\ UNCHANGED idemVars => OnceInv'
  BY DEF OnceInv, idemVars, IDEM!IdemTypeOK, IDEM!OnceUnlessRaced
<1>. QED
  BY <1>1, StepOnKey, OnceKept DEF KeyInv

\* The middlewares change no row and no answer.
LEMMA MiddlewareKeepsKey ==
    ASSUME KeyInv, OnceInv', NEW r \in Requests, MiddlewareStep(r)
    PROVE  KeyInv'
<1>. USE WebRequestAssumption DEF KeyInv, Flow, OnceInv, ViewSteps, Move, KeepRows, rowVars, KeepIdem,
         IDEM!IdemTypeOK
<1>1. CASE Begin(r)
  BY <1>1 DEF Begin
<1>2. CASE RateWork(r)
  BY <1>2 DEF RateWork
<1>3. CASE IdemWork(r)
  <2>. USE DEF IDEM!IdemGoto, IDEM!NoEntry, IDEM!InFlight, IDEM!NoAnswer
  <2>1. CASE IDEM!IdemGet(r)
    BY <1>3, <2>1 DEF IdemWork, IDEM!IdemGet
  <2>2. CASE IDEM!IdemMark(r)
    BY <1>3, <2>2 DEF IdemWork, IDEM!IdemMark
  <2>3. CASE IDEM!IdemThrough(r)
    BY <1>3, <2>3 DEF IdemWork, IDEM!IdemThrough
  <2>. QED
    BY <1>3, <2>1, <2>2, <2>3 DEF IdemWork
<1>4. CASE IdemStores(r)
  BY <1>4 DEF IdemStores, IDEM!IdemStore, IDEM!IdemGoto
<1>5. CASE Leave(r)
  BY <1>5 DEF Leave
<1>. QED
  BY <1>1, <1>2, <1>3, <1>4, <1>5 DEF MiddlewareStep

\* The view writes rows only for a request that holds the mark or has no key
\* (core/base/serializers.py:95-150 inside idempotency.py:89-145).
LEMMA ViewKeepsKey ==
    ASSUME KeyInv, OnceInv', NEW r \in Requests, ViewStep(r)
    PROVE  KeyInv'
<1>1. Flow
  BY DEF KeyInv
<1>2. /\ pc[r] \in ViewSteps /\ pc'[r] \in (ViewSteps \ {"auth"}) \cup {"store"}
      /\ DOMAIN pc' = Requests /\ \A q \in Requests \ {r} : pc'[q] = pc[q] /\ answer'[q] = answer[q]
      /\ DOMAIN answer' = Requests
      /\ answer'[r] = answer[r] \/ answer'[r] # "none"
      /\ pc'[r] = "store" => answer'[r] # "none"
      /\ changed \subseteq changed' /\ changed' \subseteq changed \cup {r}
      /\ UNCHANGED <<entry, idemPc, copied>>
  BY <1>1, ViewEffect
<1>3. \A q \in Requests : answer[q] # "none" => answer'[q] # "none"
  BY <1>2
<1>. QED
  BY <1>2, <1>3 DEF KeyInv, Flow, ViewSteps

\* A lost worker leaves the mark, an expiry takes it: neither changes rows.
LEMMA RestKeepsKey ==
    ASSUME KeyInv, OnceInv', (\E r \in Requests : Lost(r)) \/ Expire \/ UNCHANGED vars
    PROVE  KeyInv'
<1>. USE DEF KeyInv, Flow, KeepRows, rowVars, KeepIdem
<1>1. ASSUME NEW r \in Requests, Lost(r) PROVE KeyInv'
  BY <1>1 DEF Lost, IDEM!IdemLost, OnceInv, IDEM!IdemTypeOK, ViewSteps
<1>2. CASE Expire
  BY <1>2, WebRequestAssumption DEF Expire, IDEM!IdemExpires, IDEM!NoEntry
<1>3. CASE UNCHANGED vars
  BY <1>3 DEF vars, idemVars
<1>. QED
  BY <1>1, <1>2, <1>3

\* The key and the answers of the requests that carry it (idempotency.py:89-145).
LEMMA KeyInvariant == Spec => []KeyInv
<1>1. Init => KeyInv
  BY WebRequestAssumption
     DEF Init, KeyInv, Flow, OnceInv, IDEM!IdemInit, IDEM!IdemTypeOK, IDEM!NoEntry, IDEM!NoAnswer, IDEM!OnceUnlessRaced
<1>2. KeyInv /\ [Next]_vars => KeyInv'
  BY StepKeepsOnce, MiddlewareKeepsKey, ViewKeepsKey, RestKeepsKey DEF Next
<1>. QED
  BY <1>1, <1>2, PTL DEF Spec

\* One key runs the view once while it lives, but for requests that read it before the
\* mark, and what is refused or replayed changes nothing (idempotency.py:89-145).
THEOREM KeyedOnceCorrect == Spec => []KeyedOnce
<1>1. KeyInv => KeyedOnce
  BY DEF KeyInv, OnceInv, KeyedOnce
<1>. QED
  BY <1>1, KeyInvariant, PTL

\* Whatever else requests do, fail at, or are lost in, the key goes through a behaviour of
\* the middleware alone (idempotency.py:89-145).
THEOREM RequestImplementsIdempotency == Spec => IDEM!IdemSpec
<1>1. Init => IDEM!IdemInit
  BY DEF Init
<1>2. KeyInv /\ [Next]_vars => [IDEM!IdemNext]_(IDEM!idemVars)
  BY StepOnKey DEF KeyInv, idemVars, IDEM!idemVars
<1>. QED
  BY <1>1, <1>2, KeyInvariant, PTL DEF Spec, IDEM!IdemSpec

-----------------------------------------------------------------------------
(* The scope bound in a thread *)

Serving(r) == pc[r] \notin {"new", "done", "lost"}

\* Threads serve one request at a time, and between Authenticate and Leave the
\* context variable and the token that resets it belong to that request.
ScopeInv ==
    /\ Flow /\ DOMAIN token = Requests /\ DOMAIN scope = Threads /\ DOMAIN thread = Requests
    /\ \A r \in Requests :
         /\ Serving(r) => thread[r] \in Threads /\ \A q \in Requests \ {r} : Serving(q) => thread[q] # thread[r]
         /\ pc[r] = "new" => token[r] = "unset"
         /\ Serving(r) =>
              \/ token[r] = "unset" /\ Scope(r) = None /\ (pc[r] \in ViewSteps \ {"auth"} => Claim(r) = None)
              \/ token[r] = None /\ Scope(r) = Claim(r) /\ pc[r] \notin {"rate", "idem", "auth"}
    /\ \A t \in Threads : scope[t] = None \/ \E r \in Requests : Serving(r) /\ thread[r] = t

\* A step that binds and unbinds nothing, and goes from "auth" to no other step of the view.
LEMMA KeepsScope ==
    ASSUME ScopeInv, NEW r \in Requests, Serving(r), UNCHANGED <<scopeVars, call>>,
           DOMAIN pc' = Requests, DOMAIN answer' = Requests, \A q \in Requests \ {r} : pc'[q] = pc[q],
           pc'[r] \notin {"new", "done", "lost"},
           pc[r] \in {"rate", "idem", "auth"} \/ pc'[r] \notin {"rate", "idem", "auth"},
           pc'[r] \in ViewSteps \ {"auth"} => pc[r] \in ViewSteps \ {"auth"}
    PROVE  ScopeInv'
  BY DEF ScopeInv, Serving, Scope, Claim, Flow, scopeVars

\* tenants/middleware.py:33-52
LEMMA MiddlewareKeepsScope ==
    ASSUME ScopeInv, NEW r \in Requests, MiddlewareStep(r)
    PROVE  ScopeInv'
<1>1. CASE Begin(r)
  <2>1. PICK t \in Threads \ Busy : thread' = [thread EXCEPT ![r] = t]
    BY <1>1 DEF Begin
  <2>2. scope[t] = None /\ \A q \in Requests : Serving(q) => thread[q] # t
    BY <2>1 DEF ScopeInv, Busy, Serving
  <2>. QED
    BY <1>1, <2>1, <2>2 DEF Begin, Move, ScopeInv, Serving, Scope, Claim, Flow, KeepRows, rowVars, KeepRate, ViewSteps
<1>2. CASE RateWork(r) \/ IdemWork(r) \/ IdemStores(r)
  <2>. USE DEF RateWork, IdemWork, IdemStores, Move, KeepRate, KeepScope, KeepRows, rowVars, ScopeInv, Flow, Serving, ViewSteps
  <2>1. UNCHANGED <<scopeVars, call>> /\ DOMAIN pc' = Requests /\ DOMAIN answer' = Requests
    BY <1>2
  <2>2. Serving(r) /\ pc'[r] \notin {"new", "done", "lost"} /\ \A q \in Requests \ {r} : pc'[q] = pc[q]
    BY <1>2
  <2>3. /\ pc[r] \in {"rate", "idem", "auth"} \/ pc'[r] \notin {"rate", "idem", "auth"}
        /\ pc'[r] \notin ViewSteps \ {"auth"}
    BY <1>2
  <2>. QED
    BY <2>1, <2>2, <2>3, KeepsScope
<1>3. CASE Leave(r)
  <2>. USE DEF Leave, Move, ScopeInv, Serving, Scope, Claim, Flow, KeepRows, rowVars, KeepRate
  <2>1. CASE token[r] = "unset"
    <3>1. scope[thread[r]] = None
      BY <1>3, <2>1 DEF None
    <3>2. UNCHANGED <<scope, token, thread, call, answer>> /\ pc' = [pc EXCEPT ![r] = "done"]
      BY <1>3, <2>1
    <3>3. \A t \in Threads : scope'[t] = None \/ \E q \in Requests : Serving(q)' /\ thread'[q] = t
      BY <3>1, <3>2
    <3>. QED
      BY <3>2, <3>3
  <2>2. CASE token[r] # "unset"
    BY <1>3, <2>2 DEF Unbind
  <2>. QED
    BY <2>1, <2>2
<1>. QED
  BY <1>1, <1>2, <1>3 DEF MiddlewareStep

\* tenants/authentication.py:35-66
LEMMA ViewKeepsScope ==
    ASSUME ScopeInv, NEW r \in Requests, ViewStep(r)
    PROVE  ScopeInv'
<1>1. Flow
  BY DEF ScopeInv
<1>2. CASE Authenticate(r)
  <2>. USE DEF Authenticate, Move, ScopeInv, Serving, Scope, Claim, Flow, KeepRows, rowVars, KeepRate, ViewSteps
  <2>1. CASE Claim(r) = None
    BY <1>2, <2>1
  <2>2. CASE Claim(r) # None
    BY <1>2, <2>2 DEF Bind
  <2>. QED
    BY <2>1, <2>2
<1>3. CASE ~Authenticate(r)
  <2>1. UNCHANGED scopeVars
    BY <1>3 DEF ViewStep, Unauthenticated, ViewPermits, Denied, Invalid, GetObject, NotFound,
              ValidateCreate, ValidateUpdate, Integrity, Insert, Save, Remove, Log, LogWithoutPk, ViewFails,
              Refuse, ViewOnly, KeepScope
  <2>2. pc[r] = "auth" => pc'[r] = "store"
    BY <1>1, <1>3 DEF ViewStep, Unauthenticated, ViewPermits, Denied, Invalid, GetObject, NotFound, Flow,
              ValidateCreate, ValidateUpdate, Integrity, Insert, Save, Remove, Log, LogWithoutPk, ViewFails,
              Refuse, Move
  <2>3. /\ pc[r] \in ViewSteps /\ pc'[r] \in (ViewSteps \ {"auth"}) \cup {"store"}
        /\ DOMAIN pc' = Requests /\ \A q \in Requests \ {r} : pc'[q] = pc[q]
        /\ DOMAIN answer' = Requests /\ UNCHANGED call
    BY <1>1, ViewEffect
  <2>4. Serving(r) /\ pc'[r] \notin {"new", "done", "lost", "rate", "idem", "auth"}
    BY <2>3 DEF Serving, ViewSteps
  <2>5. pc'[r] \in ViewSteps \ {"auth"} => pc[r] \in ViewSteps \ {"auth"}
    BY <2>2, <2>3 DEF ViewSteps
  <2>. QED
    BY <2>1, <2>3, <2>4, <2>5, KeepsScope
<1>. QED
  BY <1>2, <1>3

\* A lost worker serves no further request with what it has bound.
LEMMA RestKeepsScope ==
    ASSUME ScopeInv, (\E r \in Requests : Lost(r)) \/ Expire \/ UNCHANGED vars
    PROVE  ScopeInv'
<1>. USE DEF ScopeInv, Serving, Scope, Claim, Flow, KeepRows, rowVars, KeepRate, KeepScope, scopeVars
<1>1. ASSUME NEW r \in Requests, Lost(r) PROVE ScopeInv'
  BY <1>1 DEF Lost
<1>2. CASE Expire
  BY <1>2 DEF Expire
<1>3. CASE UNCHANGED vars
  BY <1>3 DEF vars
<1>. QED
  BY <1>1, <1>2, <1>3

-----------------------------------------------------------------------------
(* The tenant of rows *)

Loaded(r) == target[r] # NoRow /\ copy[r] \in Row /\ copy[r].tenant = Claim(r)

\* What a request found or inserted is of its tenant, and so is what it is to write;
\* rows never move to another tenant.
RowInv ==
    /\ Flow /\ rows \in Seq(Row) /\ call \in [Requests -> Calls]
    /\ DOMAIN copy = Requests /\ target \in [Requests -> Nat]
    /\ \A r \in Requests :
         /\ target[r] # NoRow => target[r] \in DOMAIN rows /\ rows[target[r]].tenant = Claim(r)
         /\ r \in changed => target[r] # NoRow
         /\ pc[r] \in {"save", "remove"} \/ (pc[r] = "validate" /\ call[r].kind = "update") => Loaded(r)
         /\ pc[r] = "insert" => copy[r] \in Row /\ copy[r].tenant = Claim(r)

\* A step that writes no row and goes nowhere a copy is needed.
LEMMA KeepsRows ==
    ASSUME RowInv, NEW r \in Requests, UNCHANGED <<rows, target, copy, changed, call>>,
           DOMAIN pc' = Requests, DOMAIN answer' = Requests, \A q \in Requests \ {r} : pc'[q] = pc[q],
           pc'[r] \notin {"insert", "save", "remove"}, pc'[r] = "validate" => call[r].kind = "create"
    PROVE  RowInv'
  BY DEF RowInv, Loaded, Claim, Flow

\* Of a write of row i with the tenant that it has, or had none.
LEMMA WriteRow ==
    ASSUME rows \in Seq(Row), NEW i \in DOMAIN rows, NEW row \in Row, row.tenant = rows[i].tenant,
           rows' = [rows EXCEPT ![i] = row]
    PROVE  /\ rows' \in Seq(Row) /\ DOMAIN rows' = DOMAIN rows
           /\ \A j \in DOMAIN rows : rows'[j].tenant = rows[j].tenant
<1>1. rows' \in [1..Len(rows) -> Row]
  OBVIOUS
<1>2. rows' \in Seq(Row)
  BY <1>1
<1>. QED
  BY <1>2

\* Views and plugins read and write rows of the bound tenant only (tenants/managers.py,
\* tenants/plugins.py).
LEMMA ViewKeepsRows ==
    ASSUME RowInv, NEW r \in Requests, ViewStep(r)
    PROVE  RowInv'
<1>1. Flow
  BY DEF RowInv
<1>2. /\ DOMAIN pc' = Requests /\ \A q \in Requests \ {r} : pc'[q] = pc[q]
      /\ DOMAIN answer' = Requests /\ UNCHANGED call
  BY <1>1, ViewEffect
<1>. USE DEF NoRow
<1>3. CASE Authenticate(r)
  BY <1>2, <1>3, KeepsRows DEF Authenticate, Move, KeepRows, rowVars, Flow, RowInv
<1>4. CASE \/ Unauthenticated(r) \/ Denied(r) \/ Invalid(r) \/ NotFound(r) \/ Integrity(r) \/ LogWithoutPk(r)
           \/ ViewPermits(r) \/ Log(r) \/ ViewFails(r)
  <2>1. UNCHANGED <<rows, target, copy, changed>>
    BY <1>4 DEF Unauthenticated, Denied, Invalid, NotFound, Integrity, LogWithoutPk, Refuse, ViewPermits, Log,
                ViewFails, KeepRows, rowVars
  <2>2. pc'[r] \in {"store", "object"} \/ (pc'[r] = "validate" /\ call[r].kind = "create")
    BY <1>1, <1>4 DEF Unauthenticated, Denied, Invalid, NotFound, Integrity, LogWithoutPk, Refuse, ViewPermits,
                Log, ViewFails, Move, Flow
  <2>. QED
    BY <1>2, <2>1, <2>2, KeepsRows
<1>5. ASSUME NEW i \in DOMAIN rows, GetObject(r, i) PROVE RowInv'
  <2>1. rows[i].tenant = Claim(r) /\ rows[i] \in Row /\ i \in Nat \ {0}
    BY <1>5 DEF GetObject, Visible, RowsOf, RowInv
  <2>. QED
    BY <1>2, <1>5, <2>1 DEF GetObject, RowInv, Loaded, Claim, Flow, Move
<1>6. ASSUME NEW n \in Names, ValidateCreate(r, n) PROVE RowInv'
  <2>1. NewRow(r, n) \in Row /\ NewRow(r, n).tenant = Claim(r)
    BY <1>6 DEF ValidateCreate, NewRow, Row, Claim, RowInv, Calls
  <2>. QED
    BY <1>2, <1>6, <2>1 DEF ValidateCreate, RowInv, Loaded, Claim, Flow, Move
<1>7. CASE ValidateUpdate(r)
  <2>1. Loaded(r) /\ copy'[r] = [copy[r] EXCEPT !.by = r] /\ \A q \in Requests \ {r} : copy'[q] = copy[q]
    BY <1>7 DEF ValidateUpdate, Move, RowInv
  <2>2. copy'[r] \in Row /\ copy'[r].tenant = Claim(r)
    BY <2>1 DEF Loaded, Row
  <2>. QED
    BY <1>2, <1>7, <2>1, <2>2 DEF ValidateUpdate, RowInv, Loaded, Claim, Flow, Move
<1>8. CASE Insert(r)
  <2>1. copy[r] \in Row /\ copy[r].tenant = Claim(r)
    BY <1>8 DEF Insert, Move, RowInv
  <2>2. rows' = Append(rows, copy[r]) /\ target' = [target EXCEPT ![r] = Len(rows) + 1]
    BY <1>8 DEF Insert
  <2>3. /\ rows' \in Seq(Row) /\ Len(rows) + 1 \in DOMAIN rows' /\ rows'[Len(rows) + 1] = copy[r]
        /\ \A i \in DOMAIN rows : i \in DOMAIN rows' /\ rows'[i] = rows[i]
        /\ Len(rows) \in Nat
    BY <2>1, <2>2 DEF RowInv
  <2>. QED
    BY <1>2, <1>8, <2>1, <2>2, <2>3 DEF Insert, RowInv, Loaded, Claim, Flow, Move
<1>9. CASE Save(r) \/ Remove(r)
  <2>1. Loaded(r) /\ target[r] \in DOMAIN rows /\ rows[target[r]].tenant = Claim(r) /\ rows[target[r]] \in Row
    BY <1>9 DEF Save, Remove, Move, RowInv, Loaded
  <2>2. PICK row \in Row : row.tenant = Claim(r) /\ rows' = [rows EXCEPT ![target[r]] = row]
    <3>1. [copy[r] EXCEPT !.state = "deleted"] \in Row /\ [copy[r] EXCEPT !.state = "deleted"].tenant = Claim(r)
      BY <2>1 DEF Loaded, Row
    <3>2. /\ [rows[target[r]] EXCEPT !.state = "gone"] \in Row
          /\ [rows[target[r]] EXCEPT !.state = "gone"].tenant = Claim(r)
      BY <2>1 DEF Row
    <3>3. CASE Save(r)
      BY <2>1, <3>3 DEF Save, Loaded
    <3>4. CASE Remove(r) /\ soft
      BY <3>1, <3>4 DEF Remove
    <3>5. CASE Remove(r) /\ ~soft
      BY <3>2, <3>5 DEF Remove
    <3>. QED
      BY <1>9, <3>3, <3>4, <3>5
  <2>3. /\ rows' \in Seq(Row) /\ DOMAIN rows' = DOMAIN rows
        /\ \A j \in DOMAIN rows : rows'[j].tenant = rows[j].tenant
    BY <2>1, <2>2, WriteRow DEF RowInv
  <2>4. UNCHANGED <<target, copy>> /\ changed' = changed \cup {r} /\ pc'[r] = "log"
    BY <1>1, <1>9 DEF Save, Remove, Move, Flow
  <2>. QED
    BY <1>2, <2>1, <2>3, <2>4 DEF RowInv, Loaded, Claim, Flow
<1>. QED
  BY <1>3, <1>4, <1>5, <1>6, <1>7, <1>8, <1>9 DEF ViewStep

\* What runs around the view touches no row.
LEMMA RestKeepsRows ==
    ASSUME RowInv, (\E r \in Requests : MiddlewareStep(r) \/ Lost(r)) \/ Expire \/ UNCHANGED vars
    PROVE  RowInv'
<1>. USE DEF KeepRows, rowVars, KeepRate, Move, Flow, ViewSteps
<1>1. ASSUME NEW r \in Requests, MiddlewareStep(r) \/ Lost(r) PROVE RowInv'
  <2>1. UNCHANGED <<rows, target, copy, changed, call, answer>>
    BY <1>1 DEF MiddlewareStep, Begin, RateWork, IdemWork, IdemStores, Leave, Lost
  <2>2. DOMAIN pc' = Requests /\ \A q \in Requests \ {r} : pc'[q] = pc[q]
    BY <1>1 DEF MiddlewareStep, Begin, RateWork, IdemWork, IdemStores, Leave, Lost, RowInv
  <2>3. pc'[r] \in {"rate", "idem", "auth", "leave", "done", "lost"}
    BY <1>1 DEF MiddlewareStep, Begin, RateWork, IdemWork, IdemStores, Leave, Lost, RowInv
  <2>. QED
    BY <2>1, <2>2, <2>3, KeepsRows DEF RowInv
<1>2. CASE Expire \/ UNCHANGED vars
  BY <1>2 DEF Expire, vars, RowInv, Loaded, Claim
<1>. QED
  BY <1>1, <1>2

\* The scope goes with its request (tenants/authentication.py:35-66).
LEMMA ScopeInvariant == Spec => []ScopeInv
<1>1. Init => ScopeInv
  BY DEF Init, ScopeInv, Flow, Serving, Scope
<1>2. ScopeInv /\ [Next]_vars => ScopeInv'
  BY MiddlewareKeepsScope, ViewKeepsScope, RestKeepsScope DEF Next
<1>. QED
  BY <1>1, <1>2, PTL DEF Spec

\* Rows stay with their tenant, and requests with theirs (tenants/managers.py).
LEMMA RowInvariant == Spec => []RowInv
<1>1. Init => RowInv
  <2>. SUFFICES ASSUME Init PROVE RowInv
    OBVIOUS
  <2>1. rows \in Seq(Row)
    BY DEF Init, Row
  <2>2. call \in [Requests -> Calls]
    BY WebRequestAssumption DEF Init
  <2>. QED
    BY <2>1, <2>2 DEF Init, RowInv, Flow, NoRow
<1>2. RowInv /\ [Next]_vars => RowInv'
  BY ViewKeepsRows, RestKeepsRows DEF Next
<1>. QED
  BY <1>1, <1>2, PTL DEF Spec

\* A tenant is bound in a thread while a request that claims it is in its view and at
\* no other time, and rows are of the tenant of whoever wrote them
\* (tenants/authentication.py:35-66, tenants/middleware.py:33-52).
THEOREM TenantKeptCorrect == Spec => []TenantKept
<1>1. ScopeInv /\ RowInv => TenantKept
  <2>. SUFFICES ASSUME ScopeInv, RowInv, NEW r \in Requests
                PROVE  /\ pc[r] \in {"rate", "idem", "auth"} => Scope(r) = None
                       /\ pc[r] \in ViewSteps \ {"auth"} => Scope(r) = Claim(r)
                       /\ r \in changed => rows[target[r]].tenant = Claim(r)
    BY DEF TenantKept
  <2>1. r \in changed => rows[target[r]].tenant = Claim(r)
    BY DEF RowInv
  <2>2. /\ pc[r] \in {"rate", "idem", "auth"} => Scope(r) = None
        /\ pc[r] \in ViewSteps \ {"auth"} => Scope(r) = Claim(r)
    BY DEF ScopeInv, Serving, ViewSteps
  <2>. QED
    BY <2>1, <2>2
<1>. QED
  BY <1>1, ScopeInvariant, RowInvariant, PTL

-----------------------------------------------------------------------------
(* The audit trail *)

Unbound == {"new", "rate", "idem", "auth", "permission", "object"}
Before  == Unbound \cup {"validate", "insert", "save", "remove"}

EntryType == [by : Requests, action : {"create", "update", "delete"}, row : Nat, tenant : Tenants \cup {None}]

\* Answers, changes and entries go together: who is before the write has none of them,
\* who is at the audit plugin has changed its row and not logged it, and who logged
\* answered with success, once.
AnswerInv ==
    /\ answer \in [Requests -> {"none", "ok", "refused", "failed"}] /\ changed \subseteq Requests
    /\ \A r \in Requests :
         /\ pc[r] \notin {"store", "leave", "done", "lost"} => answer[r] = "none"
         /\ pc[r] \in Before => r \notin changed
         /\ pc[r] = "log" => r \in changed
         /\ answer[r] = "ok" => \E i \in DOMAIN audit : audit[i].by = r
         /\ Unlogged(r) => \/ pc[r] \in {"log", "lost"} \/ answer[r] = "failed"
                           \/ answer[r] = "refused" /\ call[r].kind = "delete" /\ ~soft

Attests(e) == /\ answer[e.by] = "ok" /\ e.by \in changed
           /\ e.row = target[e.by] /\ e.tenant = Claim(e.by)

\* Each entry is of a successful change to the row its request works on, and no
\* request has two.
EntryInv ==
    /\ audit \in Seq(EntryType)
    /\ \A i \in DOMAIN audit : Attests(audit[i])
    /\ \A i, j \in DOMAIN audit : audit[j].by = audit[i].by => i = j

\* What a step of the view is reached with.
CourseInv ==
    \A r \in Requests :
        /\ pc[r] \in Unbound => target[r] = NoRow
        /\ pc[r] = "object" => call[r].kind # "create"
        /\ pc[r] = "insert" => call[r].kind = "create" /\ copy[r].by = r
        /\ pc[r] = "save"   => call[r].kind = "update" /\ copy[r].by = r
        /\ pc[r] = "remove" => call[r].kind = "delete"

\* Two requests that work on one row in their views are on record.
OverlapInv ==
    /\ overlap \subseteq DOMAIN rows
    /\ \A q, r \in Requests :
        q # r /\ {pc[q], pc[r]} \subseteq ViewSteps /\ target[q] = target[r] /\ target[r] # NoRow
            => target[r] \in overlap

\* Nobody else has written the row since its request did.
WrittenInv ==
    \A r \in Requests :
        pc[r] = "log" /\ target[r] \notin overlap =>
            IF call[r].kind = "delete" THEN rows[target[r]].state # "live" ELSE rows[target[r]].by = r

\* An entry agrees with its row while it is the last about it and no change is unlogged.
LastOf(i) == \A j \in DOMAIN audit : audit[j].row = audit[i].row => j <= i
Sure(k)   == k \notin overlap /\ \A r \in Requests : target[r] = k => ~Unlogged(r)
Agrees(e) == IF e.action = "delete" THEN rows[e.row].state # "live" ELSE rows[e.row].by = e.by
LastInv   == \A i \in DOMAIN audit : LastOf(i) /\ Sure(audit[i].row) => Agrees(audit[i])

TrailInv == AnswerInv /\ EntryInv /\ CourseInv /\ OverlapInv /\ WrittenInv /\ LastInv

\* A step that touches no row: each request stays, goes on before its lookup, or leaves.
QuietStep ==
    /\ UNCHANGED <<rowVars, call, soft>> /\ DOMAIN pc' = Requests
    /\ \A r \in Requests : \/ pc'[r] = pc[r]
                           \/ pc[r] \in Unbound /\ pc'[r] \in Unbound \cup {"validate"}
                           \/ pc'[r] \in {"leave", "done"} /\ pc[r] \notin {"log", "lost"}
                           \/ pc'[r] = "lost"
    /\ \A r \in Requests : pc'[r] = "object" => pc[r] = "object" \/ call[r].kind # "create"

\* An entry is of a request and about a row that is there.
LEMMA EntryAbout ==
    ASSUME RowInv, EntryInv
    PROVE  \A i \in DOMAIN audit : audit[i].by \in Requests /\ audit[i].row \in DOMAIN rows
<1>. SUFFICES ASSUME NEW i \in DOMAIN audit PROVE audit[i].by \in Requests /\ audit[i].row \in DOMAIN rows
  OBVIOUS
<1>1. audit[i] \in EntryType
  BY DEF EntryInv
<1>2. audit[i].by \in Requests
  BY <1>1 DEF EntryType
<1>3. audit[i].by \in changed /\ audit[i].row = target[audit[i].by]
  BY DEF EntryInv, Attests
<1>. QED
  BY <1>2, <1>3 DEF RowInv

\* Such a step loses nothing of the trail.
LEMMA QuietKeepsTrail ==
    ASSUME RowInv, TrailInv, QuietStep
    PROVE  TrailInv'
<1>. USE DEF QuietStep, TrailInv, rowVars, Unbound, Before
<1>1. AnswerInv'
  BY DEF AnswerInv, Unlogged, Entries
<1>2. EntryInv'
  BY DEF EntryInv, Attests, Claim
<1>3. CourseInv'
  BY DEF CourseInv
<1>4. OverlapInv'
  <2>. SUFFICES ASSUME NEW q \in Requests, NEW r \in Requests, q # r, {pc'[q], pc'[r]} \subseteq ViewSteps,
                       target[q] = target[r], target[r] # NoRow
                PROVE  target[r] \in overlap
    BY DEF OverlapInv
  <2>1. pc[q] \notin Unbound /\ pc[r] \notin Unbound
    BY DEF CourseInv
  <2>. QED
    BY <2>1 DEF OverlapInv, ViewSteps
<1>5. WrittenInv'
  BY DEF WrittenInv
<1>6. LastInv'
  BY DEF LastInv, LastOf, Sure, Agrees, Unlogged, Entries
<1>. QED
  BY <1>1, <1>2, <1>3, <1>4, <1>5, <1>6

\* The middlewares, a lost worker and an expiry touch no row
\* (tenants/middleware.py:33-52, core/middleware/).
LEMMA RestKeepsTrail ==
    ASSUME RowInv, TrailInv, (\E r \in Requests : MiddlewareStep(r) \/ Lost(r)) \/ Expire \/ UNCHANGED vars
    PROVE  TrailInv'
<1>1. ASSUME NEW r \in Requests, MiddlewareStep(r) \/ Lost(r) PROVE TrailInv'
  <2>. USE <1>1 DEF MiddlewareStep, Begin, RateWork, IdemWork, IdemStores, Leave, Lost
  <2>1. UNCHANGED <<rowVars, call, soft>>
    BY DEF KeepRows, KeepRate
  <2>2. DOMAIN pc' = Requests /\ \A q \in Requests \ {r} : pc'[q] = pc[q]
    BY DEF Move, RowInv, Flow
  <2>3. \/ pc[r] \in Unbound /\ pc'[r] \in Unbound \ {"object"}
        \/ pc'[r] \in {"leave", "done"} /\ pc[r] \notin {"log", "lost"}
        \/ pc'[r] = "lost"
    BY DEF Move, RowInv, Flow, Unbound
  <2>4. pc'[r] # "object"
    BY <2>3, <1>1 DEF Move, Unbound
  <2>. QED
    BY <2>1, <2>2, <2>3, <2>4, QuietKeepsTrail DEF QuietStep
<1>2. CASE Expire \/ UNCHANGED vars
  <2>1. UNCHANGED <<rowVars, call, soft, pc>>
    BY <1>2 DEF Expire, KeepRows, KeepRate, vars
  <2>2. DOMAIN pc' = Requests
    BY <2>1 DEF RowInv, Flow
  <2>3. \A q \in Requests : pc'[q] = pc[q]
    BY <2>1
  <2>4. QuietStep
    BY <2>1, <2>2, <2>3 DEF QuietStep
  <2>. QED
    BY <2>4, QuietKeepsTrail
<1>. QED
  BY <1>1, <1>2

\* An answer without an entry: a refusal, or a query that failed.
LEMMA UnloggedAnswerKeepsTrail ==
    ASSUME RowInv, TrailInv, NEW r \in Requests, NEW a \in {"refused", "failed"}, pc[r] \in ViewSteps,
           UNCHANGED <<rows, target, copy, audit, changed, overlap, call, soft>>,
           pc' = [pc EXCEPT ![r] = "store"], answer' = [answer EXCEPT ![r] = a],
           a = "failed" \/ pc[r] \in Before \/ (call[r].kind = "delete" /\ ~soft)
    PROVE  TrailInv'
<1>. USE DEF TrailInv, RowInv, Flow
<1>1. answer[r] = "none" /\ \A i \in DOMAIN audit : audit[i].by # r
  BY DEF AnswerInv, EntryInv, Attests, ViewSteps
<1>2. AnswerInv'
  BY <1>1 DEF AnswerInv, Unlogged, Entries, Before, Unbound
<1>3. EntryInv'
  BY <1>1 DEF EntryInv, Attests, Claim, EntryType
<1>4. CourseInv'
  BY DEF CourseInv, Unbound
<1>5. OverlapInv'
  BY DEF OverlapInv, ViewSteps
<1>6. WrittenInv'
  BY DEF WrittenInv
<1>7. LastInv'
  BY DEF LastInv, LastOf, Sure, Agrees, Unlogged, Entries
<1>. QED
  BY <1>2, <1>3, <1>4, <1>5, <1>6, <1>7

\* The row found is new to the request, which has written nothing: whoever else works
\* on it is on record.
LEMMA GetObjectKeepsTrail ==
    ASSUME RowInv, TrailInv, NEW r \in Requests, NEW k \in DOMAIN rows, GetObject(r, k)
    PROVE  TrailInv'
<1>. USE DEF TrailInv, RowInv, Flow, Before, Unbound
<1>1. /\ pc[r] = "object" /\ pc' = [pc EXCEPT ![r] = IF call[r].kind = "update" THEN "validate" ELSE "remove"]
      /\ target' = [target EXCEPT ![r] = k] /\ copy' = [copy EXCEPT ![r] = rows[k]]
      /\ overlap' = IF \E q \in Requests \ {r} : target[q] = k /\ pc[q] \in ViewSteps
                    THEN overlap \cup {k} ELSE overlap
      /\ UNCHANGED <<rows, answer, audit, changed, call, soft>>
  BY DEF GetObject, Move, ViewOnly, KeepRate
<1>2. /\ answer[r] = "none" /\ r \notin changed /\ call[r].kind # "create"
      /\ \A i \in DOMAIN audit : audit[i].by # r
  BY <1>1 DEF AnswerInv, EntryInv, Attests, CourseInv
<1>3. AnswerInv'
  BY <1>1, <1>2 DEF AnswerInv, Unlogged, Entries
<1>4. EntryInv'
  BY <1>1, <1>2 DEF EntryInv, EntryType, Attests, Claim
<1>5. CourseInv'
  <2>1. call[r].kind \in {"create", "update", "delete"}
    BY DEF Calls
  <2>. QED
    BY <1>1, <1>2, <2>1 DEF CourseInv
<1>6. OverlapInv'
  BY <1>1 DEF OverlapInv, ViewSteps
<1>7. WrittenInv'
  BY <1>1 DEF WrittenInv
<1>8. LastInv'
  <2>1. \A i \in DOMAIN audit : Sure(audit[i].row)' => Sure(audit[i].row)
    BY <1>1, <1>2 DEF Sure, Unlogged, Entries
  <2>. QED
    BY <1>1, <2>1 DEF LastInv, LastOf, Agrees
<1>. QED
  BY <1>3, <1>4, <1>5, <1>6, <1>7, <1>8

\* What is to be written is the request's own (core/base/serializers.py:95-150).
LEMMA ValidateKeepsTrail ==
    ASSUME RowInv, TrailInv, NEW r \in Requests,
           (\E n \in Names : ValidateCreate(r, n)) \/ ValidateUpdate(r)
    PROVE  TrailInv'
<1>. USE DEF TrailInv, RowInv, Flow, Before, Unbound
<1>1. /\ pc[r] = "validate" /\ pc' = [pc EXCEPT ![r] = IF call[r].kind = "create" THEN "insert" ELSE "save"]
      /\ call[r].kind \in {"create", "update"}
      /\ \A q \in Requests \ {r} : copy'[q] = copy[q]
      /\ UNCHANGED <<rows, target, answer, audit, changed, overlap, call, soft>>
  BY DEF ValidateCreate, ValidateUpdate, Move, ViewOnly, KeepRate
<1>2. copy'[r].by = r
  BY <1>1 DEF ValidateCreate, ValidateUpdate, NewRow, Loaded, Row
<1>3. AnswerInv'
  BY <1>1 DEF AnswerInv, Unlogged, Entries
<1>4. EntryInv'
  BY <1>1 DEF EntryInv, Attests, Claim
<1>5. CourseInv'
  BY <1>1, <1>2 DEF CourseInv
<1>6. OverlapInv'
  BY <1>1 DEF OverlapInv, ViewSteps
<1>7. WrittenInv'
  BY <1>1 DEF WrittenInv
<1>8. LastInv'
  BY <1>1 DEF LastInv, LastOf, Sure, Agrees, Unlogged, Entries
<1>. QED
  BY <1>3, <1>4, <1>5, <1>6, <1>7, <1>8

\* A write changes no row but its own, of which it leaves a change to be logged.
\* Of Insert, Save and Remove; k is the row.
Writes(r, k) ==
    /\ pc[r] \in {"insert", "save", "remove"} /\ pc' = [pc EXCEPT ![r] = "log"]
    /\ changed' = changed \cup {r}
    /\ target'[r] = k /\ DOMAIN target' = Requests /\ \A q \in Requests \ {r} : target'[q] = target[q]
    /\ DOMAIN rows' = DOMAIN rows \cup {k} /\ \A j \in DOMAIN rows \ {k} : rows'[j] = rows[j]
    /\ k \in DOMAIN rows => target[r] = k
    /\ IF call[r].kind = "delete" THEN rows'[k].state # "live" ELSE rows'[k].by = r
    /\ UNCHANGED <<copy, answer, audit, overlap, call, soft>>

\* core/base/models.py:115-146, core/base/views.py:166-254
LEMMA WriteEffect ==
    ASSUME RowInv, TrailInv, NEW r \in Requests, Insert(r) \/ Save(r) \/ Remove(r)
    PROVE  \E k \in Nat \ {0} : Writes(r, k)
<1>. USE DEF RowInv, Flow, Move, ViewOnly, KeepRate, NoRow
<1>1. CASE Insert(r)
  <2>1. pc[r] = "insert" /\ copy[r] \in Row
    BY <1>1 DEF Insert
  <2>2. call[r].kind = "create" /\ copy[r].by = r
    BY <2>1 DEF TrailInv, CourseInv
  <2>3. /\ rows' = Append(rows, copy[r]) /\ target' = [target EXCEPT ![r] = Len(rows) + 1]
        /\ changed' = changed \cup {r} /\ pc' = [pc EXCEPT ![r] = "log"]
        /\ UNCHANGED <<copy, answer, audit, overlap, call, soft>>
    BY <1>1 DEF Insert
  <2>4. /\ DOMAIN rows' = DOMAIN rows \cup {Len(rows) + 1} /\ rows'[Len(rows) + 1] = copy[r]
        /\ \A j \in DOMAIN rows \ {Len(rows) + 1} : rows'[j] = rows[j]
        /\ Len(rows) + 1 \in Nat \ {0} /\ Len(rows) + 1 \notin DOMAIN rows
    BY <2>1, <2>3
  <2>. QED
    BY <2>1, <2>2, <2>3, <2>4 DEF Writes
<1>2. CASE Save(r) \/ Remove(r)
  <2>1. /\ pc[r] \in {"save", "remove"} /\ pc' = [pc EXCEPT ![r] = "log"]
        /\ changed' = changed \cup {r}
        /\ UNCHANGED <<target, copy, answer, audit, overlap, call, soft>>
    BY <1>2 DEF Save, Remove
  <2>2. target[r] \in DOMAIN rows /\ copy[r] \in Row /\ target[r] \in Nat \ {0}
    BY <2>1 DEF Loaded
  <2>3. rows[target[r]] \in Row
    BY <2>2
  <2>4. CASE Save(r)
    <3>1. DOMAIN rows' = DOMAIN rows /\ rows' = [rows EXCEPT ![target[r]] = copy[r]]
      BY <2>4 DEF Save
    <3>2. rows'[target[r]] = copy[r] /\ \A j \in DOMAIN rows \ {target[r]} : rows'[j] = rows[j]
      BY <2>2, <3>1
    <3>3. call[r].kind = "update" /\ copy[r].by = r
      BY <2>4 DEF Save, TrailInv, CourseInv
    <3>4. DOMAIN rows' = DOMAIN rows \cup {target[r]}
      BY <2>2, <3>1
    <3>5. Writes(r, target[r])
      BY <2>1, <2>2, <3>2, <3>3, <3>4 DEF Writes
    <3>. QED
      BY <2>2, <3>5
  <2>5. CASE Remove(r)
    <3>1. /\ DOMAIN rows' = DOMAIN rows /\ \A j \in DOMAIN rows \ {target[r]} : rows'[j] = rows[j]
          /\ rows'[target[r]].state \in {"deleted", "gone"}
      BY <2>2, <2>3, <2>5 DEF Remove, Row
    <3>2. call[r].kind = "delete"
      BY <2>5 DEF Remove, TrailInv, CourseInv
    <3>. QED
      BY <2>1, <2>2, <3>1, <3>2 DEF Writes
  <2>. QED
    BY <1>2, <2>4, <2>5
<1>. QED
  BY <1>1, <1>2

\* A row that two requests write in turn is on record, and a write that is not logged
\* leaves nothing to say of its row.
LEMMA WriteKeepsTrail ==
    ASSUME RowInv, TrailInv, NEW r \in Requests, NEW k \in Nat \ {0}, Writes(r, k)
    PROVE  TrailInv'
<1>. USE DEF TrailInv, RowInv, Flow, Before, Unbound, Writes, NoRow
<1>1. answer[r] = "none" /\ \A i \in DOMAIN audit : audit[i].by # r
  BY DEF AnswerInv, EntryInv, Attests
<1>2. \A i \in DOMAIN audit : audit[i].by \in Requests /\ audit[i].row \in DOMAIN rows
  BY EntryAbout
<1>3. AnswerInv'
  BY <1>1 DEF AnswerInv, Unlogged, Entries
<1>4. EntryInv'
  BY <1>1, <1>2 DEF EntryInv, Attests, Claim
<1>5. CourseInv'
  BY DEF CourseInv
<1>6. OverlapInv'
  BY DEF OverlapInv, ViewSteps
<1>7. WrittenInv'
  <2>. SUFFICES ASSUME NEW q \in Requests, q # r, pc[q] = "log", target[q] \notin overlap
                PROVE  target[q] \in DOMAIN rows \ {k}
    BY DEF WrittenInv
  <2>1. target[q] \in DOMAIN rows
    BY DEF AnswerInv
  <2>. QED
    BY <2>1 DEF OverlapInv, ViewSteps
<1>8. LastInv'
  <2>. SUFFICES ASSUME NEW i \in DOMAIN audit, LastOf(i), Sure(audit[i].row)'
                PROVE  Agrees(audit[i])'
    BY DEF LastInv, LastOf
  <2>1. Unlogged(r)'
    BY <1>1 DEF Unlogged, Entries
  <2>2. audit[i].row # k
    BY <2>1 DEF Sure
  <2>3. Sure(audit[i].row)
    BY <2>2 DEF Sure, Unlogged, Entries, AnswerInv
  <2>. QED
    BY <1>2, <2>2, <2>3 DEF LastInv, Agrees
<1>. QED
  BY <1>3, <1>4, <1>5, <1>6, <1>7, <1>8

\* The entry of a request is the last about its row, and its first: it tells what the
\* request did, unless somebody else worked on the row (sys_audit/plugins.py:40-119).
LEMMA LogKeepsTrail ==
    ASSUME RowInv, TrailInv, NEW r \in Requests, Log(r)
    PROVE  TrailInv'
<1>. USE DEF TrailInv, RowInv, Flow, Before, Unbound
<1>0. PICK n \in Nat : n = Len(audit) + 1
  BY DEF EntryInv
<1>1. /\ pc[r] = "log" /\ pc' = [pc EXCEPT ![r] = "store"] /\ answer' = [answer EXCEPT ![r] = "ok"]
      /\ audit' = Append(audit, Entry(r))
      /\ UNCHANGED <<rows, target, copy, changed, overlap, call, soft>>
  BY DEF Log, Move, Answer, ViewOnly, KeepRate
<1>2. answer[r] = "none" /\ r \in changed /\ \A i \in DOMAIN audit : audit[i].by # r
  BY <1>1 DEF AnswerInv, EntryInv, Attests
<1>3. target[r] \in DOMAIN rows
  BY <1>2
<1>4. Entry(r) \in EntryType
  <2>1. target[r] \in Nat
    OBVIOUS
  <2>2. call[r] \in Calls
    OBVIOUS
  <2>. QED
    BY <2>1, <2>2 DEF Entry, EntryType, Claim, Calls
<1>5. /\ audit' \in Seq(EntryType) /\ DOMAIN audit' = DOMAIN audit \cup {n} /\ audit'[n] = Entry(r)
      /\ \A i \in DOMAIN audit : audit'[i] = audit[i] /\ i < n
      /\ n \in Nat /\ n \notin DOMAIN audit /\ DOMAIN audit \subseteq Nat
  BY <1>0, <1>1, <1>4 DEF EntryInv
<1>6. Entry(r).by = r /\ Entry(r).row = target[r] /\ Entry(r).action = call[r].kind /\ Entry(r).tenant = Claim(r)
  BY DEF Entry
<1>7. AnswerInv'
  <2>1. \A q \in Requests : Unlogged(q)' => Unlogged(q) /\ q # r
    BY <1>1, <1>5, <1>6 DEF Unlogged, Entries
  <2>2. \A q \in Requests : answer'[q] = "ok" => \E i \in DOMAIN audit' : audit'[i].by = q
    BY <1>1, <1>5, <1>6 DEF AnswerInv
  <2>3. answer' \in [Requests -> {"none", "ok", "refused", "failed"}]
    BY <1>1 DEF AnswerInv
  <2>4. ASSUME NEW q \in Requests, Unlogged(q)'
        PROVE  \/ pc'[q] \in {"log", "lost"} \/ answer'[q] = "failed"
               \/ answer'[q] = "refused" /\ call'[q].kind = "delete" /\ ~soft'
    BY <1>1, <2>1, <2>4 DEF AnswerInv
  <2>5. ASSUME NEW q \in Requests
        PROVE  /\ pc'[q] \notin {"store", "leave", "done", "lost"} => answer'[q] = "none"
               /\ pc'[q] \in Before => q \notin changed'
               /\ pc'[q] = "log" => q \in changed'
    BY <1>1 DEF AnswerInv
  <2>. QED
    BY <1>1, <2>2, <2>3, <2>4, <2>5 DEF AnswerInv
<1>8. EntryInv'
  <2>1. Attests(Entry(r))'
    BY <1>1, <1>2, <1>6 DEF Attests, Claim, Entry, AnswerInv
  <2>2. ASSUME NEW i \in DOMAIN audit PROVE Attests(audit[i])'
    <3>1. audit[i].by \in Requests \ {r} /\ Attests(audit[i])
      BY <1>2, EntryAbout DEF EntryInv
    <3>. QED
      BY <1>1, <1>5, <3>1 DEF Attests, Claim
  <2>3. \A i, j \in DOMAIN audit' : audit'[j].by = audit'[i].by => i = j
    BY <1>2, <1>5, <1>6 DEF EntryInv
  <2>4. \A i \in DOMAIN audit' : Attests(audit[i])'
    <3>1. Entry(r)' = Entry(r)
      BY <1>1 DEF Entry, Claim
    <3>2. Attests(audit[n])'
      BY <1>5, <2>1, <3>1 DEF Attests
    <3>. QED
      BY <1>5, <2>2, <3>2
  <2>. QED
    BY <1>5, <2>3, <2>4 DEF EntryInv
<1>9. CourseInv'
  BY <1>1 DEF CourseInv
<1>10. OverlapInv'
  BY <1>1 DEF OverlapInv, ViewSteps
<1>11. WrittenInv'
  BY <1>1 DEF WrittenInv
<1>12. LastInv'
  <2>. SUFFICES ASSUME NEW i \in DOMAIN audit', LastOf(i)', Sure(audit[i].row)'
                PROVE  Agrees(audit[i])'
    BY DEF LastInv
  <2>1. CASE i = n
    <3>1. target[r] \notin overlap
      BY <1>1, <1>5, <1>6, <2>1 DEF Sure
    <3>. QED
      BY <1>1, <1>5, <1>6, <2>1, <3>1 DEF WrittenInv, Agrees
  <2>2. CASE i \in DOMAIN audit
    <3>1. audit[i].row # target[r]
      BY <1>5, <1>6, <2>2 DEF LastOf
    <3>2. \A q \in Requests \ {r} : Unlogged(q) => Unlogged(q)'
      BY <1>1, <1>5, <1>6 DEF Unlogged, Entries
    <3>3. Sure(audit[i].row)
      BY <1>1, <1>5, <2>2, <3>1, <3>2 DEF Sure
    <3>4. LastOf(i)
      BY <1>5, <2>2 DEF LastOf
    <3>. QED
      BY <1>1, <1>5, <2>2, <3>3, <3>4 DEF LastInv, Agrees
  <2>. QED
    BY <1>5, <2>1, <2>2
<1>. QED
  BY <1>7, <1>8, <1>9, <1>10, <1>11, <1>12

\* core/base/views.py, core/base/serializers.py and the plugins of tenants and sys_audit
LEMMA ViewKeepsTrail ==
    ASSUME RowInv, TrailInv, NEW r \in Requests, ViewStep(r)
    PROVE  TrailInv'
<1>. USE DEF Move, Answer, Refuse, ViewOnly, KeepRate, KeepRows
<1>1. CASE Authenticate(r) \/ ViewPermits(r)
  <2>1. UNCHANGED <<rowVars, call, soft>> /\ DOMAIN pc' = Requests /\ \A q \in Requests \ {r} : pc'[q] = pc[q]
    BY <1>1 DEF Authenticate, ViewPermits, RowInv, Flow
  <2>2. /\ pc[r] \in Unbound /\ pc'[r] \in Unbound \cup {"validate"}
        /\ pc'[r] = "object" => call[r].kind # "create"
    BY <1>1 DEF Authenticate, ViewPermits, RowInv, Flow, Unbound
  <2>3. QuietStep
    BY <2>1, <2>2 DEF QuietStep
  <2>. QED
    BY <2>3, QuietKeepsTrail
<1>2. CASE \/ Unauthenticated(r) \/ Denied(r) \/ Invalid(r) \/ NotFound(r) \/ Integrity(r) \/ LogWithoutPk(r)
           \/ ViewFails(r)
  <2>1. PICK a \in {"refused", "failed"} :
            /\ pc' = [pc EXCEPT ![r] = "store"] /\ answer' = [answer EXCEPT ![r] = a]
            /\ a = "failed" \/ pc[r] \in Before \/ (call[r].kind = "delete" /\ ~soft)
            /\ UNCHANGED <<rows, target, copy, audit, changed, overlap, call, soft>>
    BY <1>2 DEF Unauthenticated, Denied, Invalid, NotFound, Integrity, LogWithoutPk, ViewFails, Before, Unbound
  <2>2. pc[r] \in ViewSteps
    BY ViewEffect DEF RowInv
  <2>. QED
    BY <2>1, <2>2, UnloggedAnswerKeepsTrail
<1>3. CASE \E k \in DOMAIN rows : GetObject(r, k)
  BY <1>3, GetObjectKeepsTrail
<1>4. CASE (\E n \in Names : ValidateCreate(r, n)) \/ ValidateUpdate(r)
  BY <1>4, ValidateKeepsTrail
<1>5. CASE Insert(r) \/ Save(r) \/ Remove(r)
  BY <1>5, WriteEffect, WriteKeepsTrail
<1>6. CASE Log(r)
  BY <1>6, LogKeepsTrail
<1>. QED
  BY <1>1, <1>2, <1>3, <1>4, <1>5, <1>6 DEF ViewStep

\* What the trail tells, of any number of requests.
LEMMA TrailTells ==
    ASSUME RowInv, TrailInv
    PROVE  TrailKept
<1>. USE DEF TrailInv
<1>1. ASSUME NEW r \in Requests, Entries(r) # {} PROVE r \in changed
  BY <1>1 DEF EntryInv, Attests, Entries
<1>2. ASSUME NEW r \in Requests, answer[r] = "ok" PROVE Cardinality(Entries(r)) = 1
  <2>1. PICK i \in DOMAIN audit : audit[i].by = r
    BY <1>2 DEF AnswerInv
  <2>2. Entries(r) = {i}
    BY <2>1 DEF Entries, EntryInv
  <2>. QED
    BY <2>2, FS_Singleton
<1>3. ASSUME NEW r \in Requests, Unlogged(r)
      PROVE  \/ pc[r] \in {"log", "lost"} \/ answer[r] = "failed"
             \/ answer[r] = "refused" /\ call[r].kind = "delete" /\ ~soft
  BY <1>3 DEF AnswerInv
<1>4. ChangesLogged
  BY <1>1, <1>2, <1>3 DEF ChangesLogged
<1>5. ASSUME NEW i \in DOMAIN audit PROVE audit[i].tenant = rows[audit[i].row].tenant
  <2>1. audit[i].by \in Requests
    BY EntryAbout
  <2>. QED
    BY <2>1 DEF EntryInv, Attests, RowInv, Claim
<1>6. RowFollowsTrail
  <2>. SUFFICES ASSUME NEW i \in DOMAIN audit
                PROVE  LastOf(i) /\ Sure(audit[i].row) => Agrees(audit[i])
    BY <1>5 DEF RowFollowsTrail, LastOf, Sure, Agrees
  <2>. QED
    BY DEF LastInv
<1>. QED
  BY <1>4, <1>6 DEF TrailKept

\* The trail follows every step of a request (sys_audit/plugins.py:40-119).
LEMMA TrailInvariant == Spec => [](RowInv /\ TrailInv)
<1>1. Init => TrailInv
  <2>. SUFFICES ASSUME Init PROVE TrailInv
    OBVIOUS
  <2>1. AnswerInv /\ EntryInv
    BY DEF Init, AnswerInv, EntryInv, Unlogged
  <2>2. CourseInv /\ OverlapInv /\ WrittenInv /\ LastInv
    BY DEF Init, CourseInv, OverlapInv, WrittenInv, LastInv, Unbound, NoRow
  <2>. QED
    BY <2>1, <2>2 DEF TrailInv
<1>2. RowInv /\ TrailInv /\ [Next]_vars => TrailInv'
  BY ViewKeepsTrail, RestKeepsTrail DEF Next
<1>. QED
  BY <1>1, <1>2, RowInvariant, PTL DEF Spec

\* Each change answered with success has its one entry and each entry a change, and the
\* last entry of a row that no two requests worked on at once says what became of it
\* (sys_audit/plugins.py:40-119).
THEOREM TrailKeptCorrect == Spec => []TrailKept
  BY TrailInvariant, TrailTells, PTL

-----------------------------------------------------------------------------
(* Types *)

PlaceTypes == {"new", "rate", "idem", "store", "leave", "done", "lost"} \cup ViewSteps

\* What the other invariants do not say of the variables' values.
RestTypes ==
    /\ soft \in BOOLEAN
    /\ pc \in [Requests -> PlaceTypes]
    /\ thread \in [Requests -> Threads \cup {None}]
    /\ scope \in [Threads -> Tenants \cup {None}]
    /\ token \in [Requests -> Tenants \cup {None, "unset"}]
    /\ copy \in [Requests -> Row \cup {Blank}]

\* Bind and unbind_scope pass on what the thread's context held (tenants/context.py).
LEMMA ScopeTypes ==
    ASSUME RestTypes, ScopeInv, RowInv, NEW r \in Requests, MiddlewareStep(r) \/ ViewStep(r) \/ Lost(r)
    PROVE  /\ thread' \in [Requests -> Threads \cup {None}]
           /\ scope' \in [Threads -> Tenants \cup {None}]
           /\ token' \in [Requests -> Tenants \cup {None, "unset"}]
<1>. USE DEF RestTypes, KeepScope, scopeVars
<1>1. CASE Begin(r)
  BY <1>1 DEF Begin
<1>2. CASE Leave(r)
  <2>1. CASE token[r] = "unset"
    BY <1>2, <2>1 DEF Leave
  <2>2. CASE token[r] # "unset"
    BY <1>2, <2>2 DEF Leave, Unbind
  <2>. QED
    BY <2>1, <2>2
<1>3. CASE Authenticate(r)
  <2>1. thread[r] \in Threads
    BY <1>3 DEF Authenticate, Move, ScopeInv, Serving
  <2>2. Claim(r) \in Tenants \cup {None}
    BY DEF Claim, RowInv, Calls
  <2>. QED
    BY <1>3, <2>1, <2>2 DEF Authenticate, Bind, Scope
<1>4. CASE Lost(r)
  BY <1>4 DEF Lost
<1>5. CASE ~(Begin(r) \/ Leave(r) \/ Authenticate(r) \/ Lost(r))
  BY <1>5 DEF MiddlewareStep, RateWork, IdemWork, IdemStores, ViewStep, Unauthenticated, ViewPermits, Denied,
              Invalid, GetObject, NotFound, ValidateCreate, ValidateUpdate, Integrity, Insert, Save, Remove,
              Log, LogWithoutPk, ViewFails, Refuse, ViewOnly
<1>. QED
  BY <1>1, <1>2, <1>3, <1>4, <1>5

\* A request goes from step to step of the pipeline (core/middleware, core/base/views.py).
LEMMA PlaceKept ==
    ASSUME RestTypes, NEW r \in Requests, MiddlewareStep(r) \/ ViewStep(r) \/ Lost(r)
    PROVE  pc' \in [Requests -> PlaceTypes]
<1>. USE DEF RestTypes, PlaceTypes, ViewSteps, Move, Refuse
<1>1. CASE MiddlewareStep(r)
  <2>1. PICK p \in PlaceTypes : pc' = [pc EXCEPT ![r] = p]
    BY <1>1 DEF MiddlewareStep, Begin, RateWork, IdemWork, IdemStores, Leave
  <2>. QED
    BY <2>1
<1>2. CASE Lost(r)
  BY <1>2 DEF Lost
<1>3. CASE ViewStep(r)
  <2>1. PICK p \in PlaceTypes : pc' = [pc EXCEPT ![r] = p]
    BY <1>3 DEF ViewStep, Authenticate, Unauthenticated, ViewPermits, Denied, Invalid, GetObject, NotFound,
                ValidateCreate, ValidateUpdate, Integrity, Insert, Save, Remove, Log, LogWithoutPk, ViewFails
  <2>. QED
    BY <2>1
<1>. QED
  BY <1>1, <1>2, <1>3

\* What is loaded is a row, and a new instance is one to be (core/base/serializers.py:95-150).
LEMMA CopyKept ==
    ASSUME RestTypes, RowInv, NEW r \in Requests, MiddlewareStep(r) \/ ViewStep(r) \/ Lost(r)
    PROVE  copy' \in [Requests -> Row \cup {Blank}] /\ soft' \in BOOLEAN
<1>. USE DEF RestTypes, KeepRows, rowVars, KeepRate
<1>1. soft' \in BOOLEAN
  BY DEF MiddlewareStep, Begin, RateWork, IdemWork, IdemStores, Leave, ViewStep, Authenticate, Unauthenticated,
         ViewPermits, Denied, Invalid, GetObject, NotFound, ValidateCreate, ValidateUpdate, Integrity, Insert,
         Save, Remove, Log, LogWithoutPk, ViewFails, Refuse, ViewOnly, Lost
<1>2. ASSUME NEW i \in DOMAIN rows, GetObject(r, i) PROVE copy' \in [Requests -> Row \cup {Blank}]
  <2>1. rows[i] \in Row
    BY DEF RowInv
  <2>. QED
    BY <1>2, <2>1 DEF GetObject
<1>3. ASSUME NEW n \in Names, ValidateCreate(r, n) PROVE copy' \in [Requests -> Row \cup {Blank}]
  <2>1. NewRow(r, n) \in Row
    BY <1>3 DEF ValidateCreate, NewRow, Row, Claim, RowInv, Calls
  <2>. QED
    BY <1>3, <2>1 DEF ValidateCreate
<1>4. CASE ValidateUpdate(r)
  <2>1. copy[r] \in Row
    BY <1>4 DEF ValidateUpdate, Move, RowInv, Loaded
  <2>2. [copy[r] EXCEPT !.by = r] \in Row
    BY <2>1 DEF Row
  <2>3. PICK c \in Row : copy' = [copy EXCEPT ![r] = c]
    BY <1>4, <2>2 DEF ValidateUpdate
  <2>. QED
    BY <1>1, <2>3
<1>5. CASE /\ ~\E i \in DOMAIN rows : GetObject(r, i)
           /\ ~\E n \in Names : ValidateCreate(r, n)
           /\ ~ValidateUpdate(r)
  <2>1. UNCHANGED copy
    BY <1>5 DEF MiddlewareStep, Begin, RateWork, IdemWork, IdemStores, Leave, ViewStep, Authenticate,
                Unauthenticated, ViewPermits, Denied, Invalid, NotFound, Integrity, Insert, Save, Remove, Log,
                LogWithoutPk, ViewFails, Refuse, Lost
  <2>. QED
    BY <1>1, <2>1
<1>. QED
  BY <1>1, <1>2, <1>3, <1>4, <1>5

\* Every variable keeps its values (core/middleware, core/base, tenants, sys_audit).
THEOREM WebRequestTypesCorrect == Spec => []TypeOK
<1>1. Init => RestTypes
  BY DEF Init, RestTypes, PlaceTypes
<1>2. RestTypes /\ ScopeInv /\ RowInv /\ [Next]_vars => RestTypes'
  <2>. SUFFICES ASSUME RestTypes, ScopeInv, RowInv, [Next]_vars PROVE RestTypes'
    OBVIOUS
  <2>1. ASSUME NEW r \in Requests, MiddlewareStep(r) \/ ViewStep(r) \/ Lost(r) PROVE RestTypes'
    BY <2>1, ScopeTypes, PlaceKept, CopyKept DEF RestTypes
  <2>2. CASE Expire \/ UNCHANGED vars
    BY <2>2 DEF Expire, KeepRate, KeepRows, KeepScope, rowVars, scopeVars, vars, RestTypes
  <2>. QED
    BY <2>1, <2>2 DEF Next
<1>3. RateInv /\ KeyInv /\ RowInv /\ TrailInv /\ RestTypes => TypeOK
  <2>. SUFFICES ASSUME RateInv, KeyInv, RowInv, TrailInv, RestTypes PROVE TypeOK
    OBVIOUS
  <2>1. RateTypeOK /\ IDEM!IdemTypeOK
    BY DEF RateInv, KeyInv, OnceInv
  <2>2. target \in [Requests -> DOMAIN rows \cup {NoRow}]
    BY DEF RowInv
  <2>. DEFINE Entered == [by : Requests, action : {"create", "update", "delete"},
                          row : DOMAIN rows, tenant : Tenants \cup {None}]
  <2>3. audit \in Seq(Entered)
    <3>1. audit \in Seq(EntryType)
      BY DEF TrailInv, EntryInv
    <3>2. ASSUME NEW i \in DOMAIN audit PROVE audit[i] \in Entered
      <4>1. audit[i] \in EntryType
        BY <3>1
      <4>2. audit[i].row \in DOMAIN rows
        BY EntryAbout DEF TrailInv
      <4>. QED
        BY <4>1, <4>2 DEF EntryType
    <3>. HIDE DEF Entered
    <3>3. audit \in [1..Len(audit) -> Entered]
      BY <3>1, <3>2
    <3>. QED
      BY <3>1, <3>3
  <2>. QED
    BY <2>1, <2>2, <2>3 DEF TypeOK, RestTypes, PlaceTypes, RowInv, TrailInv, AnswerInv, OverlapInv
<1>. QED
  BY <1>1, <1>2, <1>3, RateInvariant, KeyInvariant, ScopeInvariant, TrailInvariant, PTL DEF Spec
=============================================================================
