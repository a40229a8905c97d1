---------------------------- MODULE Idempotency ----------------------------
(***************************************************************************)
(* The idempotency middleware (core/middleware/idempotency.py) on one      *)
(* X-Idempotency-Key of one user: GET, SET of the in-flight mark, the      *)
(* view, SET of the answer, all with the same TTL.  Keyed are the requests *)
(* the middleware guards: a guarded method, a user it sees as              *)
(* authenticated, and this key in the header.                              *)
(***************************************************************************)
CONSTANTS Requests

VARIABLES
    entry,    \* what Redis holds: nothing, the mark or the request whose answer it is
    idemPc,   \* where each request is in this module's code
    copied,   \* the answer a request has found
    ran,      \* history: requests that ran their view since the key was last absent
    raced     \* history: requests that had read the key before another one marked it

idemVars == <<entry, idemPc, copied, ran, raced>>

NoEntry  == "absent"
InFlight == "in_flight"
NoAnswer == "none"

IdemTypeOK ==
    /\ entry \in Requests \cup {NoEntry, InFlight}
    /\ idemPc \in [Requests -> {"new", "mark", "running", "through", "conflict", "replayed", "stored", "lost"}]
    /\ copied \in [Requests -> Requests \cup {NoAnswer}]
    /\ ran \subseteq Requests /\ raced \subseteq Requests

IdemInit ==
    /\ entry = NoEntry /\ ran = {} /\ raced = {}
    /\ idemPc = [r \in Requests |-> "new"]
    /\ copied = [r \in Requests |-> NoAnswer]

IdemGoto(r, from, to) == idemPc[r] = from /\ idemPc' = [idemPc EXCEPT ![r] = to]

\* Another method, no authenticated user or no header: straight to the view.
IdemThrough(r) ==
    /\ IdemGoto(r, "new", "through")
    /\ UNCHANGED <<entry, copied, ran, raced>>

\* GET: go on, refuse while a request is in flight, or answer what is stored.
IdemGet(r) ==
    /\ \/ entry = NoEntry  /\ IdemGoto(r, "new", "mark") /\ UNCHANGED copied
       \/ entry = InFlight /\ IdemGoto(r, "new", "conflict") /\ UNCHANGED copied
       \/ entry \in Requests /\ IdemGoto(r, "new", "replayed") /\ copied' = [copied EXCEPT ![r] = entry]
    /\ UNCHANGED <<entry, ran, raced>>

Readers(r) == {q \in Requests \ {r} : idemPc[q] = "mark"}

IdemMarkNot(r) ==
    /\ IdemGoto(r, "mark", "running")
    /\ ran' = ran \cup {r} /\ raced' = raced \cup Readers(r)
    /\ UNCHANGED <<entry, copied>>

\* SET of the mark, unconditional.
IdemMark(r) ==
    /\ IdemGoto(r, "mark", "running")
    /\ entry' = InFlight
    /\ ran' = ran \cup {r} /\ raced' = raced \cup Readers(r)
    /\ UNCHANGED copied

\* SET of the answer, whatever it is, over whatever is there.
IdemStore(r) ==
    /\ IdemGoto(r, "running", "stored")
    /\ entry' = r
    /\ UNCHANGED <<copied, ran, raced>>

\* The TTL runs out; whoever still runs is not counted any longer.
IdemExpires ==
    /\ entry # NoEntry
    /\ entry' = NoEntry /\ ran' = {} /\ raced' = {}
    /\ UNCHANGED <<idemPc, copied>>

\* The worker is lost: the mark stays for the rest of its TTL.
IdemLost(r) ==
    /\ idemPc' = [idemPc EXCEPT ![r] = "lost"]
    /\ UNCHANGED <<entry, copied, ran, raced>>

IdemStep(r) == IdemThrough(r) \/ IdemGet(r) \/ IdemMark(r) \/ IdemStore(r) \/ IdemLost(r)

IdemNext == (\E r \in Requests : IdemStep(r)) \/ IdemExpires

IdemSpec == IdemInit /\ [][IdemNext]_idemVars

-----------------------------------------------------------------------------
(* Properties *)

\* While the key lives, a second request runs the view only if it had read the
\* key before the first one marked it; a retry that comes after the mark is
\* refused or answered, even if the first request was lost (idempotency.py:91-129).
OnceUnlessRaced == \A q, r \in ran \ raced : q = r

=============================================================================
