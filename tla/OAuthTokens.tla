---------------------------- MODULE OAuthTokens -----------------------------
(***************************************************************************)
(* Authorization codes and refresh tokens of apps/iam_oauth: AuthorizeView *)
(* issues codes, TokenView exchanges a code for a refresh token and        *)
(* rotates refresh tokens, RevokeView revokes them.  There is no           *)
(* transaction around a request (ATOMIC_REQUESTS is off) and no row is     *)
(* locked, so each database call is a step and requests interleave.        *)
(*                                                                         *)
(* Codes and tokens are numbered in the order of their creation.  A        *)
(* request the code refuses without touching the database is no step:      *)
(* unknown, expired or foreign codes and tokens, a failed PKCE or client   *)
(* authentication.  A code or token past expires_at is therefore one that  *)
(* nobody presents any more.  The client_credentials grant stores nothing. *)
(***************************************************************************)
EXTENDS Integers, Sequences, FiniteSets

CONSTANTS
    Clients, Scopes,
    Requests,   \* HTTP requests the servers work on at the same time
    MaxCodes,   \* bound: codes issued
    MaxTokens,  \* bound: refresh tokens issued
    Failures    \* whether a request may break off between two database calls

ASSUME OAuthAssumption ==
    /\ MaxCodes \in Nat
    /\ MaxTokens \in Nat
    /\ Failures \in BOOLEAN

VARIABLES
    active,  \* clients with is_active
    codes,   \* AuthorizationCode rows
    tokens,  \* OAuth2RefreshToken rows
    req,     \* where each request is, with the values it has read
    raced,   \* history: codes and tokens two requests worked on at once
    walked,  \* history: tokens revoked by RevokeView
    turned   \* history: tokens RevokeView found revoked already and left at that

history == <<raced, walked, turned>>
vars    == <<active, codes, tokens, req, history>>

Code  == [client: Clients, scope: SUBSET Scopes, consumed: BOOLEAN]

\* parent (0: issued for the code) and sent (the JWT reached the client) are
\* no columns: they record how the row came about and who can present it.
Token == [client: Clients, scope: SUBSET Scopes, revoked: BOOLEAN, replacedBy: Nat,
          code: Nat, parent: Nat, sent: BOOLEAN]

OnCode  == {"read", "marked"}
OnToken == {"rotating", "linking", "walking"}

\* held: the code or token a request is about; cur: the token it has created or
\* the one its walk is at; link: replaced_by of that one as it was read.
Request == [pc: {"idle", "answering"} \cup OnCode \cup OnToken,
            held: Nat, cur: Nat, link: Nat, scope: SUBSET Scopes]

Idle == [pc |-> "idle", held |-> 0, cur |-> 0, link |-> 0, scope |-> {}]

\* What a request holds exists.
RefersTo(q) ==
    /\ q.pc \in OnCode => q.held \in 1..Len(codes)
    /\ q.pc \in OnToken => q.held \in 1..Len(tokens)
    /\ q.pc \in {"linking", "answering", "walking"} => q.cur \in 1..Len(tokens)

TypeOK ==
    /\ active \subseteq Clients
    /\ codes \in Seq(Code) /\ Len(codes) <= MaxCodes
    /\ tokens \in Seq(Token) /\ Len(tokens) <= MaxTokens
    /\ req \in [Requests -> Request] /\ \A r \in Requests : RefersTo(req[r])
    /\ raced \subseteq ({"code", "token"} \X Nat)
    /\ walked \subseteq Nat /\ turned \subseteq Nat

Init ==
    /\ active = Clients
    /\ codes = <<>> /\ tokens = <<>>
    /\ req = [r \in Requests |-> Idle]
    /\ raced = {} /\ walked = {} /\ turned = {}

-----------------------------------------------------------------------------
CodeIds  == 1..Len(codes)
TokenIds == 1..Len(tokens)

Goto(r, to)    == req' = [req EXCEPT ![r] = to]
Start(r, to)   == req[r].pc = "idle" /\ Goto(r, to)
At(r, pc)      == req[r].pc = pc

Overlaps(pcs, n) == \E q \in Requests : req[q].pc \in pcs /\ req[q].held = n

\* issue_refresh_token
Issue(row) ==
    /\ Len(tokens) < MaxTokens
    /\ tokens' = Append(tokens, row)

\* OAuth2Client.is_active is set from outside the application.
SetActive(cl) ==
    /\ active' = IF cl \in active THEN active \ {cl} ELSE active \cup {cl}
    /\ UNCHANGED <<codes, tokens, req, history>>

\* generate_authorization_code; the requested scope is taken as it comes.
Authorize(cl, s) ==
    /\ cl \in active
    /\ Len(codes) < MaxCodes
    /\ codes' = Append(codes, [client |-> cl, scope |-> s, consumed |-> FALSE])
    /\ UNCHANGED <<active, tokens, req, history>>

-----------------------------------------------------------------------------
(* grant_type authorization_code *)

ConsumableTwice(c) == TRUE
Consumable(c)      == ~codes[c].consumed

\* The get and the checks of consume_authorization_code (the serializer's
\* earlier get refuses no more than these do).
ExchangeRead(r, c) ==
    /\ Consumable(c)
    /\ Start(r, [Idle EXCEPT !.pc = "read", !.held = c])
    /\ raced' = raced \cup IF Overlaps({"read"}, c) THEN {<<"code", c>>} ELSE {}
    /\ UNCHANGED <<active, codes, tokens, walked, turned>>

ExchangeMark(r) ==
    /\ At(r, "read") /\ Goto(r, [req[r] EXCEPT !.pc = "marked"])
    /\ codes' = [codes EXCEPT ![req[r].held].consumed = TRUE]
    /\ UNCHANGED <<active, tokens, history>>

CodeOf(r) == codes[req[r].held]

ExchangeIssue(r) ==
    /\ At(r, "marked")
    /\ Issue([client |-> CodeOf(r).client, scope |-> CodeOf(r).scope, revoked |-> FALSE,
              replacedBy |-> 0, code |-> req[r].held, parent |-> 0, sent |-> FALSE])
    /\ Goto(r, [req[r] EXCEPT !.pc = "answering", !.cur = Len(tokens) + 1])
    /\ UNCHANGED <<active, codes, history>>

-----------------------------------------------------------------------------
(* grant_type refresh_token: consume_refresh_token *)

\* A client presents a token it was sent; views and serializers want it active.
Presented(t) == tokens[t].sent /\ tokens[t].client \in active

\* scope or record.scope
Granted(s, t) == IF s = {} THEN tokens[t].scope ELSE s

RotatableForEver(t, s) == Granted(s, t) \subseteq tokens[t].scope
RotatableWider(t, s)   == ~tokens[t].revoked
Rotatable(t, s)        == ~tokens[t].revoked /\ Granted(s, t) \subseteq tokens[t].scope

RefreshRead(r, t, s) ==
    /\ Presented(t)
    /\ Rotatable(t, s)
    /\ Start(r, [Idle EXCEPT !.pc = "rotating", !.held = t, !.scope = Granted(s, t)])
    /\ raced' = raced \cup IF Overlaps(OnToken, t) THEN {<<"token", t>>} ELSE {}
    /\ UNCHANGED <<active, codes, tokens, walked, turned>>

RotateIssue(r) ==
    LET t == req[r].held IN
    /\ At(r, "rotating")
    /\ Issue([client |-> tokens[t].client, scope |-> req[r].scope, revoked |-> FALSE,
              replacedBy |-> 0, code |-> tokens[t].code, parent |-> t, sent |-> FALSE])
    /\ Goto(r, [req[r] EXCEPT !.pc = "linking", !.cur = Len(tokens) + 1])
    /\ UNCHANGED <<active, codes, history>>

RotatedBackwards(old, new) == [tokens EXCEPT ![new].replacedBy = old, ![old].revoked = TRUE]
RotatedStillLive(old, new) == [tokens EXCEPT ![old].replacedBy = new]
Rotated(old, new) == [tokens EXCEPT ![old] = [@ EXCEPT !.replacedBy = new, !.revoked = TRUE]]

RotateSave(r) ==
    /\ At(r, "linking") /\ Goto(r, [req[r] EXCEPT !.pc = "answering"])
    /\ tokens' = Rotated(req[r].held, req[r].cur)
    /\ UNCHANGED <<active, codes, history>>

\* TokenView finds the user and answers with the JWT of the new token.
Answer(r) ==
    /\ At(r, "answering") /\ Goto(r, Idle)
    /\ tokens' = [tokens EXCEPT ![req[r].cur].sent = TRUE]
    /\ UNCHANGED <<active, codes, history>>

-----------------------------------------------------------------------------
(* RevokeView *)

RevokeRead(r, t) ==
    /\ Presented(t)
    /\ ~tokens[t].revoked
    /\ Start(r, [pc |-> "walking", held |-> t, cur |-> t, link |-> tokens[t].replacedBy,
                 scope |-> {}])
    /\ raced' = raced \cup IF Overlaps(OnToken, t) THEN {<<"token", t>>} ELSE {}
    /\ UNCHANGED <<active, codes, tokens, walked, turned>>

\* An already revoked token is answered with 200 and nothing is done.
RevokeRefused(r, t) ==
    /\ At(r, "idle")
    /\ Presented(t)
    /\ tokens[t].revoked
    /\ turned' = turned \cup {t}
    /\ UNCHANGED <<active, codes, tokens, req, raced, walked>>

RevokedWholeRow(q) == [tokens EXCEPT ![q.cur].revoked = TRUE, ![q.cur].replacedBy = q.link]
Revoked(q)         == [tokens EXCEPT ![q.cur].revoked = TRUE]

StepNoEnd(q) == [q EXCEPT !.cur = q.link, !.link = 0]
Step(q) == IF q.link = 0 THEN Idle
           ELSE [q EXCEPT !.cur = q.link, !.link = tokens[q.link].replacedBy]

\* One turn of the loop of revoke_refresh_token_chain: save, then fetch the
\* record the copy in hand names as its successor.
Walk(r) ==
    /\ At(r, "walking") /\ Goto(r, Step(req[r]))
    /\ tokens' = Revoked(req[r])
    /\ walked' = walked \cup {req[r].held}
    /\ UNCHANGED <<active, codes, raced, turned>>

-----------------------------------------------------------------------------
\* A database error, a missing user or the loss of the worker ends a request
\* where it stands.
RequestFails(r) ==
    /\ Failures
    /\ ~At(r, "idle") /\ Goto(r, Idle)
    /\ UNCHANGED <<active, codes, tokens, history>>

TokenRequest(r) ==
    \/ \E c \in CodeIds : ExchangeRead(r, c)
    \/ ExchangeMark(r)
    \/ ExchangeIssue(r)
    \/ \E t \in TokenIds, s \in SUBSET Scopes : RefreshRead(r, t, s)
    \/ RotateIssue(r)
    \/ RotateSave(r)
    \/ Answer(r)

RevokeRequest(r) ==
    \/ \E t \in TokenIds : RevokeRead(r, t) \/ RevokeRefused(r, t)
    \/ Walk(r)

Next ==
    \/ \E cl \in Clients : SetActive(cl)
    \/ \E cl \in Clients, s \in SUBSET Scopes : Authorize(cl, s)
    \/ \E r \in Requests : TokenRequest(r) \/ RevokeRequest(r) \/ RequestFails(r)

Spec == Init /\ [][Next]_vars

-----------------------------------------------------------------------------
(* What holds, whatever overlaps and breaks off *)

\* A successor was issued for the token that names it: the chains of
\* replaced_by branch nowhere, lead forward and end, and the one-to-one
\* constraint of the column never fails (consume_refresh_token's save).
ChainsLeadForward ==
    \A t \in TokenIds : tokens[t].replacedBy # 0 =>
        /\ tokens[t].replacedBy \in t+1..Len(tokens)
        /\ tokens[tokens[t].replacedBy].parent = t

\* Neither rotation nor exchange widens a grant or moves it to another client:
\* all the way down a chain, scope and client come from the code
\* (consume_refresh_token's subset check, on a copy read before the issue).
GrantNeverWidens ==
    \A t \in TokenIds :
        LET from == IF tokens[t].parent = 0 THEN codes[tokens[t].code] ELSE tokens[tokens[t].parent]
        IN  /\ tokens[t].scope \subseteq from.scope /\ tokens[t].scope \subseteq codes[tokens[t].code].scope
            /\ tokens[t].client = from.client

\* revoke_refresh_token_chain, called by RevokeView, never gets past its first
\* token: a token with a successor is revoked (both are saved together), and
\* RevokeView does not walk from a revoked token.
WalkHasNoSuccessor == \A r \in Requests : At(r, "walking") => req[r].link = 0

\* A code yields one chain, and a token is replaced for one client response
\* only, unless two requests overlapped on it; failed requests and retries
\* between them do not break single use.
Roots(c)    == {t \in TokenIds : tokens[t].code = c /\ tokens[t].parent = 0}
Children(t) == {u \in TokenIds : tokens[u].parent = t /\ tokens[u].sent}

SingleUseUnlessRaced ==
    /\ \A c \in CodeIds : <<"code", c>> \notin raced => Cardinality(Roots(c)) <= 1
    /\ \A t \in TokenIds : <<"token", t>> \notin raced => Cardinality(Children(t)) <= 1

\* A token RevokeView revoked has no successor in a client's hands, now or
\* later, unless a rotation of it overlapped with the revocation.
RevokedIsTheLast ==
    \A t \in walked : <<"token", t>> \notin raced => Children(t) = {}

\* No step revives a token or changes what it grants, and no step takes a recorded
\* successor out of the row; only a second rotation that overlapped with the first
\* puts its own token in its place (consume_refresh_token saves the row it read
\* before the other one saved), and the first successor is then in no chain.
RowsOnlyAdvance ==
    [][\A t \in TokenIds :
        /\ tokens[t].revoked => tokens'[t].revoked
        /\ tokens[t].replacedBy # 0 /\ tokens'[t].replacedBy # tokens[t].replacedBy =>
               tokens'[t].replacedBy # 0 /\ <<"token", t>> \in raced
        /\ tokens'[t].scope = tokens[t].scope /\ tokens'[t].parent = tokens[t].parent]_vars

-----------------------------------------------------------------------------
(* What the documentation says and the code does not keep *)

\* A token presented to /revoke/ leaves no live descendant with a client
\* (iam_oauth/README.md:160).
Ancestors[t \in Nat] ==
    IF t \in TokenIds THEN {t} \cup Ancestors[tokens[t].parent] ELSE {}

RevocationEndsTheChain ==
    \A u \in TokenIds : tokens[u].sent /\ ~tokens[u].revoked =>
        Ancestors[u] \cap (walked \cup turned) = {}

=============================================================================
