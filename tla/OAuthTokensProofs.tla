------------------------- MODULE OAuthTokensProofs --------------------------
(***************************************************************************)
(* What OAuthTokens keeps for any clients, scopes, number of requests,     *)
(* codes and tokens.  The inductive invariant adds to the types what the   *)
(* rows say of each other (RowsOK, GrantNeverWidens) and what a request    *)
(* between two database calls may still rely on (RequestsOK).              *)
(***************************************************************************)
EXTENDS OAuthTokens, SequenceTheorems, FiniteSetTheorems, TLAPS

RowsOK ==
    \A t \in TokenIds :
        /\ tokens[t].parent \in 0..t-1
        /\ tokens[t].code \in CodeIds
        /\ tokens[t].replacedBy # 0 =>
            /\ tokens[t].replacedBy \in t+1..Len(tokens)
            /\ tokens[tokens[t].replacedBy].parent = t
            /\ tokens[t].revoked

RequestsOK ==
    \A r \in Requests :
        /\ At(r, "rotating") => req[r].scope \subseteq tokens[req[r].held].scope
        /\ At(r, "linking")  => req[r].held < req[r].cur /\ tokens[req[r].cur].parent = req[r].held
        /\ At(r, "walking")  => req[r].link = 0

IInv == TypeOK /\ RowsOK /\ RequestsOK /\ GrantNeverWidens

-----------------------------------------------------------------------------
(* The three ways the token table changes *)

\* A new row: issue_refresh_token leaves the others as they are.
LEMMA IssueFacts ==
    ASSUME TypeOK, NEW row \in Token, Issue(row)
    PROVE  /\ tokens' \in Seq(Token) /\ Len(tokens') = Len(tokens) + 1 /\ Len(tokens') <= MaxTokens
           /\ \A t \in TokenIds : tokens'[t] = tokens[t]
           /\ tokens'[Len(tokens) + 1] = row
  BY OAuthAssumption DEF TypeOK, Issue, TokenIds

\* An update in place keeps the number of rows and every column but the three flags.
LEMMA UpdateFacts ==
    ASSUME TypeOK,
           NEW i \in TokenIds, NEW row \in Token,
           tokens' = [tokens EXCEPT ![i] = row]
    PROVE  /\ tokens' \in Seq(Token) /\ Len(tokens') = Len(tokens)
           /\ tokens'[i] = row
           /\ \A t \in TokenIds \ {i} : tokens'[t] = tokens[t]
  BY DEF TypeOK, TokenIds

\* A row of the table has the type of a row.
LEMMA RowTypes ==
    ASSUME TypeOK, NEW i \in TokenIds
    PROVE  tokens[i] \in Token
  BY DEF TypeOK, TokenIds

-----------------------------------------------------------------------------
(* Requests that only read, or end *)

\* With both tables unchanged the rows keep what they say of each other.
LEMMA SameTables ==
    ASSUME IInv, UNCHANGED <<codes, tokens>>
    PROVE  RowsOK' /\ GrantNeverWidens'
  BY DEF IInv, RowsOK, GrantNeverWidens, TokenIds, CodeIds

\* A request that moves to a valid place leaves the other requests valid.
LEMMA OneRequestMoves ==
    ASSUME IInv, NEW r \in Requests, NEW to \in Request, Goto(r, to),
           UNCHANGED <<codes, tokens>>,
           RefersTo(to),
           to.pc = "rotating" => to.scope \subseteq tokens[to.held].scope,
           to.pc = "linking" => to.held < to.cur /\ tokens[to.cur].parent = to.held,
           to.pc = "walking" => to.link = 0
    PROVE  /\ req' \in [Requests -> Request]
           /\ \A q \in Requests : RefersTo(req[q])'
           /\ RequestsOK'
  <1>1. req' \in [Requests -> Request] /\ req'[r] = to /\ \A q \in Requests \ {r} : req'[q] = req[q]
    BY DEF IInv, TypeOK, Goto
  <1>2. \A q \in Requests : RefersTo(req[q])'
    BY <1>1 DEF IInv, TypeOK, RefersTo
  <1>3. RequestsOK'
    BY <1>1 DEF IInv, RequestsOK, At
  <1> QED  BY <1>1, <1>2, <1>3

\* A request goes on with what it holds and a row of its own.
LEMMA NextPlace ==
    ASSUME NEW q \in Request, NEW pc \in {"answering"} \cup OnToken, NEW n \in Nat
    PROVE  LET to == [q EXCEPT !.pc = pc, !.cur = n]
           IN  to \in Request /\ to.pc = pc /\ to.cur = n /\ to.held = q.held
  BY DEF Request

\* Between two requests a client refers to no row.
LEMMA IdleIsRequest == Idle \in Request /\ RefersTo(Idle) /\ Idle.pc = "idle"
  BY DEF Idle, Request, RefersTo, OnCode, OnToken

\* get of an unconsumed code: the request holds a code that exists (serializers.py:94-139).
LEMMA ExchangeReadKeeps ==
    ASSUME IInv, NEW r \in Requests, NEW c \in CodeIds, ExchangeRead(r, c)
    PROVE  IInv'
  <1> DEFINE to == [Idle EXCEPT !.pc = "read", !.held = c]
  <1>1. to \in Request /\ RefersTo(to) /\ to.pc = "read"
    <2>1. c \in Nat
      BY DEF IInv, TypeOK, CodeIds
    <2>2. to \in Request /\ to.pc = "read" /\ to.held = c
      BY <2>1 DEF Idle, Request, OnCode
    <2> QED  BY <2>2 DEF RefersTo, OnCode, OnToken, CodeIds
  <1>2. Goto(r, to) /\ UNCHANGED <<codes, tokens>>
    BY DEF ExchangeRead, Start
  <1>3. /\ req' \in [Requests -> Request]
        /\ \A q \in Requests : RefersTo(req[q])'
        /\ RequestsOK'
    BY <1>1, <1>2, OneRequestMoves
  <1>4. raced' \subseteq ({"code", "token"} \X Nat)
    BY DEF IInv, TypeOK, ExchangeRead, CodeIds
  <1>5. TypeOK'
    BY <1>3, <1>4 DEF IInv, TypeOK, ExchangeRead
  <1> QED  BY <1>2, <1>3, <1>5, SameTables DEF IInv

\* The scope of a refresh is narrowed to that of the token it read (services.py:283).
LEMMA RefreshReadKeeps ==
    ASSUME IInv, NEW r \in Requests, NEW t \in TokenIds, NEW s \in SUBSET Scopes, RefreshRead(r, t, s)
    PROVE  IInv'
  <1> DEFINE to == [Idle EXCEPT !.pc = "rotating", !.held = t, !.scope = Granted(s, t)]
  <1>1. Granted(s, t) \in SUBSET Scopes /\ Granted(s, t) \subseteq tokens[t].scope
    BY RowTypes DEF IInv, RefreshRead, Rotatable, Granted, Token
  <1>2. /\ to \in Request /\ RefersTo(to) /\ to.pc = "rotating"
        /\ to.scope \subseteq tokens[to.held].scope
    <2>1. t \in Nat
      BY DEF IInv, TypeOK, TokenIds
    <2>2. to \in Request /\ to.pc = "rotating" /\ to.held = t /\ to.scope = Granted(s, t)
      BY <1>1, <2>1 DEF Idle, Request, OnToken
    <2> QED  BY <1>1, <2>2 DEF RefersTo, OnCode, OnToken, TokenIds
  <1>3. Goto(r, to) /\ UNCHANGED <<codes, tokens>>
    BY DEF RefreshRead, Start
  <1>4. /\ req' \in [Requests -> Request]
        /\ \A q \in Requests : RefersTo(req[q])'
        /\ RequestsOK'
    BY <1>2, <1>3, OneRequestMoves
  <1>5. raced' \subseteq ({"code", "token"} \X Nat)
    BY DEF IInv, TypeOK, RefreshRead, TokenIds
  <1>6. TypeOK'
    BY <1>4, <1>5 DEF IInv, TypeOK, RefreshRead
  <1> QED  BY <1>3, <1>4, <1>6, SameTables DEF IInv

\* Here RowsOK is needed: the record read has no successor, being unrevoked.
LEMMA RevokeReadKeeps ==
    ASSUME IInv, NEW r \in Requests, NEW t \in TokenIds, RevokeRead(r, t)
    PROVE  IInv'
  <1> DEFINE to == [pc |-> "walking", held |-> t, cur |-> t, link |-> tokens[t].replacedBy, scope |-> {}]
  <1>1. tokens[t].replacedBy = 0
    BY RowTypes DEF IInv, RowsOK, RevokeRead, Token
  <1>2. to \in Request /\ RefersTo(to) /\ to.pc = "walking" /\ to.link = 0
    <2>1. t \in Nat
      BY DEF IInv, TypeOK, TokenIds
    <2>2. to \in Request /\ to.pc = "walking" /\ to.held = t /\ to.cur = t /\ to.link = 0
      BY <1>1, <2>1 DEF Request, OnToken
    <2> QED  BY <2>2 DEF RefersTo, OnCode, OnToken, TokenIds
  <1>3. Goto(r, to) /\ UNCHANGED <<codes, tokens>>
    BY DEF RevokeRead, Start
  <1>4. /\ req' \in [Requests -> Request]
        /\ \A q \in Requests : RefersTo(req[q])'
        /\ RequestsOK'
    BY <1>2, <1>3, OneRequestMoves
  <1>5. raced' \subseteq ({"code", "token"} \X Nat)
    BY DEF IInv, TypeOK, RevokeRead, TokenIds
  <1>6. TypeOK'
    BY <1>4, <1>5 DEF IInv, TypeOK, RevokeRead
  <1> QED  BY <1>3, <1>4, <1>6, SameTables DEF IInv

\* A request that breaks off leaves the rows it wrote.
LEMMA RequestFailsKeeps ==
    ASSUME IInv, NEW r \in Requests, RequestFails(r)
    PROVE  IInv'
  <1>1. Goto(r, Idle) /\ UNCHANGED <<active, codes, tokens, raced, walked, turned>>
    BY DEF RequestFails, history
  <1>2. /\ req' \in [Requests -> Request]
        /\ \A q \in Requests : RefersTo(req[q])'
        /\ RequestsOK'
    BY <1>1, IdleIsRequest, OneRequestMoves
  <1>3. TypeOK'
    BY <1>1, <1>2 DEF IInv, TypeOK
  <1> QED  BY <1>1, <1>2, <1>3, SameTables DEF IInv

\* Steps that touch neither the tables nor a request.
LEMMA NothingMoves ==
    ASSUME IInv, UNCHANGED <<codes, tokens, req, raced, walked>>,
           active' \subseteq Clients, turned' \subseteq Nat
    PROVE  IInv'
  <1>1. TypeOK'
    BY DEF IInv, TypeOK, RefersTo
  <1>2. RequestsOK'
    BY DEF IInv, RequestsOK, At
  <1> QED  BY <1>1, <1>2, SameTables DEF IInv

-----------------------------------------------------------------------------
(* Requests that write *)

\* The code table grows, or a code becomes consumed: scopes and clients stay.
LEMMA CodesAdvance ==
    ASSUME IInv, UNCHANGED tokens, Len(codes') >= Len(codes), Len(codes') \in Nat,
           \A c \in CodeIds : codes'[c].scope = codes[c].scope /\ codes'[c].client = codes[c].client
    PROVE  RowsOK' /\ GrantNeverWidens'
  <1>1. Len(codes) \in Nat /\ CodeIds \subseteq CodeIds'
    BY DEF IInv, TypeOK, CodeIds
  <1>2. RowsOK'
    BY <1>1 DEF IInv, RowsOK, TokenIds
  <1>3. \A t \in TokenIds : tokens[t].code \in CodeIds /\ tokens[t].parent \in 0..t-1
    BY DEF IInv, RowsOK
  <1>4. GrantNeverWidens'
    <2> SUFFICES ASSUME NEW t \in TokenIds
                 PROVE  LET from  == IF tokens[t].parent = 0 THEN codes'[tokens[t].code]
                                     ELSE tokens[tokens[t].parent]
                        IN  /\ tokens[t].scope \subseteq from.scope
                            /\ tokens[t].scope \subseteq codes'[tokens[t].code].scope
                            /\ tokens[t].client = from.client
      BY DEF GrantNeverWidens, TokenIds
    <2> QED  BY <1>3 DEF IInv, GrantNeverWidens
  <1> QED  BY <1>2, <1>4

\* A new code is a row behind the others.
LEMMA AuthorizeKeeps ==
    ASSUME IInv, NEW cl \in Clients, NEW s \in SUBSET Scopes, Authorize(cl, s)
    PROVE  IInv'
  <1> DEFINE row == [client |-> cl, scope |-> s, consumed |-> FALSE]
  <1>1. row \in Code
    BY DEF Code
  <1>2. /\ codes' \in Seq(Code) /\ Len(codes') = Len(codes) + 1 /\ Len(codes') <= MaxCodes
        /\ \A c \in CodeIds : codes'[c] = codes[c]
    BY <1>1, OAuthAssumption DEF IInv, TypeOK, Authorize, CodeIds
  <1>3. TypeOK'
    BY <1>2 DEF IInv, TypeOK, Authorize, RefersTo, history
  <1>4. RequestsOK'
    BY DEF IInv, RequestsOK, At, Authorize
  <1>5. RowsOK' /\ GrantNeverWidens'
    <2>1. Len(codes) \in Nat /\ Len(codes') \in Nat /\ UNCHANGED tokens
      BY <1>2 DEF IInv, TypeOK, Authorize
    <2> QED  BY <1>2, <2>1, CodesAdvance
  <1> QED  BY <1>3, <1>4, <1>5 DEF IInv

\* The save of consumed changes one code and nothing a request refers to.
LEMMA ExchangeMarkKeeps ==
    ASSUME IInv, NEW r \in Requests, ExchangeMark(r)
    PROVE  IInv'
  <1> DEFINE c == req[r].held
             row == [codes[c] EXCEPT !.consumed = TRUE]
             to == [req[r] EXCEPT !.pc = "marked"]
  <1>1. c \in CodeIds /\ codes[c] \in Code /\ req[r] \in Request /\ req[r].pc = "read"
    BY DEF IInv, TypeOK, RefersTo, OnCode, ExchangeMark, At, CodeIds
  <1>2. row \in Code /\ row.scope = codes[c].scope /\ row.client = codes[c].client
    BY <1>1 DEF Code
  <1>3. codes' = [codes EXCEPT ![c] = row]
    BY DEF ExchangeMark
  <1>4. /\ codes' \in Seq(Code) /\ Len(codes') = Len(codes)
        /\ \A d \in CodeIds : codes'[d].scope = codes[d].scope /\ codes'[d].client = codes[d].client
    BY <1>1, <1>2, <1>3 DEF IInv, TypeOK, CodeIds
  <1>5. to \in Request /\ to.pc = "marked" /\ to.held = c
    BY <1>1 DEF Request, OnCode
  <1>6. req' = [req EXCEPT ![r] = to]
    BY DEF ExchangeMark, Goto
  <1>7. req' \in [Requests -> Request] /\ req'[r] = to /\ \A q \in Requests \ {r} : req'[q] = req[q]
    BY <1>5, <1>6 DEF IInv, TypeOK
  <1>8. UNCHANGED <<active, tokens, raced, walked, turned>>
    BY DEF ExchangeMark, history
  <1>9. \A q \in Requests : RefersTo(req[q])'
    BY <1>1, <1>4, <1>5, <1>7, <1>8 DEF IInv, TypeOK, RefersTo, OnCode, OnToken, CodeIds
  <1>10. TypeOK'
    BY <1>4, <1>7, <1>8, <1>9 DEF IInv, TypeOK
  <1>11. RequestsOK'
    BY <1>5, <1>7, <1>8 DEF IInv, RequestsOK, At
  <1>12. RowsOK' /\ GrantNeverWidens'
    BY <1>4, <1>8, CodesAdvance DEF IInv, TypeOK
  <1> QED  BY <1>10, <1>11, <1>12 DEF IInv

\* A request that wrote the token table moves on; the others' rows kept their
\* scope and parent, which is all RequestsOK asks of them.
LEMMA OneRequestWrites ==
    ASSUME IInv, NEW r \in Requests, NEW to \in Request, Goto(r, to),
           UNCHANGED codes, Len(tokens') \in Nat, Len(tokens') >= Len(tokens),
           \A t \in TokenIds : tokens'[t].scope = tokens[t].scope /\ tokens'[t].parent = tokens[t].parent,
           to.pc \in OnCode => to.held \in 1..Len(codes),
           to.pc \in OnToken => to.held \in 1..Len(tokens'),
           to.pc \in {"linking", "answering", "walking"} => to.cur \in 1..Len(tokens'),
           to.pc # "rotating",
           to.pc = "linking" => to.held < to.cur /\ tokens'[to.cur].parent = to.held,
           to.pc = "walking" => to.link = 0
    PROVE  /\ req' \in [Requests -> Request]
           /\ \A q \in Requests : RefersTo(req[q])'
           /\ RequestsOK'
  <1>1. req' \in [Requests -> Request] /\ req'[r] = to /\ \A q \in Requests \ {r} : req'[q] = req[q]
    BY DEF IInv, TypeOK, Goto
  <1>2. Len(tokens) \in Nat /\ TokenIds \subseteq TokenIds'
    BY DEF IInv, TypeOK, TokenIds
  <1>3. \A q \in Requests \ {r} : RefersTo(req[q])'
    BY <1>1, <1>2 DEF IInv, TypeOK, RefersTo, TokenIds
  <1>4. \A q \in Requests : RefersTo(req[q])'
    BY <1>1, <1>3 DEF RefersTo
  <1>5. ASSUME NEW q \in Requests \ {r}
        PROVE  /\ At(q, "rotating")' => req[q]'.scope \subseteq tokens'[req[q]'.held].scope
               /\ At(q, "linking")'  => req[q]'.held < req[q]'.cur /\ tokens'[req[q]'.cur].parent = req[q]'.held
               /\ At(q, "walking")'  => req[q]'.link = 0
    BY <1>1, <1>5 DEF IInv, TypeOK, RequestsOK, RefersTo, OnToken, At, TokenIds
  <1>6. RequestsOK'
    BY <1>1, <1>5 DEF RequestsOK, At
  <1> QED  BY <1>1, <1>4, <1>6

\* A row issued within its parent's grant keeps the tables in order.
LEMMA IssueKeepsRows ==
    ASSUME IInv, NEW row \in Token, Issue(row), UNCHANGED codes,
           row.parent \in 0..Len(tokens), row.code \in CodeIds, row.replacedBy = 0,
           row.scope \subseteq codes[row.code].scope,
           row.parent = 0 => row.client = codes[row.code].client,
           row.parent # 0 => /\ row.scope \subseteq tokens[row.parent].scope
                             /\ row.client = tokens[row.parent].client
    PROVE  RowsOK' /\ GrantNeverWidens'
  <1>1. /\ Len(tokens) \in Nat /\ Len(tokens') = Len(tokens) + 1
        /\ \A t \in TokenIds : tokens'[t] = tokens[t]
        /\ tokens'[Len(tokens) + 1] = row
    BY IssueFacts DEF IInv, TypeOK
  <1>2. TokenIds' = TokenIds \cup {Len(tokens) + 1} /\ CodeIds' = CodeIds
    BY <1>1 DEF TokenIds, CodeIds
  <1>3. \A t \in TokenIds : tokens[t].parent \in 0..t-1 /\ tokens[t].code \in CodeIds
    BY DEF IInv, RowsOK
  <1>4. RowsOK'
    BY <1>1, <1>2 DEF IInv, RowsOK, TokenIds
  <1>5. GrantNeverWidens'
    <2> SUFFICES ASSUME NEW t \in TokenIds'
                 PROVE  LET from == IF tokens'[t].parent = 0 THEN codes[tokens'[t].code]
                                    ELSE tokens'[tokens'[t].parent]
                        IN  /\ tokens'[t].scope \subseteq from.scope
                            /\ tokens'[t].scope \subseteq codes[tokens'[t].code].scope
                            /\ tokens'[t].client = from.client
      BY DEF GrantNeverWidens
    <2>1. CASE t \in TokenIds
      <3>1. tokens'[t] = tokens[t]
        BY <1>1, <2>1
      <3>2. tokens[t].parent # 0 => tokens'[tokens[t].parent] = tokens[tokens[t].parent]
        BY <1>1, <1>3, <2>1 DEF TokenIds
      <3> QED  BY <2>1, <3>1, <3>2 DEF IInv, GrantNeverWidens
    <2>2. CASE t = Len(tokens) + 1
      BY <1>1, <2>2 DEF TokenIds
    <2> QED  BY <1>2, <2>1, <2>2
  <1> QED  BY <1>4, <1>5

\* An update that only revokes, records a successor it issued, or marks as sent.
LEMMA UpdateKeepsRows ==
    ASSUME IInv, UNCHANGED codes, NEW i \in TokenIds, NEW row \in Token,
           tokens' = [tokens EXCEPT ![i] = row],
           row.scope = tokens[i].scope, row.client = tokens[i].client,
           row.code = tokens[i].code, row.parent = tokens[i].parent,
           tokens[i].revoked => row.revoked,
           \/ row.replacedBy = tokens[i].replacedBy
           \/ /\ row.revoked
              /\ row.replacedBy \in i+1..Len(tokens)
              /\ tokens[row.replacedBy].parent = i
    PROVE  RowsOK' /\ GrantNeverWidens'
  <1>1. /\ Len(tokens') = Len(tokens) /\ tokens'[i] = row
        /\ \A t \in TokenIds \ {i} : tokens'[t] = tokens[t]
    BY UpdateFacts DEF IInv
  <1>2. TokenIds' = TokenIds /\ CodeIds' = CodeIds
    BY <1>1 DEF TokenIds, CodeIds
  <1>3. \A t \in TokenIds : /\ tokens'[t].parent = tokens[t].parent /\ tokens'[t].code = tokens[t].code
                            /\ tokens'[t].scope = tokens[t].scope /\ tokens'[t].client = tokens[t].client
    BY <1>1
  <1>4. RowsOK'
    <2> SUFFICES ASSUME NEW t \in TokenIds
                 PROVE  /\ tokens'[t].parent \in 0..t-1
                        /\ tokens'[t].code \in CodeIds
                        /\ tokens'[t].replacedBy # 0 =>
                            /\ tokens'[t].replacedBy \in t+1..Len(tokens)
                            /\ tokens'[tokens'[t].replacedBy].parent = t
                            /\ tokens'[t].revoked
      BY <1>1, <1>2 DEF RowsOK
    <2>1. Len(tokens) \in Nat
      BY DEF IInv, TypeOK
    <2>2. CASE t # i
      BY <1>1, <1>3, <2>1, <2>2 DEF IInv, RowsOK, TokenIds
    <2>3. CASE t = i
      BY <1>1, <1>3, <2>1, <2>3 DEF IInv, RowsOK, TokenIds
    <2> QED  BY <2>2, <2>3
  <1>5. GrantNeverWidens'
    <2>1. \A t \in TokenIds : tokens[t].parent \in 0..t-1
      BY DEF IInv, RowsOK
    <2> SUFFICES ASSUME NEW t \in TokenIds
                 PROVE  LET from == IF tokens'[t].parent = 0 THEN codes[tokens'[t].code]
                                    ELSE tokens'[tokens'[t].parent]
                        IN  /\ tokens'[t].scope \subseteq from.scope
                            /\ tokens'[t].scope \subseteq codes[tokens'[t].code].scope
                            /\ tokens'[t].client = from.client
      BY <1>2 DEF GrantNeverWidens
    <2>2. tokens[t].parent # 0 => tokens[t].parent \in TokenIds
      BY <2>1 DEF IInv, TypeOK, TokenIds
    <2> QED  BY <1>3, <2>2 DEF IInv, GrantNeverWidens
  <1> QED  BY <1>4, <1>5

\* The first token of a chain has the code's client and scope, and no parent.
LEMMA ExchangeIssueKeeps ==
    ASSUME IInv, NEW r \in Requests, ExchangeIssue(r)
    PROVE  IInv'
  <1> DEFINE c == req[r].held
             row == [client |-> codes[c].client, scope |-> codes[c].scope, revoked |-> FALSE,
                     replacedBy |-> 0, code |-> c, parent |-> 0, sent |-> FALSE]
             to == [req[r] EXCEPT !.pc = "answering", !.cur = Len(tokens) + 1]
  <1>1. c \in CodeIds /\ codes[c] \in Code /\ req[r] \in Request /\ Len(tokens) \in Nat
    BY DEF IInv, TypeOK, RefersTo, OnCode, ExchangeIssue, At, CodeIds
  <1>2. row \in Token
    BY <1>1 DEF Token, Code, Request
  <1>3. Issue(row) /\ UNCHANGED <<active, codes, raced, walked, turned>>
    BY DEF ExchangeIssue, CodeOf, history
  <1>4. /\ tokens' \in Seq(Token) /\ Len(tokens') = Len(tokens) + 1 /\ Len(tokens') <= MaxTokens
        /\ \A t \in TokenIds : tokens'[t] = tokens[t]
    BY <1>2, <1>3, IssueFacts DEF IInv
  <1>5. to \in Request /\ to.pc = "answering" /\ to.cur = Len(tokens) + 1
    <2>1. ASSUME NEW q \in Request, NEW n \in Nat
          PROVE  LET next == [q EXCEPT !.pc = "answering", !.cur = n]
                 IN  next \in Request /\ next.pc = "answering" /\ next.cur = n
      BY DEF Request
    <2>2. Len(tokens) + 1 \in Nat /\ req[r] \in Request
      BY <1>1
    <2> QED  BY <2>1, <2>2
  <1>6. Goto(r, to)
    BY DEF ExchangeIssue
  <1> HIDE DEF to
  <1>7. /\ to.pc \in OnCode => to.held \in 1..Len(codes)
        /\ to.pc \in OnToken => to.held \in 1..Len(tokens')
        /\ to.pc \in {"linking", "answering", "walking"} => to.cur \in 1..Len(tokens')
    BY <1>1, <1>4, <1>5 DEF OnCode, OnToken
  <1>8. /\ req' \in [Requests -> Request]
        /\ \A q \in Requests : RefersTo(req[q])'
        /\ RequestsOK'
    BY <1>1, <1>3, <1>4, <1>5, <1>6, <1>7, OneRequestWrites
  <1>9. TypeOK'
    BY <1>3, <1>4, <1>8 DEF IInv, TypeOK
  <1>10. RowsOK' /\ GrantNeverWidens'
    BY <1>1, <1>2, <1>3, IssueKeepsRows
  <1> QED  BY <1>8, <1>9, <1>10 DEF IInv

\* The new row is later than the one it replaces, names it as parent and is not wider.
LEMMA RotateIssueKeeps ==
    ASSUME IInv, NEW r \in Requests, RotateIssue(r)
    PROVE  IInv'
  <1> DEFINE t == req[r].held
             row == [client |-> tokens[t].client, scope |-> req[r].scope, revoked |-> FALSE,
                     replacedBy |-> 0, code |-> tokens[t].code, parent |-> t, sent |-> FALSE]
             to == [req[r] EXCEPT !.pc = "linking", !.cur = Len(tokens) + 1]
  <1>1. /\ t \in TokenIds /\ tokens[t] \in Token /\ req[r] \in Request /\ Len(tokens) \in Nat
        /\ req[r].pc = "rotating" /\ req[r].scope \subseteq tokens[t].scope
    BY DEF IInv, TypeOK, RequestsOK, RefersTo, OnToken, RotateIssue, At, TokenIds
  <1>2. row \in Token
    BY <1>1 DEF Token, Request
  <1>3. Issue(row) /\ UNCHANGED <<active, codes, raced, walked, turned>>
    BY DEF RotateIssue, history
  <1>4. /\ tokens' \in Seq(Token) /\ Len(tokens') = Len(tokens) + 1 /\ Len(tokens') <= MaxTokens
        /\ \A u \in TokenIds : tokens'[u] = tokens[u]
        /\ tokens'[Len(tokens) + 1] = row
    BY <1>2, <1>3, IssueFacts DEF IInv
  <1>5. to \in Request /\ to.pc = "linking" /\ to.cur = Len(tokens) + 1 /\ to.held = t
    <2>1. Len(tokens) + 1 \in Nat
      BY <1>1
    <2> QED  BY <1>1, <2>1, NextPlace DEF OnToken
  <1>6. Goto(r, to)
    BY DEF RotateIssue
  <1> HIDE DEF to
  <1>7. /\ to.pc \in OnCode => to.held \in 1..Len(codes)
        /\ to.pc \in OnToken => to.held \in 1..Len(tokens')
        /\ to.pc \in {"linking", "answering", "walking"} => to.cur \in 1..Len(tokens')
    BY <1>1, <1>4, <1>5 DEF OnCode, OnToken, TokenIds
  <1>8. to.held < to.cur /\ tokens'[to.cur].parent = to.held
    BY <1>1, <1>4, <1>5 DEF TokenIds
  <1>9. /\ req' \in [Requests -> Request]
        /\ \A q \in Requests : RefersTo(req[q])'
        /\ RequestsOK'
    BY <1>1, <1>3, <1>4, <1>5, <1>6, <1>7, <1>8, OneRequestWrites
  <1>10. TypeOK'
    BY <1>3, <1>4, <1>9 DEF IInv, TypeOK
  <1>11. RowsOK' /\ GrantNeverWidens'
    <2>1. tokens[t].code \in CodeIds /\ tokens[t].scope \subseteq codes[tokens[t].code].scope
      BY <1>1 DEF IInv, RowsOK, GrantNeverWidens
    <2>2. t \in 1..Len(tokens)
      BY <1>1 DEF TokenIds
    <2> QED  BY <1>1, <1>2, <1>3, <2>1, <2>2, IssueKeepsRows
  <1> QED  BY <1>9, <1>10, <1>11 DEF IInv

\* The old row is revoked and points to the new one, even if another rotation had set it.
LEMMA RotateSaveKeeps ==
    ASSUME IInv, NEW r \in Requests, RotateSave(r)
    PROVE  IInv'
  <1> DEFINE i == req[r].held
             n == req[r].cur
             row == [tokens[i] EXCEPT !.replacedBy = n, !.revoked = TRUE]
             to == [req[r] EXCEPT !.pc = "answering"]
  <1>1. /\ i \in TokenIds /\ n \in TokenIds /\ tokens[i] \in Token
        /\ req[r] \in Request /\ Len(tokens) \in Nat /\ i < n /\ tokens[n].parent = i
    BY DEF IInv, TypeOK, RequestsOK, RefersTo, OnToken, RotateSave, At, TokenIds
  <1>2. /\ row \in Token /\ row.scope = tokens[i].scope /\ row.client = tokens[i].client
        /\ row.code = tokens[i].code /\ row.parent = tokens[i].parent /\ row.revoked /\ row.replacedBy = n
    BY <1>1 DEF Token, Request
  <1>3. tokens' = [tokens EXCEPT ![i] = row] /\ UNCHANGED <<active, codes, raced, walked, turned>>
    BY DEF RotateSave, Rotated, history
  <1>4. /\ tokens' \in Seq(Token) /\ Len(tokens') = Len(tokens) /\ tokens'[i] = row
        /\ \A u \in TokenIds \ {i} : tokens'[u] = tokens[u]
    BY <1>1, <1>2, <1>3, UpdateFacts DEF IInv
  <1>5. to \in Request /\ to.pc = "answering" /\ to.cur = n
    BY <1>1 DEF Request
  <1>6. Goto(r, to)
    BY DEF RotateSave
  <1> HIDE DEF to
  <1>7. /\ to.pc \in OnCode => to.held \in 1..Len(codes)
        /\ to.pc \in OnToken => to.held \in 1..Len(tokens')
        /\ to.pc \in {"linking", "answering", "walking"} => to.cur \in 1..Len(tokens')
    BY <1>1, <1>4, <1>5 DEF OnCode, OnToken, TokenIds
  <1>8. \A u \in TokenIds : tokens'[u].scope = tokens[u].scope /\ tokens'[u].parent = tokens[u].parent
    BY <1>2, <1>4
  <1>9. /\ req' \in [Requests -> Request]
        /\ \A q \in Requests : RefersTo(req[q])'
        /\ RequestsOK'
    BY <1>1, <1>3, <1>4, <1>5, <1>6, <1>7, <1>8, OneRequestWrites
  <1>10. TypeOK'
    BY <1>3, <1>4, <1>9 DEF IInv, TypeOK
  <1>11. n \in i+1..Len(tokens)
    BY <1>1 DEF TokenIds
  <1>12. RowsOK' /\ GrantNeverWidens'
    BY <1>1, <1>2, <1>3, <1>11, UpdateKeepsRows
  <1> QED  BY <1>9, <1>10, <1>12 DEF IInv

\* Answering sets a flag of the row answered.
LEMMA AnswerKeeps ==
    ASSUME IInv, NEW r \in Requests, Answer(r)
    PROVE  IInv'
  <1> DEFINE i == req[r].cur
             row == [tokens[i] EXCEPT !.sent = TRUE]
  <1>1. i \in TokenIds /\ tokens[i] \in Token /\ Len(tokens) \in Nat
    BY DEF IInv, TypeOK, RefersTo, Answer, At, TokenIds
  <1>2. /\ row \in Token /\ row.scope = tokens[i].scope /\ row.client = tokens[i].client
        /\ row.code = tokens[i].code /\ row.parent = tokens[i].parent
        /\ row.revoked = tokens[i].revoked /\ row.replacedBy = tokens[i].replacedBy
    BY <1>1 DEF Token
  <1>3. tokens' = [tokens EXCEPT ![i] = row] /\ UNCHANGED <<active, codes, raced, walked, turned>>
    BY DEF Answer, history
  <1>4. /\ tokens' \in Seq(Token) /\ Len(tokens') = Len(tokens) /\ tokens'[i] = row
        /\ \A u \in TokenIds \ {i} : tokens'[u] = tokens[u]
    BY <1>1, <1>2, <1>3, UpdateFacts DEF IInv
  <1>5. /\ Idle.pc \in OnCode => Idle.held \in 1..Len(codes)
        /\ Idle.pc \in OnToken => Idle.held \in 1..Len(tokens')
        /\ Idle.pc \in {"linking", "answering", "walking"} => Idle.cur \in 1..Len(tokens')
    BY IdleIsRequest DEF OnCode, OnToken
  <1>6. Goto(r, Idle)
    BY DEF Answer
  <1>7. \A u \in TokenIds : tokens'[u].scope = tokens[u].scope /\ tokens'[u].parent = tokens[u].parent
    BY <1>2, <1>4
  <1>8. /\ req' \in [Requests -> Request]
        /\ \A q \in Requests : RefersTo(req[q])'
        /\ RequestsOK'
    BY <1>1, <1>3, <1>4, <1>5, <1>6, <1>7, IdleIsRequest, OneRequestWrites
  <1>9. TypeOK'
    BY <1>3, <1>4, <1>8 DEF IInv, TypeOK
  <1>10. RowsOK' /\ GrantNeverWidens'
    BY <1>1, <1>2, <1>3, UpdateKeepsRows
  <1> QED  BY <1>8, <1>9, <1>10 DEF IInv

\* RequestsOK says there is no successor, so the walk ends here.
LEMMA WalkKeeps ==
    ASSUME IInv, NEW r \in Requests, Walk(r)
    PROVE  IInv'
  <1> DEFINE i == req[r].cur
             row == [tokens[i] EXCEPT !.revoked = TRUE]
  <1>1. /\ i \in TokenIds /\ tokens[i] \in Token /\ Len(tokens) \in Nat
        /\ req[r].link = 0 /\ req[r].held \in Nat
    BY DEF IInv, TypeOK, RequestsOK, RefersTo, Request, Walk, At, TokenIds
  <1>2. /\ row \in Token /\ row.scope = tokens[i].scope /\ row.client = tokens[i].client
        /\ row.code = tokens[i].code /\ row.parent = tokens[i].parent
        /\ row.revoked /\ row.replacedBy = tokens[i].replacedBy
    BY <1>1 DEF Token
  <1>3. tokens' = [tokens EXCEPT ![i] = row] /\ UNCHANGED <<active, codes, raced, turned>>
    BY DEF Walk, Revoked
  <1>4. /\ tokens' \in Seq(Token) /\ Len(tokens') = Len(tokens) /\ tokens'[i] = row
        /\ \A u \in TokenIds \ {i} : tokens'[u] = tokens[u]
    BY <1>1, <1>2, <1>3, UpdateFacts DEF IInv
  <1>5. /\ Idle.pc \in OnCode => Idle.held \in 1..Len(codes)
        /\ Idle.pc \in OnToken => Idle.held \in 1..Len(tokens')
        /\ Idle.pc \in {"linking", "answering", "walking"} => Idle.cur \in 1..Len(tokens')
    BY IdleIsRequest DEF OnCode, OnToken
  <1>6. Goto(r, Idle)
    BY <1>1 DEF Walk, Step
  <1>7. \A u \in TokenIds : tokens'[u].scope = tokens[u].scope /\ tokens'[u].parent = tokens[u].parent
    BY <1>2, <1>4
  <1>8. /\ req' \in [Requests -> Request]
        /\ \A q \in Requests : RefersTo(req[q])'
        /\ RequestsOK'
    BY <1>1, <1>3, <1>4, <1>5, <1>6, <1>7, IdleIsRequest, OneRequestWrites
  <1>9. walked' \subseteq Nat
    BY <1>1 DEF IInv, TypeOK, Walk
  <1>10. TypeOK'
    BY <1>3, <1>4, <1>8, <1>9 DEF IInv, TypeOK
  <1>11. RowsOK' /\ GrantNeverWidens'
    BY <1>1, <1>2, <1>3, UpdateKeepsRows
  <1> QED  BY <1>8, <1>10, <1>11 DEF IInv

-----------------------------------------------------------------------------
(* The invariant *)

\* No rows, no requests.
LEMMA Initially == Init => IInv
  BY OAuthAssumption, EmptySeq, IdleIsRequest
  DEF Init, IInv, TypeOK, RowsOK, RequestsOK, GrantNeverWidens, TokenIds, CodeIds, At, RefersTo

\* Every request keeps the invariant, whatever others do between its statements.
LEMMA Inductive == IInv /\ [Next]_vars => IInv'
  <1> SUFFICES ASSUME IInv, [Next]_vars PROVE IInv'
    OBVIOUS
  <1>1. ASSUME NEW cl \in Clients, SetActive(cl) PROVE IInv'
    BY <1>1, NothingMoves DEF IInv, TypeOK, SetActive, history
  <1>2. ASSUME NEW r \in Requests, NEW t \in TokenIds, RevokeRefused(r, t) PROVE IInv'
    BY <1>2, NothingMoves DEF IInv, TypeOK, RevokeRefused, TokenIds
  <1>3. ASSUME NEW r \in Requests, TokenRequest(r) PROVE IInv'
    BY <1>3, ExchangeReadKeeps, ExchangeMarkKeeps, ExchangeIssueKeeps, RefreshReadKeeps,
       RotateIssueKeeps, RotateSaveKeeps, AnswerKeeps DEF TokenRequest
  <1>4. ASSUME NEW r \in Requests, RevokeRequest(r) PROVE IInv'
    BY <1>2, <1>4, RevokeReadKeeps, WalkKeeps DEF RevokeRequest
  <1>5. ASSUME UNCHANGED vars PROVE IInv'
    BY <1>5, NothingMoves DEF IInv, TypeOK, vars, history
  <1> QED  BY <1>1, <1>3, <1>4, <1>5, AuthorizeKeeps, RequestFailsKeeps DEF Next

\* Types, rows, requests and grants are in order in every state.
LEMMA Invariance == Spec => []IInv
  BY Initially, Inductive, PTL DEF Spec

\* TypeOK: codes, tokens and requests have their types, and a request in the
\* middle of its work refers to rows that exist (services.py, views.py).
THEOREM TypeCorrect == Spec => []TypeOK
  BY Invariance, PTL DEF IInv

\* ChainsLeadForward: the replaced_by pointers of consume_refresh_token form
\* chains that do not branch and that end, however requests interleave.
THEOREM ChainsLeadForwardCorrect == Spec => []ChainsLeadForward
  <1>1. IInv => ChainsLeadForward
    BY DEF IInv, RowsOK, ChainsLeadForward
  <1> QED  BY <1>1, Invariance, PTL

\* GrantNeverWidens: no interleaving of exchanges and rotations hands a client
\* more scope than the code it started from, or another client's grant.
THEOREM GrantNeverWidensCorrect == Spec => []GrantNeverWidens
  BY Invariance, PTL DEF IInv

\* WalkHasNoSuccessor: the loop of revoke_refresh_token_chain never reaches a
\* second token when RevokeView calls it.
THEOREM WalkHasNoSuccessorCorrect == Spec => []WalkHasNoSuccessor
  <1>1. IInv => WalkHasNoSuccessor
    BY DEF IInv, RequestsOK, WalkHasNoSuccessor
  <1> QED  BY <1>1, Invariance, PTL

-----------------------------------------------------------------------------
(* Single use: codes *)

OnC(r, c) == req[r].pc \in OnCode /\ req[r].held = c

\* Where a code yields a token it has been marked; while nobody raced for it one
\* request is at work on it, and none any more once it has yielded its token.
CodesOnce ==
    /\ \A r \in Requests : At(r, "marked") => codes[req[r].held].consumed
    /\ \A t \in TokenIds : tokens[t].parent = 0 => codes[tokens[t].code].consumed
    /\ \A c \in CodeIds : <<"code", c>> \notin raced =>
        /\ \A q, r \in Requests : OnC(q, c) /\ OnC(r, c) => q = r
        /\ \A t \in Roots(c), r \in Requests : ~OnC(r, c)
        /\ \A t, u \in Roots(c) : t = u

\* A request whose step takes it to no code, and adds no root.
LEMMA LeavesCodes ==
    ASSUME IInv, CodesOnce, NEW r \in Requests, NEW to, Goto(r, to), to.pc \notin OnCode,
           UNCHANGED codes, raced \subseteq raced',
           \A t \in TokenIds' : tokens'[t].parent = 0 =>
               t \in TokenIds /\ tokens[t].parent = 0 /\ tokens'[t].code = tokens[t].code
    PROVE  CodesOnce'
  <1>1. req'[r] = to /\ \A q \in Requests \ {r} : req'[q] = req[q]
    BY DEF IInv, TypeOK, Goto
  <1>2. \A q \in Requests, c \in CodeIds : OnC(q, c)' => OnC(q, c)
    BY <1>1 DEF OnC
  <1>3. \A c \in CodeIds : Roots(c)' \subseteq Roots(c)
    BY DEF Roots
  <1>4. \A q \in Requests : At(q, "marked")' => codes[req'[q].held].consumed
    BY <1>1 DEF CodesOnce, At, OnCode
  <1>5. CodeIds' = CodeIds
    BY DEF CodeIds
  <1> QED  BY <1>2, <1>3, <1>4, <1>5 DEF CodesOnce

\* New codes have no requests and no tokens.
LEMMA CodesGrow ==
    ASSUME IInv, CodesOnce, UNCHANGED <<tokens, req, raced>>, CodeIds \subseteq CodeIds',
           \A c \in CodeIds : codes'[c] = codes[c]
    PROVE  CodesOnce'
  <1>1. \A q \in Requests, c \in CodeIds' : OnC(q, c)' => OnC(q, c) /\ c \in CodeIds
    BY DEF OnC, IInv, TypeOK, RefersTo, CodeIds
  <1>2. \A c \in CodeIds' : Roots(c)' = Roots(c) /\ (Roots(c) # {} => c \in CodeIds)
    BY DEF Roots, IInv, RowsOK, TokenIds
  <1>3. \A q \in Requests : At(q, "marked") => req[q].held \in CodeIds
    BY DEF At, IInv, TypeOK, RefersTo, OnCode, CodeIds
  <1>4. \A t \in TokenIds : tokens[t].code \in CodeIds
    BY DEF IInv, RowsOK
  <1>5. TokenIds' = TokenIds /\ \A q \in Requests : At(q, "marked")' = At(q, "marked")
    BY DEF TokenIds, At
  <1> QED  BY <1>1, <1>2, <1>3, <1>4, <1>5 DEF CodesOnce

\* services.py:202: who finds somebody else before the mark is in raced; who comes
\* after the mark is refused.
LEMMA ExchangeReadOnce ==
    ASSUME IInv, CodesOnce, NEW r \in Requests, NEW c \in CodeIds, ExchangeRead(r, c)
    PROVE  CodesOnce'
  <1>1. /\ req'[r].pc = "read" /\ req'[r].held = c /\ req[r].pc = "idle"
        /\ \A q \in Requests \ {r} : req'[q] = req[q]
        /\ UNCHANGED <<codes, tokens>> /\ raced \subseteq raced'
        /\ ~codes[c].consumed
        /\ <<"code", c>> \notin raced' => ~Overlaps({"read"}, c)
    BY DEF ExchangeRead, Start, Goto, Idle, Consumable, IInv, TypeOK
  <1>2. CodeIds' = CodeIds /\ TokenIds' = TokenIds /\ \A d \in CodeIds : Roots(d)' = Roots(d)
    BY <1>1 DEF CodeIds, TokenIds, Roots
  <1>3. \A q \in Requests, d \in CodeIds : OnC(q, d)' => OnC(q, d) \/ (q = r /\ d = c)
    BY <1>1 DEF OnC
  <1>4. Roots(c) = {}
    BY <1>1 DEF CodesOnce, Roots
  <1>5. <<"code", c>> \notin raced' => \A q \in Requests : ~OnC(q, c)
    BY <1>1 DEF OnC, OnCode, Overlaps, CodesOnce, At
  <1>6. \A q \in Requests : At(q, "marked")' => At(q, "marked") /\ req'[q] = req[q]
    BY <1>1 DEF At
  <1> QED  BY <1>1, <1>2, <1>3, <1>4, <1>5, <1>6 DEF CodesOnce

\* Of two exchanges of a code that do not overlap the second finds it consumed
\* (services.py:202-226).
LEMMA ExchangeMarkOnce ==
    ASSUME IInv, CodesOnce, NEW r \in Requests, ExchangeMark(r)
    PROVE  CodesOnce'
  <1>1. /\ req[r].pc = "read" /\ req'[r].pc = "marked" /\ req'[r].held = req[r].held
        /\ \A q \in Requests \ {r} : req'[q] = req[q]
        /\ UNCHANGED <<tokens, raced>>
    BY DEF ExchangeMark, Goto, At, IInv, TypeOK, Request, history
  <1>2. req[r].held \in CodeIds
    BY <1>1 DEF IInv, TypeOK, RefersTo, OnCode, CodeIds
  <1>3. /\ CodeIds' = CodeIds /\ codes'[req[r].held].consumed
        /\ \A c \in CodeIds \ {req[r].held} : codes'[c] = codes[c]
    <2> DEFINE h == req[r].held
               row == [codes[h] EXCEPT !.consumed = TRUE]
    <2>1. codes \in Seq(Code) /\ codes[h] \in Code
      BY <1>2 DEF IInv, TypeOK, CodeIds
    <2>2. row \in Code /\ row.consumed
      BY <2>1 DEF Code
    <2>3. codes' = [codes EXCEPT ![h] = row]
      BY DEF ExchangeMark
    <2> HIDE DEF h, row
    <2>4. Len(codes') = Len(codes) /\ codes'[h] = row /\ \A c \in CodeIds \ {h} : codes'[c] = codes[c]
      BY <1>2, <2>1, <2>2, <2>3 DEF CodeIds, h
    <2> QED  BY <2>2, <2>4 DEF CodeIds, h
  <1>4. \A q \in Requests, c \in CodeIds : OnC(q, c)' = OnC(q, c)
    BY <1>1 DEF OnC, OnCode
  <1>5. TokenIds' = TokenIds /\ \A c \in CodeIds : Roots(c)' = Roots(c)
    BY <1>1 DEF TokenIds, Roots
  <1>6. \A q \in Requests : At(q, "marked")' => req'[q].held \in CodeIds /\ codes'[req'[q].held].consumed
    <2> SUFFICES ASSUME NEW q \in Requests, q # r, req[q].pc = "marked"
                 PROVE  req[q].held \in CodeIds /\ codes'[req[q].held].consumed
      BY <1>1, <1>2, <1>3 DEF At
    <2>1. req[q].held \in CodeIds
      BY DEF IInv, TypeOK, RefersTo, OnCode, CodeIds
    <2>2. codes[req[q].held].consumed
      BY DEF CodesOnce, At
    <2> QED  BY <1>3, <2>1, <2>2
  <1>7. \A t \in TokenIds : tokens[t].code \in CodeIds
    BY DEF IInv, RowsOK
  <1>8. \A t \in TokenIds' : tokens'[t].parent = 0 => codes'[tokens'[t].code].consumed
    BY <1>1, <1>3, <1>5, <1>7 DEF CodesOnce
  <1>9. ASSUME NEW c \in CodeIds', <<"code", c>> \notin raced'
        PROVE  /\ \A q, p \in Requests : OnC(q, c)' /\ OnC(p, c)' => q = p
               /\ \A t \in Roots(c)', q \in Requests : ~OnC(q, c)'
               /\ \A t, u \in Roots(c)' : t = u
    BY <1>1, <1>3, <1>4, <1>5, <1>9 DEF CodesOnce
  <1> QED  BY <1>6, <1>8, <1>9 DEF CodesOnce

\* The only request on the code leaves it with the root.
LEMMA ExchangeIssueOnce ==
    ASSUME IInv, CodesOnce, NEW r \in Requests, ExchangeIssue(r)
    PROVE  CodesOnce'
  <1>0. PICK c \in CodeIds : c = req[r].held
    BY DEF ExchangeIssue, At, IInv, TypeOK, RefersTo, OnCode, CodeIds
  <1> DEFINE row == [client |-> codes[c].client, scope |-> codes[c].scope, revoked |-> FALSE,
                     replacedBy |-> 0, code |-> c, parent |-> 0, sent |-> FALSE]
  <1>1. /\ req[r].pc = "marked" /\ req'[r].pc = "answering"
        /\ \A q \in Requests \ {r} : req'[q] = req[q]
        /\ UNCHANGED <<codes, raced>> /\ Issue(row)
    BY <1>0 DEF ExchangeIssue, CodeOf, Goto, At, IInv, TypeOK, Request, history
  <1>2. c \in CodeIds /\ codes[c].consumed /\ OnC(r, c)
    BY <1>0, <1>1 DEF OnCode, CodesOnce, At, OnC
  <1>3. row \in Token
    <2>1. codes[c] \in Code /\ c \in Nat
      BY <1>2 DEF IInv, TypeOK, CodeIds
    <2> QED  BY <2>1 DEF Token, Code
  <1>4. /\ TokenIds' = TokenIds \cup {Len(tokens) + 1} /\ CodeIds' = CodeIds
        /\ \A t \in TokenIds : tokens'[t] = tokens[t]
        /\ tokens'[Len(tokens) + 1].parent = 0 /\ tokens'[Len(tokens) + 1].code = c
    <2>1. Len(tokens) \in Nat
      BY DEF IInv, TypeOK
    <2> QED  BY <1>1, <1>3, <2>1, IssueFacts DEF IInv, TokenIds, CodeIds
  <1>5. \A d \in CodeIds : Roots(d)' = IF d = c THEN Roots(d) \cup {Len(tokens) + 1} ELSE Roots(d)
    BY <1>4 DEF Roots
  <1>6. \A q \in Requests, d \in CodeIds : OnC(q, d)' => OnC(q, d) /\ q # r
    BY <1>1 DEF OnC, OnCode
  <1>7. <<"code", c>> \notin raced => Roots(c) = {} /\ \A q \in Requests : ~OnC(q, c)'
    <2> SUFFICES ASSUME <<"code", c>> \notin raced
                 PROVE  Roots(c) = {} /\ \A q \in Requests : ~OnC(q, c)'
      OBVIOUS
    <2>1. \A q, p \in Requests : OnC(q, c) /\ OnC(p, c) => q = p
      BY <1>2 DEF CodesOnce
    <2>2. \A t \in Roots(c) : ~OnC(r, c)
      BY <1>2 DEF CodesOnce
    <2> QED  BY <1>2, <1>6, <2>1, <2>2
  <1>8. \A q \in Requests : At(q, "marked")' => At(q, "marked") /\ req'[q] = req[q]
    BY <1>1 DEF At
  <1>9. \A t \in TokenIds' : tokens'[t].parent = 0 => codes[tokens'[t].code].consumed
    BY <1>2, <1>4 DEF CodesOnce
  <1>10. \A q \in Requests : At(q, "marked")' => codes'[req'[q].held].consumed
    BY <1>1, <1>8 DEF CodesOnce
  <1>11. ASSUME NEW d \in CodeIds', <<"code", d>> \notin raced'
         PROVE  /\ \A q, p \in Requests : OnC(q, d)' /\ OnC(p, d)' => q = p
                /\ \A t \in Roots(d)', q \in Requests : ~OnC(q, d)'
                /\ \A t, u \in Roots(d)' : t = u
    <2>1. d \in CodeIds /\ <<"code", d>> \notin raced
      BY <1>1, <1>4, <1>11
    <2>2. CASE d = c
      BY <1>5, <1>7, <2>1, <2>2
    <2>3. CASE d # c
      <3>1. Roots(d)' = Roots(d)
        BY <1>5, <2>1, <2>3
      <3> QED  BY <1>6, <2>1, <3>1 DEF CodesOnce
    <2> QED  BY <2>2, <2>3
  <1> QED  BY <1>1, <1>9, <1>10, <1>11 DEF CodesOnce

\* The saves of one row (services.py:113, 204, 299) leave what it was issued as, and
\* revoke at most the row they are for.
LEMMA UpdatesInPlace ==
    ASSUME IInv, NEW r \in Requests, RotateSave(r) \/ Answer(r) \/ Walk(r)
    PROVE  /\ TokenIds' = TokenIds
           /\ \A t \in TokenIds : tokens'[t].parent = tokens[t].parent /\ tokens'[t].code = tokens[t].code
  <1> DEFINE i == IF RotateSave(r) THEN req[r].held ELSE req[r].cur
  <1>1. i \in TokenIds /\ tokens[i] \in Token /\ req[r].cur \in Nat
    BY DEF IInv, TypeOK, RefersTo, OnToken, RotateSave, Answer, Walk, At, TokenIds
  <1>2. PICK row \in Token : /\ row.parent = tokens[i].parent /\ row.code = tokens[i].code
                             /\ tokens' = [tokens EXCEPT ![i] = row]
    <2> DEFINE saved == [tokens[i] EXCEPT !.replacedBy = req[r].cur, !.revoked = TRUE]
               sent == [tokens[i] EXCEPT !.sent = TRUE]
               revoked == [tokens[i] EXCEPT !.revoked = TRUE]
    <2>1. /\ saved \in Token /\ sent \in Token /\ revoked \in Token
          /\ saved.parent = tokens[i].parent /\ saved.code = tokens[i].code
          /\ sent.parent = tokens[i].parent /\ sent.code = tokens[i].code
          /\ revoked.parent = tokens[i].parent /\ revoked.code = tokens[i].code
      BY <1>1 DEF Token
    <2>2. \/ tokens' = [tokens EXCEPT ![i] = saved]
          \/ tokens' = [tokens EXCEPT ![i] = sent]
          \/ tokens' = [tokens EXCEPT ![i] = revoked]
      BY DEF RotateSave, Rotated, Answer, Walk, Revoked
    <2> HIDE DEF i, saved, sent, revoked
    <2> QED  BY <2>1, <2>2
  <1> HIDE DEF i
  <1>3. Len(tokens') = Len(tokens) /\ tokens'[i] = row /\ \A t \in TokenIds \ {i} : tokens'[t] = tokens[t]
    BY <1>1, <1>2, UpdateFacts DEF IInv
  <1> QED  BY <1>2, <1>3 DEF TokenIds

\* Every step but those of an exchange leaves the codes, or lets them grow.
LEMMA StepCodesOnce == IInv /\ CodesOnce /\ [Next]_vars => CodesOnce'
  <1> SUFFICES ASSUME IInv, CodesOnce, [Next]_vars PROVE CodesOnce'
    OBVIOUS
  <1>1. CASE UNCHANGED <<codes, tokens, req, raced>>
    BY <1>1, CodesGrow DEF CodeIds
  <1>2. ASSUME NEW cl \in Clients, NEW s \in SUBSET Scopes, Authorize(cl, s) PROVE CodesOnce'
    <2>1. CodeIds \subseteq CodeIds' /\ \A c \in CodeIds : codes'[c] = codes[c]
      <3>1. codes' = Append(codes, [client |-> cl, scope |-> s, consumed |-> FALSE]) /\ codes \in Seq(Code)
        BY <1>2 DEF Authorize, IInv, TypeOK
      <3>2. Len(codes) \in Nat /\ Len(codes') = Len(codes) + 1
        BY <3>1
      <3> QED  BY <3>1, <3>2 DEF CodeIds
    <2> QED  BY <1>2, <2>1, CodesGrow DEF Authorize, history
  <1>3. ASSUME NEW r \in Requests, NEW to, Goto(r, to), to.pc \notin OnCode, UNCHANGED <<codes, tokens>>,
               raced \subseteq raced'
        PROVE  CodesOnce'
    BY <1>3, LeavesCodes DEF TokenIds
  <1>4. ASSUME NEW r \in Requests, RequestFails(r) PROVE CodesOnce'
    BY <1>3, <1>4, IdleIsRequest DEF RequestFails, OnCode, history
  <1>5. ASSUME NEW r \in Requests, NEW t \in TokenIds, NEW s \in SUBSET Scopes, RefreshRead(r, t, s)
        PROVE  CodesOnce'
    <2>1. [Idle EXCEPT !.pc = "rotating", !.held = t, !.scope = Granted(s, t)].pc \notin OnCode
      BY DEF Idle, OnCode
    <2> QED  BY <1>3, <1>5, <2>1 DEF RefreshRead, Start
  <1>6. ASSUME NEW r \in Requests, NEW t \in TokenIds, RevokeRead(r, t) PROVE CodesOnce'
    <2>1. [pc |-> "walking", held |-> t, cur |-> t, link |-> tokens[t].replacedBy,
           scope |-> {}].pc \notin OnCode
      BY DEF OnCode
    <2> QED  BY <1>3, <1>6, <2>1 DEF RevokeRead, Start
  <1>7. ASSUME NEW r \in Requests, RotateIssue(r) PROVE CodesOnce'
    <2> DEFINE t == req[r].held
               row == [client |-> tokens[t].client, scope |-> req[r].scope, revoked |-> FALSE,
                       replacedBy |-> 0, code |-> tokens[t].code, parent |-> t, sent |-> FALSE]
               to == [req[r] EXCEPT !.pc = "linking", !.cur = Len(tokens) + 1]
    <2>1. t \in TokenIds /\ tokens[t] \in Token /\ req[r] \in Request /\ Len(tokens) \in Nat
      BY <1>7 DEF IInv, TypeOK, RefersTo, OnToken, RotateIssue, At, TokenIds
    <2>2. row \in Token /\ row.parent # 0 /\ to.pc \notin OnCode
      BY <2>1 DEF Token, Request, TokenIds, OnCode
    <2>3. Issue(row) /\ Goto(r, to) /\ UNCHANGED <<codes, raced>>
      BY <1>7 DEF RotateIssue, history
    <2>4. \A u \in TokenIds' : (u \in TokenIds /\ tokens'[u] = tokens[u]) \/ tokens'[u] = row
      BY <2>1, <2>2, <2>3, IssueFacts DEF IInv, TokenIds
    <2> QED  BY <2>2, <2>3, <2>4, LeavesCodes
  <1>8. ASSUME NEW r \in Requests, RotateSave(r) \/ Answer(r) \/ Walk(r) PROVE CodesOnce'
    <2>1. PICK to : Goto(r, to) /\ to.pc \notin OnCode
      <3>1. req[r] \in Request
        BY DEF IInv, TypeOK
      <3>2. CASE RotateSave(r)
        <4>1. [req[r] EXCEPT !.pc = "answering"].pc \notin OnCode
          BY <3>1 DEF Request, OnCode
        <4> QED  BY <3>2, <4>1 DEF RotateSave
      <3>3. CASE Answer(r)
        BY <3>3, IdleIsRequest DEF Answer, OnCode
      <3>4. CASE Walk(r)
        <4>1. Step(req[r]) = Idle
          BY <3>4 DEF Walk, Step, IInv, RequestsOK
        <4> QED  BY <3>4, <4>1, IdleIsRequest DEF Walk, OnCode
      <3> QED  BY <1>8, <3>2, <3>3, <3>4
    <2>2. UNCHANGED <<codes, raced>>
      BY <1>8 DEF RotateSave, Answer, Walk, history
    <2>3. TokenIds' = TokenIds /\ \A u \in TokenIds : tokens'[u].parent = tokens[u].parent
                                                  /\ tokens'[u].code = tokens[u].code
      BY <1>8, UpdatesInPlace
    <2> QED  BY <2>1, <2>2, <2>3, LeavesCodes
  <1>9. ASSUME NEW r \in Requests, TokenRequest(r) PROVE CodesOnce'
    BY <1>5, <1>7, <1>8, <1>9, ExchangeReadOnce, ExchangeMarkOnce, ExchangeIssueOnce DEF TokenRequest
  <1>10. ASSUME NEW r \in Requests, RevokeRequest(r) PROVE CodesOnce'
    BY <1>1, <1>6, <1>8, <1>10 DEF RevokeRequest, RevokeRefused
  <1> QED  BY <1>1, <1>2, <1>4, <1>9, <1>10 DEF Next, SetActive, vars, history

-----------------------------------------------------------------------------
(* Single use: refresh tokens *)

OnT(r, t) == req[r].pc \in OnToken /\ req[r].held = t

\* A client has the token, or is about to be sent it.
Delivered(u) == tokens[u].sent \/ \E r \in Requests : At(r, "answering") /\ req[r].cur = u

\* A token is revoked before its successor goes out; while nobody raced for it one
\* request is at work on it, and none any more once it is revoked.
TokensOnce ==
    /\ walked \subseteq TokenIds
    /\ \A r \in Requests : At(r, "walking") => req[r].cur = req[r].held
    /\ \A u \in TokenIds : Delivered(u) /\ tokens[u].parent # 0 => tokens[tokens[u].parent].revoked
    /\ \A t \in TokenIds : <<"token", t>> \notin raced =>
        /\ \A q, r \in Requests : OnT(q, t) /\ OnT(r, t) => q = r
        /\ tokens[t].revoked => \A r \in Requests : ~OnT(r, t)
        /\ \A u, v \in TokenIds :
                Delivered(u) /\ Delivered(v) /\ tokens[u].parent = t /\ tokens[v].parent = t => u = v
        /\ t \in walked => tokens[t].revoked /\ \A u \in TokenIds : tokens[u].parent = t => ~Delivered(u)

\* A step that brings no request to a token, revokes nothing and sends nothing but
\* what was about to be sent or was issued for a code.
LEMMA LeavesTokens ==
    ASSUME IInv, TokensOnce, UNCHANGED walked, raced \subseteq raced', TokenIds \subseteq TokenIds',
           \A q \in Requests, t \in TokenIds' : OnT(q, t)' => t \in TokenIds /\ OnT(q, t),
           \A q \in Requests : At(q, "walking")' => At(q, "walking") /\ req'[q] = req[q],
           \A u \in TokenIds' : Delivered(u)' /\ tokens'[u].parent # 0 =>
               u \in TokenIds /\ Delivered(u) /\ tokens'[u].parent = tokens[u].parent,
           \A t \in TokenIds : tokens'[t].revoked = tokens[t].revoked
    PROVE  TokensOnce'
  <1>1. \A u \in TokenIds : tokens[u].parent # 0 => tokens[u].parent \in TokenIds
    BY DEF IInv, TypeOK, RowsOK, TokenIds
  <1>2. \A u \in TokenIds' : Delivered(u)' /\ tokens'[u].parent # 0 => tokens'[tokens'[u].parent].revoked
    BY <1>1 DEF TokensOnce
  <1>3. \A q \in Requests : At(q, "walking")' => req'[q].cur = req'[q].held
    BY DEF TokensOnce
  <1>4. ASSUME NEW t \in TokenIds', <<"token", t>> \notin raced'
        PROVE  /\ \A q, r \in Requests : OnT(q, t)' /\ OnT(r, t)' => q = r
               /\ tokens'[t].revoked => \A r \in Requests : ~OnT(r, t)'
               /\ \A u, v \in TokenIds' :
                       Delivered(u)' /\ Delivered(v)' /\ tokens'[u].parent = t /\ tokens'[v].parent = t => u = v
               /\ t \in walked => tokens'[t].revoked /\ \A u \in TokenIds' : tokens'[u].parent = t => ~Delivered(u)'
    <2>1. t # 0
      BY <1>4 DEF TokenIds
    <2>2. CASE t \in TokenIds
      BY <1>4, <2>1, <2>2 DEF TokensOnce
    <2>3. CASE t \notin TokenIds
      BY <1>1, <1>4, <2>1, <2>3 DEF TokensOnce
    <2> QED  BY <2>2, <2>3
  <1> QED  BY <1>2, <1>3, <1>4 DEF TokensOnce

\* services.py:270: who finds somebody else at work is in raced; who comes after the
\* revocation is refused.
LEMMA TokenReadOnce ==
    ASSUME IInv, TokensOnce, NEW r \in Requests, NEW t \in TokenIds, NEW to \in Request, Start(r, to),
           to.held = t, to.pc # "answering", to.pc = "walking" => to.cur = t,
           ~tokens[t].revoked, UNCHANGED <<tokens, walked>>,
           raced' = raced \cup IF Overlaps(OnToken, t) THEN {<<"token", t>>} ELSE {}
    PROVE  TokensOnce'
  <1>1. /\ req'[r] = to /\ \A q \in Requests \ {r} : req'[q] = req[q]
        /\ raced \subseteq raced' /\ req[r].pc = "idle"
        /\ <<"token", t>> \notin raced' => \A q \in Requests : ~OnT(q, t)
    BY DEF IInv, TypeOK, Start, Goto, Overlaps, OnT
  <1>2. TokenIds' = TokenIds /\ \A u \in TokenIds : Delivered(u)' => Delivered(u)
    BY <1>1 DEF TokenIds, Delivered, At
  <1>3. \A q \in Requests, u \in TokenIds : OnT(q, u)' => OnT(q, u) \/ (q = r /\ u = t)
    BY <1>1 DEF OnT
  <1>4. \A q \in Requests : At(q, "walking")' => req'[q].cur = req'[q].held
    BY <1>1 DEF TokensOnce, At
  <1> QED  BY <1>1, <1>2, <1>3, <1>4 DEF TokensOnce

\* What goes out for a code has no predecessor.
LEMMA ExchangeIssueTokensOnce ==
    ASSUME IInv, TokensOnce, NEW r \in Requests, ExchangeIssue(r)
    PROVE  TokensOnce'
  <1> DEFINE c == req[r].held
             row == [client |-> codes[c].client, scope |-> codes[c].scope, revoked |-> FALSE,
                     replacedBy |-> 0, code |-> c, parent |-> 0, sent |-> FALSE]
  <1>1. /\ req[r].pc = "marked" /\ req'[r].pc = "answering" /\ req'[r].cur = Len(tokens) + 1
        /\ \A q \in Requests \ {r} : req'[q] = req[q]
        /\ UNCHANGED <<walked, raced>> /\ Issue(row)
    BY DEF ExchangeIssue, CodeOf, Goto, At, IInv, TypeOK, Request, history
  <1>2. row \in Token
    <2>1. codes[c] \in Code /\ c \in Nat
      BY <1>1 DEF IInv, TypeOK, RefersTo, OnCode
    <2> QED  BY <2>1 DEF Token, Code
  <1>3. /\ TokenIds' = TokenIds \cup {Len(tokens) + 1} /\ Len(tokens) \in Nat
        /\ \A u \in TokenIds : tokens'[u] = tokens[u] /\ u # Len(tokens) + 1
        /\ tokens'[Len(tokens) + 1] = row /\ row.parent = 0
    <2>1. Len(tokens) \in Nat
      BY DEF IInv, TypeOK
    <2> QED  BY <1>1, <1>2, <2>1, IssueFacts DEF IInv, TokenIds
  <1> HIDE DEF row
  <1>4. \A q \in Requests, t \in TokenIds' : OnT(q, t)' => t \in TokenIds /\ OnT(q, t)
    BY <1>1 DEF OnT, OnToken, IInv, TypeOK, RefersTo, TokenIds
  <1>5. \A u \in TokenIds' : Delivered(u)' /\ tokens'[u].parent # 0 =>
            u \in TokenIds /\ Delivered(u) /\ tokens'[u].parent = tokens[u].parent
    BY <1>1, <1>3 DEF Delivered, At
  <1> QED  BY <1>1, <1>3, <1>4, <1>5, LeavesTokens DEF At

\* The successor waits: its parent is not revoked yet and nobody has it.
LEMMA RotateIssueTokensOnce ==
    ASSUME IInv, TokensOnce, NEW r \in Requests, RotateIssue(r)
    PROVE  TokensOnce'
  <1> DEFINE t == req[r].held
             row == [client |-> tokens[t].client, scope |-> req[r].scope, revoked |-> FALSE,
                     replacedBy |-> 0, code |-> tokens[t].code, parent |-> t, sent |-> FALSE]
  <1>1. /\ req[r].pc = "rotating" /\ req'[r].pc = "linking" /\ req'[r].held = t
        /\ \A q \in Requests \ {r} : req'[q] = req[q]
        /\ UNCHANGED <<walked, raced>> /\ Issue(row)
    BY DEF RotateIssue, Goto, At, IInv, TypeOK, Request, history
  <1>2. row \in Token
    <2>1. t \in TokenIds /\ tokens[t] \in Token /\ req[r] \in Request /\ Len(tokens) \in Nat
      BY <1>1 DEF IInv, TypeOK, RefersTo, OnToken, TokenIds
    <2> QED  BY <2>1 DEF Token, Request, TokenIds
  <1>3. /\ TokenIds' = TokenIds \cup {Len(tokens) + 1} /\ Len(tokens) \in Nat
        /\ \A u \in TokenIds : tokens'[u] = tokens[u] /\ u # Len(tokens) + 1
        /\ ~tokens'[Len(tokens) + 1].sent
    <2>1. Len(tokens) \in Nat
      BY DEF IInv, TypeOK
    <2> QED  BY <1>1, <1>2, <2>1, IssueFacts DEF IInv, TokenIds
  <1> HIDE DEF row
  <1>4. \A q \in Requests, u \in TokenIds' : OnT(q, u)' => u \in TokenIds /\ OnT(q, u)
    BY <1>1 DEF OnT, OnToken, IInv, TypeOK, RefersTo, TokenIds
  <1>5. \A u \in TokenIds' : Delivered(u)' /\ tokens'[u].parent # 0 =>
            u \in TokenIds /\ Delivered(u) /\ tokens'[u].parent = tokens[u].parent
    <2>1. \A q \in Requests : At(q, "answering")' => At(q, "answering") /\ req'[q] = req[q]
      BY <1>1 DEF At
    <2>2. \A q \in Requests : At(q, "answering") => req[q].cur \in TokenIds
      BY DEF At, IInv, TypeOK, RefersTo, TokenIds
    <2> QED  BY <1>3, <2>1, <2>2 DEF Delivered
  <1> QED  BY <1>1, <1>3, <1>4, <1>5, LeavesTokens DEF At

\* The two saves that revoke, of the rotation and of the walk.
LEMMA RevokesItsOwn ==
    ASSUME IInv, NEW r \in Requests, RotateSave(r) \/ Walk(r), TokensOnce
    PROVE  LET i == req[r].held IN
           /\ i \in TokenIds /\ OnT(r, i) /\ tokens'[i].revoked
           /\ \A t \in TokenIds : tokens'[t].sent = tokens[t].sent
                               /\ (tokens[t].revoked => tokens'[t].revoked)
                               /\ (tokens'[t].revoked => tokens[t].revoked \/ t = i)
           /\ \A q \in Requests, t \in TokenIds : OnT(q, t)' => OnT(q, t) /\ q # r
           /\ \A q \in Requests : At(q, "walking")' => At(q, "walking") /\ req'[q] = req[q]
  <1> DEFINE i == req[r].held
             row == [tokens[i] EXCEPT !.replacedBy = req[r].cur, !.revoked = TRUE]
             flagged == [tokens[i] EXCEPT !.revoked = TRUE]
  <1>1. /\ i \in TokenIds /\ tokens[i] \in Token /\ req[r].cur \in Nat /\ OnT(r, i) /\ req[r] \in Request
        /\ Walk(r) => req[r].cur = i
    BY DEF IInv, TypeOK, RefersTo, OnToken, RotateSave, Walk, At, TokenIds, OnT, TokensOnce, Request
  <1>2. PICK new \in Token : /\ new.revoked /\ new.sent = tokens[i].sent
                             /\ tokens' = [tokens EXCEPT ![i] = new]
    <2>1. /\ row \in Token /\ row.revoked /\ row.sent = tokens[i].sent
          /\ flagged \in Token /\ flagged.revoked /\ flagged.sent = tokens[i].sent
      BY <1>1 DEF Token
    <2>2. tokens' = [tokens EXCEPT ![i] = row] \/ tokens' = [tokens EXCEPT ![i] = flagged]
      BY <1>1 DEF RotateSave, Rotated, Walk, Revoked
    <2> HIDE DEF row, flagged
    <2> QED  BY <2>1, <2>2
  <1>3. tokens'[i] = new /\ \A t \in TokenIds \ {i} : tokens'[t] = tokens[t]
    BY <1>1, <1>2, UpdateFacts DEF IInv
  <1>4. PICK to : Goto(r, to) /\ to.pc \notin OnToken
    <2>1. CASE RotateSave(r)
      <3>1. [req[r] EXCEPT !.pc = "answering"].pc \notin OnToken
        BY <1>1 DEF Request, OnToken
      <3> QED  BY <2>1, <3>1 DEF RotateSave
    <2>2. CASE Walk(r)
      <3>1. Step(req[r]) = Idle
        BY <2>2 DEF Walk, Step, IInv, RequestsOK
      <3> QED  BY <2>2, <3>1, IdleIsRequest DEF Walk, OnToken
    <2> QED  BY <2>1, <2>2
  <1>5. req'[r] = to /\ \A q \in Requests \ {r} : req'[q] = req[q]
    BY <1>4 DEF Goto, IInv, TypeOK
  <1>6. \A q \in Requests, t \in TokenIds : OnT(q, t)' => OnT(q, t) /\ q # r
    BY <1>4, <1>5 DEF OnT
  <1>7. \A q \in Requests : At(q, "walking")' => At(q, "walking") /\ req'[q] = req[q]
    BY <1>4, <1>5 DEF At, OnToken
  <1> QED  BY <1>1, <1>2, <1>3, <1>6, <1>7

\* The successor is the first: no delivered one existed while the token was live.
LEMMA RotateSaveTokensOnce ==
    ASSUME IInv, TokensOnce, NEW r \in Requests, RotateSave(r)
    PROVE  TokensOnce'
  <1> DEFINE i == req[r].held
             n == req[r].cur
  <1>1. /\ i \in TokenIds /\ OnT(r, i) /\ tokens'[i].revoked
        /\ \A t \in TokenIds : tokens'[t].sent = tokens[t].sent
                            /\ (tokens[t].revoked => tokens'[t].revoked)
                            /\ (tokens'[t].revoked => tokens[t].revoked \/ t = i)
        /\ \A q \in Requests, t \in TokenIds : OnT(q, t)' => OnT(q, t) /\ q # r
        /\ \A q \in Requests : At(q, "walking")' => At(q, "walking") /\ req'[q] = req[q]
    BY RevokesItsOwn
  <1>2. TokenIds' = TokenIds /\ \A t \in TokenIds : tokens'[t].parent = tokens[t].parent
    BY UpdatesInPlace
  <1>3. UNCHANGED <<walked, raced>> /\ n \in TokenIds /\ tokens[n].parent = i
    BY DEF RotateSave, history, At, IInv, TypeOK, RefersTo, RequestsOK, TokenIds
  <1>4. \A u \in TokenIds : Delivered(u)' => Delivered(u) \/ u = n
    <2>1. req'[r].cur = n /\ \A q \in Requests \ {r} : req'[q] = req[q]
      BY DEF RotateSave, Goto, IInv, TypeOK, Request
    <2> QED  BY <1>1, <2>1 DEF Delivered, At
  <1>5. \A u \in TokenIds : tokens[u].parent # 0 => tokens[u].parent \in TokenIds
    BY DEF IInv, TypeOK, RowsOK, TokenIds
  <1> HIDE DEF i, n
  <1>6. i # 0
    BY <1>1 DEF TokenIds
  <1>7. \A u \in TokenIds : Delivered(u)' /\ tokens'[u].parent # 0 => tokens'[tokens'[u].parent].revoked
    BY <1>1, <1>2, <1>3, <1>4, <1>5, <1>6 DEF TokensOnce
  <1>8. <<"token", i>> \notin raced =>
            /\ ~tokens[i].revoked /\ i \notin walked
            /\ \A q \in Requests : OnT(q, i) => q = r
    BY <1>1 DEF TokensOnce
  <1>9. <<"token", i>> \notin raced => \A u \in TokenIds : tokens[u].parent = i => ~Delivered(u)
    BY <1>6, <1>8 DEF TokensOnce
  <1>10. ASSUME NEW t \in TokenIds, <<"token", t>> \notin raced
         PROVE  /\ \A q, p \in Requests : OnT(q, t)' /\ OnT(p, t)' => q = p
                /\ tokens'[t].revoked => \A q \in Requests : ~OnT(q, t)'
                /\ \A u, v \in TokenIds : Delivered(u)' /\ Delivered(v)' /\ tokens'[u].parent = t
                                           /\ tokens'[v].parent = t => u = v
                /\ t \in walked => /\ tokens'[t].revoked
                                    /\ \A u \in TokenIds : tokens'[u].parent = t => ~Delivered(u)'
    <2>1. CASE t = i
      BY <1>1, <1>2, <1>4, <1>8, <1>9, <1>10, <2>1
    <2>2. CASE t # i
      BY <1>1, <1>2, <1>3, <1>4, <1>10, <2>2 DEF TokensOnce
    <2> QED  BY <2>1, <2>2
  <1>11. \A q \in Requests : At(q, "walking")' => req'[q].cur = req'[q].held
    BY <1>1 DEF TokensOnce
  <1> QED  BY <1>2, <1>3, <1>7, <1>10, <1>11 DEF TokensOnce

\* RevokeView: the token was live, so no successor of it had gone out; those that are
\* still to be linked are the overlaps the history records.
LEMMA WalkTokensOnce ==
    ASSUME IInv, TokensOnce, NEW r \in Requests, Walk(r)
    PROVE  TokensOnce'
  <1> DEFINE i == req[r].held
  <1>1. /\ i \in TokenIds /\ OnT(r, i) /\ tokens'[i].revoked
        /\ \A t \in TokenIds : tokens'[t].sent = tokens[t].sent
                            /\ (tokens[t].revoked => tokens'[t].revoked)
                            /\ (tokens'[t].revoked => tokens[t].revoked \/ t = i)
        /\ \A q \in Requests, t \in TokenIds : OnT(q, t)' => OnT(q, t) /\ q # r
        /\ \A q \in Requests : At(q, "walking")' => At(q, "walking") /\ req'[q] = req[q]
    BY RevokesItsOwn
  <1>2. TokenIds' = TokenIds /\ \A t \in TokenIds : tokens'[t].parent = tokens[t].parent
    BY UpdatesInPlace
  <1>3. UNCHANGED raced /\ walked' = walked \cup {i}
    BY DEF Walk
  <1>4. \A u \in TokenIds : Delivered(u)' => Delivered(u)
    <2>1. req'[r].pc = "idle" /\ \A q \in Requests \ {r} : req'[q] = req[q]
      BY IdleIsRequest DEF Walk, Step, Goto, IInv, TypeOK, RequestsOK
    <2> QED  BY <1>1, <2>1 DEF Delivered, At
  <1>5. \A u \in TokenIds : tokens[u].parent # 0 => tokens[u].parent \in TokenIds
    BY DEF IInv, TypeOK, RowsOK, TokenIds
  <1> HIDE DEF i
  <1>6. i # 0
    BY <1>1 DEF TokenIds
  <1>7. \A u \in TokenIds : Delivered(u)' /\ tokens'[u].parent # 0 => tokens'[tokens'[u].parent].revoked
    BY <1>1, <1>2, <1>4, <1>5 DEF TokensOnce
  <1>8. <<"token", i>> \notin raced =>
            /\ ~tokens[i].revoked
            /\ \A q \in Requests : OnT(q, i) => q = r
    BY <1>1 DEF TokensOnce
  <1>9. <<"token", i>> \notin raced => \A u \in TokenIds : tokens[u].parent = i => ~Delivered(u)
    BY <1>6, <1>8 DEF TokensOnce
  <1>10. ASSUME NEW t \in TokenIds, <<"token", t>> \notin raced
         PROVE  /\ \A q, p \in Requests : OnT(q, t)' /\ OnT(p, t)' => q = p
                /\ tokens'[t].revoked => \A q \in Requests : ~OnT(q, t)'
                /\ \A u, v \in TokenIds : Delivered(u)' /\ Delivered(v)' /\ tokens'[u].parent = t
                                           /\ tokens'[v].parent = t => u = v
                /\ t \in walked' => /\ tokens'[t].revoked
                                     /\ \A u \in TokenIds : tokens'[u].parent = t => ~Delivered(u)'
    <2>1. CASE t = i
      BY <1>1, <1>2, <1>4, <1>8, <1>9, <1>10, <2>1
    <2>2. CASE t # i
      BY <1>1, <1>2, <1>3, <1>4, <1>10, <2>2 DEF TokensOnce
    <2> QED  BY <2>1, <2>2
  <1>11. \A q \in Requests : At(q, "walking")' => req'[q].cur = req'[q].held
    BY <1>1 DEF TokensOnce
  <1>12. walked' \subseteq TokenIds'
    BY <1>1, <1>2, <1>3 DEF TokensOnce
  <1> QED  BY <1>2, <1>3, <1>7, <1>10, <1>11, <1>12 DEF TokensOnce

\* The answer sends what was about to be sent.
LEMMA AnswerTokensOnce ==
    ASSUME IInv, TokensOnce, NEW r \in Requests, Answer(r)
    PROVE  TokensOnce'
  <1> DEFINE i == req[r].cur
             row == [tokens[i] EXCEPT !.sent = TRUE]
  <1>1. i \in TokenIds /\ tokens[i] \in Token /\ Delivered(i)
    BY DEF IInv, TypeOK, RefersTo, Answer, At, TokenIds, Delivered
  <1>2. row \in Token /\ row.revoked = tokens[i].revoked /\ row.parent = tokens[i].parent
    BY <1>1 DEF Token
  <1>3. tokens' = [tokens EXCEPT ![i] = row] /\ UNCHANGED <<walked, raced>>
    BY DEF Answer, history
  <1> HIDE DEF row
  <1>4. /\ Len(tokens') = Len(tokens) /\ tokens'[i] = row
        /\ \A t \in TokenIds \ {i} : tokens'[t] = tokens[t]
    BY <1>1, <1>2, <1>3, UpdateFacts DEF IInv
  <1>5. req'[r].pc = "idle" /\ \A q \in Requests \ {r} : req'[q] = req[q]
    BY IdleIsRequest DEF Answer, Goto, IInv, TypeOK
  <1>6. TokenIds' = TokenIds
    BY <1>4 DEF TokenIds
  <1>7. \A u \in TokenIds : Delivered(u)' => Delivered(u)
    BY <1>1, <1>4, <1>5 DEF Delivered, At
  <1>8. /\ \A q \in Requests, t \in TokenIds : OnT(q, t)' => OnT(q, t)
        /\ \A q \in Requests : At(q, "walking")' => At(q, "walking") /\ req'[q] = req[q]
    BY <1>5 DEF OnT, OnToken, At
  <1>9. \A t \in TokenIds : tokens'[t].revoked = tokens[t].revoked /\ tokens'[t].parent = tokens[t].parent
    BY <1>2, <1>4
  <1> QED  BY <1>3, <1>6, <1>7, <1>8, <1>9, LeavesTokens

\* Whoever replaces a token that another request has replaced overlapped with it
\* (services.py:289-323).
LEMMA StepTokensOnce == IInv /\ TokensOnce /\ [Next]_vars => TokensOnce'
  <1> SUFFICES ASSUME IInv, TokensOnce, [Next]_vars PROVE TokensOnce'
    OBVIOUS
  <1>1. ASSUME NEW r \in Requests, NEW to, Goto(r, to), to.pc \notin OnToken \cup {"answering"},
               UNCHANGED <<tokens, walked>>, raced \subseteq raced'
        PROVE  TokensOnce'
    <2>1. req'[r] = to /\ \A q \in Requests \ {r} : req'[q] = req[q]
      BY <1>1 DEF Goto, IInv, TypeOK
    <2>2. TokenIds' = TokenIds /\ \A u \in TokenIds : Delivered(u)' => Delivered(u)
      BY <1>1, <2>1 DEF TokenIds, Delivered, At
    <2>3. /\ \A q \in Requests, t \in TokenIds : OnT(q, t)' => OnT(q, t)
          /\ \A q \in Requests : At(q, "walking")' => At(q, "walking") /\ req'[q] = req[q]
      BY <1>1, <2>1 DEF OnT, OnToken, At
    <2> QED  BY <1>1, <2>2, <2>3, LeavesTokens
  <1>2. CASE UNCHANGED <<tokens, req, raced, walked>>
    <2>1. /\ TokenIds' = TokenIds /\ \A u \in TokenIds : Delivered(u)' = Delivered(u)
          /\ \A q \in Requests, t \in TokenIds : OnT(q, t)' = OnT(q, t)
          /\ \A q \in Requests : At(q, "walking")' = At(q, "walking")
      BY <1>2 DEF TokenIds, Delivered, OnT, At
    <2> QED  BY <1>2, <2>1, LeavesTokens
  <1>3. ASSUME NEW r \in Requests, NEW c \in CodeIds, ExchangeRead(r, c) PROVE TokensOnce'
    <2>1. [Idle EXCEPT !.pc = "read", !.held = c].pc \notin OnToken \cup {"answering"}
      BY DEF Idle, OnToken
    <2> QED  BY <1>1, <1>3, <2>1 DEF ExchangeRead, Start
  <1>4. ASSUME NEW r \in Requests, ExchangeMark(r) PROVE TokensOnce'
    <2>1. [req[r] EXCEPT !.pc = "marked"].pc \notin OnToken \cup {"answering"}
      BY DEF IInv, TypeOK, Request, OnToken
    <2> QED  BY <1>1, <1>4, <2>1 DEF ExchangeMark, history
  <1>5. ASSUME NEW r \in Requests, RequestFails(r) PROVE TokensOnce'
    BY <1>1, <1>5, IdleIsRequest DEF RequestFails, OnToken, history
  <1>6. ASSUME NEW r \in Requests, NEW t \in TokenIds, NEW s \in SUBSET Scopes, RefreshRead(r, t, s)
        PROVE  TokensOnce'
    <2> DEFINE to == [Idle EXCEPT !.pc = "rotating", !.held = t, !.scope = Granted(s, t)]
    <2>1. to \in Request /\ to.held = t /\ to.pc = "rotating"
      <3>1. Granted(s, t) \in SUBSET Scopes /\ t \in Nat
        BY RowTypes DEF IInv, TypeOK, Granted, Token, TokenIds
      <3> QED  BY <3>1 DEF Idle, Request, OnToken
    <2>2. Start(r, to)
      BY <1>6 DEF RefreshRead
    <2> HIDE DEF to
    <2> QED  BY <1>6, <2>1, <2>2, TokenReadOnce DEF RefreshRead, Rotatable
  <1>7. ASSUME NEW r \in Requests, NEW t \in TokenIds, RevokeRead(r, t) PROVE TokensOnce'
    <2> DEFINE to == [pc |-> "walking", held |-> t, cur |-> t, link |-> tokens[t].replacedBy, scope |-> {}]
    <2>1. to \in Request /\ to.held = t /\ to.cur = t /\ to.pc = "walking"
      BY RowTypes DEF IInv, TypeOK, Token, TokenIds, Request, OnToken
    <2>2. Start(r, to)
      BY <1>7 DEF RevokeRead
    <2> HIDE DEF to
    <2> QED  BY <1>7, <2>1, <2>2, TokenReadOnce DEF RevokeRead
  <1>8. ASSUME NEW r \in Requests, TokenRequest(r) PROVE TokensOnce'
    BY <1>3, <1>4, <1>6, <1>8, ExchangeIssueTokensOnce, RotateIssueTokensOnce, RotateSaveTokensOnce,
       AnswerTokensOnce DEF TokenRequest
  <1>9. ASSUME NEW r \in Requests, RevokeRequest(r) PROVE TokensOnce'
    BY <1>2, <1>7, <1>9, WalkTokensOnce DEF RevokeRequest, RevokeRefused
  <1> QED  BY <1>2, <1>5, <1>8, <1>9 DEF Next, SetActive, Authorize, vars, history

\* Unless requests raced for it, one request at a time is at work on a code or token.
LEMMA OnceInvariance == Spec => [](IInv /\ CodesOnce /\ TokensOnce)
  <1>1. Init => CodesOnce /\ TokensOnce
    BY IdleIsRequest, EmptySeq DEF Init, CodesOnce, TokensOnce, At, Idle, TokenIds, CodeIds
  <1> QED  BY <1>1, Initially, Inductive, StepCodesOnce, StepTokensOnce, PTL DEF Spec

-----------------------------------------------------------------------------
(* What a step may not do to a row *)

\* Row b may take the place of row a of token t.
Advances(t, a, b) ==
    /\ a.revoked => b.revoked
    /\ a.replacedBy # 0 /\ b.replacedBy # a.replacedBy => b.replacedBy # 0 /\ <<"token", t>> \in raced
    /\ b.scope = a.scope /\ b.parent = a.parent

RowsAdvance == \A t \in TokenIds : Advances(t, tokens[t], tokens'[t])

\* Writing one row that advances leaves the others alone.
LEMMA UpdateAdvances ==
    ASSUME IInv, NEW i \in TokenIds, NEW row \in Token, Advances(i, tokens[i], row),
           tokens' = [tokens EXCEPT ![i] = row]
    PROVE  RowsAdvance
  <1>1. tokens'[i] = row /\ \A t \in TokenIds \ {i} : tokens'[t] = tokens[t]
    BY UpdateFacts DEF IInv
  <1> QED  BY <1>1 DEF RowsAdvance, Advances

\* A new row does not touch the old ones.
LEMMA IssueAdvances ==
    ASSUME IInv, NEW r \in Requests, ExchangeIssue(r) \/ RotateIssue(r)
    PROVE  RowsAdvance
  <1>1. PICK row : Issue(row)
    BY DEF ExchangeIssue, RotateIssue
  <1>2. \A t \in TokenIds : tokens'[t] = tokens[t]
    BY <1>1 DEF IInv, TypeOK, Issue, TokenIds
  <1> QED  BY <1>2 DEF RowsAdvance, Advances

\* A rotation revokes its row and names its own token as the successor.  Where the
\* row names one already it is revoked, and a request still at work on a revoked
\* token overlapped with the one that revoked it.
LEMMA RotateSaveAdvances ==
    ASSUME IInv, TokensOnce, NEW r \in Requests, RotateSave(r)
    PROVE  RowsAdvance
  <1> DEFINE i == req[r].held
             n == req[r].cur
             row == [tokens[i] EXCEPT !.replacedBy = n, !.revoked = TRUE]
  <1>1. i \in TokenIds /\ n \in TokenIds /\ tokens[i] \in Token /\ OnT(r, i)
    BY DEF IInv, TypeOK, RefersTo, OnToken, RotateSave, At, TokenIds, OnT
  <1>2. row \in Token /\ n # 0
    <2>1. n \in Nat /\ n # 0
      BY <1>1 DEF TokenIds, IInv, TypeOK
    <2> QED  BY <1>1, <2>1 DEF Token
  <1>3. tokens[i].replacedBy # 0 => <<"token", i>> \in raced
    BY <1>1 DEF IInv, RowsOK, TokenIds, TokensOnce
  <1>4. Advances(i, tokens[i], row)
    BY <1>1, <1>2, <1>3 DEF Token, Advances
  <1>5. tokens' = [tokens EXCEPT ![i] = row]
    BY DEF RotateSave, Rotated
  <1> QED  BY <1>1, <1>2, <1>4, <1>5, UpdateAdvances

\* Answer and walk set flags and reset none.
LEMMA FlagAdvances ==
    ASSUME IInv, NEW r \in Requests, Answer(r) \/ Walk(r)
    PROVE  RowsAdvance
  <1> DEFINE i == req[r].cur
             sent == [tokens[i] EXCEPT !.sent = TRUE]
             revoked == [tokens[i] EXCEPT !.revoked = TRUE]
  <1>1. i \in TokenIds /\ tokens[i] \in Token
    BY DEF IInv, TypeOK, RefersTo, Answer, Walk, At, TokenIds
  <1>2. /\ sent \in Token /\ Advances(i, tokens[i], sent)
        /\ revoked \in Token /\ Advances(i, tokens[i], revoked)
    BY <1>1 DEF Token, Advances
  <1>3. tokens' = [tokens EXCEPT ![i] = sent] \/ tokens' = [tokens EXCEPT ![i] = revoked]
    BY DEF Answer, Walk, Revoked
  <1> QED  BY <1>1, <1>2, <1>3, UpdateAdvances

\* No step of any request moves a row backwards.
LEMMA StepAdvances == IInv /\ TokensOnce /\ [Next]_vars => RowsAdvance
  <1> SUFFICES ASSUME IInv, TokensOnce, [Next]_vars PROVE RowsAdvance
    OBVIOUS
  <1>1. CASE UNCHANGED tokens
    BY <1>1 DEF RowsAdvance, Advances
  <1>2. ASSUME NEW r \in Requests, TokenRequest(r) PROVE RowsAdvance
    BY <1>1, <1>2, IssueAdvances, RotateSaveAdvances, FlagAdvances
    DEF TokenRequest, ExchangeRead, ExchangeMark, RefreshRead
  <1>3. ASSUME NEW r \in Requests, RevokeRequest(r) PROVE RowsAdvance
    BY <1>1, <1>3, FlagAdvances DEF RevokeRequest, RevokeRead, RevokeRefused
  <1>4. CASE ~\E r \in Requests : TokenRequest(r) \/ RevokeRequest(r)
    BY <1>1, <1>4 DEF Next, SetActive, Authorize, RequestFails, vars
  <1> QED  BY <1>2, <1>3, <1>4

\* RowsOnlyAdvance: no request, however stale its copy of a row, revives a token,
\* changes a grant or empties the column of a recorded successor (every save names
\* its columns: services.py:113, 202-204, 296-299); and unless two requests
\* overlapped on the token, the successor first recorded is the one that stays.
THEOREM RowsOnlyAdvanceCorrect == Spec => RowsOnlyAdvance
  <1>1. IInv /\ TokensOnce /\ [Next]_vars =>
          [\A t \in TokenIds :
            /\ tokens[t].revoked => tokens'[t].revoked
            /\ tokens[t].replacedBy # 0 /\ tokens'[t].replacedBy # tokens[t].replacedBy =>
                   tokens'[t].replacedBy # 0 /\ <<"token", t>> \in raced
            /\ tokens'[t].scope = tokens[t].scope /\ tokens'[t].parent = tokens[t].parent]_vars
    BY StepAdvances DEF RowsAdvance, Advances
  <1> QED  BY <1>1, OnceInvariance, PTL DEF Spec, RowsOnlyAdvance

\* What holds no two elements has at most one.
LEMMA AtMostOne ==
    ASSUME NEW S, \A x, y \in S : x = y
    PROVE  Cardinality(S) <= 1
  <1>1. CASE S = {}
    BY <1>1, FS_EmptySet
  <1>2. CASE S # {}
    <2>1. PICK x : S = {x}
      BY <1>2
    <2> QED  BY <2>1, FS_Singleton
  <1> QED  BY <1>1, <1>2

\* SingleUseUnlessRaced: the marks consume_authorization_code and consume_refresh_token
\* leave in the rows are enough for single use unless two requests read a row before
\* either marked it; failures, late retries and revocations in between do no harm.
THEOREM SingleUseUnlessRacedCorrect == Spec => []SingleUseUnlessRaced
  <1>1. CodesOnce /\ TokensOnce => SingleUseUnlessRaced
    <2> SUFFICES ASSUME CodesOnce, TokensOnce PROVE SingleUseUnlessRaced
      OBVIOUS
    <2>1. ASSUME NEW c \in CodeIds, <<"code", c>> \notin raced PROVE Cardinality(Roots(c)) <= 1
      BY <2>1, AtMostOne DEF CodesOnce
    <2>2. ASSUME NEW t \in TokenIds, <<"token", t>> \notin raced PROVE Cardinality(Children(t)) <= 1
      <3>1. \A u, v \in Children(t) : u = v
        BY <2>2 DEF TokensOnce, Children, Delivered
      <3> QED  BY <3>1, AtMostOne
    <2> QED  BY <2>1, <2>2 DEF SingleUseUnlessRaced
  <1> QED  BY <1>1, OnceInvariance, PTL

\* RevokedIsTheLast: a token that RevokeView revoked is the last of its chain a client
\* holds, unless a rotation overlapped with the revocation.
THEOREM RevokedIsTheLastCorrect == Spec => []RevokedIsTheLast
  <1>1. TokensOnce => RevokedIsTheLast
    BY DEF TokensOnce, RevokedIsTheLast, Children, Delivered
  <1> QED  BY <1>1, OnceInvariance, PTL

=============================================================================
