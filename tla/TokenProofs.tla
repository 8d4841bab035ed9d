---------------------------- MODULE TokenProofs ----------------------------
(***************************************************************************)
(* Theorems about TokenEndpoint, for every number of codes, users and      *)
(* concurrent handlers, and about TokenRevocation, for any number of       *)
(* tokens and of requests in flight, all lifetimes and any change of       *)
(* access_token_ttl.                                                       *)
(***************************************************************************)
EXTENDS TokenEndpoint, TokenRevocation, TLAPS

(* The locals of an idle handler have their type. *)
LEMMA IdleType == IdleReq \in Req
  BY TokenConstants DEF IdleReq, Req, AnyCode, PCs, Creds, TokOrNone, NoTok

(* Rows are row numbers. *)
LEMMA RowsAreTokens == TypeOK => Rows \subseteq Tok
  BY TokenConstants DEF TypeOK, Rows, Tok

(* The steps that end a handler or move it to another statement keep the   *)
(* type of its locals.                                                     *)
LEMMA GotoType ==
  ASSUME TypeOK, NEW r \in Reqs, NEW l \in PCs, Goto(r, l) \/ Finish(r)
  PROVE  req' \in [Reqs -> Req]
  BY IdleType DEF TypeOK, Goto, Finish, Start, Req

(* So do the steps that give it new locals. *)
LEMMA StartType ==
  ASSUME TypeOK, NEW r \in Reqs, NEW q \in Req, Start(r, q)
  PROVE  req' \in [Reqs -> Req]
  BY DEF TypeOK, Start

(* In particular after an insertion. *)
LEMMA GotoNewType ==
  ASSUME TypeOK, NEW r \in Reqs, NEW l \in PCs, NEW t \in Tok, GotoNew(r, l, t)
  PROVE  req' \in [Reqs -> Req]
<1>0. req[r] \in Req /\ t \in TokOrNone
  BY TokenConstants DEF TypeOK, TokOrNone, Tok
<1>1. [req[r] EXCEPT !.pc = l, !.new = t] \in Req
  BY <1>0 DEF Req
<1>2. QED
  BY <1>1, StartType DEF GotoNew

(* One step keeps every type. *)
LEMMA TypeStep == IInv /\ [Next]_vars => TypeOK'
<1> SUFFICES ASSUME IInv, [Next]_vars PROVE TypeOK'
  OBVIOUS
<1> USE TokenConstants DEF TokOrNone, Tok, NoTok
<1>0. TypeOK /\ Rows \subseteq Tok /\ \A r \in Reqs : HandlerOK(r)
  BY RowsAreTokens DEF IInv
<1>1. CASE Tick
  BY <1>0, <1>1 DEF TypeOK, Tick, codes, tokens
<1>2. ASSUME NEW c \in Codes, CreateCode(c) \/ ExpireCode(c) PROVE TypeOK'
  BY <1>0, <1>2 DEF TypeOK, CreateCode, ExpireCode, tokens
<1>3. ASSUME NEW u \in Users, SetActive(u) PROVE TypeOK'
  <2>1. active' \in [Users -> BOOLEAN]
    BY <1>0, <1>3, Zenon DEF TypeOK, SetActive
  <2>2. QED
    BY <1>0, <1>3, <2>1 DEF TypeOK, SetActive, codes, tokens
<1>4. ASSUME NEW u \in Users, NEW keep \in TokOrNone, RevokeUser(u, keep) PROVE TypeOK'
  <2>1. UserRows(u) \subseteq Rows
    BY DEF UserRows
  <2>2. revoked' \subseteq Tok
    BY <1>0, <1>4, <2>1 DEF TypeOK, RevokeUser
  <2>3. QED
    BY <1>0, <1>4, <2>2 DEF TypeOK, RevokeUser, codes
<1>5. ASSUME NEW t \in Tok, RevokeSession(t) PROVE TypeOK'
  BY <1>0, <1>5 DEF TypeOK, RevokeSession, RevokeByID, codes
<1>6. ASSUME NEW r \in Reqs, NEW c \in Codes, NEW k \in Creds, ExchangeCode(r, c, k)
      PROVE TypeOK'
  <2>1. req' \in [Reqs -> Req]
    <3> DEFINE q(l, cred) ==
          [pc |-> l, cred |-> cred, code |-> c, cur |-> NoTok, new |-> NoTok]
    <3>1. q("codeUser", "ok") \in Req /\ q("lookup", k) \in Req
      BY DEF Req, PCs, Creds, TokOrNone, NoTok
    <3>2. QED
      BY <1>0, <1>6, <3>1, IdleType, StartType DEF ExchangeCode, Finish
  <2>2. codeSt' \in [Codes -> {"absent", "fresh", "used", "expired"}]
    BY <1>0, <1>6 DEF TypeOK, ExchangeCode
  <2>3. QED
    BY <1>0, <1>6, <2>1, <2>2 DEF TypeOK, ExchangeCode, tokens
<1>7. ASSUME NEW r \in Reqs, CodeUser(r) PROVE TypeOK'
  <2>1. req' \in [Reqs -> Req]
    BY <1>0, <1>7, GotoType DEF CodeUser, GotoIf, PCs
  <2>2. QED
    BY <1>0, <1>7, <2>1 DEF TypeOK, CodeUser, codes, tokens
<1>8. ASSUME NEW r \in Reqs, CodeInsert(r) PROVE TypeOK'
  <2>0. ntok + 1 \in Tok
    BY <1>0, <1>8 DEF TypeOK, CodeInsert, InsertRow
  <2>1. req' \in [Reqs -> Req]
    BY <1>0, <1>8, <2>0, GotoNewType DEF CodeInsert, PCs
  <2>2. row' \in [Tok -> Row]
    <3>1. [grant |-> req[r].code, family |-> ntok + 1, expiresAt |-> now + RefreshTTL] \in Row
      BY <1>0, <2>0 DEF TypeOK, Row, Req
    <3>2. QED
      BY <1>0, <1>8, <3>1 DEF TypeOK, CodeInsert, InsertRow
  <2>p. parent' \in [Tok -> TokOrNone]
    BY <1>0, <1>8 DEF TypeOK, CodeInsert, InsertRow
  <2>n. ntok' \in 0..MaxTok
    BY <1>0, <1>8 DEF TypeOK, CodeInsert, InsertRow
  <2>3. QED
    BY <1>0, <1>8, <2>1, <2>2, <2>n, <2>p DEF TypeOK, CodeInsert, codes
<1>9. ASSUME NEW r \in Reqs, SetRevocationData(r) PROVE TypeOK'
  <2>1. req' \in [Reqs -> Req]
    BY <1>0, <1>9, GotoType DEF SetRevocationData, PCs
  <2>2. codeData' \in [Codes -> TokOrNone]
    BY <1>0, <1>9 DEF TypeOK, SetRevocationData, Req
  <2>3. QED
    BY <1>0, <1>9, <2>1, <2>2 DEF TypeOK, SetRevocationData, tokens
<1>10. ASSUME NEW r \in Reqs, GetUsedByHash(r) PROVE TypeOK'
  <2>1. req' \in [Reqs -> Req]
    <3>1. [IdleReq EXCEPT !.pc = "revokeJti", !.cur = codeData[req[r].code]] \in Req
      BY <1>0, IdleType DEF TypeOK, Req, PCs
    <3>2. QED
      BY <1>0, <1>10, <3>1, IdleType, StartType DEF GetUsedByHash, Finish
  <2>2. QED
    BY <1>0, <1>10, <2>1 DEF TypeOK, GetUsedByHash, codes, tokens
<1>11. ASSUME NEW r \in Reqs, RevokeCodeJTI(r) PROVE TypeOK'
  <2>1. req' \in [Reqs -> Req]
    BY <1>0, <1>11, GotoType DEF RevokeCodeJTI, PCs
  <2>2. revokedJti' \subseteq Tok
    BY <1>0, <1>11 DEF TypeOK, RevokeCodeJTI, At, HandlerOK
  <2>3. QED
    BY <1>0, <1>11, <2>1, <2>2 DEF TypeOK, RevokeCodeJTI, codes, tokens
<1>12. ASSUME NEW r \in Reqs, NEW t \in Tok, NEW k \in Creds, ExchangeRefreshToken(r, t, k)
       PROVE TypeOK'
  <2>1. req' \in [Reqs -> Req]
    <3> DEFINE q(l, cur) ==
          [pc |-> l, cred |-> k, code |-> AnyCode, cur |-> cur, new |-> NoTok]
    <3>1. \A l \in PCs, cur \in TokOrNone : q(l, cur) \in Req
      BY DEF Req, AnyCode
    <3>2. replacedBy[t] \in TokOrNone /\ t \in TokOrNone
      BY <1>0 DEF TypeOK
    <3>3. QED
      BY <1>0, <1>12, <3>1, <3>2, IdleType, StartType DEF ExchangeRefreshToken, Finish, PCs
  <2>2. QED
    BY <1>0, <1>12, <2>1 DEF TypeOK, ExchangeRefreshToken, codes, tokens
<1>13. ASSUME NEW r \in Reqs, ReadSuccessor(r) PROVE TypeOK'
  <2>1. req' \in [Reqs -> Req]
    BY <1>0, <1>13, GotoType DEF ReadSuccessor, GotoIf, PCs
  <2>2. QED
    BY <1>0, <1>13, <2>1 DEF TypeOK, ReadSuccessor, codes, tokens
<1>14. ASSUME NEW r \in Reqs, RevokeReplayed(r) PROVE TypeOK'
  <2> DEFINE f == row[req[r].cur].family
  <2>1. req' \in [Reqs -> Req]
    BY <1>0, <1>14, IdleType, StartType DEF RevokeReplayed, Finish
  <2>2. f \in Tok
    BY <1>0, <1>14 DEF TypeOK, RevokeReplayed, At, HandlerOK, Row
  <2>3. FamilyRows(f) \subseteq Tok
    BY <1>0 DEF FamilyRows
  <2>4. revoked' \subseteq Tok /\ condemned' \subseteq Tok
    BY <1>0, <1>14, <2>2, <2>3 DEF TypeOK, RevokeReplayed, RevokeFamilyByID
  <2>5. QED
    BY <1>0, <1>14, <2>1, <2>4 DEF TypeOK, RevokeReplayed, codes
<1>15. ASSUME NEW r \in Reqs, RevokeOld(r) PROVE TypeOK'
  <2>1. req' \in [Reqs -> Req]
    BY <1>0, <1>15, GotoType DEF RevokeOld, PCs
  <2>2. revoked' \subseteq Tok
    BY <1>0, <1>15 DEF TypeOK, RevokeOld, RevokeByID, At, HandlerOK
  <2>3. QED
    BY <1>0, <1>15, <2>1, <2>2 DEF TypeOK, RevokeOld, codes
<1>16. ASSUME NEW r \in Reqs, RefreshUser(r) PROVE TypeOK'
  <2>1. req' \in [Reqs -> Req]
    BY <1>0, <1>16, GotoType DEF RefreshUser, GotoIf, PCs
  <2>2. QED
    BY <1>0, <1>16, <2>1 DEF TypeOK, RefreshUser, codes, tokens
<1>17. ASSUME NEW r \in Reqs, InsertSuccessor(r) PROVE TypeOK'
  <2>0. ntok + 1 \in Tok
    BY <1>0, <1>17 DEF TypeOK, InsertSuccessor, InsertRow
  <2>1. req' \in [Reqs -> Req]
    BY <1>0, <1>17, <2>0, GotoNewType DEF InsertSuccessor, PCs
  <2>2. row' \in [Tok -> Row]
    BY <1>0, <1>17 DEF TypeOK, InsertSuccessor, InsertRow, Row, At, HandlerOK
  <2>p. parent' \in [Tok -> TokOrNone]
    BY <1>0, <1>17 DEF TypeOK, InsertSuccessor, InsertRow, Req
  <2>n. ntok' \in 0..MaxTok
    BY <1>0, <1>17 DEF TypeOK, InsertSuccessor, InsertRow
  <2>3. QED
    BY <1>0, <1>17, <2>1, <2>2, <2>n, <2>p DEF TypeOK, InsertSuccessor, codes
<1>18. ASSUME NEW r \in Reqs, Link(r) PROVE TypeOK'
  <2>1. req' \in [Reqs -> Req]
    BY <1>0, <1>18, GotoType DEF Link, PCs
  <2>2. replacedBy' \in [Tok -> TokOrNone]
    BY <1>0, <1>18 DEF TypeOK, Link, Req
  <2>3. QED
    BY <1>0, <1>18, <2>1, <2>2 DEF TypeOK, Link, codes
<1>19. ASSUME NEW r \in Reqs, Respond(r) \/ Abort(r) PROVE TypeOK'
  <2>1. req' \in [Reqs -> Req]
    BY <1>0, <1>19, IdleType, StartType DEF Respond, Abort, Finish
  <2>2. sent' \subseteq Tok
    BY <1>0, <1>19 DEF TypeOK, Respond, Abort, At, HandlerOK
  <2>3. QED
    BY <1>0, <1>19, <2>1, <2>2 DEF TypeOK, Respond, Abort, codes, tokens
<1>20. CASE UNCHANGED vars
  BY <1>0, <1>20 DEF TypeOK, vars
<1>21. QED
  BY <1>1, <1>2, <1>3, <1>4, <1>5, <1>6, <1>7, <1>8, <1>9, <1>10, <1>11, <1>12, <1>13,
     <1>14, <1>15, <1>16, <1>17, <1>18, <1>19, <1>20 DEF Next, Environment, Handler

(* What a handler has established survives the steps of the others: rows   *)
(* and revocations only accumulate, and only the handler that consumed a   *)
(* code records its family.                                                *)
LEMMA HandlerKept ==
  ASSUME IInv, NEW q \in Reqs, req'[q] = req[q],
         Rows \subseteq Rows',
         \A t \in Rows : row'[t] = row[t],
         revoked \subseteq revoked',
         \A c \in Codes : codeSt[c] = "used" => codeSt'[c] = "used",
         \A c \in Codes : codeData[c] # NoTok => codeData'[c] = codeData[c],
         Exchanging(q) => codeData'[req[q].code] = NoTok
  PROVE  HandlerOK(q)'
<1>1. \A t \in Rows : row[t].grant \in Codes /\ row[t].family # NoTok
  BY RowsAreTokens DEF IInv, TypeOK, Row, Tok, NoTok
<1>2. \A t \in Rows : Covered(t) => Covered(t)'
  BY <1>1 DEF Covered
<1>3. HandlerOK(q) /\ req[q].code \in Codes
  BY DEF IInv, TypeOK, Req
<1>4. QED
  BY <1>2, <1>3 DEF HandlerOK, Exchanging

(* A handler that holds a consumed code goes on holding it. *)
GoesOn(q) ==
  Exchanging(q)' =>
    /\ Exchanging(q)
    /\ req'[q].code = req[q].code
    /\ req[q].pc = "codeData" => req'[q].pc = "codeData"

(* The steps that add no row, link, code or delivery keep the invariant    *)
(* when the handlers that move keep theirs.                                *)
LEMMA QuietStep ==
  ASSUME IInv, TypeOK',
         UNCHANGED <<codeSt, codeData, ntok, row, replacedBy, sent>>,
         now <= now',
         revoked \subseteq revoked', revoked' \subseteq Rows,
         condemned' \subseteq Rows,
         \A q \in Reqs : req'[q] = req[q] \/ (HandlerOK(q)' /\ GoesOn(q))
  PROVE  IInv'
<1>0. Rows' = Rows /\ TypeOK
  BY DEF Rows, IInv
<1>1. TablesOK'
  <2>1. \A t \in Rows : row[t].expiresAt \in Nat
    BY <1>0, RowsAreTokens DEF TypeOK, Row
  <2>2. now \in Nat /\ now' \in Nat
    BY <1>0, TokenConstants DEF TypeOK
  <2>3. \A t \in Rows : row[t].expiresAt <= now' + RefreshTTL
    BY <2>1, <2>2, TokenConstants DEF IInv, TablesOK
  <2>4. QED
    BY <1>0, <2>3 DEF IInv, TablesOK
<1>2. \A q \in Reqs : HandlerOK(q)'
  <2> TAKE q \in Reqs
  <2>1. CASE req'[q] = req[q]
    <3>1. Exchanging(q) => codeData[req[q].code] = NoTok
      BY DEF IInv, HandlerOK, Exchanging
    <3>2. QED
      BY <1>0, <2>1, <3>1, HandlerKept
  <2>2. QED
    BY <2>1
<1>3. ExchangeOK'
  <2>1. \A q \in Reqs : GoesOn(q)
    BY DEF GoesOn, Exchanging
  <2>2. QED
    BY <1>0, <2>1 DEF IInv, ExchangeOK, GoesOn, Exchanging
<1>4. CodeUsedOnce' /\ LinksStayInFamily' /\ (\A t \in sent : Covered(t))'
  BY <1>0 DEF IInv, CodeUsedOnce, LinksStayInFamily, Covered
<1>5. QED
  BY <1>1, <1>2, <1>3, <1>4 DEF IInv

(* Time, administrators and revocations by user or by session. *)
LEMMA EnvironmentStep == IInv /\ Environment => IInv'
<1> SUFFICES ASSUME IInv, Environment PROVE IInv'
  OBVIOUS
<1>0. TypeOK' /\ TypeOK /\ revoked \subseteq Rows /\ condemned \subseteq Rows
  BY TypeStep DEF Next, IInv, TablesOK
<1>1. CASE Tick
  <2>1. now <= now'
    BY <1>0, <1>1, TokenConstants DEF Tick, TypeOK
  <2>2. QED
    BY <1>0, <1>1, <2>1, QuietStep DEF Tick, codes, tokens
<1>t. now \in Nat
  BY <1>0, TokenConstants DEF TypeOK
<1>2. ASSUME NEW u \in Users, SetActive(u) PROVE IInv'
  BY <1>0, <1>2, <1>t, QuietStep DEF SetActive, codes, tokens
<1>3. ASSUME NEW u \in Users, NEW keep \in TokOrNone, RevokeUser(u, keep) PROVE IInv'
  BY <1>0, <1>3, <1>t, QuietStep DEF RevokeUser, UserRows, codes
<1>4. ASSUME NEW t \in Tok, RevokeSession(t) PROVE IInv'
  BY <1>0, <1>4, <1>t, QuietStep DEF RevokeSession, RevokeByID, Live, codes
<1>5. ASSUME NEW c \in Codes, CreateCode(c) \/ ExpireCode(c) PROVE IInv'
  <2>0. /\ UNCHANGED <<now, codeData, ntok, row, revoked, replacedBy, sent, condemned, req>>
        /\ Rows' = Rows
        /\ \A d \in Codes : codeSt[d] = "used" => codeSt'[d] = "used"
    BY <1>0, <1>5 DEF CreateCode, ExpireCode, tokens, Rows, TypeOK
  <2>1. \A t \in Rows : row[t].grant \in Codes
    BY <1>0, RowsAreTokens DEF TypeOK, Row
  <2>2. TablesOK'
    BY <2>0, <2>1 DEF IInv, TablesOK
  <2>3. \A q \in Reqs : HandlerOK(q)'
    BY <2>0, HandlerKept DEF IInv, HandlerOK, Exchanging
  <2>4. QED
    BY <1>0, <2>0, <2>2, <2>3
       DEF IInv, ExchangeOK, Exchanging, CodeUsedOnce, LinksStayInFamily, Covered
<1>6. QED
  BY <1>1, <1>2, <1>3, <1>4, <1>5, TokenConstants
     DEF Environment, TokOrNone, Tok, NoTok

(* The handler that consumes the code is the only one to hold it. *)
LEMMA ConsumeStep ==
  ASSUME IInv, NEW r \in Reqs, NEW c \in Codes, NEW k \in Creds, ExchangeCode(r, c, k)
  PROVE  IInv'
<1>0. /\ TypeOK' /\ TypeOK /\ \A q \in Reqs : HandlerOK(q)
      /\ UNCHANGED <<now, codeData, ntok, row, revoked, replacedBy, sent, condemned>>
      /\ Rows' = Rows
  BY TypeStep DEF Next, Handler, IInv, ExchangeCode, tokens, Rows
<1>1. \A q \in Reqs \ {r} : req'[q] = req[q]
  BY <1>0 DEF ExchangeCode, Start, Finish, TypeOK
<1>2. \A d \in Codes : codeSt[d] = "used" => codeSt'[d] = "used"
  BY <1>0 DEF ExchangeCode, TypeOK
<1>3. \/ req'[r].pc \in {"idle", "lookup"}
      \/ /\ req'[r].pc = "codeUser" /\ req'[r].code = c
         /\ codeSt[c] = "fresh" /\ codeSt'[c] = "used"
  BY <1>0 DEF ExchangeCode, Start, Finish, IdleReq, TypeOK
<1>4. codeSt[c] = "fresh" =>
        /\ codeData[c] = NoTok
        /\ \A t \in Rows : row[t].grant # c
        /\ \A q \in Reqs : Exchanging(q) => req[q].code # c
  BY <1>0 DEF IInv, TablesOK, HandlerOK, Exchanging
<1>5. TablesOK'
  <2>1. \A t \in Rows : row[t].grant \in Codes
    BY <1>0, RowsAreTokens DEF TypeOK, Row
  <2>2. QED
    BY <1>0, <1>2, <2>1 DEF IInv, TablesOK
<1>6. \A q \in Reqs : HandlerOK(q)'
  <2>1. HandlerOK(r)'
    BY <1>0, <1>3, <1>4 DEF HandlerOK
  <2>2. \A q \in Reqs \ {r} : HandlerOK(q)'
    BY <1>0, <1>1, <1>2, HandlerKept DEF HandlerOK, Exchanging
  <2>3. QED
    BY <2>1, <2>2
<1>7. ExchangeOK'
  BY <1>0, <1>1, <1>3, <1>4 DEF IInv, ExchangeOK, Exchanging
<1>8. QED
  BY <1>0, <1>5, <1>6, <1>7 DEF IInv, CodeUsedOnce, LinksStayInFamily, Covered

(* The facts both insertions share: the new row is the next number, the    *)
(* rows before it are what they were.                                      *)
LEMMA InsertFacts ==
  ASSUME IInv, NEW g, NEW f, NEW e, NEW p, InsertRow(g, f, e, p)
  PROVE  /\ ntok + 1 \in Tok
         /\ Rows' = Rows \cup {ntok + 1}
         /\ ntok + 1 \notin Rows
         /\ \A t \in Rows : row'[t] = row[t] /\ t < ntok + 1
         /\ row'[ntok + 1] = [grant |-> g, family |-> f, expiresAt |-> e]
         /\ parent'[ntok + 1] = p
         /\ \A t \in Rows : parent'[t] = parent[t]
<1>1. ntok \in Nat /\ ntok + 1 \in Tok /\ MaxTok \in Nat
  BY TokenConstants DEF IInv, TypeOK, InsertRow, Tok
<1>2. /\ Rows' = Rows \cup {ntok + 1}
      /\ ntok + 1 \notin Rows
      /\ \A t \in Rows : t < ntok + 1
  BY <1>1 DEF InsertRow, Rows
<1>3. QED
  BY <1>1, <1>2, RowsAreTokens DEF IInv, TypeOK, InsertRow

(* The first row of a family: its code has no other. *)
LEMMA CodeInsertStep ==
  ASSUME IInv, NEW r \in Reqs, CodeInsert(r)
  PROVE  IInv'
<1> DEFINE n == ntok + 1
<1>0. /\ TypeOK' /\ TypeOK
      /\ UNCHANGED <<now, codeSt, codeData, revoked, replacedBy, sent, condemned>>
      /\ req[r].pc = "codeInsert" /\ req[r].code \in Codes
  BY TypeStep DEF Next, Handler, IInv, CodeInsert, codes, At, TypeOK, Req
<1>1. /\ n \in Tok
      /\ Rows' = Rows \cup {n}
      /\ n \notin Rows
      /\ \A t \in Rows : row'[t] = row[t] /\ t < n
      /\ row'[n] = [grant |-> req[r].code, family |-> n, expiresAt |-> now + RefreshTTL]
  BY InsertFacts DEF CodeInsert
<1>2. \A q \in Reqs \ {r} : req'[q] = req[q]
  BY <1>0 DEF CodeInsert, GotoNew, Start, TypeOK
<1>3. req'[r].pc = "codeData" /\ req'[r].new = n /\ req'[r].code = req[r].code
  BY <1>0 DEF CodeInsert, GotoNew, Start, TypeOK, Req
<1>4. /\ codeSt[req[r].code] = "used" /\ codeData[req[r].code] = NoTok
      /\ \A t \in Rows : row[t].grant # req[r].code
      /\ \A q \in Reqs \ {r} : Exchanging(q) => req[q].code # req[r].code
  BY <1>0 DEF IInv, HandlerOK, ExchangeOK, Exchanging
<1>n. now + RefreshTTL <= now + RefreshTTL
  BY <1>0, TokenConstants DEF TypeOK
<1>5. TablesOK'
  BY <1>0, <1>1, <1>4, <1>n DEF IInv, TablesOK
<1>6. \A q \in Reqs : HandlerOK(q)'
  <2>1. HandlerOK(r)'
    BY <1>0, <1>1, <1>3, <1>4 DEF HandlerOK
  <2>2. \A q \in Reqs \ {r} : HandlerOK(q)'
    BY <1>0, <1>1, <1>2, HandlerKept DEF IInv, HandlerOK, Exchanging
  <2>3. QED
    BY <2>1, <2>2
<1>7. ExchangeOK'
  BY <1>0, <1>1, <1>2, <1>3, <1>4 DEF IInv, ExchangeOK, Exchanging
<1>8. CodeUsedOnce'
  BY <1>0, <1>1, <1>4 DEF IInv, CodeUsedOnce
<1>9. LinksStayInFamily'
  BY <1>0, <1>1 DEF IInv, TablesOK, LinksStayInFamily
<1>10. (\A t \in sent : Covered(t))'
  BY <1>0, <1>1 DEF IInv, TablesOK, Covered
<1>11. QED
  BY <1>0, <1>5, <1>6, <1>7, <1>8, <1>9, <1>10 DEF IInv

(* The next row of a family. *)
LEMMA InsertSuccessorStep ==
  ASSUME IInv, NEW r \in Reqs, InsertSuccessor(r)
  PROVE  IInv'
<1> DEFINE n == ntok + 1
           old == row[req[r].cur]
<1>0. /\ TypeOK' /\ TypeOK
      /\ UNCHANGED <<now, codeSt, codeData, revoked, replacedBy, sent, condemned>>
      /\ req[r].pc = "insert" /\ HandlerOK(r)
      /\ req[r].cur \in Rows
  BY TypeStep DEF Next, Handler, IInv, InsertSuccessor, codes, At, HandlerOK
<1>00. old \in Row
  BY <1>0, RowsAreTokens DEF TypeOK
<1>1. /\ n \in Tok
      /\ Rows' = Rows \cup {n}
      /\ n \notin Rows
      /\ \A t \in Rows : row'[t] = row[t] /\ t < n
      /\ row'[n] = old
  <2>1. old = [grant |-> old.grant, family |-> old.family, expiresAt |-> old.expiresAt]
    BY <1>00 DEF Row
  <2>2. QED
    BY <2>1, InsertFacts DEF InsertSuccessor
<1>2. \A q \in Reqs \ {r} : req'[q] = req[q]
  BY <1>0 DEF InsertSuccessor, GotoNew, Start, TypeOK
<1>3. req'[r].pc = "link" /\ req'[r].new = n /\ req'[r].cur = req[r].cur
  BY <1>0 DEF InsertSuccessor, GotoNew, Start, TypeOK, Req
<1>5. TablesOK'
  BY <1>0, <1>1 DEF IInv, TablesOK
<1>6. \A q \in Reqs : HandlerOK(q)'
  <2>1. HandlerOK(r)'
    BY <1>0, <1>1, <1>3 DEF HandlerOK, Covered
  <2>2. \A q \in Reqs \ {r} : HandlerOK(q)'
    BY <1>0, <1>1, <1>2, HandlerKept DEF IInv, HandlerOK, Exchanging
  <2>3. QED
    BY <2>1, <2>2
<1>7. ExchangeOK'
  BY <1>0, <1>1, <1>2, <1>3 DEF IInv, ExchangeOK, Exchanging
<1>8. CodeUsedOnce'
  <2>1. row'[n].family # n
    BY <1>0, <1>1 DEF IInv, TablesOK
  <2>2. QED
    BY <1>0, <1>1, <2>1 DEF IInv, CodeUsedOnce
<1>9. LinksStayInFamily'
  BY <1>0, <1>1 DEF IInv, TablesOK, LinksStayInFamily
<1>10. (\A t \in sent : Covered(t))'
  BY <1>0, <1>1 DEF IInv, TablesOK, Covered
<1>11. QED
  BY <1>0, <1>5, <1>6, <1>7, <1>8, <1>9, <1>10 DEF IInv

(* SetRevocationData: nobody else holds the code, and no row of it had     *)
(* been covered before.                                                    *)
LEMMA RecordStep ==
  ASSUME IInv, NEW r \in Reqs, SetRevocationData(r)
  PROVE  IInv'
<1> DEFINE c == req[r].code
           n == req[r].new
<1>0. /\ TypeOK' /\ TypeOK /\ HandlerOK(r)
      /\ UNCHANGED <<now, codeSt, ntok, row, revoked, replacedBy, sent, condemned>>
      /\ Rows' = Rows
      /\ req[r].pc = "codeData" /\ c \in Codes
  BY TypeStep DEF Next, Handler, IInv, SetRevocationData, tokens, Rows, At, TypeOK, Req
<1>1. \A q \in Reqs \ {r} : req'[q] = req[q]
  BY <1>0 DEF SetRevocationData, Goto, TypeOK
<1>2. req'[r].pc = "respond" /\ req'[r].new = n
  BY <1>0 DEF SetRevocationData, Goto, TypeOK, Req
<1>3. codeData'[c] = n /\ \A d \in Codes \ {c} : codeData'[d] = codeData[d]
  BY <1>0 DEF SetRevocationData, TypeOK
<1>4. /\ codeData[c] = NoTok
      /\ n \in Rows /\ row[n].family = n /\ row[n].grant = c
      /\ \A q \in Reqs \ {r} : Exchanging(q) => req[q].code # c
  BY <1>0 DEF IInv, HandlerOK, ExchangeOK, Exchanging
<1>5. TablesOK'
  BY <1>0, <1>3, <1>4 DEF IInv, TablesOK
<1>6. \A q \in Reqs : HandlerOK(q)'
  <2>1. HandlerOK(r)'
    BY <1>0, <1>2, <1>3, <1>4 DEF HandlerOK, Covered
  <2>2. ASSUME NEW q \in Reqs \ {r} PROVE HandlerOK(q)'
    <3>1. Exchanging(q) => req[q].code \in Codes /\ codeData[req[q].code] = NoTok
      BY <1>0 DEF IInv, HandlerOK, Exchanging, TypeOK, Req
    <3>2. Exchanging(q) => codeData'[req[q].code] = NoTok
      BY <1>3, <1>4, <3>1
    <3>3. QED
      BY <1>0, <1>1, <1>3, <1>4, <3>2, HandlerKept
  <2>3. QED
    BY <2>1, <2>2
<1>7. ExchangeOK'
  BY <1>0, <1>1, <1>2 DEF IInv, ExchangeOK, Exchanging
<1>8. (\A t \in sent : Covered(t))'
  <2>1. \A t \in sent : row[t].grant \in Codes /\ row[t].family # NoTok
    <3>1. sent \subseteq Tok
      BY <1>0 DEF TypeOK
    <3>2. \A t \in sent : row[t] \in Row
      BY <1>0, <3>1 DEF TypeOK
    <3>3. QED
      BY <3>2 DEF Row, Tok, NoTok
  <2>2. QED
    BY <1>0, <1>3, <1>4, <2>1 DEF IInv, Covered
<1>9. QED
  BY <1>0, <1>5, <1>6, <1>7, <1>8 DEF IInv, CodeUsedOnce, LinksStayInFamily

(* The second statement of Create. *)
LEMMA LinkStep ==
  ASSUME IInv, NEW r \in Reqs, Link(r)
  PROVE  IInv'
<1>0. /\ TypeOK' /\ TypeOK /\ HandlerOK(r)
      /\ UNCHANGED <<now, codeSt, codeData, ntok, row, revoked, sent, condemned>>
      /\ Rows' = Rows
      /\ req[r].pc = "link"
  BY TypeStep DEF Next, Handler, IInv, Link, codes, Rows, At
<1>1. \A q \in Reqs \ {r} : req'[q] = req[q]
  BY <1>0 DEF Link, Goto, TypeOK
<1>2. req'[r].pc = "respond" /\ req'[r].new = req[r].new
  BY <1>0 DEF Link, Goto, TypeOK, Req
<1>3. \A q \in Reqs : HandlerOK(q)'
  <2>1. HandlerOK(r)'
    BY <1>0, <1>2 DEF HandlerOK, Covered
  <2>2. \A q \in Reqs \ {r} : HandlerOK(q)'
    BY <1>0, <1>1, HandlerKept DEF IInv, HandlerOK, Exchanging
  <2>3. QED
    BY <2>1, <2>2
<1>4. ExchangeOK'
  BY <1>0, <1>1, <1>2 DEF IInv, ExchangeOK, Exchanging
<1>5. LinksStayInFamily'
  <2>1. req[r].cur \in Tok
    BY <1>0, RowsAreTokens DEF HandlerOK
  <2>2. QED
    BY <1>0, <2>1 DEF IInv, LinksStayInFamily, Link, HandlerOK, TypeOK
<1>6. QED
  BY <1>0, <1>3, <1>4, <1>5 DEF IInv, TablesOK, CodeUsedOnce, Covered

(* The tokens reach the client. *)
LEMMA RespondStep ==
  ASSUME IInv, NEW r \in Reqs, Respond(r)
  PROVE  IInv'
<1>0. /\ TypeOK' /\ TypeOK /\ HandlerOK(r)
      /\ UNCHANGED <<now, codeSt, codeData, ntok, row, revoked, replacedBy, condemned>>
      /\ Rows' = Rows
      /\ req[r].pc = "respond" /\ sent' = sent \cup {req[r].new}
  BY TypeStep DEF Next, Handler, IInv, Respond, codes, tokens, Rows, At
<1>1. \A q \in Reqs \ {r} : req'[q] = req[q]
  BY <1>0 DEF Respond, Finish, Start, TypeOK
<1>2. req'[r].pc = "idle"
  BY <1>0 DEF Respond, Finish, Start, IdleReq, TypeOK
<1>3. \A q \in Reqs : HandlerOK(q)'
  <2>1. HandlerOK(r)'
    BY <1>2 DEF HandlerOK
  <2>2. \A q \in Reqs \ {r} : HandlerOK(q)'
    BY <1>0, <1>1, HandlerKept DEF IInv, HandlerOK, Exchanging
  <2>3. QED
    BY <2>1, <2>2
<1>4. ExchangeOK'
  BY <1>0, <1>1, <1>2 DEF IInv, ExchangeOK, Exchanging
<1>5. QED
  BY <1>0, <1>3, <1>4
     DEF IInv, TablesOK, CodeUsedOnce, LinksStayInFamily, HandlerOK, Covered

(* The other statements of a handler only read, revoke and move on. *)
LEMMA MoveStep ==
  ASSUME IInv, NEW r \in Reqs,
         \/ CodeUser(r) \/ GetUsedByHash(r) \/ RevokeCodeJTI(r)
         \/ \E t \in Tok, k \in Creds : ExchangeRefreshToken(r, t, k)
         \/ ReadSuccessor(r) \/ RevokeReplayed(r) \/ RevokeOld(r)
         \/ RefreshUser(r) \/ Abort(r)
  PROVE  IInv'
<1>0. /\ TypeOK' /\ TypeOK /\ HandlerOK(r)
      /\ revoked \subseteq Rows /\ condemned \subseteq Rows /\ sent \subseteq Rows
      /\ now \in Nat /\ req[r] \in Req
  BY TypeStep, TokenConstants DEF Next, Handler, IInv, TablesOK, TypeOK
<1>1. ASSUME CodeUser(r) PROVE IInv'
  <2>1. /\ UNCHANGED <<now, codeSt, codeData, ntok, row, replacedBy, sent, revoked, condemned>>
        /\ Rows' = Rows
        /\ \A q \in Reqs \ {r} : req'[q] = req[q]
    BY <1>0, <1>1 DEF CodeUser, GotoIf, Goto, Finish, Start, IdleReq, codes, tokens, Rows, TypeOK
  <2>2. HandlerOK(r)' /\ GoesOn(r)
    BY <1>0, <1>1, <2>1 DEF CodeUser, GotoIf, Goto, Finish, Start, IdleReq, At, HandlerOK,
       Covered, GoesOn, Exchanging, Req, TypeOK
  <2>3. QED
    BY <1>0, <2>1, <2>2, QuietStep
<1>2. ASSUME GetUsedByHash(r) PROVE IInv'
  <2>1. /\ UNCHANGED <<now, codeSt, codeData, ntok, row, replacedBy, sent, revoked, condemned>>
        /\ Rows' = Rows
        /\ \A q \in Reqs \ {r} : req'[q] = req[q]
    BY <1>0, <1>2 DEF GetUsedByHash, Finish, Start, IdleReq, codes, tokens, Rows, TypeOK
  <2>2. \/ req'[r].pc = "idle"
        \/ /\ req'[r].pc = "revokeJti" /\ codeData[req[r].code] # NoTok
           /\ req'[r].cur = codeData[req[r].code]
    <3> DEFINE q == [IdleReq EXCEPT !.pc = "revokeJti", !.cur = codeData[req[r].code]]
    <3>1. q.pc = "revokeJti" /\ q.cur = codeData[req[r].code]
      BY <1>0 DEF Req
    <3>2. \/ req'[r] = IdleReq
          \/ req'[r] = q /\ codeData[req[r].code] # NoTok
      BY <1>0, <1>2 DEF GetUsedByHash, Finish, Start, TypeOK
    <3> HIDE DEF q
    <3>3. QED
      BY <3>1, <3>2 DEF IdleReq
  <2>3. req[r].code \in Codes
    BY <1>0 DEF Req
  <2>4. codeData[req[r].code] # NoTok =>
          codeData[req[r].code] \in Rows /\ Covered(codeData[req[r].code])
    BY <2>3 DEF IInv, TablesOK, Covered
  <2>5. HandlerOK(r)' /\ GoesOn(r)
    BY <2>1, <2>2, <2>4 DEF HandlerOK, Covered, GoesOn, Exchanging
  <2>6. QED
    BY <1>0, <2>1, <2>5, QuietStep
<1>3. ASSUME RevokeCodeJTI(r) PROVE IInv'
  <2>1. /\ UNCHANGED <<now, codeSt, codeData, ntok, row, replacedBy, sent, revoked, condemned>>
        /\ Rows' = Rows
        /\ \A q \in Reqs \ {r} : req'[q] = req[q]
    BY <1>0, <1>3 DEF RevokeCodeJTI, Goto, codes, tokens, Rows, TypeOK
  <2>2. HandlerOK(r)' /\ GoesOn(r)
    BY <1>0, <1>3, <2>1 DEF RevokeCodeJTI, Goto, At, HandlerOK, Covered, GoesOn, Exchanging,
       Req, TypeOK
  <2>3. QED
    BY <1>0, <2>1, <2>2, QuietStep
<1>4. ASSUME NEW t \in Tok, NEW k \in Creds, ExchangeRefreshToken(r, t, k) PROVE IInv'
  <2>1. /\ UNCHANGED <<now, codeSt, codeData, ntok, row, replacedBy, sent, revoked, condemned>>
        /\ Rows' = Rows
        /\ \A q \in Reqs \ {r} : req'[q] = req[q]
    BY <1>0, <1>4 DEF ExchangeRefreshToken, Finish, Start, IdleReq, codes, tokens, Rows, TypeOK
  <2>2. /\ req[r].pc = "idle" /\ t \in Rows /\ Covered(t)
        /\ replacedBy[t] # NoTok => replacedBy[t] \in Rows /\ Covered(replacedBy[t])
    BY <1>0, <1>4 DEF ExchangeRefreshToken, At, IInv, LinksStayInFamily, Covered
  <2>4. \/ req'[r].pc = "idle"
        \/ req'[r].pc \in {"revokeOld", "revokeFamily"} /\ req'[r].cur = t
        \/ /\ req'[r].pc = "successor" /\ replacedBy[t] # NoTok
           /\ req'[r].cur = replacedBy[t]
    BY <1>0, <1>4 DEF ExchangeRefreshToken, Finish, Start, IdleReq, TypeOK
  <2>5. HandlerOK(r)' /\ GoesOn(r)
    BY <2>1, <2>2, <2>4 DEF HandlerOK, Covered, GoesOn, Exchanging
  <2>3. QED
    BY <1>0, <2>1, <2>5, QuietStep
<1>5. ASSUME ReadSuccessor(r) PROVE IInv'
  <2>1. /\ UNCHANGED <<now, codeSt, codeData, ntok, row, replacedBy, sent, revoked, condemned>>
        /\ Rows' = Rows
        /\ \A q \in Reqs \ {r} : req'[q] = req[q]
    BY <1>0, <1>5 DEF ReadSuccessor, GotoIf, Goto, Finish, Start, IdleReq, codes, tokens, Rows,
       TypeOK
  <2>2. HandlerOK(r)' /\ GoesOn(r)
    BY <1>0, <1>5, <2>1 DEF ReadSuccessor, GotoIf, Goto, Finish, Start, IdleReq, At, HandlerOK,
       Covered, GoesOn, Exchanging, Req, TypeOK
  <2>3. QED
    BY <1>0, <2>1, <2>2, QuietStep
<1>6. ASSUME RefreshUser(r) PROVE IInv'
  <2>1. /\ UNCHANGED <<now, codeSt, codeData, ntok, row, replacedBy, sent, revoked, condemned>>
        /\ Rows' = Rows
        /\ \A q \in Reqs \ {r} : req'[q] = req[q]
    BY <1>0, <1>6 DEF RefreshUser, GotoIf, Goto, Finish, Start, IdleReq, codes, tokens, Rows, TypeOK
  <2>2. HandlerOK(r)' /\ GoesOn(r)
    BY <1>0, <1>6, <2>1 DEF RefreshUser, GotoIf, Goto, Finish, Start, IdleReq, At, HandlerOK,
       Covered, GoesOn, Exchanging, Req, TypeOK
  <2>3. QED
    BY <1>0, <2>1, <2>2, QuietStep
<1>7. ASSUME Abort(r) PROVE IInv'
  <2>1. /\ UNCHANGED <<now, codeSt, codeData, ntok, row, replacedBy, sent, revoked, condemned>>
        /\ Rows' = Rows
        /\ \A q \in Reqs \ {r} : req'[q] = req[q]
    BY <1>0, <1>7 DEF Abort, Finish, Start, IdleReq, codes, tokens, Rows, TypeOK
  <2>2. HandlerOK(r)' /\ GoesOn(r)
    BY <1>0, <1>7, <2>1 DEF Abort, Finish, Start, IdleReq, At, HandlerOK, Covered, GoesOn,
       Exchanging, Req, TypeOK
  <2>3. QED
    BY <1>0, <2>1, <2>2, QuietStep
<1>8. ASSUME RevokeReplayed(r) PROVE IInv'
  <2> DEFINE f == row[req[r].cur].family
  <2>1. /\ UNCHANGED <<now, codeSt, codeData, ntok, row, replacedBy, sent>>
        /\ Rows' = Rows
        /\ \A q \in Reqs \ {r} : req'[q] = req[q]
    BY <1>0, <1>8 DEF RevokeReplayed, Finish, Start, codes, Rows, TypeOK
  <2>2. HandlerOK(r)' /\ GoesOn(r)
    BY <1>0, <1>8 DEF RevokeReplayed, Finish, Start, IdleReq, HandlerOK, GoesOn, Exchanging, TypeOK
  <2>3. f \in Rows
    BY <1>0, <1>8 DEF RevokeReplayed, At, HandlerOK, IInv, TablesOK
  <2>4. /\ revoked \subseteq revoked' /\ revoked' \subseteq Rows
        /\ condemned' \subseteq Rows
    BY <1>0, <1>8, <2>3 DEF RevokeReplayed, RevokeFamilyByID, FamilyRows
  <2>5. QED
    BY <1>0, <2>1, <2>2, <2>4, QuietStep
<1>9. ASSUME RevokeOld(r) PROVE IInv'
  <2>1. /\ UNCHANGED <<now, codeSt, codeData, ntok, row, replacedBy, sent, condemned>>
        /\ Rows' = Rows
        /\ \A q \in Reqs \ {r} : req'[q] = req[q]
    BY <1>0, <1>9 DEF RevokeOld, Goto, codes, Rows, TypeOK
  <2>2. req[r].cur \in Rows /\ revoked' = revoked \cup {req[r].cur}
    BY <1>0, <1>9 DEF RevokeOld, RevokeByID, At, HandlerOK
  <2>3. HandlerOK(r)' /\ GoesOn(r)
    BY <1>0, <1>9, <2>1, <2>2
       DEF RevokeOld, Goto, At, HandlerOK, Covered, GoesOn, Exchanging, Req, TypeOK
  <2>4. QED
    BY <1>0, <2>1, <2>2, <2>3, QuietStep
<1>10. QED
  BY <1>1, <1>2, <1>3, <1>4, <1>5, <1>6, <1>7, <1>8, <1>9

(* IInv is inductive. *)
LEMMA Inductive == IInv /\ [Next]_vars => IInv'
<1> SUFFICES ASSUME IInv, [Next]_vars PROVE IInv'
  OBVIOUS
<1>1. CASE Environment
  BY <1>1, EnvironmentStep
<1>2. ASSUME NEW r \in Reqs, Handler(r) PROVE IInv'
  BY <1>2, ConsumeStep, CodeInsertStep, InsertSuccessorStep, RecordStep, LinkStep, RespondStep,
     MoveStep DEF Handler
<1>3. CASE UNCHANGED vars
  <2>1. TypeOK' /\ now \in Nat /\ revoked \subseteq Rows /\ condemned \subseteq Rows
    BY TypeStep, TokenConstants DEF IInv, TypeOK, TablesOK
  <2>2. QED
    BY <1>3, <2>1, QuietStep DEF vars
<1>4. QED
  BY <1>1, <1>2, <1>3 DEF Next

(* It holds of the empty tables. *)
LEMMA Initial == Init => IInv
<1> SUFFICES ASSUME Init PROVE IInv
  OBVIOUS
<1>1. TypeOK
  BY IdleType, TokenConstants DEF Init, TypeOK, Row, AnyCode, TokOrNone, Tok, NoTok
<1>2. Rows = {}
  BY DEF Init, Rows
<1>3. \A r \in Reqs : req[r].pc = "idle"
  BY DEF Init, IdleReq
<1>4. QED
  BY <1>1, <1>2, <1>3 DEF Init, IInv, TablesOK, HandlerOK, ExchangeOK, Exchanging,
     CodeUsedOnce, LinksStayInFamily

(* And so of every reachable state. *)
THEOREM InvariantHolds == Spec => []IInv
  BY Initial, Inductive, PTL DEF Spec

(* The database rows, the Redis lists and the handlers' locals keep their  *)
(* types under every statement of both grants.                             *)
THEOREM TypeCorrect == Spec => []TypeOK
<1>1. IInv => TypeOK
  BY DEF IInv
<1>2. QED
  BY <1>1, InvariantHolds, PTL

(* ExchangeCode: one authorization code starts at most one token family,   *)
(* for any number of handlers racing on it.                                *)
THEOREM CodeExchangedOnce == Spec => []CodeUsedOnce
<1>1. IInv => CodeUsedOnce
  BY DEF IInv
<1>2. QED
  BY <1>1, InvariantHolds, PTL

(* SetRevocationData before the answer: whatever a client holds, a later   *)
(* replay of its code revokes.                                             *)
THEOREM ReplayReachesSent == Spec => []SentIsRevocable
<1>1. IInv => SentIsRevocable
  BY DEF IInv, SentIsRevocable, Covered
<1>2. QED
  BY <1>1, InvariantHolds, PTL

(* A replayed code revokes rows of its own exchange only. *)
THEOREM ReplayTargetsOwnFamily == Spec => []ReplayIsTargeted
<1>1. IInv => ReplayIsTargeted
  BY DEF IInv, TablesOK, ReplayIsTargeted, FamilyRows
<1>2. QED
  BY <1>1, InvariantHolds, PTL

(* Lost-response recovery never leaves the family: replaced_by leads from  *)
(* a revoked row to a later row with the same client, user and lifetime.   *)
THEOREM RecoveryStaysInFamily == Spec => []LinksStayInFamily
<1>1. IInv => LinksStayInFamily
  BY DEF IInv
<1>2. QED
  BY <1>1, InvariantHolds, PTL

(* Rotation never extends the lifetime the code exchange granted. *)
THEOREM RotationKeepsLifetime == Spec => []LifetimeIsFixed
<1>1. IInv => LifetimeIsFixed
  BY DEF IInv, TablesOK, LifetimeIsFixed
<1>2. QED
  BY <1>1, InvariantHolds, PTL

(* A dead family stays dead: the two branches that start a rotation read   *)
(* revoked_at of the row they rotate, and a handler that has read it counts *)
(* as a rotation in flight.                                                *)
LEMMA DeadStep == IInv /\ [Next]_vars => \A f \in Tok : Dead(f) => Dead(f)'
<1> SUFFICES ASSUME IInv, [Next]_vars, NEW f \in Tok, Dead(f) PROVE Dead(f)'
  OBVIOUS
<1>0. /\ TypeOK /\ TypeOK' /\ f \in Rows
      /\ \A t \in Rows : row[t].family = f => t \in revoked
      /\ \A q \in Reqs : Rotating(q) => row[req[q].cur].family # f
      /\ \A q \in Reqs : Rotating(q) => req[q].cur \in Rows
      /\ sent \subseteq Rows
  BY TypeStep DEF Dead, FamilyRows, IInv, TablesOK, Rotating, HandlerOK
<1>1. ASSUME Rows' = Rows, UNCHANGED row, revoked \subseteq revoked',
             \A q \in Reqs : \/ req'[q] = req[q]
                             \/ ~Rotating(q)'
                             \/ Rotating(q) /\ req'[q].cur = req[q].cur
                             \/ req'[q].cur \in Rows /\ req'[q].cur \notin revoked
      PROVE  Dead(f)'
  BY <1>0, <1>1 DEF Dead, FamilyRows, Rotating
<1>2. CASE Environment
  BY <1>1, <1>2 DEF Environment, Tick, CreateCode, ExpireCode, SetActive, RevokeUser,
     RevokeSession, RevokeByID, codes, tokens, Rows
<1>3. ASSUME NEW r \in Reqs, Handler(r) PROVE Dead(f)'
  <2>t. req \in [Reqs -> Req] /\ req[r] \in Req
    BY <1>0 DEF TypeOK
  <2>1. ASSUME NEW c \in Codes, NEW k \in Creds, ExchangeCode(r, c, k) PROVE Dead(f)'
    BY <1>1, <2>1, <2>t DEF ExchangeCode, Start, Finish, IdleReq, tokens, Rows, Rotating
  <2>2. CASE CodeUser(r) \/ SetRevocationData(r) \/ RevokeCodeJTI(r) \/ Link(r) \/ Respond(r) \/ Abort(r)
    BY <1>1, <2>2, <2>t DEF CodeUser, SetRevocationData, RevokeCodeJTI, Link, Respond, Abort,
       GotoIf, Goto, Start, Finish, IdleReq, tokens, Rows, Rotating, Req
  <2>3. CASE GetUsedByHash(r)
    <3> DEFINE q == [IdleReq EXCEPT !.pc = "revokeJti", !.cur = codeData[req[r].code]]
    <3>1. q.pc = "revokeJti"
      BY DEF IdleReq
    <3>2. req'[r] = IdleReq \/ req'[r] = q
      BY <2>3, <2>t DEF GetUsedByHash, Finish, Start
    <3>3. \A p \in Reqs \ {r} : req'[p] = req[p]
      BY <2>3, <2>t DEF GetUsedByHash, Finish, Start
    <3> HIDE DEF q
    <3>4. QED
      BY <1>1, <2>3, <3>1, <3>2, <3>3 DEF GetUsedByHash, IdleReq, tokens, Rows, Rotating
  <2>4. ASSUME NEW t \in Tok, NEW k \in Creds, ExchangeRefreshToken(r, t, k) PROVE Dead(f)'
    <3>1. /\ t \in Rows
          /\ \A p \in Reqs \ {r} : req'[p] = req[p]
          /\ \/ req'[r].pc \in {"idle", "revokeFamily", "successor"}
             \/ req'[r].cur = t /\ t \notin revoked
      BY <1>0, <2>4, <2>t DEF ExchangeRefreshToken, Start, Finish, IdleReq
    <3>2. QED
      BY <1>1, <2>4, <3>1 DEF ExchangeRefreshToken, tokens, Rows, Rotating
  <2>5. CASE ReadSuccessor(r)
    <3>1. req[r].cur \in Rows
      BY <2>5 DEF IInv, ReadSuccessor, At, HandlerOK
    <3>2. /\ \A p \in Reqs \ {r} : req'[p] = req[p]
          /\ \/ req'[r].pc \in {"idle", "revokeFamily"}
             \/ req'[r].cur = req[r].cur /\ req[r].cur \notin revoked
      BY <2>5, <2>t DEF ReadSuccessor, GotoIf, Goto, Start, Finish, IdleReq, Req
    <3>3. QED
      BY <1>1, <2>5, <3>1, <3>2 DEF ReadSuccessor, tokens, Rows, Rotating
  <2>6. CASE RevokeReplayed(r)
    BY <1>1, <2>6, <2>t DEF RevokeReplayed, RevokeFamilyByID, Finish, Start, IdleReq, Rows, Rotating
  <2>7. CASE RevokeOld(r) \/ RefreshUser(r)
    BY <1>1, <2>7, <2>t DEF RevokeOld, RefreshUser, RevokeByID, GotoIf, Goto, Finish, Start,
       IdleReq, Rows, Rotating, At, tokens, Req
  <2>8. CASE CodeInsert(r)
    <3>1. /\ Rows' = Rows \cup {ntok + 1} /\ ntok + 1 \notin Rows
          /\ \A t \in Rows : row'[t] = row[t]
          /\ row'[ntok + 1].family = ntok + 1
      <4>1. row'[ntok + 1] = [grant |-> req[r].code, family |-> ntok + 1,
                              expiresAt |-> now + RefreshTTL]
        BY <2>8, InsertFacts DEF CodeInsert
      <4>2. QED
        BY <2>8, <4>1, InsertFacts DEF CodeInsert
    <3>2. \A p \in Reqs \ {r} : req'[p] = req[p]
      BY <2>8, <2>t DEF CodeInsert, GotoNew, Start
    <3>3. req'[r].pc = "codeData"
      BY <2>8, <2>t DEF CodeInsert, GotoNew, Start, Req
    <3>4. revoked' = revoked
      BY <2>8 DEF CodeInsert
    <3>5. QED
      BY <1>0, <3>1, <3>2, <3>3, <3>4 DEF Dead, FamilyRows, Rotating
  <2>9. CASE InsertSuccessor(r)
    <3>1. /\ Rows' = Rows \cup {ntok + 1} /\ ntok + 1 \notin Rows
          /\ \A t \in Rows : row'[t] = row[t]
          /\ row'[ntok + 1].family = row[req[r].cur].family
      <4> DEFINE old == row[req[r].cur]
      <4>1. row'[ntok + 1] = [grant |-> old.grant, family |-> old.family,
                              expiresAt |-> old.expiresAt]
        BY <2>9, InsertFacts DEF InsertSuccessor
      <4>2. QED
        BY <2>9, <4>1, InsertFacts DEF InsertSuccessor
    <3>2. \A p \in Reqs \ {r} : req'[p] = req[p]
      BY <2>9, <2>t DEF InsertSuccessor, GotoNew, Start
    <3>3. req'[r].pc = "link"
      BY <2>9, <2>t DEF InsertSuccessor, GotoNew, Start, Req
    <3>4. revoked' = revoked /\ Rotating(r)
      BY <2>9 DEF InsertSuccessor, At, Rotating
    <3>5. QED
      BY <1>0, <3>1, <3>2, <3>3, <3>4 DEF Dead, FamilyRows, Rotating
  <2>10. QED
    BY <1>3, <2>1, <2>2, <2>3, <2>4, <2>5, <2>6, <2>7, <2>8, <2>9 DEF Handler
<1>4. CASE UNCHANGED vars
  BY <1>1, <1>4 DEF vars, Rows
<1>5. QED
  BY <1>2, <1>3, <1>4 DEF Next

(* No sequence of replays, recoveries and failures brings back a family    *)
(* that is revoked and quiescent.                                          *)
THEOREM DeadFamilyStaysDead == Spec => DeadStaysDead
<1>1. IInv /\ [Next]_vars => [\A f \in Tok : Dead(f) => Dead(f)']_vars
  BY DeadStep
<1>2. QED
  BY <1>1, InvariantHolds, PTL DEF Spec, DeadStaysDead

(***************************************************************************)
(* One live row per family, unless two rotations of one row overlapped.    *)
(***************************************************************************)

(* A row was rotated from a row of its family that was revoked before, and *)
(* of two rows of a family that nobody forked the earlier has a successor. *)
Lineage ==
  /\ \A t \in Rows : parent[t] # NoTok =>
       /\ parent[t] \in Rows \cap revoked
       /\ row[parent[t]].family = row[t].family
  /\ \A s, t \in Rows :
       s < t /\ row[s].family = row[t].family
       => Forked(row[s].family) \/ \E c \in Rows : parent[c] = s

(* A step that inserts nothing keeps it. *)
LEMMA LineageKept ==
  ASSUME Lineage, UNCHANGED <<ntok, row, parent>>, revoked \subseteq revoked'
  PROVE  Lineage'
<1>1. Rows' = Rows
  BY DEF Rows
<1>2. QED
  BY <1>1 DEF Lineage, Forked, FamilyRows

(* An insertion, of the first row of a family or of a successor of p. *)
LEMMA LineageInserted ==
  ASSUME IInv, Lineage, NEW g, NEW f, NEW e, NEW p \in TokOrNone, InsertRow(g, f, e, p),
         revoked' = revoked,
         \/ p = NoTok /\ \A t \in Rows : row[t].family # f
         \/ p \in Rows \cap revoked /\ row[p].family = f
  PROVE  Lineage'
<1> DEFINE n == ntok + 1
<1>1. /\ Rows' = Rows \cup {n} /\ n \notin Rows
      /\ \A t \in Rows : row'[t] = row[t] /\ parent'[t] = parent[t] /\ t < n
      /\ row'[n].family = f /\ parent'[n] = p
  <2>1. row'[n] = [grant |-> g, family |-> f, expiresAt |-> e]
    BY InsertFacts
  <2>2. QED
    BY <2>1, InsertFacts
<1>2. Rows \subseteq Nat /\ n \in Nat
  BY TokenConstants DEF IInv, TypeOK, Rows
<1> HIDE DEF n
<1>3. \A t \in Rows' : (parent[t] # NoTok =>
         /\ parent[t] \in Rows \cap revoked
         /\ row[parent[t]].family = row[t].family)'
  BY <1>1 DEF Lineage
<1>4. \A h : Forked(h) => Forked(h)'
  BY <1>1 DEF Forked, FamilyRows
<1>5. ASSUME NEW s \in Rows', NEW t \in Rows', s < t, row'[s].family = row'[t].family
      PROVE  Forked(row[s].family)' \/ \E c \in Rows' : parent'[c] = s
  <2>1. s \in Rows
    BY <1>1, <1>2, <1>5
  <2>2. CASE t \in Rows
    BY <1>1, <1>4, <1>5, <2>1, <2>2 DEF Lineage
  <2>3. CASE t = n
    <3>1. p \in Rows \cap revoked /\ row[p].family = f /\ row[s].family = f
      BY <1>1, <1>5, <2>1, <2>3
    <3>2. CASE s = p
      BY <1>1, <3>2
    <3>3. CASE s < p
      <4>1. Forked(row[s].family) \/ \E c \in Rows : parent[c] = s
        BY <2>1, <3>1, <3>3 DEF Lineage
      <4>2. QED
        BY <1>1, <1>4, <2>1, <4>1
    <3>4. CASE p < s
      <4>1. Forked(row[p].family) \/ \E c \in Rows : parent[c] = p
        BY <2>1, <3>1, <3>4 DEF Lineage
      <4>2. ASSUME NEW c \in Rows, parent[c] = p PROVE Forked(f)'
        <5>1. p # NoTok
          BY <1>2, <3>1 DEF NoTok, Rows
        <5>2. row[c].family = f
          BY <3>1, <4>2, <5>1 DEF Lineage
        <5>3. c \in FamilyRows(f)' /\ n \in FamilyRows(f)' /\ c # n
          BY <1>1, <5>2 DEF FamilyRows
        <5>4. QED
          BY <1>1, <4>2, <5>1, <5>3 DEF Forked
      <4>3. row'[s].family = f
        BY <1>1, <2>1, <3>1
      <4>4. QED
        BY <1>4, <3>1, <4>1, <4>2, <4>3
    <3>5. QED
      BY <1>2, <2>1, <3>1, <3>2, <3>3, <3>4
  <2>4. QED
    BY <1>1, <2>2, <2>3
<1>6. QED
  BY <1>3, <1>5 DEF Lineage

LEMMA LineageStep == IInv /\ Lineage /\ [Next]_vars => Lineage'
<1> SUFFICES ASSUME IInv, Lineage, [Next]_vars PROVE Lineage'
  OBVIOUS
<1>1. CASE Environment
  BY <1>1, LineageKept DEF Environment, Tick, CreateCode, ExpireCode, SetActive, RevokeUser,
     RevokeSession, RevokeByID, codes, tokens
<1>2. ASSUME NEW r \in Reqs, Handler(r) PROVE Lineage'
  <2>1. CASE CodeInsert(r)
    <3>1. \A t \in Rows : row[t].family # ntok + 1
      <4>1. ntok + 1 \notin Rows
        BY <2>1, InsertFacts DEF CodeInsert
      <4>2. QED
        BY <4>1 DEF IInv, TablesOK
    <3>2. NoTok \in TokOrNone
      BY TokenConstants DEF NoTok, TokOrNone
    <3>3. QED
      BY <2>1, <3>1, <3>2, LineageInserted DEF CodeInsert
  <2>2. CASE InsertSuccessor(r)
    <3>1. req[r].cur \in Rows \cap revoked /\ req[r].cur \in TokOrNone
      BY <2>2 DEF InsertSuccessor, At, IInv, HandlerOK, TypeOK, Req
    <3>2. QED
      BY <2>2, <3>1, LineageInserted DEF InsertSuccessor
  <2>3. CASE ~CodeInsert(r) /\ ~InsertSuccessor(r)
    BY <1>2, <2>3, LineageKept DEF Handler, ExchangeCode, CodeUser, SetRevocationData,
       GetUsedByHash, RevokeCodeJTI, ExchangeRefreshToken, ReadSuccessor, RevokeReplayed,
       RevokeFamilyByID, RevokeOld, RevokeByID, RefreshUser, Link, Respond, Abort, tokens
  <2>4. QED
    BY <2>1, <2>2, <2>3
<1>3. CASE UNCHANGED vars
  BY <1>3, LineageKept DEF vars
<1>4. QED
  BY <1>1, <1>2, <1>3 DEF Next

(* A family has a second live row only if two handlers rotated one of its  *)
(* rows, each having read it before the other revoked it; no code replay,  *)
(* session revocation, refused or aborted rotation, recovery of a lost     *)
(* answer or chain of rotations leaves two, whatever number of handlers    *)
(* rotates the family.                                                     *)
THEOREM OnlyOverlapForks == Spec => []OneLiveRow
<1>1. Init => Lineage
  BY DEF Init, Lineage, Rows
<1>2. IInv /\ Lineage => OneLiveRow
  <2> SUFFICES ASSUME IInv, Lineage, NEW s \in Rows, NEW t \in Rows, Live(s), Live(t),
                      row[s].family = row[t].family, s # t
               PROVE  Forked(row[s].family)
    BY DEF OneLiveRow
  <2>1. s \in Nat /\ t \in Nat
    BY DEF Rows
  <2>2. \A u, v \in Rows :
          Live(u) /\ u < v /\ row[u].family = row[v].family => Forked(row[u].family)
    <3>1. \A u \in Rows : u # NoTok
      BY TokenConstants DEF IInv, TypeOK, Rows, NoTok
    <3>2. QED
      BY <3>1 DEF Lineage, Live
  <2>3. QED
    BY <2>1, <2>2
<1>3. QED
  BY <1>1, <1>2, LineageStep, InvariantHolds, PTL DEF Spec

----------------------------------------------------------------------------

(***************************************************************************)
(* TokenRevocation.  The argument follows the key of the revocation list:  *)
(* from the command that writes it to the answer of the client and from    *)
(* then on, it lives as long as the token, unless a replay shortened it    *)
(* last, which cut records.                                                *)
(***************************************************************************)

(* The key of t outlives t. *)
Lasting(t) == 0 < exp[t] /\ exp[t] <= blocked[t]

(* What was answered is on the list, and so is what is about to be. *)
Listed ==
  /\ \A t \in answered \cap Tokens : t \in cut \/ Lasting(t)
  /\ \A r \in Calls : In(r, "del") => call[r].tok \in cut \/ Lasting(call[r].tok)

RevIInv == RevTypeOK /\ Listed

USE DEF In, Call

LEMMA RevInitial == RevInit => RevIInv
<1> SUFFICES ASSUME RevInit PROVE RevIInv
  OBVIOUS
<1>1. AnyToken \in Tokens
  BY RevocationConstants DEF AnyToken
<1>2. Idle \in Call
  BY <1>1 DEF Idle, Call
<1>3. NoEntry \in [active : BOOLEAN, until : Nat]
  BY DEF NoEntry
<1>4. RevTypeOK
  BY <1>2, <1>3, RevocationConstants DEF RevInit, RevTypeOK
<1>5. Listed
  BY DEF RevInit, Listed, Idle
<1> QED  BY <1>4, <1>5 DEF RevIInv

(* Locals keep their type, and a finished request has no business left. *)
LEMMA CallsOK ==
  ASSUME RevTypeOK
  PROVE  /\ Idle \in Call
         /\ Idle.pc = "idle"
         /\ NoEntry \in [active : BOOLEAN, until : Nat]
         /\ \A t \in Tokens : exp[t] \in Nat /\ blocked[t] \in Nat
         /\ clock \in Nat /\ ttl \in Nat \ {0}
<1>1. AnyToken \in Tokens
  BY RevocationConstants DEF AnyToken
<1> QED  BY <1>1, RevocationConstants DEF RevTypeOK, Idle, NoEntry

(* A step that writes neither the list nor exp nor what was answered: no   *)
(* request gets to "del" by it.                                            *)
LEMMA QuietCall ==
  ASSUME RevIInv, RevTypeOK', UNCHANGED <<exp, blocked, answered, cut>>,
         \A r \in Calls : call'[r].pc = "del" => call'[r] = call[r]
  PROVE  RevIInv'
<1>1. Listed'
  BY DEF RevIInv, Listed, Lasting
<1> QED  BY <1>1 DEF RevIInv

(* What an introspection makes of the list: an answer that follows from    *)
(* it, or one made without it.                                             *)
LEMMA IntrospectAnswer ==
  ASSUME NEW r \in Calls, Introspect(r)
  PROVE  \E a \in BOOLEAN, b \in BOOLEAN :
           /\ call' = [call EXCEPT ![r].pc = "fill", ![r].active = a, ![r].blind = b]
           /\ b \/ a = (Verifies(call[r].tok) /\ ~IsRevoked(call[r].tok))
<1> DEFINE v == Verifies(call[r].tok)
           l == Verifies(call[r].tok) /\ ~IsRevoked(call[r].tok)
<1>1. v \in BOOLEAN /\ l \in BOOLEAN
  BY DEF Verifies
<1>2. \/ call' = [call EXCEPT ![r].pc = "fill", ![r].active = l, ![r].blind = FALSE]
      \/ call' = [call EXCEPT ![r].pc = "fill", ![r].active = v, ![r].blind = TRUE]
  BY Zenon DEF Introspect
<1> HIDE DEF v
<1>3. TRUE \in BOOLEAN /\ FALSE \in BOOLEAN
  OBVIOUS
<1>4. l = (Verifies(call[r].tok) /\ ~IsRevoked(call[r].tok))
  OBVIOUS
<1> HIDE DEF l
<1> QED  BY <1>1, <1>2, <1>3, <1>4, Zenon

LEMMA ReadStep ==
  ASSUME RevIInv, NEW r \in Calls,
         \/ \E t \in Tokens : IntrospectMiss(r, t)
         \/ Introspect(r) \/ Fill(r) \/ Cancel(r)
  PROVE  RevIInv'
<1> USE CallsOK
<1>1. CASE \E t \in Tokens : IntrospectMiss(r, t)
  <2>1. PICK t \in Tokens : IntrospectMiss(r, t)
    BY <1>1
  <2>2. RevTypeOK'
    BY <2>1 DEF RevIInv, RevTypeOK, IntrospectMiss, Begin
  <2>3. \A q \in Calls : call'[q].pc = "del" => call'[q] = call[q]
    BY <2>1 DEF RevIInv, RevTypeOK, IntrospectMiss, Begin
  <2> QED  BY <2>1, <2>2, <2>3, QuietCall DEF IntrospectMiss
<1>2. CASE Introspect(r)
  <2>1. PICK a \in BOOLEAN, b \in BOOLEAN :
          call' = [call EXCEPT ![r].pc = "fill", ![r].active = a, ![r].blind = b]
    BY <1>2, IntrospectAnswer, Zenon
  <2>2. RevTypeOK'
    BY <1>2, <2>1 DEF RevIInv, RevTypeOK, Introspect
  <2>3. \A q \in Calls : call'[q].pc = "del" => call'[q] = call[q]
    BY <2>1 DEF RevIInv, RevTypeOK
  <2> QED  BY <1>2, <2>2, <2>3, QuietCall DEF Introspect
<1>3. CASE Fill(r)
  <2>1. \A t \in Tokens, a \in BOOLEAN : Lifetime(t, a) \in Nat
    <3> SUFFICES ASSUME NEW t \in Tokens, NEW a \in BOOLEAN PROVE Lifetime(t, a) \in Nat
      OBVIOUS
    <3>1. exp[t] \in Nat /\ clock \in Nat
      BY DEF RevIInv, RevTypeOK
    <3> QED  BY <3>1, RevocationConstants DEF Lifetime
  <2>0. call[r] \in Call /\ call' \in [Calls -> Call]
    BY <1>3 DEF RevIInv, RevTypeOK, Fill, End
  <2>c. cache' \in [Tokens -> [active : BOOLEAN, until : Nat]]
    <3> DEFINE e == [active |-> call[r].active,
                     until |-> clock + Lifetime(call[r].tok, call[r].active)]
    <3>1. e \in [active : BOOLEAN, until : Nat]
      BY <2>0, <2>1 DEF RevIInv, RevTypeOK
    <3>2. cache' = [cache EXCEPT ![call[r].tok] = e] \/ cache' = cache
      BY <1>3 DEF Fill
    <3> HIDE DEF e
    <3> QED  BY <3>1, <3>2 DEF RevIInv, RevTypeOK
  <2>2. RevTypeOK'
    BY <1>3, <2>0, <2>c DEF RevIInv, RevTypeOK, Fill
  <2>3. \A q \in Calls : call'[q].pc = "del" => call'[q] = call[q]
    BY <1>3 DEF RevIInv, RevTypeOK, Fill, End
  <2> QED  BY <1>3, <2>2, <2>3, QuietCall DEF Fill
<1>4. CASE Cancel(r)
  <2>1. RevTypeOK'
    BY <1>4 DEF RevIInv, RevTypeOK, Cancel, End
  <2>2. \A q \in Calls : call'[q].pc = "del" => call'[q] = call[q]
    BY <1>4 DEF RevIInv, RevTypeOK, Cancel, End
  <2> QED  BY <1>4, <2>1, <2>2, QuietCall DEF Cancel
<1> QED  BY <1>1, <1>2, <1>3, <1>4

LEMMA RevokeCall ==
  ASSUME RevIInv, NEW r \in Calls, NEW t \in Tokens, RevokeAccessToken(r, t)
  PROVE  RevIInv'
<1> USE CallsOK DEF RevIInv
<1>1. RevTypeOK'
  BY DEF RevTypeOK, RevokeAccessToken, Begin
<1>2. /\ \A s \in Tokens : Lasting(s) => Lasting(s)'
      /\ Lasting(t)'
  BY DEF RevTypeOK, RevokeAccessToken, Begin, Verifies, Lasting
<1>3. call'[r].tok = t /\ \A q \in Calls \ {r} : call'[q] = call[q]
  BY DEF RevTypeOK, RevokeAccessToken, Begin
<1>4. call \in [Calls -> Call]
  BY DEF RevTypeOK
<1>5. answered' = answered /\ cut' = cut \ {t} /\ exp' = exp
  BY DEF RevokeAccessToken
<1>6. Listed'
  <2>1. \A s \in (answered \cap Tokens)' : s \in cut' \/ Lasting(s)'
    BY <1>2, <1>5 DEF Listed
  <2>2. \A q \in Calls : (In(q, "del") => call[q].tok \in cut \/ Lasting(call[q].tok))'
    <3> SUFFICES ASSUME NEW q \in Calls, In(q, "del")'
                 PROVE  (call[q].tok \in cut \/ Lasting(call[q].tok))'
      OBVIOUS
    <3>1. CASE q = r
      BY <1>2, <1>3, <3>1 DEF Lasting
    <3>2. CASE q # r
      BY <1>2, <1>3, <1>4, <1>5, <3>2 DEF Listed, Lasting
    <3> QED  BY <3>1, <3>2
  <2> QED  BY <2>1, <2>2 DEF Listed
<1> QED  BY <1>1, <1>6

(* A failed SET leaves the key or writes it in full; what it answers is    *)
(* in cut, unless the token had been answered before.                      *)
LEMMA FailedCall ==
  ASSUME RevIInv, NEW t \in Tokens, RevokeAccessTokenFails(t)
  PROVE  RevIInv'
<1> USE CallsOK DEF RevIInv
<1>1. RevTypeOK'
  BY DEF RevTypeOK, RevokeAccessTokenFails
<1>2. \A s \in Tokens : Lasting(s) => Lasting(s)'
  BY DEF RevTypeOK, RevokeAccessTokenFails, Verifies, Lasting
<1>3. /\ answered' = answered \cup {t} /\ call' = call
      /\ cut \subseteq cut' /\ (t \in answered \/ t \in cut')
  BY DEF RevokeAccessTokenFails
<1>4. \A r \in Calls : call[r].tok \in Tokens
  BY DEF RevTypeOK
<1>5. Listed'
  BY <1>2, <1>3, <1>4 DEF Listed
<1> QED  BY <1>1, <1>5

LEMMA DropStep ==
  ASSUME RevIInv, NEW r \in Calls, DropCached(r)
  PROVE  RevIInv'
<1> USE CallsOK DEF RevIInv
<1>1. RevTypeOK'
  BY DEF RevTypeOK, DropCached, End
<1>2. call'[r].pc = "idle" /\ \A q \in Calls \ {r} : call'[q] = call[q]
  BY DEF RevTypeOK, DropCached, End
<1>3. /\ answered' = answered \cup {call[r].tok}
      /\ UNCHANGED <<exp, blocked, cut>>
      /\ In(r, "del")
  BY DEF DropCached
<1>4. Listed'
  BY <1>2, <1>3 DEF Listed, Lasting
<1> QED  BY <1>1, <1>4

LEMMA ReplayCall ==
  ASSUME RevIInv, NEW t \in Tokens, RevokeOnReplay(t)
  PROVE  RevIInv'
<1> USE CallsOK DEF RevIInv
<1>1. RevTypeOK'
  BY DEF RevTypeOK, RevokeOnReplay
<1>2. \A s \in Tokens : s \in cut \/ Lasting(s) => s \in cut' \/ Lasting(s)'
  BY DEF RevTypeOK, RevokeOnReplay, Lasting
<1>3. t \in cut' \/ Lasting(t)'
  BY DEF RevTypeOK, RevokeOnReplay, Lasting
<1>4. \A r \in Calls : call[r].tok \in Tokens
  BY DEF RevTypeOK
<1>5. Listed'
  BY <1>2, <1>3, <1>4 DEF Listed, RevokeOnReplay
<1> QED  BY <1>1, <1>5

LEMMA IssueStep ==
  ASSUME RevIInv, NEW t \in Tokens, Issue(t)
  PROVE  RevIInv'
<1> USE CallsOK DEF RevIInv
<1>1. RevTypeOK'
  BY DEF RevTypeOK, Issue
<1>2. \A s \in Tokens : Lasting(s) => Lasting(s)'
  BY DEF RevTypeOK, Issue, Lasting
<1>3. \A r \in Calls : call[r].tok \in Tokens
  BY DEF RevTypeOK
<1>4. Listed'
  BY <1>2, <1>3 DEF Listed, Issue
<1> QED  BY <1>1, <1>4

LEMMA RevInductive == RevIInv /\ [RevNext]_revVars => RevIInv'
<1> SUFFICES ASSUME RevIInv, [RevNext]_revVars PROVE RevIInv'
  OBVIOUS
<1> USE CallsOK DEF RevIInv
<1>1. CASE ClockTick
  <2>1. RevTypeOK'
    BY <1>1, RevocationConstants DEF RevTypeOK, ClockTick
  <2> QED  BY <1>1, <2>1, QuietCall DEF ClockTick
<1>2. CASE \E d \in TTLs : SetTTL(d)
  <2>1. RevTypeOK'
    BY <1>2 DEF RevTypeOK, SetTTL
  <2> QED  BY <1>2, <2>1, QuietCall DEF SetTTL
<1>3. CASE \E t \in Refresh, hint \in BOOLEAN : RevokeRefreshToken(t, hint)
  <2>1. PICK t \in Refresh, hint \in BOOLEAN : RevokeRefreshToken(t, hint)
    BY <1>3
  <2>2. RevTypeOK'
    BY <2>1 DEF RevTypeOK, RevokeRefreshToken
  <2>3. answered' \cap Tokens \subseteq answered \cap Tokens
    BY <2>1, RevocationConstants DEF RevokeRefreshToken
  <2>4. UNCHANGED <<exp, blocked, cut, call>>
    BY <2>1 DEF RevokeRefreshToken
  <2> QED  BY <2>2, <2>3, <2>4 DEF Listed, Lasting
<1>4. CASE \E t \in Tokens : Issue(t) \/ RevokeOnReplay(t) \/ RevokeAccessTokenFails(t)
  BY <1>4, IssueStep, ReplayCall, FailedCall
<1>5. CASE \E r \in Calls : \E t \in Tokens : RevokeAccessToken(r, t)
  BY <1>5, RevokeCall
<1>6. CASE \E r \in Calls : DropCached(r)
  BY <1>6, DropStep
<1>7. CASE \E r \in Calls : \/ \E t \in Tokens : IntrospectMiss(r, t)
                           \/ Introspect(r) \/ Fill(r) \/ Cancel(r)
  BY <1>7, ReadStep
<1>8. CASE UNCHANGED revVars
  <2>1. RevTypeOK'
    BY <1>8 DEF RevTypeOK, revVars
  <2> QED  BY <1>8, <2>1, QuietCall DEF revVars
<1> QED  BY <1>1, <1>2, <1>3, <1>4, <1>5, <1>6, <1>7, <1>8 DEF RevNext

THEOREM RevInvariance == RevSpec => []RevIInv
BY RevInitial, RevInductive, PTL DEF RevSpec

(* Types of the keys and of the locals of the handlers; no key of the list *)
(* or of the cache ever gets a negative lifetime.                          *)
THEOREM RevTypeCorrect == RevSpec => []RevTypeOK
<1>1. RevIInv => RevTypeOK
  BY DEF RevIInv
<1> QED  BY <1>1, RevInvariance, PTL

(* On the list a revoked token stays revoked. *)
LEMMA DeadIsListed == ASSUME RevIInv PROVE RevokedIsListed
<1> SUFFICES ASSUME NEW t \in ForGood, Verifies(t) PROVE IsRevoked(t)
  BY DEF RevokedIsListed
<1>1. exp[t] \in Nat /\ blocked[t] \in Nat /\ clock \in Nat
  BY CallsOK DEF RevIInv, ForGood
<1> QED  BY <1>1 DEF RevIInv, Listed, Lasting, ForGood, Verifies, IsRevoked

(* A token whose revocation was answered is on the revocation list for as  *)
(* long as its signature verifies, unless no answered revocation of it     *)
(* wrote the list without an error, or a replay wrote a shorter key last.  *)
THEOREM RevocationLasts == RevSpec => []RevokedIsListed
<1>1. RevIInv => RevokedIsListed
  BY DeadIsListed
<1> QED  BY <1>1, RevInvariance, PTL

(* Once the introspections that read the list before the revocation are    *)
(* through, no handler that reads the list finds the token active, and no  *)
(* "active" enters the cache except from one whose read of the list        *)
(* failed, however many introspections overlap.                            *)
THEOREM StaleAnswersEnd == RevSpec => StaleAnswersDieOut
<1> DEFINE Ends == \A t \in ForGood \cap ForGood' :
             Drained(t) => /\ Drained(t)'
                           /\ cache'[t].active => cache'[t] = cache[t] \/ Unread(t)
<1>1. RevIInv /\ [RevNext]_revVars => Ends
  <2> SUFFICES ASSUME RevIInv, [RevNext]_revVars, NEW t \in ForGood, Drained(t)
               PROVE  Drained(t)' /\ (cache'[t].active => cache'[t] = cache[t] \/ Unread(t))
    OBVIOUS
  <2>1. RevTypeOK /\ t \in Tokens /\ Idle.pc = "idle"
    BY CallsOK DEF RevIInv, ForGood
  <2>2. CASE \E r \in Calls : Introspect(r)
    <3>1. PICK r \in Calls : Introspect(r)
      BY <2>2
    <3>2. PICK a \in BOOLEAN, b \in BOOLEAN :
            /\ call' = [call EXCEPT ![r].pc = "fill", ![r].active = a, ![r].blind = b]
            /\ b \/ a = (Verifies(call[r].tok) /\ ~IsRevoked(call[r].tok))
      BY <3>1, IntrospectAnswer, Zenon
    <3>3. Verifies(t) => IsRevoked(t)
      BY DeadIsListed DEF RevokedIsListed
    <3>4. \A q \in Calls \ {r} : call'[q] = call[q]
      BY <2>1, <3>2 DEF RevTypeOK
    <3>5. /\ call'[r].tok = call[r].tok
          /\ call[r].tok = t => ~call'[r].active \/ call'[r].blind
      BY <2>1, <3>2, <3>3 DEF RevTypeOK
    <3> QED  BY <3>1, <3>4, <3>5 DEF Drained, Introspect
  <2>3. CASE \E r \in Calls : Fill(r)
    <3>1. PICK r \in Calls : Fill(r)
      BY <2>3
    <3>2. Drained(t)'
      BY <2>1, <3>1 DEF Drained, Fill, End, RevTypeOK
    <3>3. call[r].tok = t /\ call[r].active => Unread(t)
      BY <3>1 DEF Drained, Unread, Fill
    <3>4. cache'[t] = cache[t] \/ ~cache'[t].active \/ Unread(t)
      BY <2>1, <3>1, <3>3 DEF Fill, RevTypeOK
    <3> QED  BY <3>2, <3>4
  <2>4. CASE \E r \in Calls : DropCached(r)
    BY <2>1, <2>4 DEF Drained, DropCached, End, RevTypeOK, NoEntry
  <2>5. CASE \E r \in Calls : \/ \E s \in Tokens : IntrospectMiss(r, s) \/ RevokeAccessToken(r, s)
                            \/ Cancel(r)
    <3>1. PICK r \in Calls :
            \/ \E s \in Tokens : IntrospectMiss(r, s) \/ RevokeAccessToken(r, s)
            \/ Cancel(r)
      BY <2>5
    <3>2. /\ cache' = cache /\ call'[r].pc # "fill"
          /\ \A q \in Calls \ {r} : call'[q] = call[q]
      BY <2>1, <3>1 DEF IntrospectMiss, RevokeAccessToken, Begin, Cancel, End, RevTypeOK
    <3> QED  BY <3>2 DEF Drained
  <2>6. CASE UNCHANGED <<call, cache>>
    BY <2>6 DEF Drained
  <2> QED  BY <2>2, <2>3, <2>4, <2>5, <2>6
           DEF RevNext, revVars, ClockTick, SetTTL, Issue, RevokeOnReplay, RevokeAccessTokenFails,
               RevokeRefreshToken
<1>2. RevSpec => [][Ends]_revVars
  BY <1>1, RevInvariance, PTL DEF RevSpec
<1> QED  BY <1>2 DEF StaleAnswersDieOut
=============================================================================
