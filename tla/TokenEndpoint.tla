--------------------------- MODULE TokenEndpoint ---------------------------
(***************************************************************************)
(* The OAuth token endpoint: the authorization_code grant with its replay  *)
(* handling and the refresh_token grant with rotation, against the         *)
(* authorization_codes and refresh_tokens tables.                          *)
(*                                                                         *)
(* Every request is a handler goroutine of some replica.  A handler issues *)
(* one SQL or Redis statement at a time, none of them inside a             *)
(* transaction, so one action of this module is one statement together     *)
(* with the local checks between it and the next statement.                *)
(*                                                                         *)
(* A row of refresh_tokens is a number of Tok, in order of insertion; a    *)
(* family_id is the number of the family's first row, which is as fresh as *)
(* the uuid.New() the code draws.  The access token signed together with   *)
(* row t is named t as well: its jti is revoked iff t \in revokedJti.      *)
(***************************************************************************)
EXTENDS Naturals, FiniteSets

CONSTANTS
  Codes,       \* authorization codes that may be issued
  Users,       \* accounts
  UserOf,      \* the account each code was issued for
  Reqs,        \* request slots: handlers that can be in flight at once
  MaxTok,      \* bound: rows ever inserted into refresh_tokens
  RefreshTTL,  \* RefreshTokenTTL in clock ticks
  MaxTime      \* bound on the clock

ASSUME TokenConstants ==
  /\ Codes # {}
  /\ UserOf \in [Codes -> Users]
  /\ MaxTok \in Nat \ {0}
  /\ RefreshTTL \in Nat
  /\ MaxTime \in Nat

VARIABLES
  now,         \* the database clock
  active,      \* users.is_active
  codeSt,      \* authorization_codes: used_at and expires_at
  codeData,    \* access_token_jti and refresh_family_id of a code row
  ntok,        \* rows inserted into refresh_tokens so far
  row,         \* the columns of a row that no statement updates
  revoked,     \* rows with revoked_at IS NOT NULL
  replacedBy,  \* replaced_by
  parent,      \* the row each row was rotated from: ReplacesID of Create (history)
  revokedJti,  \* access tokens on the Redis revocation list
  sent,        \* rows whose plain value reached a client
  condemned,   \* families a replay made the code revoke (history)
  req          \* the locals of each handler

vars == <<now, active, codeSt, codeData, ntok, row, revoked, replacedBy, parent,
          revokedJti, sent, condemned, req>>

codes == <<codeSt, codeData>>
tokens == <<ntok, row, revoked, replacedBy, parent>>

NoTok == 0
Tok == 1..MaxTok
TokOrNone == 0..MaxTok
Rows == 1..ntok

(* client_id and user_id come from the code's row and are named by it. *)
Row == [grant : Codes, family : Tok, expiresAt : Nat]

(* What a request proves about its sender.  "client" stands for a wrong    *)
(* client_id, redirect_uri, PKCE verifier or attestation key, "cert" for a *)
(* wrong or missing mTLS certificate.                                      *)
Creds == {"ok", "client", "cert"}

PCs == {"idle", "codeUser", "codeInsert", "codeData", "lookup", "revokeJti",
        "successor", "revokeFamily", "revokeOld", "user",
        "insert", "link", "respond"}

Req == [pc : PCs, cred : Creds, code : Codes, cur : TokOrNone, new : TokOrNone]

AnyCode == CHOOSE c \in Codes : TRUE
IdleReq == [pc |-> "idle", cred |-> "ok", code |-> AnyCode, cur |-> NoTok, new |-> NoTok]

Live(t) == t \in Rows /\ t \notin revoked
FamilyRows(f) == {t \in Rows : row[t].family = f}
UserRows(u) == {t \in Rows : UserOf[row[t].grant] = u}

(* The types of the tables and of the locals of the handlers; a row's      *)
(* family_id is never NULL.                                                *)
TypeOK ==
  /\ now \in 0..MaxTime
  /\ active \in [Users -> BOOLEAN]
  /\ codeSt \in [Codes -> {"absent", "fresh", "used", "expired"}]
  /\ codeData \in [Codes -> TokOrNone]
  /\ ntok \in 0..MaxTok
  /\ row \in [Tok -> Row]
  /\ revoked \subseteq Tok
  /\ replacedBy \in [Tok -> TokOrNone]
  /\ parent \in [Tok -> TokOrNone]
  /\ revokedJti \subseteq Tok
  /\ sent \subseteq Tok
  /\ condemned \subseteq Tok
  /\ req \in [Reqs -> Req]

Init ==
  /\ now = 0
  /\ active = [u \in Users |-> TRUE]
  /\ codeSt = [c \in Codes |-> "absent"]
  /\ codeData = [c \in Codes |-> NoTok]
  /\ ntok = 0
  /\ row = [t \in Tok |-> [grant |-> AnyCode, family |-> t, expiresAt |-> 0]]
  /\ revoked = {}
  /\ replacedBy = [t \in Tok |-> NoTok]
  /\ parent = [t \in Tok |-> NoTok]
  /\ revokedJti = {}
  /\ sent = {}
  /\ condemned = {}
  /\ req = [r \in Reqs |-> IdleReq]

(***************************************************************************)
(* Statements of the repositories.                                         *)
(***************************************************************************)

(* UPDATE ... WHERE family_id = f AND revoked_at IS NULL: the rows that    *)
(* exist when the statement runs.                                          *)
RevokeFamilyByID(f) == revoked' = revoked \cup FamilyRows(f)

(* UPDATE ... WHERE id = t, with no test of revoked_at. *)
RevokeByID(t) == revoked' = revoked \cup {t}

(* INSERT of the next row, rotated from row p. *)
InsertRow(g, f, exp, p) ==
  /\ ntok < MaxTok
  /\ ntok' = ntok + 1
  /\ parent' = [parent EXCEPT ![ntok + 1] = p]
  /\ row' = [row EXCEPT ![ntok + 1] = [grant |-> g, family |-> f, expiresAt |-> exp]]

At(r, l) == req[r].pc = l
Goto(r, l) == req' = [req EXCEPT ![r].pc = l]
Start(r, q) == req' = [req EXCEPT ![r] = q]
Finish(r) == Start(r, IdleReq)

(* The handler inserted row t. *)
GotoNew(r, l, t) == Start(r, [req[r] EXCEPT !.pc = l, !.new = t])

(* The handler goes on at l if its check passes and answers an error       *)
(* otherwise.                                                              *)
GotoIf(r, check, l) ==
  \/ check /\ Goto(r, l)
  \/ ~check /\ Finish(r)

(***************************************************************************)
(* Environment: codes issued by /authorize, time, administrators.          *)
(***************************************************************************)
CreateCode(c) ==
  /\ codeSt[c] = "absent"
  /\ codeSt' = [codeSt EXCEPT ![c] = "fresh"]
  /\ UNCHANGED <<now, active, codeData, tokens, revokedJti, sent, condemned, req>>

ExpireCode(c) ==
  /\ codeSt[c] = "fresh"
  /\ codeSt' = [codeSt EXCEPT ![c] = "expired"]
  /\ UNCHANGED <<now, active, codeData, tokens, revokedJti, sent, condemned, req>>

Tick ==
  /\ now < MaxTime
  /\ now' = now + 1
  /\ UNCHANGED <<active, codes, tokens, revokedJti, sent, condemned, req>>

SetActive(u) ==
  /\ active' = [active EXCEPT ![u] = ~active[u]]
  /\ UNCHANGED <<now, codes, tokens, revokedJti, sent, condemned, req>>

(* RevokeSession of an administrator or of the account page, and /revoke   *)
(* with a refresh token: one row.                                          *)
RevokeSession(t) ==
  /\ Live(t)
  /\ RevokeByID(t)
  /\ UNCHANGED <<now, active, codes, ntok, row, replacedBy, parent, revokedJti,
                 sent, condemned, req>>

(* RevokeAllByUser; with keep # NoTok, RevokeAllByUserExcept. *)
RevokeUser(u, keep) ==
  /\ \E t \in UserRows(u) : Live(t)
  /\ revoked' = revoked \cup (UserRows(u) \ {keep})
  /\ UNCHANGED <<now, active, codes, ntok, row, replacedBy, parent, revokedJti,
                 sent, condemned, req>>

(***************************************************************************)
(* The authorization_code grant.                                           *)
(***************************************************************************)

(* Consume, then the client, redirect, PKCE and DPoP checks on the         *)
(* returned row: the code is spent before they run.  A code that cannot be *)
(* consumed sends the handler to its replay branch.                        *)
ExchangeCode(r, c, k) ==
  LET start(l, cred) ==
        Start(r, [pc |-> l, cred |-> cred, code |-> c, cur |-> NoTok, new |-> NoTok])
  IN
  /\ At(r, "idle")
  /\ \/ /\ codeSt[c] = "fresh"
        /\ codeSt' = [codeSt EXCEPT ![c] = "used"]
        /\ \/ k = "client" /\ Finish(r)
           \/ k # "client" /\ start("codeUser", "ok")
     \/ /\ codeSt[c] \in {"used", "expired"}
        /\ start("lookup", k)
        /\ UNCHANGED codeSt
  /\ UNCHANGED <<now, active, codeData, tokens, revokedJti, sent, condemned>>

CodeUser(r) ==
  /\ At(r, "codeUser")
  /\ GotoIf(r, active[UserOf[req[r].code]], "codeInsert")
  /\ UNCHANGED <<now, active, codes, tokens, revokedJti, sent, condemned>>

(* IssueRefreshToken: the first row of a new family. *)
CodeInsert(r) ==
  /\ At(r, "codeInsert")
  /\ InsertRow(req[r].code, ntok + 1, now + RefreshTTL, NoTok)
  /\ GotoNew(r, "codeData", ntok + 1)
  /\ UNCHANGED <<now, active, codes, revoked, replacedBy, revokedJti, sent, condemned>>

(* Mutant: the tokens are returned without recording them on the code. *)
SetRevocationDataSkipped(r) ==
  /\ At(r, "codeData")
  /\ Goto(r, "respond")
  /\ UNCHANGED <<now, active, codes, tokens, revokedJti, sent, condemned>>

SetRevocationData(r) ==
  /\ At(r, "codeData")
  /\ codeData' = [codeData EXCEPT ![req[r].code] = req[r].new]
  /\ Goto(r, "respond")
  /\ UNCHANGED <<now, active, codeSt, tokens, revokedJti, sent, condemned>>

(* GetUsedByHash and the handler's test that this is a replay, by the      *)
(* original client, of a code whose exchange recorded what it issued.      *)
GetUsedByHash(r) ==
  LET c == req[r].code
      replay == codeSt[c] = "used" /\ codeData[c] # NoTok /\ req[r].cred # "client"
  IN
  /\ At(r, "lookup")
  /\ \/ replay /\ Start(r, [IdleReq EXCEPT !.pc = "revokeJti", !.cur = codeData[c]])
     \/ ~replay /\ Finish(r)
  /\ UNCHANGED <<now, active, codes, tokens, revokedJti, sent, condemned>>

RevokeCodeJTI(r) ==
  /\ At(r, "revokeJti")
  /\ revokedJti' = revokedJti \cup {req[r].cur}
  /\ Goto(r, "revokeFamily")
  /\ UNCHANGED <<now, active, codes, tokens, sent, condemned>>

(***************************************************************************)
(* The refresh_token grant.                                                *)
(***************************************************************************)

(* The checks between reading the row to rotate and revoking it: client,   *)
(* expiry, attestation key.                                                *)
Rotatable(t, k) == k # "client" /\ now <= row[t].expiresAt

(* GetByHash of the presented token and the branch on what it read. *)
ExchangeRefreshToken(r, t, k) ==
  LET start(l, cur) ==
        Start(r, [pc |-> l, cred |-> k, code |-> AnyCode, cur |-> cur, new |-> NoTok])
  IN
  /\ At(r, "idle")
  /\ t \in sent
  /\ \/ t \notin revoked /\ Rotatable(t, k) /\ start("revokeOld", t)
     \/ t \notin revoked /\ ~Rotatable(t, k) /\ Finish(r)
     \/ t \in revoked /\ replacedBy[t] = NoTok /\ start("revokeFamily", t)
     \/ t \in revoked /\ replacedBy[t] # NoTok /\ start("successor", replacedBy[t])
  /\ UNCHANGED <<now, active, codes, tokens, revokedJti, sent, condemned>>

(* Mutant: the successor's revoked_at is not looked at. *)
ReadSuccessorUnchecked(r) ==
  /\ At(r, "successor")
  /\ GotoIf(r, Rotatable(req[r].cur, req[r].cred), "revokeOld")
  /\ UNCHANGED <<now, active, codes, tokens, revokedJti, sent, condemned>>

(* GetByID of the successor: still live means a lost rotation response.    *)
(* A revoked successor revokes the family, and so does a GetByID that      *)
(* fails, whatever the row holds.                                          *)
ReadSuccessor(r) ==
  /\ At(r, "successor")
  /\ \/ Goto(r, "revokeFamily")
     \/ /\ req[r].cur \notin revoked
        /\ GotoIf(r, Rotatable(req[r].cur, req[r].cred), "revokeOld")
  /\ UNCHANGED <<now, active, codes, tokens, revokedJti, sent, condemned>>

(* The family revocation of both grants' replay branches. *)
RevokeReplayed(r) ==
  LET f == row[req[r].cur].family
  IN
  /\ At(r, "revokeFamily")
  /\ RevokeFamilyByID(f)
  /\ condemned' = condemned \cup {f}
  /\ Finish(r)
  /\ UNCHANGED <<now, active, codes, ntok, row, replacedBy, parent, revokedJti, sent>>

(* Mutant: the successor is issued without revoking the old token. *)
RevokeOldSkipped(r) ==
  /\ At(r, "revokeOld")
  /\ Goto(r, "user")
  /\ UNCHANGED <<now, active, codes, tokens, revokedJti, sent, condemned>>

RevokeOld(r) ==
  /\ At(r, "revokeOld")
  /\ RevokeByID(req[r].cur)
  /\ Goto(r, "user")
  /\ UNCHANGED <<now, active, codes, ntok, row, replacedBy, parent, revokedJti, sent,
                 condemned>>

(* users.GetByID, then the mTLS binding: both can still refuse, after the  *)
(* token to rotate has been revoked.                                       *)
RefreshUser(r) ==
  /\ At(r, "user")
  /\ GotoIf(r, active[UserOf[row[req[r].cur].grant]] /\ req[r].cred # "cert", "insert")
  /\ UNCHANGED <<now, active, codes, tokens, revokedJti, sent, condemned>>

InsertSuccessor(r) ==
  LET old == row[req[r].cur]
  IN
  /\ At(r, "insert")
  /\ InsertRow(old.grant, old.family, old.expiresAt, req[r].cur)
  /\ GotoNew(r, "link", ntok + 1)
  /\ UNCHANGED <<now, active, codes, revoked, replacedBy, revokedJti, sent, condemned>>

(* Mutant: replaced_by is written on the new row. *)
LinkSwapped(r) ==
  /\ At(r, "link")
  /\ replacedBy' = [replacedBy EXCEPT ![req[r].new] = req[r].cur]
  /\ Goto(r, "respond")
  /\ UNCHANGED <<now, active, codes, ntok, row, revoked, parent, revokedJti, sent,
                 condemned>>

(* The second statement of Create; its error is dropped. *)
Link(r) ==
  /\ At(r, "link")
  /\ \/ replacedBy' = [replacedBy EXCEPT ![req[r].cur] = req[r].new]
     \/ UNCHANGED replacedBy
  /\ Goto(r, "respond")
  /\ UNCHANGED <<now, active, codes, ntok, row, revoked, parent, revokedJti, sent,
                 condemned>>

(***************************************************************************)
(* The answer, and everything that can stop a handler before it: a failed  *)
(* statement, a cancelled request, a crashed replica, a lost response.     *)
(***************************************************************************)
Respond(r) ==
  /\ At(r, "respond")
  /\ sent' = sent \cup {req[r].new}
  /\ Finish(r)
  /\ UNCHANGED <<now, active, codes, tokens, revokedJti, condemned>>

Abort(r) ==
  /\ ~At(r, "idle")
  /\ Finish(r)
  /\ UNCHANGED <<now, active, codes, tokens, revokedJti, sent, condemned>>

Handler(r) ==
  \/ \E c \in Codes, k \in Creds : ExchangeCode(r, c, k)
  \/ CodeUser(r) \/ CodeInsert(r) \/ SetRevocationData(r)
  \/ GetUsedByHash(r) \/ RevokeCodeJTI(r)
  \/ \E t \in Tok, k \in Creds : ExchangeRefreshToken(r, t, k)
  \/ ReadSuccessor(r) \/ RevokeReplayed(r) \/ RevokeOld(r) \/ RefreshUser(r)
  \/ InsertSuccessor(r) \/ Link(r) \/ Respond(r) \/ Abort(r)

Environment ==
  \/ Tick
  \/ \E c \in Codes : CreateCode(c) \/ ExpireCode(c)
  \/ \E u \in Users : SetActive(u) \/ \E keep \in Tok \cup {NoTok} : RevokeUser(u, keep)
  \/ \E t \in Tok : RevokeSession(t)

Next == Environment \/ \E r \in Reqs : Handler(r)

Spec == Init /\ [][Next]_vars

(***************************************************************************)
(* Properties.                                                             *)
(***************************************************************************)

(* A handler that has decided to rotate a row and has not inserted its     *)
(* successor yet.                                                          *)
Rotating(r) == req[r].pc \in {"revokeOld", "user", "insert"}

(* A family no row of which is live and no handler is about to extend.     *)
Dead(f) ==
  /\ f \in Rows
  /\ \A t \in FamilyRows(f) : t \in revoked
  /\ \A r \in Reqs : Rotating(r) => row[req[r].cur].family # f

(* ExchangeCode: however many handlers race on one authorization code, it  *)
(* starts at most one token family.                                        *)
CodeUsedOnce ==
  \A s, t \in Rows :
    /\ row[s].family = s
    /\ row[t].family = t
    /\ row[s].grant = row[t].grant
    => s = t

(* SetRevocationData runs before the tokens are returned, and rotation     *)
(* keeps the family: every refresh token a client holds is in the family   *)
(* that its code's row records, so a later replay of the code reaches it.  *)
SentIsRevocable ==
  \A t \in sent : codeData[row[t].grant] = row[t].family

(* "Targeted revocation": the family a code's row records holds rows of    *)
(* that code's own exchange only.                                          *)
ReplayIsTargeted ==
  \A c \in Codes : codeData[c] # NoTok =>
    \A t \in FamilyRows(row[codeData[c]].family) : row[t].grant = c

(* replaced_by, written by a statement of its own and possibly by two      *)
(* racing handlers, always leads from a revoked row to a later row of the  *)
(* same family: following it never changes client, user or lifetime.       *)
LinksStayInFamily ==
  \A t \in Tok : replacedBy[t] # NoTok =>
    /\ t \in revoked
    /\ replacedBy[t] \in Rows
    /\ t < replacedBy[t]
    /\ row[replacedBy[t]] = row[t]

(* Rotation inherits expires_at: no chain of rotations, recoveries and     *)
(* races outlives RefreshTTL counted from the code exchange.               *)
LifetimeIsFixed ==
  \A t \in Rows :
    /\ row[t].expiresAt = row[row[t].family].expiresAt
    /\ row[t].expiresAt <= now + RefreshTTL

(* Once all rows of a family are revoked and no rotation of it is in       *)
(* flight, no sequence of replays, recoveries and failures brings it back. *)
DeadStaysDead == [][\A f \in Tok : Dead(f) => Dead(f)']_vars

(* Two handlers rotated the same row: both had passed the test of its      *)
(* revoked_at before the first of them revoked it.                         *)
Forked(f) ==
  \E p, q \in FamilyRows(f) : p # q /\ parent[p] # NoTok /\ parent[p] = parent[q]

(* A family has a second live row only if two rotations of one row         *)
(* overlapped: no code replay, recovery of a lost answer, failure between  *)
(* revoking a row and inserting its successor, or chain of rotations does  *)
(* it otherwise, however many handlers rotate the family.                  *)
OneLiveRow ==
  \A s, t \in Rows :
    Live(s) /\ Live(t) /\ row[s].family = row[t].family /\ s # t
    => Forked(row[s].family)

(* What the comments on the replay branch and on RevokeFamilyByID say: a   *)
(* family revoked for a replay has no live token.                          *)
ReplayRevokesFamily ==
  \A f \in condemned : \A t \in FamilyRows(f) : t \in revoked

(***************************************************************************)
(* The inductive invariant the proofs rest on.                             *)
(***************************************************************************)

(* What the tables say by themselves: a row's family starts with a row of  *)
(* the same code, and a used code records nothing or its own first row.    *)
TablesOK ==
  /\ sent \subseteq Rows
  /\ revoked \subseteq Rows
  /\ condemned \subseteq Rows
  /\ \A t \in Rows :
       /\ codeSt[row[t].grant] = "used"
       /\ row[t].family \in Rows
       /\ row[row[t].family] = row[t]
       /\ row[t].expiresAt <= now + RefreshTTL
  /\ \A c \in Codes : codeData[c] # NoTok =>
       /\ codeData[c] \in Rows
       /\ row[codeData[c]].family = codeData[c]
       /\ row[codeData[c]].grant = c

(* A row a client holds or may be given: its code records its family. *)
Covered(t) == codeData[row[t].grant] = row[t].family

(* What a handler has established when it is about to run a statement. *)
HandlerOK(r) ==
  LET q == req[r]
  IN
  /\ q.pc \in {"revokeJti", "revokeFamily", "successor", "revokeOld", "user",
               "insert", "link"} => q.cur \in Rows /\ Covered(q.cur)
  /\ q.pc \in {"user", "insert", "link"} => q.cur \in revoked
  /\ q.pc \in {"codeData", "link", "respond"} => q.new \in Rows
  /\ q.pc = "link" => q.cur < q.new /\ row[q.new] = row[q.cur]
  /\ q.pc = "respond" => Covered(q.new)
  /\ q.pc = "codeData" => row[q.new].family = q.new /\ row[q.new].grant = q.code
  /\ q.pc \in {"codeUser", "codeInsert", "codeData"} =>
       codeSt[q.code] = "used" /\ codeData[q.code] = NoTok

(* The handler that consumed a code, until it records its family. *)
Exchanging(r) == req[r].pc \in {"codeUser", "codeInsert", "codeData"}

(* One handler per consumed code; a code whose exchange has not inserted   *)
(* its row yet has no row at all, and at most one family afterwards.       *)
ExchangeOK ==
  /\ \A p, q \in Reqs : Exchanging(p) /\ Exchanging(q) /\ req[p].code = req[q].code => p = q
  /\ \A r \in Reqs, t \in Rows :
       req[r].pc \in {"codeUser", "codeInsert"} => row[t].grant # req[r].code

(* Conjoined with TypeOK and the safety invariants it is inductive. *)
IInv ==
  /\ TypeOK
  /\ TablesOK
  /\ \A r \in Reqs : HandlerOK(r)
  /\ ExchangeOK
  /\ CodeUsedOnce
  /\ LinksStayInFamily
  /\ \A t \in sent : Covered(t)
=============================================================================
