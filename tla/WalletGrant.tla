---------------------------- MODULE WalletGrant ----------------------------
(***************************************************************************)
(* Wallet issuance grants (OID4VCI): exchanging a pre-authorized or an     *)
(* authorization code for a grant, rotating the wallet refresh token,      *)
(* issuing the credential at once or as a deferred transaction, approving  *)
(* and delivering the deferred credential.                                 *)
(*                                                                         *)
(* Every handler reads some rows without a lock (the preview), then opens  *)
(* a transaction, locks the grant row (or, before there is a grant, the    *)
(* row of the offer or of the code), checks everything again and commits.  *)
(* A handler therefore takes three steps here: Start..., Lock..., and      *)
(* Commit...; what a transaction writes becomes visible when it commits.   *)
(* In between anything may fail, which rolls the transaction back.         *)
(*                                                                         *)
(* An offer names its grant and its deferred transaction: the tables have  *)
(* a unique index on offer_id.  A token response is named by a number; it  *)
(* stands for the access token and, if the grant allows deferral, the      *)
(* refresh token of that response.                                         *)
(*                                                                         *)
(* A request that fails client authentication, the DPoP or mTLS binding or *)
(* the attestation status is refused before anything is written, or rolls  *)
(* back, so only requests of the grant's own wallet are modelled.          *)
(***************************************************************************)
EXTENDS Naturals, FiniteSets

CONSTANTS
  Offers,      \* credential offers
  Reqs,        \* request slots: handlers that can be in flight at once
  MaxTok,      \* bound: token responses ever committed
  OfferTTL,    \* lifetime of an offer or a code, in clock ticks
  AccessTTL,   \* walletAccessLifetime
  GrantTTL,    \* walletGrantLifetime
  MaxTime      \* bound on the clock

ASSUME WalletConstants ==
  /\ Offers # {}
  /\ MaxTok \in Nat \ {0}
  /\ OfferTTL \in Nat
  /\ AccessTTL \in Nat
  /\ GrantTTL \in Nat
  /\ MaxTime \in Nat

VARIABLES
  now,         \* the clock
  codeOffers,  \* the offers that stand for an authorization code of the wallet
  eligible,    \* organisation, user, client and configuration are active
  cfgDeferred, \* credential_configs.deferred_issuance
  status,      \* credential_offers.status; "issued" until it is exchanged
  offerExp,    \* credential_offers.expires_at
  grant,       \* whether the wallet_issuance_grants row exists
  deferred,    \* deferred_allowed of the grant
  deadline,    \* expires_at of the grant
  revoked,     \* grants with revoked_at IS NOT NULL
  closed,      \* grants with closed_at IS NOT NULL
  ntok,        \* token responses so far
  tok,         \* offer and access-token expiry of each response
  spent,       \* responses whose refresh token has used_at IS NOT NULL
  dc,          \* the offer's row of deferred_credentials
  released,    \* credential responses committed for the offer (history)
  replayed,    \* grants whose spent refresh token was seen again (history)
  req          \* the locals of each handler

vars == <<now, codeOffers, eligible, cfgDeferred, status, offerExp, grant, deferred, deadline,
          revoked, closed, ntok, tok, spent, dc, released, replayed, req>>

world == <<now, codeOffers, eligible, cfgDeferred>>
offers == <<status, offerExp>>
grants == <<grant, deferred, deadline, revoked, closed>>
tokens == <<ntok, tok, spent>>
issuance == <<dc, released>>

Tok == 1..MaxTok
NoTok == 0
Known == 1..ntok

Ops == {"none", "exchange", "codeReplay", "burn", "refresh", "replay",
        "credential", "retrieve", "approve"}

Req == [op : Ops, pc : {"idle", "lock", "commit"}, offer : Offers,
        tok : 0..MaxTok, deferred : BOOLEAN]

AnyOffer == CHOOSE o \in Offers : TRUE
IdleReq == [op |-> "none", pc |-> "idle", offer |-> AnyOffer,
            tok |-> NoTok, deferred |-> FALSE]

(* The types of the tables and of the locals of the handlers; only tokens  *)
(* that were handed out are ever spent.                                    *)
TypeOK ==
  /\ now \in 0..MaxTime
  /\ codeOffers \subseteq Offers
  /\ eligible \in [Offers -> BOOLEAN]
  /\ cfgDeferred \in [Offers -> BOOLEAN]
  /\ status \in [Offers -> {"issued", "pending", "used"}]
  /\ offerExp \in [Offers -> Nat]
  /\ grant \in [Offers -> {"none", "live", "deleted"}]
  /\ deferred \in [Offers -> BOOLEAN]
  /\ deadline \in [Offers -> Nat]
  /\ revoked \subseteq Offers
  /\ closed \subseteq Offers
  /\ ntok \in 0..MaxTok
  /\ tok \in [Tok -> [offer : Offers, exp : Nat]]
  /\ spent \subseteq Known
  /\ dc \in [Offers -> {"none", "pending", "completed", "delivered"}]
  /\ released \in [Offers -> Nat]
  /\ replayed \subseteq Offers
  /\ req \in [Reqs -> Req]

Init ==
  /\ now = 0
  /\ codeOffers \in SUBSET Offers
  /\ eligible = [o \in Offers |-> TRUE]
  /\ cfgDeferred \in [Offers -> BOOLEAN]
  /\ status = [o \in Offers |-> "issued"]
  /\ offerExp = [o \in Offers |-> OfferTTL]
  /\ grant = [o \in Offers |-> "none"]
  /\ deferred = [o \in Offers |-> FALSE]
  /\ deadline = [o \in Offers |-> 0]
  /\ revoked = {}
  /\ closed = {}
  /\ ntok = 0
  /\ tok = [p \in Tok |-> [offer |-> AnyOffer, exp |-> 0]]
  /\ spent = {}
  /\ dc = [o \in Offers |-> "none"]
  /\ released = [o \in Offers |-> 0]
  /\ replayed = {}
  /\ req = [r \in Reqs |-> IdleReq]

(***************************************************************************)
(* Handlers and their transactions.                                        *)
(***************************************************************************)

At(r, op, l) == req[r].op = op /\ req[r].pc = l

Start(r, op, o, p, d) ==
  /\ req[r].pc = "idle"
  /\ req' = [req EXCEPT ![r] =
               [op |-> op, pc |-> "lock", offer |-> o, tok |-> p, deferred |-> d]]

Finish(r) == req' = [req EXCEPT ![r] = IdleReq]
Continue(r) == req' = [req EXCEPT ![r].pc = "commit"]

(* Mutant: an early return without the deferred tx.Rollback. *)
ContinueIfLeaky(r, check) ==
  \/ check /\ Continue(r)
  \/ ~check /\ req' = [req EXCEPT ![r].op = "none", ![r].pc = "commit"]

(* The checks under the lock pass, or the handler answers an error. *)
ContinueIf(r, check) ==
  \/ check /\ Continue(r)
  \/ ~check /\ Finish(r)

(* A transaction in progress holds the row lock of its offer's grant. *)
Locked(o) == \E r \in Reqs : req[r].pc = "commit" /\ req[r].offer = o

(* All but the revocations also lock the row of the offer, and hold SHARE  *)
(* locks on the organisation, the user, the client and the configuration.  *)
SharedLocked(o) ==
  \E r \in Reqs :
    /\ req[r].pc = "commit"
    /\ req[r].offer = o
    /\ req[r].op \notin {"codeReplay", "replay"}

(* Mutant: the grant is read without FOR UPDATE. *)
AcquireUnlocked(r, op) == At(r, op, "lock")

(* The row lock is free and handler r, waiting in op, gets it. *)
Acquire(r, op) == At(r, op, "lock") /\ ~Locked(req[r].offer)

(***************************************************************************)
(* Statements of the repository.                                           *)
(***************************************************************************)

Least(a, b) == IF a < b THEN a ELSE b

(* Keeps the handlers in flight from running into the bound. *)
RoomForTokens ==
  ntok + Cardinality({r \in Reqs : req[r].op \in {"exchange", "refresh"}}) < MaxTok

(* AddWalletToken caps the access token at the deadline d of the grant. *)
AddTokens(o, d) ==
  /\ ntok < MaxTok
  /\ ntok' = ntok + 1
  /\ tok' = [tok EXCEPT ![ntok + 1] = [offer |-> o, exp |-> Least(now + AccessTTL, d)]]

(* CheckWalletEligibility, on a grant that exists. *)
CheckEligible(o) == o \notin revoked /\ now < deadline[o] /\ eligible[o]

(* GetOfferByAccessToken finds the offer of access token p. *)
AccessLive(p) ==
  LET o == tok[p].offer
  IN  /\ grant[o] = "live"
      /\ o \notin revoked
      /\ now < deadline[o]
      /\ now < tok[p].exp

(* DeferredRetrievable; the row expires with the grant. *)
Retrievable(o) == dc[o] \in {"pending", "completed"} /\ now < deadline[o]

(***************************************************************************)
(* Token endpoint: exchange of a pre-authorized or an authorization code.  *)
(***************************************************************************)

(* A pre-authorized code is looked at first; an authorization code is      *)
(* consumed by the first statement of the transaction.  The configuration  *)
(* is read without a lock.                                                 *)
StartExchange(r, o) ==
  /\ RoomForTokens
  /\ o \in codeOffers \/ (status[o] = "issued" /\ now < offerExp[o])
  /\ Start(r, "exchange", o, NoTok, cfgDeferred[o])
  /\ UNCHANGED <<world, offers, grants, tokens, issuance, replayed>>

(* SetOfferAccessToken or ConsumeWalletAuthorizationCode, both conditional *)
(* on the row being unused, then CheckWalletEligibility.  A used           *)
(* authorization code turns the request into a replay.                     *)
LockExchange(r) ==
  LET o == req[r].offer
      replay == o \in codeOffers /\ status[o] # "issued"
  IN  /\ Acquire(r, "exchange")
      /\ \/ /\ replay
            /\ req' = [req EXCEPT ![r].op = "codeReplay"]
         \/ /\ ~replay
            /\ ContinueIf(r, status[o] = "issued" /\ now < offerExp[o] /\ eligible[o])
      /\ UNCHANGED <<world, offers, grants, tokens, issuance, replayed>>

(* CreateWalletGrant and the first token response.  The code flow inserts  *)
(* an offer that lives as long as the grant.                               *)
CommitExchange(r) ==
  LET o == req[r].offer
      d == req[r].deferred
      exp == IF d THEN now + GrantTTL
             ELSE IF o \in codeOffers THEN now + AccessTTL
             ELSE offerExp[o]
  IN  /\ At(r, "exchange", "commit")
      /\ status' = [status EXCEPT ![o] = "pending"]
      /\ offerExp' = [offerExp EXCEPT ![o] = IF o \in codeOffers THEN exp ELSE @]
      /\ grant' = [grant EXCEPT ![o] = "live"]
      /\ deferred' = [deferred EXCEPT ![o] = d]
      /\ deadline' = [deadline EXCEPT ![o] = exp]
      /\ AddTokens(o, exp)
      /\ Finish(r)
      /\ UNCHANGED <<world, revoked, closed, spent, issuance, replayed>>

(* LockWalletGrantForCode. *)
LockCodeReplay(r) ==
  /\ Acquire(r, "codeReplay")
  /\ ContinueIf(r, grant[req[r].offer] = "live")
  /\ UNCHANGED <<world, offers, grants, tokens, issuance, replayed>>

CommitCodeReplay(r) ==
  /\ At(r, "codeReplay", "commit")
  /\ revoked' = revoked \cup {req[r].offer}
  /\ Finish(r)
  /\ UNCHANGED <<world, offers, grant, deferred, deadline, closed, tokens, issuance, replayed>>

(* The last wrong tx_code burns the offer: the handler saw it unexchanged, *)
(* the statement only asks that its status is still 'pending'.             *)
StartBurn(r, o) ==
  /\ o \notin codeOffers
  /\ status[o] = "issued" /\ now < offerExp[o]
  /\ Start(r, "burn", o, NoTok, FALSE)
  /\ UNCHANGED <<world, offers, grants, tokens, issuance, replayed>>

MarkOfferUsed(o) == status' = [status EXCEPT ![o] = "used"]

Burn(r) ==
  LET o == req[r].offer
  IN  /\ At(r, "burn", "lock") /\ ~SharedLocked(o)
      /\ \/ status[o] # "used" /\ MarkOfferUsed(o)
         \/ status[o] = "used" /\ UNCHANGED status
      /\ Finish(r)
      /\ UNCHANGED <<world, offerExp, grants, tokens, issuance, replayed>>

(***************************************************************************)
(* Token endpoint: refresh_token.                                          *)
(***************************************************************************)

(* Mutant: the hash of the presented token is not kept. *)
StartRefreshNoHash(r, p) ==
  LET o == tok[p].offer
  IN  /\ RoomForTokens
      /\ p \in Known /\ deferred[o] /\ grant[o] = "live"
      /\ Start(r, "refresh", o, NoTok, FALSE)
      /\ UNCHANGED <<world, offers, grants, tokens, issuance, replayed>>

(* The preview finds spent tokens and tokens of dead grants as well. *)
StartRefresh(r, p) ==
  LET o == tok[p].offer
  IN  /\ RoomForTokens
      /\ p \in Known /\ deferred[o] /\ grant[o] = "live"
      /\ Start(r, "refresh", o, p, FALSE)
      /\ UNCHANGED <<world, offers, grants, tokens, issuance, replayed>>

LockRefresh(r) ==
  LET o == req[r].offer
      p == req[r].tok
      open == grant[o] = "live" /\ o \notin revoked /\ o \notin closed /\ now < deadline[o]
      usable == \/ status[o] = "pending" /\ now < offerExp[o]
                \/ status[o] = "used" /\ Retrievable(o)
  IN  /\ Acquire(r, "refresh")
      /\ \/ /\ open /\ p \in spent
            /\ req' = [req EXCEPT ![r].op = "replay", ![r].pc = "commit"]
            /\ UNCHANGED replayed
         \/ /\ open /\ p \notin spent
            /\ ContinueIf(r, CheckEligible(o) /\ usable)
            /\ UNCHANGED replayed
         \/ /\ ~open
            /\ Finish(r)
            /\ replayed' = IF p \in spent THEN replayed \cup {o} ELSE replayed
      /\ UNCHANGED <<world, offers, grants, tokens, issuance>>

(* Mutant: the presented token is not spent. *)
CommitRefreshUnspent(r) ==
  LET o == req[r].offer
  IN  /\ At(r, "refresh", "commit")
      /\ AddTokens(o, deadline[o])
      /\ Finish(r)
      /\ UNCHANGED <<world, offers, grants, spent, issuance, replayed>>

(* ConsumeWalletRefresh and the next token response, in one transaction. *)
CommitRefresh(r) ==
  LET o == req[r].offer
  IN  /\ At(r, "refresh", "commit")
      /\ spent' = spent \cup {req[r].tok}
      /\ AddTokens(o, deadline[o])
      /\ Finish(r)
      /\ UNCHANGED <<world, offers, grants, issuance, replayed>>

(* RevokeWalletGrant. *)
CommitReplay(r) ==
  LET o == req[r].offer
  IN  /\ At(r, "replay", "commit")
      /\ revoked' = revoked \cup {o}
      /\ replayed' = replayed \cup {o}
      /\ Finish(r)
      /\ UNCHANGED <<world, offers, grant, deferred, deadline, closed, tokens, issuance>>

(***************************************************************************)
(* Credential and batch credential endpoints.                              *)
(***************************************************************************)

StartCredential(r, p) ==
  LET o == tok[p].offer
  IN  /\ p \in Known /\ AccessLive(p)
      /\ status[o] # "used" /\ now < offerExp[o]
      /\ Start(r, "credential", o, p, cfgDeferred[o])
      /\ UNCHANGED <<world, offers, grants, tokens, issuance, replayed>>

(* Mutant: the configuration decides on deferral, not the grant. *)
LockCredentialByConfig(r) ==
  LET o == req[r].offer
  IN  /\ Acquire(r, "credential")
      /\ ContinueIf(r, /\ status[o] = "pending" /\ now < offerExp[o]
                       /\ AccessLive(req[r].tok) /\ CheckEligible(o))
      /\ UNCHANGED <<world, offers, grants, tokens, issuance, replayed>>

(* LockIssuanceOffer, and the test of deferred_allowed that follows it. *)
LockCredential(r) ==
  LET o == req[r].offer
  IN  /\ Acquire(r, "credential")
      /\ ContinueIf(r, /\ status[o] = "pending" /\ now < offerExp[o]
                       /\ AccessLive(req[r].tok) /\ CheckEligible(o)
                       /\ req[r].deferred => deferred[o])
      /\ UNCHANGED <<world, offers, grants, tokens, issuance, replayed>>

(* A deferred transaction is recorded, or the credential is signed and     *)
(* returned; either way the offer is used up.                              *)
CommitCredential(r) ==
  LET o == req[r].offer
  IN  /\ At(r, "credential", "commit")
      /\ \/ /\ req[r].deferred
            /\ dc' = [dc EXCEPT ![o] = "pending"]
            /\ UNCHANGED released
         \/ /\ ~req[r].deferred
            /\ released' = [released EXCEPT ![o] = @ + 1]
            /\ UNCHANGED dc
      /\ MarkOfferUsed(o)
      /\ Finish(r)
      /\ UNCHANGED <<world, offerExp, grants, tokens, replayed>>

(***************************************************************************)
(* Deferred credentials: approval by an administrator, delivery.           *)
(***************************************************************************)

StartApprove(r, o) ==
  /\ dc[o] = "pending" /\ now < deadline[o]
  /\ Start(r, "approve", o, NoTok, FALSE)
  /\ UNCHANGED <<world, offers, grants, tokens, issuance, replayed>>

(* A grant that was deleted is not taken for a legacy offer: the offer     *)
(* keeps wallet_grant_version = 1.                                         *)
LockApprove(r) ==
  LET o == req[r].offer
  IN  /\ Acquire(r, "approve")
      /\ ContinueIf(r, /\ grant[o] = "live" /\ deferred[o] /\ o \notin closed
                       /\ CheckEligible(o) /\ dc[o] = "pending")
      /\ UNCHANGED <<world, offers, grants, tokens, issuance, replayed>>

CommitApprove(r) ==
  /\ At(r, "approve", "commit")
  /\ dc' = [dc EXCEPT ![req[r].offer] = "completed"]
  /\ Finish(r)
  /\ UNCHANGED <<world, offers, grants, tokens, released, replayed>>

StartRetrieve(r, p) ==
  /\ p \in Known /\ AccessLive(p)
  /\ Start(r, "retrieve", tok[p].offer, p, FALSE)
  /\ UNCHANGED <<world, offers, grants, tokens, issuance, replayed>>

(* Mutant: delivered_at is not looked at. *)
LockRetrieveDelivered(r) ==
  LET o == req[r].offer
  IN  /\ Acquire(r, "retrieve")
      /\ ContinueIf(r, AccessLive(req[r].tok) /\ CheckEligible(o)
                       /\ dc[o] \in {"completed", "delivered"})
      /\ UNCHANGED <<world, offers, grants, tokens, issuance, replayed>>

(* A transaction that is still pending is answered with 202. *)
LockRetrieve(r) ==
  LET o == req[r].offer
  IN  /\ Acquire(r, "retrieve")
      /\ ContinueIf(r, AccessLive(req[r].tok) /\ CheckEligible(o) /\ dc[o] = "completed")
      /\ UNCHANGED <<world, offers, grants, tokens, issuance, replayed>>

(* ConsumeDeferredDelivery, CloseWalletGrant, and the response after the   *)
(* commit.                                                                 *)
CommitRetrieve(r) ==
  LET o == req[r].offer
  IN  /\ At(r, "retrieve", "commit")
      /\ dc' = [dc EXCEPT ![o] = "delivered"]
      /\ closed' = closed \cup {o}
      /\ released' = [released EXCEPT ![o] = @ + 1]
      /\ Finish(r)
      /\ UNCHANGED <<world, offers, grant, deferred, deadline, revoked, tokens, replayed>>

(***************************************************************************)
(* The environment.                                                        *)
(***************************************************************************)

(* A statement fails, the request is cancelled or times out, the issuance  *)
(* webhook denies, a nonce was used, the replica dies.                     *)
Rollback(r) ==
  /\ req[r].pc # "idle"
  /\ Finish(r)
  /\ UNCHANGED <<world, offers, grants, tokens, issuance, replayed>>

(* An administrator disables or enables the user, the client, ...; the     *)
(* UPDATE waits for the SHARE locks.                                       *)
SetEligible(o) ==
  /\ ~SharedLocked(o)
  /\ eligible' = [eligible EXCEPT ![o] = ~@]
  /\ UNCHANGED <<now, codeOffers, cfgDeferred, offers, grants, tokens, issuance, replayed, req>>

(* No endpoint writes deferred_issuance; an operator does, in the database. *)
SetDeferredIssuance(o) ==
  /\ ~SharedLocked(o)
  /\ cfgDeferred' = [cfgDeferred EXCEPT ![o] = ~@]
  /\ UNCHANGED <<now, codeOffers, eligible, offers, grants, tokens, issuance, replayed, req>>

(* Deleting the user cascades to the grant and its tokens. *)
DeleteUser(o) ==
  /\ grant[o] = "live" /\ ~Locked(o)
  /\ grant' = [grant EXCEPT ![o] = "deleted"]
  /\ UNCHANGED <<world, offers, deferred, deadline, revoked, closed, tokens, issuance,
                 replayed, req>>

Tick ==
  /\ now < MaxTime
  /\ now' = now + 1
  /\ UNCHANGED <<codeOffers, eligible, cfgDeferred, offers, grants, tokens, issuance, replayed, req>>

LockStep(r) ==
  \/ LockExchange(r) \/ LockCodeReplay(r) \/ Burn(r) \/ LockRefresh(r)
  \/ LockCredential(r) \/ LockApprove(r) \/ LockRetrieve(r)

CommitStep(r) ==
  \/ CommitExchange(r) \/ CommitCodeReplay(r) \/ CommitRefresh(r) \/ CommitReplay(r)
  \/ CommitCredential(r) \/ CommitApprove(r) \/ CommitRetrieve(r)

Next ==
  \/ Tick
  \/ \E o \in Offers : SetEligible(o) \/ SetDeferredIssuance(o) \/ DeleteUser(o)
  \/ \E r \in Reqs :
       \/ \E o \in Offers : StartExchange(r, o) \/ StartBurn(r, o) \/ StartApprove(r, o)
       \/ \E p \in Tok : StartRefresh(r, p) \/ StartCredential(r, p) \/ StartRetrieve(r, p)
       \/ LockStep(r) \/ CommitStep(r) \/ Rollback(r)

Spec == Init /\ [][Next]_vars

(***************************************************************************)
(* Fairness.  A transaction that holds its locks runs to its end, and a    *)
(* handler that waits for a row lock gets it after the earlier ones:       *)
(* PostgreSQL queues the waiters of a row.  Nothing is assumed of wallets, *)
(* administrators or failures.                                             *)
(***************************************************************************)
Fairness == \A r \in Reqs : SF_vars(LockStep(r)) /\ WF_vars(CommitStep(r))

FairSpec == Spec /\ Fairness

(***************************************************************************)
(* Properties.                                                             *)
(***************************************************************************)

TokensOf(o) == {p \in Known : tok[p].offer = o}

(* What the wallet of offer o has obtained so far. *)
Obtained(o) == <<TokensOf(o), dc[o], released[o]>>

(* "Concurrent use has one winner": rotation never leaves two refresh      *)
(* tokens of one grant unspent, because refreshWalletGrant spends the old  *)
(* token and inserts the new one in one transaction.  "Reuse of a spent    *)
(* refresh token revokes the entire grant family": once it has answered a  *)
(* reuse, the grant is of no more use, whichever other requests were in    *)
(* flight.                                                                 *)
OneUnspentRefresh ==
  /\ \A p, q \in Known \ spent : tok[p].offer = tok[q].offer => p = q
  /\ \A o \in replayed :
       \/ grant[o] # "live"
       \/ o \in revoked
       \/ o \in closed
       \/ now >= deadline[o]

(* A grant that RevokeWalletGrant revoked, or whose user was deleted,      *)
(* yields nothing more: no token, no deferred transaction, no approval and *)
(* no credential, not even to a handler that had passed its checks.  The   *)
(* same holds while the user, client, organisation or configuration is     *)
(* disabled: LockWalletEligibility's SHARE locks hold the decision until   *)
(* the transaction commits.                                                *)
DeadGrantIsInert ==
  [][\A o \in Offers :
       (o \in revoked \/ grant[o] = "deleted" \/ ~eligible[o]) =>
         Obtained(o)' = Obtained(o)]_vars

(* "Rotation does not slide that deadline", "never changes the offer back  *)
(* to pending" and "Changing a configuration afterward does not silently   *)
(* add deferred rights to the original grant".                             *)
RightsNeverGrow ==
  [][\A o \in Offers :
       grant[o] # "none" =>
         /\ deadline'[o] = deadline[o]
         /\ deferred'[o] = deferred[o]
         /\ status[o] = "used" => status'[o] = "used"
         /\ dc'[o] # "none" => deferred[o]
         /\ \A p \in TokensOf(o)' : tok'[p].exp <= deadline[o]]_vars

(* An offer is a single-use authorization: whether the credential is       *)
(* issued at once or approved, polled for and delivered, at most one       *)
(* response carries it, and none after the grant is revoked or deleted.    *)
Abstract == INSTANCE OneShot WITH
  Grants <- Offers,
  redeemed <- released,
  void <- revoked \cup {o \in Offers : grant[o] = "deleted"}

OneCredential == Abstract!Spec

(* No handler waits for ever: every path through a handler, early returns  *)
(* and failures included, ends its transaction and releases the grant row. *)
RequestsEnd == \A r \in Reqs : (req[r].pc # "idle") ~> (req[r].pc = "idle")
=============================================================================
