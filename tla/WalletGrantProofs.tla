-------------------------- MODULE WalletGrantProofs --------------------------
(***************************************************************************)
(* Proofs for WalletGrant, for any number of offers, handlers and token    *)
(* responses and for all lifetimes.  The argument: the transaction of an   *)
(* offer has it for itself from Lock... to Commit..., so what the checks   *)
(* under the lock found is still true when the transaction writes.         *)
(***************************************************************************)
EXTENDS WalletGrant, TLAPS

Alive(o) == grant[o] = "live" /\ o \notin revoked /\ eligible[o]

(* What a handler with locals v has found, and relies on until it commits. *)
Knows(v) ==
  /\ v.op \in {"refresh", "replay", "credential", "retrieve"} =>
       v.tok \in Known /\ tok[v.tok].offer = v.offer
  /\ v.pc = "commit" =>
       /\ v.op \notin {"none", "burn"}
       /\ v.op = "exchange" => status[v.offer] = "issued" /\ eligible[v.offer]
       /\ v.op \in {"codeReplay", "replay"} => grant[v.offer] = "live"
       /\ v.op \in {"refresh", "credential", "approve", "retrieve"} => Alive(v.offer)
       /\ v.op = "refresh" => v.tok \notin spent
       /\ v.op = "credential" => /\ status[v.offer] = "pending"
                                 /\ v.deferred => deferred[v.offer]
       /\ v.op = "approve" => dc[v.offer] = "pending"
       /\ v.op = "retrieve" => dc[v.offer] = "completed"

Knowledge == \A r \in Reqs : Knows(req[r])

(* The row lock of an offer has one holder. *)
Apart(v, w) == v.pc = "commit" /\ w.pc = "commit" => v.offer # w.offer
Locks == \A q, r \in Reqs : q # r => Apart(req[q], req[r])

(* What an offer has led to, by how far it got. *)
OfferOK(o) ==
  /\ status[o] = "issued" => grant[o] = "none"
  /\ grant[o] = "none" => dc[o] = "none" /\ o \notin revoked /\ o \notin replayed
  /\ status[o] # "used" => dc[o] = "none" /\ released[o] = 0
  /\ dc[o] \in {"pending", "completed"} => released[o] = 0
  /\ dc[o] # "none" => deferred[o]

TokenOK(p) == grant[tok[p].offer] # "none" /\ tok[p].exp <= deadline[tok[p].offer]

Rows == (\A o \in Offers : OfferOK(o)) /\ (\A p \in Known : TokenOK(p))

IInv == TypeOK /\ Knowledge /\ Locks /\ Rows /\ OneUnspentRefresh

LEMMA Typed ==
  ASSUME IInv, NEW r \in Reqs
  PROVE  req[r] \in Req /\ req[r].offer \in Offers /\ Knows(req[r]) /\ OfferOK(req[r].offer)
BY DEF IInv, TypeOK, Req, Knowledge, Rows

LEMMA IdleOK == IdleReq \in Req /\ IdleReq.pc = "idle" /\ IdleReq.op = "none"
<1>1. AnyOffer \in Offers
  BY WalletConstants DEF AnyOffer
<1> QED  BY <1>1, WalletConstants DEF IdleReq, Req, Ops, NoTok

LEMMA InitOK == Init => IInv
<1> SUFFICES ASSUME Init PROVE IInv
  OBVIOUS
<1>1. AnyOffer \in Offers /\ Known = {}
  BY WalletConstants DEF AnyOffer, Known, Init
<1>2. TypeOK
  BY <1>1, IdleOK, WalletConstants DEF Init, TypeOK
<1>3. \A r \in Reqs : req[r] = IdleReq
  BY DEF Init
<1>4. Knowledge /\ Locks
  BY <1>3, IdleOK DEF Knowledge, Knows, Locks, Apart
<1>5. Rows /\ OneUnspentRefresh
  BY <1>1 DEF Init, Rows, OfferOK, OneUnspentRefresh
<1> QED  BY <1>2, <1>4, <1>5 DEF IInv

(***************************************************************************)
(* Steps that write nothing but the locals of a handler.                   *)
(***************************************************************************)

(* Handler r goes on with locals v. *)
LEMMA LocalStep ==
  ASSUME IInv, NEW r \in Reqs, NEW v \in Req, req' = [req EXCEPT ![r] = v],
         UNCHANGED <<world, offers, grants, tokens, issuance, replayed>>,
         Knows(v), \A q \in Reqs \ {r} : Apart(v, req[q])
  PROVE  IInv'
<1> USE DEF world, offers, grants, tokens, issuance
<1>1. req'[r] = v /\ \A q \in Reqs \ {r} : req'[q] = req[q]
  BY DEF IInv, TypeOK
<1>2. TypeOK'
  BY DEF IInv, TypeOK, Known
<1>3. Knowledge'
  <2> SUFFICES ASSUME NEW q \in Reqs PROVE Knows(req[q])'
    BY DEF Knowledge
  <2>1. Knows(req'[q])
    BY <1>1 DEF IInv, Knowledge
  <2> QED  BY <2>1 DEF Knows, Known, Alive
<1>4. Locks'
  BY <1>1 DEF IInv, Locks, Apart
<1>5. Rows' /\ OneUnspentRefresh'
  BY DEF IInv, Rows, OfferOK, TokenOK, OneUnspentRefresh, Known
<1> QED  BY <1>2, <1>3, <1>4, <1>5 DEF IInv

LEMMA FinishStep ==
  ASSUME IInv, NEW r \in Reqs, Finish(r),
         UNCHANGED <<world, offers, grants, tokens, issuance, replayed>>
  PROVE  IInv'
<1>1. Knows(IdleReq) /\ \A q \in Reqs : Apart(IdleReq, req[q])
  BY IdleOK DEF Knows, Apart
<1> QED  BY <1>1, IdleOK, LocalStep DEF Finish

LEMMA StartStep ==
  ASSUME IInv, NEW r \in Reqs, NEW op \in Ops, NEW o \in Offers, NEW p \in 0..MaxTok,
         NEW d \in BOOLEAN, Start(r, op, o, p, d),
         op \in {"refresh", "replay", "credential", "retrieve"} => p \in Known /\ tok[p].offer = o,
         UNCHANGED <<world, offers, grants, tokens, issuance, replayed>>
  PROVE  IInv'
<1> DEFINE v == [op |-> op, pc |-> "lock", offer |-> o, tok |-> p, deferred |-> d]
<1>1. v \in Req /\ v.pc = "lock" /\ v.op = op /\ v.tok = p /\ v.offer = o
  BY DEF Req
<1>2. req' = [req EXCEPT ![r] = v]
  BY DEF Start
<1> HIDE DEF v
<1>3. Knows(v) /\ \A q \in Reqs : Apart(v, req[q])
  BY <1>1 DEF Knows, Apart
<1> QED  BY <1>1, <1>2, <1>3, LocalStep

LEMMA StartsOK ==
  ASSUME IInv, NEW r \in Reqs,
         \/ \E o \in Offers : StartExchange(r, o) \/ StartBurn(r, o) \/ StartApprove(r, o)
         \/ \E p \in Tok : StartRefresh(r, p) \/ StartCredential(r, p) \/ StartRetrieve(r, p)
  PROVE  IInv'
<1>1. /\ \A o \in Offers : cfgDeferred[o] \in BOOLEAN
      /\ \A p \in Tok : tok[p].offer \in Offers /\ p \in 0..MaxTok
      /\ NoTok \in 0..MaxTok
  BY WalletConstants DEF IInv, TypeOK, Tok, NoTok
<1>2. {"exchange", "burn", "refresh", "credential", "retrieve", "approve"} \subseteq Ops
  BY DEF Ops
<1>3. CASE \E o \in Offers : StartExchange(r, o)
  BY <1>1, <1>2, <1>3, StartStep DEF StartExchange
<1>4. CASE \E o \in Offers : StartBurn(r, o)
  BY <1>1, <1>2, <1>4, StartStep DEF StartBurn
<1>5. CASE \E o \in Offers : StartApprove(r, o)
  BY <1>1, <1>2, <1>5, StartStep DEF StartApprove
<1>6. CASE \E p \in Tok : StartRefresh(r, p)
  BY <1>1, <1>2, <1>6, StartStep DEF StartRefresh
<1>7. CASE \E p \in Tok : StartCredential(r, p)
  BY <1>1, <1>2, <1>7, StartStep DEF StartCredential
<1>8. CASE \E p \in Tok : StartRetrieve(r, p)
  BY <1>1, <1>2, <1>8, StartStep DEF StartRetrieve
<1> QED  BY <1>3, <1>4, <1>5, <1>6, <1>7, <1>8

(* Handler r gets the lock, and continues if what it has to know is true. *)
LEMMA ContinueStep ==
  ASSUME IInv, NEW r \in Reqs, NEW op, Acquire(r, op), NEW check, ContinueIf(r, check),
         UNCHANGED <<world, offers, grants, tokens, issuance, replayed>>,
         check => Knows([req[r] EXCEPT !.pc = "commit"])
  PROVE  IInv'
<1>1. CASE Finish(r)
  BY <1>1, FinishStep
<1>2. CASE check /\ Continue(r)
  <2> DEFINE v == [req[r] EXCEPT !.pc = "commit"]
  <2>1. req[r] \in Req
    BY Typed
  <2>2. v \in Req /\ v.pc = "commit" /\ v.offer = req[r].offer
    BY <2>1 DEF Req
  <2>3. req' = [req EXCEPT ![r] = v] /\ Knows(v)
    BY <1>2 DEF Continue
  <2> HIDE DEF v
  <2>4. \A q \in Reqs \ {r} : Apart(v, req[q])
    BY <2>2 DEF Acquire, Locked, Apart
  <2> QED  BY <2>2, <2>3, <2>4, LocalStep
<1> QED  BY <1>1, <1>2 DEF ContinueIf

(* The locals of a handler that has got its lock. *)
LEMMA GotLock ==
  ASSUME IInv, NEW r \in Reqs, NEW op, Acquire(r, op)
  PROVE  /\ req[r] \in Req /\ req[r].op = op /\ req[r].pc = "lock" /\ Knows(req[r])
         /\ [req[r] EXCEPT !.pc = "commit"].pc = "commit"
         /\ [req[r] EXCEPT !.pc = "commit"].op = op
         /\ [req[r] EXCEPT !.pc = "commit"].offer = req[r].offer
         /\ [req[r] EXCEPT !.pc = "commit"].tok = req[r].tok
         /\ [req[r] EXCEPT !.pc = "commit"].deferred = req[r].deferred
BY Typed DEF Acquire, At, Req

LEMMA LockExchangeStep ==
  ASSUME IInv, NEW r \in Reqs, LockExchange(r)
  PROVE  IInv'
<1> DEFINE o == req[r].offer
           v == [req[r] EXCEPT !.pc = "commit"]
           w == [req[r] EXCEPT !.op = "codeReplay"]
<1>1. Acquire(r, "exchange") /\ UNCHANGED <<world, offers, grants, tokens, issuance, replayed>>
  BY DEF LockExchange
<1>2. CASE req' = [req EXCEPT ![r].op = "codeReplay"]
  <2>1. req[r] \in Req /\ req[r].pc = "lock"
    BY <1>1, GotLock
  <2>2. w \in Req /\ w.op = "codeReplay" /\ w.pc = "lock"
    BY <2>1 DEF Req, Ops
  <2>3. req' = [req EXCEPT ![r] = w]
    BY <1>2
  <2> HIDE DEF w
  <2>4. Knows(w) /\ \A q \in Reqs : Apart(w, req[q])
    BY <2>2 DEF Knows, Apart
  <2> QED  BY <1>1, <2>2, <2>3, <2>4, LocalStep
<1>3. CASE ContinueIf(r, status[o] = "issued" /\ now < offerExp[o] /\ eligible[o])
  <2>1. v.pc = "commit" /\ v.op = "exchange" /\ v.offer = o
    BY <1>1, GotLock
  <2> HIDE DEF v
  <2>2. status[o] = "issued" /\ eligible[o] => Knows(v)
    BY <2>1 DEF Knows
  <2> QED  BY <1>1, <1>3, <2>2, ContinueStep DEF v
<1> QED  BY <1>2, <1>3 DEF LockExchange

LEMMA LockCodeReplayStep ==
  ASSUME IInv, NEW r \in Reqs, LockCodeReplay(r)
  PROVE  IInv'
<1> DEFINE v == [req[r] EXCEPT !.pc = "commit"]
<1>1. /\ Acquire(r, "codeReplay") /\ UNCHANGED <<world, offers, grants, tokens, issuance, replayed>>
      /\ ContinueIf(r, grant[req[r].offer] = "live")
  BY DEF LockCodeReplay
<1>2. v.pc = "commit" /\ v.op = "codeReplay" /\ v.offer = req[r].offer
  BY <1>1, GotLock
<1> HIDE DEF v
<1>3. grant[req[r].offer] = "live" => Knows(v)
  BY <1>2 DEF Knows
<1> QED  BY <1>1, <1>3, ContinueStep DEF v

LEMMA LockCredentialStep ==
  ASSUME IInv, NEW r \in Reqs, LockCredential(r)
  PROVE  IInv'
<1> DEFINE o == req[r].offer
           v == [req[r] EXCEPT !.pc = "commit"]
           check == /\ status[o] = "pending" /\ now < offerExp[o]
                    /\ AccessLive(req[r].tok) /\ CheckEligible(o)
                    /\ req[r].deferred => deferred[o]
<1>1. /\ Acquire(r, "credential") /\ UNCHANGED <<world, offers, grants, tokens, issuance, replayed>>
      /\ ContinueIf(r, check)
  BY DEF LockCredential
<1>2. /\ v.pc = "commit" /\ v.op = "credential" /\ v.offer = o /\ v.tok = req[r].tok
      /\ v.deferred = req[r].deferred
  BY <1>1, GotLock
<1>3. req[r].tok \in Known /\ tok[req[r].tok].offer = o
  BY <1>1, GotLock DEF Knows
<1> HIDE DEF v
<1>4. check => Knows(v)
  BY <1>2, <1>3 DEF Knows, Alive, AccessLive, CheckEligible
<1> HIDE DEF check
<1> QED  BY <1>1, <1>4, ContinueStep DEF v

LEMMA LockApproveStep ==
  ASSUME IInv, NEW r \in Reqs, LockApprove(r)
  PROVE  IInv'
<1> DEFINE o == req[r].offer
           v == [req[r] EXCEPT !.pc = "commit"]
           check == /\ grant[o] = "live" /\ deferred[o] /\ o \notin closed
                    /\ CheckEligible(o) /\ dc[o] = "pending"
<1>1. /\ Acquire(r, "approve") /\ UNCHANGED <<world, offers, grants, tokens, issuance, replayed>>
      /\ ContinueIf(r, check)
  BY DEF LockApprove
<1>2. v.pc = "commit" /\ v.op = "approve" /\ v.offer = o
  BY <1>1, GotLock
<1> HIDE DEF v
<1>3. check => Knows(v)
  BY <1>2 DEF Knows, Alive, CheckEligible
<1> HIDE DEF check
<1> QED  BY <1>1, <1>3, ContinueStep DEF v

LEMMA LockRetrieveStep ==
  ASSUME IInv, NEW r \in Reqs, LockRetrieve(r)
  PROVE  IInv'
<1> DEFINE o == req[r].offer
           v == [req[r] EXCEPT !.pc = "commit"]
           check == AccessLive(req[r].tok) /\ CheckEligible(o) /\ dc[o] = "completed"
<1>1. /\ Acquire(r, "retrieve") /\ UNCHANGED <<world, offers, grants, tokens, issuance, replayed>>
      /\ ContinueIf(r, check)
  BY DEF LockRetrieve
<1>2. v.pc = "commit" /\ v.op = "retrieve" /\ v.offer = o /\ v.tok = req[r].tok
  BY <1>1, GotLock
<1>3. req[r].tok \in Known /\ tok[req[r].tok].offer = o
  BY <1>1, GotLock DEF Knows
<1> HIDE DEF v
<1>4. check => Knows(v)
  BY <1>2, <1>3 DEF Knows, Alive, AccessLive, CheckEligible
<1> HIDE DEF check
<1> QED  BY <1>1, <1>4, ContinueStep DEF v

(* A reuse is recorded at once only for a grant that is of no more use. *)
LEMMA LockRefreshStep ==
  ASSUME IInv, NEW r \in Reqs, LockRefresh(r)
  PROVE  IInv'
<1> DEFINE o == req[r].offer
           p == req[r].tok
           v == [req[r] EXCEPT !.pc = "commit"]
           w == [req[r] EXCEPT !.op = "replay", !.pc = "commit"]
           open == grant[o] = "live" /\ o \notin revoked /\ o \notin closed /\ now < deadline[o]
           usable == \/ status[o] = "pending" /\ now < offerExp[o]
                     \/ status[o] = "used" /\ Retrievable(o)
           check == CheckEligible(o) /\ usable
<1>1. Acquire(r, "refresh") /\ UNCHANGED <<world, offers, grants, tokens, issuance>>
  BY DEF LockRefresh
<1>2. req[r] \in Req /\ req[r].pc = "lock" /\ p \in Known /\ tok[p].offer = o /\ o \in Offers
  BY <1>1, GotLock, Typed DEF Knows
<1>3. CASE open /\ req' = [req EXCEPT ![r].op = "replay", ![r].pc = "commit"] /\ UNCHANGED replayed
  <2>1. w \in Req /\ w.op = "replay" /\ w.pc = "commit" /\ w.offer = o /\ w.tok = p
    BY <1>2 DEF Req, Ops
  <2>2. req' = [req EXCEPT ![r] = w]
    BY <1>3
  <2> HIDE DEF w
  <2>3. Knows(w)
    BY <1>2, <1>3, <2>1 DEF Knows
  <2>4. \A q \in Reqs \ {r} : Apart(w, req[q])
    BY <1>1, <2>1 DEF Acquire, Locked, Apart
  <2> QED  BY <1>1, <1>3, <2>1, <2>2, <2>3, <2>4, LocalStep
<1>4. CASE open /\ p \notin spent /\ ContinueIf(r, check) /\ UNCHANGED replayed
  <2>1. v.pc = "commit" /\ v.op = "refresh" /\ v.offer = o /\ v.tok = p
    BY <1>1, GotLock
  <2> HIDE DEF v
  <2>2. check => Knows(v)
    BY <1>2, <1>4, <2>1 DEF Knows, Alive, CheckEligible
  <2> HIDE DEF check
  <2> QED  BY <1>1, <1>4, <2>2, ContinueStep DEF v
<1>5. CASE ~open /\ Finish(r) /\ replayed' = IF p \in spent THEN replayed \cup {o} ELSE replayed
  <2> USE DEF world, offers, grants, tokens, issuance
  <2>1. grant[o] # "none"
    BY <1>2 DEF IInv, Rows, TokenOK
  <2>2. replayed' \subseteq replayed \cup {o}
    BY <1>5
  <2>3. req' \in [Reqs -> Req] /\ req'[r] = IdleReq /\ \A q \in Reqs \ {r} : req'[q] = req[q]
    BY <1>5, IdleOK DEF IInv, TypeOK, Finish
  <2>4. TypeOK'
    BY <1>1, <1>2, <2>2, <2>3 DEF IInv, TypeOK, Known
  <2>5. Knowledge'
    BY <1>1, <2>3, IdleOK DEF IInv, Knowledge, Knows, Known, Alive
  <2>6. Locks'
    BY <2>3, IdleOK DEF IInv, Locks, Apart
  <2>7. Rows'
    BY <1>1, <2>1, <2>2 DEF IInv, Rows, OfferOK, TokenOK, Known
  <2>8. OneUnspentRefresh'
    <3>1. ~open => grant[o] # "live" \/ o \in revoked \/ o \in closed \/ now >= deadline[o]
      BY <1>2 DEF IInv, TypeOK
    <3>2. \A x \in replayed' : \/ grant'[x] # "live" \/ x \in revoked' \/ x \in closed' \/ now' >= deadline'[x]
      BY <1>1, <1>5, <2>2, <3>1 DEF IInv, OneUnspentRefresh
    <3>3. \A x, y \in Known' \ spent' : tok'[x].offer = tok'[y].offer => x = y
      BY <1>1 DEF IInv, OneUnspentRefresh, Known
    <3> QED  BY <3>2, <3>3 DEF OneUnspentRefresh
  <2> QED  BY <2>4, <2>5, <2>6, <2>7, <2>8 DEF IInv
<1> QED  BY <1>3, <1>4, <1>5 DEF LockRefresh

(***************************************************************************)
(* Commits.                                                                *)
(***************************************************************************)

(* The end of handler r, which leaves all offers but its own alone. *)
LEMMA OthersKnow ==
  ASSUME IInv, NEW r \in Reqs, req[r].pc = "commit", Finish(r), UNCHANGED eligible,
         \A x \in Offers \ {req[r].offer} :
           /\ status'[x] = status[x] /\ grant'[x] = grant[x] /\ dc'[x] = dc[x]
           /\ deferred'[x] = deferred[x] /\ (x \in revoked' <=> x \in revoked),
         Known \subseteq Known', \A p \in Known : tok'[p] = tok[p],
         \A p \in Known : tok[p].offer # req[r].offer => (p \in spent' <=> p \in spent)
  PROVE  Knowledge' /\ Locks' /\ req' \in [Reqs -> Req]
<1>1. /\ req' \in [Reqs -> Req] /\ req'[r] = IdleReq
      /\ \A q \in Reqs \ {r} : req'[q] = req[q]
  BY IdleOK DEF IInv, TypeOK, Finish
<1>2. Locks'
  BY <1>1, IdleOK DEF IInv, Locks, Apart
<1>3. Knowledge'
  <2> SUFFICES ASSUME NEW q \in Reqs PROVE Knows(req[q])'
    BY DEF Knowledge
  <2>1. CASE q = r
    BY <1>1, <2>1, IdleOK DEF Knows
  <2>2. CASE q # r
    <3>1. Knows(req[q]) /\ req'[q] = req[q] /\ req[q].offer \in Offers
      BY <1>1, <2>2, Typed
    <3>2. req[q].pc = "commit" => req[q].offer # req[r].offer
      BY <2>2 DEF IInv, Locks, Apart
    <3> HIDE DEF Known
    <3> QED  BY <3>1, <3>2 DEF Knows, Alive
  <2> QED  BY <2>1, <2>2
<1> QED  BY <1>1, <1>2, <1>3

(* AddWalletToken gives an offer whose tokens are all spent a new one. *)
LEMMA TokensAdded ==
  ASSUME IInv, NEW o \in Offers, NEW d \in Nat, AddTokens(o, d), now \in Nat
  PROVE  /\ ntok' = ntok + 1 /\ ntok' \in 0..MaxTok /\ ntok \in Nat
         /\ Known' = Known \cup {ntok'} /\ ntok' \notin Known /\ Known \subseteq Tok
         /\ tok' \in [Tok -> [offer : Offers, exp : Nat]]
         /\ \A p \in Known : tok'[p] = tok[p]
         /\ tok'[ntok'].offer = o /\ tok'[ntok'].exp <= d
<1>1. ntok \in 0..MaxTok /\ ntok < MaxTok /\ ntok' = ntok + 1
  BY DEF AddTokens, IInv, TypeOK
<1>2. Known' = Known \cup {ntok'} /\ ntok' \notin Known /\ Known \subseteq Tok /\ ntok' \in Tok
  BY <1>1, WalletConstants DEF Known, Tok
<1> DEFINE e == Least(now + AccessTTL, d)
<1>3. e \in Nat /\ e <= d
  BY WalletConstants DEF Least
<1> HIDE DEF e
<1>4. tok \in [Tok -> [offer : Offers, exp : Nat]] /\ tok' = [tok EXCEPT ![ntok'] = [offer |-> o, exp |-> e]]
  BY <1>1 DEF AddTokens, IInv, TypeOK, e
<1>5. /\ tok' \in [Tok -> [offer : Offers, exp : Nat]]
      /\ \A p \in Known : tok'[p] = tok[p]
      /\ tok'[ntok'] = [offer |-> o, exp |-> e]
  BY <1>2, <1>3, <1>4
<1> QED  BY <1>1, <1>2, <1>3, <1>5, WalletConstants

LEMMA CommitExchangeStep ==
  ASSUME IInv, NEW r \in Reqs, CommitExchange(r)
  PROVE  IInv'
<1> USE DEF world, offers, grants, tokens, issuance
<1> DEFINE o == req[r].offer
           d == req[r].deferred
           exp == IF d THEN now + GrantTTL ELSE IF o \in codeOffers THEN now + AccessTTL ELSE offerExp[o]
           exp2 == IF o \in codeOffers THEN exp ELSE offerExp[o]
<1>1. /\ req[r].op = "exchange" /\ req[r].pc = "commit"
      /\ status' = [status EXCEPT ![o] = "pending"]
      /\ offerExp' = [offerExp EXCEPT ![o] = exp2]
      /\ grant' = [grant EXCEPT ![o] = "live"]
      /\ deferred' = [deferred EXCEPT ![o] = d]
      /\ deadline' = [deadline EXCEPT ![o] = exp]
      /\ AddTokens(o, exp) /\ Finish(r)
      /\ UNCHANGED <<world, revoked, closed, spent, issuance, replayed>>
  BY DEF CommitExchange, At
<1>2. o \in Offers /\ d \in BOOLEAN /\ status[o] = "issued" /\ eligible[o] /\ OfferOK(o)
  BY <1>1, Typed DEF Knows, Req
<1>3. /\ grant[o] = "none" /\ dc[o] = "none" /\ o \notin revoked /\ o \notin replayed
      /\ released[o] = 0 /\ \A p \in Known : tok[p].offer # o
  BY <1>2 DEF OfferOK, IInv, Rows, TokenOK
<1>4. now \in Nat /\ offerExp[o] \in Nat
  BY <1>2, WalletConstants DEF IInv, TypeOK
<1>5. exp \in Nat /\ exp2 \in Nat
  BY <1>4, WalletConstants
<1> HIDE DEF exp, exp2
<1>6. /\ ntok' = ntok + 1 /\ ntok' \in 0..MaxTok /\ ntok \in Nat
      /\ Known' = Known \cup {ntok'} /\ ntok' \notin Known
      /\ tok' \in [Tok -> [offer : Offers, exp : Nat]]
      /\ \A p \in Known : tok'[p] = tok[p]
      /\ tok'[ntok'].offer = o /\ tok'[ntok'].exp <= exp
  BY <1>1, <1>2, <1>4, <1>5, TokensAdded
<1>7. /\ status' \in [Offers -> {"issued", "pending", "used"}] /\ offerExp' \in [Offers -> Nat]
      /\ grant' \in [Offers -> {"none", "live", "deleted"}] /\ deferred' \in [Offers -> BOOLEAN]
      /\ deadline' \in [Offers -> Nat]
  BY <1>1, <1>2, <1>5 DEF IInv, TypeOK
<1>8. /\ status'[o] = "pending" /\ grant'[o] = "live" /\ deadline'[o] = exp
      /\ \A x \in Offers \ {o} :
           /\ status'[x] = status[x] /\ grant'[x] = grant[x] /\ deferred'[x] = deferred[x]
           /\ deadline'[x] = deadline[x]
  BY <1>1, <1>2 DEF IInv, TypeOK
<1>9. Knowledge' /\ Locks' /\ req' \in [Reqs -> Req]
  BY <1>1, <1>6, <1>8, OthersKnow
<1>10. TypeOK'
  <2>1. spent' \subseteq Known'
    BY <1>1, <1>6 DEF IInv, TypeOK
  <2> QED  BY <2>1, <1>1, <1>6, <1>7, <1>9 DEF IInv, TypeOK
<1>11. Rows'
  <2>1. ASSUME NEW x \in Offers PROVE OfferOK(x)'
    BY <2>1, <1>1, <1>3, <1>8 DEF IInv, Rows, OfferOK
  <2>2. ASSUME NEW p \in Known' PROVE TokenOK(p)'
    <3>1. CASE p = ntok'
      BY <3>1, <1>6, <1>8 DEF TokenOK
    <3>2. CASE p \in Known
      <4>1. p \in Tok
        BY <3>2, <1>1, <1>2, <1>4, <1>5, TokensAdded
      <4>2. tok[p].offer \in Offers \ {o}
        BY <3>2, <4>1, <1>3 DEF IInv, TypeOK
      <4> QED  BY <3>2, <4>2, <1>6, <1>8 DEF IInv, Rows, TokenOK
    <3> QED  BY <2>2, <3>1, <3>2, <1>6
  <2> QED  BY <2>1, <2>2 DEF Rows
<1>12. OneUnspentRefresh'
  <2>1. \A p, q \in Known' \ spent' : tok'[p].offer = tok'[q].offer => p = q
    BY <1>1, <1>3, <1>6 DEF IInv, OneUnspentRefresh
  <2>2. \A x \in replayed' : x \in Offers \ {o}
    BY <1>1, <1>3 DEF IInv, TypeOK
  <2> QED  BY <2>1, <2>2, <1>1, <1>8 DEF IInv, OneUnspentRefresh
<1> QED  BY <1>9, <1>10, <1>11, <1>12 DEF IInv

LEMMA CommitRefreshStep ==
  ASSUME IInv, NEW r \in Reqs, CommitRefresh(r)
  PROVE  IInv'
<1> USE DEF world, offers, grants, tokens, issuance
<1> DEFINE o == req[r].offer
           p == req[r].tok
<1>1. /\ req[r].op = "refresh" /\ req[r].pc = "commit"
      /\ spent' = spent \cup {p} /\ AddTokens(o, deadline[o]) /\ Finish(r)
      /\ UNCHANGED <<world, offers, grants, issuance, replayed>>
  BY DEF CommitRefresh, At
<1>2. o \in Offers /\ p \in Known /\ tok[p].offer = o /\ p \notin spent /\ Alive(o)
  BY <1>1, Typed DEF Knows
<1>3. now \in Nat /\ deadline[o] \in Nat
  BY <1>2, WalletConstants DEF IInv, TypeOK
<1>4. /\ ntok' = ntok + 1 /\ ntok' \in 0..MaxTok /\ ntok \in Nat
      /\ Known' = Known \cup {ntok'} /\ ntok' \notin Known
      /\ tok' \in [Tok -> [offer : Offers, exp : Nat]]
      /\ \A q \in Known : tok'[q] = tok[q]
      /\ tok'[ntok'].offer = o /\ tok'[ntok'].exp <= deadline[o]
  BY <1>1, <1>2, <1>3, TokensAdded
<1>5. Knowledge' /\ Locks' /\ req' \in [Reqs -> Req]
  BY <1>1, <1>2, <1>4, OthersKnow
<1>6. TypeOK'
  <2>1. spent' \subseteq Known'
    BY <1>1, <1>2, <1>4 DEF IInv, TypeOK
  <2> QED  BY <2>1, <1>1, <1>4, <1>5 DEF IInv, TypeOK
<1>7. Rows'
  <2>1. ASSUME NEW x \in Offers PROVE OfferOK(x)'
    BY <2>1, <1>1 DEF IInv, Rows, OfferOK
  <2>2. ASSUME NEW q \in Known' PROVE TokenOK(q)'
    <3>1. CASE q = ntok'
      BY <3>1, <1>1, <1>2, <1>4 DEF TokenOK, Alive
    <3>2. CASE q \in Known
      BY <3>2, <1>1, <1>4 DEF IInv, Rows, TokenOK
    <3> QED  BY <2>2, <3>1, <3>2, <1>4
  <2> QED  BY <2>1, <2>2 DEF Rows
<1>8. OneUnspentRefresh'
  <2>1. \A q \in Known \ spent' : tok[q].offer # o
    BY <1>1, <1>2 DEF IInv, OneUnspentRefresh
  <2>2. \A q, x \in Known' \ spent' : tok'[q].offer = tok'[x].offer => q = x
    BY <2>1, <1>1, <1>4 DEF IInv, OneUnspentRefresh
  <2> QED  BY <2>2, <1>1 DEF IInv, OneUnspentRefresh
<1> QED  BY <1>5, <1>6, <1>7, <1>8 DEF IInv

(* A commit that hands out no token. *)
LEMMA NoTokenStep ==
  ASSUME IInv, NEW r \in Reqs, NEW o \in Offers, req[r].offer = o, req[r].pc = "commit", Finish(r),
         UNCHANGED <<world, offerExp, grant, deferred, deadline, tokens>>,
         status' \in [Offers -> {"issued", "pending", "used"}],
         dc' \in [Offers -> {"none", "pending", "completed", "delivered"}],
         released' \in [Offers -> Nat], revoked' \subseteq Offers, closed' \subseteq Offers,
         \A x \in Offers \ {o} :
           /\ status'[x] = status[x] /\ dc'[x] = dc[x] /\ released'[x] = released[x]
           /\ (x \in revoked' <=> x \in revoked) /\ (x \in replayed' <=> x \in replayed),
         revoked \subseteq revoked', closed \subseteq closed', replayed' \subseteq Offers,
         OfferOK(o)',
         o \in replayed' => o \in replayed \/ o \in revoked'
  PROVE  IInv'
<1> USE DEF world, tokens
<1>1. Known' = Known
  BY DEF Known
<1>2. Knowledge' /\ Locks' /\ req' \in [Reqs -> Req]
  BY <1>1, OthersKnow
<1>3. TypeOK'
  BY <1>1, <1>2 DEF IInv, TypeOK
<1>4. Rows'
  <2>1. ASSUME NEW x \in Offers PROVE OfferOK(x)'
    <3>1. CASE x = o
      BY <3>1
    <3>2. CASE x # o
      BY <3>2 DEF IInv, Rows, OfferOK
    <3> QED  BY <3>1, <3>2
  <2> QED  BY <1>1, <2>1 DEF IInv, Rows, TokenOK
<1>5. OneUnspentRefresh'
  <2>1. \A x \in replayed' : x \in Offers /\ (x \in replayed \/ x \in revoked')
    OBVIOUS
  <2> QED  BY <1>1, <2>1 DEF IInv, OneUnspentRefresh
<1> QED  BY <1>2, <1>3, <1>4, <1>5 DEF IInv

LEMMA CommitRevocationStep ==
  ASSUME IInv, NEW r \in Reqs, CommitCodeReplay(r) \/ CommitReplay(r)
  PROVE  IInv'
<1> USE DEF world, offers, tokens, issuance
<1>1. PICK o \in Offers : req[r].offer = o
  BY Typed
<1>2. /\ req[r].op \in {"codeReplay", "replay"} /\ req[r].pc = "commit" /\ Finish(r)
      /\ revoked' = revoked \cup {o}
      /\ replayed' = replayed \/ replayed' = replayed \cup {o}
      /\ UNCHANGED <<world, offers, grant, deferred, deadline, closed, tokens, issuance>>
  BY <1>1 DEF CommitCodeReplay, CommitReplay, At
<1>3. grant[o] = "live" /\ OfferOK(o)
  BY <1>1, <1>2, Typed DEF Knows
<1>4. /\ status \in [Offers -> {"issued", "pending", "used"}] /\ released \in [Offers -> Nat]
      /\ dc \in [Offers -> {"none", "pending", "completed", "delivered"}]
      /\ closed \subseteq Offers /\ replayed \subseteq Offers /\ revoked \subseteq Offers
  BY DEF IInv, TypeOK
<1>5. OfferOK(o)'
  BY <1>2, <1>3 DEF OfferOK
<1> QED  BY <1>1, <1>2, <1>4, <1>5, NoTokenStep

LEMMA CommitCredentialStep ==
  ASSUME IInv, NEW r \in Reqs, CommitCredential(r)
  PROVE  IInv'
<1> USE DEF world, grants, tokens
<1>1. PICK o \in Offers : req[r].offer = o
  BY Typed
<1>2. /\ req[r].op = "credential" /\ req[r].pc = "commit" /\ Finish(r)
      /\ status' = [status EXCEPT ![o] = "used"]
      /\ \/ /\ req[r].deferred /\ dc' = [dc EXCEPT ![o] = "pending"] /\ UNCHANGED released
         \/ /\ released' = [released EXCEPT ![o] = @ + 1] /\ UNCHANGED dc
      /\ UNCHANGED <<world, offerExp, grants, tokens, replayed>>
  BY <1>1 DEF CommitCredential, MarkOfferUsed, At
<1>3. status[o] = "pending" /\ (req[r].deferred => deferred[o]) /\ OfferOK(o) /\ Alive(o)
  BY <1>1, <1>2, Typed DEF Knows
<1>4. /\ status \in [Offers -> {"issued", "pending", "used"}] /\ released \in [Offers -> Nat]
      /\ dc \in [Offers -> {"none", "pending", "completed", "delivered"}]
      /\ closed \subseteq Offers /\ replayed \subseteq Offers /\ revoked \subseteq Offers
  BY DEF IInv, TypeOK
<1>5. /\ status' \in [Offers -> {"issued", "pending", "used"}] /\ released' \in [Offers -> Nat]
      /\ dc' \in [Offers -> {"none", "pending", "completed", "delivered"}]
  BY <1>2, <1>4
<1>6. /\ status'[o] = "used"
      /\ \/ req[r].deferred /\ dc'[o] = "pending" /\ released'[o] = released[o]
         \/ dc'[o] = dc[o]
      /\ \A x \in Offers \ {o} :
           status'[x] = status[x] /\ dc'[x] = dc[x] /\ released'[x] = released[x]
  BY <1>2, <1>4
<1>7. OfferOK(o)'
  BY <1>2, <1>3, <1>6 DEF OfferOK, Alive
<1> QED  BY <1>1, <1>2, <1>4, <1>5, <1>6, <1>7, NoTokenStep

LEMMA CommitApproveStep ==
  ASSUME IInv, NEW r \in Reqs, CommitApprove(r)
  PROVE  IInv'
<1> USE DEF world, offers, grants, tokens
<1>1. PICK o \in Offers : req[r].offer = o
  BY Typed
<1>2. /\ req[r].op = "approve" /\ req[r].pc = "commit" /\ Finish(r)
      /\ dc' = [dc EXCEPT ![o] = "completed"]
      /\ UNCHANGED <<world, offers, grants, tokens, released, replayed>>
  BY <1>1 DEF CommitApprove, At
<1>3. dc[o] = "pending" /\ OfferOK(o)
  BY <1>1, <1>2, Typed DEF Knows
<1>4. /\ status \in [Offers -> {"issued", "pending", "used"}] /\ released \in [Offers -> Nat]
      /\ dc \in [Offers -> {"none", "pending", "completed", "delivered"}]
      /\ closed \subseteq Offers /\ replayed \subseteq Offers /\ revoked \subseteq Offers
  BY DEF IInv, TypeOK
<1>5. /\ dc' \in [Offers -> {"none", "pending", "completed", "delivered"}]
      /\ dc'[o] = "completed" /\ \A x \in Offers \ {o} : dc'[x] = dc[x]
  BY <1>2, <1>4
<1>6. OfferOK(o)'
  BY <1>2, <1>3, <1>5 DEF OfferOK
<1> QED  BY <1>1, <1>2, <1>4, <1>5, <1>6, NoTokenStep

LEMMA CommitRetrieveStep ==
  ASSUME IInv, NEW r \in Reqs, CommitRetrieve(r)
  PROVE  IInv'
<1> USE DEF world, offers, grants, tokens
<1>1. PICK o \in Offers : req[r].offer = o
  BY Typed
<1>2. /\ req[r].op = "retrieve" /\ req[r].pc = "commit" /\ Finish(r)
      /\ dc' = [dc EXCEPT ![o] = "delivered"] /\ closed' = closed \cup {o}
      /\ released' = [released EXCEPT ![o] = @ + 1]
      /\ UNCHANGED <<world, offers, grant, deferred, deadline, revoked, tokens, replayed>>
  BY <1>1 DEF CommitRetrieve, At
<1>3. dc[o] = "completed" /\ OfferOK(o)
  BY <1>1, <1>2, Typed DEF Knows
<1>4. /\ status \in [Offers -> {"issued", "pending", "used"}] /\ released \in [Offers -> Nat]
      /\ dc \in [Offers -> {"none", "pending", "completed", "delivered"}]
      /\ closed \subseteq Offers /\ replayed \subseteq Offers /\ revoked \subseteq Offers
  BY DEF IInv, TypeOK
<1>5. /\ dc' \in [Offers -> {"none", "pending", "completed", "delivered"}]
      /\ released' \in [Offers -> Nat]
      /\ dc'[o] = "delivered" /\ \A x \in Offers \ {o} : dc'[x] = dc[x] /\ released'[x] = released[x]
  BY <1>2, <1>4
<1>6. OfferOK(o)'
  BY <1>2, <1>3, <1>5 DEF OfferOK
<1> QED  BY <1>1, <1>2, <1>4, <1>5, <1>6, NoTokenStep

(***************************************************************************)
(* Burning an offer, and the environment.                                  *)
(***************************************************************************)

(* The transactions that rely on an offer's status and on the eligibility  *)
(* of its parties exclude a change of either.                              *)
LEMMA Excluded ==
  ASSUME IInv, NEW o \in Offers, ~SharedLocked(o), NEW q \in Reqs,
         req[q].pc = "commit", req[q].offer = o
  PROVE  req[q].op \in {"codeReplay", "replay"}
BY DEF SharedLocked

LEMMA BurnStep ==
  ASSUME IInv, NEW r \in Reqs, Burn(r)
  PROVE  IInv'
<1> USE DEF world, grants, tokens, issuance
<1>1. PICK o \in Offers : req[r].offer = o
  BY Typed
<1>2. /\ ~SharedLocked(o) /\ Finish(r)
      /\ status' = [status EXCEPT ![o] = "used"] \/ (status[o] = "used" /\ UNCHANGED status)
      /\ UNCHANGED <<world, offerExp, grants, tokens, issuance, replayed>>
  BY <1>1 DEF Burn, MarkOfferUsed
<1>3. status \in [Offers -> {"issued", "pending", "used"}]
  BY DEF IInv, TypeOK
<1>4. /\ status' \in [Offers -> {"issued", "pending", "used"}]
      /\ status'[o] = "used" /\ \A x \in Offers \ {o} : status'[x] = status[x]
  BY <1>2, <1>3
<1>5. /\ req' \in [Reqs -> Req] /\ req'[r] = IdleReq
      /\ \A q \in Reqs \ {r} : req'[q] = req[q]
  BY <1>2, IdleOK DEF IInv, TypeOK, Finish
<1>6. TypeOK'
  BY <1>2, <1>4, <1>5 DEF IInv, TypeOK, Known
<1>7. Locks'
  BY <1>5, IdleOK DEF IInv, Locks, Apart
<1>8. Knowledge'
  <2> SUFFICES ASSUME NEW q \in Reqs PROVE Knows(req[q])'
    BY DEF Knowledge
  <2>1. CASE q = r
    BY <1>5, <2>1, IdleOK DEF Knows
  <2>2. CASE q # r
    <3>1. req'[q] = req[q] /\ Knows(req[q]) /\ req[q].offer \in Offers
      BY <1>5, <2>2, Typed
    <3>2. req[q].pc = "commit" =>
            req[q].op \in {"codeReplay", "replay"} \/ status'[req[q].offer] = status[req[q].offer]
      BY <1>2, <1>4, <3>1, Excluded
    <3> QED  BY <1>2, <3>1, <3>2 DEF Knows, Alive, Known
  <2> QED  BY <2>1, <2>2
<1>9. Rows'
  BY <1>2, <1>4 DEF IInv, Rows, OfferOK, TokenOK, Known
<1>10. OneUnspentRefresh'
  BY <1>2 DEF IInv, OneUnspentRefresh, Known
<1> QED  BY <1>6, <1>7, <1>8, <1>9, <1>10 DEF IInv

LEMMA SetEligibleStep ==
  ASSUME IInv, NEW o \in Offers, SetEligible(o) \/ SetDeferredIssuance(o)
  PROVE  IInv'
<1> USE DEF world, offers, grants, tokens, issuance
<1>1. /\ ~SharedLocked(o)
      /\ UNCHANGED <<now, codeOffers, offers, grants, tokens, issuance, replayed, req>>
      /\ eligible' \in [Offers -> BOOLEAN] /\ cfgDeferred' \in [Offers -> BOOLEAN]
      /\ \A x \in Offers \ {o} : eligible'[x] = eligible[x]
  BY DEF SetEligible, SetDeferredIssuance, IInv, TypeOK
<1>2. TypeOK'
  BY <1>1 DEF IInv, TypeOK, Known
<1>3. Knowledge'
  <2> SUFFICES ASSUME NEW q \in Reqs PROVE Knows(req[q])'
    BY DEF Knowledge
  <2>1. Knows(req[q]) /\ req[q].offer \in Offers
    BY Typed
  <2>2. req[q].pc = "commit" =>
          req[q].op \in {"codeReplay", "replay"} \/ eligible'[req[q].offer] = eligible[req[q].offer]
    BY <1>1, <2>1, Excluded
  <2> QED  BY <1>1, <2>1, <2>2 DEF Knows, Alive, Known
<1>4. Locks' /\ Rows' /\ OneUnspentRefresh'
  BY <1>1 DEF IInv, Locks, Apart, Rows, OfferOK, TokenOK, OneUnspentRefresh, Known
<1> QED  BY <1>2, <1>3, <1>4 DEF IInv

LEMMA DeleteUserStep ==
  ASSUME IInv, NEW o \in Offers, DeleteUser(o)
  PROVE  IInv'
<1> USE DEF world, offers, tokens, issuance
<1>1. /\ grant[o] = "live" /\ ~Locked(o) /\ grant' = [grant EXCEPT ![o] = "deleted"]
      /\ UNCHANGED <<world, offers, deferred, deadline, revoked, closed, tokens, issuance, replayed, req>>
  BY DEF DeleteUser
<1>2. /\ grant' \in [Offers -> {"none", "live", "deleted"}] /\ grant'[o] = "deleted"
      /\ \A x \in Offers \ {o} : grant'[x] = grant[x]
  BY <1>1 DEF IInv, TypeOK
<1>3. TypeOK'
  BY <1>1, <1>2 DEF IInv, TypeOK, Known
<1>4. Knowledge'
  <2> SUFFICES ASSUME NEW q \in Reqs PROVE Knows(req[q])'
    BY DEF Knowledge
  <2>1. Knows(req[q]) /\ req[q].offer \in Offers
    BY Typed
  <2>2. req[q].pc = "commit" => grant'[req[q].offer] = grant[req[q].offer]
    BY <1>1, <1>2, <2>1 DEF Locked
  <2> QED  BY <1>1, <2>1, <2>2 DEF Knows, Alive, Known
<1>5. Locks'
  BY <1>1 DEF IInv, Locks, Apart
<1>6. Rows'
  <2>1. \A p \in Known : tok[p].offer \in Offers
    BY WalletConstants DEF IInv, TypeOK, Known, Tok
  <2> QED  BY <1>1, <1>2, <2>1 DEF IInv, Rows, OfferOK, TokenOK, Known
<1>7. OneUnspentRefresh'
  <2>1. replayed \subseteq Offers
    BY DEF IInv, TypeOK
  <2> QED  BY <1>1, <1>2, <2>1 DEF IInv, OneUnspentRefresh, Known
<1> QED  BY <1>3, <1>4, <1>5, <1>6, <1>7 DEF IInv

LEMMA TickStep ==
  ASSUME IInv, Tick
  PROVE  IInv'
<1> USE DEF offers, grants, tokens, issuance
<1>1. /\ now' \in 0..MaxTime /\ now' = now + 1 /\ now \in Nat
      /\ UNCHANGED <<codeOffers, eligible, cfgDeferred, offers, grants, tokens, issuance, replayed, req>>
  BY WalletConstants DEF Tick, IInv, TypeOK
<1>2. TypeOK'
  BY <1>1 DEF IInv, TypeOK, Known
<1>3. Knowledge' /\ Locks' /\ Rows'
  BY <1>1 DEF IInv, Knowledge, Knows, Alive, Locks, Apart, Rows, OfferOK, TokenOK, Known
<1>4. OneUnspentRefresh'
  <2>1. replayed \subseteq Offers /\ \A o \in Offers : deadline[o] \in Nat
    BY DEF IInv, TypeOK
  <2>2. \A o \in Offers : now >= deadline[o] => now' >= deadline[o]
    BY <1>1, <2>1
  <2> QED  BY <1>1, <2>1, <2>2 DEF IInv, OneUnspentRefresh, Known
<1> QED  BY <1>2, <1>3, <1>4 DEF IInv

LEMMA StepOK == IInv /\ [Next]_vars => IInv'
<1> SUFFICES ASSUME IInv, [Next]_vars PROVE IInv'
  OBVIOUS
<1>1. CASE Tick
  BY <1>1, TickStep
<1>2. CASE \E o \in Offers : SetEligible(o) \/ SetDeferredIssuance(o) \/ DeleteUser(o)
  BY <1>2, SetEligibleStep, DeleteUserStep
<1>3. ASSUME NEW r \in Reqs, LockStep(r) PROVE IInv'
  BY <1>3, LockExchangeStep, LockCodeReplayStep, BurnStep, LockRefreshStep, LockCredentialStep,
     LockApproveStep, LockRetrieveStep DEF LockStep
<1>4. ASSUME NEW r \in Reqs, CommitStep(r) PROVE IInv'
  BY <1>4, CommitExchangeStep, CommitRevocationStep, CommitRefreshStep, CommitCredentialStep,
     CommitApproveStep, CommitRetrieveStep DEF CommitStep
<1>5. ASSUME NEW r \in Reqs, Rollback(r) PROVE IInv'
  BY <1>5, FinishStep DEF Rollback
<1>6. CASE UNCHANGED vars
  <2> USE <1>6 DEF vars, world, offers, grants, tokens, issuance
  <2>1. TypeOK' /\ Knowledge' /\ Locks'
    BY DEF IInv, TypeOK, Knowledge, Knows, Alive, Locks, Apart, Known
  <2>2. Rows' /\ OneUnspentRefresh'
    BY DEF IInv, Rows, OfferOK, TokenOK, OneUnspentRefresh, Known
  <2> QED  BY <2>1, <2>2 DEF IInv
<1> QED  BY <1>1, <1>2, <1>3, <1>4, <1>5, <1>6, StartsOK DEF Next

(* The inductive invariant: what a transaction has found under its lock    *)
(* is true until it commits.                                               *)
THEOREM Invariance == Spec => []IInv
<1>1. Init => IInv
  BY InitOK
<1>2. IInv /\ [Next]_vars => IInv'
  BY StepOK
<1> QED  BY <1>1, <1>2, PTL DEF Spec

(* The types of the tables and of the handlers' locals. *)
THEOREM TypeCorrect == Spec => []TypeOK
<1>1. IInv => TypeOK
  BY DEF IInv
<1> QED  BY <1>1, Invariance, PTL

(* refreshWalletGrant: "Concurrent use has one winner", and a reuse leaves *)
(* a grant that is of no more use.                                         *)
THEOREM RefreshHasOneWinner == Spec => []OneUnspentRefresh
<1>1. IInv => OneUnspentRefresh
  BY DEF IInv
<1> QED  BY <1>1, Invariance, PTL

(***************************************************************************)
(* What single steps do.                                                   *)
(***************************************************************************)

(* The commits that give a wallet something. *)
Gives(r) ==
  \/ CommitExchange(r) \/ CommitRefresh(r) \/ CommitCredential(r) \/ CommitApprove(r)
  \/ CommitRetrieve(r)

LEMMA OnlyCommitsGive ==
  ASSUME [Next]_vars, ~UNCHANGED <<tokens, issuance>>
  PROVE  \E r \in Reqs : Gives(r)
<1> USE DEF world, offers, grants, tokens, issuance
<1>1. ~UNCHANGED vars
  BY DEF vars
<1>2. ~Tick /\ \A o \in Offers : ~SetEligible(o) /\ ~SetDeferredIssuance(o) /\ ~DeleteUser(o)
  BY DEF Tick, SetEligible, SetDeferredIssuance, DeleteUser
<1>3. \A r \in Reqs :
        /\ \A o \in Offers : ~StartExchange(r, o) /\ ~StartBurn(r, o) /\ ~StartApprove(r, o)
        /\ \A p \in Tok : ~StartRefresh(r, p) /\ ~StartCredential(r, p) /\ ~StartRetrieve(r, p)
        /\ ~Rollback(r)
  BY DEF StartExchange, StartBurn, StartApprove, StartRefresh, StartCredential, StartRetrieve,
         Rollback
<1>4. \A r \in Reqs : ~LockStep(r)
  BY DEF LockStep, LockExchange, LockCodeReplay, Burn, LockRefresh, LockCredential, LockApprove,
         LockRetrieve
<1>5. \A r \in Reqs : ~CommitCodeReplay(r) /\ ~CommitReplay(r)
  BY DEF CommitCodeReplay, CommitReplay
<1> QED  BY <1>1, <1>2, <1>3, <1>4, <1>5 DEF Next, CommitStep, Gives

(* A commit gives something to its own offer alone, and the parties of     *)
(* that offer are eligible and its grant neither revoked nor deleted.      *)
LEMMA GivesToTheLiving ==
  ASSUME IInv, NEW r \in Reqs, Gives(r), NEW o \in Offers
  PROVE  \/ Obtained(o)' = Obtained(o)
         \/ req[r].offer = o /\ o \notin revoked /\ grant[o] # "deleted" /\ eligible[o]
<1> USE DEF world, offers, grants, tokens, issuance
<1>1. req[r].pc = "commit" /\ req[r].op \in {"exchange", "refresh", "credential", "approve", "retrieve"}
  BY DEF Gives, CommitExchange, CommitRefresh, CommitCredential, CommitApprove, CommitRetrieve, At
<1>2. Knows(req[r]) /\ req[r].offer \in Offers /\ OfferOK(req[r].offer)
  BY Typed
<1>3. CASE req[r].offer = o
  BY <1>1, <1>2, <1>3 DEF Knows, Alive, OfferOK
<1>4. CASE req[r].offer # o
  <2>1. dc'[o] = dc[o] /\ released'[o] = released[o]
    BY <1>2, <1>4 DEF Gives, CommitExchange, CommitRefresh, CommitCredential, CommitApprove,
                      CommitRetrieve, IInv, TypeOK
  <2>2. TokensOf(o)' = TokensOf(o)
    <3>1. CASE UNCHANGED <<ntok, tok>>
      BY <3>1 DEF TokensOf, Known
    <3>2. ASSUME NEW d \in Nat, AddTokens(req[r].offer, d) PROVE TokensOf(o)' = TokensOf(o)
      <4>1. now \in Nat
        BY WalletConstants DEF IInv, TypeOK
      <4>2. /\ Known' = Known \cup {ntok'} /\ \A p \in Known : tok'[p] = tok[p]
            /\ tok'[ntok'].offer = req[r].offer
        BY <1>2, <3>2, <4>1, TokensAdded
      <4> QED  BY <1>4, <4>2 DEF TokensOf
    <3>3. CASE CommitRefresh(r)
      <4>1. deadline[req[r].offer] \in Nat
        BY <1>2 DEF IInv, TypeOK
      <4> QED  BY <3>2, <3>3, <4>1 DEF CommitRefresh
    <3>4. CASE CommitExchange(r)
      <4> DEFINE exp == IF req[r].deferred THEN now + GrantTTL
                        ELSE IF req[r].offer \in codeOffers THEN now + AccessTTL
                        ELSE offerExp[req[r].offer]
      <4>1. now \in Nat /\ offerExp[req[r].offer] \in Nat
        BY <1>2, WalletConstants DEF IInv, TypeOK
      <4>2. exp \in Nat
        BY <4>1, WalletConstants
      <4>3. AddTokens(req[r].offer, exp)
        BY <3>4 DEF CommitExchange
      <4> HIDE DEF exp
      <4> QED  BY <3>2, <4>2, <4>3
    <3> QED  BY <3>1, <3>3, <3>4 DEF Gives, CommitCredential, CommitApprove, CommitRetrieve
  <2> QED  BY <2>1, <2>2 DEF Obtained
<1> QED  BY <1>3, <1>4

(* RevokeWalletGrant, the deletion of the user and LockWalletEligibility:  *)
(* a dead grant yields nothing, not even to a handler in flight.           *)
THEOREM DeadGrantsAreInert == Spec => DeadGrantIsInert
<1>1. ASSUME IInv, [Next]_vars, NEW o \in Offers,
             o \in revoked \/ grant[o] = "deleted" \/ ~eligible[o]
      PROVE  Obtained(o)' = Obtained(o)
  <2>1. CASE UNCHANGED <<tokens, issuance>>
    BY <2>1 DEF tokens, issuance, Obtained, TokensOf, Known
  <2>2. CASE \E r \in Reqs : Gives(r)
    BY <1>1, <2>2, GivesToTheLiving
  <2> QED  BY <1>1, <2>1, <2>2, OnlyCommitsGive
<1>2. IInv /\ [Next]_vars =>
        [\A o \in Offers : (o \in revoked \/ grant[o] = "deleted" \/ ~eligible[o]) =>
                             Obtained(o)' = Obtained(o)]_vars
  BY <1>1
<1> QED  BY <1>2, Invariance, PTL DEF Spec, DeadGrantIsInert

(* Only an exchange sets the terms of a grant, and it never does so twice. *)
LEMMA TermsStay ==
  ASSUME IInv, [Next]_vars, NEW o \in Offers, grant[o] # "none"
  PROVE  /\ deadline'[o] = deadline[o] /\ deferred'[o] = deferred[o]
         /\ status[o] = "used" => status'[o] = "used"
<1> USE DEF world, offers, grants, tokens, issuance
<1>1. status \in [Offers -> {"issued", "pending", "used"}]
  BY DEF IInv, TypeOK
<1>2. ASSUME NEW r \in Reqs, CommitExchange(r)
      PROVE  /\ deadline'[o] = deadline[o] /\ deferred'[o] = deferred[o]
             /\ status'[o] = status[o]
  <2>1. req[r].offer # o
    BY <1>2, Typed DEF CommitExchange, At, Knows, OfferOK
  <2>2. req[r].offer \in Offers
    BY Typed
  <2> QED  BY <1>2, <2>1, <2>2 DEF CommitExchange, IInv, TypeOK
<1>3. ASSUME NEW r \in Reqs, CommitCredential(r) \/ Burn(r)
      PROVE  /\ deadline'[o] = deadline[o] /\ deferred'[o] = deferred[o]
             /\ status[o] = "used" => status'[o] = "used"
  BY <1>1, <1>3, Typed DEF CommitCredential, Burn, MarkOfferUsed
<1>4. \/ UNCHANGED <<deadline, deferred, status>>
      \/ \E r \in Reqs : CommitExchange(r) \/ CommitCredential(r) \/ Burn(r)
  <2>1. CASE UNCHANGED vars
    BY <2>1 DEF vars
  <2>2. CASE Tick \/ \E x \in Offers : SetEligible(x) \/ SetDeferredIssuance(x) \/ DeleteUser(x)
    BY <2>2 DEF Tick, SetEligible, SetDeferredIssuance, DeleteUser
  <2>3. ASSUME NEW r \in Reqs,
               \/ \E x \in Offers : StartExchange(r, x) \/ StartBurn(r, x) \/ StartApprove(r, x)
               \/ \E p \in Tok : StartRefresh(r, p) \/ StartCredential(r, p) \/ StartRetrieve(r, p)
               \/ Rollback(r)
        PROVE  UNCHANGED <<deadline, deferred, status>>
    BY <2>3 DEF StartExchange, StartBurn, StartApprove, StartRefresh, StartCredential,
                StartRetrieve, Rollback
  <2>4. ASSUME NEW r \in Reqs, LockStep(r), ~Burn(r) PROVE UNCHANGED <<deadline, deferred, status>>
    BY <2>4 DEF LockStep, LockExchange, LockCodeReplay, LockRefresh, LockCredential, LockApprove,
                LockRetrieve
  <2>5. ASSUME NEW r \in Reqs, CommitStep(r), ~CommitExchange(r), ~CommitCredential(r)
        PROVE  UNCHANGED <<deadline, deferred, status>>
    BY <2>5 DEF CommitStep, CommitCodeReplay, CommitReplay, CommitRefresh, CommitApprove,
                CommitRetrieve
  <2> QED  BY <2>1, <2>2, <2>3, <2>4, <2>5 DEF Next
<1> QED  BY <1>2, <1>3, <1>4

(* "Rotation does not slide that deadline", and neither rotation nor a     *)
(* change of the configuration gives a grant more than it was given.       *)
THEOREM RightsStay == Spec => RightsNeverGrow
<1>1. ASSUME IInv, IInv', [Next]_vars, NEW o \in Offers, grant[o] # "none"
      PROVE  /\ deadline'[o] = deadline[o] /\ deferred'[o] = deferred[o]
             /\ status[o] = "used" => status'[o] = "used"
             /\ dc'[o] # "none" => deferred[o]
             /\ \A p \in TokensOf(o)' : tok'[p].exp <= deadline[o]
  <2>1. /\ deadline'[o] = deadline[o] /\ deferred'[o] = deferred[o]
        /\ status[o] = "used" => status'[o] = "used"
    BY <1>1, TermsStay
  <2>2. dc'[o] # "none" => deferred'[o]
    BY <1>1 DEF IInv, Rows, OfferOK
  <2>3. \A p \in TokensOf(o)' : tok'[p].exp <= deadline'[o]
    BY <1>1 DEF IInv, Rows, TokenOK, TokensOf
  <2> QED  BY <2>1, <2>2, <2>3
<1>2. IInv /\ IInv' /\ [Next]_vars =>
        [\A o \in Offers :
           grant[o] # "none" =>
             /\ deadline'[o] = deadline[o]
             /\ deferred'[o] = deferred[o]
             /\ status[o] = "used" => status'[o] = "used"
             /\ dc'[o] # "none" => deferred[o]
             /\ \A p \in TokensOf(o)' : tok'[p].exp <= deadline[o]]_vars
  BY <1>1
<1> QED  BY <1>2, Invariance, PTL DEF Spec, RightsNeverGrow

(***************************************************************************)
(* The refinement of OneShot.                                              *)
(***************************************************************************)

Withdrawn == revoked \cup {o \in Offers : grant[o] = "deleted"}

(* A credential response is the one redemption of its offer. *)
LEMMA ReleaseRedeems ==
  ASSUME IInv, NEW r \in Reqs, Gives(r), released' # released
  PROVE  Abstract!Next
<1> USE DEF world, offers, grants, tokens, issuance
<1>1. PICK o \in Offers : req[r].offer = o
  BY Typed
<1>2. /\ (CommitCredential(r) /\ ~req[r].deferred) \/ CommitRetrieve(r)
      /\ released' = [released EXCEPT ![o] = @ + 1] /\ UNCHANGED <<revoked, grant>>
  BY <1>1 DEF Gives, CommitExchange, CommitRefresh, CommitCredential, CommitApprove, CommitRetrieve
<1>3. Knows(req[r]) /\ OfferOK(o)
  BY <1>1, Typed
<1>4. released[o] = 0 /\ Alive(o)
  BY <1>1, <1>2, <1>3 DEF CommitCredential, CommitRetrieve, At, Knows, OfferOK
<1>5. released' = [released EXCEPT ![o] = 1]
  BY <1>2, <1>4
<1>6. Abstract!Redeem(o)
  BY <1>2, <1>4, <1>5 DEF Abstract!Redeem, Alive
<1> QED  BY <1>6 DEF Abstract!Next

(* What withdraws a grant releases nothing. *)
LEMMA WithdrawalVoids ==
  ASSUME IInv, [Next]_vars, Withdrawn' # Withdrawn
  PROVE  Abstract!Next
<1> USE DEF world, offers, grants, tokens, issuance
<1>0. grant \in [Offers -> {"none", "live", "deleted"}] /\ revoked \subseteq Offers
  BY DEF IInv, TypeOK
<1>1. ASSUME NEW r \in Reqs, CommitCodeReplay(r) \/ CommitReplay(r) PROVE Abstract!Next
  <2>1. PICK o \in Offers : req[r].offer = o
    BY Typed
  <2>2. revoked' = revoked \cup {o} /\ UNCHANGED <<grant, released>>
    BY <1>1, <2>1 DEF CommitCodeReplay, CommitReplay
  <2>3. Abstract!Void(o)
    BY <2>2 DEF Abstract!Void
  <2> QED  BY <2>3 DEF Abstract!Next
<1>2. ASSUME NEW o \in Offers, DeleteUser(o) PROVE Abstract!Next
  <2>1. UNCHANGED <<revoked, released>> /\ grant' = [grant EXCEPT ![o] = "deleted"]
    BY <1>2 DEF DeleteUser
  <2>2. Abstract!Void(o)
    BY <1>0, <2>1 DEF Abstract!Void
  <2> QED  BY <2>2 DEF Abstract!Next
<1>3. ASSUME NEW r \in Reqs, CommitExchange(r) PROVE Withdrawn' = Withdrawn
  <2>1. PICK o \in Offers : req[r].offer = o
    BY Typed
  <2>2. grant' = [grant EXCEPT ![o] = "live"] /\ UNCHANGED revoked
    BY <1>3, <2>1 DEF CommitExchange
  <2>3. grant[o] = "none"
    BY <1>3, <2>1, Typed DEF CommitExchange, At, Knows, OfferOK
  <2> QED  BY <1>0, <2>2, <2>3 DEF Withdrawn
<1>4. CASE UNCHANGED <<revoked, grant>>
  BY <1>4 DEF Withdrawn
<1>5. \/ UNCHANGED <<revoked, grant>>
      \/ \E o \in Offers : DeleteUser(o)
      \/ \E r \in Reqs : CommitExchange(r) \/ CommitCodeReplay(r) \/ CommitReplay(r)
  <2>1. CASE UNCHANGED vars
    BY <2>1 DEF vars
  <2>2. CASE Tick \/ \E x \in Offers : SetEligible(x) \/ SetDeferredIssuance(x)
    BY <2>2 DEF Tick, SetEligible, SetDeferredIssuance
  <2>3. ASSUME NEW r \in Reqs,
               \/ \E x \in Offers : StartExchange(r, x) \/ StartBurn(r, x) \/ StartApprove(r, x)
               \/ \E p \in Tok : StartRefresh(r, p) \/ StartCredential(r, p) \/ StartRetrieve(r, p)
               \/ Rollback(r)
        PROVE  UNCHANGED <<revoked, grant>>
    BY <2>3 DEF StartExchange, StartBurn, StartApprove, StartRefresh, StartCredential,
                StartRetrieve, Rollback
  <2>4. ASSUME NEW r \in Reqs, LockStep(r) PROVE UNCHANGED <<revoked, grant>>
    BY <2>4 DEF LockStep, LockExchange, LockCodeReplay, LockRefresh, LockCredential, LockApprove,
                LockRetrieve, Burn
  <2>5. ASSUME NEW r \in Reqs, CommitRefresh(r) \/ CommitCredential(r) \/ CommitApprove(r) \/ CommitRetrieve(r)
        PROVE  UNCHANGED <<revoked, grant>>
    BY <2>5 DEF CommitRefresh, CommitCredential, CommitApprove, CommitRetrieve
  <2> QED  BY <2>1, <2>2, <2>3, <2>4, <2>5 DEF Next, CommitStep
<1> QED  BY <1>1, <1>2, <1>3, <1>4, <1>5

(* MarkOfferUsed and ConsumeDeferredDelivery: every step of the wallet     *)
(* endpoints is a redemption of an offer that was neither redeemed nor     *)
(* withdrawn, a withdrawal, or no step of OneShot.                         *)
THEOREM OffersAreOneShot == Spec => OneCredential
<1>1. Init => Abstract!Init
  BY DEF Init, Abstract!Init
<1>2. IInv /\ [Next]_vars => [Abstract!Next]_<<released, Withdrawn>>
  <2> SUFFICES ASSUME IInv, [Next]_vars, ~UNCHANGED <<released, Withdrawn>> PROVE Abstract!Next
    OBVIOUS
  <2>1. CASE Withdrawn' # Withdrawn
    BY <2>1, WithdrawalVoids
  <2>2. CASE released' # released
    <3>1. PICK r \in Reqs : Gives(r)
      BY <2>2, OnlyCommitsGive DEF issuance
    <3> QED  BY <2>2, <3>1, ReleaseRedeems
  <2> QED  BY <2>1, <2>2
<1> QED  BY <1>1, <1>2, Invariance, PTL DEF Spec, OneCredential, Abstract!Spec, Withdrawn
=============================================================================
