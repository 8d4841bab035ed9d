------------------------- MODULE KeyRotationProofs -------------------------
(***************************************************************************)
(* Proofs for KeyRotation, for any number of requests, administrators,     *)
(* replicas and keys, and for all lifetimes and grace periods.  The        *)
(* argument is one of clocks: NOW() of a replacement lies at most MaxReq   *)
(* before its commit, and a request signs at most MaxReq after it found    *)
(* its key active, so that what it signs expires within the grace period   *)
(* of the key, or later by the Shortfall of that period.                   *)
(***************************************************************************)
EXTENDS KeyRotation, TLAPS

Holds(r) == req[r].pc \in {"jwks", "verification", "sign"}

Types ==
  /\ now \in Nat
  /\ nkeys \in 0..MaxKeys
  /\ key \in [Keys -> Key]
  /\ policy \in {"none", "manual", "scheduled"}
  /\ last \in 0..(now + 1)
  /\ req \in [Procs -> Req]
  /\ liveUntil \in [Keys -> Nat]
  /\ firstUse \subseteq Keys

(* The newest key is the active one, and the others are retired. *)
Newest ==
  \A k \in Keys : /\ k < nkeys => key[k].st = "retired"
                  /\ k = nkeys => key[k].st = "active"
                  /\ k > nkeys => key[k].st = "none"

(* Requests are short, and NOW() lies within them. *)
Clocks ==
  \A r \in Procs : ~At(r, "idle") =>
    /\ req[r].since <= now /\ now <= req[r].since + MaxReq
    /\ req[r].since <= req[r].at /\ req[r].at <= now

(* A request that holds a key found it active after it had started. *)
Held ==
  \A r \in Procs : Holds(r) =>
    /\ req[r].key \in Keys /\ req[r].key <= nkeys
    /\ req[r].key # nkeys => req[r].since + Grace <= key[req[r].key].exp + MaxReq

(* The last token of a retired key outlives it by the shortfall at most. *)
Lives ==
  \A k \in Keys : /\ liveUntil[k] <= now + TokenTTL
                  /\ k < nkeys => liveUntil[k] <= key[k].exp + Shortfall
                  /\ k > nkeys => liveUntil[k] = 0

(* The grace period is longer than two requests take. *)
GraceCoversRequests == 2 * MaxReq < Grace

(* What a request has read contains its key. *)
Listed ==
  GraceCoversRequests =>
    \A r \in Procs : req[r].pc \in {"verification", "sign"} => req[r].listed

(* Imports and removals are those of administrators. *)
Roles == \A r \in Procs : req[r].op \in {"import", "remove"} => r \in Admins

First == firstUse \subseteq {1}

IInv == Types /\ Newest /\ Clocks /\ Held /\ Lives /\ Listed /\ Roles /\ First

USE DEF At, Holds, Procs, NoKey

(* The locals v suit the request r, given the keys and the clock. *)
Suits(r, v) ==
  /\ v.pc # "idle" => /\ v.since <= now /\ now <= v.since + MaxReq
                      /\ v.since <= v.at /\ v.at <= now
  /\ v.pc \in {"jwks", "verification", "sign"} =>
       /\ v.key \in Keys /\ v.key <= nkeys
       /\ v.key # nkeys => v.since + Grace <= key[v.key].exp + MaxReq
  /\ GraceCoversRequests /\ v.pc \in {"verification", "sign"} => v.listed
  /\ v.op \in {"import", "remove"} => r \in Admins

(* A step that changes the locals of a request, and perhaps the policy. *)
LEMMA LocalStep ==
  ASSUME IInv, NEW r \in Procs, NEW v \in Req, req' = [req EXCEPT ![r] = v], Suits(r, v),
         UNCHANGED <<now, nkeys, key, liveUntil, firstUse>>,
         policy' \in {"none", "manual", "scheduled"}, last' \in 0..(now + 1)
  PROVE  IInv'
<1>1. req'[r] = v /\ \A q \in Procs \ {r} : req'[q] = req[q]
  BY DEF IInv, Types
<1>2. Types'
  BY DEF IInv, Types
<1>3. Newest' /\ Lives' /\ First'
  BY DEF IInv, Newest, Lives, First
<1>4. Clocks'
  BY <1>1 DEF IInv, Clocks, Suits
<1>5. Held'
  BY <1>1 DEF IInv, Held, Suits
<1>6. Listed' /\ Roles'
  BY <1>1 DEF IInv, Listed, Roles, Suits
<1> QED  BY <1>2, <1>3, <1>4, <1>5, <1>6 DEF IInv

(* A request that goes on or ends without touching the keys. *)
LEMMA GotoSuits ==
  ASSUME IInv, NEW r \in Procs, ~At(r, "idle"),
         NEW l \in {"begin", "replace", "reload", "mark", "upsert"}
  PROVE  /\ [req[r] EXCEPT !.pc = l] \in Req /\ Suits(r, [req[r] EXCEPT !.pc = l])
         /\ [req[r] EXCEPT !.pc = l].pc = l
<1> DEFINE v == [req[r] EXCEPT !.pc = l]
<1>1. req[r] \in Req
  BY DEF IInv, Types
<1>2. /\ v \in Req /\ v.pc = l /\ v.op = req[r].op
      /\ v.since = req[r].since /\ v.at = req[r].at
  BY <1>1 DEF Req
<1> HIDE DEF v
<1>3. Suits(r, v)
  BY <1>2 DEF IInv, Clocks, Roles, Suits
<1> QED  BY <1>2, <1>3 DEF v

LEMMA IdleSuits ==
  \A r \in Procs : /\ IdleReq \in Req /\ Suits(r, IdleReq)
                   /\ IdleReq.pc = "idle" /\ IdleReq.op = "none"
BY KeyConstants DEF IdleReq, Req, Suits

LEMMA NewSuits ==
  ASSUME IInv, NEW r \in Procs, NEW op \in {"sign", "rotate", "import", "remove", "policy"},
         op \in {"import", "remove"} => r \in Admins,
         NEW l \in {"begin", "replace", "upsert", "jwks"}, NEW k \in 0..MaxKeys,
         l = "jwks" => k \in Keys /\ k = nkeys, NEW new \in {"manual", "scheduled"}
  PROVE  New(op, l, k, new) \in Req /\ Suits(r, New(op, l, k, new))
<1>1. now \in Nat
  BY DEF IInv, Types
<1> QED  BY <1>1, KeyConstants DEF New, Req, Suits

(* The active key is the newest one. *)
LEMMA ActiveIsNewest == ASSUME IInv PROVE \A k \in Keys : k \in Active <=> k = nkeys
<1>1. nkeys \in Nat /\ \A k \in Keys : k \in Nat
  BY KeyConstants DEF IInv, Types, Keys
<1> QED  BY <1>1 DEF IInv, Newest, Active

(* By how much the grace period may be too short. *)
LEMMA ShortfallCovers ==
  Shortfall \in Nat /\ TokenTTL + 2 * MaxReq <= Grace + Shortfall
BY KeyConstants DEF Shortfall

(* What a request holds is published while it lasts. *)
LEMMA HeldIsPublished ==
  ASSUME IInv, NEW r \in Procs, Holds(r), GraceCoversRequests
  PROVE  req[r].key \in Published
<1> DEFINE k == req[r].key
<1>1. /\ k \in Keys /\ k \in Nat /\ k <= nkeys
      /\ k # nkeys => req[r].since + Grace <= key[k].exp + MaxReq
  BY KeyConstants DEF IInv, Held, Keys
<1>2. now <= req[r].since + MaxReq
  BY DEF IInv, Clocks
<1>3. nkeys \in Nat /\ now \in Nat /\ req[r].since \in Nat
  BY KeyConstants DEF IInv, Types, Req
<1>4. key[k].exp \in Nat
  BY <1>1 DEF IInv, Types, Key
<1>5. CASE k = nkeys
  BY <1>1, <1>5 DEF IInv, Newest, Published
<1>6. CASE k # nkeys
  <2>1. key[k].st = "retired"
    BY <1>1, <1>3, <1>6 DEF IInv, Newest
  <2>2. now < key[k].exp
    BY <1>1, <1>2, <1>3, <1>4, <1>6, KeyConstants DEF GraceCoversRequests
  <2> QED  BY <1>1, <2>1, <2>2 DEF Published
<1> QED  BY <1>5, <1>6

LEMMA BeginReplaceKeeps ==
  ASSUME IInv, NEW r \in Procs, BeginReplace(r)
  PROVE  IInv'
<1> DEFINE u == [req[r] EXCEPT !.pc = "replace"]
           v == [u EXCEPT !.at = now]
<1>1. u \in Req /\ Suits(r, u) /\ u.pc = "replace"
  BY GotoSuits DEF BeginReplace
<1>2. req' = [req EXCEPT ![r] = v]
  BY DEF BeginReplace
<1> HIDE DEF u
<1>3. now \in Nat
  BY DEF IInv, Types
<1>4. v \in Req /\ v.pc = u.pc /\ v.op = u.op /\ v.since = u.since /\ v.at = now
  BY <1>1, <1>3 DEF Req
<1> HIDE DEF v
<1>5. u.since \in Nat
  BY <1>1 DEF Req
<1>6. Suits(r, v)
  BY <1>1, <1>3, <1>4, <1>5 DEF Suits
<1> QED  BY <1>2, <1>4, <1>6, LocalStep DEF BeginReplace, IInv, Types

LEMMA KeepKeyKeeps ==
  ASSUME IInv, NEW r \in Procs, KeepKey(r)
  PROVE  IInv'
<1>1. PICK v \in {[req[r] EXCEPT !.pc = "reload"], IdleReq} : req' = [req EXCEPT ![r] = v]
  BY DEF KeepKey, Goto, Finish
<1>2. v \in Req /\ Suits(r, v)
  BY <1>1, GotoSuits, IdleSuits DEF KeepKey
<1> QED  BY <1>1, <1>2, LocalStep DEF KeepKey, IInv, Types

LEMMA MarkRotatedKeeps ==
  ASSUME IInv, NEW r \in Procs, MarkRotatedForOrg(r)
  PROVE  IInv'
<1>1. last' \in 0..(now + 1)
  BY DEF MarkRotatedForOrg, Stamp, IInv, Types
<1> QED  BY <1>1, IdleSuits, LocalStep DEF MarkRotatedForOrg, Finish, IInv, Types

LEMMA CrashKeeps ==
  ASSUME IInv, NEW r \in Procs, Crash(r)
  PROVE  IInv'
BY IdleSuits, LocalStep DEF Crash, Finish, IInv, Types

LEMMA UpsertKeeps ==
  ASSUME IInv, NEW r \in Admins, UpsertForOrg(r)
  PROVE  IInv'
<1>1. req[r].new \in {"manual", "scheduled"}
  BY DEF IInv, Types, Req
<1> QED  BY <1>1, IdleSuits, LocalStep DEF UpsertForOrg, Finish, IInv, Types

LEMMA AdminKeeps ==
  ASSUME IInv, NEW r \in Admins, NEW op \in {"rotate", "import", "remove"},
         NEW new \in {"manual", "scheduled"}, ChangeKey(r, op) \/ SetPolicy(r, new)
  PROVE  IInv'
<1>1. PICK v \in {New(op, "replace", NoKey, "manual"), New("policy", "upsert", NoKey, new)} :
        req' = [req EXCEPT ![r] = v]
  BY DEF ChangeKey, SetPolicy
<1>2. v \in Req /\ Suits(r, v)
  BY <1>1, NewSuits, KeyConstants
<1> QED  BY <1>1, <1>2, LocalStep DEF ChangeKey, SetPolicy, IInv, Types

LEMMA ListDueKeeps ==
  ASSUME IInv, NEW w \in Workers, ListDue(w)
  PROVE  IInv'
<1>1. /\ New("rotate", "begin", NoKey, "manual") \in Req
      /\ Suits(w, New("rotate", "begin", NoKey, "manual"))
  BY NewSuits, KeyConstants
<1> QED  BY <1>1, LocalStep DEF ListDue, IInv, Types

LEMMA GetActiveKeeps ==
  ASSUME IInv, NEW r \in Signers, GetActiveForOrg(r)
  PROVE  IInv'
<1>1. \A k \in Active : k \in Keys /\ k = nkeys /\ k \in 0..MaxKeys
  BY ActiveIsNewest, KeyConstants DEF Active, Keys
<1>2. ASSUME NEW k \in Active, req' = [req EXCEPT ![r] = New("sign", "jwks", k, "manual")]
      PROVE  IInv'
  <2>1. New("sign", "jwks", k, "manual") \in Req /\ Suits(r, New("sign", "jwks", k, "manual"))
    BY <1>1, NewSuits
  <2> QED  BY <1>2, <2>1, LocalStep DEF GetActiveForOrg, IInv, Types
<1>3. ASSUME NEW k \in Active, At(r, "reload"),
             req' = [req EXCEPT ![r] = [@ EXCEPT !.pc = "jwks", !.key = k]]
      PROVE  IInv'
  <2> DEFINE u == [req[r] EXCEPT !.pc = "jwks"]
             v == [u EXCEPT !.key = k]
  <2>1. req[r] \in Req
    BY DEF IInv, Types
  <2>2. u \in Req /\ u.pc = "jwks" /\ u.op = req[r].op /\ u.since = req[r].since /\ u.at = req[r].at
    BY <2>1 DEF Req
  <2>3. req' = [req EXCEPT ![r] = v]
    BY <1>3
  <2> HIDE DEF u
  <2>4. /\ v \in Req /\ v.pc = u.pc /\ v.op = u.op /\ v.since = u.since /\ v.at = u.at
        /\ v.key = k
    BY <1>1, <2>2 DEF Req
  <2> HIDE DEF v
  <2>5. nkeys \in Nat
    BY KeyConstants DEF IInv, Types
  <2>6. Suits(r, v)
    BY <1>1, <1>3, <2>2, <2>4, <2>5 DEF IInv, Clocks, Roles, Suits
  <2> QED  BY <2>3, <2>4, <2>6, LocalStep DEF GetActiveForOrg, IInv, Types
<1>4. ASSUME req' = [req EXCEPT ![r] = New("sign", "begin", NoKey, "manual")]
      PROVE  IInv'
  <2>1. New("sign", "begin", NoKey, "manual") \in Req /\ Suits(r, New("sign", "begin", NoKey, "manual"))
    BY NewSuits, KeyConstants
  <2> QED  BY <1>4, <2>1, LocalStep DEF GetActiveForOrg, IInv, Types
<1> QED  BY <1>2, <1>3, <1>4 DEF GetActiveForOrg

(* A request reads sets of keys that contain the key it holds. *)
LEMMA GetJWKSKeeps ==
  ASSUME IInv, NEW r \in Signers, GetJWKSKeysForOrg(r)
  PROVE  IInv'
<1>1. Holds(r) /\ (GraceCoversRequests => req[r].key \in Published)
  BY HeldIsPublished DEF GetJWKSKeysForOrg
<1>2. At(r, "verification") /\ GraceCoversRequests => req[r].listed
  BY DEF IInv, Listed
<1>3. ASSUME NEW l \in {"verification", "sign"}, NEW e \in BOOLEAN,
             GraceCoversRequests => e,
             req' = [req EXCEPT ![r] = [@ EXCEPT !.pc = l, !.listed = e]]
      PROVE  IInv'
  <2> DEFINE u == [req[r] EXCEPT !.pc = l]
             v == [u EXCEPT !.listed = e]
  <2>1. req[r] \in Req
    BY DEF IInv, Types
  <2>2. /\ u \in Req /\ u.pc = l /\ u.op = req[r].op /\ u.since = req[r].since /\ u.at = req[r].at
        /\ u.key = req[r].key
    BY <2>1 DEF Req
  <2>3. req' = [req EXCEPT ![r] = v]
    BY <1>3
  <2> HIDE DEF u
  <2>4. /\ v \in Req /\ v.pc = u.pc /\ v.op = u.op /\ v.since = u.since /\ v.at = u.at
        /\ v.key = u.key /\ v.listed = e
    BY <1>3, <2>2 DEF Req
  <2> HIDE DEF v
  <2>5. Suits(r, v)
    BY <1>1, <1>3, <2>2, <2>4 DEF IInv, Clocks, Held, Roles, Suits
  <2> QED  BY <2>3, <2>4, <2>5, LocalStep DEF GetJWKSKeysForOrg, IInv, Types
<1>4. CASE At(r, "jwks")
  <2> DEFINE e == (req[r].key \in Published)
  <2>1. req' = [req EXCEPT ![r] = [@ EXCEPT !.pc = "verification", !.listed = e]]
    BY <1>4 DEF GetJWKSKeysForOrg
  <2>2. e \in BOOLEAN /\ (GraceCoversRequests => e)
    BY <1>1
  <2> HIDE DEF e
  <2> QED  BY <1>3, <2>1, <2>2
<1>5. CASE At(r, "verification")
  <2> DEFINE e == (req[r].listed /\ req[r].key \in Published)
  <2>1. req' = [req EXCEPT ![r] = [@ EXCEPT !.pc = "sign", !.listed = e]]
    BY <1>5 DEF GetJWKSKeysForOrg
  <2>2. e \in BOOLEAN /\ (GraceCoversRequests => e)
    <3>1. req[r].listed \in BOOLEAN
      BY DEF IInv, Types, Req
    <3> QED  BY <1>1, <1>2, <1>5, <3>1
  <2> HIDE DEF e
  <2> QED  BY <1>3, <2>1, <2>2
<1> QED  BY <1>4, <1>5 DEF GetJWKSKeysForOrg

(* The token outlives its key by the shortfall at most, should the key be  *)
(* retired by now or later.                                                *)
LEMMA SignKeeps ==
  ASSUME IInv, NEW r \in Signers, Sign(r)
  PROVE  IInv'
<1> DEFINE h == req[r].key
<1>1. /\ req' = [req EXCEPT ![r] = IdleReq] /\ At(r, "sign") /\ r \in Procs
      /\ liveUntil' = [liveUntil EXCEPT ![h] = now + TokenTTL]
      /\ UNCHANGED <<now, nkeys, key, policy, last, firstUse>>
  BY DEF Sign, Finish
<1>2. /\ h \in Keys /\ h <= nkeys
      /\ h # nkeys => req[r].since + Grace <= key[h].exp + MaxReq
      /\ now <= req[r].since + MaxReq
  BY <1>1 DEF IInv, Held, Clocks
<1>3. h \in Nat /\ nkeys \in Nat /\ now \in Nat /\ req[r].since \in Nat /\ key[h].exp \in Nat
  BY <1>2, KeyConstants DEF IInv, Types, Req, Key, Keys
<1>4. h # nkeys => now + TokenTTL <= key[h].exp + Shortfall
  BY <1>2, <1>3, KeyConstants, ShortfallCovers
<1>5. req'[r] = IdleReq /\ \A q \in Procs \ {r} : req'[q] = req[q]
  BY <1>1 DEF IInv, Types
<1>6. liveUntil'[h] = now + TokenTTL /\ \A k \in Keys \ {h} : liveUntil'[k] = liveUntil[k]
  BY <1>1, <1>2 DEF IInv, Types
<1> HIDE DEF h
<1>7. Types'
  <2>1. now + TokenTTL \in Nat
    BY <1>3, KeyConstants
  <2>2. liveUntil' \in [Keys -> Nat] /\ req' \in [Procs -> Req]
    BY <1>1, <2>1, IdleSuits DEF IInv, Types
  <2> QED  BY <1>1, <2>2 DEF IInv, Types
<1>8. Newest' /\ First'
  BY <1>1 DEF IInv, Newest, First
<1>9. Clocks' /\ Held' /\ Listed' /\ Roles'
  BY <1>1, <1>5, IdleSuits DEF IInv, Clocks, Held, Listed, Roles
<1>10. Lives'
  <2> SUFFICES ASSUME NEW k \in Keys
               PROVE  /\ liveUntil'[k] <= now + TokenTTL
                      /\ k < nkeys => liveUntil'[k] <= key[k].exp + Shortfall
                      /\ k > nkeys => liveUntil'[k] = 0
    BY <1>1 DEF Lives
  <2>1. CASE k = h
    BY <1>2, <1>3, <1>4, <1>6, <2>1, KeyConstants
  <2>2. CASE k # h
    BY <1>6, <2>2 DEF IInv, Lives
  <2> QED  BY <2>1, <2>2
<1> QED  BY <1>7, <1>8, <1>9, <1>10 DEF IInv

LEMMA TickKeeps ==
  ASSUME IInv, Tick
  PROVE  IInv'
<1>1. /\ now' = now + 1 /\ UNCHANGED <<nkeys, key, policy, last, req, firstUse>>
      /\ liveUntil' = [k \in Keys |-> IF liveUntil[k] <= now + 1 THEN 0 ELSE liveUntil[k]]
      /\ \A r \in Procs : ~At(r, "idle") => now < req[r].since + MaxReq
  BY DEF Tick
<1>2. now \in Nat /\ nkeys \in Nat /\ \A k \in Keys : k \in Nat /\ liveUntil[k] \in Nat
  BY KeyConstants DEF IInv, Types, Keys
<1>3. \A r \in Procs : req[r].since \in Nat /\ req[r].at \in Nat
  BY DEF IInv, Types, Req
<1>4. \A k \in Keys : key[k].exp \in Nat
  BY DEF IInv, Types, Key
<1>5. Types'
  BY <1>1, <1>2 DEF IInv, Types
<1>6. Newest' /\ First' /\ Held' /\ Listed' /\ Roles'
  BY <1>1 DEF IInv, Newest, First, Held, Listed, Roles
<1>7. Clocks'
  BY <1>1, <1>2, <1>3, KeyConstants DEF IInv, Clocks
<1>8. Lives'
  BY <1>1, <1>2, <1>4, KeyConstants, ShortfallCovers DEF IInv, Lives
<1> QED  BY <1>5, <1>6, <1>7, <1>8 DEF IInv

(* The transaction retires the newest key and inserts another.  Its NOW()  *)
(* lies at most MaxReq back, so the tokens that are alive, and those that  *)
(* requests in flight will sign, outlive the key by the shortfall at most. *)
LEMMA ReplaceKeeps ==
  ASSUME IInv, NEW r \in Procs, ReplaceForOrg(r)
  PROVE  IInv'
<1> DEFINE n == nkeys + 1
           t == req[r].at
<1>1. /\ At(r, "replace") /\ nkeys < MaxKeys /\ nkeys' = n /\ ~Provisioned(r)
      /\ key' = [k \in Keys |-> IF k = n THEN Inserted(r)
                                ELSE IF k \in Active THEN Retire(r, k) ELSE key[k]]
      /\ firstUse' = IF req[r].op = "sign" THEN firstUse \cup {n} ELSE firstUse
      /\ UNCHANGED <<now, policy, last, liveUntil>>
  BY DEF ReplaceForOrg
<1>2. PICK v \in Req : req' = [req EXCEPT ![r] = v] /\ Suits(r, v) /\ v.pc \in {"reload", "mark", "idle"}
  <2>1. PICK v \in {[req[r] EXCEPT !.pc = "reload"], [req[r] EXCEPT !.pc = "mark"], IdleReq} :
          req' = [req EXCEPT ![r] = v]
    BY DEF ReplaceForOrg, AfterReplace, Goto, Finish
  <2>2. CASE v = IdleReq
    BY <2>1, <2>2, IdleSuits
  <2>3. CASE v # IdleReq
    <3>1. PICK l \in {"reload", "mark"} : v = [req[r] EXCEPT !.pc = l]
      BY <2>1, <2>3
    <3>2. ~At(r, "idle")
      BY <1>1
    <3>3. /\ [req[r] EXCEPT !.pc = l] \in Req /\ Suits(r, [req[r] EXCEPT !.pc = l])
          /\ [req[r] EXCEPT !.pc = l].pc = l
      BY <3>2, GotoSuits
    <3>4. v \in Req /\ Suits(r, v) /\ v.pc = l
      BY <3>1, <3>3
    <3> QED  BY <2>1, <3>4
  <2> QED  BY <2>2, <2>3
<1>3. /\ nkeys \in Nat /\ now \in Nat /\ n \in Keys /\ t \in Nat
      /\ \A k \in Keys : k \in Nat /\ liveUntil[k] \in Nat
      /\ \A q \in Procs : req[q].since \in Nat
  BY <1>1, KeyConstants DEF IInv, Types, Keys, Req
<1>4. t <= now /\ now <= t + MaxReq
  BY <1>1, <1>3, KeyConstants DEF IInv, Clocks
<1>5. Inserted(r) \in Key /\ Inserted(r).st = "active"
  BY DEF Inserted, Key
<1>6. \A k \in Keys : /\ key[k] \in Key /\ Retire(r, k) \in Key
                      /\ Retire(r, k).st = "retired" /\ Retire(r, k).exp = t + Grace
  <2> SUFFICES ASSUME NEW k \in Keys
               PROVE  /\ key[k] \in Key /\ Retire(r, k) \in Key
                      /\ Retire(r, k).st = "retired" /\ Retire(r, k).exp = t + Grace
    OBVIOUS
  <2> DEFINE u == [key[k] EXCEPT !.st = "retired"]
  <2>1. key[k] \in Key
    BY DEF IInv, Types
  <2>2. u \in Key /\ u.st = "retired"
    BY <2>1 DEF Key
  <2>3. Retire(r, k) = [u EXCEPT !.exp = t + Grace]
    BY DEF Retire
  <2> HIDE DEF u, t
  <2> QED  BY <1>3, <2>1, <2>2, <2>3, KeyConstants DEF Key
<1>7. /\ key'[n].st = "active"
      /\ nkeys \in Keys => key'[nkeys].st = "retired" /\ key'[nkeys].exp = t + Grace
      /\ \A k \in Keys : k # n /\ k # nkeys => key'[k] = key[k]
  BY <1>1, <1>3, <1>5, <1>6, ActiveIsNewest
<1>8. key' \in [Keys -> Key]
  BY <1>1, <1>5, <1>6
<1>9. req'[r] = v /\ \A q \in Procs \ {r} : req'[q] = req[q]
  BY <1>2 DEF IInv, Types
<1>10. firstUse' \subseteq {1}
  <2>1. CASE req[r].op = "sign"
    <3>1. nkeys \notin Keys
      BY <1>1, <2>1, ActiveIsNewest DEF Provisioned
    <3>2. nkeys = 0
      BY <1>1, <1>3, <3>1, KeyConstants DEF Keys
    <3> QED  BY <1>1, <2>1, <3>2 DEF IInv, First
  <2>2. CASE req[r].op # "sign"
    BY <1>1, <2>2 DEF IInv, First
  <2> QED  BY <2>1, <2>2
<1> HIDE DEF n, t
<1>11. n = nkeys + 1
  BY DEF n
<1>12. Types'
  <2>1. firstUse' \subseteq Keys
    BY <1>1, <1>3 DEF IInv, Types
  <2>2. nkeys' \in 0..MaxKeys
    BY <1>1, <1>3, <1>11, KeyConstants
  <2> QED  BY <1>1, <1>2, <1>8, <2>1, <2>2 DEF IInv, Types
<1>13. Newest'
  BY <1>1, <1>3, <1>7, <1>11 DEF IInv, Newest
<1>14. Clocks' /\ Listed' /\ Roles'
  BY <1>1, <1>2, <1>9 DEF IInv, Clocks, Listed, Roles, Suits
<1>15. Held'
  <2> SUFFICES ASSUME NEW q \in Procs, Holds(q)'
               PROVE  /\ req'[q].key \in Keys /\ req'[q].key <= n
                      /\ req'[q].key # n => req'[q].since + Grace <= key'[req'[q].key].exp + MaxReq
    BY <1>1 DEF Held
  <2>1. q # r /\ req'[q] = req[q] /\ Holds(q)
    BY <1>2, <1>9
  <2>2. /\ req[q].key \in Keys /\ req[q].key <= nkeys
        /\ req[q].key # nkeys => req[q].since + Grace <= key[req[q].key].exp + MaxReq
        /\ req[q].since <= now
    BY <2>1 DEF IInv, Held, Clocks
  <2>3. req[q].key \in Nat /\ req[q].since \in Nat
    BY <1>3, <2>2
  <2>4. CASE req[q].key = nkeys
    BY <1>3, <1>4, <1>7, <1>11, <2>1, <2>2, <2>3, <2>4, KeyConstants
  <2>5. CASE req[q].key # nkeys
    BY <1>3, <1>7, <1>11, <2>1, <2>2, <2>3, <2>5
  <2> QED  BY <2>4, <2>5
<1>16. Lives'
  <2> SUFFICES ASSUME NEW k \in Keys
               PROVE  /\ liveUntil[k] <= now + TokenTTL
                      /\ k < n => liveUntil[k] <= key'[k].exp + Shortfall
                      /\ k > n => liveUntil[k] = 0
    BY <1>1 DEF Lives
  <2>1. /\ liveUntil[k] <= now + TokenTTL
        /\ k < nkeys => liveUntil[k] <= key[k].exp + Shortfall
        /\ k > nkeys => liveUntil[k] = 0
    BY DEF IInv, Lives
  <2>2. CASE k = nkeys
    BY <1>3, <1>4, <1>7, <1>11, <2>1, <2>2, KeyConstants, ShortfallCovers
  <2>3. CASE k < nkeys
    <3>1. key'[k] = key[k] /\ k < n
      BY <1>3, <1>7, <1>11, <2>3
    <3>2. ~(k > n)
      <4>1. k \in Nat /\ nkeys \in Nat
        BY <1>3
      <4> QED  BY <1>11, <2>3, <4>1
    <3> QED  BY <2>1, <2>3, <3>1, <3>2
  <2>4. CASE k > nkeys
    <3>1. ~(k < n)
      <4>1. k \in Nat /\ nkeys \in Nat
        BY <1>3
      <4> QED  BY <1>11, <2>4, <4>1
    <3> QED  BY <2>1, <2>4, <3>1
  <2> QED  BY <1>3, <2>2, <2>3, <2>4
<1> QED  BY <1>10, <1>12, <1>13, <1>14, <1>15, <1>16 DEF IInv, First

LEMMA InitInv == Init => IInv
<1> SUFFICES ASSUME Init PROVE IInv
  OBVIOUS
<1>1. NoRow \in Key /\ NoRow.st = "none"
  BY DEF NoRow, Key
<1>2. \A r \in Procs : req[r] = IdleReq
  BY DEF Init
<1>3. Types
  BY <1>1, IdleSuits, KeyConstants DEF Init, Types
<1>4. Newest
  BY <1>1, KeyConstants DEF Init, Newest, Keys
<1>5. Clocks /\ Held /\ Listed /\ Roles
  BY <1>2, IdleSuits DEF Clocks, Held, Listed, Roles
<1>6. Lives /\ First
  BY KeyConstants DEF Init, Lives, First, Keys
<1> QED  BY <1>3, <1>4, <1>5, <1>6 DEF IInv

LEMMA NextKeeps == IInv /\ [Next]_vars => IInv'
<1> SUFFICES ASSUME IInv, [Next]_vars PROVE IInv'
  OBVIOUS
<1>1. CASE Tick
  BY <1>1, TickKeeps
<1>2. ASSUME NEW w \in Workers, ListDue(w) PROVE IInv'
  BY <1>2, ListDueKeeps
<1>3. ASSUME NEW r \in Signers, GetActiveForOrg(r) \/ GetJWKSKeysForOrg(r) \/ Sign(r) PROVE IInv'
  BY <1>3, GetActiveKeeps, GetJWKSKeeps, SignKeeps
<1>4. ASSUME NEW r \in Admins, NEW op \in {"rotate", "import", "remove"}, ChangeKey(r, op) PROVE IInv'
  BY <1>4, AdminKeeps
<1>5. ASSUME NEW r \in Admins, NEW new \in {"manual", "scheduled"}, SetPolicy(r, new) PROVE IInv'
  BY <1>5, AdminKeeps
<1>6. ASSUME NEW r \in Admins, UpsertForOrg(r) PROVE IInv'
  BY <1>6, UpsertKeeps
<1>7. ASSUME NEW r \in Procs, Rotation(r) \/ Crash(r) PROVE IInv'
  BY <1>7, BeginReplaceKeeps, ReplaceKeeps, KeepKeyKeeps, MarkRotatedKeeps, CrashKeeps DEF Rotation
<1>8. CASE UNCHANGED vars
  <2>1. Types' /\ Newest' /\ Clocks' /\ Held'
    BY <1>8 DEF vars, IInv, Types, Newest, Clocks, Held
  <2>2. Lives' /\ Listed' /\ Roles' /\ First'
    BY <1>8 DEF vars, IInv, Lives, Listed, Roles, First
  <2> QED  BY <2>1, <2>2 DEF IInv
<1> QED  BY <1>1, <1>2, <1>3, <1>4, <1>5, <1>6, <1>7, <1>8 DEF Next

LEMMA Invariance == Spec => []IInv
BY InitInv, NextKeeps, PTL DEF Spec

(* The types of keys, policy and requests. *)
THEOREM TypeCorrect == Spec => []TypeOK
<1>1. IInv => TypeOK
  <2> SUFFICES ASSUME IInv PROVE \A k \in Keys : key[k].st # "none" => k <= nkeys
    BY DEF IInv, Types, TypeOK
  <2>1. nkeys \in Nat /\ \A k \in Keys : k \in Nat
    BY KeyConstants DEF IInv, Types, Keys
  <2> QED  BY <2>1 DEF IInv, Newest
<1> QED  BY <1>1, Invariance, PTL

(* Exactly the newest key is active, whoever replaces it and in whichever  *)
(* order the transactions of replaceSigningKey commit, and first use       *)
(* provisions a key only when there is none.                               *)
THEOREM NewestIsActive == Spec => []OneActiveKey
<1>1. IInv => OneActiveKey
  <2> SUFFICES ASSUME IInv, NEW k \in 1..nkeys PROVE key[k].st = "active" <=> k = nkeys
    BY DEF OneActiveKey, IInv, First
  <2>1. nkeys \in Nat /\ k \in Nat /\ k \in Keys /\ k <= nkeys
    BY KeyConstants DEF IInv, Types, Keys
  <2> QED  BY <2>1 DEF IInv, Newest
<1> QED  BY <1>1, Invariance, PTL

(* A token verifies until it expires, with any number of replicas,         *)
(* replacements and crashes and for every lifetime of tokens; where the    *)
(* grace period is shorter than that lifetime and two requests, it stops   *)
(* verifying at most by the difference too early.                          *)
THEOREM TokensVerify == Spec => []LiveTokensVerify
<1>1. IInv => LiveTokensVerify
  <2> SUFFICES ASSUME IInv, NEW k \in Keys, now + Shortfall < liveUntil[k] PROVE k \in Published
    BY DEF LiveTokensVerify
  <2>1. k \in Nat /\ nkeys \in Nat /\ now \in Nat /\ liveUntil[k] \in Nat /\ key[k].exp \in Nat
    BY KeyConstants DEF IInv, Types, Keys, Key
  <2>2. /\ k < nkeys => liveUntil[k] <= key[k].exp + Shortfall
        /\ k > nkeys => liveUntil[k] = 0
    BY DEF IInv, Lives
  <2>3. CASE k < nkeys
    <3>1. now < key[k].exp
      BY <2>1, <2>2, <2>3, ShortfallCovers
    <3> QED  BY <2>3, <3>1 DEF IInv, Newest, Published
  <2>4. CASE k = nkeys
    BY <2>4 DEF IInv, Newest, Published
  <2>5. CASE k > nkeys
    BY <2>1, <2>2, <2>5, ShortfallCovers
  <2> QED  BY <2>1, <2>3, <2>4, <2>5
<1> QED  BY <1>1, Invariance, PTL

(* The three statements of newOrgDBSigner agree on the signing key, if the *)
(* grace period is longer than two requests take.                          *)
THEOREM SnapshotsAgree == ASSUME GraceCoversRequests PROVE Spec => []SnapshotSigns
<1>1. IInv => SnapshotSigns
  BY DEF IInv, Listed, SnapshotSigns
<1> QED  BY <1>1, Invariance, PTL

(* An imported key gives way to an import or to its removal only. *)
THEOREM ImportedIsKept == Spec => ImportedKept
<1> DEFINE Kept == (Imported /\ nkeys' # nkeys) =>
             \E r \in Admins : /\ req[r].op \in {"import", "remove"}
                               /\ At(r, "replace") /\ ~At(r, "replace")'
<1>1. IInv /\ [Next]_vars => Kept
  <2> SUFFICES ASSUME IInv, [Next]_vars, Imported, nkeys' # nkeys
               PROVE  \E r \in Admins : /\ req[r].op \in {"import", "remove"}
                                        /\ At(r, "replace") /\ ~At(r, "replace")'
    OBVIOUS
  <2>1. PICK r \in Procs : ReplaceForOrg(r)
    BY DEF Next, vars, Tick, ListDue, GetActiveForOrg, GetJWKSKeysForOrg, Sign, ChangeKey, SetPolicy,
       UpsertForOrg, Rotation, BeginReplace, KeepKey, MarkRotatedForOrg, Crash
  <2>2. req[r].op # "sign" /\ req[r].op # "rotate"
    BY <2>1 DEF ReplaceForOrg, Provisioned, Rejected, Imported
  <2>3. req[r].op \in {"import", "remove"} /\ req' = [req EXCEPT ![r] = IdleReq] /\ At(r, "replace")
    BY <2>1, <2>2 DEF ReplaceForOrg, AfterReplace, Finish
  <2>4. r \in Admins
    BY <2>3 DEF IInv, Roles
  <2>5. req'[r].pc = "idle"
    BY <2>3, IdleSuits DEF IInv, Types
  <2> QED  BY <2>3, <2>4, <2>5
<1>2. Spec => [][Kept]_vars
  BY <1>1, Invariance, PTL DEF Spec
<1> QED  BY <1>2 DEF ImportedKept
=============================================================================
