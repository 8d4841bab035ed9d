---------------------------- MODULE KeyRotation ----------------------------
(***************************************************************************)
(* The signing keys of one organisation.  Requests resolve the key they    *)
(* sign with, provisioning one at first use; the worker of every replica   *)
(* and administrators replace it.  A replacement is one transaction under  *)
(* an advisory lock; resolving is three statements, rotating two, and      *)
(* setting a policy two, with anything in between.  A key is a number in   *)
(* order of insertion, the clock one of database and replicas.  Post-      *)
(* quantum keys and the keys of the installation have rows, policies and   *)
(* code of the same shape.                                                 *)
(***************************************************************************)
EXTENDS Naturals, FiniteSets

CONSTANTS
  Signers,    \* slots of requests that sign
  Admins,     \* slots of administrators' requests
  Workers,    \* the rotation worker of each replica
  MaxKeys,    \* bound on the keys ever inserted
  TokenTTL,   \* lifetime of a token
  Grace,      \* signingKeyGracePeriod
  MaxReq,     \* the longest that a request or a tick of a worker takes
  Interval,   \* rotation_interval_days
  MaxTime     \* bound on the clock

ASSUME KeyConstants ==
  /\ MaxKeys \in Nat /\ TokenTTL \in Nat \ {0} /\ Grace \in Nat /\ MaxReq \in Nat
  /\ Interval \in Nat \ {0} /\ MaxTime \in Nat
  /\ Signers \cap Admins = {} /\ (Signers \cup Admins) \cap Workers = {}

VARIABLES
  now,        \* the clock
  nkeys,      \* rows of signing_keys inserted so far
  key,        \* status, key_source and expires_at of each
  policy,     \* rotation_policy
  last,       \* last_rotated_at plus one; 0 while it is NULL
  req,        \* the locals of each handler and worker
  liveUntil,  \* when the last token signed by a key expires; 0 once it has (history)
  firstUse    \* the keys that were inserted by provisioning (history)

vars == <<now, nkeys, key, policy, last, req, liveUntil, firstUse>>

Procs == Signers \cup Admins \cup Workers
Keys == 1..MaxKeys
NoKey == 0
Key == [st : {"none", "active", "retired"}, src : {"generated", "imported"}, exp : Nat]

(* since is when the handler started, at the NOW() of its transaction, new *)
(* the policy it sets; key is the key it resolved, and listed says whether *)
(* the sets of keys that it has read so far contain it.                    *)
Req == [op : {"none", "sign", "rotate", "import", "remove", "policy"},
        pc : {"idle", "begin", "replace", "reload", "jwks", "verification", "sign",
              "mark", "upsert"},
        since : Nat, at : Nat, key : 0..MaxKeys, listed : BOOLEAN,
        new : {"manual", "scheduled"}]

IdleReq == [op |-> "none", pc |-> "idle", since |-> 0, at |-> 0, key |-> NoKey,
            listed |-> TRUE, new |-> "manual"]
NoRow == [st |-> "none", src |-> "generated", exp |-> 0]

(* The types; only rows that were inserted exist. *)
TypeOK ==
  /\ now \in Nat
  /\ nkeys \in 0..MaxKeys
  /\ key \in [Keys -> Key]
  /\ policy \in {"none", "manual", "scheduled"}
  /\ last \in 0..(now + 1)
  /\ req \in [Procs -> Req]
  /\ liveUntil \in [Keys -> Nat]
  /\ firstUse \subseteq Keys
  /\ \A k \in Keys : key[k].st # "none" => k <= nkeys

Init ==
  /\ now = 0
  /\ nkeys = 0
  /\ key = [k \in Keys |-> NoRow]
  /\ policy = "none"
  /\ last = 0
  /\ req = [r \in Procs |-> IdleReq]
  /\ liveUntil = [k \in Keys |-> 0]
  /\ firstUse = {}

At(r, l) == req[r].pc = l
New(op, l, k, new) == [op |-> op, pc |-> l, since |-> now, at |-> now, key |-> k,
                       listed |-> TRUE, new |-> new]
Goto(r, l) == req' = [req EXCEPT ![r].pc = l]
Finish(r) == req' = [req EXCEPT ![r] = IdleReq]

Active == {k \in Keys : key[k].st = "active"}
Imported == \E k \in Active : key[k].src = "imported"

(* GetJWKSKeysForOrg *)
Published ==
  {k \in Keys : key[k].st = "active" \/ (key[k].st = "retired" /\ now < key[k].exp)}

(***************************************************************************)
(* Replacing the active key: the transaction of replaceSigningKey.         *)
(***************************************************************************)

(* NOW() is the time at which the transaction begins; it may then wait for *)
(* the advisory lock.                                                      *)
BeginReplace(r) ==
  /\ At(r, "begin")
  /\ req' = [req EXCEPT ![r] = [@ EXCEPT !.pc = "replace", !.at = now]]
  /\ UNCHANGED <<now, nkeys, key, policy, last, liveUntil, firstUse>>

(* ProvisionOnly, and another request was faster. *)
Provisioned(r) == req[r].op = "sign" /\ Active # {}

(* Mutant: only the policy keeps imported keys from being rotated. *)
RejectedNever(r) == FALSE

(* RejectImported *)
Rejected(r) == req[r].op = "rotate" /\ Imported

(* Mutant: the retired key has expired already. *)
RetireAtOnce(r, k) == [key[k] EXCEPT !.st = "retired", !.exp = now]

(* Mutant: the old key stays active. *)
RetireForgotten(r, k) == key[k]

Retire(r, k) == [key[k] EXCEPT !.st = "retired", !.exp = req[r].at + Grace]

Inserted(r) ==
  [st |-> "active", src |-> IF req[r].op = "import" THEN "imported" ELSE "generated",
   exp |-> 0]

AfterReplace(r) ==
  \/ req[r].op = "sign" /\ Goto(r, "reload")
  \/ req[r].op = "rotate" /\ Goto(r, "mark")
  \/ req[r].op \in {"import", "remove"} /\ Finish(r)

ReplaceForOrg(r) ==
  /\ At(r, "replace") /\ ~Provisioned(r) /\ ~Rejected(r)
  /\ nkeys < MaxKeys
  /\ nkeys' = nkeys + 1
  /\ key' = [k \in Keys |-> IF k = nkeys + 1 THEN Inserted(r)
                            ELSE IF k \in Active THEN Retire(r, k) ELSE key[k]]
  /\ firstUse' = IF req[r].op = "sign" THEN firstUse \cup {nkeys + 1} ELSE firstUse
  /\ AfterReplace(r)
  /\ UNCHANGED <<now, policy, last, liveUntil>>

(* The transaction finds a key that it must not replace. *)
KeepKey(r) ==
  /\ At(r, "replace")
  /\ \/ Provisioned(r) /\ Goto(r, "reload")
     \/ ~Provisioned(r) /\ Rejected(r) /\ Finish(r)
  /\ UNCHANGED <<now, nkeys, key, policy, last, liveUntil, firstUse>>

(***************************************************************************)
(* Requests that sign: Resolve, then the token.                            *)
(***************************************************************************)

(* newOrgDBSigner reads the active key.  Without one Resolve provisions a  *)
(* key, and reads again.                                                   *)
GetActiveForOrg(r) ==
  /\ r \in Signers
  /\ \/ \E k \in Active :
          \/ At(r, "idle") /\ req' = [req EXCEPT ![r] = New("sign", "jwks", k, "manual")]
          \/ At(r, "reload") /\ req' = [req EXCEPT ![r] = [@ EXCEPT !.pc = "jwks", !.key = k]]
     \/ At(r, "idle") /\ Active = {} /\ req' = [req EXCEPT ![r] = New("sign", "begin", NoKey, "manual")]
  /\ UNCHANGED <<now, nkeys, key, policy, last, liveUntil, firstUse>>

(* The published and the verification keys are read by two statements. *)
GetJWKSKeysForOrg(r) ==
  /\ \/ At(r, "jwks") /\ req' = [req EXCEPT ![r] = [@ EXCEPT !.pc = "verification",
                                       !.listed = (req[r].key \in Published)]]
     \/ At(r, "verification") /\ req' = [req EXCEPT ![r] = [@ EXCEPT !.pc = "sign",
                                       !.listed = (req[r].listed /\ req[r].key \in Published)]]
  /\ UNCHANGED <<now, nkeys, key, policy, last, liveUntil, firstUse>>

Sign(r) ==
  /\ At(r, "sign")
  /\ liveUntil' = [liveUntil EXCEPT ![req[r].key] = now + TokenTTL]
  /\ Finish(r)
  /\ UNCHANGED <<now, nkeys, key, policy, last, firstUse>>

(***************************************************************************)
(* Administrators.                                                         *)
(***************************************************************************)

(* Rotate, Upsert and Delete of the handlers: their first statement begins *)
(* the transaction.  Upsert without a key to import generates one, which   *)
(* is Rotate without the mark, as after a crash.                           *)
ChangeKey(r, op) ==
  /\ r \in Admins /\ At(r, "idle")
  /\ op \in {"rotate", "import", "remove"}
  /\ req' = [req EXCEPT ![r] = New(op, "replace", NoKey, "manual")]
  /\ UNCHANGED <<now, nkeys, key, policy, last, liveUntil, firstUse>>

(* SetPolicy refuses to schedule the rotation of an imported key. *)
SetPolicy(r, new) ==
  /\ r \in Admins /\ At(r, "idle")
  /\ new = "scheduled" => ~Imported
  /\ req' = [req EXCEPT ![r] = New("policy", "upsert", NoKey, new)]
  /\ UNCHANGED <<now, nkeys, key, policy, last, liveUntil, firstUse>>

UpsertForOrg(r) ==
  /\ At(r, "upsert")
  /\ policy' = req[r].new
  /\ Finish(r)
  /\ UNCHANGED <<now, nkeys, key, last, liveUntil, firstUse>>

(***************************************************************************)
(* The worker.                                                             *)
(***************************************************************************)

(* Mutant: a policy that never rotated is never due. *)
DueNull == policy = "scheduled" /\ last > 0 /\ last - 1 + Interval <= now

Due == policy = "scheduled" /\ (last = 0 \/ last - 1 + Interval <= now)

ListDue(w) ==
  /\ w \in Workers /\ At(w, "idle")
  /\ Due
  /\ req' = [req EXCEPT ![w] = New("rotate", "begin", NoKey, "manual")]
  /\ UNCHANGED <<now, nkeys, key, policy, last, liveUntil, firstUse>>

Stamp == now + 1

(* The worker and the handler Rotate write the time in a statement of its  *)
(* own, which changes nothing when there is no policy.                     *)
MarkRotatedForOrg(r) ==
  /\ At(r, "mark")
  /\ last' = IF policy = "none" THEN last ELSE Stamp
  /\ Finish(r)
  /\ UNCHANGED <<now, nkeys, key, policy, liveUntil, firstUse>>

(***************************************************************************)
(* Environment.                                                            *)
(***************************************************************************)

(* A statement fails or the replica dies. *)
Crash(r) ==
  /\ ~At(r, "idle")
  /\ Finish(r)
  /\ UNCHANGED <<now, nkeys, key, policy, last, liveUntil, firstUse>>

Tick ==
  /\ now < MaxTime
  /\ \A r \in Procs : ~At(r, "idle") => now < req[r].since + MaxReq
  /\ now' = now + 1
  /\ liveUntil' = [k \in Keys |-> IF liveUntil[k] <= now + 1 THEN 0 ELSE liveUntil[k]]
  /\ UNCHANGED <<nkeys, key, policy, last, req, firstUse>>

Rotation(r) == BeginReplace(r) \/ ReplaceForOrg(r) \/ KeepKey(r) \/ MarkRotatedForOrg(r)

Next ==
  \/ Tick
  \/ \E w \in Workers : ListDue(w)
  \/ \E r \in Signers : GetActiveForOrg(r) \/ GetJWKSKeysForOrg(r) \/ Sign(r)
  \/ \E r \in Admins :
       \/ \E op \in {"rotate", "import", "remove"} : ChangeKey(r, op)
       \/ \E new \in {"manual", "scheduled"} : SetPolicy(r, new)
       \/ UpsertForOrg(r)
  \/ \E r \in Procs : Rotation(r) \/ Crash(r)

Spec == Init /\ [][Next]_vars

(***************************************************************************)
(* Fairness: the ticker of a worker fires again and again, and none of its *)
(* statements fails for ever, so crashes do not keep the worker from       *)
(* getting through.  Nothing is assumed of requests and administrators.    *)
(***************************************************************************)
Fairness ==
  \A w \in Workers :
    /\ WF_vars(ListDue(w))
    /\ SF_vars(BeginReplace(w))
    /\ SF_vars(ReplaceForOrg(w) \/ KeepKey(w))
    /\ SF_vars(MarkRotatedForOrg(w))

FairSpec == Spec /\ Fairness

(***************************************************************************)
(* Properties.                                                             *)
(***************************************************************************)

(* From the first use on there is exactly one active key, the newest,      *)
(* whoever provisions, imports, rotates and removes at the same time.      *)
(* "The scope lock also serialises first-use provisioning with imports and *)
(* scheduled/manual rotation": a request that found no key provisions one  *)
(* only if there is still none.                                            *)
OneActiveKey ==
  /\ \A k \in 1..nkeys : key[k].st = "active" <=> k = nkeys
  /\ firstUse \subseteq {1}

(* The grace period of the code is a constant, a day, and nothing bounds   *)
(* the configured lifetime of tokens by it: this is how much it lacks to   *)
(* cover a token, the request that signs it and the one that replaces the  *)
(* key.                                                                    *)
Shortfall == IF Grace < TokenTTL + 2 * MaxReq THEN TokenTTL + 2 * MaxReq - Grace ELSE 0

(* "Outstanding tokens stay verifiable": a token was signed by a key that  *)
(* is still published, until it expires or until Shortfall before it does, *)
(* even if the request resolved the key before it was replaced, if two     *)
(* replicas rotate one after the other, or if a crash loses the mark and   *)
(* the key is rotated again.                                               *)
LiveTokensVerify == \A k \in Keys : now + Shortfall < liveUntil[k] => k \in Published

(* A request signs with a key of the sets it resolved with it, although    *)
(* the key and the two sets are read by three statements.                  *)
SnapshotSigns == \A r \in Signers : At(r, "sign") => req[r].listed

(* "never silent generation": an imported key is replaced by an import or  *)
(* by its removal only, also when it is imported after its rotation was    *)
(* scheduled or while a worker is about to rotate.                         *)
ImportedKept ==
  [][(Imported /\ nkeys' # nkeys) =>
       \E r \in Admins : /\ req[r].op \in {"import", "remove"}
                         /\ At(r, "replace") /\ ~At(r, "replace")']_vars

(* A scheduled rotation that is due happens, in spite of crashes, unless   *)
(* the policy changes or the key is an imported one.                       *)
DueIsRotated ==
  (policy = "scheduled" /\ (last = 0 \/ now >= last - 1 + Interval)) ~>
    (policy # "scheduled" \/ now < last - 1 + Interval \/ Imported \/ nkeys = MaxKeys)
=============================================================================
