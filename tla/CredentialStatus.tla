-------------------------- MODULE CredentialStatus --------------------------
(***************************************************************************)
(* The registry of issued credentials and the status lists that publish    *)
(* their states.  Issuance reserves a slot of a list; operators, wallets,  *)
(* the inactivity pass and federated partners revoke, suspend and restore; *)
(* the monitor of every replica follows the attestations that a credential *)
(* depends on; verifiers decide under locks.  A transaction takes its row  *)
(* locks one statement at a time and its writes appear at its commit.      *)
(* Lists are numbered by list_index; the credentials of the model do not   *)
(* expire (expires_at is NULL) and the organisation stays active.          *)
(***************************************************************************)
EXTENDS Naturals, FiniteSets

CONSTANTS
  Creds,      \* credentials
  Legacy,     \* the credentials issued before lists had two bits
  Dependent,  \* the credentials with status_parents
  ById,       \* the pairs of them in the order of their ids
  Slots,      \* indexes of a list
  MaxLists,   \* bound on the number of lists
  Issuers,    \* slots of issuance transactions
  Operators,  \* slots of requests that change the state of one credential
  Partners,   \* slots of federated revocations
  Monitors,   \* the status monitor of each replica
  Verifiers,  \* slots of transactions that rely on a credential
  RevokeLimit,  \* the LIMIT of a federated revocation
  PollLimit     \* the LIMIT of a pass of the monitor

ASSUME StatusConstants ==
  /\ Legacy \subseteq Creds /\ Dependent \subseteq Creds \ Legacy
  /\ ById \subseteq Dependent \X Dependent
  /\ \A c, d \in Dependent : c # d => (<<c, d>> \in ById <=> <<d, c>> \notin ById)
  /\ RevokeLimit \in Nat \ {0} /\ PollLimit \in Nat \ {0}
  /\ IsFiniteSet(Slots) /\ Slots # {} /\ MaxLists \in Nat \ {0}
  /\ Issuers \cap (Operators \cup Partners \cup Monitors \cup Verifiers) = {}
  /\ Operators \cap (Partners \cup Monitors \cup Verifiers) = {}
  /\ Partners \cap (Monitors \cup Verifiers) = {} /\ Monitors \cap Verifiers = {}

VARIABLES
  cred,       \* the rows of issued_credentials
  fresh,      \* parents_checked_at is less than 30 seconds ago
  older,      \* ORDER BY parents_checked_at NULLS FIRST, id: the pairs in this order
  nlists,     \* rows of credential_status_lists
  list,       \* the lists
  parent,     \* what the external lists say of the parents of a credential
  answering,  \* the credentials whose external lists answer in time
  req,        \* the locals of each request and worker
  confirmed,  \* the confirmed federated revocations (history)
  holder,     \* is_active of the user that holds the credentials
  erased,     \* the credentials that the erasure of their holder revoked (history)
  quiet       \* a time without further requests and failures has come

checks == <<fresh, older>>
external == <<parent, answering>>
vars == <<cred, checks, nlists, list, external, req, confirmed, holder, erased, quiet>>

Procs == Issuers \cup Operators \cup Partners \cup Monitors \cup Verifiers
Lists == 1..MaxLists
NoList == 0
NoCred == "none"
NoSlot == "none"

(* The values of a list: valid, revoked, suspended. *)
ValueOf == [ok |-> 0, revoked |-> 1, suspended |-> 2]

Cred == [st : {"none", "ok", "revoked", "suspended"}, hold : BOOLEAN,
         list : 0..MaxLists, slot : Slots \cup {NoSlot}]
List == [bits : {1, 2}, alloc : SUBSET Slots, next : Nat, val : [Slots -> 0..2]]

(* read is the list as the transaction read it, row the credential; to is  *)
(* the state that is being set, todo the rest of a loop's credentials, all *)
(* what the loop began with less what it skipped, and asked the            *)
(* credentials that a federated revocation concerns.                       *)
Req == [pc : {"idle", "reserve", "record", "loop", "fetch", "list", "write", "check", "decide"},
        cred : Creds \cup {NoCred}, to : {"none", "ok", "revoked", "suspended"},
        list : 0..MaxLists, row : Cred, read : List,
        todo : SUBSET Creds, all : SUBSET Creds, asked : SUBSET Creds]

NoRow == [st |-> "none", hold |-> FALSE, list |-> NoList, slot |-> NoSlot]
EmptyList == [bits |-> 2, alloc |-> {}, next |-> 0, val |-> [s \in Slots |-> 0]]
IdleReq == [pc |-> "idle", cred |-> NoCred, to |-> "none", list |-> NoList, row |-> NoRow,
            read |-> EmptyList, todo |-> {}, all |-> {}, asked |-> {}]

(* The types; the entries of a list fit the width it is published with. *)
TypeOK ==
  /\ cred \in [Creds -> Cred]
  /\ fresh \in [Dependent -> BOOLEAN] /\ older \subseteq Dependent \X Dependent
  /\ nlists \in 0..MaxLists
  /\ list \in [Lists -> List]
  /\ parent \in [Dependent -> {"ok", "suspended", "revoked"}]
  /\ answering \subseteq Dependent
  /\ req \in [Procs -> Req]
  /\ confirmed \subseteq SUBSET Creds /\ erased \subseteq Creds /\ holder \in BOOLEAN
  /\ quiet \in BOOLEAN
  /\ \A l \in Lists, s \in Slots : list[l].val[s] < 2^list[l].bits

(* A legacy credential has no slot, or one of a list of one bit, whose     *)
(* other slots may belong to credentials that were erased; or there are no *)
(* credentials yet.                                                        *)
Init ==
  /\ \/ /\ nlists = 0
        /\ \E old \in SUBSET Legacy :
             cred = [c \in Creds |-> IF c \in old THEN [NoRow EXCEPT !.st = "ok"] ELSE NoRow]
        /\ list = [l \in Lists |-> EmptyList]
     \/ /\ nlists = 1
        /\ \E A \in SUBSET Slots, o \in Legacy :
           LET s == CHOOSE s \in Slots : TRUE IN
             /\ cred = [c \in Creds |->
                          IF c = o THEN [st |-> "ok", hold |-> FALSE, list |-> 1, slot |-> s]
                                   ELSE NoRow]
             /\ list = [l \in Lists |->
                          IF l = 1 THEN [EmptyList EXCEPT !.bits = 1, !.alloc = A \cup {s},
                                                          !.next = Cardinality(A \cup {s})]
                                   ELSE EmptyList]
  /\ fresh = [c \in Dependent |-> FALSE] /\ older = ById
  /\ parent = [c \in Dependent |-> "ok"] /\ answering = Dependent
  /\ req = [r \in Procs |-> IdleReq]
  /\ confirmed = {} /\ erased = {} /\ holder = TRUE
  /\ quiet = FALSE

At(r, l) == req[r].pc = l
Set(r, v) == req' = [req EXCEPT ![r] = v]
Arrives(r) == At(r, "idle") /\ ~quiet

(***************************************************************************)
(* Row locks are held until the transaction ends.                          *)
(***************************************************************************)

(* FOR UPDATE of a credential: a state change or a poll. *)
CredExclusive(c) == \E r \in Procs : req[r].cred = c /\ req[r].pc \in {"fetch", "list", "write"}

(* FOR SHARE: a verification. *)
CredShared(c) == \E r \in Verifiers : req[r].cred = c /\ req[r].pc \in {"check", "decide"}

CredFree(c) == ~CredExclusive(c) /\ ~CredShared(c)

ListExclusive(l) == \E r \in Procs : req[r].list = l /\ req[r].pc \in {"write", "record"}
ListShared(l) == \E r \in Verifiers : req[r].list = l /\ req[r].pc = "decide"

(* Mutant: the list is read without a lock. *)
ListFreeAlways(l) == TRUE

ListFree(l) == ~ListExclusive(l) /\ ~ListShared(l)

(***************************************************************************)
(* Issuance: AllocateCredentialStatus and RecordCredentialWithStatus.      *)
(***************************************************************************)

(* pg_advisory_xact_lock is held until the issuance ends. *)
AdvisoryFree == \A r \in Issuers : At(r, "idle")

(* GetOrCreateStatusList: the last list with free slots, or a new one. *)
Candidates == {l \in 1..nlists : list[l].next < Cardinality(Slots)}
ChosenList ==
  IF Candidates = {} THEN nlists + 1
  ELSE CHOOSE l \in Candidates : \A m \in Candidates : m <= l

GetOrCreateStatusList(r, c) ==
  /\ r \in Issuers /\ Arrives(r)
  /\ c \in Creds /\ cred[c].st = "none" /\ holder
  /\ AdvisoryFree
  /\ ChosenList <= MaxLists
  /\ Set(r, [IdleReq EXCEPT !.pc = "reserve", !.cred = c, !.list = ChosenList])
  /\ UNCHANGED <<cred, checks, nlists, list, external, confirmed, holder, erased, quiet>>

(* Mutant: the slot is drawn from all slots. *)
FreeSlotsAll(l) == Slots

FreeSlots(l) == Slots \ list[l].alloc

(* allocateRandomStatusIndex reads the list under its lock; it fails when  *)
(* the list is full or the count is not that of the reserved slots.        *)
AllocateStatusIndex(r, s) ==
  LET l == req[r].list IN
  /\ At(r, "reserve")
  /\ ListFree(l)
  /\ list[l].next = Cardinality(list[l].alloc)
  /\ s \in FreeSlots(l)
  /\ Set(r, [req[r] EXCEPT !.pc = "record", !.read = list[l],
                           !.row = [st |-> "ok", hold |-> FALSE, list |-> l, slot |-> s]])
  /\ UNCHANGED <<cred, checks, nlists, list, external, confirmed, holder, erased, quiet>>

(* Only the reservation is written. *)
Reserve(r) ==
  [list[req[r].list] EXCEPT !.next = @ + 1, !.alloc = @ \cup {req[r].row.slot}]

(* The record, its parents and the reservation are committed together. *)
RecordCredentialWithStatus(r) ==
  /\ At(r, "record")
  /\ cred[req[r].cred].st = "none"
  /\ cred' = [cred EXCEPT ![req[r].cred] = req[r].row]
  /\ list' = [list EXCEPT ![req[r].list] = Reserve(r)]
  /\ nlists' = IF req[r].list > nlists THEN req[r].list ELSE nlists
  /\ Set(r, IdleReq)
  /\ UNCHANGED <<checks, external, confirmed, holder, erased, quiet>>

(***************************************************************************)
(* setIssuedCredentialState.                                               *)
(***************************************************************************)

Tracked(c) == cred[c].list # NoList

(* Mutant: a revoked credential can be set to another state. *)
AllowedAgain(c, to) ==
  /\ to = "ok" => cred[c].st # "ok"
  /\ to = "suspended" => cred[c].st # "suspended" /\ Tracked(c)

(* Revocation is terminal, only a suspended credential is restored, and a  *)
(* suspension needs a published status.                                    *)
Allowed(c, to) ==
  /\ cred[c].st # "revoked"
  /\ to = "ok" => cred[c].st = "suspended"
  /\ to = "suspended" => cred[c].st # "suspended" /\ Tracked(c)

Locals(r, c, to) == [req[r] EXCEPT !.pc = "list", !.cred = c, !.to = to, !.row = cred[c]]

(* RevokeCredential, SuspendCredential and RestoreCredential of operators, *)
(* notifications of wallets, and the inactivity pass, which may revoke     *)
(* what it listed long ago.  A refused change leaves the request idle.     *)
LockCredential(r, c, to) ==
  /\ r \in Operators /\ Arrives(r)
  /\ cred[c].st # "none" /\ CredFree(c)
  /\ Allowed(c, to)
  /\ Set(r, Locals(r, c, to))
  /\ UNCHANGED <<cred, checks, nlists, list, external, confirmed, holder, erased, quiet>>

LockList(r) ==
  LET l == req[r].row.list IN
  /\ At(r, "list") /\ r \notin Verifiers
  /\ l # NoList => ListFree(l)
  /\ Set(r, [req[r] EXCEPT !.pc = "write", !.list = l,
                           !.read = IF l = NoList THEN EmptyList ELSE list[l]])
  /\ UNCHANGED <<cred, checks, nlists, list, external, confirmed, holder, erased, quiet>>

(* A list of one bit is widened by the first suspension. *)
Widen(old, to) == IF to = "suspended" THEN [old EXCEPT !.bits = 2] ELSE old

(* Set refuses a value that does not fit. *)
Fits(old, to) == ValueOf[to] < 2^old.bits

(* Mutant: the new width is not stored. *)
NewListNarrow(r) ==
  [list[req[r].list] EXCEPT !.val = [req[r].read.val EXCEPT ![req[r].row.slot] = ValueOf[req[r].to]]]

(* encoded and bits are written as the transaction computed them. *)
NewList(r) ==
  LET old == Widen(req[r].read, req[r].to)
  IN  [list[req[r].list] EXCEPT !.bits = old.bits,
         !.val = [old.val EXCEPT ![req[r].row.slot] = ValueOf[req[r].to]]]

(* parent_status_hold: set by the monitor's suspension, cleared by any     *)
(* other change.                                                           *)
Hold(r) == req[r].to = "suspended" /\ r \in Monitors

NewRow(r) == [req[r].row EXCEPT !.st = req[r].to, !.hold = Hold(r)]

(* A request is done, a loop goes on. *)
AfterWrite(r) ==
  IF r \in Operators THEN IdleReq
  ELSE [IdleReq EXCEPT !.pc = "loop", !.todo = req[r].todo, !.all = req[r].all,
                          !.asked = req[r].asked]

(* Mutant: the stamp does not change the order of the candidates. *)
StampedInPlace(c) == older

(* The credential c becomes the one that was checked last. *)
Stamped(c) == {p \in older : p[1] # c} \cup ((Dependent \ {c}) \X {c})

(* The commit; the monitor's transaction also stamps parents_checked_at,   *)
(* and may have nothing else to write.                                     *)
CommitState(r) ==
  /\ At(r, "write")
  /\ req[r].to # "none" => Fits(Widen(req[r].read, req[r].to), req[r].to)
  /\ cred' = IF req[r].to = "none" THEN cred ELSE [cred EXCEPT ![req[r].cred] = NewRow(r)]
  /\ list' = IF req[r].to = "none" \/ req[r].list = NoList THEN list
             ELSE [list EXCEPT ![req[r].list] = NewList(r)]
  /\ fresh' = IF r \in Monitors THEN [fresh EXCEPT ![req[r].cred] = TRUE] ELSE fresh
  /\ older' = IF r \in Monitors THEN Stamped(req[r].cred) ELSE older
  /\ Set(r, AfterWrite(r))
  /\ UNCHANGED <<nlists, external, confirmed, holder, erased, quiet>>

(***************************************************************************)
(* Federated revocation: RevokeByVCTAndUser.                               *)
(***************************************************************************)

Unrevoked == {c \in Creds : cred[c].st \notin {"none", "revoked"}}

(* LIMIT without ORDER BY: the query returns any RevokeLimit rows when     *)
(* there are more.                                                         *)
ListTargets(r, T) ==
  /\ r \in Partners /\ Arrives(r)
  /\ T \subseteq Unrevoked
  /\ Cardinality(T) <= RevokeLimit /\ (T = Unrevoked \/ Cardinality(T) = RevokeLimit)
  /\ Set(r, [IdleReq EXCEPT !.pc = "loop", !.todo = T, !.all = T, !.asked = Unrevoked])
  /\ UNCHANGED <<cred, checks, nlists, list, external, confirmed, holder, erased, quiet>>

(* A credential that was revoked in the meantime is an error, which ends   *)
(* the loop and refuses the event.                                         *)
RevokeTarget(r, c) ==
  /\ r \in Partners /\ At(r, "loop") /\ c \in req[r].todo
  /\ CredFree(c)
  /\ IF Allowed(c, "revoked")
     THEN Set(r, [Locals(r, c, "revoked") EXCEPT !.todo = @ \ {c}])
     ELSE Set(r, IdleReq)
  /\ UNCHANGED <<cred, checks, nlists, list, external, confirmed, holder, erased, quiet>>

ConfirmTargets(r) ==
  /\ r \in Partners /\ At(r, "loop") /\ req[r].todo = {}
  /\ confirmed' = confirmed \cup {req[r].asked}
  /\ Set(r, IdleReq)
  /\ UNCHANGED <<cred, checks, nlists, list, external, holder, erased, quiet>>

(***************************************************************************)
(* Erasure of the holder, by an administrator or when a request is due.    *)
(***************************************************************************)

(* Mutant: the erasure does not lock the user. *)
HolderFreeAlways == TRUE

(* An issuance holds a SHARE lock of the user from before it allocates. *)
HolderFree == \A r \in Issuers : At(r, "idle")

(* One transaction deactivates the user and revokes what is held, in the   *)
(* registry only: the lists keep their values, and is_suspended and        *)
(* parent_status_hold stay.                                                *)
GDPRErasure ==
  LET T == Unrevoked IN
  /\ ~quiet /\ holder /\ HolderFree
  /\ \A c \in T : CredFree(c)
  /\ holder' = FALSE
  /\ cred' = [c \in Creds |-> [cred[c] EXCEPT !.st = IF c \in T THEN "revoked" ELSE @]]
  /\ erased' = T
  /\ UNCHANGED <<checks, nlists, list, external, req, confirmed, quiet>>

(***************************************************************************)
(* The monitor: PollWalletStatusParents.                                   *)
(***************************************************************************)

Pollable(c) == cred[c].st \in {"ok", "suspended"} /\ ~fresh[c]

(* The candidates up to c, oldest first. *)
Turn(c) == {d \in Dependent : Pollable(d) /\ (d = c \/ <<d, c>> \in older)}

ListParents(m) ==
  LET T == {c \in Dependent : Pollable(c) /\ Cardinality(Turn(c)) <= PollLimit} IN
  /\ m \in Monitors /\ At(m, "idle") /\ T # {}
  /\ Set(m, [IdleReq EXCEPT !.pc = "loop", !.todo = T, !.all = T])
  /\ UNCHANGED <<cred, checks, nlists, list, external, confirmed, holder, erased, quiet>>

(* The oldest that is left, FOR UPDATE SKIP LOCKED with the conditions of  *)
(* the list once more.                                                     *)
LockParent(m, c) ==
  /\ m \in Monitors /\ At(m, "loop") /\ c \in req[m].todo
  /\ \A d \in req[m].todo \ {c} : <<c, d>> \in older
  /\ IF Pollable(c) /\ CredFree(c)
     THEN Set(m, [req[m] EXCEPT !.pc = "fetch", !.cred = c, !.row = cred[c], !.todo = @ \ {c}])
     ELSE Set(m, [req[m] EXCEPT !.todo = @ \ {c}, !.all = @ \ {c}])
  /\ UNCHANGED <<cred, checks, nlists, list, external, confirmed, holder, erased, quiet>>

(* What an answer makes of a credential; "unavailable" changes nothing. *)
Follow(row, answer) ==
  CASE answer = "revoked" -> "revoked"
    [] answer = "suspended" /\ row.st # "suspended" -> "suspended"
    [] answer = "ok" /\ row.st = "suspended" /\ row.hold -> "ok"
    [] OTHER -> "none"

(* Every external list has 3 seconds to answer. *)
CheckStatusParents(m, answer) ==
  /\ At(m, "fetch")
  /\ answer = IF req[m].cred \in answering THEN parent[req[m].cred] ELSE "unavailable"
  /\ LET to == Follow(req[m].row, answer)
     IN  Set(m, [req[m] EXCEPT !.to = to, !.pc = IF to = "none" THEN "write" ELSE "list"])
  /\ UNCHANGED <<cred, checks, nlists, list, external, confirmed, holder, erased, quiet>>

(* A pass has 25 seconds.  They end while it waits for the lists of one    *)
(* credential, of which there may be many, or after it has checked others: *)
(* the transaction is rolled back without its stamp.                       *)
PassTimesOut(m) ==
  /\ m \in Monitors /\ ~At(m, "idle")
  /\ \/ At(m, "fetch") /\ req[m].cred \notin answering
     \/ req[m].all # req[m].todo \cup ({req[m].cred} \ {NoCred})
  /\ Set(m, IdleReq)
  /\ UNCHANGED <<cred, checks, nlists, list, external, confirmed, holder, erased, quiet>>

EndPass(m) ==
  /\ m \in Monitors /\ At(m, "loop") /\ req[m].todo = {}
  /\ Set(m, IdleReq)
  /\ UNCHANGED <<cred, checks, nlists, list, external, confirmed, holder, erased, quiet>>

(***************************************************************************)
(* Verification: checkWalletStatus in the transaction that relies on it.   *)
(***************************************************************************)

(* CredentialStatusParents locks the row, then the parents are checked. *)
CredentialStatusParents(v, c) ==
  /\ v \in Verifiers /\ Arrives(v)
  /\ Tracked(c) /\ ~CredExclusive(c)
  /\ c \in Dependent => parent[c] = "ok"
  /\ Set(v, [IdleReq EXCEPT !.pc = "check", !.cred = c])
  /\ UNCHANGED <<cred, checks, nlists, list, external, confirmed, holder, erased, quiet>>

(* Mutant: the row that was locked with its parents is taken for valid. *)
LockCredentialStatusBlind(v) ==
  /\ At(v, "check") /\ ~ListExclusive(cred[req[v].cred].list)
  /\ Set(v, [req[v] EXCEPT !.pc = "decide", !.list = cred[req[v].cred].list])
  /\ UNCHANGED <<cred, checks, nlists, list, external, confirmed, holder, erased, quiet>>

(* LockCredentialStatus, and the value in the list. *)
LockCredentialStatus(v) ==
  LET c == req[v].cred IN
  /\ At(v, "check")
  /\ \/ /\ cred[c].st = "ok" /\ ~ListExclusive(cred[c].list)
        /\ list[cred[c].list].val[cred[c].slot] = 0
        /\ Set(v, [req[v] EXCEPT !.pc = "decide", !.list = cred[c].list])
     \/ cred[c].st # "ok" /\ Set(v, IdleReq)
  /\ UNCHANGED <<cred, checks, nlists, list, external, confirmed, holder, erased, quiet>>

(* The transaction commits what it decided. *)
Decide(v) ==
  /\ At(v, "decide")
  /\ Set(v, IdleReq)
  /\ UNCHANGED <<cred, checks, nlists, list, external, confirmed, holder, erased, quiet>>

(***************************************************************************)
(* Environment.                                                            *)
(***************************************************************************)

(* An error or a crash rolls the transaction back; it ends a loop. *)
Fail(r) ==
  /\ ~At(r, "idle") /\ ~quiet
  /\ Set(r, IdleReq)
  /\ UNCHANGED <<cred, checks, nlists, list, external, confirmed, holder, erased, quiet>>

(* Thirty seconds pass. *)
Age(c) ==
  /\ c \in Dependent /\ fresh[c]
  /\ fresh' = [fresh EXCEPT ![c] = FALSE]
  /\ UNCHANGED <<cred, older, nlists, list, external, req, confirmed, holder, erased, quiet>>

(* The issuer of the parent changes its status; revocation is final. *)
ParentChanges(c, st) ==
  /\ c \in Dependent /\ parent[c] # "revoked" /\ parent[c] # st
  /\ parent' = [parent EXCEPT ![c] = st]
  /\ UNCHANGED <<cred, checks, nlists, list, answering, req, confirmed, holder, erased, quiet>>

(* External lists go away and come back. *)
AnswersChange(c) ==
  /\ c \in Dependent
  /\ answering' = IF c \in answering THEN answering \ {c} ELSE answering \cup {c}
  /\ UNCHANGED <<cred, checks, nlists, list, parent, req, confirmed, holder, erased, quiet>>

(* No request arrives and nothing fails for long enough. *)
Quieten ==
  /\ ~quiet
  /\ quiet' = TRUE
  /\ UNCHANGED <<cred, checks, nlists, list, external, req, confirmed, holder, erased>>

ProcStep(r) ==
  \/ LockList(r) \/ CommitState(r)
  \/ RecordCredentialWithStatus(r) \/ \E s \in Slots : AllocateStatusIndex(r, s)
  \/ ConfirmTargets(r) \/ \E c \in Creds : RevokeTarget(r, c)
  \/ EndPass(r) \/ \E c \in Dependent : LockParent(r, c)
  \/ \E a \in {"ok", "suspended", "revoked", "unavailable"} : CheckStatusParents(r, a)
  \/ LockCredentialStatus(r) \/ Decide(r)

Next ==
  \/ \E r \in Issuers, c \in Creds : GetOrCreateStatusList(r, c)
  \/ \E r \in Operators, c \in Creds, to \in {"ok", "revoked", "suspended"} :
       LockCredential(r, c, to)
  \/ \E r \in Partners, T \in SUBSET Creds : ListTargets(r, T)
  \/ \E m \in Monitors : ListParents(m) \/ PassTimesOut(m)
  \/ \E v \in Verifiers, c \in Creds : CredentialStatusParents(v, c)
  \/ \E r \in Procs : ProcStep(r) \/ Fail(r)
  \/ \E c \in Dependent :
       Age(c) \/ AnswersChange(c) \/ \E st \in {"ok", "suspended", "revoked"} : ParentChanges(c, st)
  \/ GDPRErasure \/ Quieten

Spec == Init /\ [][Next]_vars

(***************************************************************************)
(* Fairness.  Every transaction goes on, PostgreSQL queues those that wait *)
(* for a list, the ticker of a monitor fires again and again and time      *)
(* passes; and there comes a time that is quiet for as long as one pass of *)
(* the monitor takes: a locked credential is skipped and a failure ends    *)
(* the pass.  Nothing is assumed of the external lists.                    *)
(***************************************************************************)
Fairness ==
  /\ WF_vars(\E r \in Procs \ Monitors : ProcStep(r))
  /\ \A r \in Procs \ Monitors : SF_vars(LockList(r))
  /\ \A m \in Monitors : WF_vars(ListParents(m) \/ ProcStep(m) \/ PassTimesOut(m))
  /\ \A c \in Dependent : WF_vars(Age(c))
  /\ WF_vars(Quieten)

FairSpec == Spec /\ Fairness

(***************************************************************************)
(* Properties.                                                             *)
(***************************************************************************)

(* "serialises the registry and signed-list state": between transactions   *)
(* the published value of every tracked credential is its state in the     *)
(* registry, whichever credentials of the list change at the same time,    *)
(* while slots are reserved in it and when it is widened.  The credentials *)
(* of an erased holder are the exception: the erasure writes the registry  *)
(* without this function, and then nothing can publish the revocation.     *)
ListAgrees ==
  \A c \in Creds \ erased :
    cred[c].st # "none" /\ Tracked(c) =>
      list[cred[c].list].val[cred[c].slot] = ValueOf[cred[c].st]

(* A slot that was signed into a credential belongs to it alone, after     *)
(* rollbacks and when issuances roll over to a new list together; the      *)
(* count of a list is that of its reserved slots, or it could never be     *)
(* used again.                                                             *)
SlotsAreUnique ==
  /\ \A l \in Lists : list[l].next = Cardinality(list[l].alloc)
  /\ \A c, d \in {c \in Creds : cred[c].st # "none" /\ Tracked(c)} :
       /\ cred[c].slot \in list[cred[c].list].alloc
       /\ c # d => <<cred[c].list, cred[c].slot>> # <<cred[d].list, cred[d].slot>>

(* "Locks order this decision against local revoke": when a transaction    *)
(* commits on the strength of a credential, the credential is valid in the *)
(* registry and in its list at that very moment.                           *)
DecisionIsCurrent ==
  \A v \in Verifiers :
    At(v, "decide") =>
      LET c == req[v].cred
      IN  cred[c].st = "ok" /\ list[cred[c].list].val[cred[c].slot] = 0

(* All of asked are revoked, or as many of them as one event takes. *)
RevokedToLimit(asked) ==
  \E T \in SUBSET asked : /\ T = asked \/ Cardinality(T) = RevokeLimit
                          /\ \A c \in T : cred[c].st = "revoked"

(* A federated revocation that was confirmed to the partner has revoked    *)
(* the credentials of the user, although each is revoked by a transaction  *)
(* of its own while operators and monitors work on the same credentials;   *)
(* where there were more than RevokeLimit it has revoked that many.  And   *)
(* "Revoke issued verifiable credentials" of a holder who is erased leaves *)
(* none valid or suspended, nor is one issued later by a request that was  *)
(* on its way.                                                             *)
ConfirmedAreRevoked ==
  /\ \A asked \in confirmed : RevokedToLimit(asked)
  /\ ~holder => \A c \in Creds : cred[c].st \in {"none", "revoked"}

(* "Revocation is terminal; only a suspended credential can be restored",  *)
(* and a suspension by an operator only by an operator: the monitor lifts  *)
(* its own, whatever was suspended and restored in between.                *)
OnlyLegalLifts ==
  [][\A c \in Creds :
       /\ cred[c].st = "revoked" => cred'[c].st = "revoked"
       /\ cred[c].st = "suspended" /\ ~cred[c].hold /\ cred'[c].st = "ok" =>
            \E r \in Operators : At(r, "write") /\ req[r].cred = c]_vars

ListsComeBack == <>[](answering = Dependent)

(* "this eventual propagation to published local lists": the revocation of *)
(* a parent reaches the credential and its list, whatever was suspended,   *)
(* restored, skipped, unavailable or interrupted before, and however many  *)
(* credentials compete for the passes, if the holder is not erased first   *)
(* and provided that external lists that went away come back: a credential *)
(* whose check outlasts every pass is not stamped, stays the oldest and    *)
(* keeps the others from their turn.                                       *)
ParentRevocationArrives ==
  ListsComeBack =>
    \A c \in Dependent :
      (parent[c] = "revoked" /\ cred[c].st # "none") ~>
        (cred[c].st = "revoked" /\ (list[cred[c].list].val[cred[c].slot] = 1 \/ c \in erased))
=============================================================================
