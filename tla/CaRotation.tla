----------------------------- MODULE CaRotation -----------------------------
(***************************************************************************)
(* The staged rotation of a certificate authority that lives in Vault: the *)
(* SSH CA of privileged access and, as a second instance of the same code, *)
(* the device CA.  A rotation provisions a new mount with its own CA,      *)
(* waits until an agent has propagated it, promotes it, and retires the    *)
(* old mount after a grace period.  Vault and the database share no        *)
(* transaction: every call of Vault and every statement is a step, and     *)
(* any of them may be the last.  A mount is a number, and so is the key of *)
(* its CA; the configuration of one organisation is never deleted or       *)
(* rewritten by hand.                                                      *)
(***************************************************************************)
EXTENDS Naturals, FiniteSets

CONSTANTS
  Admins,     \* slots of administrators' requests
  Agents,     \* slots of the requests of agents
  Workers,    \* the worker of each replica
  MaxMounts,  \* bound on the mounts ever provisioned, the first one included
  MaxRot      \* bound on the rotations

ASSUME CaConstants ==
  /\ MaxMounts \in Nat \ {0} /\ MaxRot \in Nat
  /\ Admins \cap Agents = {} /\ (Admins \cup Agents) \cap Workers = {}

VARIABLES
  mounts,   \* the mounts that are enabled in Vault
  nm,       \* mounts named so far
  cfg,      \* vault_mount and ca_public_key (0: NULL) of the configuration
  nrot,     \* rows of pam_ssh_ca_rotations
  rot,      \* the rotations
  req,      \* the locals of each request and worker
  primary,  \* the mounts that were primary at some time (history)
  lost,     \* a completion ended between its two statements (history)
  torn,     \* the new mounts of rows whose start took the INSERT for failed (history)
  quiet     \* neither crashes nor errors hinder the worker any more (environment)

vars == <<mounts, nm, cfg, nrot, rot, req, primary, lost, torn, quiet>>

Procs == Admins \cup Agents \cup Workers
Mounts == 1..MaxMounts
Rots == 1..MaxRot
InFlight == {"rotating", "cutover_ready"}

(* elapsed says that grace_expires_at has passed. *)
Rot == [st : {"none", "rotating", "cutover_ready", "idle", "rollback"},
        old : 0..MaxMounts, new : 0..MaxMounts, elapsed : BOOLEAN, removed : BOOLEAN]
Req == [pc : {"idle", "enable", "create", "undo", "complete", "promote", "abort", "discard",
              "fetch", "cache", "due", "list", "clean", "mark"},
        old : 0..MaxMounts, new : 0..MaxMounts, rot : 0..MaxRot, todo : SUBSET Rots]

NoRot == [st |-> "none", old |-> 0, new |-> 0, elapsed |-> FALSE, removed |-> FALSE]
Locals(pc, old, new, k, todo) == [pc |-> pc, old |-> old, new |-> new, rot |-> k, todo |-> todo]
IdleReq == Locals("idle", 0, 0, 0, {})

(* The types; the partial unique index allows one rotation in flight. *)
TypeOK ==
  /\ mounts \subseteq Mounts
  /\ nm \in Mounts
  /\ cfg \in [mount : Mounts, key : 0..MaxMounts]
  /\ nrot \in 0..MaxRot
  /\ rot \in [Rots -> Rot]
  /\ req \in [Procs -> Req]
  /\ primary \subseteq Mounts
  /\ lost \in BOOLEAN /\ quiet \in BOOLEAN
  /\ torn \subseteq Mounts
  /\ Cardinality({k \in Rots : rot[k].st \in InFlight}) <= 1

Init ==
  /\ mounts = {1} /\ nm = 1
  /\ cfg = [mount |-> 1, key |-> 0]
  /\ nrot = 0
  /\ rot = [k \in Rots |-> NoRot]
  /\ req = [r \in Procs |-> IdleReq]
  /\ primary = {1}
  /\ lost = FALSE /\ torn = {} /\ quiet = FALSE

At(r, l) == req[r].pc = l
Set(r, v) == req' = [req EXCEPT ![r] = v]
Active == {k \in Rots : rot[k].st \in InFlight}

(* A request ends; the worker goes on to the next part of its pass, which  *)
(* reconciles the key, starts what is due and cleans up.                   *)
Ended(r, next) == Locals(IF r \in Workers THEN next ELSE "idle", 0, 0, 0, {})

(***************************************************************************)
(* Start, by an administrator or by the schedule.                          *)
(***************************************************************************)

(* tokenFor reads the configuration.  The worker starts what is due, which *)
(* nothing is while a rotation is in flight.                               *)
TokenFor(r) ==
  /\ \/ r \in Admins /\ At(r, "idle")
     \/ r \in Workers /\ At(r, "due") /\ Active = {}
  /\ nm < MaxMounts
  /\ nm' = nm + 1
  /\ Set(r, Locals("enable", cfg.mount, nm + 1, 0, {}))
  /\ UNCHANGED <<mounts, cfg, nrot, rot, primary, lost, torn, quiet>>

(* ListSSHCAConfigsForScheduledRotation returns nothing. *)
NothingDue(w) ==
  /\ At(w, "due")
  /\ Set(w, Ended(w, "list"))
  /\ UNCHANGED <<mounts, nm, cfg, nrot, rot, primary, lost, torn, quiet>>

(* EnableSSHMount; after an error the mount may exist, and is left alone. *)
EnableMount(r) ==
  /\ At(r, "enable")
  /\ mounts' = mounts \cup {req[r].new}
  /\ Set(r, [req[r] EXCEPT !.pc = "create"]) \/ Set(r, Ended(r, "list"))
  /\ UNCHANGED <<nm, cfg, nrot, rot, primary, lost, torn, quiet>>

(* The partial unique index. *)
NoneActive == Active = {}

InsertRotation(r) ==
  /\ At(r, "create") /\ NoneActive /\ nrot < MaxRot
  /\ nrot' = nrot + 1
  /\ rot' = [rot EXCEPT ![nrot + 1] = [st |-> "rotating", old |-> req[r].old, new |-> req[r].new,
                                         elapsed |-> FALSE, removed |-> FALSE]]

CreateRotation(r) ==
  /\ InsertRotation(r)
  /\ Set(r, Ended(r, "list"))
  /\ UNCHANGED <<mounts, nm, cfg, primary, lost, torn, quiet>>

(* The row is there, but its answer is lost and taken for an error: the    *)
(* start tears down the new mount of a rotation that is in flight.         *)
CreateAnswerLost(r) ==
  /\ InsertRotation(r)
  /\ torn' = torn \cup {req[r].new}
  /\ Set(r, [req[r] EXCEPT !.pc = "undo"])
  /\ UNCHANGED <<mounts, nm, cfg, primary, lost, quiet>>

(* The CA, the role or the row could not be created. *)
CreateFails(r) ==
  /\ At(r, "create")
  /\ Set(r, [req[r] EXCEPT !.pc = "undo"])
  /\ UNCHANGED <<mounts, nm, cfg, nrot, rot, primary, lost, torn, quiet>>

(* bestEffortDisable of Start and of Abort *)
BestEffortDisable(r) ==
  /\ req[r].pc \in {"undo", "discard"}
  /\ mounts' \in {mounts, mounts \ {req[r].new}}
  /\ Set(r, Ended(r, "list"))
  /\ UNCHANGED <<nm, cfg, nrot, rot, primary, lost, torn, quiet>>

(***************************************************************************)
(* Mark ready, complete, abort.                                            *)
(***************************************************************************)

MarkCutoverReady(k) ==
  /\ rot[k].st = "rotating"
  /\ rot' = [rot EXCEPT ![k].st = "cutover_ready"]
  /\ UNCHANGED <<mounts, nm, cfg, nrot, req, primary, lost, torn, quiet>>

(* GetRotation and, for Complete, the key of the new mount. *)
GetRotation(r, k) ==
  /\ At(r, "idle") /\ rot[k].st # "none"
  /\ \/ /\ r \in Agents /\ rot[k].new \in mounts
        /\ Set(r, Locals("complete", 0, rot[k].new, k, {}))
     \/ /\ r \in Admins
        /\ Set(r, Locals("abort", 0, rot[k].new, k, {}))
  /\ UNCHANGED <<mounts, nm, cfg, nrot, rot, primary, lost, torn, quiet>>

(* "State guard first (atomic)." *)
CompleteRotation(r) ==
  LET k == req[r].rot IN
  /\ At(r, "complete")
  /\ IF rot[k].st = "cutover_ready"
     THEN rot' = [rot EXCEPT ![k].st = "idle"] /\ Set(r, [req[r] EXCEPT !.pc = "promote"])
     ELSE Set(r, IdleReq) /\ UNCHANGED rot
  /\ UNCHANGED <<mounts, nm, cfg, nrot, primary, lost, torn, quiet>>

PromoteMount(r) ==
  /\ At(r, "promote")
  /\ cfg' = [mount |-> req[r].new, key |-> req[r].new]
  /\ primary' = primary \cup {req[r].new}
  /\ Set(r, IdleReq)
  /\ UNCHANGED <<mounts, nm, nrot, rot, lost, torn, quiet>>

(* Mutant: a completed rotation can be aborted as well. *)
AbortAllowedAlways(k) == TRUE

AbortAllowed(k) == rot[k].st \in InFlight

Aborted(k) == [rot EXCEPT ![k].st = "rollback"]

AbortRotation(r) ==
  LET k == req[r].rot IN
  /\ At(r, "abort")
  /\ IF AbortAllowed(k)
     THEN rot' = Aborted(k) /\ Set(r, [req[r] EXCEPT !.pc = "discard"])
     ELSE Set(r, IdleReq) /\ UNCHANGED rot
  /\ UNCHANGED <<mounts, nm, cfg, nrot, primary, lost, torn, quiet>>

(***************************************************************************)
(* The worker: grace cleanup and reconciliation of the cached key.         *)
(***************************************************************************)

(* Mutant: the grace period is not waited for. *)
CleanableAtOnce == {k \in Rots : rot[k].st = "idle" /\ ~rot[k].removed}

(* Mutant: a rotation is cleaned up only while it is the last one. *)
CleanableLast == {k \in Rots : rot[k].st = "idle" /\ ~rot[k].removed /\ rot[k].elapsed /\ k = nrot}

(* ListRotationsForGraceCleanup *)
Cleanable == {k \in Rots : rot[k].st = "idle" /\ ~rot[k].removed /\ rot[k].elapsed}

NextClean(todo) == Locals(IF todo = {} THEN "idle" ELSE "clean", 0, 0, 0, todo)

ListCleanable(w) ==
  /\ At(w, "list")
  /\ Set(w, NextClean(Cleanable))
  /\ UNCHANGED <<mounts, nm, cfg, nrot, rot, primary, lost, torn, quiet>>

(* The mount is removed, also when it was gone already; or an error skips  *)
(* the rotation until the next pass.                                       *)
DisableOld(w, k) ==
  /\ At(w, "clean") /\ k \in req[w].todo
  /\ mounts' = mounts \ {rot[k].old}
  /\ Set(w, Locals("mark", 0, 0, k, req[w].todo))
  /\ UNCHANGED <<nm, cfg, nrot, rot, primary, lost, torn, quiet>>

SkipOld(w, k) ==
  /\ ~quiet /\ At(w, "clean") /\ k \in req[w].todo
  /\ Set(w, NextClean(req[w].todo \ {k}))
  /\ UNCHANGED <<mounts, nm, cfg, nrot, rot, primary, lost, torn, quiet>>

MarkOldMountRemoved(w) ==
  /\ At(w, "mark")
  /\ rot' = [rot EXCEPT ![req[w].rot].removed = TRUE]
  /\ Set(w, NextClean(req[w].todo \ {req[w].rot}))
  /\ UNCHANGED <<mounts, nm, cfg, nrot, primary, lost, torn, quiet>>

(* processSSHCARotations reads the configuration, then the key. *)
ListForReconcile(w) ==
  /\ w \in Workers /\ At(w, "idle")
  /\ Set(w, Locals("fetch", cfg.key, cfg.mount, 0, {}))
  /\ UNCHANGED <<mounts, nm, cfg, nrot, rot, primary, lost, torn, quiet>>

(* Mutant: the first key that was cached is kept. *)
DiffersOnce(w) == req[w].old = 0

(* "seed the cache", or the key is another one than the cached key *)
Differs(w) == req[w].new # req[w].old

FetchKey(w) ==
  /\ At(w, "fetch")
  /\ Set(w, IF req[w].new \in mounts /\ Differs(w) THEN [req[w] EXCEPT !.pc = "cache"]
            ELSE Ended(w, "due"))
  /\ UNCHANGED <<mounts, nm, cfg, nrot, rot, primary, lost, torn, quiet>>

(* UpdateSSHCAPublicKey writes the key, whatever the mount is by now. *)
CacheKey(w) ==
  /\ At(w, "cache")
  /\ cfg' = [cfg EXCEPT !.key = req[w].new]
  /\ Set(w, Ended(w, "due"))
  /\ UNCHANGED <<mounts, nm, nrot, rot, primary, lost, torn, quiet>>

(***************************************************************************)
(* Environment.                                                            *)
(***************************************************************************)

(* A crash, a lost connection or an error ends a request. *)
Fail(r) ==
  /\ ~At(r, "idle")
  /\ r \in Workers => ~quiet
  /\ lost' = (lost \/ At(r, "promote"))
  /\ Set(r, IdleReq)
  /\ UNCHANGED <<mounts, nm, cfg, nrot, rot, primary, torn, quiet>>

(* The grace period of three days is longer than the rest of the request   *)
(* that completed the rotation.                                            *)
GraceElapses(k) ==
  /\ rot[k].st = "idle" /\ ~rot[k].elapsed
  /\ \A r \in Agents : ~(At(r, "promote") /\ req[r].rot = k)
  /\ rot' = [rot EXCEPT ![k].elapsed = TRUE]
  /\ UNCHANGED <<mounts, nm, cfg, nrot, req, primary, lost, torn, quiet>>

(* Crashes and errors of the worker cease. *)
Quieten ==
  /\ ~quiet /\ quiet' = TRUE
  /\ UNCHANGED <<mounts, nm, cfg, nrot, rot, req, primary, lost, torn>>

StartStep(r) ==
  \/ TokenFor(r) \/ EnableMount(r) \/ CreateRotation(r) \/ CreateAnswerLost(r)
  \/ CreateFails(r) \/ BestEffortDisable(r)
CleanStep(w) ==
  ListCleanable(w) \/ MarkOldMountRemoved(w) \/ \E k \in Rots : DisableOld(w, k) \/ SkipOld(w, k)
WorkerStep(w) ==
  \/ ListForReconcile(w) \/ FetchKey(w) \/ CacheKey(w)
  \/ NothingDue(w) \/ StartStep(w) \/ CleanStep(w)

Next ==
  \/ \E r \in Admins : StartStep(r) \/ AbortRotation(r)
  \/ \E k \in Rots : MarkCutoverReady(k) \/ GraceElapses(k)
  \/ \E r \in Admins \cup Agents, k \in Rots : GetRotation(r, k)
  \/ \E r \in Agents : CompleteRotation(r) \/ PromoteMount(r)
  \/ \E w \in Workers : WorkerStep(w)
  \/ \E r \in Procs : Fail(r)
  \/ Quieten

Spec == Init /\ [][Next]_vars

(***************************************************************************)
(* Fairness: the ticker starts a pass again and again, a pass goes on, and *)
(* the errors and crashes that hinder it cease.  Nothing is assumed of     *)
(* administrators and agents.                                              *)
(***************************************************************************)
Fairness == WF_vars(Quieten) /\ \A w \in Workers : WF_vars(WorkerStep(w))

FairSpec == Spec /\ Fairness

(***************************************************************************)
(* Properties.                                                             *)
(***************************************************************************)

(* The mount that signs is never taken away, however rotations start,      *)
(* complete, abort and are cleaned up, with two exceptions: a completion   *)
(* that ends between CompleteRotation and PromoteSSHCAMount leaves the old *)
(* mount primary and retires it all the same; and a start that takes its   *)
(* INSERT for failed tears down the very mount its rotation may promote.   *)
PrimaryServes == lost \/ cfg.mount \in mounts \cup torn

(* "the old and new CAs can both sign during propagation": the primary     *)
(* mount and that of a rotation in flight are there, also while starts     *)
(* that fail and aborts tear mounts down, unless the start of this very    *)
(* rotation took its INSERT for failed.                                    *)
BothSign == \A k \in Active : rot[k].new \in mounts \cup torn /\ PrimaryServes

(* "The old CA is never touched" by an abort, nor by a start that fails: a *)
(* mount that has been primary is removed by the cleanup of a completed    *)
(* rotation whose grace period has passed, and by nothing else, unless the *)
(* start that provisioned it took its INSERT for failed.                   *)
RetiredAfterGrace ==
  [][\A m \in primary \ torn : m \in mounts /\ m \notin mounts' =>
       \E k \in Rots : rot[k].st = "idle" /\ rot[k].elapsed /\ rot[k].old = m]_vars

(* "we never silently mark the mount removed". *)
RemovedIsGone == \A k \in Rots : rot[k].removed => rot[k].old \notin mounts

(* A rotation that is complete gets its old mount removed in the end, in   *)
(* spite of crashes between removal and mark.                              *)
OldIsRetired == \A k \in Rots : rot[k].elapsed ~> (rot[k].removed /\ rot[k].old \notin mounts)

(* The cached key may be that of the mount before a promotion that         *)
(* overtook the first reconciliation; a later pass repairs it.             *)
KeyIsRepaired == (cfg.key # cfg.mount) ~> (cfg.key = cfg.mount \/ cfg.mount \notin mounts)
=============================================================================
