-------------------------- MODULE CaRotationProofs --------------------------
(***************************************************************************)
(* Proofs for CaRotation, for any number of administrators, agents,        *)
(* workers, mounts and rotations.  The argument is one of freshness: a     *)
(* mount is named by one start, gets into one row and is promoted at most  *)
(* once, so what has been primary never becomes primary again, and the     *)
(* mount a row retires is not primary once its rotation has been promoted. *)
(* A start and a row have a mount in common only when the start is about   *)
(* to tear it down because it takes its INSERT for failed.                 *)
(***************************************************************************)
EXTENDS CaRotation, FiniteSetTheorems, TLAPS

Row(k) == rot[k].st # "none"
Starting(r) == req[r].pc \in {"enable", "create", "undo"}
(* The start takes the INSERT of its own row for failed. *)
Mistaken(r) == req[r].pc = "undo" /\ req[r].new \in torn

Bound(r) == req[r].pc \in {"complete", "promote", "abort", "discard"}

Types ==
  /\ mounts \subseteq Mounts
  /\ nm \in Mounts
  /\ cfg \in [mount : Mounts, key : 0..MaxMounts]
  /\ nrot \in 0..MaxRot
  /\ rot \in [Rots -> Rot]
  /\ req \in [Procs -> Req]
  /\ primary \subseteq Mounts
  /\ lost \in BOOLEAN /\ quiet \in BOOLEAN
  /\ torn \subseteq Mounts

(* The partial unique index, and rows in the order of their numbers. *)
RowsInOrder ==
  /\ \A k, l \in Active : k = l
  /\ \A k \in Rots : Row(k) <=> k <= nrot

(* The names of mounts are used once. *)
Fresh ==
  /\ \A k \in Rots : Row(k) => rot[k].new <= nm /\ rot[k].new # 0
  /\ \A k, l \in Rots : Row(k) /\ Row(l) /\ rot[k].new = rot[l].new => k = l
  /\ \A r \in Procs : Starting(r) => req[r].new <= nm /\ req[r].new # 0
  /\ \A r, q \in Procs : Starting(r) /\ Starting(q) /\ req[r].new = req[q].new => r = q
  /\ \A r \in Procs, k \in Rots :
       Starting(r) /\ Row(k) => req[r].new # rot[k].new \/ Mistaken(r)

(* What has been primary: the mount of the configuration, the old mount of *)
(* each row and of each start; and what has not: a mount being started, in *)
(* flight, rolled back or about to be promoted.                            *)
Past ==
  /\ cfg.mount \in primary
  /\ \A m \in primary : m <= nm
  /\ \A k \in Rots : Row(k) => rot[k].old \in primary
  /\ \A r \in Procs : Starting(r) => /\ req[r].old \in primary
                                     /\ req[r].new \notin primary \/ Mistaken(r)
  /\ \A k \in Rots : Row(k) /\ rot[k].st # "idle" => rot[k].new \notin primary
  /\ \A r \in Procs : At(r, "promote") => req[r].new \notin primary

(* A request keeps to the rotation it read. *)
Bindings ==
  /\ \A r \in Procs : Bound(r) => /\ req[r].rot \in Rots /\ Row(req[r].rot)
                                  /\ req[r].new = rot[req[r].rot].new
  /\ \A r \in Procs : At(r, "promote") => r \in Agents /\ rot[req[r].rot].st = "idle"
  /\ \A r, q \in Procs : At(r, "promote") /\ At(q, "promote") /\ req[r].rot = req[q].rot => r = q
  /\ \A r \in Procs : At(r, "discard") => rot[req[r].rot].st = "rollback"

(* The mounts that are in Vault. *)
Served ==
  /\ lost \/ cfg.mount \in mounts \cup torn
  /\ \A k \in Active : rot[k].new \in mounts \cup torn
  /\ \A r \in Procs : At(r, "create") => req[r].new \in mounts
  /\ \A r \in Procs : At(r, "promote") => req[r].new \in mounts \cup torn

(* Once its promotion is through, a rotation's old mount is not primary. *)
Superseded ==
  /\ \A k \in Rots : rot[k].st = "idle" =>
       \/ lost \/ rot[k].old # cfg.mount
       \/ \E r \in Agents : At(r, "promote") /\ req[r].rot = k
  /\ \A k \in Rots : rot[k].elapsed => rot[k].st = "idle" /\ (lost \/ rot[k].old # cfg.mount)

(* The worker's pass. *)
Cleaning ==
  /\ \A w \in Procs : req[w].pc \in {"clean", "mark"} =>
       \A k \in req[w].todo : k \in Rots /\ rot[k].elapsed
  /\ \A w \in Procs : At(w, "mark") => /\ req[w].rot \in Rots /\ rot[req[w].rot].elapsed
                                       /\ rot[req[w].rot].old \notin mounts
  /\ \A k \in Rots : rot[k].removed => Row(k) /\ rot[k].old \notin mounts

IInv == Types /\ RowsInOrder /\ Fresh /\ Past /\ Bindings /\ Served /\ Superseded /\ Cleaning

USE DEF Row, Starting, Mistaken, Bound, At, Set, Active, InFlight, Procs, Mounts, Rots

(* A request or a part of the worker's pass ends, or reads what no safety  *)
(* property is about.                                                      *)
LEMMA HarmlessStep ==
  ASSUME IInv, NEW r \in Procs, NEW v \in Req, Set(r, v),
         v.pc \in {"idle", "fetch", "cache", "due", "list"}, ~At(r, "promote") \/ lost',
         UNCHANGED <<mounts, nm, nrot, rot, primary, torn>>, cfg'.mount = cfg.mount,
         cfg' \in [mount : Mounts, key : 0..MaxMounts], lost => lost',
         lost' \in BOOLEAN, quiet' \in BOOLEAN
  PROVE  IInv'
<1>1. req'[r] = v /\ \A q \in Procs \ {r} : req'[q] = req[q]
  BY DEF IInv, Types
<1>2. Types'
  BY DEF IInv, Types
<1>3. RowsInOrder'
  BY <1>1 DEF IInv, RowsInOrder
<1>4. Fresh'
  BY <1>1 DEF IInv, Fresh
<1>5. Past'
  BY <1>1 DEF IInv, Past, Fresh, Bindings
<1>6. Bindings'
  BY <1>1 DEF IInv, Bindings
<1>7. Served'
  BY <1>1 DEF IInv, Served, Fresh, Past
<1>8. Superseded'
  BY <1>1 DEF IInv, Superseded, Past, Bindings
<1>9. Cleaning'
  BY <1>1 DEF IInv, Cleaning, Past, Superseded
<1> QED  BY <1>2, <1>3, <1>4, <1>5, <1>6, <1>7, <1>8, <1>9 DEF IInv

LEMMA TokenForKeeps ==
  ASSUME IInv, NEW r \in Admins \cup Workers, TokenFor(r)
  PROVE  IInv'
<1> DEFINE v == Locals("enable", cfg.mount, nm + 1, 0, {})
<1>1. /\ r \in Procs /\ req[r].pc \in {"idle", "due"}
      /\ nm' = nm + 1 /\ nm < MaxMounts
      /\ UNCHANGED <<mounts, cfg, nrot, rot, primary, lost, torn, quiet>>
  BY DEF TokenFor
<1>2. /\ v \in Req
      /\ v.pc = "enable" /\ v.old = cfg.mount /\ v.new = nm + 1
  BY <1>1, CaConstants DEF IInv, Types, Req, Locals
<1>3. req' = [req EXCEPT ![r] = v]
  BY DEF TokenFor
<1> HIDE DEF v
<1>4. /\ req'[r] = v /\ \A q \in Procs \ {r} : req'[q] = req[q]
  BY <1>1, <1>2, <1>3 DEF IInv, Types
<1>5. /\ nm \in Nat /\ nm + 1 \in Mounts
      /\ \A q \in Procs : req[q].new \in Nat
      /\ \A l \in Rots : rot[l].new \in Nat
      /\ \A m \in primary : m \in Nat
  BY <1>1, CaConstants DEF IInv, Types, Req, Rot
<1>6. Types'
  BY <1>1, <1>2, <1>3, <1>5 DEF IInv, Types
<1>7. RowsInOrder'
  BY <1>1, <1>2, <1>4, <1>5, CaConstants DEF IInv, RowsInOrder
<1>8. Fresh'
  BY <1>1, <1>2, <1>4, <1>5 DEF IInv, Fresh
<1>9. Past'
  BY <1>1, <1>2, <1>4, <1>5 DEF IInv, Past, Fresh, Bindings
<1>10. Bindings'
  BY <1>1, <1>2, <1>4, <1>5 DEF IInv, Bindings
<1>11. Served'
  BY <1>1, <1>2, <1>4, <1>5 DEF IInv, Served, Fresh, Past
<1>12. Superseded'
  BY <1>1, <1>2, <1>4, <1>5 DEF IInv, Superseded, Past, Bindings
<1>13. Cleaning'
  BY <1>1, <1>2, <1>4, <1>5 DEF IInv, Cleaning, Past, Superseded
<1> QED  BY <1>6, <1>7, <1>8, <1>9, <1>10, <1>11, <1>12, <1>13 DEF IInv

LEMMA EnableMountKeeps ==
  ASSUME IInv, NEW r \in Admins \cup Workers, EnableMount(r)
  PROVE  IInv'
<1>1. CASE Set(r, [req[r] EXCEPT !.pc = "create"])
  <2> DEFINE v == [req[r] EXCEPT !.pc = "create"]
  <2>1. /\ r \in Procs /\ req[r].pc = "enable"
        /\ mounts' = mounts \cup {req[r].new}
        /\ UNCHANGED <<nm, cfg, nrot, rot, primary, lost, torn, quiet>>
    BY <1>1 DEF EnableMount
  <2>2. req[r] \in Req
    BY <1>1, <2>1 DEF IInv, Types
  <2>3. /\ v \in Req
        /\ v.pc = "create" /\ v.old = req[r].old /\ v.new = req[r].new
    BY <2>2 DEF Req
  <2>4. req' = [req EXCEPT ![r] = v]
    BY <1>1 DEF EnableMount
  <2> HIDE DEF v
  <2>5. /\ req'[r] = v /\ \A q \in Procs \ {r} : req'[q] = req[q]
    BY <1>1, <2>1, <2>3, <2>4 DEF IInv, Types
  <2>6. req[r].new \in Mounts /\ req[r].new \notin primary
    BY <2>1, CaConstants DEF IInv, Types, Req, Fresh, Past
  <2>7. Types'
    BY <2>1, <2>3, <2>4, <2>6 DEF IInv, Types
  <2>8. RowsInOrder'
    BY <1>1, <2>1, <2>3, <2>5, <2>6, CaConstants DEF IInv, RowsInOrder
  <2>9. Fresh'
    BY <1>1, <2>1, <2>3, <2>5, <2>6 DEF IInv, Fresh
  <2>10. Past'
    BY <1>1, <2>1, <2>3, <2>5, <2>6 DEF IInv, Past, Fresh, Bindings
  <2>11. Bindings'
    BY <1>1, <2>1, <2>3, <2>5, <2>6 DEF IInv, Bindings
  <2>12. Served'
    BY <1>1, <2>1, <2>3, <2>5, <2>6 DEF IInv, Served, Fresh, Past
  <2>13. Superseded'
    BY <1>1, <2>1, <2>3, <2>5, <2>6 DEF IInv, Superseded, Past, Bindings
  <2>14. Cleaning'
    BY <1>1, <2>1, <2>3, <2>5, <2>6 DEF IInv, Cleaning, Past, Superseded
  <2> QED  BY <2>7, <2>8, <2>9, <2>10, <2>11, <2>12, <2>13, <2>14 DEF IInv
<1>2. CASE Set(r, Ended(r, "list"))
  <2> DEFINE v == Ended(r, "list")
  <2>1. /\ r \in Procs /\ req[r].pc = "enable"
        /\ mounts' = mounts \cup {req[r].new}
        /\ UNCHANGED <<nm, cfg, nrot, rot, primary, lost, torn, quiet>>
    BY <1>2 DEF EnableMount
  <2>2. /\ v \in Req
        /\ v.pc \in {"idle", "list"}
    BY <1>2, <2>1, CaConstants DEF IInv, Types, Req, Ended, Locals
  <2>3. req' = [req EXCEPT ![r] = v]
    BY <1>2 DEF EnableMount
  <2> HIDE DEF v
  <2>4. /\ req'[r] = v /\ \A q \in Procs \ {r} : req'[q] = req[q]
    BY <1>2, <2>1, <2>2, <2>3 DEF IInv, Types
  <2>5. req[r].new \in Mounts /\ req[r].new \notin primary
    BY <2>1, CaConstants DEF IInv, Types, Req, Fresh, Past
  <2>6. Types'
    BY <2>1, <2>2, <2>3, <2>5 DEF IInv, Types
  <2>7. RowsInOrder'
    BY <1>2, <2>1, <2>2, <2>4, <2>5, CaConstants DEF IInv, RowsInOrder
  <2>8. Fresh'
    BY <1>2, <2>1, <2>2, <2>4, <2>5 DEF IInv, Fresh
  <2>9. Past'
    BY <1>2, <2>1, <2>2, <2>4, <2>5 DEF IInv, Past, Fresh, Bindings
  <2>10. Bindings'
    BY <1>2, <2>1, <2>2, <2>4, <2>5 DEF IInv, Bindings
  <2>11. Served'
    BY <1>2, <2>1, <2>2, <2>4, <2>5 DEF IInv, Served, Fresh, Past
  <2>12. Superseded'
    BY <1>2, <2>1, <2>2, <2>4, <2>5 DEF IInv, Superseded, Past, Bindings
  <2>13. Cleaning'
    BY <1>2, <2>1, <2>2, <2>4, <2>5 DEF IInv, Cleaning, Past, Superseded
  <2> QED  BY <2>6, <2>7, <2>8, <2>9, <2>10, <2>11, <2>12, <2>13 DEF IInv
<1> QED  BY <1>1, <1>2 DEF EnableMount

LEMMA CreateRotationKeeps ==
  ASSUME IInv, NEW r \in Admins \cup Workers, CreateRotation(r)
  PROVE  IInv'
<1> DEFINE v == Ended(r, "list")
           x == [st |-> "rotating", old |-> req[r].old, new |-> req[r].new,
                 elapsed |-> FALSE, removed |-> FALSE]
<1>1. /\ r \in Procs /\ req[r].pc = "create"
      /\ nrot < MaxRot /\ nrot' = nrot + 1 /\ Active = {}
      /\ UNCHANGED <<mounts, nm, cfg, primary, lost, torn, quiet>>
  BY DEF CreateRotation, InsertRotation, NoneActive
<1>2. /\ v \in Req
      /\ v.pc \in {"idle", "list"}
  BY <1>1, CaConstants DEF IInv, Types, Req, Ended, Locals
<1>3. /\ x \in Rot
      /\ x.st = "rotating" /\ x.old = req[r].old /\ x.new = req[r].new
      /\ x.elapsed = FALSE /\ x.removed = FALSE /\ nrot \in Nat /\ nrot + 1 \in Rots
  BY <1>1, CaConstants DEF IInv, Types, Rot, Req
<1>4. req' = [req EXCEPT ![r] = v] /\ rot' = [rot EXCEPT ![nrot + 1] = x]
  BY DEF CreateRotation, InsertRotation, NoneActive
<1> HIDE DEF v, x
<1>5. /\ req'[r] = v /\ \A q \in Procs \ {r} : req'[q] = req[q]
      /\ rot'[nrot + 1] = x /\ \A l \in Rots \ {nrot + 1} : rot'[l] = rot[l]
  BY <1>1, <1>2, <1>3, <1>4 DEF IInv, Types
<1>6. ~Row(nrot + 1)
  BY <1>1, <1>3, CaConstants DEF IInv, RowsInOrder
<1>7. \A q \in Procs : Bound(q) => req[q].rot # nrot + 1
  BY <1>6 DEF IInv, Bindings
<1>8. Types'
  BY <1>1, <1>2, <1>3, <1>4, <1>6, <1>7 DEF IInv, Types
<1>9. RowsInOrder'
  BY <1>1, <1>2, <1>3, <1>5, <1>6, <1>7, CaConstants DEF IInv, RowsInOrder
<1>10. Fresh'
  BY <1>1, <1>2, <1>3, <1>5, <1>6, <1>7 DEF IInv, Fresh
<1>11. Past'
  BY <1>1, <1>2, <1>3, <1>5, <1>6, <1>7 DEF IInv, Past, Fresh, Bindings
<1>12. Bindings'
  BY <1>1, <1>2, <1>3, <1>5, <1>6, <1>7 DEF IInv, Bindings
<1>13. Served'
  BY <1>1, <1>2, <1>3, <1>5, <1>6, <1>7 DEF IInv, Served, Fresh, Past
<1>14. Superseded'
  BY <1>1, <1>2, <1>3, <1>5, <1>6, <1>7 DEF IInv, Superseded, Past, Bindings
<1>15. Cleaning'
  BY <1>1, <1>2, <1>3, <1>5, <1>6, <1>7 DEF IInv, Cleaning, Superseded
<1> QED  BY <1>8, <1>9, <1>10, <1>11, <1>12, <1>13, <1>14, <1>15 DEF IInv

(* The start goes on to tear down the mount of the row it has inserted. *)
LEMMA CreateAnswerLostKeeps ==
  ASSUME IInv, NEW r \in Admins \cup Workers, CreateAnswerLost(r)
  PROVE  IInv'
<1> DEFINE v == [req[r] EXCEPT !.pc = "undo"]
           x == [st |-> "rotating", old |-> req[r].old, new |-> req[r].new,
                 elapsed |-> FALSE, removed |-> FALSE]
<1>1. /\ r \in Procs /\ req[r].pc = "create"
      /\ nrot < MaxRot /\ nrot' = nrot + 1 /\ Active = {}
      /\ UNCHANGED <<mounts, nm, cfg, primary, lost, quiet>>
      /\ torn' = torn \cup {req[r].new}
  BY DEF CreateAnswerLost, InsertRotation, NoneActive
<1>2. /\ v \in Req
      /\ v.pc = "undo" /\ v.old = req[r].old /\ v.new = req[r].new
      /\ req[r].new \in Mounts
  BY <1>1, CaConstants DEF IInv, Types, Req, Fresh
<1>3. /\ x \in Rot
      /\ x.st = "rotating" /\ x.old = req[r].old /\ x.new = req[r].new
      /\ x.elapsed = FALSE /\ x.removed = FALSE /\ nrot \in Nat /\ nrot + 1 \in Rots
  BY <1>1, CaConstants DEF IInv, Types, Rot, Req
<1>4. req' = [req EXCEPT ![r] = v] /\ rot' = [rot EXCEPT ![nrot + 1] = x]
  BY DEF CreateAnswerLost, InsertRotation, NoneActive
<1> HIDE DEF v, x
<1>5. /\ req'[r] = v /\ \A q \in Procs \ {r} : req'[q] = req[q]
      /\ rot'[nrot + 1] = x /\ \A l \in Rots \ {nrot + 1} : rot'[l] = rot[l]
  BY <1>1, <1>2, <1>3, <1>4 DEF IInv, Types
<1>6. ~Row(nrot + 1)
  BY <1>1, <1>3, CaConstants DEF IInv, RowsInOrder
<1>7. \A q \in Procs : Bound(q) => req[q].rot # nrot + 1
  BY <1>6 DEF IInv, Bindings
<1>8. Types'
  <2>1. torn' \subseteq Mounts
    BY <1>1, <1>2 DEF IInv, Types
  <2>2. rot' \in [Rots -> Rot] /\ req' \in [Procs -> Req] /\ nrot' \in 0..MaxRot
    BY <1>1, <1>2, <1>3, <1>4 DEF IInv, Types
  <2> QED  BY <1>1, <2>1, <2>2 DEF IInv, Types
<1>9. RowsInOrder'
  BY <1>1, <1>2, <1>3, <1>5, <1>6, <1>7, CaConstants DEF IInv, RowsInOrder
<1>10. Fresh'
  BY <1>1, <1>2, <1>3, <1>5, <1>6, <1>7 DEF IInv, Fresh
<1>11. Past'
  BY <1>1, <1>2, <1>3, <1>5, <1>6, <1>7 DEF IInv, Past, Fresh, Bindings
<1>12. Bindings'
  BY <1>1, <1>2, <1>3, <1>5, <1>6, <1>7 DEF IInv, Bindings
<1>13. Served'
  BY <1>1, <1>2, <1>3, <1>5, <1>6, <1>7 DEF IInv, Served, Fresh, Past
<1>14. Superseded'
  BY <1>1, <1>2, <1>3, <1>5, <1>6, <1>7 DEF IInv, Superseded, Past, Bindings
<1>15. Cleaning'
  BY <1>1, <1>2, <1>3, <1>5, <1>6, <1>7 DEF IInv, Cleaning, Superseded
<1> QED  BY <1>8, <1>9, <1>10, <1>11, <1>12, <1>13, <1>14, <1>15 DEF IInv

LEMMA CreateFailsKeeps ==
  ASSUME IInv, NEW r \in Admins \cup Workers, CreateFails(r)
  PROVE  IInv'
<1> DEFINE v == [req[r] EXCEPT !.pc = "undo"]
<1>1. /\ r \in Procs /\ req[r].pc = "create"
      /\ UNCHANGED <<mounts, nm, cfg, nrot, rot, primary, lost, torn, quiet>>
  BY DEF CreateFails
<1>2. req[r] \in Req
  BY <1>1 DEF IInv, Types
<1>3. /\ v \in Req
      /\ v.pc = "undo" /\ v.old = req[r].old /\ v.new = req[r].new
  BY <1>2 DEF Req
<1>4. req' = [req EXCEPT ![r] = v]
  BY DEF CreateFails
<1> HIDE DEF v
<1>5. /\ req'[r] = v /\ \A q \in Procs \ {r} : req'[q] = req[q]
  BY <1>1, <1>3, <1>4 DEF IInv, Types
<1>6. Types'
  BY <1>1, <1>3, <1>4 DEF IInv, Types
<1>7. RowsInOrder'
  BY <1>1, <1>3, <1>5, CaConstants DEF IInv, RowsInOrder
<1>8. Fresh'
  BY <1>1, <1>3, <1>5 DEF IInv, Fresh
<1>9. Past'
  BY <1>1, <1>3, <1>5 DEF IInv, Past, Fresh, Bindings
<1>10. Bindings'
  BY <1>1, <1>3, <1>5 DEF IInv, Bindings
<1>11. Served'
  BY <1>1, <1>3, <1>5 DEF IInv, Served, Fresh, Past
<1>12. Superseded'
  BY <1>1, <1>3, <1>5 DEF IInv, Superseded, Past, Bindings
<1>13. Cleaning'
  BY <1>1, <1>3, <1>5 DEF IInv, Cleaning, Past, Superseded
<1> QED  BY <1>6, <1>7, <1>8, <1>9, <1>10, <1>11, <1>12, <1>13 DEF IInv

(* A teardown removes a mount that has never been primary and is not in    *)
(* flight, unless the start takes its INSERT for failed.                   *)
LEMMA BestEffortDisableKeeps ==
  ASSUME IInv, NEW r \in Procs, BestEffortDisable(r)
  PROVE  IInv'
<1> DEFINE v == Ended(r, "list")
<1>1. /\ req[r].pc \in {"undo", "discard"}
      /\ mounts' \in {mounts, mounts \ {req[r].new}}
      /\ UNCHANGED <<nm, cfg, nrot, rot, primary, lost, torn, quiet>>
  BY DEF BestEffortDisable
<1>2. /\ v \in Req
      /\ v.pc \in {"idle", "list"}
  BY <1>1, CaConstants DEF IInv, Types, Req, Ended, Locals
<1>3. req' = [req EXCEPT ![r] = v]
  BY DEF BestEffortDisable
<1> HIDE DEF v
<1>4. /\ req'[r] = v /\ \A q \in Procs \ {r} : req'[q] = req[q]
  BY <1>1, <1>2, <1>3 DEF IInv, Types
<1>5. req[r].new \notin primary \ torn
  BY <1>1 DEF IInv, Past, Bindings
<1>6. \A k \in Active : rot[k].new # req[r].new \/ req[r].new \in torn
  BY <1>1 DEF IInv, Fresh, Bindings
<1>7. \A q \in Procs \ {r} :
        /\ At(q, "create") => req[q].new # req[r].new
        /\ At(q, "promote") => req[q].new # req[r].new \/ req[r].new \in torn
  BY <1>1 DEF IInv, Fresh, Bindings
<1>8. Types'
  BY <1>1, <1>2, <1>3, <1>5, <1>6, <1>7 DEF IInv, Types
<1>9. RowsInOrder'
  BY <1>1, <1>2, <1>4, <1>5, <1>6, <1>7, CaConstants DEF IInv, RowsInOrder
<1>10. Fresh'
  BY <1>1, <1>2, <1>4, <1>5, <1>6, <1>7 DEF IInv, Fresh
<1>11. Past'
  BY <1>1, <1>2, <1>4, <1>5, <1>6, <1>7 DEF IInv, Past, Fresh, Bindings
<1>12. Bindings'
  BY <1>1, <1>2, <1>4, <1>5, <1>6, <1>7 DEF IInv, Bindings
<1>13. Served'
  BY <1>1, <1>2, <1>4, <1>5, <1>6, <1>7 DEF IInv, Served, Fresh, Past
<1>14. Superseded'
  BY <1>1, <1>2, <1>4, <1>5, <1>6, <1>7 DEF IInv, Superseded, Past, Bindings
<1>15. Cleaning'
  BY <1>1, <1>2, <1>4, <1>5, <1>6, <1>7 DEF IInv, Cleaning, Past, Superseded
<1> QED  BY <1>8, <1>9, <1>10, <1>11, <1>12, <1>13, <1>14, <1>15 DEF IInv

LEMMA MarkCutoverReadyKeeps ==
  ASSUME IInv, NEW k \in Rots, MarkCutoverReady(k)
  PROVE  IInv'
<1> DEFINE x == [rot[k] EXCEPT !.st = "cutover_ready"]
<1>1. /\ rot[k].st = "rotating"
      /\ UNCHANGED <<mounts, nm, cfg, nrot, req, primary, lost, torn, quiet>>
  BY DEF MarkCutoverReady
<1>2. /\ x \in Rot
      /\ x.st = "cutover_ready" /\ x.old = rot[k].old /\ x.new = rot[k].new
      /\ x.elapsed = rot[k].elapsed /\ x.removed = rot[k].removed
  BY <1>1, CaConstants DEF IInv, Types, Rot
<1>3. rot' = [rot EXCEPT ![k] = x]
  BY DEF MarkCutoverReady
<1> HIDE DEF x
<1>4. /\ rot'[k] = x /\ \A l \in Rots \ {k} : rot'[l] = rot[l]
  BY <1>1, <1>2, <1>3 DEF IInv, Types
<1>5. Types'
  BY <1>1, <1>2, <1>3 DEF IInv, Types
<1>6. RowsInOrder'
  BY <1>1, <1>2, <1>4, CaConstants DEF IInv, RowsInOrder
<1>7. Fresh'
  BY <1>1, <1>2, <1>4 DEF IInv, Fresh
<1>8. Past'
  BY <1>1, <1>2, <1>4 DEF IInv, Past, Fresh, Bindings
<1>9. Bindings'
  BY <1>1, <1>2, <1>4 DEF IInv, Bindings
<1>10. Served'
  BY <1>1, <1>2, <1>4 DEF IInv, Served, Fresh, Past
<1>11. Superseded'
  BY <1>1, <1>2, <1>4 DEF IInv, Superseded, Past, Bindings
<1>12. Cleaning'
  BY <1>1, <1>2, <1>4 DEF IInv, Cleaning, Past, Superseded
<1> QED  BY <1>5, <1>6, <1>7, <1>8, <1>9, <1>10, <1>11, <1>12 DEF IInv

LEMMA GetRotationKeeps ==
  ASSUME IInv, NEW r \in Admins \cup Agents, NEW k \in Rots, GetRotation(r, k)
  PROVE  IInv'
<1>1. PICK s \in {"complete", "abort"} : Set(r, Locals(s, 0, rot[k].new, k, {}))
  BY DEF GetRotation
<1>2. QED
  <2> DEFINE v == Locals(s, 0, rot[k].new, k, {})
  <2>1. /\ r \in Procs /\ req[r].pc = "idle" /\ Row(k)
        /\ UNCHANGED <<mounts, nm, cfg, nrot, rot, primary, lost, torn, quiet>>
    BY <1>1 DEF GetRotation
  <2>2. /\ v \in Req
        /\ v.pc \in {"complete", "abort"} /\ v.new = rot[k].new /\ v.rot = k
    BY <1>1, <2>1, CaConstants DEF IInv, Types, Req, Rot, Locals
  <2>3. req' = [req EXCEPT ![r] = v]
    BY <1>1 DEF GetRotation
  <2> HIDE DEF v
  <2>4. /\ req'[r] = v /\ \A q \in Procs \ {r} : req'[q] = req[q]
    BY <1>1, <2>1, <2>2, <2>3 DEF IInv, Types
  <2>5. Types'
    BY <2>1, <2>2, <2>3 DEF IInv, Types
  <2>6. RowsInOrder'
    BY <1>1, <2>1, <2>2, <2>4, CaConstants DEF IInv, RowsInOrder
  <2>7. Fresh'
    BY <1>1, <2>1, <2>2, <2>4 DEF IInv, Fresh
  <2>8. Past'
    BY <1>1, <2>1, <2>2, <2>4 DEF IInv, Past, Fresh, Bindings
  <2>9. Bindings'
    BY <1>1, <2>1, <2>2, <2>4 DEF IInv, Bindings
  <2>10. Served'
    BY <1>1, <2>1, <2>2, <2>4 DEF IInv, Served, Fresh, Past
  <2>11. Superseded'
    BY <1>1, <2>1, <2>2, <2>4 DEF IInv, Superseded, Past, Bindings
  <2>12. Cleaning'
    BY <1>1, <2>1, <2>2, <2>4 DEF IInv, Cleaning, Past, Superseded
  <2> QED  BY <2>5, <2>6, <2>7, <2>8, <2>9, <2>10, <2>11, <2>12 DEF IInv

LEMMA CompleteRotationKeeps ==
  ASSUME IInv, NEW r \in Agents, CompleteRotation(r)
  PROVE  IInv'
<1>1. PICK k \in Rots : /\ k = req[r].rot /\ Row(k) /\ req[r].new = rot[k].new
                         /\ r \in Procs /\ req[r].pc = "complete"
  BY DEF IInv, Bindings, CompleteRotation
<1>2. CASE rot[k].st = "cutover_ready"
  <2> DEFINE v == [req[r] EXCEPT !.pc = "promote"]
             x == [rot[k] EXCEPT !.st = "idle"]
  <2>1. /\ rot[k].st \in InFlight
        /\ UNCHANGED <<mounts, nm, cfg, nrot, primary, lost, torn, quiet>>
    BY <1>1, <1>2 DEF CompleteRotation
  <2>2. req[r] \in Req
    BY <1>1, <1>2, <2>1 DEF IInv, Types
  <2>3. /\ v \in Req
        /\ v.pc = "promote" /\ v.new = rot[k].new /\ v.rot = k
    BY <1>1, <2>2 DEF Req
  <2>4. /\ x \in Rot
        /\ x.st = "idle" /\ x.old = rot[k].old /\ x.new = rot[k].new
        /\ x.elapsed = rot[k].elapsed /\ x.removed = rot[k].removed
    BY DEF IInv, Types, Rot
  <2>5. req' = [req EXCEPT ![r] = v] /\ rot' = [rot EXCEPT ![k] = x]
    BY <1>1, <1>2 DEF CompleteRotation
  <2> HIDE DEF v, x
  <2>6. /\ req'[r] = v /\ \A q \in Procs \ {r} : req'[q] = req[q]
        /\ rot'[k] = x /\ \A l \in Rots \ {k} : rot'[l] = rot[l]
    BY <1>1, <1>2, <2>1, <2>3, <2>4, <2>5 DEF IInv, Types
  <2>7. /\ rot[k].new \in mounts \cup torn /\ rot[k].new \notin primary
        /\ rot[k].old \in primary /\ ~rot[k].elapsed
    BY <1>1, <2>1 DEF IInv, Served, Past, Superseded
  <2>8. \A q \in Procs : At(q, "promote") => req[q].rot # k
    BY <1>1, <2>1 DEF IInv, Bindings
  <2>9. Types'
    BY <2>1, <2>3, <2>4, <2>5, <2>7, <2>8 DEF IInv, Types
  <2>10. RowsInOrder'
    BY <1>1, <1>2, <2>1, <2>3, <2>4, <2>6, <2>7, <2>8, CaConstants DEF IInv, RowsInOrder
  <2>11. Fresh'
    BY <1>1, <1>2, <2>1, <2>3, <2>4, <2>6, <2>7, <2>8 DEF IInv, Fresh
  <2>12. Past'
    BY <1>1, <1>2, <2>1, <2>3, <2>4, <2>6, <2>7, <2>8 DEF IInv, Past, Fresh, Bindings
  <2>13. Bindings'
    BY <1>1, <1>2, <2>1, <2>3, <2>4, <2>6, <2>7, <2>8 DEF IInv, Bindings
  <2>14. Served'
    BY <1>1, <1>2, <2>1, <2>3, <2>4, <2>6, <2>7, <2>8 DEF IInv, Served, Fresh, Past
  <2>15. Superseded'
    BY <1>1, <1>2, <2>1, <2>3, <2>4, <2>6, <2>7, <2>8 DEF IInv, Superseded, Past, Bindings
  <2>16. Cleaning'
    BY <1>1, <1>2, <2>1, <2>3, <2>4, <2>6, <2>7, <2>8 DEF IInv, Cleaning, Past, Superseded
  <2> QED  BY <2>9, <2>10, <2>11, <2>12, <2>13, <2>14, <2>15, <2>16 DEF IInv
<1>3. CASE ~(rot[k].st = "cutover_ready")
  <2>1. Set(r, IdleReq) /\ UNCHANGED <<mounts, nm, cfg, nrot, rot, primary, lost, torn, quiet>>
    BY <1>1, <1>3 DEF CompleteRotation
  <2>2. IdleReq \in Req /\ IdleReq.pc = "idle"
    BY CaConstants DEF IdleReq, Locals, Req
  <2> QED  BY <1>1, <2>1, <2>2, HarmlessStep DEF IInv, Types
<1> QED  BY <1>2, <1>3

(* The mount promoted has not been primary before, so that no old mount    *)
(* is.                                                                     *)
LEMMA PromoteMountKeeps ==
  ASSUME IInv, NEW r \in Agents, PromoteMount(r)
  PROVE  IInv'
<1> DEFINE v == IdleReq
<1>1. /\ r \in Procs /\ req[r].pc = "promote"
      /\ cfg' = [mount |-> req[r].new, key |-> req[r].new]
      /\ primary' = primary \cup {req[r].new}
      /\ UNCHANGED <<mounts, nm, nrot, rot, lost, torn, quiet>>
  BY DEF PromoteMount
<1>2. /\ v \in Req
      /\ v.pc = "idle"
  BY <1>1, CaConstants DEF IInv, Types, Req, IdleReq, Locals
<1>3. req' = [req EXCEPT ![r] = v]
  BY DEF PromoteMount
<1> HIDE DEF v
<1>4. /\ req'[r] = v /\ \A q \in Procs \ {r} : req'[q] = req[q]
  BY <1>1, <1>2, <1>3 DEF IInv, Types
<1>5. /\ req[r].new \in mounts \cup torn /\ req[r].new \notin primary /\ req[r].rot \in Rots
      /\ req[r].new = rot[req[r].rot].new /\ rot[req[r].rot].st = "idle"
  BY <1>1 DEF IInv, Past, Bindings, Served
<1>6. req[r].new \in Mounts
  BY <1>5 DEF IInv, Types
<1>7. req[r].new \in 0..MaxMounts
  BY <1>6, CaConstants
<1>8. cfg'.mount = req[r].new
  BY <1>1
<1>9. \A l \in Rots : Row(l) /\ rot[l].st # "idle" => rot[l].new # req[r].new
  BY <1>1, <1>5 DEF IInv, Fresh
<1>10. \A q \in Procs : Starting(q) => req[q].new # req[r].new \/ Mistaken(q)
  BY <1>1, <1>5 DEF IInv, Fresh
<1>11. \A q \in Procs \ {r} : At(q, "promote") => req[q].new # req[r].new
  BY <1>1, <1>5 DEF IInv, Fresh, Bindings
<1>12. req[r].new <= nm
  BY <1>1, <1>5 DEF IInv, Fresh
<1>13. Types'
  BY <1>1, <1>2, <1>3, <1>5, <1>6, <1>7, <1>8, <1>9, <1>10, <1>11, <1>12 DEF IInv, Types
<1>14. RowsInOrder'
  BY <1>1, <1>2, <1>4, <1>5, <1>6, <1>7, <1>8, <1>9, <1>10, <1>11, <1>12, CaConstants
    DEF IInv, RowsInOrder
<1>15. Fresh'
  BY <1>1, <1>2, <1>4, <1>5, <1>6, <1>7, <1>8, <1>9, <1>10, <1>11, <1>12 DEF IInv, Fresh
<1>16. Past'
  <2>1. \A m \in primary' : m <= nm'
    BY <1>1, <1>12 DEF IInv, Past
  <2>2. /\ \A k \in Rots : Row(k)' => rot'[k].old \in primary'
        /\ \A k \in Rots : Row(k)' /\ rot'[k].st # "idle" => rot'[k].new \notin primary'
    BY <1>1, <1>9 DEF IInv, Past
  <2>3. (\A q \in Procs : Starting(q) => /\ req[q].old \in primary
                                         /\ req[q].new \notin primary \/ Mistaken(q))'
    BY <1>1, <1>2, <1>4, <1>10 DEF IInv, Past
  <2>4. \A q \in Procs : At(q, "promote")' => req'[q].new \notin primary'
    BY <1>1, <1>2, <1>4, <1>11 DEF IInv, Past
  <2>5. cfg'.mount \in primary'
    BY <1>1, <1>8
  <2> QED  BY <2>1, <2>2, <2>3, <2>4, <2>5 DEF Past
<1>17. Bindings'
  BY <1>1, <1>2, <1>4, <1>5, <1>6, <1>7, <1>8, <1>9, <1>10, <1>11, <1>12 DEF IInv, Bindings
<1>18. Served'
  BY <1>1, <1>2, <1>4, <1>5, <1>6, <1>7, <1>8, <1>9, <1>10, <1>11, <1>12
    DEF IInv, Served, Fresh, Past
<1>19. Superseded'
  BY <1>1, <1>2, <1>4, <1>5, <1>6, <1>7, <1>8, <1>9, <1>10, <1>11, <1>12
    DEF IInv, Superseded, Past, Bindings
<1>20. Cleaning'
  BY <1>1, <1>2, <1>4, <1>5, <1>6, <1>7, <1>8, <1>9, <1>10, <1>11, <1>12
    DEF IInv, Cleaning, Past, Superseded
<1> QED  BY <1>13, <1>14, <1>15, <1>16, <1>17, <1>18, <1>19, <1>20 DEF IInv

LEMMA AbortRotationKeeps ==
  ASSUME IInv, NEW r \in Admins, AbortRotation(r)
  PROVE  IInv'
<1>1. PICK k \in Rots : /\ k = req[r].rot /\ Row(k) /\ req[r].new = rot[k].new
                         /\ r \in Procs /\ req[r].pc = "abort"
  BY DEF IInv, Bindings, AbortRotation
<1>2. CASE AbortAllowed(k)
  <2> DEFINE v == [req[r] EXCEPT !.pc = "discard"]
             x == [rot[k] EXCEPT !.st = "rollback"]
  <2>1. /\ rot[k].st \in InFlight
        /\ UNCHANGED <<mounts, nm, cfg, nrot, primary, lost, torn, quiet>>
    BY <1>1, <1>2 DEF AbortRotation, AbortAllowed, Aborted
  <2>2. req[r] \in Req
    BY <1>1, <1>2, <2>1 DEF IInv, Types
  <2>3. /\ v \in Req
        /\ v.pc = "discard" /\ v.new = rot[k].new /\ v.rot = k
    BY <1>1, <2>2 DEF Req
  <2>4. /\ x \in Rot
        /\ x.st = "rollback" /\ x.old = rot[k].old /\ x.new = rot[k].new
        /\ x.elapsed = rot[k].elapsed /\ x.removed = rot[k].removed
    BY DEF IInv, Types, Rot
  <2>5. req' = [req EXCEPT ![r] = v] /\ rot' = [rot EXCEPT ![k] = x]
    BY <1>1, <1>2 DEF AbortRotation, AbortAllowed, Aborted
  <2> HIDE DEF v, x
  <2>6. /\ req'[r] = v /\ \A q \in Procs \ {r} : req'[q] = req[q]
        /\ rot'[k] = x /\ \A l \in Rots \ {k} : rot'[l] = rot[l]
    BY <1>1, <1>2, <2>1, <2>3, <2>4, <2>5 DEF IInv, Types
  <2>7. /\ rot[k].new \in mounts \cup torn /\ rot[k].new \notin primary
        /\ rot[k].old \in primary /\ ~rot[k].elapsed
    BY <1>1, <2>1 DEF IInv, Served, Past, Superseded
  <2>8. \A q \in Procs : At(q, "promote") => req[q].rot # k
    BY <1>1, <2>1 DEF IInv, Bindings
  <2>9. Types'
    BY <2>1, <2>3, <2>4, <2>5, <2>7, <2>8 DEF IInv, Types
  <2>10. RowsInOrder'
    BY <1>1, <1>2, <2>1, <2>3, <2>4, <2>6, <2>7, <2>8, CaConstants DEF IInv, RowsInOrder
  <2>11. Fresh'
    BY <1>1, <1>2, <2>1, <2>3, <2>4, <2>6, <2>7, <2>8 DEF IInv, Fresh
  <2>12. Past'
    BY <1>1, <1>2, <2>1, <2>3, <2>4, <2>6, <2>7, <2>8 DEF IInv, Past, Fresh, Bindings
  <2>13. Bindings'
    BY <1>1, <1>2, <2>1, <2>3, <2>4, <2>6, <2>7, <2>8 DEF IInv, Bindings
  <2>14. Served'
    BY <1>1, <1>2, <2>1, <2>3, <2>4, <2>6, <2>7, <2>8 DEF IInv, Served, Fresh, Past
  <2>15. Superseded'
    BY <1>1, <1>2, <2>1, <2>3, <2>4, <2>6, <2>7, <2>8 DEF IInv, Superseded, Past, Bindings
  <2>16. Cleaning'
    BY <1>1, <1>2, <2>1, <2>3, <2>4, <2>6, <2>7, <2>8 DEF IInv, Cleaning, Past, Superseded
  <2> QED  BY <2>9, <2>10, <2>11, <2>12, <2>13, <2>14, <2>15, <2>16 DEF IInv
<1>3. CASE ~(AbortAllowed(k))
  <2>1. Set(r, IdleReq) /\ UNCHANGED <<mounts, nm, cfg, nrot, rot, primary, lost, torn, quiet>>
    BY <1>1, <1>3 DEF AbortRotation, AbortAllowed, Aborted
  <2>2. IdleReq \in Req /\ IdleReq.pc = "idle"
    BY CaConstants DEF IdleReq, Locals, Req
  <2> QED  BY <1>1, <2>1, <2>2, HarmlessStep DEF IInv, Types
<1> QED  BY <1>2, <1>3

LEMMA ListCleanableKeeps ==
  ASSUME IInv, NEW w \in Workers, ListCleanable(w)
  PROVE  IInv'
<1> DEFINE v == NextClean(Cleanable)
<1>1. /\ w \in Procs /\ req[w].pc = "list"
      /\ UNCHANGED <<mounts, nm, cfg, nrot, rot, primary, lost, torn, quiet>>
  BY DEF ListCleanable
<1>2. /\ v \in Req
      /\ v.pc \in {"idle", "clean"} 
      /\ \A k \in v.todo : k \in Rots /\ rot[k].elapsed
  BY <1>1, CaConstants DEF IInv, Types, Req, NextClean, Locals, Cleanable
<1>3. req' = [req EXCEPT ![w] = v]
  BY DEF ListCleanable
<1> HIDE DEF v
<1>4. /\ req'[w] = v /\ \A q \in Procs \ {w} : req'[q] = req[q]
  BY <1>1, <1>2, <1>3 DEF IInv, Types
<1>5. Types'
  BY <1>1, <1>2, <1>3 DEF IInv, Types
<1>6. RowsInOrder'
  BY <1>1, <1>2, <1>4, CaConstants DEF IInv, RowsInOrder
<1>7. Fresh'
  BY <1>1, <1>2, <1>4 DEF IInv, Fresh
<1>8. Past'
  BY <1>1, <1>2, <1>4 DEF IInv, Past, Fresh, Bindings
<1>9. Bindings'
  BY <1>1, <1>2, <1>4 DEF IInv, Bindings
<1>10. Served'
  BY <1>1, <1>2, <1>4 DEF IInv, Served, Fresh, Past
<1>11. Superseded'
  BY <1>1, <1>2, <1>4 DEF IInv, Superseded, Past, Bindings
<1>12. Cleaning'
  BY <1>1, <1>2, <1>4 DEF IInv, Cleaning, Past, Superseded
<1> QED  BY <1>5, <1>6, <1>7, <1>8, <1>9, <1>10, <1>11, <1>12 DEF IInv

(* The mount removed is not primary, unless a promotion was lost.          *)
LEMMA DisableOldKeeps ==
  ASSUME IInv, NEW w \in Workers, NEW k \in Rots, DisableOld(w, k)
  PROVE  IInv'
<1> DEFINE v == Locals("mark", 0, 0, k, req[w].todo)
<1>1. /\ w \in Procs /\ req[w].pc = "clean" /\ k \in req[w].todo
      /\ mounts' = mounts \ {rot[k].old}
      /\ UNCHANGED <<nm, cfg, nrot, rot, primary, lost, torn, quiet>>
  BY DEF DisableOld
<1>2. /\ v \in Req
      /\ v.pc = "mark" /\ v.rot = k /\ v.todo = req[w].todo
  BY <1>1, CaConstants DEF IInv, Types, Req, Locals
<1>3. req' = [req EXCEPT ![w] = v]
  BY DEF DisableOld
<1> HIDE DEF v
<1>4. /\ req'[w] = v /\ \A q \in Procs \ {w} : req'[q] = req[q]
  BY <1>1, <1>2, <1>3 DEF IInv, Types
<1>5. /\ rot[k].elapsed /\ rot[k].st = "idle" /\ rot[k].old \in primary
      /\ lost \/ rot[k].old # cfg.mount
  BY <1>1 DEF IInv, Past, Superseded, Cleaning
<1>6. Types'
  BY <1>1, <1>2, <1>3, <1>5 DEF IInv, Types
<1>7. RowsInOrder'
  BY <1>1, <1>2, <1>4, <1>5, CaConstants DEF IInv, RowsInOrder
<1>8. Fresh'
  BY <1>1, <1>2, <1>4, <1>5 DEF IInv, Fresh
<1>9. Past'
  BY <1>1, <1>2, <1>4, <1>5 DEF IInv, Past, Fresh, Bindings
<1>10. Bindings'
  BY <1>1, <1>2, <1>4, <1>5 DEF IInv, Bindings
<1>11. Served'
  BY <1>1, <1>2, <1>4, <1>5 DEF IInv, Served, Fresh, Past
<1>12. Superseded'
  BY <1>1, <1>2, <1>4, <1>5 DEF IInv, Superseded, Past, Bindings
<1>13. Cleaning'
  BY <1>1, <1>2, <1>4, <1>5 DEF IInv, Cleaning, Past, Superseded
<1> QED  BY <1>6, <1>7, <1>8, <1>9, <1>10, <1>11, <1>12, <1>13 DEF IInv

LEMMA SkipOldKeeps ==
  ASSUME IInv, NEW w \in Workers, NEW k \in Rots, SkipOld(w, k)
  PROVE  IInv'
<1> DEFINE v == NextClean(req[w].todo \ {k})
<1>1. /\ w \in Procs /\ req[w].pc = "clean"
      /\ UNCHANGED <<mounts, nm, cfg, nrot, rot, primary, lost, torn, quiet>>
  BY DEF SkipOld
<1>2. /\ v \in Req
      /\ v.pc \in {"idle", "clean"} /\ v.todo \subseteq req[w].todo
  BY <1>1, CaConstants DEF IInv, Types, Req, NextClean, Locals
<1>3. req' = [req EXCEPT ![w] = v]
  BY DEF SkipOld
<1> HIDE DEF v
<1>4. /\ req'[w] = v /\ \A q \in Procs \ {w} : req'[q] = req[q]
  BY <1>1, <1>2, <1>3 DEF IInv, Types
<1>5. Types'
  BY <1>1, <1>2, <1>3 DEF IInv, Types
<1>6. RowsInOrder'
  BY <1>1, <1>2, <1>4, CaConstants DEF IInv, RowsInOrder
<1>7. Fresh'
  BY <1>1, <1>2, <1>4 DEF IInv, Fresh
<1>8. Past'
  BY <1>1, <1>2, <1>4 DEF IInv, Past, Fresh, Bindings
<1>9. Bindings'
  BY <1>1, <1>2, <1>4 DEF IInv, Bindings
<1>10. Served'
  BY <1>1, <1>2, <1>4 DEF IInv, Served, Fresh, Past
<1>11. Superseded'
  BY <1>1, <1>2, <1>4 DEF IInv, Superseded, Past, Bindings
<1>12. Cleaning'
  BY <1>1, <1>2, <1>4 DEF IInv, Cleaning, Past, Superseded
<1> QED  BY <1>5, <1>6, <1>7, <1>8, <1>9, <1>10, <1>11, <1>12 DEF IInv

LEMMA MarkOldMountRemovedKeeps ==
  ASSUME IInv, NEW w \in Workers, MarkOldMountRemoved(w)
  PROVE  IInv'
<1>1. PICK k \in Rots : /\ k = req[w].rot /\ w \in Procs /\ req[w].pc = "mark"
                         /\ rot[k].elapsed /\ rot[k].st = "idle" /\ rot[k].old \notin mounts
  BY DEF MarkOldMountRemoved, IInv, Superseded, Cleaning
<1>2. QED
  <2> DEFINE v == NextClean(req[w].todo \ {k})
             x == [rot[k] EXCEPT !.removed = TRUE]
  <2>1. /\ w \in Procs
        /\ UNCHANGED <<mounts, nm, cfg, nrot, primary, lost, torn, quiet>>
    BY <1>1 DEF MarkOldMountRemoved
  <2>2. /\ v \in Req
        /\ v.pc \in {"idle", "clean"} /\ v.todo \subseteq req[w].todo
    BY <1>1, <2>1, CaConstants DEF IInv, Types, Req, NextClean, Locals
  <2>3. /\ x \in Rot
        /\ x.st = rot[k].st /\ x.old = rot[k].old /\ x.new = rot[k].new
        /\ x.elapsed = rot[k].elapsed /\ x.removed = TRUE
    BY CaConstants DEF IInv, Types, Rot
  <2>4. req' = [req EXCEPT ![w] = v] /\ rot' = [rot EXCEPT ![k] = x]
    BY <1>1 DEF MarkOldMountRemoved
  <2> HIDE DEF v, x
  <2>5. /\ req'[w] = v /\ \A q \in Procs \ {w} : req'[q] = req[q]
        /\ rot'[k] = x /\ \A l \in Rots \ {k} : rot'[l] = rot[l]
    BY <1>1, <2>1, <2>2, <2>3, <2>4 DEF IInv, Types
  <2>6. \A l \in Rots : /\ rot[l].elapsed => rot'[l].elapsed
                        /\ rot'[l].old = rot[l].old /\ rot'[l].st = rot[l].st
                        /\ rot'[l].removed => rot[l].removed \/ l = k
    BY <1>1, <2>3, <2>5
  <2>7. Types'
    BY <2>1, <2>2, <2>3, <2>4, <2>6 DEF IInv, Types
  <2>8. RowsInOrder'
    BY <1>1, <2>1, <2>2, <2>3, <2>5, <2>6, CaConstants DEF IInv, RowsInOrder
  <2>9. Fresh'
    BY <1>1, <2>1, <2>2, <2>3, <2>5, <2>6 DEF IInv, Fresh
  <2>10. Past'
    BY <1>1, <2>1, <2>2, <2>3, <2>5, <2>6 DEF IInv, Past, Fresh, Bindings
  <2>11. Bindings'
    BY <1>1, <2>1, <2>2, <2>3, <2>5, <2>6 DEF IInv, Bindings
  <2>12. Served'
    BY <1>1, <2>1, <2>2, <2>3, <2>5, <2>6 DEF IInv, Served, Fresh, Past
  <2>13. Superseded'
    BY <1>1, <2>1, <2>2, <2>3, <2>5, <2>6 DEF IInv, Superseded, Past, Bindings
  <2>14. Cleaning'
    BY <1>1, <2>1, <2>2, <2>3, <2>5, <2>6 DEF IInv, Cleaning
  <2> QED  BY <2>7, <2>8, <2>9, <2>10, <2>11, <2>12, <2>13, <2>14 DEF IInv

(* The request that completed the rotation has ended: it has promoted the  *)
(* new mount, or a promotion was lost.                                     *)
LEMMA GraceElapsesKeeps ==
  ASSUME IInv, NEW k \in Rots, GraceElapses(k)
  PROVE  IInv'
<1> DEFINE x == [rot[k] EXCEPT !.elapsed = TRUE]
<1>1. /\ rot[k].st = "idle"
      /\ UNCHANGED <<mounts, nm, cfg, nrot, req, primary, lost, torn, quiet>>
  BY DEF GraceElapses
<1>2. /\ x \in Rot
      /\ x.st = rot[k].st /\ x.old = rot[k].old /\ x.new = rot[k].new
      /\ x.elapsed = TRUE /\ x.removed = rot[k].removed
  BY <1>1, CaConstants DEF IInv, Types, Rot
<1>3. rot' = [rot EXCEPT ![k] = x]
  BY DEF GraceElapses
<1> HIDE DEF x
<1>4. /\ rot'[k] = x /\ \A l \in Rots \ {k} : rot'[l] = rot[l]
  BY <1>1, <1>2, <1>3 DEF IInv, Types
<1>5. lost \/ rot[k].old # cfg.mount
  BY DEF GraceElapses, IInv, Superseded
<1>6. Types'
  BY <1>1, <1>2, <1>3, <1>5 DEF IInv, Types
<1>7. RowsInOrder'
  BY <1>1, <1>2, <1>4, <1>5, CaConstants DEF IInv, RowsInOrder
<1>8. Fresh'
  BY <1>1, <1>2, <1>4, <1>5 DEF IInv, Fresh
<1>9. Past'
  BY <1>1, <1>2, <1>4, <1>5 DEF IInv, Past, Fresh, Bindings
<1>10. Bindings'
  BY <1>1, <1>2, <1>4, <1>5 DEF IInv, Bindings
<1>11. Served'
  BY <1>1, <1>2, <1>4, <1>5 DEF IInv, Served, Fresh, Past
<1>12. Superseded'
  BY <1>1, <1>2, <1>4, <1>5 DEF IInv, Superseded, Past, Bindings
<1>13. Cleaning'
  BY <1>1, <1>2, <1>4, <1>5 DEF IInv, Cleaning, Past, Superseded
<1> QED  BY <1>6, <1>7, <1>8, <1>9, <1>10, <1>11, <1>12, <1>13 DEF IInv
LEMMA ReconcileKeeps ==
  ASSUME IInv, NEW w \in Workers, ListForReconcile(w) \/ FetchKey(w) \/ CacheKey(w) \/ NothingDue(w)
  PROVE  IInv'
<1> DEFINE u == Locals("fetch", cfg.key, cfg.mount, 0, {})
           x == [req[w] EXCEPT !.pc = "cache"]
<1>1. u \in Req /\ u.pc = "fetch"
  BY CaConstants DEF IInv, Types, Req, Locals
<1>2. x \in Req /\ x.pc = "cache"
  BY DEF IInv, Types, Req
<1>3. \A l \in {"due", "list"} : Ended(w, l) \in Req /\ Ended(w, l).pc \in {"idle", "due", "list"}
  BY CaConstants DEF Ended, Locals, Req
<1>4. PICK v \in {u, x, Ended(w, "due"), Ended(w, "list")} : Set(w, v)
  BY DEF ListForReconcile, FetchKey, CacheKey, NothingDue
<1>5. ~At(w, "promote") /\ UNCHANGED <<mounts, nm, nrot, rot, primary, lost, torn, quiet>>
  BY DEF ListForReconcile, FetchKey, CacheKey, NothingDue
<1>6. cfg' \in [mount : Mounts, key : 0..MaxMounts] /\ cfg'.mount = cfg.mount
  <2>1. cfg' = cfg \/ cfg' = [cfg EXCEPT !.key = req[w].new]
    BY DEF ListForReconcile, FetchKey, CacheKey, NothingDue
  <2>2. req[w].new \in 0..MaxMounts
    BY DEF IInv, Types, Req
  <2> QED  BY <2>1, <2>2 DEF IInv, Types
<1>7. v \in Req /\ v.pc \in {"idle", "fetch", "cache", "due", "list"}
  BY <1>1, <1>2, <1>3, <1>4
<1> HIDE DEF u, x
<1> QED  BY <1>4, <1>5, <1>6, <1>7, HarmlessStep DEF IInv, Types

(* A request that fails while it is promoting loses a promotion. *)
LEMMA FailKeeps ==
  ASSUME IInv, NEW r \in Procs, Fail(r)
  PROVE  IInv'
<1>1. IdleReq \in Req /\ IdleReq.pc = "idle"
  BY CaConstants DEF IdleReq, Locals, Req
<1>2. /\ Set(r, IdleReq) /\ lost' = (lost \/ At(r, "promote"))
      /\ UNCHANGED <<mounts, nm, cfg, nrot, rot, primary, torn, quiet>>
  BY DEF Fail
<1> QED  BY <1>1, <1>2, HarmlessStep DEF IInv, Types

LEMMA StutterKeeps ==
  ASSUME IInv, UNCHANGED vars \/ Quieten
  PROVE  IInv'
<1>1. UNCHANGED <<mounts, nm, cfg, nrot, rot, req, primary, lost, torn>> /\ quiet' \in BOOLEAN
  BY DEF vars, Quieten, IInv, Types
<1>2. Types' /\ RowsInOrder' /\ Fresh' /\ Past'
  BY <1>1 DEF IInv, Types, RowsInOrder, Fresh, Past
<1>3. Bindings' /\ Served' /\ Superseded' /\ Cleaning'
  BY <1>1 DEF IInv, Bindings, Served, Superseded, Cleaning
<1> QED  BY <1>2, <1>3 DEF IInv

LEMMA InitInv == Init => IInv
<1> SUFFICES ASSUME Init PROVE IInv
  OBVIOUS
<1>1. \A k \in Rots : rot[k] = NoRot
  BY DEF Init
<1>2. NoRot \in Rot /\ NoRot.st = "none" /\ NoRot.elapsed = FALSE /\ NoRot.removed = FALSE
  BY CaConstants DEF NoRot, Rot
<1>3. \A r \in Procs : req[r] = IdleReq
  BY DEF Init
<1>4. IdleReq \in Req /\ IdleReq.pc = "idle"
  BY CaConstants DEF IdleReq, Locals, Req
<1>5. Types
  <2>1. 1 \in Mounts /\ 0 \in 0..MaxMounts /\ 0 \in 0..MaxRot
    BY CaConstants
  <2>2. rot \in [Rots -> Rot] /\ req \in [Procs -> Req]
    BY <1>2, <1>4 DEF Init
  <2> QED  BY <2>1, <2>2 DEF Init, Types
<1>6. RowsInOrder
  BY <1>1, <1>2, CaConstants DEF Init, RowsInOrder
<1>7. Fresh /\ Past
  BY <1>1, <1>2, <1>3, <1>4, CaConstants DEF Init, Fresh, Past
<1>8. Bindings /\ Served
  BY <1>1, <1>2, <1>3, <1>4 DEF Init, Bindings, Served
<1>9. Superseded /\ Cleaning
  BY <1>1, <1>2, <1>3, <1>4 DEF Init, Superseded, Cleaning
<1> QED  BY <1>5, <1>6, <1>7, <1>8, <1>9 DEF IInv

LEMMA NextKeeps == IInv /\ [Next]_vars => IInv'
<1> SUFFICES ASSUME IInv, [Next]_vars PROVE IInv'
  OBVIOUS
<1>1. ASSUME NEW r \in Admins \cup Workers, StartStep(r) PROVE IInv'
  BY <1>1, TokenForKeeps, EnableMountKeeps, CreateRotationKeeps, CreateAnswerLostKeeps,
     CreateFailsKeeps, BestEffortDisableKeeps DEF StartStep
<1>2. ASSUME NEW r \in Admins, AbortRotation(r) PROVE IInv'
  BY <1>2, AbortRotationKeeps
<1>3. ASSUME NEW k \in Rots, MarkCutoverReady(k) \/ GraceElapses(k) PROVE IInv'
  BY <1>3, MarkCutoverReadyKeeps, GraceElapsesKeeps
<1>4. ASSUME NEW r \in Admins \cup Agents, NEW k \in Rots, GetRotation(r, k) PROVE IInv'
  BY <1>4, GetRotationKeeps
<1>5. ASSUME NEW r \in Agents, CompleteRotation(r) \/ PromoteMount(r) PROVE IInv'
  BY <1>5, CompleteRotationKeeps, PromoteMountKeeps
<1>6. ASSUME NEW w \in Workers, WorkerStep(w) PROVE IInv'
  <2>1. ASSUME CleanStep(w) PROVE IInv'
    BY <2>1, ListCleanableKeeps, MarkOldMountRemovedKeeps, DisableOldKeeps, SkipOldKeeps
      DEF CleanStep
  <2> QED  BY <1>1, <1>6, <2>1, ReconcileKeeps DEF WorkerStep
<1>7. ASSUME NEW r \in Procs, Fail(r) PROVE IInv'
  BY <1>7, FailKeeps
<1>8. CASE Quieten \/ UNCHANGED vars
  BY <1>8, StutterKeeps
<1> QED  BY <1>1, <1>2, <1>3, <1>4, <1>5, <1>6, <1>7, <1>8 DEF Next

LEMMA Invariance == Spec => []IInv
BY InitInv, NextKeeps, PTL DEF Spec

(* The types, and at most one rotation in flight: the partial unique index *)
(* holds of what starts, completions and aborts leave behind.              *)
THEOREM TypeCorrect == Spec => []TypeOK
<1>1. IInv => TypeOK
  <2> SUFFICES ASSUME IInv PROVE Cardinality(Active) <= 1
    BY DEF IInv, Types, TypeOK
  <2>1. CASE Active = {}
    BY <2>1, FS_EmptySet
  <2>2. CASE Active # {}
    <3>1. PICK k \in Active : TRUE
      BY <2>2
    <3>2. Active = {k}
      BY <3>1 DEF IInv, RowsInOrder
    <3>3. Cardinality({k}) = 1
      BY FS_Singleton
    <3> QED  BY <3>2, <3>3
  <2> QED  BY <2>1, <2>2
<1> QED  BY <1>1, Invariance, PTL

(* The mount of the configuration is in Vault, for any number of requests, *)
(* workers and rotations, unless a completion ended before its promotion   *)
(* or the start that provisioned this mount took its INSERT for failed.    *)
THEOREM PrimaryIsServed == Spec => []PrimaryServes
<1>1. IInv => PrimaryServes
  BY DEF IInv, Served, PrimaryServes
<1> QED  BY <1>1, Invariance, PTL

(* Old and new CA can sign for as long as a rotation is in flight: no      *)
(* abort, no cleanup and no start that fails, of this or of another        *)
(* rotation, takes their mounts away, except the start that inserted this  *)
(* rotation and took the INSERT for failed.                                *)
THEOREM BothCasSign == Spec => []BothSign
<1>1. IInv => BothSign
  BY DEF IInv, Served, BothSign, PrimaryServes
<1> QED  BY <1>1, Invariance, PTL

(* The grace cleanup marks no mount removed that is in Vault: no start can *)
(* bring back a mount that has been primary.                               *)
THEOREM RemovedMountsAreGone == Spec => []RemovedIsGone
<1>1. IInv => RemovedIsGone
  BY DEF IInv, Cleaning, RemovedIsGone
<1> QED  BY <1>1, Invariance, PTL

(* Starts that fail and aborts remove no mount that has been primary; the  *)
(* grace cleanup does, after the grace period of a completed rotation.     *)
(* Excepted is the mount of a rotation whose own start took its INSERT for *)
(* failed: it may be torn down after it was promoted.                      *)
THEOREM OldMountsOutliveGrace == Spec => RetiredAfterGrace
<1> DEFINE Retiring == \A m \in primary \ torn : m \in mounts /\ m \notin mounts' =>
             \E k \in Rots : rot[k].st = "idle" /\ rot[k].elapsed /\ rot[k].old = m
<1>1. IInv /\ [Next]_vars => Retiring
  <2> SUFFICES ASSUME IInv, [Next]_vars, NEW m \in primary \ torn, m \in mounts, m \notin mounts'
               PROVE  \E k \in Rots : rot[k].st = "idle" /\ rot[k].elapsed /\ rot[k].old = m
    OBVIOUS
  <2>1. ASSUME NEW r \in Procs, BestEffortDisable(r) PROVE FALSE
    <3>1. req[r].pc \in {"undo", "discard"} /\ m = req[r].new
      BY <2>1 DEF BestEffortDisable
    <3> QED  BY <3>1 DEF IInv, Past, Bindings
  <2>2. ASSUME NEW w \in Workers, NEW k \in Rots, DisableOld(w, k)
        PROVE  rot[k].st = "idle" /\ rot[k].elapsed /\ rot[k].old = m
    <3>1. req[w].pc = "clean" /\ k \in req[w].todo /\ m = rot[k].old /\ w \in Procs
      BY <2>2 DEF DisableOld
    <3> QED  BY <3>1 DEF IInv, Superseded, Cleaning
  <2>3. mounts' # mounts
    OBVIOUS
  <2>4. ASSUME NEW r \in Admins \cup Workers, EnableMount(r) PROVE FALSE
    BY <2>4 DEF EnableMount
  <2>5. \/ \E r \in Procs : BestEffortDisable(r)
        \/ \E w \in Workers, k \in Rots : DisableOld(w, k)
    BY <2>3, <2>4 DEF Next, StartStep, WorkerStep, CleanStep, vars, TokenFor, NothingDue,
       CreateRotation, CreateAnswerLost, CreateFails, MarkCutoverReady, GetRotation,
       CompleteRotation, PromoteMount, AbortRotation, ListCleanable, SkipOld, MarkOldMountRemoved,
       ListForReconcile, FetchKey, CacheKey, Fail, GraceElapses, Quieten
  <2> QED  BY <2>1, <2>2, <2>5
<1>2. IInv /\ [Next]_vars => [Retiring]_vars
  BY <1>1
<1>3. Spec => [][Retiring]_vars
  BY <1>2, Invariance, PTL DEF Spec
<1> QED  BY <1>3 DEF RetiredAfterGrace
=============================================================================
