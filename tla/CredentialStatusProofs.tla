----------------------- MODULE CredentialStatusProofs -----------------------
(***************************************************************************)
(* Proofs for CredentialStatus, for any number of credentials, slots,      *)
(* lists, requests, monitors and verifiers.  The argument is one of locks: *)
(* a transaction holds its rows apart from all others, so what it read is  *)
(* still there when it writes, and what it was allowed to do it may still  *)
(* do.                                                                     *)
(***************************************************************************)
EXTENDS CredentialStatus, FiniteSetTheorems, WellFoundedInduction, TLAPS

(* What the monitor has checked, and what it hears. *)
ChecksOK == fresh \in [Dependent -> BOOLEAN] /\ older \subseteq Dependent \X Dependent
ExternalOK == /\ parent \in [Dependent -> {"ok", "suspended", "revoked"}]
              /\ answering \subseteq Dependent

Types ==
  /\ cred \in [Creds -> Cred]
  /\ ChecksOK /\ ExternalOK
  /\ nlists \in 0..MaxLists
  /\ list \in [Lists -> List]
  /\ req \in [Procs -> Req]
  /\ confirmed \subseteq SUBSET Creds /\ erased \subseteq Creds /\ holder \in BOOLEAN
  /\ quiet \in BOOLEAN

(* What fits the width of its list. *)
Widths == \A l \in Lists, s \in Slots : list[l].val[s] < 2^list[l].bits

(* The phases in which a request holds the row of its credential for       *)
(* itself, holds it together with others, and holds a list for itself.     *)
Owning == {"fetch", "list", "write"}
Sharing == {"check", "decide"}
Listing == {"write", "record"}
Issuing == {"reserve", "record"}

(* The phases of each kind of request. *)
RoleOf(r, l) ==
  /\ l \in Issuing => r \in Issuers
  /\ l \in Sharing => r \in Verifiers
  /\ l = "fetch" => r \in Monitors
  /\ l = "loop" => r \in Partners \cup Monitors
  /\ l \in {"list", "write"} => r \in Operators \cup Partners \cup Monitors

(* An issuance works for a credential that does not exist; the slot that   *)
(* it has drawn stays free.                                                *)
IssuerKnows(v) ==
  /\ v.pc \in Issuing => v.cred \in Creds /\ cred[v.cred].st = "none" /\ v.list \in Lists
  /\ v.pc = "record" => /\ v.row.st = "ok" /\ v.row.list = v.list
                        /\ v.row.slot \in Slots \ list[v.list].alloc

(* A state change knows the row and, before it writes, the list. *)
OwnerKnows(r, v) ==
  /\ v.pc \in Owning => /\ v.cred \in Creds /\ v.row = cred[v.cred]
                        /\ v.row.st \in {"ok", "suspended"}
                        /\ r \in Monitors => v.cred \in Dependent
  /\ v.pc \in {"list", "write"} =>
       /\ v.to = "ok" => v.row.st = "suspended" /\ (r \in Operators \/ v.row.hold)
       /\ r \in Partners => v.to = "revoked"
  /\ v.pc = "list" => v.to # "none"
  /\ v.pc = "write" => IF v.to = "none" THEN v.list = NoList
                       ELSE /\ v.list = v.row.list
                            /\ v.list # NoList => v.read = list[v.list]
  /\ v.pc \notin {"reserve", "record", "write", "decide"} => v.list = NoList

(* A verification knows a tracked credential, and what it decides on. *)
VerifierKnows(v) ==
  /\ v.pc \in Sharing => v.cred \in Creds /\ cred[v.cred].list # NoList
  /\ v.pc = "decide" => /\ v.list = cred[v.cred].list /\ cred[v.cred].st = "ok"
                        /\ list[v.list].val[cred[v.cred].slot] = 0

(* A federated revocation has revoked what it has passed of the            *)
(* credentials that it took.                                               *)
PartnerKnows(r, v) ==
  r \in Partners =>
    /\ \A c \in v.todo : cred[c].st # "none"
    /\ v.pc \in {"loop", "list", "write"} =>
         v.all \subseteq v.asked /\ (v.all = v.asked \/ Cardinality(v.all) = RevokeLimit)
    /\ v.pc = "loop" => \A c \in v.all \ v.todo : cred[c].st = "revoked"
    /\ v.pc \in {"list", "write"} =>
         \A c \in v.all \ v.todo : c = v.cred \/ cred[c].st = "revoked"

Knows(r, v) ==
  RoleOf(r, v.pc) /\ IssuerKnows(v) /\ OwnerKnows(r, v) /\ VerifierKnows(v) /\ PartnerKnows(r, v)

Knowledge == \A r \in Procs : Knows(r, req[r])

(* Two requests v and w do not hold the same thing, unless both share it. *)
Apart(v, w) ==
  /\ v.cred = w.cred => ~(v.pc \in Owning /\ w.pc \in Owning \cup Sharing)
  /\ v.list = w.list /\ v.list # NoList =>
       ~(v.pc \in Listing /\ w.pc \in Listing \cup {"decide"})
  /\ ~(v.pc \in Issuing /\ w.pc \in Issuing)

Locks == \A q, r \in Procs : q # r => Apart(req[q], req[r])

(* Only reserved slots have values, and a row is empty before its issuance. *)
Unused ==
  /\ \A l \in Lists, s \in Slots : s \notin list[l].alloc => list[l].val[s] = 0
  /\ \A c \in Creds : cred[c].st = "none" => cred[c] = NoRow

(* The holder is erased at most once, and not during an issuance. *)
Erasure ==
  /\ holder => erased = {}
  /\ ~holder => \A r \in Issuers : At(r, "idle")

IInv ==
  /\ Types /\ Widths /\ Knowledge /\ Locks /\ Unused /\ Erasure
  /\ SlotsAreUnique /\ ListAgrees /\ ConfirmedAreRevoked

USE DEF At, NoList, checks, external, ChecksOK, ExternalOK

(* A step that changes the locals of a request to v, and neither rows nor  *)
(* lists.                                                                  *)
LEMMA LocalStep ==
  ASSUME IInv, NEW r \in Procs, NEW v \in Req, req' = [req EXCEPT ![r] = v],
         UNCHANGED <<cred, nlists, list, external, holder, erased, quiet>>,
         ChecksOK', Knows(r, v), \A q \in Procs \ {r} : Apart(v, req[q]) /\ Apart(req[q], v),
         r \in Issuers /\ v.pc # "idle" => holder,
         confirmed' \subseteq SUBSET Creds, \A a \in confirmed' : RevokedToLimit(a)
  PROVE  IInv'
<1>1. req'[r] = v /\ \A q \in Procs \ {r} : req'[q] = req[q]
  BY DEF IInv, Types
<1>2. Types'
  BY DEF IInv, Types
<1>3. Widths' /\ Unused'
  BY DEF IInv, Widths, Unused
<1>4. SlotsAreUnique' /\ ListAgrees'
  BY DEF IInv, SlotsAreUnique, ListAgrees, Tracked
<1>5. ConfirmedAreRevoked'
  BY DEF IInv, ConfirmedAreRevoked, RevokedToLimit
<1>6. Knowledge'
  <2> SUFFICES ASSUME NEW q \in Procs PROVE Knows(q, req[q])'
    BY DEF Knowledge
  <2>1. Knows(q, req'[q])
    BY <1>1 DEF IInv, Knowledge
  <2> QED  BY <2>1 DEF Knows, RoleOf, IssuerKnows, OwnerKnows, VerifierKnows, PartnerKnows
<1>7. Locks'
  <2> SUFFICES ASSUME NEW p \in Procs, NEW q \in Procs, p # q PROVE Apart(req'[p], req'[q])
    BY DEF Locks, Apart
  <2>1. CASE p = r
    BY <2>1, <1>1
  <2>2. CASE q = r
    BY <2>2, <1>1
  <2>3. CASE p # r /\ q # r
    BY <2>3, <1>1 DEF IInv, Locks
  <2> QED  BY <2>1, <2>2, <2>3
<1>8. Erasure'
  BY <1>1 DEF IInv, Erasure, Procs
<1> QED  BY <1>2, <1>3, <1>4, <1>5, <1>6, <1>7, <1>8 DEF IInv

(* Nothing is held by an idle request. *)
LEMMA IdleKnows ==
  ASSUME NEW r \in Procs
  PROVE  /\ IdleReq \in Req /\ Knows(r, IdleReq) /\ IdleReq.pc = "idle"
         /\ \A w \in Req : Apart(IdleReq, w) /\ Apart(w, IdleReq)
<1>1. NoRow \in Cred /\ EmptyList \in List
  BY StatusConstants DEF NoRow, Cred, EmptyList, List, NoSlot
<1>2. IdleReq \in Req
  BY <1>1, StatusConstants DEF IdleReq, Req, NoCred
<1>3. IdleReq.pc = "idle" /\ IdleReq.list = NoList /\ IdleReq.todo = {}
  BY DEF IdleReq
<1>4. Knows(r, IdleReq)
  BY <1>3 DEF Knows, RoleOf, IssuerKnows, OwnerKnows, VerifierKnows, PartnerKnows,
              Issuing, Sharing, Owning
<1>5. \A w \in Req : Apart(IdleReq, w) /\ Apart(w, IdleReq)
  BY <1>3 DEF Apart, Issuing, Sharing, Owning, Listing
<1> QED  BY <1>2, <1>3, <1>4, <1>5

(* A request that ends, with nothing written. *)
LEMMA EndStep ==
  ASSUME IInv, NEW r \in Procs, Set(r, IdleReq),
         UNCHANGED <<cred, checks, nlists, list, external, holder, erased, quiet>>,
         confirmed' \subseteq SUBSET Creds, \A a \in confirmed' : RevokedToLimit(a)
  PROVE  IInv'
<1>1. (\A q \in Procs : req[q] \in Req) /\ ChecksOK'
  BY DEF IInv, Types
<1> QED  BY <1>1, IdleKnows, LocalStep DEF Set

LEMMA InitOK == Init => IInv
<1> SUFFICES ASSUME Init PROVE IInv
  OBVIOUS
<1> DEFINE old == [NoRow EXCEPT !.st = "ok"]
<1>1. NoRow \in Cred /\ EmptyList \in List /\ old \in Cred
  <2>1. 0 \in 0..MaxLists
    BY StatusConstants
  <2>2. NoRow \in Cred
    BY <2>1 DEF NoRow, Cred
  <2>3. EmptyList \in List
    BY DEF EmptyList, List
  <2>4. old \in Cred
    BY <2>2 DEF Cred
  <2> QED  BY <2>2, <2>3, <2>4
<1>2. /\ ChecksOK /\ confirmed = {} /\ erased = {} /\ holder = TRUE
      /\ ExternalOK /\ quiet \in BOOLEAN
      /\ req \in [Procs -> Req] /\ \A r \in Procs : req[r] = IdleReq
  BY IdleKnows, StatusConstants DEF Init
<1>3. Knowledge /\ Locks /\ Erasure
  BY <1>2, IdleKnows DEF Knowledge, Locks, Erasure
<1>4. /\ NoRow.st = "none" /\ NoRow.list = 0
      /\ old.st = "ok" /\ old.list = 0
  BY <1>1 DEF NoRow, Cred
<1>5. /\ EmptyList.next = 0 /\ EmptyList.alloc = {} /\ EmptyList.bits = 2
      /\ \A s \in Slots : EmptyList.val[s] = 0
  BY DEF EmptyList
<1>6. Cardinality({}) = 0
  BY FS_EmptySet
<1>7. 0 < 2^2 /\ 0 < 2^1
  OBVIOUS
<1>8. CASE nlists = 0
  <2>0. PICK O \in SUBSET Legacy : cred = [c \in Creds |-> IF c \in O THEN old ELSE NoRow]
    BY <1>8 DEF Init
  <2> HIDE DEF old
  <2>1. /\ cred \in [Creds -> Cred] /\ \A c \in Creds : cred[c] \in {NoRow, old}
        /\ \A c \in Creds : cred[c].st = "none" => cred[c] = NoRow
        /\ \A c \in Creds : cred[c].list = 0
    BY <2>0, <1>1, <1>4
  <2>2. list \in [Lists -> List] /\ \A l \in Lists : list[l] = EmptyList
    BY <1>8, <1>1 DEF Init
  <2>3. Types
    BY <1>2, <2>1, <2>2, <1>8, StatusConstants DEF Types
  <2>4. Widths /\ Unused
    BY <2>1, <2>2, <1>5, <1>7 DEF Widths, Unused
  <2>5. SlotsAreUnique /\ ListAgrees /\ ConfirmedAreRevoked
    BY <2>1, <2>2, <1>2, <1>5, <1>6 DEF SlotsAreUnique, ListAgrees, ConfirmedAreRevoked, Tracked
  <2> QED  BY <2>3, <2>4, <2>5, <1>3 DEF IInv
<1>9. CASE nlists = 1
  <2> DEFINE s == CHOOSE s \in Slots : TRUE
  <2>1. PICK A \in SUBSET Slots, o \in Legacy :
          /\ cred = [c \in Creds |->
                       IF c = o THEN [st |-> "ok", hold |-> FALSE, list |-> 1, slot |-> s]
                                ELSE NoRow]
          /\ list = [l \in Lists |->
                       IF l = 1 THEN [EmptyList EXCEPT !.bits = 1, !.alloc = A \cup {s},
                                                       !.next = Cardinality(A \cup {s})]
                                ELSE EmptyList]
    <3>1. nlists # 0
      BY <1>9
    <3> QED  BY <3>1, Zenon DEF Init
  <2>2. s \in Slots
    BY StatusConstants
  <2> HIDE DEF s
  <2> DEFINE e == [EmptyList EXCEPT !.bits = 1, !.alloc = A \cup {s},
                                    !.next = Cardinality(A \cup {s})]
  <2>3. IsFiniteSet(A \cup {s})
    BY <2>2, StatusConstants, FS_Subset
  <2>4. Cardinality(A \cup {s}) \in Nat
    BY <2>3, FS_CardinalityType
  <2>5. /\ e \in List /\ e.bits = 1 /\ e.alloc = A \cup {s} /\ e.next = Cardinality(A \cup {s})
        /\ \A x \in Slots : e.val[x] = 0
    <3>1. A \cup {s} \in SUBSET Slots
      BY <2>2
    <3>2. /\ e \in List /\ e.bits = 1 /\ e.alloc = A \cup {s} /\ e.val = EmptyList.val
          /\ e.next = Cardinality(A \cup {s})
      BY <1>1, <3>1, <2>4 DEF List
    <3> HIDE DEF e
    <3> QED  BY <3>2, <1>5
  <2> HIDE DEF e
  <2>6. 1 \in Lists
    BY StatusConstants DEF Lists
  <2>7. list \in [Lists -> List] /\ list[1] = e /\ \A l \in Lists : l # 1 => list[l] = EmptyList
    BY <2>1, <2>5, <2>6, <1>1 DEF e
  <2>8. [st |-> "ok", hold |-> FALSE, list |-> 1, slot |-> s] \in Cred
    BY <2>2, StatusConstants DEF Cred
  <2>9. /\ cred \in [Creds -> Cred] /\ \A c \in Creds \ {o} : cred[c] = NoRow
        /\ cred[o].st = "ok" /\ cred[o].list = 1 /\ cred[o].slot = s
    BY <2>1, <2>8, <1>1, StatusConstants
  <2>10. Types
    BY <1>2, <2>7, <2>9, <1>9, StatusConstants DEF Types
  <2>11. Widths
    BY <2>5, <2>7, <1>5, <1>7 DEF Widths
  <2>12. Unused
    BY <2>5, <2>7, <2>9, <1>5 DEF Unused
  <2>13. SlotsAreUnique
    <3>1. \A l \in Lists : list[l].next = Cardinality(list[l].alloc)
      BY <2>5, <2>7, <1>5, <1>6
    <3>2. \A c \in Creds : cred[c].st # "none" => c = o
      BY <2>9, <1>4
    <3> QED  BY <3>1, <3>2, <2>5, <2>7, <2>9 DEF SlotsAreUnique, Tracked
  <2>14. ListAgrees
    BY <2>2, <2>5, <2>7, <2>9, <1>4 DEF ListAgrees, Tracked, ValueOf
  <2>15. ConfirmedAreRevoked
    BY <1>2 DEF ConfirmedAreRevoked
  <2> QED  BY <2>10, <2>11, <2>12, <2>13, <2>14, <2>15, <1>3 DEF IInv
<1> QED  BY <1>8, <1>9 DEF Init

(***************************************************************************)
(* Steps that write no row and no list.                                    *)
(***************************************************************************)

USE DEF Owning, Sharing, Listing, Issuing

LEMMA Typed ==
  ASSUME IInv, NEW r \in Procs
  PROVE  /\ req[r] \in Req /\ Knows(r, req[r]) /\ ChecksOK
         /\ \A q \in Procs \ {r} : Apart(req[r], req[q]) /\ Apart(req[q], req[r])
BY DEF IInv, Types, Knowledge, Locks

(* A confirmed revocation stays carried out. *)
LEMMA StillRevoked ==
  ASSUME \A c \in Creds : cred[c].st = "revoked" => cred'[c].st = "revoked",
         NEW a \in SUBSET Creds, RevokedToLimit(a)
  PROVE  RevokedToLimit(a)'
<1>1. PICK T \in SUBSET a : /\ T = a \/ Cardinality(T) = RevokeLimit
                            /\ \A c \in T : cred[c].st = "revoked"
  BY DEF RevokedToLimit
<1>2. \A c \in T : cred'[c].st = "revoked"
  BY <1>1
<1> QED  BY <1>1, <1>2 DEF RevokedToLimit

LEMMA StillConfirmed ==
  ASSUME IInv, UNCHANGED confirmed
  PROVE  confirmed' \subseteq SUBSET Creds /\ \A a \in confirmed' : RevokedToLimit(a)
BY DEF IInv, Types, ConfirmedAreRevoked

(* What the locks that a request waits for exclude. *)
LEMMA FreeRow ==
  ASSUME IInv, NEW c \in Creds, CredFree(c), NEW q \in Procs
  PROVE  req[q].cred = c => req[q].pc \notin Owning \cup Sharing
BY DEF IInv, Knowledge, Knows, RoleOf, CredFree, CredExclusive, CredShared

LEMMA FreeList ==
  ASSUME IInv, NEW l \in Lists, ListFree(l), NEW q \in Procs
  PROVE  req[q].list = l => req[q].pc \notin Listing \cup {"decide"}
BY DEF IInv, Knowledge, Knows, RoleOf, ListFree, ListExclusive, ListShared

(* The lists that have a free slot have a last one. *)
LEMMA ChosenListOK ==
  ASSUME IInv, ChosenList <= MaxLists
  PROVE  ChosenList \in Lists
<1>1. nlists \in Nat /\ MaxLists \in Nat /\ nlists <= MaxLists
  BY StatusConstants DEF IInv, Types
<1>2. CASE Candidates = {}
  BY <1>1, <1>2 DEF ChosenList, Lists
<1>3. CASE Candidates # {}
  <2> DEFINE T == {nlists - l : l \in Candidates}
             R == OpToRel(<, Nat)
  <2>1. \A l \in Candidates : l \in 1..nlists
    BY DEF Candidates
  <2>2. T \subseteq Nat /\ T # {}
    BY <1>1, <1>3, <2>1
  <2>3. IsWellFoundedOn(R, Nat)
    BY NatLessThanWellFounded
  <2> HIDE DEF T, R
  <2>4. PICK x \in T : \A y \in T : ~(<<y, x>> \in R)
    BY <2>2, <2>3, WFMin
  <2>5. \A y \in T : ~(y < x)
    BY <2>2, <2>4 DEF R, OpToRel
  <2>6. PICK l \in Candidates : x = nlists - l
    BY DEF T
  <2>7. \A m \in Candidates : ~(nlists - m < nlists - l)
    BY <2>5, <2>6 DEF T
  <2>8. \A m \in Candidates : m <= l
    BY <1>1, <2>1, <2>7
  <2>9. ChosenList \in Candidates
    BY <1>3, <2>8 DEF ChosenList
  <2> QED  BY <1>1, <2>1, <2>9 DEF Lists
<1> QED  BY <1>2, <1>3

LEMMA GetOrCreateStatusListStep ==
  ASSUME IInv, NEW r \in Issuers, NEW c \in Creds, GetOrCreateStatusList(r, c)
  PROVE  IInv'
<1> DEFINE v == [IdleReq EXCEPT !.pc = "reserve", !.cred = c, !.list = ChosenList]
<1>1. r \in Procs /\ IdleReq \in Req
  BY IdleKnows DEF Procs
<1>2. ChosenList \in Lists /\ ChosenList \in 0..MaxLists
  BY ChosenListOK, StatusConstants DEF GetOrCreateStatusList, Lists
<1>3. v \in Req /\ v.pc = "reserve" /\ v.cred = c /\ v.list = ChosenList /\ v.todo = {}
  <2>1. v \in Req /\ v.pc = "reserve" /\ v.cred = c /\ v.list = ChosenList /\ v.todo = IdleReq.todo
    BY <1>1, <1>2 DEF Req
  <2> HIDE DEF v
  <2> QED  BY <2>1 DEF IdleReq
<1>4. req' = [req EXCEPT ![r] = v]
  BY DEF GetOrCreateStatusList, Set
<1> HIDE DEF v
<1>5. cred[c].st = "none" /\ holder /\ \A q \in Issuers : req[q].pc = "idle"
  BY DEF GetOrCreateStatusList, AdvisoryFree
<1>6. Knows(r, v)
  BY <1>2, <1>3, <1>5 DEF Knows, RoleOf, IssuerKnows, OwnerKnows, VerifierKnows, PartnerKnows
<1>7. \A q \in Procs \ {r} : Apart(v, req[q]) /\ Apart(req[q], v)
  BY <1>3, <1>5, Typed DEF Apart, Knows, RoleOf
<1> QED  BY <1>1, <1>3, <1>4, <1>5, <1>6, <1>7, LocalStep, StillConfirmed, Typed
            DEF GetOrCreateStatusList

LEMMA AllocateStatusIndexStep ==
  ASSUME IInv, NEW r \in Procs, NEW s \in Slots, AllocateStatusIndex(r, s)
  PROVE  IInv'
<1> DEFINE l == req[r].list
           row == [st |-> "ok", hold |-> FALSE, list |-> l, slot |-> s]
           v == [req[r] EXCEPT !.pc = "record", !.read = list[l], !.row = row]
<1>1. req[r].pc = "reserve" /\ ListFree(l) /\ s \in Slots \ list[l].alloc
  BY DEF AllocateStatusIndex, FreeSlots
<1>2. /\ l \in Lists /\ r \in Issuers /\ req[r].cred \in Creds /\ cred[req[r].cred].st = "none"
  BY <1>1, Typed DEF Knows, IssuerKnows, RoleOf
<1>3. list[l] \in List /\ row \in Cred
  BY <1>2, StatusConstants DEF IInv, Types, Cred, Lists
<1>4. row.st = "ok" /\ row.list = l /\ row.slot = s
  OBVIOUS
<1> HIDE DEF row
<1>5. /\ v \in Req /\ v.pc = "record" /\ v.cred = req[r].cred /\ v.list = l
      /\ v.row = row /\ v.todo = req[r].todo
  BY <1>3, Typed DEF Req
<1>6. req' = [req EXCEPT ![r] = v]
  BY DEF AllocateStatusIndex, Set, row
<1> HIDE DEF v
<1>7. r \notin Partners
  BY <1>2, StatusConstants
<1>8. Knows(r, v)
  BY <1>1, <1>2, <1>4, <1>5, <1>7
     DEF Knows, RoleOf, IssuerKnows, OwnerKnows, VerifierKnows, PartnerKnows
<1>9. \A q \in Procs \ {r} : Apart(v, req[q]) /\ Apart(req[q], v)
  BY <1>1, <1>2, <1>5, FreeList, Typed DEF Apart
<1>10. holder
  BY <1>1, <1>2 DEF IInv, Erasure
<1> QED  BY <1>5, <1>6, <1>8, <1>9, <1>10, LocalStep, StillConfirmed, Typed
            DEF AllocateStatusIndex

(* The locals of a request that has locked the row of c. *)
LEMMA LockStep ==
  ASSUME IInv, NEW r \in Operators \cup Partners \cup Monitors, NEW v \in Req,
         NEW c \in Creds, req[r].list = NoList, CredFree(c), cred[c].st \in {"ok", "suspended"},
         v.pc \in {"fetch", "list"}, v.cred = c, v.row = cred[c], v.list = NoList,
         v.pc = "fetch" => r \in Monitors, r \in Monitors => c \in Dependent,
         v.pc = "list" => /\ v.to # "none"
                          /\ r \in Partners => v.to = "revoked"
                          /\ v.to = "ok" => /\ cred[c].st = "suspended"
                                            /\ r \in Operators \/ cred[c].hold,
         PartnerKnows(r, v), Set(r, v),
         UNCHANGED <<cred, checks, nlists, list, external, confirmed, holder, erased, quiet>>
  PROVE  IInv'
<1>1. r \in Procs /\ r \notin Issuers
  BY StatusConstants DEF Procs
<1>2. Knows(r, v)
  BY DEF Knows, RoleOf, IssuerKnows, OwnerKnows, VerifierKnows
<1>3. \A q \in Procs \ {r} : Apart(v, req[q]) /\ Apart(req[q], v)
  BY FreeRow DEF Apart
<1> QED  BY <1>1, <1>2, <1>3, LocalStep, StillConfirmed, Typed DEF Set

LEMMA LockCredentialStep ==
  ASSUME IInv, NEW r \in Operators, NEW c \in Creds, NEW to \in {"ok", "revoked", "suspended"},
         LockCredential(r, c, to)
  PROVE  IInv'
<1> DEFINE v == Locals(r, c, to)
<1>1. r \in Procs /\ r \notin Partners \cup Monitors
  BY StatusConstants DEF Procs
<1>2. /\ cred[c].st # "none" /\ CredFree(c) /\ Allowed(c, to) /\ req[r].pc = "idle"
      /\ Set(r, v)
  BY DEF LockCredential, Arrives
<1>3. req[r] \in Req /\ req[r].list = NoList /\ cred[c] \in Cred
  BY <1>1, <1>2, Typed DEF Knows, OwnerKnows, IInv, Types
<1>4. /\ v \in Req /\ v.pc = "list" /\ v.cred = c /\ v.row = cred[c] /\ v.list = NoList
      /\ v.to = to
  BY <1>3 DEF Req, Locals
<1> HIDE DEF v
<1>5. cred[c].st \in {"ok", "suspended"} /\ (to = "ok" => cred[c].st = "suspended")
  BY <1>2, <1>3 DEF Allowed, Cred
<1>6. PartnerKnows(r, v)
  BY <1>1 DEF PartnerKnows
<1> QED  BY <1>1, <1>2, <1>3, <1>4, <1>5, <1>6, LockStep DEF LockCredential

LEMMA LockListStep ==
  ASSUME IInv, NEW r \in Procs, LockList(r)
  PROVE  IInv'
<1> DEFINE l == req[r].row.list
           read == IF l = NoList THEN EmptyList ELSE list[l]
           v == [req[r] EXCEPT !.pc = "write", !.list = l, !.read = read]
<1>1. req[r].pc = "list" /\ (l # NoList => ListFree(l)) /\ req' = [req EXCEPT ![r] = v]
  BY DEF LockList, Set
<1>2. req[r] \in Req /\ Knows(r, req[r])
  BY Typed
<1>3. l \in 0..MaxLists /\ (l # NoList => l \in Lists)
  BY <1>2, StatusConstants DEF Req, Cred, Lists
<1>4. read \in List
  BY <1>3, IdleKnows DEF IInv, Types, IdleReq, Req
<1>5. read = list[l] \/ l = NoList
  OBVIOUS
<1> HIDE DEF read
<1>6. /\ v \in Req /\ v.pc = "write" /\ v.cred = req[r].cred /\ v.list = l /\ v.read = read
      /\ v.row = req[r].row /\ v.to = req[r].to /\ v.todo = req[r].todo /\ v.all = req[r].all
      /\ v.asked = req[r].asked
  BY <1>2, <1>3, <1>4 DEF Req
<1> HIDE DEF v
<1>7. r \in Operators \cup Partners \cup Monitors /\ r \notin Issuers
  BY <1>1, <1>2, StatusConstants DEF Knows, RoleOf
<1>8. Knows(r, v)
  BY <1>1, <1>2, <1>5, <1>6, <1>7
     DEF Knows, RoleOf, IssuerKnows, OwnerKnows, VerifierKnows, PartnerKnows
<1>9. \A q \in Procs \ {r} : Apart(v, req[q]) /\ Apart(req[q], v)
  BY <1>1, <1>3, <1>6, <1>7, FreeList, Typed DEF Apart
<1> QED  BY <1>1, <1>6, <1>7, <1>8, <1>9, LocalStep, StillConfirmed, Typed DEF LockList

(* The locals of a loop, from which nothing is locked. *)
LEMMA LoopStep ==
  ASSUME IInv, NEW r \in Partners \cup Monitors, NEW v \in Req, v.pc = "loop", v.list = NoList,
         PartnerKnows(r, v), Set(r, v), ChecksOK',
         UNCHANGED <<cred, nlists, list, external, confirmed, holder, erased, quiet>>
  PROVE  IInv'
<1>1. r \in Procs /\ r \notin Issuers
  BY StatusConstants DEF Procs
<1>2. Knows(r, v)
  BY DEF Knows, RoleOf, IssuerKnows, OwnerKnows, VerifierKnows
<1>3. \A q \in Procs \ {r} : Apart(v, req[q]) /\ Apart(req[q], v)
  BY DEF Apart
<1> QED  BY <1>1, <1>2, <1>3, LocalStep, StillConfirmed DEF Set

LEMMA ListTargetsStep ==
  ASSUME IInv, NEW r \in Partners, NEW T \in SUBSET Creds, ListTargets(r, T)
  PROVE  IInv'
<1> DEFINE v == [IdleReq EXCEPT !.pc = "loop", !.todo = T, !.all = T, !.asked = Unrevoked]
<1>1. r \in Procs /\ IdleReq \in Req
  BY IdleKnows DEF Procs
<1>2. Set(r, v)
  BY DEF ListTargets
<1>3. /\ Unrevoked \subseteq Creds /\ T \subseteq Unrevoked /\ \A c \in T : cred[c].st # "none"
      /\ T = Unrevoked \/ Cardinality(T) = RevokeLimit
  BY DEF ListTargets, Unrevoked
<1>4. /\ v \in Req /\ v.pc = "loop" /\ v.list = IdleReq.list /\ v.todo = T /\ v.all = T
      /\ v.asked = Unrevoked
  BY <1>1, <1>3 DEF Req
<1> HIDE DEF v
<1>5. v.list = NoList /\ PartnerKnows(r, v)
  BY <1>3, <1>4 DEF PartnerKnows, IdleReq
<1> QED  BY <1>1, <1>2, <1>4, <1>5, LoopStep, Typed DEF ListTargets

LEMMA RevokeTargetStep ==
  ASSUME IInv, NEW r \in Procs, NEW c \in Creds, RevokeTarget(r, c)
  PROVE  IInv'
<1>1. /\ r \in Partners /\ req[r].pc = "loop" /\ c \in req[r].todo /\ CredFree(c)
      /\ UNCHANGED <<cred, checks, nlists, list, external, confirmed, holder, erased, quiet>>
  BY DEF RevokeTarget
<1>2. CASE ~Allowed(c, "revoked")
  BY <1>1, <1>2, EndStep, StillConfirmed DEF RevokeTarget
<1>3. CASE Allowed(c, "revoked")
  <2> DEFINE v == [Locals(r, c, "revoked") EXCEPT !.todo = @ \ {c}]
             w == Locals(r, c, "revoked")
  <2>1. Set(r, v)
    BY <1>3 DEF RevokeTarget
  <2>2. req[r] \in Req /\ Knows(r, req[r]) /\ cred[c] \in Cred
    BY Typed DEF IInv, Types
  <2>3. req[r].list = NoList /\ \A d \in req[r].todo : cred[d].st # "none"
    BY <1>1, <2>2 DEF Knows, OwnerKnows, PartnerKnows
  <2>4. cred[c].st \in {"ok", "suspended"}
    BY <1>1, <1>3, <2>2, <2>3 DEF Allowed, Cred
  <2>5. /\ w \in Req /\ w.pc = "list" /\ w.cred = c /\ w.row = cred[c] /\ w.list = NoList
        /\ w.to = "revoked" /\ w.todo = req[r].todo /\ w.all = req[r].all /\ w.asked = req[r].asked
    BY <2>2, <2>3 DEF Req, Locals
  <2> HIDE DEF w
  <2>6. v = [w EXCEPT !.todo = w.todo \ {c}]
    BY DEF w
  <2> HIDE DEF v
  <2>7. /\ v \in Req /\ v.pc = "list" /\ v.cred = c /\ v.row = cred[c] /\ v.list = NoList
        /\ v.to = "revoked" /\ v.todo = req[r].todo \ {c} /\ v.all = req[r].all
        /\ v.asked = req[r].asked
    BY <2>5, <2>6 DEF Req
  <2>8. PartnerKnows(r, v)
    BY <1>1, <2>2, <2>3, <2>7 DEF Knows, PartnerKnows
  <2>9. r \notin Monitors
    BY <1>1, StatusConstants
  <2> QED  BY <1>1, <2>1, <2>3, <2>4, <2>7, <2>8, <2>9, LockStep
<1> QED  BY <1>2, <1>3

LEMMA ConfirmTargetsStep ==
  ASSUME IInv, NEW r \in Procs, ConfirmTargets(r)
  PROVE  IInv'
<1>1. /\ r \in Partners /\ req[r].pc = "loop" /\ req[r].todo = {} /\ Set(r, IdleReq)
      /\ confirmed' = confirmed \cup {req[r].asked}
      /\ UNCHANGED <<cred, checks, nlists, list, external, holder, erased, quiet>>
  BY DEF ConfirmTargets
<1>2. req[r].asked \subseteq Creds /\ confirmed \subseteq SUBSET Creds
  BY DEF IInv, Types, Req
<1>3. RevokedToLimit(req[r].asked)
  <2>1. /\ \A c \in req[r].all : cred[c].st = "revoked"
        /\ req[r].all \subseteq req[r].asked
        /\ req[r].all = req[r].asked \/ Cardinality(req[r].all) = RevokeLimit
    BY <1>1, Typed DEF Knows, PartnerKnows
  <2> QED  BY <2>1 DEF RevokedToLimit
<1>4. \A a \in confirmed : RevokedToLimit(a)
  BY DEF IInv, ConfirmedAreRevoked
<1> QED  BY <1>1, <1>2, <1>3, <1>4, EndStep

LEMMA ListParentsStep ==
  ASSUME IInv, NEW m \in Monitors, ListParents(m)
  PROVE  IInv'
<1> DEFINE T == {c \in Dependent : Pollable(c) /\ Cardinality(Turn(c)) <= PollLimit}
           v == [IdleReq EXCEPT !.pc = "loop", !.todo = T, !.all = T]
<1>1. m \in Procs /\ IdleReq \in Req /\ m \notin Partners
  BY IdleKnows, StatusConstants DEF Procs
<1>2. Set(m, v)
  BY DEF ListParents
<1>3. T \in SUBSET Creds
  BY StatusConstants
<1> HIDE DEF T
<1>4. /\ v \in Req /\ v.pc = "loop" /\ v.list = IdleReq.list
  BY <1>1, <1>3 DEF Req
<1> HIDE DEF v
<1>5. v.list = NoList /\ PartnerKnows(m, v)
  BY <1>1, <1>4 DEF PartnerKnows, IdleReq
<1> QED  BY <1>1, <1>2, <1>4, <1>5, LoopStep, Typed DEF ListParents

LEMMA LockParentStep ==
  ASSUME IInv, NEW m \in Procs, NEW c \in Dependent, LockParent(m, c)
  PROVE  IInv'
<1>1. /\ m \in Monitors /\ req[m].pc = "loop"
      /\ UNCHANGED <<cred, checks, nlists, list, external, confirmed, holder, erased, quiet>>
  BY DEF LockParent
<1>2. c \in Creds /\ m \notin Partners
  BY <1>1, StatusConstants
<1>3. req[m] \in Req /\ req[m].list = NoList /\ cred[c] \in Cred
  BY <1>1, <1>2, Typed DEF Knows, OwnerKnows, IInv, Types
<1>4. CASE Pollable(c) /\ CredFree(c)
  <2> DEFINE v == [req[m] EXCEPT !.pc = "fetch", !.cred = c, !.row = cred[c], !.todo = @ \ {c}]
  <2>1. Set(m, v)
    BY <1>4 DEF LockParent
  <2>2. /\ v \in Req /\ v.pc = "fetch" /\ v.cred = c /\ v.row = cred[c] /\ v.list = NoList
    BY <1>2, <1>3 DEF Req
  <2> HIDE DEF v
  <2>3. PartnerKnows(m, v) /\ cred[c].st \in {"ok", "suspended"}
    BY <1>2, <1>4 DEF PartnerKnows, Pollable
  <2> QED  BY <1>1, <1>2, <1>3, <1>4, <2>1, <2>2, <2>3, LockStep
<1>5. CASE ~(Pollable(c) /\ CredFree(c))
  <2> DEFINE v == [req[m] EXCEPT !.todo = @ \ {c}, !.all = @ \ {c}]
  <2>1. Set(m, v)
    BY <1>5 DEF LockParent
  <2>2. v \in Req /\ v.pc = "loop" /\ v.list = NoList
    BY <1>1, <1>3 DEF Req
  <2> HIDE DEF v
  <2>3. PartnerKnows(m, v)
    BY <1>2 DEF PartnerKnows
  <2> QED  BY <1>1, <2>1, <2>2, <2>3, LoopStep, Typed
<1> QED  BY <1>4, <1>5

LEMMA FollowOK ==
  ASSUME NEW row \in Cred, row.st \in {"ok", "suspended"},
         NEW a \in {"ok", "suspended", "revoked", "unavailable"}
  PROVE  /\ Follow(row, a) \in {"none", "ok", "revoked", "suspended"}
         /\ Follow(row, a) = "ok" => row.st = "suspended" /\ row.hold
BY DEF Follow

LEMMA CheckStatusParentsStep ==
  ASSUME IInv, NEW m \in Procs, NEW a \in {"ok", "suspended", "revoked", "unavailable"},
         CheckStatusParents(m, a)
  PROVE  IInv'
<1> DEFINE to == Follow(req[m].row, a)
           l == IF to = "none" THEN "write" ELSE "list"
           v == [req[m] EXCEPT !.to = to, !.pc = l]
<1>1. req[m].pc = "fetch" /\ req' = [req EXCEPT ![m] = v]
  BY DEF CheckStatusParents, Set
<1>2. req[m] \in Req /\ Knows(m, req[m])
  BY Typed
<1>3. m \in Monitors /\ m \notin Partners /\ m \notin Issuers
  BY <1>1, <1>2, StatusConstants DEF Knows, RoleOf
<1>4. req[m].row \in Cred /\ req[m].row.st \in {"ok", "suspended"} /\ req[m].list = NoList
  BY <1>1, <1>2 DEF Knows, OwnerKnows, Req
<1>5. to \in {"none", "ok", "revoked", "suspended"} /\ (to = "ok" => req[m].row.st = "suspended" /\ req[m].row.hold)
  BY <1>4, FollowOK
<1> HIDE DEF to
<1>6. l \in {"list", "write"} /\ (l = "list" => to # "none") /\ (l = "write" => to = "none")
  OBVIOUS
<1> HIDE DEF l
<1>7. /\ v \in Req /\ v.pc = l /\ v.to = to /\ v.cred = req[m].cred /\ v.row = req[m].row
      /\ v.list = NoList
  BY <1>2, <1>4, <1>5, <1>6 DEF Req
<1> HIDE DEF v
<1>8. Knows(m, v)
  BY <1>1, <1>2, <1>3, <1>5, <1>6, <1>7
     DEF Knows, RoleOf, IssuerKnows, OwnerKnows, VerifierKnows, PartnerKnows
<1>9. \A q \in Procs \ {m} : Apart(v, req[q]) /\ Apart(req[q], v)
  BY <1>1, <1>6, <1>7, Typed DEF Apart
<1> QED  BY <1>1, <1>3, <1>7, <1>8, <1>9, LocalStep, StillConfirmed, Typed DEF CheckStatusParents

LEMMA CredentialStatusParentsStep ==
  ASSUME IInv, NEW r \in Verifiers, NEW c \in Creds, CredentialStatusParents(r, c)
  PROVE  IInv'
<1> DEFINE v == [IdleReq EXCEPT !.pc = "check", !.cred = c]
<1>1. r \in Procs /\ r \notin Issuers /\ r \notin Partners /\ IdleReq \in Req
  BY IdleKnows, StatusConstants DEF Procs
<1>2. req' = [req EXCEPT ![r] = v] /\ cred[c].list # NoList /\ ~CredExclusive(c)
  BY DEF CredentialStatusParents, Set, Tracked
<1>3. v \in Req /\ v.pc = "check" /\ v.cred = c /\ v.list = IdleReq.list
  BY <1>1 DEF Req
<1> HIDE DEF v
<1>4. v.list = NoList
  BY <1>3 DEF IdleReq
<1>5. Knows(r, v)
  BY <1>1, <1>2, <1>3, <1>4
     DEF Knows, RoleOf, IssuerKnows, OwnerKnows, VerifierKnows, PartnerKnows
<1>6. \A q \in Procs \ {r} : Apart(v, req[q]) /\ Apart(req[q], v)
  BY <1>2, <1>3, <1>4 DEF Apart, CredExclusive
<1> QED  BY <1>1, <1>2, <1>3, <1>5, <1>6, LocalStep, StillConfirmed, Typed
            DEF CredentialStatusParents

LEMMA LockCredentialStatusStep ==
  ASSUME IInv, NEW r \in Procs, LockCredentialStatus(r)
  PROVE  IInv'
<1> DEFINE c == req[r].cred
           l == cred[c].list
           v == [req[r] EXCEPT !.pc = "decide", !.list = l]
<1>1. /\ req[r].pc = "check"
      /\ UNCHANGED <<cred, checks, nlists, list, external, confirmed, holder, erased, quiet>>
  BY DEF LockCredentialStatus
<1>2. req[r] \in Req /\ Knows(r, req[r])
  BY Typed
<1>3. /\ r \in Verifiers /\ r \notin Issuers /\ r \notin Partners /\ c \in Creds /\ l # NoList
      /\ cred[c] \in Cred
  BY <1>1, <1>2, StatusConstants DEF Knows, RoleOf, VerifierKnows, IInv, Types
<1>4. l \in 0..MaxLists
  BY <1>3 DEF Cred
<1>5. CASE Set(r, IdleReq)
  BY <1>1, <1>5, EndStep, StillConfirmed
<1>6. CASE /\ cred[c].st = "ok" /\ ~ListExclusive(l) /\ list[l].val[cred[c].slot] = 0
           /\ Set(r, v)
  <2>1. v \in Req /\ v.pc = "decide" /\ v.cred = c /\ v.list = l
    BY <1>2, <1>4 DEF Req
  <2>2. req' = [req EXCEPT ![r] = v]
    BY <1>6 DEF Set
  <2> HIDE DEF v
  <2>3. Knows(r, v)
    BY <1>3, <1>6, <2>1
       DEF Knows, RoleOf, IssuerKnows, OwnerKnows, VerifierKnows, PartnerKnows
  <2>4. \A q \in Procs \ {r} : Apart(v, req[q]) /\ Apart(req[q], v)
    BY <1>1, <1>6, <2>1, Typed DEF Apart, ListExclusive
  <2> QED  BY <1>1, <1>3, <2>1, <2>2, <2>3, <2>4, LocalStep, StillConfirmed, Typed
<1> QED  BY <1>5, <1>6 DEF LockCredentialStatus

(***************************************************************************)
(* Steps that write rows and lists.                                        *)
(***************************************************************************)

(* A request keeps what it knows when what it holds is left alone,         *)
(* credentials come into being once and revocation is final.               *)
LEMMA KnowsStill ==
  ASSUME IInv, NEW q \in Procs, req'[q] = req[q],
         \/ req[q].pc \notin Owning \cup Sharing \cup Issuing
         \/ cred'[req[q].cred] = cred[req[q].cred],
         req[q].pc \in {"write", "decide"} /\ req[q].list # NoList =>
           list'[req[q].list] = list[req[q].list],
         req[q].pc = "record" => list'[req[q].list].alloc = list[req[q].list].alloc,
         \A c \in Creds : cred[c].st = "revoked" => cred'[c].st = "revoked",
         \A c \in Creds : cred[c].st # "none" => cred'[c].st # "none"
  PROVE  Knows(q, req[q])'
<1>1. Knows(q, req[q]) /\ req[q] \in Req
  BY Typed
<1>2. req[q].todo \subseteq Creds /\ req[q].all \subseteq Creds
  BY <1>1 DEF Req
<1>3. RoleOf(q, req[q].pc)' /\ IssuerKnows(req[q])'
  BY <1>1 DEF Knows, RoleOf, IssuerKnows
<1>4. OwnerKnows(q, req[q])'
  BY <1>1 DEF Knows, OwnerKnows
<1>5. VerifierKnows(req[q])'
  BY <1>1 DEF Knows, VerifierKnows
<1>6. PartnerKnows(q, req[q])'
  BY <1>1, <1>2 DEF Knows, PartnerKnows
<1> QED  BY <1>3, <1>4, <1>5, <1>6 DEF Knows

(* The locks of a request that ends or goes back to its loop. *)
LEMMA LocksStill ==
  ASSUME IInv, NEW r \in Procs, NEW v \in Req, Set(r, v), v.pc \in {"idle", "loop"}
  PROVE  Locks'
<1>1. req'[r] = v /\ \A q \in Procs \ {r} : req'[q] = req[q]
  BY DEF IInv, Types, Set
<1> SUFFICES ASSUME NEW p \in Procs, NEW q \in Procs, p # q PROVE Apart(req'[p], req'[q])
  BY DEF Locks, Apart
<1>2. CASE p = r \/ q = r
  BY <1>1, <1>2 DEF Apart
<1>3. CASE p # r /\ q # r
  BY <1>1, <1>3 DEF IInv, Locks
<1> QED  BY <1>2, <1>3

LEMMA ErasureStep ==
  ASSUME IInv, GDPRErasure
  PROVE  IInv'
<1> DEFINE T == {c \in Creds : cred[c].st \notin {"none", "revoked"}}
<1>1. /\ holder /\ HolderFree /\ \A c \in T : CredFree(c)
      /\ holder' = FALSE /\ erased' = T
      /\ cred' = [c \in Creds |-> [cred[c] EXCEPT !.st = IF c \in T THEN "revoked" ELSE @]]
      /\ UNCHANGED <<checks, nlists, list, external, req, confirmed, quiet>>
  BY DEF GDPRErasure, Unrevoked
<1>2. cred \in [Creds -> Cred] /\ \A c \in Creds : cred[c] \in Cred
  BY DEF IInv, Types
<1>3. ASSUME NEW c \in Creds
      PROVE  /\ cred'[c] \in Cred /\ cred'[c].list = cred[c].list /\ cred'[c].slot = cred[c].slot
             /\ cred'[c].st = IF c \in T THEN "revoked" ELSE cred[c].st
             /\ c \notin T => cred'[c] = cred[c]
  <2> DEFINE x == IF c \in T THEN "revoked" ELSE cred[c].st
             e == [cred[c] EXCEPT !.st = x]
  <2>1. cred'[c] = e
    BY <1>1
  <2>2. x \in {"none", "ok", "revoked", "suspended"}
    BY <1>2 DEF Cred
  <2>3. x = cred[c].st \/ c \in T
    OBVIOUS
  <2> HIDE DEF x
  <2>4. e \in Cred /\ e.st = x /\ e.list = cred[c].list /\ e.slot = cred[c].slot
    BY <1>2, <2>2 DEF Cred
  <2>5. c \notin T => e = cred[c]
    <3> SUFFICES ASSUME x = cred[c].st PROVE e = cred[c]
      BY <2>3
    <3> QED  BY <1>2, <2>4 DEF Cred
  <2> HIDE DEF e
  <2> QED  BY <2>1, <2>4, <2>5 DEF x
<1>4. \A c \in Creds : c \in T <=> cred[c].st \notin {"none", "revoked"}
  OBVIOUS
<1>5. T \subseteq Creds
  OBVIOUS
<1> HIDE DEF T
<1>6. cred' \in [Creds -> Cred]
  BY <1>1, <1>3
<1>7. Types'
  BY <1>1, <1>5, <1>6 DEF IInv, Types
<1>8. Widths'
  BY <1>1 DEF IInv, Widths
<1>9. Locks' /\ Erasure'
  BY <1>1 DEF IInv, Locks, Apart, Erasure, HolderFree
<1>10. Unused'
  BY <1>1, <1>3, <1>4 DEF IInv, Unused
<1>11. SlotsAreUnique'
  <2>1. \A c \in Creds : /\ cred'[c].st # "none" => cred[c].st # "none"
                         /\ cred'[c].list = cred[c].list /\ cred'[c].slot = cred[c].slot
    BY <1>3, <1>4
  <2>2. \A d \in Creds : cred'[d].st # "none" /\ cred'[d].list # NoList =>
          cred'[d].slot \in list'[cred'[d].list].alloc
    BY <1>1, <2>1 DEF IInv, SlotsAreUnique, Tracked
  <2>3. ASSUME NEW d \in Creds, NEW f \in Creds, d # f, cred'[d].st # "none",
               cred'[d].list # NoList, cred'[f].st # "none", cred'[f].list # NoList
        PROVE  <<cred'[d].list, cred'[d].slot>> # <<cred'[f].list, cred'[f].slot>>
    BY <2>1, <2>3 DEF IInv, SlotsAreUnique, Tracked
  <2>4. \A k \in Lists : list'[k].next = Cardinality(list'[k].alloc)
    BY <1>1 DEF IInv, SlotsAreUnique
  <2> QED  BY <2>2, <2>3, <2>4 DEF SlotsAreUnique, Tracked
<1>12. ListAgrees'
  BY <1>1, <1>3, <1>5 DEF IInv, ListAgrees, Tracked, Erasure
<1>13. ConfirmedAreRevoked'
  <2>1. \A a \in confirmed' : RevokedToLimit(a)'
    BY <1>1, <1>3, <1>4, StillRevoked DEF IInv, Types, ConfirmedAreRevoked
  <2>2. \A c \in Creds : cred'[c].st \in {"none", "revoked"}
    BY <1>2, <1>3, <1>4 DEF Cred
  <2> QED  BY <2>1, <2>2 DEF ConfirmedAreRevoked
<1>14. ASSUME NEW q \in Procs PROVE Knows(q, req[q])'
  <2>1. Knows(q, req[q])
    BY Typed
  <2>2. ASSUME req[q].pc \in Owning \cup Sharing \cup Issuing PROVE cred'[req[q].cred] = cred[req[q].cred]
    <3>1. req[q].cred \in Creds
      BY <2>1, <2>2 DEF Knows, IssuerKnows, OwnerKnows, VerifierKnows
    <3>2. CASE req[q].pc \in Issuing
      BY <2>1, <3>1, <3>2, <1>3, <1>4 DEF Knows, IssuerKnows
    <3>3. CASE req[q].pc \in Owning \cup Sharing
      BY <3>1, <3>3, <1>1, <1>3, <1>5, FreeRow
    <3> QED  BY <2>2, <3>2, <3>3
  <2> QED  BY <1>1, <1>3, <1>4, <2>2, KnowsStill
<1> QED  BY <1>7, <1>8, <1>9, <1>10, <1>11, <1>12, <1>13, <1>14 DEF IInv, Knowledge

(* A row that is being issued is apart from all other rows and requests. *)
LEMMA RecordStep ==
  ASSUME IInv, NEW r \in Procs, RecordCredentialWithStatus(r)
  PROVE  IInv'
<1> DEFINE c == req[r].cred
           l == req[r].list
           s == req[r].row.slot
           e == Reserve(r)
<1>1. /\ req[r].pc = "record" /\ Set(r, IdleReq)
      /\ cred' = [cred EXCEPT ![c] = req[r].row] /\ list' = [list EXCEPT ![l] = e]
      /\ nlists' = IF l > nlists THEN l ELSE nlists
      /\ UNCHANGED <<checks, external, confirmed, holder, erased, quiet>>
  BY DEF RecordCredentialWithStatus
<1>2. req[r] \in Req /\ Knows(r, req[r])
  BY Typed
<1>3. /\ r \in Issuers /\ c \in Creds /\ cred[c].st = "none" /\ l \in Lists /\ req[r].row \in Cred
      /\ req[r].row.st = "ok" /\ req[r].row.list = l /\ s \in Slots /\ s \notin list[l].alloc
  BY <1>1, <1>2 DEF Knows, RoleOf, IssuerKnows, Req
<1>4. cred \in [Creds -> Cred] /\ list \in [Lists -> List] /\ list[l] \in List
  BY <1>3 DEF IInv, Types
<1>5. /\ e \in List /\ e.next = list[l].next + 1 /\ e.alloc = list[l].alloc \cup {s}
      /\ e.bits = list[l].bits /\ e.val = list[l].val
  <2> DEFINE n == list[l].next + 1
             A == list[l].alloc \cup {s}
  <2>1. e = [list[l] EXCEPT !.next = n, !.alloc = A]
    BY DEF Reserve
  <2>2. n \in Nat /\ A \in SUBSET Slots
    BY <1>3, <1>4 DEF List
  <2> HIDE DEF n, A, e
  <2>3. /\ e \in List /\ e.next = n /\ e.alloc = A
        /\ e.bits = list[l].bits /\ e.val = list[l].val
    BY <1>4, <2>1, <2>2 DEF List
  <2> QED  BY <2>3 DEF n, A
<1> HIDE DEF e
<1>6. /\ cred'[c] = req[r].row /\ \A d \in Creds \ {c} : cred'[d] = cred[d]
      /\ list'[l] = e /\ \A k \in Lists \ {l} : list'[k] = list[k]
  BY <1>1, <1>3, <1>4
<1>7. req'[r] = IdleReq /\ \A q \in Procs \ {r} : req'[q] = req[q]
  BY <1>1 DEF IInv, Types, Set
<1>8. holder
  BY <1>1, <1>3 DEF IInv, Erasure
<1>9. Types'
  <2>1. l \in 0..MaxLists /\ nlists \in 0..MaxLists
    BY <1>3, StatusConstants DEF Lists, IInv, Types
  <2> QED  BY <1>1, <1>3, <1>5, <2>1, IdleKnows DEF IInv, Types, Set
<1>10. Widths'
  BY <1>5, <1>6 DEF IInv, Widths
<1>11. Locks'
  BY <1>1, IdleKnows, LocksStill
<1>12. Erasure'
  BY <1>1, <1>8 DEF IInv, Erasure
<1>13. Unused'
  <2>1. list[l].alloc \subseteq list'[l].alloc /\ list'[l].val = list[l].val
    BY <1>5, <1>6
  <2> QED  BY <2>1, <1>3, <1>6 DEF IInv, Unused
<1>14. SlotsAreUnique'
  <2>1. list[l].next = Cardinality(list[l].alloc)
    BY <1>3 DEF IInv, SlotsAreUnique
  <2>2. IsFiniteSet(list[l].alloc)
    BY <1>4, StatusConstants, FS_Subset DEF List
  <2>3. Cardinality(e.alloc) = Cardinality(list[l].alloc) + 1
    BY <1>3, <1>5, <2>2, FS_AddElement
  <2>4. \A k \in Lists : list'[k].next = Cardinality(list'[k].alloc)
    BY <1>5, <1>6, <2>1, <2>3 DEF IInv, SlotsAreUnique
  <2>5. \A k \in Lists : list[k].alloc \subseteq list'[k].alloc
    BY <1>5, <1>6
  <2>6. \A d \in Creds : cred[d].list # NoList => cred[d].list \in Lists
    BY <1>4, StatusConstants DEF Cred, Lists
  <2>7. ASSUME NEW d \in Creds, cred'[d].st # "none", cred'[d].list # NoList
        PROVE  cred'[d].slot \in list'[cred'[d].list].alloc
    <3>1. CASE d = c
      BY <3>1, <1>3, <1>5, <1>6
    <3>2. CASE d # c
      BY <3>2, <1>6, <2>5, <2>6, <2>7 DEF IInv, SlotsAreUnique, Tracked
    <3> QED  BY <3>1, <3>2
  <2>8. ASSUME NEW d \in Creds, d # c, cred[d].st # "none", cred[d].list # NoList
        PROVE  <<cred[d].list, cred[d].slot>> # <<l, s>>
    <3>1. cred[d].slot \in list[cred[d].list].alloc
      BY <2>8 DEF IInv, SlotsAreUnique, Tracked
    <3> QED  BY <3>1, <1>3
  <2>9. ASSUME NEW d \in Creds, NEW f \in Creds, d # f, cred'[d].st # "none",
               cred'[d].list # NoList, cred'[f].st # "none", cred'[f].list # NoList
        PROVE  <<cred'[d].list, cred'[d].slot>> # <<cred'[f].list, cred'[f].slot>>
    <3>1. CASE d = c
      BY <3>1, <2>8, <2>9, <1>3, <1>6
    <3>2. CASE f = c
      BY <3>2, <2>8, <2>9, <1>3, <1>6
    <3>3. CASE d # c /\ f # c
      BY <3>3, <2>9, <1>6 DEF IInv, SlotsAreUnique, Tracked
    <3> QED  BY <3>1, <3>2, <3>3
  <2> QED  BY <2>4, <2>7, <2>9 DEF SlotsAreUnique, Tracked
<1>15. ListAgrees'
  <2>1. \A k \in Lists : list'[k].val = list[k].val
    BY <1>5, <1>6
  <2>2. \A d \in Creds : cred[d].list # NoList => cred[d].list \in Lists
    BY <1>4, StatusConstants DEF Cred, Lists
  <2> SUFFICES ASSUME NEW d \in Creds \ erased', cred'[d].st # "none", cred'[d].list # NoList
               PROVE  list'[cred'[d].list].val[cred'[d].slot] = ValueOf[cred'[d].st]
    BY DEF ListAgrees, Tracked
  <2>3. CASE d = c
    <3>1. list[l].val[s] = 0
      BY <1>3 DEF IInv, Unused
    <3> QED  BY <2>1, <2>3, <3>1, <1>3, <1>6 DEF ValueOf
  <2>4. CASE d # c
    BY <2>1, <2>2, <2>4, <1>1, <1>6 DEF IInv, ListAgrees, Tracked
  <2> QED  BY <2>3, <2>4
<1>16. ConfirmedAreRevoked'
  <2>1. \A d \in Creds : cred[d].st = "revoked" => cred'[d].st = "revoked"
    BY <1>3, <1>6
  <2>2. \A a \in confirmed' : RevokedToLimit(a)'
    BY <1>1, <2>1, StillRevoked DEF IInv, Types, ConfirmedAreRevoked
  <2> QED  BY <2>2, <1>1, <1>8 DEF ConfirmedAreRevoked
<1>17. ASSUME NEW q \in Procs PROVE Knows(q, req[q])'
  <2>1. CASE q = r
    <3>1. Knows(q, IdleReq)
      BY IdleKnows
    <3>2. IdleReq.pc = "idle" /\ IdleReq.list = NoList /\ IdleReq.todo = {}
      BY DEF IdleReq
    <3> QED  BY <2>1, <1>7, <3>1, <3>2
             DEF Knows, RoleOf, IssuerKnows, OwnerKnows, VerifierKnows, PartnerKnows
  <2>2. CASE q # r
    <3>1. Knows(q, req[q]) /\ Apart(req[q], req[r]) /\ Apart(req[r], req[q])
      BY <2>2, Typed
    <3>2. req[q].pc \notin Issuing
      BY <3>1, <1>1 DEF Apart
    <3>3. req[q].pc \in Owning \cup Sharing => req[q].cred \in Creds \ {c}
      <4>1. req[q].pc \in Owning \cup Sharing => req[q].cred \in Creds /\ cred[req[q].cred] # NoRow
        BY <3>1 DEF Knows, OwnerKnows, VerifierKnows, NoRow
      <4>2. cred[c] = NoRow
        BY <1>3 DEF IInv, Unused
      <4> QED  BY <4>1, <4>2
    <3>4. req[q].pc \in {"write", "decide"} /\ req[q].list # NoList => req[q].list \in Lists \ {l}
      <4>1. req[q].list \in 0..MaxLists
        BY Typed DEF Req
      <4> QED  BY <4>1, <3>1, <1>1, StatusConstants DEF Apart, Lists
    <3> QED  BY <2>2, <3>2, <3>3, <3>4, <1>3, <1>6, <1>7, KnowsStill
  <2> QED  BY <2>1, <2>2
<1> QED  BY <1>9, <1>10, <1>11, <1>12, <1>13, <1>14, <1>15, <1>16, <1>17 DEF IInv, Knowledge

(* The stamp of a poll. *)
LEMMA StampOK ==
  ASSUME IInv, NEW r \in Procs, CommitState(r)
  PROVE  ChecksOK'
<1>1. CASE r \in Monitors
  <2>1. /\ fresh' = [fresh EXCEPT ![req[r].cred] = TRUE]
        /\ older' = Stamped(req[r].cred)
    BY <1>1 DEF CommitState
  <2>2. fresh' \in [Dependent -> BOOLEAN]
    BY <2>1, Typed
  <2>3. req[r].cred \in Dependent
    BY <1>1, Typed DEF CommitState, Knows, OwnerKnows
  <2>4. older' \subseteq Dependent \X Dependent
    BY <2>1, <2>3, Typed DEF Stamped
  <2> QED  BY <2>2, <2>4
<1>2. CASE r \notin Monitors
  BY <1>2, Typed DEF CommitState
<1> QED  BY <1>1, <1>2

(* A commit that changes the state of a credential. *)
LEMMA CommitStep ==
  ASSUME IInv, NEW r \in Procs, CommitState(r), req[r].to # "none"
  PROVE  IInv'
<1> DEFINE c == req[r].cred
           l == req[r].list
           s == req[r].row.slot
           to == req[r].to
           x == NewRow(r)
           v == AfterWrite(r)
<1>1. /\ req[r].pc = "write" /\ Set(r, v) /\ Fits(Widen(req[r].read, to), to)
      /\ cred' = [cred EXCEPT ![c] = x]
      /\ list' = IF l = NoList THEN list ELSE [list EXCEPT ![l] = NewList(r)]
      /\ UNCHANGED <<nlists, external, confirmed, holder, erased, quiet>>
  BY DEF CommitState
<1>2. req[r] \in Req /\ Knows(r, req[r]) /\ ChecksOK
  BY Typed
<1>3. /\ c \in Creds /\ req[r].row = cred[c] /\ cred[c].st \in {"ok", "suspended"}
      /\ l = cred[c].list /\ (l # NoList => req[r].read = list[l])
      /\ to \in {"ok", "revoked", "suspended"} /\ req[r].row \in Cred
      /\ r \in Operators \cup Partners \cup Monitors /\ r \notin Issuers
  BY <1>1, <1>2, StatusConstants DEF Knows, RoleOf, OwnerKnows, Req
<1>4. cred \in [Creds -> Cred] /\ list \in [Lists -> List]
  BY DEF IInv, Types
<1>5. l # NoList => l \in Lists /\ list[l] \in List /\ s \in list[l].alloc /\ s \in Slots
  <2>1. l \in 0..MaxLists
    BY <1>2 DEF Req
  <2>2. l # NoList => l \in Lists /\ list[l] \in List
    BY <2>1, <1>4, StatusConstants DEF Lists
  <2>3. l # NoList => s \in list[l].alloc
    BY <1>3 DEF IInv, SlotsAreUnique, Tracked
  <2> QED  BY <2>2, <2>3 DEF List
<1>6. x \in Cred /\ x.st = to /\ x.list = l /\ x.slot = s
  <2>1. Hold(r) \in BOOLEAN
    BY DEF Hold
  <2> QED  BY <2>1, <1>3 DEF NewRow, Cred
<1> HIDE DEF x
<1>7. /\ v \in Req /\ v.pc \in {"idle", "loop"} /\ v.list = NoList
      /\ v.pc = "loop" => /\ v.todo = req[r].todo /\ v.all = req[r].all
                          /\ v.asked = req[r].asked
                          /\ r \in Partners \cup Monitors
      /\ v.pc = "idle" => v = IdleReq
  <2>1. IdleReq \in Req /\ IdleReq.list = NoList /\ IdleReq.pc = "idle"
    BY IdleKnows DEF IdleReq
  <2>2. CASE r \in Operators
    BY <2>1, <2>2 DEF AfterWrite
  <2>3. CASE r \notin Operators
    <3> DEFINE w == [IdleReq EXCEPT !.pc = "loop", !.todo = req[r].todo, !.all = req[r].all,
                                 !.asked = req[r].asked]
    <3>1. v = w
      BY <2>3 DEF AfterWrite
    <3>2. /\ w \in Req /\ w.pc = "loop" /\ w.list = NoList
          /\ w.todo = req[r].todo /\ w.all = req[r].all /\ w.asked = req[r].asked
      BY <2>1, <1>2 DEF Req
    <3> HIDE DEF w, v
    <3> QED  BY <2>3, <3>1, <3>2, <1>3
  <2> QED  BY <2>2, <2>3
<1> HIDE DEF v
<1>8. /\ cred'[c] = x /\ \A d \in Creds \ {c} : cred'[d] = cred[d]
      /\ req'[r] = v /\ \A q \in Procs \ {r} : req'[q] = req[q]
  BY <1>1, <1>3, <1>4 DEF IInv, Types, Set
<1>9. /\ list' \in [Lists -> List]
      /\ \A k \in Lists : k # l => list'[k] = list[k]
      /\ \A k \in Lists : /\ list'[k].next = list[k].next /\ list'[k].alloc = list[k].alloc
                          /\ \A y \in Slots : k # l \/ y # s => list'[k].val[y] = list[k].val[y]
                          /\ \A y \in Slots : list'[k].val[y] < 2^list'[k].bits
      /\ l # NoList => list'[l].val[s] = ValueOf[to]
  <2>1. CASE l = NoList
    <3>1. list' = list /\ \A k \in Lists : k # l
      BY <1>1, <2>1, StatusConstants DEF Lists
    <3> QED  BY <3>1, <2>1, <1>4 DEF IInv, Widths
  <2>2. CASE l # NoList
    <3> DEFINE old == Widen(req[r].read, to)
               f == [old.val EXCEPT ![s] = ValueOf[to]]
               e == NewList(r)
    <3>1. req[r].read = list[l] /\ l \in Lists /\ list[l] \in List /\ s \in Slots
      BY <2>2, <1>3, <1>5
    <3>2. /\ old \in List /\ old.val = list[l].val
          /\ old.bits = list[l].bits \/ old.bits = 2
      BY <3>1 DEF Widen, List
    <3>3. ValueOf[to] \in 0..2 /\ ValueOf[to] < 2^old.bits
      BY <1>1, <1>3 DEF Fits, ValueOf
    <3>4. e = [list[l] EXCEPT !.bits = old.bits, !.val = f]
      BY DEF NewList
    <3> HIDE DEF old
    <3>5. /\ f \in [Slots -> 0..2] /\ f[s] = ValueOf[to]
          /\ \A y \in Slots : y # s => f[y] = list[l].val[y]
      BY <3>1, <3>2, <3>3 DEF List
    <3>6. old.bits \in {1, 2} /\ list[l].bits \in {1, 2}
      BY <3>1, <3>2 DEF List
    <3> HIDE DEF f, e
    <3>7. /\ e \in List /\ e.bits = old.bits /\ e.val = f
          /\ e.next = list[l].next /\ e.alloc = list[l].alloc
      BY <3>1, <3>4, <3>5, <3>6 DEF List
    <3>8. list'[l] = e /\ \A k \in Lists : k # l => list'[k] = list[k]
      BY <1>1, <2>2, <3>1, <1>4 DEF e
    <3>9. \A y \in Slots : f[y] < 2^old.bits
      <4> SUFFICES ASSUME NEW y \in Slots PROVE f[y] < 2^old.bits
        OBVIOUS
      <4>1. CASE y = s
        BY <4>1, <3>3, <3>5
      <4>2. CASE y # s
        <5>1. f[y] = list[l].val[y] /\ f[y] \in 0..2 /\ list[l].val[y] < 2^list[l].bits
          BY <4>2, <3>1, <3>5 DEF IInv, Widths
        <5>2. CASE old.bits = list[l].bits
          BY <5>1, <5>2
        <5>3. CASE old.bits = 2
          <6>1. 2^old.bits = 4
            BY <5>3
          <6> QED  BY <5>1, <6>1
        <5> QED  BY <5>2, <5>3, <3>2
      <4> QED  BY <4>1, <4>2
    <3>10. list' \in [Lists -> List]
      BY <1>1, <2>2, <3>7, <1>4 DEF e
    <3>11. \A k \in Lists, y \in Slots : list'[k].val[y] < 2^list'[k].bits
      BY <3>7, <3>8, <3>9 DEF IInv, Widths
    <3>12. \A k \in Lists : /\ list'[k].next = list[k].next /\ list'[k].alloc = list[k].alloc
                            /\ \A y \in Slots : k # l \/ y # s => list'[k].val[y] = list[k].val[y]
      BY <3>5, <3>7, <3>8
    <3> QED  BY <3>5, <3>7, <3>8, <3>10, <3>11, <3>12
  <2> QED  BY <2>1, <2>2
<1>10. \A d \in Creds : cred[d].list # NoList => cred[d].list \in Lists
  BY <1>4, StatusConstants DEF Cred, Lists
<1>11. /\ \A d \in Creds : cred'[d].list = cred[d].list /\ cred'[d].slot = cred[d].slot
       /\ \A d \in Creds : cred'[d].st # "none" <=> cred[d].st # "none"
       /\ \A d \in Creds : cred[d].st = "revoked" => cred'[d].st = "revoked"
  BY <1>3, <1>6, <1>8
<1>12. Types'
  <2>1. ChecksOK'
    BY <1>1, <1>2, StampOK
  <2>2. cred' \in [Creds -> Cred] /\ req' \in [Procs -> Req]
    BY <1>1, <1>4, <1>6, <1>7 DEF IInv, Types, Set
  <2> QED  BY <1>1, <1>9, <2>1, <2>2 DEF IInv, Types
<1>13. Widths'
  BY <1>9 DEF Widths
<1>14. Locks'
  BY <1>1, <1>7, LocksStill
<1>15. holder
  BY <1>3 DEF IInv, ConfirmedAreRevoked
<1>16. Erasure'
  BY <1>1, <1>15 DEF IInv, Erasure
<1>17. Unused'
  <2>1. \A d \in Creds : cred'[d].st = "none" => cred'[d] = NoRow
    BY <1>3, <1>6, <1>8 DEF IInv, Unused
  <2>2. \A k \in Lists, y \in Slots : y \notin list'[k].alloc => list'[k].val[y] = 0
    BY <1>5, <1>9, StatusConstants DEF IInv, Unused, Lists
  <2> QED  BY <2>1, <2>2 DEF Unused
<1>18. SlotsAreUnique'
  <2>1. \A k \in Lists : list'[k].next = Cardinality(list'[k].alloc)
    BY <1>9 DEF IInv, SlotsAreUnique
  <2>2. \A d \in Creds : cred'[d].st # "none" /\ cred'[d].list # NoList =>
          cred'[d].slot \in list'[cred'[d].list].alloc
    BY <1>9, <1>10, <1>11 DEF IInv, SlotsAreUnique, Tracked
  <2>3. ASSUME NEW d \in Creds, NEW f \in Creds, d # f, cred'[d].st # "none",
               cred'[d].list # NoList, cred'[f].st # "none", cred'[f].list # NoList
        PROVE  <<cred'[d].list, cred'[d].slot>> # <<cred'[f].list, cred'[f].slot>>
    BY <1>11, <2>3 DEF IInv, SlotsAreUnique, Tracked
  <2> QED  BY <2>1, <2>2, <2>3 DEF SlotsAreUnique, Tracked
<1>19. ListAgrees'
  <2> SUFFICES ASSUME NEW d \in Creds \ erased', cred'[d].st # "none", cred'[d].list # NoList
               PROVE  list'[cred'[d].list].val[cred'[d].slot] = ValueOf[cred'[d].st]
    BY DEF ListAgrees, Tracked
  <2>1. CASE d = c
    BY <2>1, <1>6, <1>8, <1>9
  <2>2. CASE d # c
    <3>1. cred'[d] = cred[d] /\ cred[d].list \in Lists /\ d \notin erased
      BY <2>2, <1>1, <1>8, <1>10
    <3>2. cred[d].slot \in list[cred[d].list].alloc
      BY <3>1 DEF IInv, SlotsAreUnique, Tracked
    <3>3. cred[d].slot \in Slots
      BY <3>1, <3>2, <1>4 DEF List
    <3>4. l # NoList => <<cred[d].list, cred[d].slot>> # <<l, s>>
      BY <2>2, <3>1, <1>3 DEF IInv, SlotsAreUnique, Tracked
    <3>5. cred[d].list # l \/ cred[d].slot # s
      BY <3>1, <3>4, StatusConstants DEF Lists
    <3>6. list'[cred[d].list].val[cred[d].slot] = list[cred[d].list].val[cred[d].slot]
      BY <3>1, <3>3, <3>5, <1>9
    <3> QED  BY <3>1, <3>6 DEF IInv, ListAgrees, Tracked
  <2> QED  BY <2>1, <2>2
<1>20. ConfirmedAreRevoked'
  <2>1. \A a \in confirmed' : RevokedToLimit(a)'
    BY <1>1, <1>11, StillRevoked DEF IInv, Types, ConfirmedAreRevoked
  <2> QED  BY <2>1, <1>1, <1>15 DEF ConfirmedAreRevoked
<1>21. ASSUME NEW q \in Procs PROVE Knows(q, req[q])'
  <2>1. CASE q = r
    <3>1. CASE v.pc = "idle"
      <4>1. IdleReq.pc = "idle" /\ IdleReq.list = NoList /\ IdleReq.todo = {}
        BY DEF IdleReq
      <4> QED  BY <2>1, <3>1, <1>7, <1>8, <4>1
               DEF Knows, RoleOf, IssuerKnows, OwnerKnows, VerifierKnows, PartnerKnows
    <3>2. CASE v.pc = "loop"
      <4>1. PartnerKnows(q, req[q])'
        <5> SUFFICES ASSUME q \in Partners PROVE PartnerKnows(q, req[q])'
          BY DEF PartnerKnows
        <5>1. /\ \A d \in req[r].todo : cred[d].st # "none"
              /\ req[r].all \subseteq req[r].asked
              /\ req[r].all = req[r].asked \/ Cardinality(req[r].all) = RevokeLimit
              /\ \A d \in req[r].all \ req[r].todo : d = c \/ cred[d].st = "revoked"
              /\ to = "revoked"
          BY <2>1, <1>1, <1>2 DEF Knows, OwnerKnows, PartnerKnows
        <5>2. req[r].todo \subseteq Creds /\ req[r].all \subseteq Creds
          BY <1>2 DEF Req
        <5>3. cred'[c].st = "revoked"
          BY <5>1, <1>6, <1>8
        <5> QED  BY <2>1, <3>2, <5>1, <5>2, <5>3, <1>7, <1>8, <1>11 DEF PartnerKnows
      <4> QED  BY <2>1, <3>2, <1>7, <1>8, <4>1
               DEF Knows, RoleOf, IssuerKnows, OwnerKnows, VerifierKnows
    <3> QED  BY <3>1, <3>2, <1>7
  <2>2. CASE q # r
    <3>1. Knows(q, req[q]) /\ Apart(req[q], req[r]) /\ Apart(req[r], req[q])
      BY <2>2, Typed
    <3>2. req[q].pc \in Owning \cup Sharing \cup Issuing => req[q].cred \in Creds \ {c}
      BY <3>1, <1>1, <1>3 DEF Apart, Knows, IssuerKnows, OwnerKnows, VerifierKnows
    <3>3. req[q].pc \in {"write", "decide"} /\ req[q].list # NoList => req[q].list \in Lists \ {l}
      <4>1. req[q].list \in 0..MaxLists
        BY Typed DEF Req
      <4> QED  BY <4>1, <3>1, <1>1, StatusConstants DEF Apart, Lists
    <3>4. req[q].pc = "record" => req[q].list \in Lists
      BY <3>1 DEF Knows, IssuerKnows
    <3> QED  BY <2>2, <3>2, <3>3, <3>4, <1>8, <1>9, <1>11, KnowsStill
  <2> QED  BY <2>1, <2>2
<1> QED  BY <1>12, <1>13, <1>14, <1>16, <1>17, <1>18, <1>19, <1>20, <1>21 DEF IInv, Knowledge

LEMMA CommitStateStep ==
  ASSUME IInv, NEW r \in Procs, CommitState(r)
  PROVE  IInv'
<1>1. CASE req[r].to # "none"
  BY <1>1, CommitStep
<1>2. CASE req[r].to = "none"
  <2> DEFINE v == [IdleReq EXCEPT !.pc = "loop", !.todo = req[r].todo, !.all = req[r].all,
                                 !.asked = req[r].asked]
  <2>1. /\ req[r].pc = "write" /\ Set(r, AfterWrite(r))
        /\ UNCHANGED <<cred, nlists, list, external, confirmed, holder, erased, quiet>>
    BY <1>2 DEF CommitState
  <2>2. req[r] \in Req /\ Knows(r, req[r]) /\ ChecksOK
    BY Typed
  <2>3. ChecksOK'
    BY <2>2, StampOK
  <2>4. CASE r \in Operators
    <3>1. Set(r, IdleReq) /\ \A q \in Procs : req[q] \in Req
      BY <2>1, <2>4 DEF AfterWrite, IInv, Types
    <3>2. IdleReq \in Req /\ Knows(r, IdleReq) /\ IdleReq.pc = "idle"
      BY IdleKnows
    <3>3. \A q \in Procs \ {r} : Apart(IdleReq, req[q]) /\ Apart(req[q], IdleReq)
      BY <3>1, IdleKnows
    <3> QED  BY <2>1, <2>3, <3>1, <3>2, <3>3, LocalStep, StillConfirmed DEF Set
  <2>5. CASE r \notin Operators
    <3>1. Set(r, v) /\ r \in Partners \cup Monitors
      BY <2>1, <2>2, <2>5 DEF AfterWrite, Knows, RoleOf
    <3>2. r \notin Partners
      BY <1>2, <2>1, <2>2 DEF Knows, OwnerKnows
    <3>3. IdleReq \in Req /\ IdleReq.list = NoList
      BY IdleKnows DEF IdleReq
    <3>4. v \in Req /\ v.pc = "loop" /\ v.list = NoList
      BY <2>2, <3>3 DEF Req
    <3> HIDE DEF v
    <3>5. PartnerKnows(r, v)
      BY <3>2 DEF PartnerKnows
    <3> QED  BY <2>1, <2>3, <3>1, <3>4, <3>5, LoopStep
  <2> QED  BY <2>4, <2>5
<1> QED  BY <1>1, <1>2

LEMMA FailStep ==
  ASSUME IInv, NEW r \in Procs, Fail(r) \/ EndPass(r) \/ Decide(r) \/ PassTimesOut(r)
  PROVE  IInv'
BY EndStep, StillConfirmed DEF Fail, EndPass, Decide, PassTimesOut

(* The clock, the parents and the lull touch nothing that is relied on. *)
LEMMA EnvironmentStep ==
  ASSUME IInv, UNCHANGED <<cred, nlists, list, req, confirmed, holder, erased>>,
         ChecksOK',
         ExternalOK', quiet' \in BOOLEAN
  PROVE  IInv'
<1>1. Types' /\ Widths' /\ Unused'
  BY DEF IInv, Types, Widths, Unused
<1>2. SlotsAreUnique' /\ ListAgrees' /\ ConfirmedAreRevoked' /\ Erasure'
  BY DEF IInv, SlotsAreUnique, ListAgrees, ConfirmedAreRevoked, RevokedToLimit, Erasure, Tracked
<1>3. Knowledge'
  <2> SUFFICES ASSUME NEW q \in Procs PROVE Knows(q, req[q])'
    BY DEF Knowledge
  <2> QED  BY KnowsStill
<1>4. Locks'
  BY DEF IInv, Locks, Apart
<1> QED  BY <1>1, <1>2, <1>3, <1>4 DEF IInv

LEMMA StepOK == IInv /\ [Next]_vars => IInv'
<1> SUFFICES ASSUME IInv, [Next]_vars PROVE IInv'
  OBVIOUS
<1> USE DEF Next
<1>0. /\ ChecksOK /\ quiet \in BOOLEAN
      /\ ExternalOK
  BY DEF IInv, Types
<1>1. CASE \E r \in Issuers, c \in Creds : GetOrCreateStatusList(r, c)
  BY <1>1, GetOrCreateStatusListStep
<1>2. CASE \E r \in Operators, c \in Creds, to \in {"ok", "revoked", "suspended"} :
             LockCredential(r, c, to)
  BY <1>2, LockCredentialStep
<1>3. CASE \E r \in Partners, T \in SUBSET Creds : ListTargets(r, T)
  BY <1>3, ListTargetsStep
<1>4. CASE \E m \in Monitors : ListParents(m)
  BY <1>4, ListParentsStep
<1>5. CASE \E v \in Verifiers, c \in Creds : CredentialStatusParents(v, c)
  BY <1>5, CredentialStatusParentsStep
<1>6. ASSUME NEW r \in Procs, ProcStep(r) PROVE IInv'
  <2>1. CASE LockList(r)
    BY <2>1, LockListStep
  <2>2. CASE CommitState(r)
    BY <2>2, CommitStateStep
  <2>3. CASE RecordCredentialWithStatus(r)
    BY <2>3, RecordStep
  <2>4. CASE \E s \in Slots : AllocateStatusIndex(r, s)
    BY <2>4, AllocateStatusIndexStep
  <2>5. CASE ConfirmTargets(r)
    BY <2>5, ConfirmTargetsStep
  <2>6. CASE \E c \in Creds : RevokeTarget(r, c)
    BY <2>6, RevokeTargetStep
  <2>7. CASE \E c \in Dependent : LockParent(r, c)
    BY <2>7, LockParentStep
  <2>8. CASE \E a \in {"ok", "suspended", "revoked", "unavailable"} : CheckStatusParents(r, a)
    BY <2>8, CheckStatusParentsStep
  <2>9. CASE LockCredentialStatus(r)
    BY <2>9, LockCredentialStatusStep
  <2>10. CASE EndPass(r) \/ Decide(r)
    BY <2>10, FailStep
  <2> QED  BY <1>6, <2>1, <2>2, <2>3, <2>4, <2>5, <2>6, <2>7, <2>8, <2>9, <2>10 DEF ProcStep
<1>7. CASE (\E r \in Procs : Fail(r)) \/ \E m \in Monitors : PassTimesOut(m)
  BY <1>7, FailStep DEF Procs
<1>8. CASE \E c \in Dependent : Age(c)
  BY <1>0, <1>8, EnvironmentStep DEF Age, ChecksOK, ExternalOK
<1>9. CASE \E c \in Dependent, st \in {"ok", "suspended", "revoked"} : ParentChanges(c, st)
  BY <1>0, <1>9, EnvironmentStep DEF ParentChanges, ChecksOK, ExternalOK
<1>13. CASE \E c \in Dependent : AnswersChange(c)
  BY <1>0, <1>13, EnvironmentStep DEF AnswersChange, ChecksOK, ExternalOK
<1>10. CASE GDPRErasure
  BY <1>10, ErasureStep
<1>11. CASE Quieten
  BY <1>0, <1>11, EnvironmentStep DEF Quieten, ChecksOK, ExternalOK
<1>12. CASE UNCHANGED vars
  BY <1>0, <1>12, EnvironmentStep DEF vars, ChecksOK, ExternalOK
<1> QED  BY <1>1, <1>2, <1>3, <1>4, <1>5, <1>6, <1>7, <1>8, <1>9, <1>10, <1>11, <1>12, <1>13

(* The inductive invariant: what every transaction knows of the rows and   *)
(* lists it has locked is true until it ends.                              *)
THEOREM Invariance == Spec => []IInv
<1>1. Init => IInv
  BY InitOK
<1>2. IInv /\ [Next]_vars => IInv'
  BY StepOK
<1> QED  BY <1>1, <1>2, PTL DEF Spec

(* The types, and every entry of a list fits the width the list is         *)
(* published with.                                                         *)
THEOREM TypeCorrect == Spec => []TypeOK
<1>1. IInv => TypeOK
  BY DEF IInv, Types, Widths, TypeOK, ChecksOK, ExternalOK
<1> QED  BY <1>1, Invariance, PTL

(* setIssuedCredentialState "serialises the registry and signed-list       *)
(* state": the published value is the state in the registry.               *)
THEOREM ListsAgree == Spec => []ListAgrees
<1>1. IInv => ListAgrees
  BY DEF IInv
<1> QED  BY <1>1, Invariance, PTL

(* allocateRandomStatusIndex gives a slot to one credential, and the count *)
(* of a list stays that of its reserved slots.                             *)
THEOREM SlotsOnce == Spec => []SlotsAreUnique
<1>1. IInv => SlotsAreUnique
  BY DEF IInv
<1> QED  BY <1>1, Invariance, PTL

(* checkWalletStatus: "Locks order this decision against local revoke".    *)
THEOREM DecisionsAreCurrent == Spec => []DecisionIsCurrent
<1>1. IInv => DecisionIsCurrent
  BY DEF IInv, Knowledge, Knows, VerifierKnows, DecisionIsCurrent, Procs
<1> QED  BY <1>1, Invariance, PTL

(* An event that RevokeByVCTAndUser confirmed has revoked the credentials  *)
(* that it concerns, or as many of them as its LIMIT; the erasure leaves   *)
(* nothing valid behind.                                                   *)
THEOREM RevocationsAreComplete == Spec => []ConfirmedAreRevoked
<1>1. IInv => ConfirmedAreRevoked
  BY DEF IInv
<1> QED  BY <1>1, Invariance, PTL

(* The state of a credential changes only in a commit whose transaction    *)
(* has locked the row and knows it.                                        *)
LEMMA LiftsOK ==
  ASSUME IInv, [Next]_vars, NEW c \in Creds
  PROVE  /\ cred[c].st = "revoked" => cred'[c].st = "revoked"
         /\ cred[c].st = "suspended" /\ ~cred[c].hold /\ cred'[c].st = "ok" =>
              \E r \in Operators : At(r, "write") /\ req[r].cred = c
<1>1. cred \in [Creds -> Cred]
  BY DEF IInv, Types
<1>2. CASE UNCHANGED cred
  BY <1>2
<1>3. CASE GDPRErasure
  <2> DEFINE T == {d \in Creds : cred[d].st \notin {"none", "revoked"}}
  <2>1. cred'[c] = [cred[c] EXCEPT !.st = IF c \in T THEN "revoked" ELSE @]
    BY <1>3 DEF GDPRErasure, Unrevoked
  <2>2. cred'[c].st = IF c \in T THEN "revoked" ELSE cred[c].st
    BY <2>1, <1>1 DEF Cred
  <2> QED  BY <2>2
<1>4. ASSUME NEW r \in Procs, RecordCredentialWithStatus(r) PROVE cred[c].st # "none" => cred'[c] = cred[c]
  BY <1>4, <1>1 DEF RecordCredentialWithStatus
<1>5. ASSUME NEW r \in Procs, CommitState(r), cred'[c] # cred[c]
      PROVE  /\ cred[c].st # "revoked" /\ req[r].pc = "write" /\ req[r].cred = c
             /\ cred[c].st = "suspended" /\ ~cred[c].hold /\ cred'[c].st = "ok" => r \in Operators
  <2>1. /\ req[r].pc = "write" /\ req[r].cred = c /\ req[r].to # "none"
        /\ cred' = [cred EXCEPT ![c] = NewRow(r)]
    BY <1>1, <1>5 DEF CommitState
  <2>2. Knows(r, req[r]) /\ req[r] \in Req
    BY Typed
  <2>3. req[r].row = cred[c] /\ cred[c].st \in {"ok", "suspended"} /\ cred[c] \in Cred
    BY <1>1, <2>1, <2>2 DEF Knows, OwnerKnows
  <2>4. cred'[c].st = req[r].to
    BY <1>1, <2>1, <2>2, <2>3 DEF NewRow, Req, Cred
  <2> QED  BY <2>1, <2>2, <2>3, <2>4 DEF Knows, OwnerKnows
<1>6. \/ UNCHANGED cred \/ GDPRErasure
      \/ \E r \in Procs : RecordCredentialWithStatus(r) \/ CommitState(r)
  BY DEF Next, vars, ProcStep, GetOrCreateStatusList, LockCredential, ListTargets, ListParents,
         CredentialStatusParents, LockList, AllocateStatusIndex, ConfirmTargets, RevokeTarget,
         EndPass, LockParent, CheckStatusParents, LockCredentialStatus, Decide, Fail, Age,
         ParentChanges, Quieten, PassTimesOut, AnswersChange
<1> QED  BY <1>2, <1>3, <1>4, <1>5, <1>6

(* setIssuedCredentialState: "Revocation is terminal; only a suspended     *)
(* credential can be restored", and the monitor lifts only its own         *)
(* suspensions.                                                            *)
THEOREM LiftsAreLegal == Spec => OnlyLegalLifts
<1>1. IInv /\ [Next]_vars =>
        [\A c \in Creds :
           /\ cred[c].st = "revoked" => cred'[c].st = "revoked"
           /\ cred[c].st = "suspended" /\ ~cred[c].hold /\ cred'[c].st = "ok" =>
                \E r \in Operators : At(r, "write") /\ req[r].cred = c]_vars
  BY LiftsOK
<1> QED  BY <1>1, Invariance, PTL DEF Spec, OnlyLegalLifts
=============================================================================
