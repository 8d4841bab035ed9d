---------------------------- MODULE AuditProofs ----------------------------
(***************************************************************************)
(* Proofs for AuditSealing, for every batch size and length of the log,    *)
(* whatever retention deletes and whichever statements fail, and for       *)
(* AuditDispatcher, for any number of events, workers, sinks and streams.  *)
(*                                                                         *)
(* AuditSealing.  What a call of SealOrg has read need not be the end of   *)
(* the chain any more when it appends to it, but it is some checkpoint and *)
(* the batch lies beyond it: that suffices for every branch.               *)
(***************************************************************************)
EXTENDS AuditSealing, AuditDispatcher, FiniteSetTheorems, WellFoundedInduction, TLAPS

USE DEF At

(* A batch has a last row. *)
LEMMA LastExists ==
  ASSUME NEW ids \in SUBSET Ids, ids # {}
  PROVE  \E i \in ids : \A j \in ids : j <= i
<1> DEFINE T == {MaxId - i : i \in ids}
           R == OpToRel(<, Nat)
<1>1. MaxId \in Nat /\ \A i \in ids : i \in 1..MaxId
  BY SealingConstants DEF Ids
<1>2. T \subseteq Nat /\ T # {}
  BY <1>1
<1>3. IsWellFoundedOn(R, Nat)
  BY NatLessThanWellFounded
<1> HIDE DEF T, R
<1>4. PICK x \in T : \A y \in T : ~(<<y, x>> \in R)
  BY <1>2, <1>3, WFMin
<1>5. \A y \in T : ~(y < x)
  BY <1>2, <1>4 DEF R, OpToRel
<1>6. PICK i \in ids : x = MaxId - i
  BY DEF T
<1>7. \A j \in ids : ~(MaxId - j < MaxId - i)
  BY <1>5, <1>6 DEF T
<1>8. \A j \in ids : j <= i
  BY <1>1, <1>7
<1> QED  BY <1>8

LEMMA LastOK ==
  ASSUME NEW ids \in SUBSET Ids
  PROVE  /\ LastLogID(ids) \in 0..MaxId
         /\ \A j \in ids : j <= LastLogID(ids)
<1>1. CASE ids = {}
  BY <1>1, SealingConstants DEF LastLogID
<1>2. CASE ids # {}
  <2>1. LastLogID(ids) \in ids /\ \A j \in ids : j <= LastLogID(ids)
    BY <1>2, LastExists DEF LastLogID
  <2>2. LastLogID(ids) \in Ids
    BY <2>1
  <2>3. \A i \in Ids : i \in 0..MaxId
    BY SealingConstants DEF Ids
  <2> QED  BY <2>1, <2>2, <2>3
<1> QED  BY <1>1, <1>2

(* UnsealedAuditRows returns rows above the last one. *)
LEMMA BatchOK ==
  ASSUME TypeOK, NEW s \in Sealers
  PROVE  /\ Batch(sealer[s].after) \in Batches
         /\ \A i \in Batch(sealer[s].after) : i > sealer[s].after
<1>1. rows \subseteq Ids
  BY SealingConstants DEF TypeOK, Ids
<1> QED  BY <1>1 DEF Batch, Batches

LEMMA IdleOK == Idle \in Locals /\ Idle.pc = "idle"
BY SealingConstants DEF Idle, Locals, Batches

(* What a sealer becomes after it has fetched a batch. *)
LEMMA StageOK ==
  ASSUME TypeOK, NEW s \in Sealers, NEW ids \in Batches, NextStage(s, ids)
  PROVE  \E q \in Locals :
           /\ sealer' = [sealer EXCEPT ![s] = q]
           /\ \/ /\ q.pc = "insert" /\ q.ids = ids /\ ids # {}
                 /\ q.after = sealer[s].after /\ q.prevRoot = sealer[s].prevRoot
              \/ q.pc \in {"idle", "latest"}
<1>1. sealer[s] \in Locals
  BY DEF TypeOK
<1>2. CASE sealer' = [sealer EXCEPT ![s] = [sealer[s] EXCEPT !.pc = "insert", !.ids = ids]] /\ ids # {}
  <2> DEFINE q == [sealer[s] EXCEPT !.pc = "insert", !.ids = ids]
  <2>1. /\ q \in Locals /\ q.pc = "insert" /\ q.ids = ids
        /\ q.after = sealer[s].after /\ q.prevRoot = sealer[s].prevRoot
    BY <1>1 DEF Locals
  <2> QED  BY <1>2, <2>1
<1>3. CASE \E q \in {Idle, [Idle EXCEPT !.pc = "latest", !.partial = TRUE]} :
             sealer' = [sealer EXCEPT ![s] = q]
  <2>1. [Idle EXCEPT !.pc = "latest", !.partial = TRUE] \in Locals
    BY IdleOK DEF Locals
  <2>2. [Idle EXCEPT !.pc = "latest", !.partial = TRUE].pc = "latest"
    BY IdleOK DEF Locals
  <2> QED  BY <1>3, <2>1, <2>2, IdleOK
<1>4. Cardinality(ids) = BatchSize => ids # {}
  BY FS_EmptySet, SealingConstants
<1> QED  BY <1>2, <1>3, <1>4 DEF NextStage, Become, Finish

(* The end of the chain. *)
LastRoot == IF chain = <<>> THEN {} ELSE chain[Len(chain)].root

Checkpointed(x) == x = {} \/ \E m \in DOMAIN chain : x = chain[m].root

(* A sealer knows a checkpoint, and inserts rows beyond it. *)
Knows(q) ==
  /\ q.pc \in {"fetch", "insert"} =>
       Checkpointed(q.prevRoot) /\ q.after = LastLogID(q.prevRoot)
  /\ q.pc = "insert" => \A i \in q.ids : i > q.after

(* A sealer that inserts has rows to insert. *)
Filled == \A s \in Sealers : At(s, "insert") => sealer[s].ids # {}

TInv == TypeOK /\ Filled
CInv == BranchesIntact /\ \A s \in Sealers : Knows(sealer[s])

(* A step of s that leaves the log and the chain alone. *)
LEMMA SealerStep ==
  ASSUME TInv, NEW s \in Sealers, NEW q \in Locals, sealer' = [sealer EXCEPT ![s] = q],
         UNCHANGED <<log, chain>>, failed' \in 0..MaxFail, q.pc = "insert" => q.ids # {}
  PROVE  TInv' /\ ((CInv /\ Knows(q)) => CInv')
<1>1. \A t \in Sealers : sealer'[t] = IF t = s THEN q ELSE sealer[t]
  BY DEF TInv, TypeOK
<1>2. TypeOK'
  BY DEF TInv, TypeOK, log
<1>3. Filled'
  BY <1>1 DEF TInv, Filled
<1>4. ASSUME CInv, Knows(q) PROVE CInv'
  BY <1>1, <1>4 DEF CInv, BranchesIntact, Knows, Checkpointed
<1> QED  BY <1>2, <1>3, <1>4 DEF TInv

LEMMA LastRootOK == ASSUME TypeOK PROVE LastRoot \in SUBSET Ids /\ Checkpointed(LastRoot)
<1>1. CASE chain = <<>>
  BY <1>1 DEF LastRoot, Checkpointed
<1>2. CASE chain # <<>>
  <2>1. Len(chain) \in DOMAIN chain /\ chain[Len(chain)] \in Checkpoint
    BY <1>2 DEF TypeOK
  <2> QED  BY <1>2, <2>1 DEF LastRoot, Checkpoint, Batches, Checkpointed
<1> QED  BY <1>1, <1>2

LEMMA QuietSteps ==
  ASSUME TInv, NEW s \in Sealers,
         RunAllOrgs(s) \/ SealProof(s) \/ LatestCheckpoint(s) \/ UnsealedAuditRows(s) \/ Fail(s)
  PROVE  TInv' /\ (CInv => CInv')
<1>1. TypeOK /\ failed \in 0..MaxFail /\ sealer[s] \in Locals
  BY DEF TInv, TypeOK
<1>2. CASE RunAllOrgs(s) \/ SealProof(s)
  <2>1. PICK q \in {[Idle EXCEPT !.pc = "latest"], [Idle EXCEPT !.pc = "latest"]} :
          sealer' = [sealer EXCEPT ![s] = q]
    BY <1>2 DEF RunAllOrgs, SealProof, Become
  <2>2. q \in Locals /\ q.pc = "latest"
    BY <2>1, IdleOK DEF Locals
  <2>3. Knows(q)
    BY <2>2 DEF Knows
  <2>4. UNCHANGED <<log, chain, failed>>
    BY <1>2 DEF RunAllOrgs, SealProof
  <2> QED  BY <1>1, <2>1, <2>2, <2>3, <2>4, SealerStep
<1>3. CASE LatestCheckpoint(s)
  <2> DEFINE q == [sealer[s] EXCEPT !.pc = "fetch", !.after = LastLogID(LastRoot),
                                    !.prevRoot = LastRoot]
  <2>1. LastRoot \in Batches /\ LastLogID(LastRoot) \in 0..MaxId
    BY <1>1, LastRootOK, LastOK DEF Batches
  <2>2. q \in Locals /\ q.pc = "fetch" /\ q.prevRoot = LastRoot /\ q.after = LastLogID(LastRoot)
    BY <1>1, <2>1 DEF Locals
  <2>3. sealer' = [sealer EXCEPT ![s] = q] /\ UNCHANGED <<log, chain, failed>>
    BY <1>3 DEF LatestCheckpoint, Become, LastRoot
  <2> HIDE DEF q
  <2>4. Knows(q)
    BY <1>1, <2>2, LastRootOK DEF Knows
  <2> QED  BY <1>1, <2>2, <2>3, <2>4, SealerStep
<1>4. CASE UnsealedAuditRows(s)
  <2> DEFINE ids == Batch(sealer[s].after)
  <2>1. ids \in Batches /\ \A i \in ids : i > sealer[s].after
    BY <1>1, BatchOK
  <2>2. NextStage(s, ids) /\ At(s, "fetch") /\ UNCHANGED <<log, chain, failed>>
    BY <1>4 DEF UnsealedAuditRows
  <2> HIDE DEF ids
  <2>3. PICK q \in Locals :
           /\ sealer' = [sealer EXCEPT ![s] = q]
           /\ \/ /\ q.pc = "insert" /\ q.ids = ids /\ ids # {}
                 /\ q.after = sealer[s].after /\ q.prevRoot = sealer[s].prevRoot
              \/ q.pc \in {"idle", "latest"}
    BY <1>1, <2>1, <2>2, StageOK
  <2>4. CInv => Knows(q)
    BY <2>1, <2>2, <2>3 DEF CInv, Knows
  <2>5. failed' \in 0..MaxFail
    BY <1>1, <2>2
  <2>6. q.pc = "insert" => q.ids # {}
    BY <2>3
  <2>7. TInv' /\ ((CInv /\ Knows(q)) => CInv')
    BY <2>2, <2>3, <2>5, <2>6, SealerStep
  <2> QED  BY <2>4, <2>7
<1>5. CASE Fail(s)
  <2>1. failed' \in 0..MaxFail
    BY <1>1, <1>5, SealingConstants DEF Fail
  <2>2. Knows(Idle)
    BY IdleOK DEF Knows
  <2> QED  BY <1>5, <2>1, <2>2, IdleOK, SealerStep DEF Fail, Finish, Become
<1> QED  BY <1>2, <1>3, <1>4, <1>5

LEMMA LogSteps ==
  ASSUME TInv,
         \/ NextVal
         \/ \E i \in Ids : Commit(i) \/ Rollback(i)
         \/ \E expired \in SUBSET rows : DeleteExpiredEvents(expired)
         \/ UNCHANGED vars
  PROVE  TInv' /\ (CInv => CInv')
<1>1. UNCHANGED <<chain, sealer, failed>>
  BY DEF NextVal, Commit, Rollback, DeleteExpiredEvents, vars
<1>2. drawn' \in 0..MaxId /\ drawn <= drawn' /\ drawn \in Nat
  BY SealingConstants DEF TInv, TypeOK, NextVal, Commit, Rollback, DeleteExpiredEvents, vars
<1>3. 1..drawn \subseteq 1..drawn'
  BY <1>2
<1>4. /\ flying' \subseteq flying \cup {drawn + 1} /\ (drawn' = drawn => flying' \subseteq flying)
      /\ drawn' # drawn => drawn' = drawn + 1
      /\ rows' \subseteq rows \cup flying /\ late' \subseteq late \cup flying
  BY <1>2 DEF NextVal, Commit, Rollback, DeleteExpiredEvents, vars
<1>5. flying' \subseteq 1..drawn' /\ rows' \subseteq 1..drawn' /\ late' \subseteq 1..drawn'
  <2>1. flying \subseteq 1..drawn /\ rows \subseteq 1..drawn /\ late \subseteq 1..drawn
    BY DEF TInv, TypeOK
  <2>2. drawn' # drawn => drawn + 1 \in 1..drawn'
    BY <1>2, <1>4
  <2> QED  BY <1>3, <1>4, <2>1, <2>2
<1>6. TypeOK'
  BY <1>1, <1>2, <1>5 DEF TInv, TypeOK
<1>7. CInv => CInv'
  BY <1>1 DEF CInv, BranchesIntact, Knows, Checkpointed
<1> QED  BY <1>1, <1>6, <1>7 DEF TInv, Filled

(* The checkpoint s appends. *)
LEMMA AppendOK ==
  ASSUME TInv, NEW s \in Sealers, InsertMerkleCheckpoint(s)
  PROVE  /\ [root |-> sealer[s].ids, prev |-> sealer[s].prevRoot] \in Checkpoint
         /\ chain \in Seq(Checkpoint) /\ Len(chain) \in Nat /\ DOMAIN chain = 1..Len(chain)
         /\ chain' \in Seq(Checkpoint) /\ DOMAIN chain' = 1..(Len(chain) + 1)
         /\ \A n \in 1..Len(chain) : chain'[n] = chain[n]
         /\ chain'[Len(chain) + 1] = [root |-> sealer[s].ids, prev |-> sealer[s].prevRoot]
         /\ sealer[s].ids # {}
<1>1. sealer[s] \in Locals /\ chain \in Seq(Checkpoint)
  BY DEF TInv, TypeOK
<1> DEFINE c == [root |-> sealer[s].ids, prev |-> sealer[s].prevRoot]
<1>2. c \in Checkpoint
  BY <1>1 DEF Checkpoint, Locals
<1>3. chain' = Append(chain, c)
  BY DEF InsertMerkleCheckpoint
<1> HIDE DEF c
<1>4. /\ chain \in Seq(Checkpoint) /\ Len(chain) \in Nat /\ DOMAIN chain = 1..Len(chain)
      /\ chain' \in Seq(Checkpoint) /\ Len(chain') = Len(chain) + 1
      /\ DOMAIN chain' = 1..(Len(chain) + 1)
      /\ \A n \in 1..Len(chain) : chain'[n] = chain[n]
      /\ chain'[Len(chain) + 1] = c
  BY <1>1, <1>2, <1>3
<1>5. sealer[s].ids # {}
  BY DEF InsertMerkleCheckpoint, TInv, Filled
<1> QED  BY <1>2, <1>4, <1>5 DEF c

LEMMA AdvanceOK ==
  ASSUME TInv, NEW s \in Sealers
  PROVE  /\ Advance(sealer[s]) \in Locals /\ Advance(sealer[s]).pc = "fetch"
         /\ Advance(sealer[s]).prevRoot = sealer[s].ids
         /\ Advance(sealer[s]).after = LastLogID(sealer[s].ids)
<1>1. sealer[s] \in Locals /\ sealer[s].ids \in SUBSET Ids
  BY DEF TInv, TypeOK, Locals, Batches
<1>2. LastLogID(sealer[s].ids) \in 0..MaxId
  BY <1>1, LastOK
<1> QED  BY <1>1, <1>2 DEF Advance, Locals, Batches

LEMMA InsertTypes ==
  ASSUME TInv, NEW s \in Sealers, InsertMerkleCheckpoint(s)
  PROVE  TInv'
<1>1. PICK q \in {Idle, Advance(sealer[s])} : sealer' = [sealer EXCEPT ![s] = q]
  BY DEF InsertMerkleCheckpoint, Finish, Become
<1>2. q \in Locals /\ q.pc \in {"idle", "fetch"}
  BY <1>1, IdleOK, AdvanceOK
<1>3. \A t \in Sealers : sealer'[t] = IF t = s THEN q ELSE sealer[t]
  BY <1>1 DEF TInv, TypeOK
<1>4. \A n \in DOMAIN chain' : chain'[n].root # {}
  <2> SUFFICES ASSUME NEW n \in 1..(Len(chain) + 1) PROVE chain'[n].root # {}
    BY AppendOK
  <2>1. CASE n = Len(chain) + 1
    <3> DEFINE c == [root |-> sealer[s].ids, prev |-> sealer[s].prevRoot]
    <3>1. c.root = sealer[s].ids
      OBVIOUS
    <3>2. chain'[n] = c /\ sealer[s].ids # {}
      BY <2>1, AppendOK
    <3> HIDE DEF c
    <3> QED  BY <3>1, <3>2
  <2>2. CASE n \in 1..Len(chain)
    BY <2>2, AppendOK DEF TInv, TypeOK
  <2>3. Len(chain) \in Nat
    BY AppendOK
  <2> QED  BY <2>1, <2>2, <2>3
<1>5. UNCHANGED <<drawn, flying, rows, late, failed>>
  BY DEF InsertMerkleCheckpoint, log
<1>6. sealer' \in [Sealers -> Locals]
  BY <1>1, <1>2 DEF TInv, TypeOK
<1>7. TypeOK'
  BY <1>4, <1>5, <1>6, AppendOK DEF TInv, TypeOK
<1>8. Filled'
  BY <1>2, <1>3 DEF TInv, Filled
<1> QED  BY <1>7, <1>8 DEF TInv

LEMMA InitOK == Init => TInv /\ CInv
<1> SUFFICES ASSUME Init PROVE TInv /\ CInv
  OBVIOUS
<1>1. TypeOK
  <2>1. drawn \in 0..MaxId /\ failed \in 0..MaxFail
    BY SealingConstants DEF Init
  <2>2. chain \in Seq(Checkpoint) /\ DOMAIN chain = {}
    BY DEF Init
  <2> QED  BY <2>1, <2>2, IdleOK DEF Init, TypeOK
<1>2. Filled /\ \A s \in Sealers : Knows(sealer[s])
  BY IdleOK DEF Init, Filled, Knows
<1>3. BranchesIntact
  BY DEF Init, BranchesIntact
<1> QED  BY <1>1, <1>2, <1>3 DEF TInv, CInv

LEMMA TypesNext == TInv /\ [Next]_vars => TInv'
BY LogSteps, QuietSteps, InsertTypes DEF Next

THEOREM TypeInvariance == Spec => []TInv
<1>1. Init => TInv
  BY InitOK
<1> QED  BY <1>1, TypesNext, PTL DEF Spec

(* Types of the log, the chain and the sealers, with any number of calls   *)
(* in flight; no checkpoint is empty.                                      *)
THEOREM TypeCorrect == Spec => []TypeOK
<1>1. TInv => TypeOK
  BY DEF TInv
<1> QED  BY <1>1, TypeInvariance, PTL

(***************************************************************************)
(* The branches.                                                           *)
(***************************************************************************)
LEMMA InsertChain ==
  ASSUME TInv, CInv, NEW s \in Sealers, InsertMerkleCheckpoint(s)
  PROVE  CInv'
<1> DEFINE N == Len(chain)
<1>1. /\ N \in Nat /\ DOMAIN chain = 1..N /\ DOMAIN chain' = 1..(N + 1)
      /\ \A n \in 1..N : chain'[n] = chain[n]
      /\ chain'[N + 1].root = sealer[s].ids /\ chain'[N + 1].prev = sealer[s].prevRoot
  <2> DEFINE c == [root |-> sealer[s].ids, prev |-> sealer[s].prevRoot]
  <2>1. c.root = sealer[s].ids /\ c.prev = sealer[s].prevRoot
    OBVIOUS
  <2>2. chain'[N + 1] = c
    BY AppendOK
  <2> HIDE DEF c
  <2> QED  BY <2>1, <2>2, AppendOK
<1> HIDE DEF N
<1>2. /\ Checkpointed(sealer[s].prevRoot) /\ sealer[s].after = LastLogID(sealer[s].prevRoot)
      /\ \A i \in sealer[s].ids : i > sealer[s].after
  BY DEF InsertMerkleCheckpoint, CInv, Knows
<1>3. \A i \in sealer[s].prevRoot, j \in sealer[s].ids : i < j
  <2>1. sealer[s] \in Locals /\ sealer[s].prevRoot \in SUBSET Ids /\ sealer[s].ids \in SUBSET Ids
    BY DEF TInv, TypeOK, Locals, Batches
  <2>2. sealer[s].after \in 0..MaxId /\ \A i \in sealer[s].prevRoot : i <= sealer[s].after
    BY <1>2, <2>1, LastOK
  <2>3. \A i \in Ids : i \in Nat
    BY SealingConstants DEF Ids
  <2> QED  BY <1>2, <2>1, <2>2, <2>3
<1>4. \A x : Checkpointed(x) => Checkpointed(x)'
  BY <1>1 DEF Checkpointed
<1>5. BranchesIntact'
  <2> SUFFICES ASSUME NEW n \in 1..(N + 1)
               PROVE  /\ chain'[n].prev = {} \/ \E m \in 1..(n - 1) : chain'[n].prev = chain'[m].root
                      /\ \A i \in chain'[n].prev, j \in chain'[n].root : i < j
    BY <1>1 DEF BranchesIntact
  <2>1. CASE n \in 1..N
    <3>1. \A m \in 1..(n - 1) : m \in 1..N
      BY <1>1, <2>1
    <3> QED  BY <1>1, <2>1, <3>1 DEF CInv, BranchesIntact
  <2>2. CASE n = N + 1
    <3>1. 1..(n - 1) = 1..N
      BY <1>1, <2>2
    <3> QED  BY <1>1, <1>2, <1>3, <2>2, <3>1 DEF Checkpointed
  <2> QED  BY <1>1, <2>1, <2>2
<1>6. Knows(sealer[s])'
  <2>1. CASE sealer' = [sealer EXCEPT ![s] = Idle]
    <3>1. sealer'[s].pc = "idle"
      BY <2>1, IdleOK DEF TInv, TypeOK
    <3> QED  BY <3>1 DEF Knows
  <2>2. CASE sealer' = [sealer EXCEPT ![s] = Advance(sealer[s])]
    <3>1. sealer'[s] = Advance(sealer[s])
      BY <2>2 DEF TInv, TypeOK
    <3>2. /\ sealer'[s].pc = "fetch" /\ sealer'[s].prevRoot = sealer[s].ids
          /\ sealer'[s].after = LastLogID(sealer[s].ids)
      BY <3>1, AdvanceOK
    <3>3. LastLogID(sealer[s].prevRoot)' = LastLogID(sealer[s].ids)
      BY <3>2 DEF LastLogID
    <3>4. Checkpointed(sealer[s].prevRoot)'
      BY <1>1, <3>2 DEF Checkpointed
    <3> QED  BY <3>2, <3>3, <3>4 DEF Knows
  <2> QED  BY <2>1, <2>2 DEF InsertMerkleCheckpoint, Finish, Become
<1>7. \A t \in Sealers \ {s} : Knows(sealer[t])'
  <2>1. \A t \in Sealers \ {s} : sealer'[t] = sealer[t]
    BY DEF InsertMerkleCheckpoint, Finish, Become, TInv, TypeOK
  <2> QED  BY <1>4, <2>1 DEF CInv, Knows
<1> QED  BY <1>5, <1>6, <1>7 DEF CInv

LEMMA ChainNext == TInv /\ CInv /\ [Next]_vars => CInv'
BY LogSteps, QuietSteps, InsertChain DEF Next

(* However many calls of SealOrg overlap, every checkpoint continues an    *)
(* earlier one or starts a branch, with rows above those of the one it     *)
(* continues, whatever fails and whatever retention deletes.               *)
THEOREM BranchesHold == Spec => []BranchesIntact
<1>1. Init => CInv
  BY InitOK
<1>2. CInv => BranchesIntact
  BY DEF CInv
<1> QED  BY <1>1, <1>2, ChainNext, TypeInvariance, PTL DEF Spec

----------------------------------------------------------------------------
(***************************************************************************)
(* AuditDispatcher.  The argument follows an event: it is in the channel   *)
(* once, or in the hands of one worker, and the deliveries of an event     *)
(* that are under way have a worker waiting for them.                      *)
(***************************************************************************)

(* An accepted event no delivery was started for. *)
Untouched(e) == emit[e] = "queued" /\ \A s \in Sinks : delivery[e][s].pc = "none"

(* The channel holds an event once, and no worker holds it then. *)
ChannelOK ==
  /\ \A i, j \in 1..Len(ch) : ch[i] = ch[j] => i = j
  /\ \A i \in 1..Len(ch) :
       Untouched(ch[i]) /\ \A w \in Workers : worker[w].ev # ch[i]

(* A worker outside range holds an event of its own, and has started no    *)
(* delivery of it before it waits.                                         *)
WorkersOK ==
  /\ \A w \in Workers :
       /\ worker[w].pc \in {"range", "exited"} <=> worker[w].ev = NoEvent
       /\ worker[w].ev # NoEvent => emit[worker[w].ev] = "queued"
       /\ worker[w].pc \in {"snapshot", "notify"} => Untouched(worker[w].ev)
  /\ \A v, w \in Workers :
       worker[v].ev = worker[w].ev /\ worker[v].ev # NoEvent => v = w

Awaited(e) == \E w \in Workers : worker[w].pc = "wait" /\ worker[w].ev = e

(* Somebody waits for every delivery under way, and only events that       *)
(* entered the channel are delivered.                                      *)
DeliveriesOK ==
  \A e \in Events, s \in Sinks :
    /\ delivery[e][s].pc \notin {"none", "done"} => Awaited(e)
    /\ delivery[e][s].pc # "none" => emit[e] = "queued"

(* The sink received the event at most once per attempt, and a success was *)
(* received.                                                               *)
AttemptOK(d, n) ==
  /\ d.pc \in {"none", "build", "connect"} => n = 0
  /\ d.pc = "send" => n < d.attempt
  /\ d.pc = "backoff" => n <= d.attempt /\ d.attempt < MaxRetries
  /\ d.pc \in {"record", "done"} => n <= d.attempt
  /\ d.ok => n > 0

Attempts == \A e \in Events, s \in Sinks : AttemptOK(delivery[e][s], received[e][s])

DoneAt(s) == {e \in Events : delivery[e][s].pc = "done"}
OkAt(s) == {e \in DoneAt(s) : delivery[e][s].ok}

(* The statistics count each finished delivery once. *)
Counts ==
  \A s \in Sinks :
    /\ stats[s].ok + stats[s].failed + stats[s].lost = Cardinality(DoneAt(s))
    /\ stats[s].ok <= Cardinality(OkAt(s))

(* A worker leaves a channel that is closed and empty for good. *)
Shutdown ==
  /\ closed <=> stop # "running"
  /\ \A w \in Workers : worker[w].pc = "exited" => closed /\ ch = <<>>
  /\ stop = "returned" => \A w \in Workers : worker[w].pc = "exited"

DispatchIInv ==
  /\ DispatchTypeOK /\ ChannelOK /\ WorkersOK /\ DeliveriesOK
  /\ Attempts /\ Counts /\ Shutdown

(* What taking from a channel and sending to one do to it. *)
LEMMA TakeFacts ==
  ASSUME NEW S, NEW q \in Seq(S), q # <<>>
  PROVE  /\ Head(q) \in S /\ Head(q) = q[1]
         /\ Tail(q) \in Seq(S) /\ Len(Tail(q)) = Len(q) - 1 /\ Len(q) \in Nat \ {0}
         /\ \A i \in 1..Len(Tail(q)) : i + 1 \in 1..Len(q) /\ Tail(q)[i] = q[i + 1]
OBVIOUS

LEMMA SendFacts ==
  ASSUME NEW S, NEW q \in Seq(S), NEW x \in S
  PROVE  /\ Append(q, x) \in Seq(S) /\ Len(Append(q, x)) = Len(q) + 1 /\ Len(q) \in Nat
         /\ \A i \in 1..Len(q) : Append(q, x)[i] = q[i]
         /\ Append(q, x)[Len(q) + 1] = x
OBVIOUS

LEMMA LocalsType ==
  /\ IdleWorker \in Worker /\ IdleWorker.pc = "range" /\ IdleWorker.ev = NoEvent
  /\ NoDelivery \in Delivery /\ NoDelivery.pc = "none"
  /\ NewDelivery \in Delivery /\ NewDelivery.pc = "build" /\ ~NewDelivery.ok
<1>1. IdleWorker \in Worker /\ IdleWorker.pc = "range" /\ IdleWorker.ev = NoEvent
  BY DEF IdleWorker, Worker
<1>2. 0 \in 0..MaxRetries
  BY DispatcherConstants
<1> QED  BY <1>1, <1>2 DEF NoDelivery, NewDelivery, Delivery

(* What is in the tables has its type. *)
LEMMA EntryType ==
  ASSUME DispatchTypeOK
  PROVE  /\ \A w \in Workers : worker[w] \in Worker
         /\ \A e \in Events, s \in Sinks : delivery[e][s] \in Delivery /\ received[e][s] \in Nat
         /\ \A e \in Events : DOMAIN delivery[e] = Sinks
BY DEF DispatchTypeOK

----------------------------------------------------------------------------
(* The handlers that emit. *)

LEMMA RecordEventStep ==
  ASSUME DispatchIInv, NEW e \in Events, RecordEvent(e)
  PROVE  DispatchIInv'
<1> USE DEF DispatchIInv
<1>1. /\ UNCHANGED <<ch, closed, worker, delivery, stats, received,
                     subs, sub, buf, stop, dead, reachable>>
      /\ emit' \in [Events -> Emit]
      /\ \A d \in Events : emit[d] = "queued" => emit'[d] = "queued"
  BY DEF RecordEvent, DispatchTypeOK, sinkVars, streams, Emit
<1>2. DispatchTypeOK'
  BY <1>1 DEF DispatchTypeOK
<1>3. ChannelOK' /\ WorkersOK' /\ DeliveriesOK'
  <2>1. \A i \in 1..Len(ch) : ch[i] \in Events
    BY DEF DispatchTypeOK
  <2>2. \A d \in Events : Untouched(d) => Untouched(d)'
    BY <1>1 DEF Untouched
  <2>3. \A w \in Workers : worker[w].ev # NoEvent => worker[w].ev \in Events
    BY EntryType DEF Worker
  <2>4. ChannelOK'
    BY <1>1, <2>1, <2>2 DEF ChannelOK
  <2>5. WorkersOK'
    <3>1. \A w \in Workers : worker[w].pc \in {"snapshot", "notify"} => worker[w].ev \in Events
      BY <2>3 DEF WorkersOK
    <3> QED  BY <1>1, <2>2, <2>3, <3>1 DEF WorkersOK
  <2>6. DeliveriesOK'
    BY <1>1 DEF DeliveriesOK, Awaited
  <2> QED  BY <2>4, <2>5, <2>6
<1>4. Attempts' /\ Counts' /\ Shutdown'
  BY <1>1 DEF Attempts, Counts, DoneAt, OkAt, Shutdown
<1> QED  BY <1>2, <1>3, <1>4

LEMMA PublishStep ==
  ASSUME DispatchIInv, NEW e \in Events, Publish(e)
  PROVE  DispatchIInv'
<1> USE DEF DispatchIInv
<1>1. /\ UNCHANGED <<closed, worker, delivery, stats, received,
                     subs, sub, buf, stop, dead, reachable>>
      /\ emit' \in [Events -> Emit] /\ emit[e] = "recorded"
      /\ \A d \in Events \ {e} : emit'[d] = emit[d]
  BY DEF Publish, DispatchTypeOK, sinkVars, streams, Emit
<1>2. \A d \in Events : Untouched(d) => Untouched(d)'
  BY <1>1 DEF Untouched
<1>3. \A w \in Workers : worker[w].ev # NoEvent => worker[w].ev \in Events \ {e}
  BY <1>1, EntryType DEF Worker, WorkersOK
<1>4. WorkersOK'
  <2>1. \A w \in Workers : worker[w].pc \in {"snapshot", "notify"} => worker[w].ev \in Events
    BY <1>3 DEF WorkersOK
  <2> QED  BY <1>1, <1>2, <1>3, <2>1 DEF WorkersOK
<1>5. DeliveriesOK'
  <2>1. \A s \in Sinks : delivery[e][s].pc = "none"
    BY <1>1 DEF DeliveriesOK
  <2> QED  BY <1>1, <2>1 DEF DeliveriesOK, Awaited
<1>6. Attempts' /\ Counts'
  BY <1>1 DEF Attempts, Counts, DoneAt, OkAt
<1>7. CASE UNCHANGED ch
  <2>1. DispatchTypeOK' /\ Shutdown'
    BY <1>1, <1>7 DEF DispatchTypeOK, Shutdown
  <2>2. \A i \in 1..Len(ch) : ch[i] \in Events
    BY DEF DispatchTypeOK
  <2>3. ChannelOK'
    BY <1>1, <1>2, <1>7, <2>2 DEF ChannelOK
  <2> QED  BY <1>4, <1>5, <1>6, <2>1, <2>3
<1>8. CASE ~closed /\ Room /\ ch' = Append(ch, e) /\ emit'[e] = "queued"
  <2>1. ch \in Seq(Events) /\ Buffer \in Nat
    BY DispatcherConstants DEF DispatchTypeOK
  <2>2. /\ ch' \in Seq(Events) /\ Len(ch') = Len(ch) + 1 /\ Len(ch) \in Nat
        /\ \A i \in 1..Len(ch) : ch'[i] = ch[i]
        /\ ch'[Len(ch) + 1] = e
    BY <1>8, <2>1, SendFacts
  <2>3. DispatchTypeOK'
    BY <1>1, <1>8, <2>1, <2>2 DEF DispatchTypeOK, Room
  <2>4. Shutdown'
    BY <1>1, <1>8 DEF Shutdown
  <2>5. Untouched(e)'
    BY <1>1, <1>8 DEF Untouched, DeliveriesOK
  <2>6. \A i \in 1..Len(ch) : ch[i] \in Events \ {e}
    BY <1>1, <2>1 DEF ChannelOK, Untouched
  <2>7. \A i \in 1..Len(ch') : i \in 1..Len(ch) \/ i = Len(ch) + 1
    BY <2>2
  <2>8. \A i, j \in 1..Len(ch') : ch'[i] = ch'[j] => i = j
    BY <2>2, <2>6, <2>7 DEF ChannelOK
  <2>9. \A i \in 1..Len(ch') : (Untouched(ch[i]) /\ \A w \in Workers : worker[w].ev # ch[i])'
    <3> SUFFICES ASSUME NEW i \in 1..Len(ch')
                 PROVE  (Untouched(ch[i]) /\ \A w \in Workers : worker[w].ev # ch[i])'
      OBVIOUS
    <3>1. CASE i = Len(ch) + 1
      BY <1>1, <1>3, <2>2, <2>5, <3>1, DispatcherConstants DEF Untouched
    <3>2. CASE i \in 1..Len(ch)
      <4>1. ch'[i] = ch[i] /\ ch[i] \in Events
        BY <2>2, <2>6, <3>2
      <4>2. Untouched(ch[i]) /\ \A w \in Workers : worker[w].ev # ch[i]
        BY <3>2 DEF ChannelOK
      <4> QED  BY <1>1, <2>6, <3>2, <4>1, <4>2 DEF Untouched
    <3> QED  BY <2>7, <3>1, <3>2
  <2>10. ChannelOK'
    BY <2>8, <2>9 DEF ChannelOK
  <2> QED  BY <1>4, <1>5, <1>6, <2>3, <2>4, <2>10
<1> QED  BY <1>7, <1>8, <1>1 DEF Publish, DispatchTypeOK

(* The live streams keep to themselves. *)
LEMMA StreamStep ==
  ASSUME DispatchIInv, NEW c \in Subscribers,
         Subscribe(c) \/ Receive(c) \/ Unlist(c) \/ CloseStream(c)
  PROVE  DispatchIInv'
<1> USE DEF DispatchIInv
<1>1. UNCHANGED <<emit, ch, closed, worker, delivery, stats, received, stop, dead, reachable>>
  BY DEF Subscribe, Receive, Unlist, CloseStream, sinkVars
<1>2. /\ subs' \subseteq Subscribers
      /\ sub' \in [Subscribers -> {"new", "open", "unlisted", "closed"}]
  BY DEF Subscribe, Receive, Unlist, CloseStream, DispatchTypeOK
<1>3. /\ buf' \in [Subscribers -> Seq(Events)]
      /\ \A b \in Subscribers : Len(buf'[b]) <= SubBuffer
  <2>1. buf[c] \in Seq(Events) /\ Len(buf[c]) \in Nat /\ SubBuffer \in Nat
    BY DispatcherConstants DEF DispatchTypeOK
  <2>2. CASE Receive(c)
    <3>1. Tail(buf[c]) \in Seq(Events) /\ Len(Tail(buf[c])) = Len(buf[c]) - 1
      BY <2>1, <2>2, TakeFacts DEF Receive
    <3> QED  BY <2>1, <2>2, <3>1 DEF Receive, DispatchTypeOK
  <2>3. CASE CloseStream(c)
    <3>1. <<>> \in Seq(Events) /\ Len(<<>>) = 0
      OBVIOUS
    <3> QED  BY <2>1, <2>3, <3>1 DEF CloseStream, DispatchTypeOK
  <2>4. CASE UNCHANGED buf
    BY <2>4 DEF DispatchTypeOK
  <2> QED  BY <2>2, <2>3, <2>4 DEF Subscribe, Unlist
<1>4. DispatchTypeOK'
  BY <1>1, <1>2, <1>3 DEF DispatchTypeOK
<1>5. ChannelOK' /\ WorkersOK' /\ DeliveriesOK'
  BY <1>1 DEF ChannelOK, WorkersOK, DeliveriesOK, Untouched, Awaited
<1>6. Attempts' /\ Counts' /\ Shutdown'
  BY <1>1 DEF Attempts, Counts, Shutdown, DoneAt, OkAt
<1> QED  BY <1>4, <1>5, <1>6

----------------------------------------------------------------------------
(* The workers. *)

(* A worker takes an event: it leaves the channel and nobody else has it.  *)
LEMMA TakeStep ==
  ASSUME DispatchIInv, NEW w \in Workers, worker[w].pc = "range", ch # <<>>,
         worker' = [worker EXCEPT ![w] = [@ EXCEPT !.pc = "snapshot", !.ev = Head(ch)]],
         ch' = Tail(ch),
         UNCHANGED <<emit, closed, sinkVars, streams, stop, dead>>
  PROVE  DispatchIInv'
<1> USE DEF DispatchIInv
<1> DEFINE e == Head(ch)
<1>1. /\ e \in Events /\ e = ch[1] /\ Len(ch) \in Nat \ {0} /\ 1 \in 1..Len(ch)
      /\ ch' \in Seq(Events) /\ Len(ch') = Len(ch) - 1
      /\ \A i \in 1..Len(ch') : i + 1 \in 1..Len(ch) /\ ch'[i] = ch[i + 1] /\ i + 1 # 1
  BY TakeFacts DEF DispatchTypeOK
<1> HIDE DEF e
<1>2. UNCHANGED <<emit, closed, delivery, stats, received, subs, sub, buf, stop, dead, reachable>>
  BY DEF sinkVars, streams
<1>3. /\ worker'[w] \in Worker /\ worker'[w].pc = "snapshot" /\ worker'[w].ev = e
      /\ worker[w].ev = NoEvent
      /\ \A v \in Workers \ {w} : worker'[v] = worker[v]
      /\ worker' \in [Workers -> Worker]
  <2>1. worker[w] \in Worker /\ worker \in [Workers -> Worker]
    BY DEF DispatchTypeOK
  <2>2. worker' = [worker EXCEPT ![w] = [worker[w] EXCEPT !.pc = "snapshot", !.ev = e]]
    BY DEF e
  <2>3. [worker[w] EXCEPT !.pc = "snapshot", !.ev = e] \in Worker
    BY <1>1, <2>1 DEF Worker
  <2>4. [worker[w] EXCEPT !.pc = "snapshot", !.ev = e].pc = "snapshot"
        /\ [worker[w] EXCEPT !.pc = "snapshot", !.ev = e].ev = e
    BY <2>1 DEF Worker
  <2> QED  BY <2>1, <2>2, <2>3, <2>4 DEF WorkersOK
<1>4. DispatchTypeOK'
  BY <1>1, <1>2, <1>3, DispatcherConstants DEF DispatchTypeOK
<1>5. Untouched(e) /\ \A v \in Workers : worker[v].ev # e
  BY <1>1 DEF ChannelOK
<1>6. \A d : Untouched(d) => Untouched(d)'
  BY <1>2 DEF Untouched
<1>7. ChannelOK'
  <2>1. \A i, j \in 1..Len(ch') : ch'[i] = ch'[j] => i = j
    BY <1>1 DEF ChannelOK
  <2>2. ASSUME NEW i \in 1..Len(ch')
        PROVE  (Untouched(ch[i]) /\ \A v \in Workers : worker[v].ev # ch[i])'
    <3>1. Untouched(ch[i + 1]) /\ (\A v \in Workers : worker[v].ev # ch[i + 1]) /\ ch[i + 1] # e
      BY <1>1 DEF ChannelOK
    <3> QED  BY <1>1, <1>2, <1>3, <3>1 DEF Untouched
  <2> QED  BY <2>1, <2>2 DEF ChannelOK
<1>8. WorkersOK'
  <2>1. \A v \in Workers : (/\ worker[v].pc \in {"range", "exited"} <=> worker[v].ev = NoEvent
                            /\ worker[v].ev # NoEvent => emit[worker[v].ev] = "queued"
                            /\ worker[v].pc \in {"snapshot", "notify"} => Untouched(worker[v].ev))'
    BY <1>1, <1>2, <1>3, <1>5, DispatcherConstants DEF WorkersOK, Untouched
  <2>2. \A u, v \in Workers : (worker[u].ev = worker[v].ev /\ worker[u].ev # NoEvent => u = v)'
    BY <1>3, <1>5 DEF WorkersOK
  <2> QED  BY <2>1, <2>2 DEF WorkersOK
<1>9. DeliveriesOK'
  <2>1. \A d \in Events : Awaited(d) => Awaited(d)'
    BY <1>3 DEF Awaited
  <2> QED  BY <1>2, <2>1 DEF DeliveriesOK
<1>10. Attempts' /\ Counts'
  BY <1>2 DEF Attempts, Counts, DoneAt, OkAt
<1>11. Shutdown'
  <2>1. \A v \in Workers : worker[v].pc # "exited" /\ worker'[v].pc # "exited"
    BY <1>3 DEF Shutdown
  <2> QED  BY <1>2, <2>1 DEF Shutdown
<1> QED  BY <1>4, <1>7, <1>8, <1>9, <1>10, <1>11

(* A worker that keeps its event, or that has none before and after, and   *)
(* starts no delivery.                                                     *)
LEMMA WorkerKept ==
  ASSUME DispatchIInv, DispatchTypeOK', NEW w \in Workers,
         UNCHANGED <<emit, ch, closed, delivery, stats, received, stop, reachable>>,
         \A v \in Workers \ {w} : worker'[v] = worker[v],
         worker'[w].ev = worker[w].ev,
         \/ worker[w].pc = "range" /\ worker'[w].pc = "exited" /\ AtEnd
         \/ worker[w].pc \in {"snapshot", "notify"} /\ worker'[w].pc = "notify"
  PROVE  DispatchIInv'
<1> USE DEF DispatchIInv
<1>1. ChannelOK'
  BY DEF ChannelOK, Untouched
<1>2. WorkersOK'
  BY DEF WorkersOK, Untouched
<1>3. DeliveriesOK'
  <2>1. \A d \in Events : Awaited(d) => Awaited(d)'
    BY DEF Awaited
  <2> QED  BY <2>1 DEF DeliveriesOK
<1>4. Attempts' /\ Counts'
  BY DEF Attempts, Counts, DoneAt, OkAt
<1>5. Shutdown'
  BY DEF Shutdown, AtEnd
<1> QED  BY <1>1, <1>2, <1>3, <1>4, <1>5

LEMMA RangeStep ==
  ASSUME DispatchIInv, NEW w \in Workers, RangeChannel(w)
  PROVE  DispatchIInv'
<1>1. CASE ch # <<>> /\ ch' = Tail(ch) /\
           worker' = [worker EXCEPT ![w] = [@ EXCEPT !.pc = "snapshot", !.ev = Head(ch)]]
  BY <1>1, TakeStep DEF RangeChannel
<1>2. CASE AtEnd /\ worker' = [worker EXCEPT ![w].pc = "exited"] /\ UNCHANGED ch
  <2>1. worker[w] \in Worker /\ worker \in [Workers -> Worker]
    BY DEF DispatchIInv, DispatchTypeOK
  <2>2. UNCHANGED <<emit, ch, closed, delivery, stats, received,
                    subs, sub, buf, stop, dead, reachable>>
    BY <1>2 DEF RangeChannel, sinkVars, streams
  <2>3. /\ worker' \in [Workers -> Worker]
        /\ \A v \in Workers \ {w} : worker'[v] = worker[v]
        /\ worker'[w].ev = worker[w].ev /\ worker'[w].pc = "exited"
    BY <1>2, <2>1 DEF Worker
  <2>4. DispatchTypeOK'
    BY <2>2, <2>3 DEF DispatchIInv, DispatchTypeOK
  <2> QED  BY <1>2, <2>2, <2>3, <2>4, WorkerKept DEF RangeChannel
<1> QED  BY <1>1, <1>2 DEF RangeChannel

LEMMA SnapshotStep ==
  ASSUME DispatchIInv, NEW w \in Workers, Snapshot(w)
  PROVE  DispatchIInv'
<1>1. worker[w] \in Worker /\ worker \in [Workers -> Worker] /\ subs \in SUBSET Subscribers
  BY DEF DispatchIInv, DispatchTypeOK
<1>2. UNCHANGED <<emit, ch, closed, delivery, stats, received,
                  subs, sub, buf, stop, dead, reachable>>
  BY DEF Snapshot, sinkVars, streams
<1>3. /\ worker' \in [Workers -> Worker]
      /\ \A v \in Workers \ {w} : worker'[v] = worker[v]
      /\ worker'[w].ev = worker[w].ev /\ worker'[w].pc = "notify"
  <2> DEFINE n == [worker[w] EXCEPT !.pc = "notify", !.snap = subs]
  <2>1. n \in Worker /\ n.ev = worker[w].ev /\ n.pc = "notify"
    BY <1>1 DEF Worker
  <2>2. worker' = [worker EXCEPT ![w] = n]
    BY DEF Snapshot
  <2> HIDE DEF n
  <2> QED  BY <1>1, <2>1, <2>2
<1>4. DispatchTypeOK'
  BY <1>2, <1>3 DEF DispatchIInv, DispatchTypeOK
<1> QED  BY <1>2, <1>3, <1>4, WorkerKept DEF Snapshot

LEMMA NotifyStep ==
  ASSUME DispatchIInv, NEW w \in Workers, NEW c \in Subscribers, Notify(w, c)
  PROVE  DispatchIInv'
<1>1. worker[w] \in Worker /\ worker \in [Workers -> Worker] /\ worker[w].ev \in Events
  BY EntryType DEF DispatchIInv, DispatchTypeOK, WorkersOK, Notify, Worker
<1>2. UNCHANGED <<emit, ch, closed, delivery, stats, received, subs, sub, stop, reachable>>
  BY DEF Notify, sinkVars
<1>3. /\ worker' \in [Workers -> Worker]
      /\ \A v \in Workers \ {w} : worker'[v] = worker[v]
      /\ worker'[w].ev = worker[w].ev /\ worker'[w].pc = worker[w].pc
  <2> DEFINE n == [worker[w] EXCEPT !.snap = worker[w].snap \ {c}]
  <2>1. n \in Worker /\ n.ev = worker[w].ev /\ n.pc = worker[w].pc
    BY <1>1 DEF Worker
  <2>2. worker' = [worker EXCEPT ![w] = n]
    BY <1>1 DEF Notify
  <2> HIDE DEF n
  <2> QED  BY <1>1, <2>1, <2>2
<1>4. /\ buf' \in [Subscribers -> Seq(Events)]
      /\ \A b \in Subscribers : Len(buf'[b]) <= SubBuffer
  <2>1. /\ buf[c] \in Seq(Events) /\ SubBuffer \in Nat
        /\ buf \in [Subscribers -> Seq(Events)]
        /\ \A b \in Subscribers : Len(buf[b]) <= SubBuffer
    BY DispatcherConstants DEF DispatchIInv, DispatchTypeOK
  <2>2. CASE UNCHANGED buf
    BY <2>1, <2>2
  <2>3. CASE Len(buf[c]) < SubBuffer /\ buf' = [buf EXCEPT ![c] = Append(@, worker[w].ev)]
    <3> DEFINE q == Append(buf[c], worker[w].ev)
    <3>1. q \in Seq(Events) /\ Len(q) = Len(buf[c]) + 1 /\ Len(buf[c]) \in Nat
      BY <1>1, <2>1, SendFacts
    <3>2. buf' = [buf EXCEPT ![c] = q]
      BY <2>3
    <3> HIDE DEF q
    <3> QED  BY <2>1, <2>3, <3>1, <3>2
  <2> QED  BY <2>2, <2>3 DEF Notify
<1>5. dead' \in BOOLEAN
  BY DEF Notify
<1>6. DispatchTypeOK'
  BY <1>2, <1>3, <1>4, <1>5 DEF DispatchIInv, DispatchTypeOK
<1> QED  BY <1>2, <1>3, <1>6, WorkerKept DEF Notify

(* The goroutines of a worker's event are started. *)
LEMMA LoadStep ==
  ASSUME DispatchIInv, NEW w \in Workers, NEW A \in SUBSET Sinks, LoadSinks(w, A)
  PROVE  DispatchIInv'
<1> USE DEF DispatchIInv
<1>0. PICK e \in Events : e = worker[w].ev
  BY EntryType DEF WorkersOK, LoadSinks, Worker
<1>1. /\ worker[w] \in Worker /\ worker \in [Workers -> Worker]
      /\ Untouched(e) /\ worker[w].pc = "notify"
  BY <1>0, EntryType DEF DispatchTypeOK, WorkersOK, LoadSinks
<1>2. UNCHANGED <<emit, ch, closed, stats, received, subs, sub, buf, stop, dead, reachable>>
  BY DEF LoadSinks, streams
<1>3. /\ worker' \in [Workers -> Worker]
      /\ \A v \in Workers \ {w} : worker'[v] = worker[v]
      /\ \/ A = {} /\ worker'[w] = IdleWorker
         \/ A # {} /\ worker'[w].pc = "wait" /\ worker'[w].ev = e
  <2> DEFINE n == [worker[w] EXCEPT !.pc = "wait"]
  <2>1. n \in Worker /\ n.ev = e /\ n.pc = "wait"
    BY <1>0, <1>1 DEF Worker
  <2>2. worker' = [worker EXCEPT ![w] = IF A = {} THEN IdleWorker ELSE n]
    BY DEF LoadSinks
  <2> HIDE DEF n
  <2> QED  BY <1>1, <2>1, <2>2, LocalsType
<1>4. /\ delivery' \in [Events -> [Sinks -> Delivery]]
      /\ \A f \in Events \ {e} : delivery'[f] = delivery[f]
      /\ \A s \in Sinks : delivery'[e][s] = IF s \in A THEN NewDelivery ELSE delivery[e][s]
  <2> DEFINE g == [s \in Sinks |-> IF s \in A THEN NewDelivery ELSE delivery[e][s]]
  <2>1. delivery \in [Events -> [Sinks -> Delivery]]
    BY DEF DispatchTypeOK
  <2>2. g \in [Sinks -> Delivery]
    BY <1>1, <2>1, LocalsType
  <2>3. delivery' = [delivery EXCEPT ![e] = g]
    BY <1>0, <1>1, <2>1 DEF LoadSinks
  <2>4. delivery'[e] = g
    BY <1>1, <2>1, <2>3
  <2>5. \A s \in Sinks : g[s] = IF s \in A THEN NewDelivery ELSE delivery[e][s]
    OBVIOUS
  <2> HIDE DEF g
  <2> QED  BY <1>1, <2>1, <2>2, <2>3, <2>4, <2>5
<1>5. DispatchTypeOK'
  BY <1>2, <1>3, <1>4 DEF DispatchTypeOK
<1>6. \A v \in Workers \ {w} : worker[v].ev # e
  BY <1>0, DispatcherConstants DEF WorkersOK
<1>7. \A f \in Events \ {e} : Untouched(f) => Untouched(f)'
  BY <1>2, <1>4 DEF Untouched
<1>8. ChannelOK'
  <2>1. \A i \in 1..Len(ch) : ch[i] \in Events \ {e}
    <3>1. \A i \in 1..Len(ch) : ch[i] \in Events
      BY DEF DispatchTypeOK
    <3>2. \A i \in 1..Len(ch) : ch[i] # e
      BY <1>0 DEF ChannelOK
    <3> QED  BY <3>1, <3>2
  <2>2. \A i \in 1..Len(ch), v \in Workers : worker'[v].ev # ch[i]
    BY <1>3, <2>1, LocalsType, DispatcherConstants DEF ChannelOK
  <2> QED  BY <1>2, <1>7, <2>1, <2>2 DEF ChannelOK
<1>9. WorkersOK'
  <2>1. \A v \in Workers \ {w} : worker[v].pc \in {"snapshot", "notify"} =>
                                   worker[v].ev \in Events \ {e}
    BY <1>6, EntryType DEF WorkersOK, Worker
  <2>2. \A v \in Workers : (/\ worker[v].pc \in {"range", "exited"} <=> worker[v].ev = NoEvent
                            /\ worker[v].ev # NoEvent => emit[worker[v].ev] = "queued"
                            /\ worker[v].pc \in {"snapshot", "notify"} => Untouched(worker[v].ev))'
    <3> SUFFICES ASSUME NEW v \in Workers
                 PROVE  (/\ worker[v].pc \in {"range", "exited"} <=> worker[v].ev = NoEvent
                         /\ worker[v].ev # NoEvent => emit[worker[v].ev] = "queued"
                         /\ worker[v].pc \in {"snapshot", "notify"} => Untouched(worker[v].ev))'
      OBVIOUS
    <3>1. CASE v = w
      BY <1>1, <1>2, <1>3, <3>1, LocalsType, DispatcherConstants DEF Untouched
    <3>2. CASE v # w
      <4>1. worker'[v] = worker[v]
        BY <1>3, <3>2
      <4>2. worker[v].pc \in {"snapshot", "notify"} =>
              worker[v].ev \in Events \ {e} /\ Untouched(worker[v].ev)
        BY <2>1, <3>2 DEF WorkersOK
      <4>3. worker'[v].pc \in {"snapshot", "notify"} => Untouched(worker[v].ev)'
        BY <1>2, <1>4, <4>1, <4>2 DEF Untouched
      <4> QED  BY <1>2, <4>1, <4>3 DEF WorkersOK
    <3> QED  BY <3>1, <3>2
  <2>3. \A u, v \in Workers : (worker[u].ev = worker[v].ev /\ worker[u].ev # NoEvent => u = v)'
    BY <1>3, <1>6, LocalsType DEF WorkersOK
  <2> QED  BY <2>2, <2>3 DEF WorkersOK
<1>10. DeliveriesOK'
  <2>1. \A f \in Events \ {e} : Awaited(f) => Awaited(f)'
    BY <1>0, <1>1, <1>3 DEF Awaited
  <2>2. A # {} => Awaited(e)'
    BY <1>3 DEF Awaited
  <2>3. \A s \in Sinks : delivery'[e][s].pc # "none" => A # {} /\ emit'[e] = "queued"
    BY <1>1, <1>2, <1>4 DEF Untouched
  <2>4. ASSUME NEW f \in Events, NEW s \in Sinks
        PROVE  (/\ delivery[f][s].pc \notin {"none", "done"} => Awaited(f)
                /\ delivery[f][s].pc # "none" => emit[f] = "queued")'
    <3>1. CASE f = e
      <4>1. /\ delivery'[f][s].pc # "none" => A # {} /\ emit'[f] = "queued"
            /\ A # {} => Awaited(f)'
        BY <2>2, <2>3, <3>1 DEF Awaited
      <4> QED  BY <4>1
    <3>2. CASE f # e
      BY <1>2, <1>4, <2>1, <3>2 DEF DeliveriesOK
    <3> QED  BY <3>1, <3>2
  <2> QED  BY <2>4 DEF DeliveriesOK
<1>11. Attempts'
  <2>1. AttemptOK(NewDelivery, 0)
    BY LocalsType DEF AttemptOK
  <2>2. \A s \in Sinks : received[e][s] = 0
    BY <1>1 DEF Attempts, AttemptOK, Untouched
  <2>3. ASSUME NEW f \in Events, NEW s \in Sinks PROVE AttemptOK(delivery'[f][s], received'[f][s])
    <3>1. AttemptOK(delivery[f][s], received[f][s])
      BY DEF Attempts
    <3>2. delivery'[f][s] = delivery[f][s] \/ (delivery'[f][s] = NewDelivery /\ f = e)
      BY <1>4
    <3> QED  BY <1>2, <2>1, <2>2, <3>1, <3>2
  <2> QED  BY <2>3 DEF Attempts, AttemptOK
<1>12. Counts'
  <2>1. \A f \in Events, s \in Sinks :
          delivery'[f][s].pc = "done" <=> delivery[f][s].pc = "done"
    BY <1>1, <1>4, LocalsType DEF Untouched
  <2>2. \A f \in Events, s \in Sinks :
          delivery'[f][s].pc = "done" => delivery'[f][s] = delivery[f][s]
    BY <1>1, <1>4, LocalsType DEF Untouched
  <2>3. \A s \in Sinks : DoneAt(s)' = DoneAt(s) /\ OkAt(s)' = OkAt(s)
    BY <2>1, <2>2 DEF DoneAt, OkAt
  <2> QED  BY <1>2, <2>3 DEF Counts
<1>13. Shutdown'
  BY <1>1, <1>2, <1>3, LocalsType DEF Shutdown
<1> QED  BY <1>5, <1>8, <1>9, <1>10, <1>11, <1>12, <1>13

(* The goroutines of a worker's event are done. *)
LEMMA WaitStep ==
  ASSUME DispatchIInv, NEW w \in Workers, Wait(w)
  PROVE  DispatchIInv'
<1> USE DEF DispatchIInv
<1>1. /\ UNCHANGED <<emit, ch, closed, delivery, stats, received,
                     subs, sub, buf, stop, dead, reachable>>
      /\ worker[w].pc = "wait" /\ Delivered(worker[w].ev)
  BY DEF Wait, sinkVars, streams
<1>2. /\ worker' \in [Workers -> Worker]
      /\ worker'[w] = IdleWorker
      /\ \A v \in Workers \ {w} : worker'[v] = worker[v]
  BY LocalsType DEF Wait, DispatchTypeOK
<1>3. DispatchTypeOK'
  BY <1>1, <1>2 DEF DispatchTypeOK
<1>4. ChannelOK'
  <2>1. \A i \in 1..Len(ch) : ch[i] \in Events
    BY DEF DispatchTypeOK
  <2> QED  BY <1>1, <1>2, <2>1, LocalsType, DispatcherConstants DEF ChannelOK, Untouched
<1>5. WorkersOK'
  BY <1>1, <1>2, LocalsType DEF WorkersOK, Untouched
<1>6. DeliveriesOK'
  <2>1. \A f \in Events, s \in Sinks : delivery[f][s].pc \notin {"none", "done"} => worker[w].ev # f
    BY <1>1 DEF Delivered
  <2>2. \A f \in Events : Awaited(f) /\ worker[w].ev # f => Awaited(f)'
    BY <1>2 DEF Awaited
  <2> QED  BY <1>1, <2>1, <2>2 DEF DeliveriesOK
<1>7. Attempts' /\ Counts'
  BY <1>1 DEF Attempts, Counts, DoneAt, OkAt
<1>8. Shutdown'
  BY <1>1, <1>2, LocalsType DEF Shutdown
<1> QED  BY <1>3, <1>4, <1>5, <1>6, <1>7, <1>8

----------------------------------------------------------------------------
(* The goroutines of deliverWithRetry. *)

(* What a step of one of them leaves as it is.  The counts are its own     *)
(* business.                                                               *)
LEMMA DeliveryKept ==
  ASSUME DispatchIInv, NEW e \in Events, NEW s \in Sinks, NEW d \in Delivery,
         delivery[e][s].pc \notin {"none", "done"}, d.pc # "none",
         SetDelivery(e, s, d),
         UNCHANGED <<emit, ch, closed, worker, subs, sub, buf, stop, dead, reachable>>,
         stats' \in [Sinks -> [ok : Nat, failed : Nat, lost : Nat]],
         received' \in [Events -> [Sinks -> Nat]],
         \A f \in Events, t \in Sinks :
           received'[f][t] = received[f][t] \/ (f = e /\ t = s),
         AttemptOK(d, received'[e][s])
  PROVE  /\ \A f \in Events, t \in Sinks :
              delivery'[f][t] = IF f = e /\ t = s THEN d ELSE delivery[f][t]
         /\ Counts' => DispatchIInv'
<1> USE DEF DispatchIInv
<1>1. delivery \in [Events -> [Sinks -> Delivery]]
  BY DEF DispatchTypeOK
<1>2. delivery' \in [Events -> [Sinks -> Delivery]]
  BY <1>1 DEF SetDelivery
<1>3. \A f \in Events, t \in Sinks :
        delivery'[f][t] = IF f = e /\ t = s THEN d ELSE delivery[f][t]
  BY <1>1 DEF SetDelivery
<1>4. DispatchTypeOK'
  BY <1>2 DEF DispatchTypeOK
<1>5. ~Untouched(e) /\ \A f \in Events : Untouched(f) => Untouched(f)'
  BY <1>3 DEF Untouched
<1>6. ChannelOK'
  <2>1. \A i \in 1..Len(ch) : ch[i] \in Events
    BY DEF DispatchTypeOK
  <2> QED  BY <1>5, <2>1 DEF ChannelOK
<1>7. WorkersOK'
  <2>1. \A w \in Workers : worker[w].pc \in {"snapshot", "notify"} => worker[w].ev \in Events
    BY EntryType DEF WorkersOK, Worker
  <2> QED  BY <1>5, <2>1 DEF WorkersOK
<1>8. DeliveriesOK'
  <2>1. \A f \in Events : Awaited(f) => Awaited(f)'
    BY DEF Awaited
  <2> QED  BY <1>3, <2>1 DEF DeliveriesOK
<1>9. Attempts'
  <2>1. ASSUME NEW f \in Events, NEW t \in Sinks PROVE AttemptOK(delivery'[f][t], received'[f][t])
    BY <1>3 DEF Attempts
  <2> QED  BY <2>1 DEF Attempts, AttemptOK
<1>10. Shutdown'
  BY DEF Shutdown
<1> QED  BY <1>3, <1>4, <1>6, <1>7, <1>8, <1>9, <1>10

(* A delivery that goes on is not counted yet. *)
LEMMA GoesOnUncounted ==
  ASSUME DispatchIInv, NEW e \in Events, NEW s \in Sinks, NEW d \in Delivery,
         delivery[e][s].pc # "done", d.pc # "done", UNCHANGED stats,
         \A f \in Events, t \in Sinks :
           delivery'[f][t] = IF f = e /\ t = s THEN d ELSE delivery[f][t]
  PROVE  Counts'
<1>1. \A t \in Sinks : DoneAt(t)' = DoneAt(t)
  BY DEF DoneAt
<1>2. \A t \in Sinks : OkAt(t)' = OkAt(t)
  <2>1. \A t \in Sinks : \A f \in DoneAt(t) : f \in Events /\ delivery'[f][t] = delivery[f][t]
    BY DEF DoneAt
  <2> QED  BY <1>1, <2>1 DEF OkAt
<1> QED  BY <1>1, <1>2 DEF DispatchIInv, Counts

LEMMA BuildStep ==
  ASSUME DispatchIInv, NEW e \in Events, NEW s \in Sinks, BuildSink(e, s) \/ ConnectMQTT(e, s)
  PROVE  DispatchIInv'
<1>1. UNCHANGED <<emit, ch, closed, worker, stats, received,
                  subs, sub, buf, stop, dead, reachable>>
  BY DEF BuildSink, ConnectMQTT, streams
<1>2. 0 \in 0..MaxRetries /\ 1 \in 0..MaxRetries
  BY DispatcherConstants
<1>3. received[e][s] = 0 /\ delivery[e][s].pc \in {"build", "connect"}
  BY DEF DispatchIInv, Attempts, AttemptOK, BuildSink, ConnectMQTT
<1>4. stats' \in [Sinks -> [ok : Nat, failed : Nat, lost : Nat]] /\ received' \in [Events -> [Sinks -> Nat]]
  BY <1>1 DEF DispatchIInv, DispatchTypeOK
<1>5. ASSUME NEW d \in Delivery, SetDelivery(e, s, d), d.pc \notin {"none", "done"},
             AttemptOK(d, 0)
      PROVE  DispatchIInv'
  <2>1. \A f \in Events, t \in Sinks : received'[f][t] = received[f][t]
    BY <1>1
  <2>2. AttemptOK(d, received'[e][s])
    BY <1>1, <1>3, <1>5
  <2>3. /\ \A f \in Events, t \in Sinks :
             delivery'[f][t] = IF f = e /\ t = s THEN d ELSE delivery[f][t]
        /\ Counts' => DispatchIInv'
    BY <1>1, <1>3, <1>4, <1>5, <2>1, <2>2, DeliveryKept
  <2>4. Counts'
    BY <1>1, <1>3, <1>5, <2>3, GoesOnUncounted
  <2> QED  BY <2>3, <2>4
<1>6. CASE SetDelivery(e, s, FirstAttempt)
  <2>1. FirstAttempt \in Delivery /\ FirstAttempt.pc = "send" /\ AttemptOK(FirstAttempt, 0)
    BY <1>2 DEF FirstAttempt, Delivery, AttemptOK
  <2> QED  BY <1>5, <1>6, <2>1
<1>7. CASE SetDelivery(e, s, [pc |-> "record", attempt |-> 0, ok |-> FALSE])
  <2> DEFINE d == [pc |-> "record", attempt |-> 0, ok |-> FALSE]
  <2>1. d \in Delivery /\ d.pc = "record" /\ AttemptOK(d, 0)
    BY <1>2 DEF Delivery, AttemptOK
  <2> HIDE DEF d
  <2> QED  BY <1>5, <1>7, <2>1 DEF d
<1>8. CASE SetDelivery(e, s, [NewDelivery EXCEPT !.pc = "connect"])
  <2> DEFINE d == [NewDelivery EXCEPT !.pc = "connect"]
  <2>1. d \in Delivery /\ d.pc = "connect" /\ AttemptOK(d, 0)
    BY <1>2 DEF NewDelivery, Delivery, AttemptOK
  <2> HIDE DEF d
  <2> QED  BY <1>5, <1>8, <2>1 DEF d
<1> QED  BY <1>6, <1>7, <1>8 DEF BuildSink, ConnectMQTT

LEMMA BrokerStep ==
  ASSUME DispatchIInv, NEW s \in MqttSinks, BrokerChange(s)
  PROVE  DispatchIInv'
<1> USE DEF DispatchIInv
<1>1. UNCHANGED <<emit, ch, closed, worker, delivery, stats, received, subs, sub, buf, stop, dead>>
  BY DEF BrokerChange, streams
<1>2. reachable' \subseteq MqttSinks
  BY DEF DispatchTypeOK, BrokerChange
<1>3. DispatchTypeOK'
  BY <1>1, <1>2 DEF DispatchTypeOK
<1>4. ChannelOK' /\ WorkersOK' /\ DeliveriesOK'
  BY <1>1 DEF ChannelOK, WorkersOK, DeliveriesOK, Untouched, Awaited
<1>5. Attempts' /\ Counts' /\ Shutdown'
  BY <1>1 DEF Attempts, Counts, DoneAt, OkAt, Shutdown
<1> QED  BY <1>3, <1>4, <1>5

LEMMA BackoffStep ==
  ASSUME DispatchIInv, NEW e \in Events, NEW s \in Sinks, Backoff(e, s)
  PROVE  DispatchIInv'
<1>1. UNCHANGED <<emit, ch, closed, worker, stats, received,
                  subs, sub, buf, stop, dead, reachable>>
  BY DEF Backoff, streams
<1>2. PICK d0 : d0 = delivery[e][s]
  OBVIOUS
<1>3. /\ d0 \in Delivery /\ received[e][s] \in Nat /\ MaxRetries \in Nat
      /\ AttemptOK(d0, received[e][s]) /\ d0.pc = "backoff"
  BY <1>2, EntryType, DispatcherConstants DEF DispatchIInv, Attempts, Backoff
<1>4. stats' \in [Sinks -> [ok : Nat, failed : Nat, lost : Nat]] /\ received' \in [Events -> [Sinks -> Nat]]
  BY <1>1 DEF DispatchIInv, DispatchTypeOK
<1> DEFINE d == [d0 EXCEPT !.pc = "send", !.attempt = d0.attempt + 1]
<1>5. d0.attempt \in Nat /\ d0.attempt + 1 \in 0..MaxRetries
  <2>1. d0.attempt \in 0..MaxRetries /\ d0.attempt < MaxRetries
    BY <1>3 DEF Delivery, AttemptOK
  <2> QED  BY <1>3, <2>1
<1>6. d \in Delivery /\ d.pc = "send" /\ d.attempt = d0.attempt + 1 /\ d.ok = d0.ok
  BY <1>3, <1>5 DEF Delivery
<1>7. AttemptOK(d, received[e][s])
  BY <1>3, <1>5, <1>6 DEF AttemptOK
<1>8. SetDelivery(e, s, d)
  BY <1>2 DEF Backoff
<1> HIDE DEF d
<1> QED  BY <1>1, <1>2, <1>3, <1>4, <1>6, <1>7, <1>8, DeliveryKept, GoesOnUncounted

LEMMA SendStep ==
  ASSUME DispatchIInv, NEW e \in Events, NEW s \in Sinks, Send(e, s)
  PROVE  DispatchIInv'
<1>1. UNCHANGED <<emit, ch, closed, worker, stats, subs, sub, buf, stop, dead, reachable>>
  BY DEF Send, streams
<1>2. PICK d0 : d0 = delivery[e][s]
  OBVIOUS
<1>3. PICK n : n = received[e][s]
  OBVIOUS
<1>4. d0 \in Delivery /\ n \in Nat /\ MaxRetries \in Nat /\ AttemptOK(d0, n) /\ d0.pc = "send"
  BY <1>2, <1>3, EntryType, DispatcherConstants DEF DispatchIInv, Attempts, Send
<1>5. d0.attempt \in 0..MaxRetries /\ d0.ok \in BOOLEAN
  BY <1>4 DEF Delivery
<1>6. PICK o \in SendOutcomes :
        /\ received' = [received EXCEPT ![e][s] = @ + o.n]
        /\ SetDelivery(e, s, IF o.ok THEN [delivery[e][s] EXCEPT !.pc = "record", !.ok = TRUE]
                                     ELSE AfterFailure(delivery[e][s]))
  BY DEF Send
<1>7. o.n \in {0, 1} /\ (o.ok => o.n = 1)
  BY DEF SendOutcomes
<1>8. /\ received' \in [Events -> [Sinks -> Nat]]
      /\ received'[e][s] = n + o.n
      /\ \A f \in Events, t \in Sinks :
           received'[f][t] = received[f][t] \/ (f = e /\ t = s)
  <2>1. received \in [Events -> [Sinks -> Nat]]
    BY DEF DispatchIInv, DispatchTypeOK
  <2> QED  BY <1>3, <1>6, <1>7, <2>1
<1>9. stats' \in [Sinks -> [ok : Nat, failed : Nat, lost : Nat]]
  BY <1>1 DEF DispatchIInv, DispatchTypeOK
<1>10. ASSUME NEW d \in Delivery, SetDelivery(e, s, d), d.pc \notin {"none", "done"},
              AttemptOK(d, n + o.n)
       PROVE  DispatchIInv'
  BY <1>1, <1>2, <1>4, <1>8, <1>9, <1>10, DeliveryKept, GoesOnUncounted
<1>11. CASE o.ok
  <2> DEFINE d == [d0 EXCEPT !.pc = "record", !.ok = TRUE]
  <2>1. d \in Delivery /\ d.pc = "record" /\ d.attempt = d0.attempt /\ d.ok
    BY <1>4 DEF Delivery
  <2>2. SetDelivery(e, s, d)
    BY <1>2, <1>6, <1>11
  <2> HIDE DEF d
  <2>3. AttemptOK(d, n + o.n)
    BY <1>4, <1>5, <1>7, <1>11, <2>1 DEF AttemptOK
  <2> QED  BY <1>10, <2>1, <2>2, <2>3
<1>12. CASE ~o.ok
  <2>1. SetDelivery(e, s, AfterFailure(d0))
    BY <1>2, <1>6, <1>12
  <2>2. CASE d0.attempt < MaxRetries
    <3> DEFINE d == [d0 EXCEPT !.pc = "backoff"]
    <3>1. d \in Delivery /\ d.pc = "backoff" /\ d.attempt = d0.attempt /\ d.ok = d0.ok
      BY <1>4 DEF Delivery
    <3>2. SetDelivery(e, s, d)
      BY <2>1, <2>2 DEF AfterFailure
    <3> HIDE DEF d
    <3>3. AttemptOK(d, n + o.n)
      BY <1>4, <1>5, <1>7, <2>2, <3>1 DEF AttemptOK
    <3> QED  BY <1>10, <3>1, <3>2, <3>3
  <2>3. CASE ~(d0.attempt < MaxRetries)
    <3> DEFINE d == [d0 EXCEPT !.pc = "record"]
    <3>1. d \in Delivery /\ d.pc = "record" /\ d.attempt = d0.attempt /\ d.ok = d0.ok
      BY <1>4 DEF Delivery
    <3>2. SetDelivery(e, s, d)
      BY <2>1, <2>3 DEF AfterFailure
    <3> HIDE DEF d
    <3>3. AttemptOK(d, n + o.n)
      BY <1>4, <1>5, <1>7, <3>1 DEF AttemptOK
    <3> QED  BY <1>10, <3>1, <3>2, <3>3
  <2> QED  BY <2>2, <2>3
<1> QED  BY <1>11, <1>12

(* The verdict is counted when the delivery is done. *)
LEMMA RecordStep ==
  ASSUME DispatchIInv, NEW e \in Events, NEW s \in Sinks, RecordStats(e, s)
  PROVE  DispatchIInv'
<1>1. UNCHANGED <<emit, ch, closed, worker, received, subs, sub, buf, stop, dead, reachable>>
  BY DEF RecordStats, streams
<1>2. PICK d0 : d0 = delivery[e][s]
  OBVIOUS
<1>3. /\ d0 \in Delivery /\ AttemptOK(d0, received[e][s]) /\ d0.pc = "record"
      /\ d0.ok \in BOOLEAN
  BY <1>2, EntryType DEF DispatchIInv, Attempts, RecordStats, Delivery
<1> DEFINE d == [d0 EXCEPT !.pc = "done"]
<1>4. d \in Delivery /\ d.pc = "done" /\ d.attempt = d0.attempt /\ d.ok = d0.ok
  BY <1>3 DEF Delivery
<1>5. AttemptOK(d, received[e][s])
  BY <1>3, <1>4 DEF AttemptOK
<1>6. SetDelivery(e, s, d)
  BY <1>2 DEF RecordStats
<1> HIDE DEF d
<1>7. received' \in [Events -> [Sinks -> Nat]]
  BY <1>1 DEF DispatchIInv, DispatchTypeOK
<1>8. /\ stats[s].ok \in Nat /\ stats[s].failed \in Nat /\ stats[s].lost \in Nat
      /\ stats' \in [Sinks -> [ok : Nat, failed : Nat, lost : Nat]]
      /\ \A t \in Sinks \ {s} : stats'[t] = stats[t]
      /\ \/ /\ d0.ok
            /\ stats'[s].ok = stats[s].ok + 1
            /\ stats'[s].failed = stats[s].failed /\ stats'[s].lost = stats[s].lost
         \/ /\ stats'[s].ok = stats[s].ok
            /\ stats'[s].failed = stats[s].failed + 1 /\ stats'[s].lost = stats[s].lost
         \/ /\ stats'[s].ok = stats[s].ok
            /\ stats'[s].failed = stats[s].failed /\ stats'[s].lost = stats[s].lost + 1
  <2>1. stats \in [Sinks -> [ok : Nat, failed : Nat, lost : Nat]]
    BY DEF DispatchIInv, DispatchTypeOK
  <2>2. CASE d0.ok /\ stats' = [stats EXCEPT ![s].ok = @ + 1]
    BY <2>1, <2>2
  <2>3. CASE stats' = [stats EXCEPT ![s].failed = @ + 1]
    BY <2>1, <2>3
  <2>4. CASE stats' = [stats EXCEPT ![s].lost = @ + 1]
    BY <2>1, <2>4
  <2> QED  BY <1>2, <2>2, <2>3, <2>4 DEF RecordStats
<1>9. /\ \A f \in Events, t \in Sinks :
            delivery'[f][t] = IF f = e /\ t = s THEN d ELSE delivery[f][t]
      /\ Counts' => DispatchIInv'
  BY <1>1, <1>2, <1>3, <1>4, <1>5, <1>6, <1>7, <1>8, DeliveryKept
<1>10. \A t \in Sinks \ {s} : DoneAt(t)' = DoneAt(t) /\ OkAt(t)' = OkAt(t)
  BY <1>9 DEF DoneAt, OkAt
<1>11. DoneAt(s)' = DoneAt(s) \cup {e} /\ e \notin DoneAt(s)
  BY <1>2, <1>3, <1>4, <1>9 DEF DoneAt
<1>12. OkAt(s)' = IF d0.ok THEN OkAt(s) \cup {e} ELSE OkAt(s)
  <2>1. \A f \in DoneAt(s) : f \in Events /\ f # e /\ delivery'[f][s] = delivery[f][s]
    BY <1>9, <1>11 DEF DoneAt
  <2>2. delivery'[e][s] = d
    BY <1>9
  <2>3. OkAt(s)' = {f \in DoneAt(s) \cup {e} : delivery'[f][s].ok}
    BY <1>11 DEF OkAt
  <2> QED  BY <1>4, <2>1, <2>2, <2>3 DEF OkAt
<1>13. e \notin OkAt(s)
  BY <1>11 DEF OkAt
<1>14. IsFiniteSet(DoneAt(s)) /\ IsFiniteSet(OkAt(s))
  <2>1. DoneAt(s) \in SUBSET Events /\ OkAt(s) \in SUBSET Events
    BY DEF DoneAt, OkAt
  <2> QED  BY <2>1, FS_Subset, DispatcherConstants
<1>15. /\ Cardinality(DoneAt(s)) \in Nat /\ Cardinality(OkAt(s)) \in Nat
       /\ Cardinality(DoneAt(s))' = Cardinality(DoneAt(s)) + 1
  BY <1>11, <1>14, FS_CardinalityType, FS_AddElement
<1>16. Cardinality(OkAt(s))' = IF d0.ok THEN Cardinality(OkAt(s)) + 1 ELSE Cardinality(OkAt(s))
  BY <1>12, <1>13, <1>14, FS_AddElement
<1>17. Counts'
  <2>1. /\ stats[s].ok + stats[s].failed + stats[s].lost = Cardinality(DoneAt(s))
        /\ stats[s].ok <= Cardinality(OkAt(s))
    BY DEF DispatchIInv, Counts
  <2>2. (/\ stats[s].ok + stats[s].failed + stats[s].lost = Cardinality(DoneAt(s))
         /\ stats[s].ok <= Cardinality(OkAt(s)))'
    BY <1>8, <1>15, <1>16, <2>1
  <2>3. ASSUME NEW t \in Sinks \ {s}
        PROVE  (/\ stats[t].ok + stats[t].failed + stats[t].lost = Cardinality(DoneAt(t))
                /\ stats[t].ok <= Cardinality(OkAt(t)))'
    BY <1>8, <1>10 DEF DispatchIInv, Counts
  <2> QED  BY <2>2, <2>3 DEF Counts
<1> QED  BY <1>9, <1>17

LEMMA StopStep ==
  ASSUME DispatchIInv, StopClose \/ StopReturn
  PROVE  DispatchIInv'
<1> USE DEF DispatchIInv
<1>1. UNCHANGED <<emit, ch, worker, delivery, stats, received, subs, sub, buf, dead, reachable>>
  BY DEF StopClose, StopReturn, sinkVars, streams
<1>2. DispatchTypeOK'
  BY <1>1 DEF DispatchTypeOK, StopClose, StopReturn
<1>3. ChannelOK' /\ WorkersOK' /\ DeliveriesOK'
  BY <1>1 DEF ChannelOK, WorkersOK, DeliveriesOK, Untouched, Awaited
<1>4. Attempts' /\ Counts'
  BY <1>1 DEF Attempts, Counts, DoneAt, OkAt
<1>5. Shutdown'
  BY <1>1 DEF Shutdown, StopClose, StopReturn
<1> QED  BY <1>2, <1>3, <1>4, <1>5

LEMMA DispatchInductive == DispatchIInv /\ [DispatchNext]_dispatchVars => DispatchIInv'
<1> SUFFICES ASSUME DispatchIInv, [DispatchNext]_dispatchVars PROVE DispatchIInv'
  OBVIOUS
<1>1. ASSUME NEW e \in Events, RecordEvent(e) \/ Publish(e) PROVE DispatchIInv'
  BY <1>1, RecordEventStep, PublishStep
<1>2. ASSUME NEW c \in Subscribers, Subscribe(c) \/ Receive(c) \/ Unlist(c) \/ CloseStream(c)
      PROVE  DispatchIInv'
  BY <1>2, StreamStep
<1>3. ASSUME NEW w \in Workers, WorkerStep(w) PROVE DispatchIInv'
  BY <1>3, RangeStep, SnapshotStep, NotifyStep, LoadStep, WaitStep DEF WorkerStep
<1>4. ASSUME NEW e \in Events, NEW s \in Sinks, DeliveryStep(e, s) PROVE DispatchIInv'
  BY <1>4, BuildStep, SendStep, BackoffStep, RecordStep DEF DeliveryStep
<1>5. CASE StopClose \/ StopReturn
  BY <1>5, StopStep
<1>6. ASSUME NEW s \in MqttSinks, BrokerChange(s) PROVE DispatchIInv'
  BY <1>6, BrokerStep
<1>7. CASE UNCHANGED dispatchVars
  <2> USE <1>7 DEF dispatchVars, sinkVars, streams, DispatchIInv
  <2>1. DispatchTypeOK'
    BY DEF DispatchTypeOK
  <2>2. ChannelOK' /\ WorkersOK' /\ DeliveriesOK'
    BY DEF ChannelOK, WorkersOK, DeliveriesOK, Untouched, Awaited
  <2>3. Attempts' /\ Counts' /\ Shutdown'
    BY DEF Attempts, Counts, DoneAt, OkAt, Shutdown
  <2> QED  BY <2>1, <2>2, <2>3
<1> QED  BY <1>1, <1>2, <1>3, <1>4, <1>5, <1>6, <1>7 DEF DispatchNext

LEMMA DispatchInitial == DispatchInit => DispatchIInv
<1> SUFFICES ASSUME DispatchInit PROVE DispatchIInv
  OBVIOUS
<1> USE LocalsType DEF DispatchInit
<1>1. DispatchTypeOK
  <2>1. /\ emit \in [Events -> Emit] /\ ch \in Seq(Events) /\ Len(ch) = 0
        /\ worker \in [Workers -> Worker] /\ stop \in {"running", "waiting", "returned"}
        /\ sub \in [Subscribers -> {"new", "open", "unlisted", "closed"}]
    BY DEF Emit
  <2>2. /\ delivery \in [Events -> [Sinks -> Delivery]]
        /\ received \in [Events -> [Sinks -> Nat]]
        /\ stats \in [Sinks -> [ok : Nat, failed : Nat, lost : Nat]]
    OBVIOUS
  <2>3. buf \in [Subscribers -> Seq(Events)] /\ \A c \in Subscribers : Len(buf[c]) = 0
    OBVIOUS
  <2>4. /\ closed \in BOOLEAN /\ dead \in BOOLEAN /\ subs \subseteq Subscribers
        /\ reachable \subseteq MqttSinks
    OBVIOUS
  <2>5. Len(ch) <= Buffer /\ \A c \in Subscribers : Len(buf[c]) <= SubBuffer
    BY <2>1, <2>3, DispatcherConstants
  <2> QED  BY <2>1, <2>2, <2>3, <2>4, <2>5 DEF DispatchTypeOK
<1>2. ChannelOK /\ WorkersOK /\ Shutdown
  BY DEF ChannelOK, WorkersOK, Shutdown
<1>3. \A e \in Events, s \in Sinks : delivery[e][s] = NoDelivery /\ received[e][s] = 0
  OBVIOUS
<1>4. DeliveriesOK /\ Attempts
  BY <1>3 DEF DeliveriesOK, Attempts, AttemptOK, NoDelivery
<1>5. Counts
  <2>1. \A s \in Sinks : DoneAt(s) = {} /\ OkAt(s) = {}
    BY <1>3 DEF DoneAt, OkAt
  <2>2. \A s \in Sinks : stats[s].ok = 0 /\ stats[s].failed = 0 /\ stats[s].lost = 0
    OBVIOUS
  <2>3. \A s \in Sinks : Cardinality(DoneAt(s)) = 0 /\ Cardinality(OkAt(s)) = 0
    BY <2>1, FS_EmptySet
  <2> QED  BY <2>2, <2>3 DEF Counts
<1> QED  BY <1>1, <1>2, <1>4, <1>5 DEF DispatchIInv

(* The inductive invariant holds in every reachable state. *)
THEOREM DispatchInvariance == DispatchSpec => []DispatchIInv
BY DispatchInitial, DispatchInductive, PTL DEF DispatchSpec

(* The types of the dispatcher's state, and the capacities of the channel  *)
(* and of the streams' channels, for any number of workers and events.     *)
THEOREM DispatchTypeCorrect == DispatchSpec => []DispatchTypeOK
<1>1. DispatchIInv => DispatchTypeOK
  BY DEF DispatchIInv
<1> QED  BY <1>1, DispatchInvariance, PTL

(* When Stop returns the channel is empty and no delivery is under way,    *)
(* whatever was being published, retried or streamed when it was called.   *)
THEOREM StopHasDrained == DispatchSpec => []StopDrains
<1>1. DispatchIInv => StopDrains
  <2> SUFFICES ASSUME DispatchIInv, stop = "returned"
               PROVE  ch = <<>> /\ \A e \in Events : Delivered(e)
    BY DEF StopDrains
  <2>1. \A w \in Workers : worker[w].pc = "exited"
    BY DEF DispatchIInv, Shutdown
  <2>2. ch = <<>>
    BY <2>1, DispatcherConstants DEF DispatchIInv, Shutdown
  <2>3. \A e \in Events : ~Awaited(e)
    BY <2>1 DEF Awaited
  <2> QED  BY <2>2, <2>3 DEF DispatchIInv, DeliveriesOK, Delivered
<1> QED  BY <1>1, DispatchInvariance, PTL

(* Each delivery has one verdict and is counted once; a sink is credited   *)
(* with no more successes than events it received, receives an event at    *)
(* most MaxRetries times, and only events that entered the channel.        *)
THEOREM VerdictsAreSingle == DispatchSpec => []OneVerdict
<1>1. DispatchIInv => OneVerdict
  <2> SUFFICES ASSUME DispatchIInv, NEW s \in Sinks
               PROVE  /\ stats[s].ok + stats[s].failed + stats[s].lost =
                           Cardinality({e \in Events : delivery[e][s].pc = "done"})
                      /\ stats[s].ok <= Cardinality({e \in Events : received[e][s] > 0})
                      /\ \A e \in Events : /\ received[e][s] <= MaxRetries
                                           /\ received[e][s] > 0 => emit[e] = "queued"
    BY DEF OneVerdict
  <2> DEFINE R == {e \in Events : received[e][s] > 0}
  <2>1. stats[s].ok + stats[s].failed + stats[s].lost = Cardinality(DoneAt(s))
        /\ stats[s].ok <= Cardinality(OkAt(s)) /\ stats[s].ok \in Nat
    BY DEF DispatchIInv, Counts, DispatchTypeOK
  <2>2. OkAt(s) \in SUBSET R /\ R \in SUBSET Events
    BY DEF OkAt, DoneAt, DispatchIInv, Attempts, AttemptOK
  <2>3. IsFiniteSet(R)
    BY <2>2, FS_Subset, DispatcherConstants
  <2> HIDE DEF R
  <2>4. Cardinality(OkAt(s)) <= Cardinality(R) /\ Cardinality(R) \in Nat /\ Cardinality(OkAt(s)) \in Nat
    BY <2>2, <2>3, FS_Subset, FS_CardinalityType
  <2>5. stats[s].ok <= Cardinality(R)
    BY <2>1, <2>4
  <2>6. ASSUME NEW e \in Events
        PROVE  received[e][s] <= MaxRetries /\ (received[e][s] > 0 => emit[e] = "queued")
    <3>1. /\ delivery[e][s] \in Delivery /\ received[e][s] \in Nat /\ MaxRetries \in Nat
          /\ AttemptOK(delivery[e][s], received[e][s])
      BY EntryType, DispatcherConstants DEF DispatchIInv, Attempts
    <3>2. delivery[e][s].attempt \in 0..MaxRetries
          /\ delivery[e][s].pc \in {"none", "build", "connect", "send", "backoff", "record", "done"}
      BY <3>1 DEF Delivery
    <3>3. received[e][s] <= MaxRetries
      BY <3>1, <3>2 DEF AttemptOK
    <3>4. received[e][s] > 0 => delivery[e][s].pc # "none"
      BY <3>1 DEF AttemptOK
    <3> QED  BY <3>3, <3>4 DEF DispatchIInv, DeliveriesOK
  <2> QED  BY <2>1, <2>5, <2>6 DEF R, DoneAt
<1> QED  BY <1>1, DispatchInvariance, PTL
=============================================================================
