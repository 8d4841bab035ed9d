---------------------------- MODULE AuditSealing ----------------------------
(***************************************************************************)
(* Sealing the audit log of one organisation into a chain of signed Merkle *)
(* checkpoints.  Every replica runs RunAllOrgs, and an administrator may   *)
(* call SealProof on any of them at any time; nothing in the database      *)
(* keeps two of them apart.  One action is one SQL statement.              *)
(*                                                                         *)
(* Rows of audit_logs never change, so a batch is the set of the ids of    *)
(* its rows and the Merkle root of a batch is that set: the trees of two   *)
(* batches have equal roots only if the batches are equal.  The root that  *)
(* precedes the first checkpoint is "" in the code and {} here.            *)
(***************************************************************************)
EXTENDS Naturals, Sequences, FiniteSets

CONSTANTS
  Sealers,      \* calls of SealOrg that can be in flight at once
  Tickers,      \* those made by RunAllOrgs, one per replica; the others by SealProof
  BatchSize,    \* CheckpointSize, the rows of a full batch
  MaxId,        \* bound: ids drawn from the sequence of audit_logs
  MaxInFlight,  \* bound: INSERTs into audit_logs in flight at once
  MaxChain,     \* bound on the number of checkpoints
  MaxFail       \* bound on the number of calls that fail

ASSUME SealingConstants ==
  /\ Tickers \subseteq Sealers
  /\ BatchSize \in Nat \ {0}
  /\ MaxId \in Nat /\ MaxInFlight \in Nat /\ MaxChain \in Nat /\ MaxFail \in Nat

VARIABLES
  drawn,    \* ids drawn from the sequence so far
  flying,   \* ids of INSERTs that have not committed
  rows,     \* ids of the rows of audit_logs
  late,     \* rows that became visible after a higher id was read (history)
  chain,    \* audit_merkle_checkpoints in the order of their ids
  sealer,   \* the locals of each call
  failed    \* calls that failed so far (bound)

vars == <<drawn, flying, rows, late, chain, sealer, failed>>

log == <<drawn, flying, rows, late>>

Ids == 1..MaxId
Batches == SUBSET Ids
Checkpoint == [root : Batches, prev : Batches]

(* partial tells sealPartial from SealOrg. *)
Locals == [pc : {"idle", "latest", "fetch", "insert"}, partial : BOOLEAN,
           after : 0..MaxId, prevRoot : Batches, ids : Batches]

Idle == [pc |-> "idle", partial |-> FALSE, after |-> 0, prevRoot |-> {}, ids |-> {}]

(* The types, and that no checkpoint is empty. *)
TypeOK ==
  /\ drawn \in 0..MaxId
  /\ flying \subseteq 1..drawn
  /\ rows \subseteq 1..drawn
  /\ late \subseteq 1..drawn
  /\ chain \in Seq(Checkpoint)
  /\ \A n \in DOMAIN chain : chain[n].root # {}
  /\ sealer \in [Sealers -> Locals]
  /\ failed \in 0..MaxFail

Init ==
  /\ drawn = 0
  /\ flying = {}
  /\ rows = {}
  /\ late = {}
  /\ chain = <<>>
  /\ sealer = [s \in Sealers |-> Idle]
  /\ failed = 0

At(s, l) == sealer[s].pc = l
Become(s, q) == sealer' = [sealer EXCEPT ![s] = q]
Finish(s) == Become(s, Idle)

(* LastLogID of a batch; 0 while there is none. *)
LastLogID(ids) == IF ids = {} THEN 0 ELSE CHOOSE i \in ids : \A j \in ids : j <= i

Sealed == UNION {chain[n].root : n \in DOMAIN chain}

(***************************************************************************)
(* The audit log.  An INSERT draws its id when it runs and its row becomes *)
(* visible when it commits, so rows may appear out of order.               *)
(***************************************************************************)
NextVal ==
  /\ drawn < MaxId
  /\ Cardinality(flying) < MaxInFlight
  /\ drawn' = drawn + 1
  /\ flying' = flying \cup {drawn + 1}
  /\ UNCHANGED <<rows, late, chain, sealer, failed>>

(* A higher id was read already: by a checkpoint or by a sealer. *)
Overtaken(i) ==
  \/ \E j \in Sealed : i < j
  \/ \E s \in Sealers : i <= sealer[s].after \/ \E j \in sealer[s].ids : i < j

Commit(i) ==
  /\ i \in flying
  /\ flying' = flying \ {i}
  /\ rows' = rows \cup {i}
  /\ late' = IF Overtaken(i) THEN late \cup {i} ELSE late
  /\ UNCHANGED <<drawn, chain, sealer, failed>>

(* The INSERT fails; its id is not drawn again. *)
Rollback(i) ==
  /\ i \in flying
  /\ flying' = flying \ {i}
  /\ UNCHANGED <<drawn, rows, late, chain, sealer, failed>>

(* The retention worker.  created_at need not follow the ids. *)
DeleteExpiredEvents(expired) ==
  /\ expired \subseteq rows /\ expired # {}
  /\ rows' = rows \ expired
  /\ UNCHANGED <<drawn, flying, late, chain, sealer, failed>>

(***************************************************************************)
(* The sealer.                                                             *)
(***************************************************************************)

(* A tick of the worker: the organisation is found by its rows. *)
RunAllOrgs(s) ==
  /\ s \in Tickers /\ At(s, "idle")
  /\ rows # {}
  /\ Become(s, [Idle EXCEPT !.pc = "latest"])
  /\ UNCHANGED <<log, chain, failed>>

SealProof(s) ==
  /\ s \notin Tickers /\ At(s, "idle")
  /\ Become(s, [Idle EXCEPT !.pc = "latest"])
  /\ UNCHANGED <<log, chain, failed>>

LatestCheckpoint(s) ==
  LET last == IF chain = <<>> THEN {} ELSE chain[Len(chain)].root
  IN  /\ At(s, "latest")
      /\ Become(s, [sealer[s] EXCEPT !.pc = "fetch", !.after = LastLogID(last),
                                     !.prevRoot = last])
      /\ UNCHANGED <<log, chain, failed>>

(* ORDER BY id ASC LIMIT BatchSize. *)
Batch(after) ==
  {i \in rows : i > after /\ Cardinality({j \in rows : after < j /\ j <= i}) <= BatchSize}

(* Mutant: the worker stops when there is no full batch. *)
NextStageFullOnly(s, ids) ==
  \/ Cardinality(ids) = BatchSize /\ Become(s, [sealer[s] EXCEPT !.pc = "insert", !.ids = ids])
  \/ Cardinality(ids) < BatchSize /\ Finish(s)

(* SealOrg goes on while batches are full.  The worker then seals what is  *)
(* left of them, starting from the latest checkpoint again.                *)
NextStage(s, ids) ==
  LET full == IF sealer[s].partial THEN ids # {} ELSE Cardinality(ids) = BatchSize
      tail == s \in Tickers /\ ~sealer[s].partial
  IN  \/ full /\ Become(s, [sealer[s] EXCEPT !.pc = "insert", !.ids = ids])
      \/ /\ ~full /\ tail
         /\ Become(s, [Idle EXCEPT !.pc = "latest", !.partial = TRUE])
      \/ ~full /\ ~tail /\ Finish(s)

UnsealedAuditRows(s) ==
  /\ At(s, "fetch")
  /\ NextStage(s, Batch(sealer[s].after))
  /\ UNCHANGED <<log, chain, failed>>

(* Mutant: afterID stays what it was before the loop. *)
AdvanceNoId(q) == [q EXCEPT !.pc = "fetch", !.prevRoot = q.ids, !.ids = {}]

Advance(q) ==
  [q EXCEPT !.pc = "fetch", !.after = LastLogID(q.ids), !.prevRoot = q.ids, !.ids = {}]

InsertMerkleCheckpoint(s) ==
  /\ At(s, "insert")
  /\ Len(chain) < MaxChain
  /\ chain' = Append(chain, [root |-> sealer[s].ids, prev |-> sealer[s].prevRoot])
  /\ \/ sealer[s].partial /\ Finish(s)
     \/ ~sealer[s].partial /\ Become(s, Advance(sealer[s]))
  /\ UNCHANGED <<log, failed>>

(* A statement or the signature fails, or the replica stops. *)
Fail(s) ==
  /\ ~At(s, "idle")
  /\ failed < MaxFail
  /\ failed' = failed + 1
  /\ Finish(s)
  /\ UNCHANGED <<log, chain>>

Next ==
  \/ NextVal
  \/ \E i \in Ids : Commit(i) \/ Rollback(i)
  \/ \E expired \in SUBSET rows : DeleteExpiredEvents(expired)
  \/ \E s \in Sealers :
       \/ RunAllOrgs(s) \/ SealProof(s) \/ LatestCheckpoint(s) \/ UnsealedAuditRows(s)
       \/ InsertMerkleCheckpoint(s) \/ Fail(s)

Spec == Init /\ [][Next]_vars

(***************************************************************************)
(* Fairness.  A ticker never stops, and a call under way goes on until it  *)
(* returns.  Failures stop at some time: MaxFail.  Nothing is assumed of   *)
(* those that write to the log or call SealProof.                          *)
(***************************************************************************)
Step(s) == LatestCheckpoint(s) \/ UnsealedAuditRows(s) \/ InsertMerkleCheckpoint(s)

Fairness ==
  /\ \A s \in Tickers : WF_vars(RunAllOrgs(s))
  /\ \A s \in Sealers : WF_vars(Step(s))

FairSpec == Spec /\ Fairness

(***************************************************************************)
(* Properties.                                                             *)
(***************************************************************************)

(* Any number of calls overlap, each with the end of the chain as it was   *)
(* when it read it: the checkpoints then form branches, and along each of  *)
(* them they still cover the log in order.  A checkpoint continues {} or   *)
(* an earlier checkpoint, and all its rows are above all rows of that one, *)
(* so following prev_root backwards no row is met twice, across full and   *)
(* partial batches, retention and failures between any two statements.     *)
BranchesIntact ==
  \A n \in DOMAIN chain :
    /\ chain[n].prev = {} \/ \E m \in 1..(n - 1) : chain[n].prev = chain[m].root
    /\ \A i \in chain[n].prev, j \in chain[n].root : i < j

(* The sealer is "safe for concurrent callers" and avoids "double-sealing  *)
(* the same rows": prev_root of a checkpoint is the merkle_root of the one *)
(* before it, which is what VerifyChain demands, and no two checkpoints    *)
(* cover a row.  Two calls that read the same latest checkpoint violate    *)
(* both.                                                                   *)
ChainIntact ==
  /\ \A n \in DOMAIN chain :
       chain[n].prev = IF n = 1 THEN {} ELSE chain[n - 1].root
  /\ \A m, n \in DOMAIN chain : m # n => chain[m].root \cap chain[n].root = {}

(* "Recent audit rows are always anchored in the chain within one          *)
(* interval": every row is sealed eventually unless retention deletes it   *)
(* first.  The rows that commit after a higher id was read are excepted:   *)
(* UnsealedAuditRows asks for ids above last_log_id and never finds them.  *)
Anchored == \A i \in Ids : (i \in rows \ late) ~> (i \in Sealed \/ i \notin rows)
=============================================================================
