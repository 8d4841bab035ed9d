------------------------ MODULE MCCredentialStatus ------------------------
(***************************************************************************)
(* CredentialStatus in two small instances, told apart by part: two        *)
(* credentials and every kind of request, and three credentials, more than *)
(* a federated revocation takes, with one issuer, operators and partners.  *)
(* A part only restricts which requests arrive and which parents change.   *)
(* A quiet time allows no step that was not allowed before, so that no     *)
(* state of interest for safety is lost without it.                        *)
(***************************************************************************)
EXTENDS CredentialStatus

CONSTANTS c1, c2, c3, s1, s2, i1, i2, o1, p1, m1, v1

VARIABLE part  \* "two" or "three"

MCById == {}

MCInit ==
  /\ Init
  /\ \/ part = "two" /\ cred[c3].st = "none"
     \/ part = "three"

OnlyTwo == \A i \in Issuers : req'[i].cred # c3

FewRequests ==
  /\ \A r \in {i2} \cup Monitors \cup Verifiers : req'[r].pc = "idle"
  /\ UNCHANGED external

MCNext ==
  /\ Next
  /\ part = "two" => OnlyTwo
  /\ part = "three" => FewRequests
  /\ UNCHANGED <<part, quiet>>

MCSpec == MCInit /\ [][MCNext]_<<vars, part>>
=============================================================================
