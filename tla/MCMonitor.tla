----------------------------- MODULE MCMonitor -----------------------------
(***************************************************************************)
(* The monitor of CredentialStatus in two small instances, told apart by   *)
(* part: one dependent credential on which operators work too, and two     *)
(* that compete for the passes.  A part only restricts which requests      *)
(* arrive and which parents change.                                        *)
(***************************************************************************)
EXTENDS CredentialStatus

CONSTANTS c2, c3, s1, s2, i1, o1, m1

VARIABLE part  \* "one" or "two"

MCById == {<<c2, c3>>}

MCInit == Init /\ part \in {"one", "two"}

OnlyOne == /\ \A i \in Issuers : req'[i].cred # c3
           /\ parent'[c3] = "ok" /\ c3 \in answering'

NoOperator == \A o \in Operators : req'[o].pc = "idle"

MCNext ==
  /\ Next
  /\ part = "one" => OnlyOne
  /\ part = "two" => NoOperator
  /\ UNCHANGED part

MCFairSpec == MCInit /\ [][MCNext]_<<vars, part>> /\ Fairness
=============================================================================
