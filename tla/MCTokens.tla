------------------------------ MODULE MCTokens ------------------------------
(***************************************************************************)
(* Small instances of TokenEndpoint (two codes of one user) and of         *)
(* TokenRevocation (one access token, one refresh token).  The two share   *)
(* no variable, so a behaviour of one that waits for the other is a        *)
(* behaviour it has alone: a behaviour of this module is one of either     *)
(* component while the other stays where it starts.                        *)
(***************************************************************************)
EXTENDS TokenEndpoint, TokenRevocation, TLC

CONSTANTS c1, c2, u1, r1, r2, a1, f1

VARIABLE part   \* the component that runs

MCUserOf == [c \in Codes |-> u1]
Symmetry == Permutations(Reqs)

MCInit ==
  /\ part \in {"endpoint", "revocation"}
  /\ Init /\ RevInit
  /\ part = "endpoint" => \A d \in TTLs : ttl <= d

MCNext ==
  /\ part' = part
  /\ \/ part = "endpoint" /\ Next /\ UNCHANGED revVars
     \/ part = "revocation" /\ RevNext /\ UNCHANGED vars

MCSpec == MCInit /\ [][MCNext]_<<part, vars, revVars>>

(* Bound: all of MaxTok rows and the clock for one code at a time; while   *)
(* both are used, one row less and no expiry.                              *)
Bounds ==
  (\A c \in Codes : codeSt[c] # "absent") => ntok < MaxTok /\ now = 0
=============================================================================
