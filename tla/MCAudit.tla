------------------------------ MODULE MCAudit ------------------------------
(***************************************************************************)
(* Small instances of AuditSealing and of AuditDispatcher.  The two share  *)
(* no variable, so a behaviour of one that waits for the other is a        *)
(* behaviour it has alone: a behaviour of this module is one of either     *)
(* component, with its fairness, while the other stays where it starts.    *)
(***************************************************************************)
EXTENDS AuditSealing, AuditDispatcher

CONSTANTS s1, s2, e1, e2, noEvent, w1, w2, m1, c1

VARIABLE part   \* the component that runs

MCInit ==
  /\ part \in {"sealing", "dispatch"}
  /\ Init /\ DispatchInit
  /\ part = "sealing" => reachable = MqttSinks

MCNext ==
  /\ part' = part
  /\ \/ part = "sealing" /\ Next /\ UNCHANGED dispatchVars
     \/ part = "dispatch" /\ DispatchNext /\ UNCHANGED vars

MCSpec == MCInit /\ [][MCNext]_<<part, vars, dispatchVars>>

(* Where it starts, a component has nothing to do that it has to do. *)
MCFairSpec == MCSpec /\ Fairness /\ DispatchFairness
=============================================================================
