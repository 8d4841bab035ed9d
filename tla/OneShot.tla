------------------------------ MODULE OneShot ------------------------------
(***************************************************************************)
(* What a single-use authorization promises: it is redeemed at most once,  *)
(* and never after it was voided.  The handlers that consume codes,        *)
(* offers and polled requests are shown to implement this specification.   *)
(***************************************************************************)
EXTENDS Naturals

CONSTANT Grants    \* the authorizations

VARIABLES
  redeemed,        \* how often each authorization was redeemed
  void             \* the authorizations that were withdrawn

TypeOK ==
  /\ redeemed \in [Grants -> Nat]
  /\ void \subseteq Grants

Init ==
  /\ redeemed = [g \in Grants |-> 0]
  /\ void = {}

Redeem(g) ==
  /\ redeemed[g] = 0
  /\ g \notin void
  /\ redeemed' = [redeemed EXCEPT ![g] = 1]
  /\ UNCHANGED void

(* Withdrawing an authorization that was already redeemed is harmless. *)
Void(g) ==
  /\ void' = void \cup {g}
  /\ UNCHANGED redeemed

Next == \E g \in Grants : Redeem(g) \/ Void(g)

Spec == Init /\ [][Next]_<<redeemed, void>>
=============================================================================
