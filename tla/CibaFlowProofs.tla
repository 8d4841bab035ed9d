--------------------------- MODULE CibaFlowProofs ---------------------------
(***************************************************************************)
(* Proofs for CibaFlow, for any number of requests in flight and all       *)
(* intervals and lifetimes.  A request is decided once: approvedAt and     *)
(* denied record a transition out of "pending", and no statement leads     *)
(* back there, so a copy of an approved row stays true of the request      *)
(* however old it is.  That a request is spent once rests on counting, for *)
(* the polls that began alone, the responses, the failed DELETEs and the   *)
(* one DELETE that succeeds.                                               *)
(***************************************************************************)
EXTENDS CibaFlow, TLAPS

(* The request was approved in time and not denied. *)
Granted == 0 < approvedAt /\ approvedAt <= TTL + 1 /\ ~denied

Decisions ==
  /\ 0 < approvedAt => row.st \in {"approved", "gone"} /\ ~denied
  /\ row.st = "approved" => 0 < approvedAt
  /\ denied => row.st \in {"denied", "gone"}
  /\ 0 < count => Granted

Bound ==
  /\ session = "verified" /\ row.st # "gone" => row = [st |-> "approved", acr |-> TRUE]
  /\ row.acr => presented
  /\ TRUE \in sent => presented

(* What a handler may rely on. *)
Suits(v) ==
  /\ v.pc \in {"poll", "status", "issue", "delete", "respond"} /\ v.cr.st = "approved" => Granted
  /\ v.pc \in {"issue", "delete", "respond"} => v.cr.st = "approved"
  /\ v.pc = "present" /\ v.cr.st = "gone" => row.st = "gone"
  /\ v.cr.acr => presented

IInv == TypeOK /\ Decisions /\ Bound /\ \A r \in Reqs : Suits(req[r])

USE DEF At

LEMMA IdleOK == NewRow \in Row /\ IdleReq \in Req /\ IdleReq.pc = "idle" /\ ~IdleReq.cr.acr
BY DEF NewRow, Row, IdleReq, Req

LEMMA IdleSuits == Suits(IdleReq)
BY DEF Suits, IdleReq, NewRow

(* A handler that goes on with its copy. *)
LEMMA GotoSuits ==
  ASSUME IInv, NEW r \in Reqs,
         NEW l \in {"status", "cleanup", "issue", "delete", "respond"},
         req[r].pc \in {"poll", "status", "issue", "delete"},
         l \in {"issue", "delete", "respond"} => req[r].cr.st = "approved"
  PROVE  [req[r] EXCEPT !.pc = l] \in Req /\ Suits([req[r] EXCEPT !.pc = l])
<1> DEFINE v == [req[r] EXCEPT !.pc = l]
<1>1. req[r] \in Req
  BY DEF IInv, TypeOK
<1>2. v \in Req /\ v.pc = l /\ v.cr = req[r].cr
  BY <1>1 DEF Req
<1> HIDE DEF v
<1>3. Suits(v)
  BY <1>2 DEF IInv, Suits
<1> QED  BY <1>2, <1>3 DEF v

(* A fresh copy of the row. *)
LEMMA CopySuits ==
  ASSUME IInv, NEW l \in {"approve", "deny", "present", "poll"},
         l = "poll" => now <= TTL
  PROVE  [pc |-> l, cr |-> row] \in Req /\ Suits([pc |-> l, cr |-> row])
<1>1. row \in Row /\ approvedAt \in 0..(now + 1) /\ now \in Nat
  BY CibaConstants DEF IInv, TypeOK
<1>2. l = "poll" /\ row.st = "approved" => Granted
  BY <1>1, CibaConstants DEF IInv, Decisions, Granted
<1> QED  BY <1>1, <1>2 DEF IInv, Bound, Suits, Req

(* A step of r that decides nothing, and leaves the row or deletes it. *)
Harmless(r) ==
  /\ UNCHANGED <<now, userDeleted, approvedAt, denied, presented>>
  /\ row' = row \/ row' = [row EXCEPT !.st = "gone"]
  /\ session' = session \/ session' = "failed" \/ (session' = "verified" /\ row.st = "gone")
  /\ pollKey' \in 0..(now + Interval) /\ failures' \in Nat
  /\ alone' \subseteq Reqs /\ excused' \in Nat
  /\ \/ UNCHANGED <<count, sent>>
     \/ count' = count + 1 /\ sent' = sent \cup {req[r].cr.acr} /\ Granted

LEMMA HandlerStep ==
  ASSUME IInv, NEW r \in Reqs, NEW v \in Req, Suits(v), req' = [req EXCEPT ![r] = v],
         Harmless(r)
  PROVE  IInv'
<1> USE DEF Harmless
<1>1. row \in Row /\ row' \in Row /\ row'.acr = row.acr /\ (row.st = "gone" => row'.st = "gone")
  BY DEF IInv, TypeOK, Row
<1>2. TypeOK'
  <2>1. req[r] \in Req /\ req[r].cr \in Row /\ req[r].cr.acr \in BOOLEAN
    BY DEF IInv, TypeOK, Req, Row
  <2>2. sent' \subseteq BOOLEAN /\ count' \in Nat
    BY <2>1 DEF IInv, TypeOK
  <2> QED  BY <1>1, <2>2 DEF IInv, TypeOK
<1>3. Decisions'
  <2>1. count \in Nat
    BY DEF IInv, TypeOK
  <2>2. Granted => Granted'
    BY DEF Granted
  <2>3. row'.st = row.st \/ row'.st = "gone"
    BY <1>1 DEF Row
  <2> QED  BY <2>1, <2>2, <2>3 DEF IInv, Decisions
<1>4. Bound'
  <2>1. TRUE \in sent' => presented
    BY DEF IInv, Bound, Suits
  <2>2. session' = "verified" /\ row'.st # "gone" => row' = [st |-> "approved", acr |-> TRUE]
    BY <1>1 DEF IInv, Bound, TypeOK, Row
  <2> QED  BY <1>1, <2>1, <2>2 DEF IInv, Bound
<1>5. \A q \in Reqs : Suits(req[q])'
  <2>1. \A q \in Reqs : req'[q] = IF q = r THEN v ELSE req[q]
    BY DEF IInv, TypeOK
  <2> QED  BY <1>1, <2>1 DEF IInv, Suits, Granted
<1> QED  BY <1>2, <1>3, <1>4, <1>5 DEF IInv

(* The transition out of "pending" to row x, which nothing preceded. *)
LEMMA DecideStep ==
  ASSUME IInv, NEW r \in Reqs, req' = [req EXCEPT ![r] = IdleReq],
         UNCHANGED <<now, userDeleted, pollKey, sent, count, failures, alone, excused>>,
         row.st = "pending",
         \/ /\ row' = [row EXCEPT !.st = "approved"] /\ approvedAt' = now + 1
            /\ UNCHANGED <<session, denied, presented>>
         \/ /\ row' = [row EXCEPT !.st = "denied"] /\ denied' = TRUE
            /\ UNCHANGED <<session, approvedAt, presented>>
         \/ /\ row' = [st |-> "approved", acr |-> TRUE] /\ approvedAt' = now + 1
            /\ session' = "verified" /\ presented' = TRUE /\ UNCHANGED denied
  PROVE  IInv'
<1>1. /\ row \in Row /\ now \in Nat /\ approvedAt \in 0..(now + 1) /\ count \in Nat
      /\ denied \in BOOLEAN /\ presented \in BOOLEAN
  BY CibaConstants DEF IInv, TypeOK
<1>2. approvedAt = 0 /\ ~denied /\ count = 0 /\ session # "verified" /\ (row.acr => presented)
  BY <1>1 DEF IInv, Decisions, Bound, Granted
<1>3. /\ row' \in Row /\ row'.st \in {"approved", "denied"}
      /\ row'.acr => presented'
      /\ presented => presented'
  <2>1. CASE row' = [row EXCEPT !.st = "approved"] \/ row' = [row EXCEPT !.st = "denied"]
    <3>1. row' \in Row /\ row'.st \in {"approved", "denied"} /\ row'.acr = row.acr
      BY <1>1, <2>1 DEF Row
    <3>2. presented => presented'
      BY Zenon
    <3> QED  BY <1>2, <3>1, <3>2
  <2>2. CASE row' = [st |-> "approved", acr |-> TRUE] /\ presented' = TRUE
    BY <2>2 DEF Row
  <2> QED  BY <2>1, <2>2
<1>4. TypeOK'
  <2>1. approvedAt' \in 0..(now + 1)
    BY <1>1
  <2>2. denied' \in BOOLEAN /\ presented' \in BOOLEAN
    BY <1>1, Zenon
  <2> QED  BY <1>3, <2>1, <2>2, IdleOK DEF IInv, TypeOK
<1>5. Decisions'
  BY <1>1, <1>2 DEF Decisions, Row
<1>6. Bound'
  BY <1>1, <1>2, <1>3 DEF IInv, Bound
<1>7. \A q \in Reqs : Suits(req[q])'
  <2>1. \A q \in Reqs : req'[q] = IF q = r THEN IdleReq ELSE req[q]
    BY DEF IInv, TypeOK
  <2>2. ~Granted /\ row.st # "gone"
    BY <1>2 DEF Granted
  <2>3. \A q \in Reqs : Suits(req[q]) => Suits(req[q])' \/ req'[q] = IdleReq
    BY <1>3, <2>1, <2>2 DEF Suits
  <2>4. Suits(IdleReq)'
    BY DEF Suits, IdleReq, NewRow
  <2> QED  BY <2>1, <2>3, <2>4 DEF IInv, Suits
<1> QED  BY <1>4, <1>5, <1>6, <1>7 DEF IInv

LEMMA InitOK == Init => IInv
<1> SUFFICES ASSUME Init PROVE IInv
  OBVIOUS
<1>1. TypeOK
  <2>1. now \in 0..MaxTime /\ pollKey \in 0..(now + Interval) /\ approvedAt \in 0..(now + 1)
    BY CibaConstants DEF Init
  <2> QED  BY <2>1, IdleOK DEF Init, TypeOK
<1>2. Decisions /\ Bound
  BY DEF Init, Decisions, Bound, NewRow
<1> QED  BY <1>1, <1>2, IdleSuits DEF Init, IInv

LEMMA OutOfBandStep ==
  ASSUME IInv, NEW r \in Reqs,
         CIBAApprove(r) \/ Approve(r) \/ CIBADeny(r) \/ Deny(r)
  PROVE  IInv'
<1>1. /\ pollKey \in 0..(now + Interval) /\ failures \in Nat /\ alone \subseteq Reqs
      /\ excused \in Nat
  BY DEF IInv, TypeOK
<1>2. CASE CIBAApprove(r) \/ CIBADeny(r)
  <2>1. PICK l \in {"approve", "deny"} : req' = [req EXCEPT ![r] = [pc |-> l, cr |-> row]]
    BY <1>2 DEF CIBAApprove, CIBADeny, Open
  <2>2. [pc |-> l, cr |-> row] \in Req /\ Suits([pc |-> l, cr |-> row])
    BY CopySuits
  <2>3. Harmless(r)
    BY <1>1, <1>2, <2>1, <2>2 DEF Harmless, CIBAApprove, CIBADeny, Open, history
  <2> QED  BY <2>1, <2>2, <2>3, HandlerStep
<1>3. CASE Approve(r)
  <2>1. CASE row.st = "pending"
    BY <1>3, <2>1, DecideStep DEF Approve, Finish
  <2>2. CASE row.st # "pending"
    <3>1. Harmless(r)
      BY <1>1, <1>3, <2>2 DEF Harmless, Approve
    <3> QED  BY <1>3, <3>1, IdleOK, IdleSuits, HandlerStep DEF Approve, Finish
  <2> QED  BY <2>1, <2>2
<1>4. CASE Deny(r)
  <2>1. CASE row.st = "pending"
    BY <1>4, <2>1, DecideStep DEF Deny, Finish
  <2>2. CASE row.st # "pending"
    <3>1. Harmless(r)
      BY <1>1, <1>4, <2>2 DEF Harmless, Deny
    <3> QED  BY <1>4, <3>1, IdleOK, IdleSuits, HandlerStep DEF Deny, Finish
  <2> QED  BY <2>1, <2>2
<1> QED  BY <1>2, <1>3, <1>4

LEMMA PresentStep ==
  ASSUME IInv, NEW r \in Reqs,
         \/ Response(r) \/ completeBoundCIBA(r) \/ CompleteStandalone(r)
         \/ FailPresentationSession(r)
  PROVE  IInv'
<1>1. /\ pollKey \in 0..(now + Interval) /\ failures \in Nat
      /\ alone \subseteq Reqs /\ excused \in Nat
  BY DEF IInv, TypeOK
<1>2. CASE Response(r)
  <2>1. [pc |-> "present", cr |-> row] \in Req /\ Suits([pc |-> "present", cr |-> row])
    BY CopySuits
  <2>2. Harmless(r)
    BY <1>1, <1>2, <2>1 DEF Harmless, Response, history
  <2> QED  BY <1>2, <2>1, <2>2, HandlerStep DEF Response
<1>3. CASE completeBoundCIBA(r)
  BY <1>3, DecideStep DEF completeBoundCIBA, Finish
<1>4. CASE CompleteStandalone(r)
  <2>1. row.st = "gone"
    BY <1>4 DEF CompleteStandalone, IInv, Suits
  <2>2. Harmless(r)
    BY <1>1, <1>4, <2>1 DEF Harmless, CompleteStandalone, history
  <2> QED  BY <1>4, <2>2, IdleOK, IdleSuits, HandlerStep DEF CompleteStandalone, Finish
<1>5. CASE FailPresentationSession(r)
  <2>1. Harmless(r)
    BY <1>1, <1>5 DEF Harmless, FailPresentationSession, history
  <2> QED  BY <1>5, <2>1, IdleOK, IdleSuits, HandlerStep DEF FailPresentationSession, Finish
<1> QED  BY <1>2, <1>3, <1>4, <1>5

LEMMA PollStep ==
  ASSUME IInv, NEW r \in Reqs,
         \/ cibaGrant(r) \/ PollKey(r) \/ Status(r) \/ DeleteDenied(r)
         \/ Issue(r) \/ Delete(r) \/ Respond(r) \/ Abort(r)
  PROVE  IInv'
<1> DEFINE to(l) == [req[r] EXCEPT !.pc = l]
<1>1. /\ pollKey \in 0..(now + Interval) /\ failures \in Nat
      /\ alone \subseteq Reqs /\ excused \in Nat /\ now \in Nat /\ Interval \in Nat
  BY CibaConstants DEF IInv, TypeOK
<1>2. CASE cibaGrant(r)
  <2>1. [pc |-> "poll", cr |-> row] \in Req /\ Suits([pc |-> "poll", cr |-> row])
    BY <1>2, CopySuits DEF cibaGrant
  <2>2. Harmless(r)
    BY <1>1, <1>2, <2>1 DEF Harmless, cibaGrant
  <2> QED  BY <1>2, <2>1, <2>2, HandlerStep DEF cibaGrant
<1>3. CASE PollKey(r)
  <2>1. PICK v \in {to("status"), IdleReq} : /\ req' = [req EXCEPT ![r] = v]
                                             /\ v \in Req /\ Suits(v)
    BY <1>3, GotoSuits, IdleOK, IdleSuits DEF PollKey, Goto, Finish
  <2>2. pollKey' \in 0..(now + Interval)
    BY <1>1, <1>3 DEF PollKey, KeyLifetime
  <2>3. Harmless(r)
    BY <1>1, <1>3, <2>1, <2>2 DEF Harmless, PollKey, history
  <2> QED  BY <2>1, <2>3, HandlerStep
<1>4. CASE Status(r)
  <2>1. PICK v \in {to("cleanup"), to("issue"), IdleReq} : /\ req' = [req EXCEPT ![r] = v]
                                                           /\ v \in Req /\ Suits(v)
    BY <1>4, GotoSuits, IdleOK, IdleSuits DEF Status, Goto, Finish
  <2>2. Harmless(r)
    BY <1>1, <1>4, <2>1 DEF Harmless, Status, history
  <2> QED  BY <2>1, <2>2, HandlerStep
<1>5. CASE DeleteDenied(r)
  <2>1. Harmless(r)
    BY <1>1, <1>5 DEF Harmless, DeleteDenied, history
  <2> QED  BY <1>5, <2>1, IdleOK, IdleSuits, HandlerStep DEF DeleteDenied, Finish
<1>6. CASE Issue(r)
  <2>1. req' = [req EXCEPT ![r] = to("delete")] /\ to("delete") \in Req /\ Suits(to("delete"))
    BY <1>6, GotoSuits DEF Issue, Goto, IInv, Suits
  <2>2. Harmless(r)
    BY <1>1, <1>6, <2>1 DEF Harmless, Issue, history
  <2> QED  BY <2>1, <2>2, HandlerStep
<1>7. CASE Delete(r)
  <2>1. req' = [req EXCEPT ![r] = to("respond")] /\ to("respond") \in Req /\ Suits(to("respond"))
    BY <1>7, GotoSuits DEF Delete, Goto, IInv, Suits
  <2>2. /\ failures' \in Nat /\ excused' \in Nat
        /\ row' = row \/ row' = [row EXCEPT !.st = "gone"]
    BY <1>1, <1>7 DEF Delete
  <2>3. Harmless(r)
    BY <1>1, <1>7, <2>1, <2>2 DEF Harmless, Delete
  <2> QED  BY <2>1, <2>3, HandlerStep
<1>8. CASE Respond(r)
  <2>1. Granted
    BY <1>8 DEF Respond, IInv, Suits
  <2>2. Harmless(r)
    BY <1>1, <1>8, <2>1 DEF Harmless, Respond
  <2> QED  BY <1>8, <2>2, IdleOK, IdleSuits, HandlerStep DEF Respond, Finish
<1>9. CASE Abort(r)
  <2>1. Harmless(r)
    BY <1>1, <1>9 DEF Harmless, Abort, history
  <2> QED  BY <1>9, <2>1, IdleOK, IdleSuits, HandlerStep DEF Abort, Finish
<1> QED  BY <1>2, <1>3, <1>4, <1>5, <1>6, <1>7, <1>8, <1>9

LEMMA NextOK == IInv /\ [Next]_vars => IInv'
<1> SUFFICES ASSUME IInv, [Next]_vars PROVE IInv'
  OBVIOUS
<1>1. CASE Tick
  <2>1. TypeOK'
    BY <1>1, CibaConstants DEF IInv, TypeOK, Tick, history
  <2> QED  BY <1>1, <2>1 DEF IInv, Decisions, Bound, Suits, Granted, Tick, history
<1>2. CASE DeleteUser
  <2>1. /\ row' \in Row /\ row'.st = "gone" /\ row'.acr = row.acr
        /\ UNCHANGED <<now, session, pollKey, req, history>> /\ userDeleted' = TRUE
    BY <1>2 DEF DeleteUser, IInv, TypeOK, Row
  <2>2. TypeOK'
    BY <2>1 DEF IInv, TypeOK, history
  <2> QED  BY <2>1, <2>2 DEF IInv, Decisions, Bound, Suits, Granted, history
<1>3. CASE UNCHANGED vars
  <2>1. TypeOK'
    BY <1>3 DEF IInv, TypeOK, vars, history
  <2> QED  BY <1>3, <2>1 DEF IInv, Decisions, Bound, Suits, Granted, vars, history
<1> QED  BY <1>1, <1>2, <1>3, OutOfBandStep, PresentStep, PollStep DEF Next

THEOREM Invariance == Spec => []IInv
BY InitOK, NextOK, PTL DEF Spec

(* Types of the request, the session and the handlers; a poll key never    *)
(* outlives the interval.                                                  *)
THEOREM TypeCorrect == Spec => []TypeOK
<1>1. IInv => TypeOK
  BY DEF IInv
<1> QED  BY <1>1, Invariance, PTL

(* Tokens are only sent for a request that was approved before it expired  *)
(* and never denied, however decisions, presentations and polls race.      *)
THEOREM ApprovalIsNeeded == Spec => []TokensNeedApproval
<1>1. IInv => TokensNeedApproval
  <2> SUFFICES ASSUME IInv PROVE TokensNeedApproval
    OBVIOUS
  <2>1. count \in Nat
    BY DEF IInv, TypeOK
  <2> QED  BY <2>1 DEF IInv, Decisions, Suits, Granted, TokensNeedApproval
<1> QED  BY <1>1, Invariance, PTL

(* A verified session and the approval of its request commit together, and *)
(* tokens claim a presentation only when there was one.                    *)
THEOREM PresentationIsBound == Spec => []PresentationBindsRequest
<1>1. IInv => PresentationBindsRequest
  BY DEF IInv, Bound, PresentationBindsRequest
<1> QED  BY <1>1, Invariance, PTL

(***************************************************************************)
(* Single use.                                                             *)
(***************************************************************************)
Gone == IF row.st = "gone" THEN 1 ELSE 0

(* A response sent or under way stands for the row's deletion, for a lone  *)
(* poll's DELETE that failed or for a poll that was not alone.  The row    *)
(* may vanish under a poll, with its user or by another poll, so a lone    *)
(* poll in progress must not be paid for by that.                          *)
Paid ==
  /\ \A q, r \in alone : q = r
  /\ count <= excused + Gone
  /\ \A r \in alone : Polling(r) =>
       IF At(r, "respond") THEN count < excused + Gone ELSE count <= excused

(* What is paid for stays paid for when the other side grows. *)
LEMMA Further ==
  \A n, a, b, c, d \in Nat : n < a + b /\ a + b <= c + d => n < c + d
OBVIOUS

(* A step by which no poll advances and no row comes back. *)
LEMMA OtherStep ==
  ASSUME IInv, Paid, UNCHANGED <<count, excused, alone>>,
         row.st = "gone" => row'.st = "gone",
         \A q \in Reqs : Polling(q)' => Polling(q) /\ (At(q, "respond")' <=> At(q, "respond"))
  PROVE  Paid'
<1>1. count \in Nat /\ excused \in Nat /\ alone \subseteq Reqs
  BY DEF IInv, TypeOK
<1>2. Gone \in Nat /\ Gone' \in Nat /\ Gone <= Gone'
  BY DEF Gone
<1>3. count' <= excused' + Gone'
  BY <1>1, <1>2 DEF Paid
<1>4. ASSUME NEW q \in alone, Polling(q)'
      PROVE  IF At(q, "respond")' THEN count < excused + Gone' ELSE count <= excused
  <2>1. Polling(q) /\ (At(q, "respond")' <=> At(q, "respond"))
    BY <1>1, <1>4
  <2>2. IF At(q, "respond") THEN count < excused + Gone ELSE count <= excused
    BY <2>1 DEF Paid
  <2>3. CASE At(q, "respond")
    <3>1. count < excused + Gone
      BY <2>2, <2>3
    <3>2. count < excused + Gone'
      BY <1>1, <1>2, <3>1
    <3> QED  BY <2>1, <2>3, <3>2
  <2>4. CASE ~At(q, "respond")
    BY <2>1, <2>2, <2>4
  <2> QED  BY <2>3, <2>4
<1> QED  BY <1>3, <1>4 DEF Paid

LEMMA PollNext == IInv /\ Paid /\ [Next]_vars => Paid'
<1> SUFFICES ASSUME IInv, Paid, [Next]_vars PROVE Paid'
  OBVIOUS
<1>1. /\ count \in Nat /\ excused \in Nat /\ row \in Row /\ req \in [Reqs -> Req]
      /\ alone \subseteq Reqs /\ Gone \in {0, 1} /\ Gone' \in {0, 1}
  BY DEF IInv, TypeOK, Gone
<1>2. CASE Tick \/ DeleteUser \/ UNCHANGED vars
  <2>1. UNCHANGED <<count, excused, alone, req>>
    BY <1>2 DEF Tick, DeleteUser, vars, history
  <2>2. row.st = "gone" => row'.st = "gone"
    BY <1>1, <1>2 DEF Tick, DeleteUser, vars, Row
  <2> QED  BY <2>1, <2>2, OtherStep DEF Polling
<1>3. ASSUME NEW r \in Reqs,
             \/ CIBAApprove(r) \/ Approve(r) \/ CIBADeny(r) \/ Deny(r)
             \/ Response(r) \/ completeBoundCIBA(r) \/ CompleteStandalone(r)
             \/ FailPresentationSession(r)
             \/ PollKey(r) \/ Status(r) \/ DeleteDenied(r) \/ Issue(r) \/ Abort(r)
      PROVE  Paid'
  <2>1. UNCHANGED <<count, excused, alone>>
    BY <1>3 DEF CIBAApprove, CIBADeny, Open, Approve, Deny, Response, completeBoundCIBA,
       CompleteStandalone, FailPresentationSession, PollKey, Status, DeleteDenied, Issue,
       Abort, history
  <2>2. row.st = "gone" => row'.st = "gone"
    BY <1>1, <1>3 DEF CIBAApprove, CIBADeny, Open, Approve, Deny, Response, completeBoundCIBA,
       CompleteStandalone, FailPresentationSession, PollKey, Status, DeleteDenied, Issue,
       Abort, Row
  <2>3. PICK v \in {[pc |-> "approve", cr |-> row], [pc |-> "deny", cr |-> row],
                    [pc |-> "present", cr |-> row], IdleReq,
                    [req[r] EXCEPT !.pc = "status"], [req[r] EXCEPT !.pc = "cleanup"],
                    [req[r] EXCEPT !.pc = "issue"], [req[r] EXCEPT !.pc = "delete"]} :
          /\ req' = [req EXCEPT ![r] = v]
          /\ v.pc \in {"status", "cleanup", "issue", "delete"} =>
               Polling(r) /\ ~At(r, "respond")
          /\ v.pc \in {"idle", "approve", "deny", "present", "status", "cleanup", "issue",
                       "delete"}
    <3>1. CASE CIBAApprove(r) \/ CIBADeny(r) \/ Response(r)
      BY <3>1 DEF CIBAApprove, CIBADeny, Open, Response
    <3>2. CASE req' = [req EXCEPT ![r] = IdleReq]
      BY <3>2, IdleOK
    <3>3. CASE \E l \in {"status", "cleanup", "issue", "delete"} :
                 req' = [req EXCEPT ![r].pc = l] /\ Polling(r) /\ ~At(r, "respond")
      BY <1>1, <3>3 DEF Req
    <3> QED  BY <1>3, <3>1, <3>2, <3>3
             DEF Approve, Deny, completeBoundCIBA, CompleteStandalone, FailPresentationSession,
                 PollKey, Status, DeleteDenied, Issue, Abort, Finish, Goto, Polling
  <2>4. req'[r] = v /\ \A q \in Reqs \ {r} : req'[q] = req[q]
    BY <1>1, <2>3
  <2> QED  BY <2>1, <2>2, <2>3, <2>4, OtherStep DEF Polling
<1>4. ASSUME NEW r \in Reqs, cibaGrant(r) PROVE Paid'
  <2>1. /\ \A q \in Reqs \ {r} : req'[q] = req[q]
        /\ req'[r].pc = "poll"
        /\ row.st # "gone" /\ UNCHANGED <<row, count, excused>>
        /\ alone' = alone \ {r} \/ (alone' = {r} /\ \A q \in Reqs : ~Polling(q))
    BY <1>1, <1>4 DEF cibaGrant
  <2>2. Gone = 0 /\ Gone' = 0
    BY <2>1 DEF Gone
  <2> QED  BY <1>1, <2>1, <2>2 DEF Paid, Polling
<1>5. ASSUME NEW r \in Reqs, Delete(r) PROVE Paid'
  <2>1. /\ At(r, "delete") /\ Polling(r)
        /\ req'[r].pc = "respond" /\ \A q \in Reqs \ {r} : req'[q] = req[q]
    BY <1>1, <1>5 DEF Delete, Goto, Polling, Req
  <2>2. /\ UNCHANGED <<count, alone>>
        /\ \/ row'.st = "gone" /\ excused' = excused
           \/ row' = row /\ excused' = IF r \in alone THEN excused + 1 ELSE excused
    BY <1>1, <1>5 DEF Delete, Row
  <2>3. /\ Gone \in Nat /\ Gone' \in Nat /\ excused' \in Nat /\ count \in Nat
        /\ excused \in Nat /\ excused <= excused' /\ excused + Gone <= excused' + Gone'
    BY <1>1, <2>2 DEF Gone
  <2>4. count' <= excused' + Gone'
    <3>1. count <= excused + Gone
      BY DEF Paid
    <3> QED  BY <1>1, <2>2, <3>1 DEF Gone
  <2>5. r \in alone => count < excused' + Gone'
    <3>1. r \in alone => count <= excused
      BY <2>1 DEF Paid
    <3> QED  BY <1>1, <2>2, <3>1 DEF Gone
  <2>6. ASSUME NEW q \in alone, Polling(q)'
        PROVE  IF At(q, "respond")' THEN count < excused' + Gone' ELSE count <= excused'
    <3>1. CASE q = r
      BY <2>1, <2>5, <3>1
    <3>2. CASE q # r
      <4>1. q \in Reqs /\ req'[q] = req[q] /\ Polling(q)
        BY <1>1, <2>1, <2>6, <3>2 DEF Polling
      <4>2. IF At(q, "respond") THEN count < excused + Gone ELSE count <= excused
        BY <4>1 DEF Paid
      <4>3. CASE At(q, "respond")
        <5>1. count < excused + Gone
          BY <4>2, <4>3
        <5>2. count < excused' + Gone'
          BY <2>3, <5>1, Further
        <5> QED  BY <4>1, <4>3, <5>2
      <4>4. CASE ~At(q, "respond")
        <5>1. count <= excused'
          BY <1>1, <2>3, <4>2, <4>4
        <5> QED  BY <4>1, <4>4, <5>1
      <4> QED  BY <4>3, <4>4
    <3> QED  BY <3>1, <3>2
  <2> QED  BY <2>2, <2>4, <2>6 DEF Paid
<1>6. ASSUME NEW r \in Reqs, Respond(r) PROVE Paid'
  <2>1. /\ At(r, "respond") /\ Polling(r) /\ ~Polling(r)'
        /\ \A q \in Reqs \ {r} : req'[q] = req[q]
    BY <1>1, <1>6, IdleOK DEF Respond, Finish, Polling
  <2>2. /\ UNCHANGED <<row, alone>> /\ count' = count + 1 /\ Gone' = Gone
        /\ excused' = IF r \in alone THEN excused ELSE excused + 1
    BY <1>6 DEF Respond, Gone
  <2>3. CASE r \in alone
    <3>1. \A q \in alone : ~Polling(q)'
      BY <2>1, <2>3 DEF Paid
    <3>2. count < excused + Gone
      BY <2>1, <2>3 DEF Paid
    <3> QED  BY <1>1, <2>2, <2>3, <3>1, <3>2 DEF Paid
  <2>4. CASE r \notin alone
    <3>1. \A q \in alone : q \in Reqs /\ req'[q] = req[q]
      BY <1>1, <2>1, <2>4
    <3> QED  BY <1>1, <2>2, <2>4, <3>1 DEF Paid, Polling
  <2> QED  BY <2>3, <2>4
<1> QED  BY <1>2, <1>3, <1>4, <1>5, <1>6 DEF Next

(* Of the token responses, all but one are owed to a DELETE that failed or *)
(* to a poll that began while another was in flight, even if the user is   *)
(* deleted in between.                                                     *)
THEOREM RequestIsSpent == Spec => []RequestRedeemedOnce
<1>1. Init => Paid
  <2> SUFFICES ASSUME Init PROVE Paid
    OBVIOUS
  <2>1. count = 0 /\ excused = 0 /\ Gone = 0 /\ alone = {}
    BY DEF Init, Gone, NewRow
  <2> QED  BY <2>1 DEF Paid
<1>2. IInv /\ Paid /\ [Next]_vars => Paid'
  BY PollNext
<1>3. IInv /\ Paid => RequestRedeemedOnce
  <2> SUFFICES ASSUME IInv, Paid PROVE count <= 1 + excused
    BY DEF RequestRedeemedOnce
  <2>1. count \in Nat /\ excused \in Nat
    BY DEF IInv, TypeOK
  <2> QED  BY <2>1 DEF Paid, Gone
<1> QED  BY <1>1, <1>2, <1>3, Invariance, PTL DEF Spec
=============================================================================
