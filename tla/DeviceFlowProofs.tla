-------------------------- MODULE DeviceFlowProofs --------------------------
(***************************************************************************)
(* Proofs for DeviceFlow, for any number of users and of requests in       *)
(* flight, and all intervals and lifetimes.                                *)
(***************************************************************************)
EXTENDS DeviceFlow, TLAPS

(* The user of a row, or of a copy of it, that is authorized allowed it,   *)
(* unless the foreign key has set it to NULL.                              *)
Consented(x) == x.st = "allowed" /\ x.user # NoUser => x.user \in allowedBy

(* What a handler may rely on. *)
Suits(v) ==
  /\ v.at <= now + 1
  /\ v.pc = "consent" => v.user \in Users
  /\ Consented(v.dc)
  /\ v.pc \in {"issue", "delete", "respond"} => v.dc.st = "allowed" /\ v.dc.user # NoUser

Consents ==
  /\ Consented(row)
  /\ \A r \in Reqs : Suits(req[r])
  /\ responses \subseteq allowedBy

IInv == TypeOK /\ Consents

USE DEF At

LEMMA IdleOK ==
  IdleReq \in Req /\ NewRow \in Row /\ IdleReq.pc = "idle" /\ IdleReq.at = 0
BY DeviceConstants DEF IdleReq, Req, NewRow, Row

LEMMA IdleSuits == ASSUME TypeOK PROVE Suits(IdleReq)
<1>1. now \in Nat
  BY DeviceConstants DEF TypeOK
<1> QED  BY <1>1 DEF IdleReq, NewRow, Suits, Consented

(* A copy of the row is as good as the row. *)
LEMMA CopySuits ==
  ASSUME IInv, NEW v \in Req, v.dc = row, v.at = 0, v.pc \in {"consent", "touch"},
         v.pc = "consent" => v.user \in Users
  PROVE  Suits(v)
<1>1. now \in Nat
  BY DeviceConstants DEF IInv, TypeOK
<1> QED  BY <1>1 DEF IInv, Consents, Suits

(* A handler that goes on with its copy. *)
LEMMA GotoSuits ==
  ASSUME IInv, NEW r \in Reqs,
         NEW l \in {"slow", "decide", "issue", "delete", "respond"},
         l \in {"issue", "delete", "respond"} =>
           req[r].dc.st = "allowed" /\ req[r].dc.user # NoUser
  PROVE  /\ [req[r] EXCEPT !.pc = l] \in Req
         /\ Suits([req[r] EXCEPT !.pc = l])
<1> DEFINE v == [req[r] EXCEPT !.pc = l]
<1>1. req[r] \in Req
  BY DEF IInv, TypeOK
<1>2. /\ v \in Req /\ v.pc = l /\ v.dc = req[r].dc /\ v.at = req[r].at
  BY <1>1 DEF Req
<1> HIDE DEF v
<1>3. Suits(v)
  BY <1>2 DEF IInv, Consents, Suits, Consented
<1> QED  BY <1>2, <1>3 DEF v

(* A step of the handler r, whose locals become v. *)
LEMMA HandlerStep ==
  ASSUME IInv, NEW r \in Reqs, NEW v \in Req, Suits(v), req' = [req EXCEPT ![r] = v],
         UNCHANGED <<now, deleted>>, row' \in Row, Consented(row)',
         lastPolled' \in 0..(now + 1), lastPass' \in 0..(now + 1), crowded' \in BOOLEAN,
         count' \in Nat, failures' \in Nat, alone' \subseteq Reqs, clean' \subseteq Reqs,
         allowedBy \subseteq allowedBy', allowedBy' \subseteq Users, responses' \subseteq allowedBy'
  PROVE  IInv'
<1>1. TypeOK'
  BY DEF IInv, TypeOK
<1>2. \A x : Consented(x) => Consented(x)'
  BY DEF Consented
<1>3. \A x \in Req : Suits(x) => Suits(x)'
  BY <1>2 DEF Suits
<1>4. \A q \in Reqs : req[q] \in Req /\ req'[q] = IF q = r THEN v ELSE req[q]
  BY DEF IInv, TypeOK
<1>5. \A q \in Reqs : Suits(req[q])'
  BY <1>3, <1>4 DEF IInv, Consents, Suits
<1> QED  BY <1>1, <1>5 DEF IInv, Consents

LEMMA ConsentStep ==
  ASSUME IInv, NEW r \in Reqs,
         \/ \E u \in Users : DeviceConsentSubmit(r, u)
         \/ Authorize(r) \/ Deny(r)
  PROVE  IInv'
<1>1. CASE \E u \in Users : DeviceConsentSubmit(r, u)
  <2>1. PICK u \in Users : DeviceConsentSubmit(r, u)
    BY <1>1
  <2> DEFINE v == [IdleReq EXCEPT !.pc = "consent", !.user = u, !.dc = row]
  <2>2. v \in Req /\ v.pc = "consent" /\ v.user = u /\ v.dc = row /\ v.at = 0
    BY IdleOK DEF IInv, TypeOK, Req
  <2>3. req' = [req EXCEPT ![r] = v]
    BY <2>1 DEF DeviceConsentSubmit
  <2> HIDE DEF v
  <2>4. Suits(v)
    BY <2>2, CopySuits
  <2> QED  BY <2>1, <2>2, <2>3, <2>4, HandlerStep
           DEF DeviceConsentSubmit, IInv, Consents, TypeOK, Consented, history
<1>2. CASE Authorize(r)
  <2>1. req[r].user \in Users /\ row \in Row /\ allowedBy \subseteq Users
    BY <1>2 DEF Authorize, IInv, Consents, Suits, TypeOK
  <2>2. row' \in Row /\ Consented(row)'
    BY <1>2, <2>1 DEF Authorize, IInv, Consents, Consented, Row
  <2> QED  BY <1>2, <2>1, <2>2, IdleOK, IdleSuits, HandlerStep
           DEF Authorize, Finish, IInv, Consents, TypeOK
<1>3. CASE Deny(r)
  <2>1. row' \in Row /\ Consented(row)'
    BY <1>3 DEF Deny, IInv, TypeOK, Consents, Consented, Row, history
  <2> QED  BY <1>3, <2>1, IdleOK, IdleSuits, HandlerStep
           DEF Deny, Finish, IInv, Consents, TypeOK, history
<1> QED  BY <1>1, <1>2, <1>3

LEMMA PollStep ==
  ASSUME IInv, NEW r \in Reqs,
         GetByDeviceCode(r) \/ TouchPoll(r) \/ TouchPollUpdate(r) \/ SlowDown(r)
  PROVE  IInv'
<1>1. CASE GetByDeviceCode(r)
  <2> DEFINE v == [IdleReq EXCEPT !.pc = "touch", !.dc = row]
  <2>1. v \in Req /\ v.pc = "touch" /\ v.dc = row /\ v.at = 0
    BY IdleOK DEF IInv, TypeOK, Req
  <2>2. req' = [req EXCEPT ![r] = v]
    BY <1>1 DEF GetByDeviceCode
  <2> HIDE DEF v
  <2>3. Suits(v)
    BY <2>1, CopySuits
  <2>4. alone' \subseteq Reqs
    BY <1>1 DEF GetByDeviceCode, IInv, TypeOK
  <2> QED  BY <1>1, <2>1, <2>2, <2>3, <2>4, HandlerStep
           DEF GetByDeviceCode, IInv, Consents, TypeOK, Consented
<1>2. CASE TouchPoll(r)
  <2> DEFINE v == [req[r] EXCEPT !.pc = "update", !.at = now + 1, !.last = lastPolled]
  <2>1. /\ req[r] \in Req /\ now \in Nat
        /\ now + 1 \in 0..(MaxTime + 1) /\ lastPolled \in 0..(MaxTime + 1)
    BY DeviceConstants DEF IInv, TypeOK
  <2>2. v \in Req /\ v.pc = "update" /\ v.dc = req[r].dc /\ v.at = now + 1
    BY <2>1 DEF Req
  <2>3. req' = [req EXCEPT ![r] = v]
    BY <1>2 DEF TouchPoll
  <2> HIDE DEF v
  <2>4. Suits(v)
    BY <2>1, <2>2 DEF IInv, Consents, Suits
  <2>5. clean' \subseteq Reqs
    BY <1>2 DEF TouchPoll
  <2> QED  BY <1>2, <2>2, <2>3, <2>4, <2>5, HandlerStep
           DEF TouchPoll, IInv, Consents, TypeOK, Consented
<1>3. CASE TouchPollUpdate(r)
  <2>1. PICK l \in {"slow", "decide"} :
          req' = [req EXCEPT ![r] = [req[r] EXCEPT !.pc = l, !.at = 0, !.last = 0]]
    BY <1>3 DEF TouchPollUpdate
  <2> DEFINE v == [req[r] EXCEPT !.pc = l, !.at = 0, !.last = 0]
  <2>2. v \in Req /\ v.pc = l /\ v.dc = req[r].dc /\ v.at = 0 /\ now \in Nat
    <3>1. req[r] \in Req /\ now \in Nat /\ 0 \in 0..(MaxTime + 1)
      BY DeviceConstants DEF IInv, TypeOK
    <3> QED  BY <3>1 DEF Req
  <2>s. req' = [req EXCEPT ![r] = v]
    BY <2>1
  <2> HIDE DEF v
  <2>5. Suits(v)
    BY <2>2 DEF IInv, Consents, Suits, Consented
  <2>3. req[r].at \in 0..(now + 1)
    BY DEF IInv, TypeOK, Consents, Suits, Req
  <2>4. lastPolled' \in 0..(now + 1) /\ lastPass' \in 0..(now + 1) /\ crowded' \in BOOLEAN
    BY <1>3, <2>3 DEF TouchPollUpdate, Stamp, Passed, IInv, TypeOK
  <2> QED  BY <1>3, <2>2, <2>s, <2>4, <2>5, HandlerStep
           DEF TouchPollUpdate, IInv, Consents, TypeOK, Consented
<1>4. CASE SlowDown(r)
  <2>1. row \in Row /\ row' \in Row /\ Consented(row)'
    BY <1>4, DeviceConstants DEF SlowDown, IInv, TypeOK, Consents, Consented, Row, history
  <2> QED  BY <1>4, <2>1, IdleOK, IdleSuits, HandlerStep
           DEF SlowDown, Finish, IInv, Consents, TypeOK, history
<1> QED  BY <1>1, <1>2, <1>3, <1>4

LEMMA IssueStep ==
  ASSUME IInv, NEW r \in Reqs,
         Decide(r) \/ Issue(r) \/ Delete(r) \/ Respond(r) \/ Abort(r)
  PROVE  IInv'
<1> DEFINE to(l) == [req[r] EXCEPT !.pc = l]
<1>1. CASE Decide(r)
  <2>1. PICK v \in {to("issue"), IdleReq} : /\ req' = [req EXCEPT ![r] = v]
                                            /\ v \in Req /\ Suits(v)
    BY <1>1, GotoSuits, IdleOK, IdleSuits DEF Decide, Goto, Finish, IInv
  <2> QED  BY <1>1, <2>1, HandlerStep DEF Decide, IInv, Consents, TypeOK, Consented, history
<1>2. CASE Issue(r)
  <2>1. to("delete") \in Req /\ Suits(to("delete")) /\ req' = [req EXCEPT ![r] = to("delete")]
    BY <1>2, GotoSuits DEF Issue, Goto, IInv, Consents, Suits
  <2> QED  BY <1>2, <2>1, HandlerStep DEF Issue, IInv, Consents, TypeOK, Consented, history
<1>3. CASE Delete(r)
  <2>1. to("respond") \in Req /\ Suits(to("respond")) /\ req' = [req EXCEPT ![r] = to("respond")]
    BY <1>3, GotoSuits DEF Delete, Goto, IInv, Consents, Suits
  <2>2. row' \in Row /\ Consented(row)' /\ failures' \in Nat
    BY <1>3 DEF Delete, IInv, TypeOK, Consents, Consented, Row
  <2> QED  BY <1>3, <2>1, <2>2, HandlerStep DEF Delete, IInv, Consents, TypeOK
<1>4. CASE Respond(r)
  <2>1. req[r].dc.user \in allowedBy
    BY <1>4 DEF Respond, IInv, Consents, Suits, Consented
  <2>2. responses' \subseteq allowedBy' /\ count' \in Nat
    BY <1>4, <2>1 DEF Respond, IInv, Consents, TypeOK
  <2> QED  BY <1>4, <2>2, IdleOK, IdleSuits, HandlerStep
           DEF Respond, Finish, IInv, Consents, TypeOK, Consented
<1>5. CASE Abort(r)
  BY <1>5, IdleOK, IdleSuits, HandlerStep
     DEF Abort, Finish, IInv, Consents, TypeOK, Consented, history
<1> QED  BY <1>1, <1>2, <1>3, <1>4, <1>5

LEMMA InitOK == Init => IInv
<1> SUFFICES ASSUME Init PROVE IInv
  OBVIOUS
<1>1. TypeOK
  <2>1. now \in 0..MaxTime /\ lastPolled \in 0..(now + 1) /\ lastPass \in 0..(now + 1)
    BY DeviceConstants DEF Init
  <2>2. row \in Row /\ req \in [Reqs -> Req]
    BY IdleOK DEF Init
  <2> QED  BY <2>1, <2>2 DEF Init, TypeOK
<1>2. Consents
  BY <1>1, IdleSuits DEF Init, Consents, Consented, NewRow
<1> QED  BY <1>1, <1>2 DEF IInv

LEMMA NextOK == IInv /\ [Next]_vars => IInv'
<1> SUFFICES ASSUME IInv, [Next]_vars PROVE IInv'
  OBVIOUS
<1>1. CASE Tick
  <2>1. TypeOK'
    BY <1>1, DeviceConstants DEF IInv, TypeOK, Tick, history
  <2>2. \A r \in Reqs : req[r].at \in Nat
    BY DeviceConstants DEF IInv, TypeOK, Req
  <2>3. Consents'
    BY <1>1, <2>2, DeviceConstants DEF IInv, TypeOK, Consents, Suits, Consented, Tick, history
  <2> QED  BY <2>1, <2>3 DEF IInv
<1>2. CASE \E u \in Users : DeleteUser(u)
  <2>1. TypeOK'
    BY <1>2 DEF IInv, TypeOK, DeleteUser, history, Row
  <2>2. Consents'
    BY <1>2 DEF IInv, TypeOK, Consents, Suits, Consented, DeleteUser, history, Row
  <2> QED  BY <2>1, <2>2 DEF IInv
<1>3. CASE UNCHANGED vars
  BY <1>3 DEF IInv, TypeOK, Consents, Suits, Consented, vars, history
<1> QED  BY <1>1, <1>2, <1>3, ConsentStep, PollStep, IssueStep DEF Next

THEOREM Invariance == Spec => []IInv
BY InitOK, NextOK, PTL DEF Spec

(* Types of the row, the clock and the handlers; last_polled_at never lies *)
(* in the future.                                                          *)
THEOREM TypeCorrect == Spec => []TypeOK
<1>1. IInv => TypeOK
  BY DEF IInv
<1> QED  BY <1>1, Invariance, PTL

(* Tokens are only sent for a user that allowed the device, however        *)
(* consents, polls and deletions of users overlap.                         *)
THEOREM ConsentIsNeeded == Spec => []TokensNeedConsent
<1>1. IInv => TokensNeedConsent
  BY DEF IInv, Consents, TokensNeedConsent
<1> QED  BY <1>1, Invariance, PTL

(***************************************************************************)
(* Spacing and single use.                                                 *)
(***************************************************************************)

(* What last_polled_at, or the stamp a TouchPoll is about to write, is to  *)
(* the last clean poll that passed.  Nothing else stamps while a clean     *)
(* TouchPoll is under way, so its snapshot is as new as that poll.         *)
Spaced ==
  /\ Interval <= row.interval
  /\ \A r \in Reqs : Polling(r) => Interval <= req[r].dc.interval
  /\ lastPass <= lastPolled
  /\ \A r \in Reqs : At(r, "update") => lastPass <= req[r].at
  /\ \A r \in clean : At(r, "update") =>
       /\ lastPass <= req[r].last
       /\ \A q \in Reqs : At(q, "update") => q = r
  /\ ~crowded

Gone == IF row.st = "gone" THEN 1 ELSE 0

(* A response to a lone poll, sent or under way, stands for the row's      *)
(* deletion or for a DELETE that failed; while a lone poll has not deleted *)
(* the row, the earlier ones are all owed to failures.                     *)
Paid ==
  /\ \A q, r \in alone : q = r
  /\ count <= failures + Gone
  /\ \A r \in alone : Polling(r) =>
       IF At(r, "respond") THEN count < failures + Gone ELSE count <= failures

PInv == Spaced /\ Paid

(* Facts about types the arithmetic needs. *)
LEMMA Numbers ==
  ASSUME IInv
  PROVE  /\ now \in Nat /\ lastPolled \in 0..(now + 1) /\ lastPass \in 0..(now + 1)
         /\ count \in Nat /\ failures \in Nat /\ row \in Row /\ row.interval \in Nat
         /\ req \in [Reqs -> Req] /\ alone \subseteq Reqs /\ clean \subseteq Reqs
         /\ \A r \in Reqs : /\ req[r] \in Req /\ req[r].dc.interval \in Nat
                            /\ req[r].at \in Nat /\ req[r].last \in Nat
<1>1. /\ now \in Nat /\ lastPolled \in 0..(now + 1) /\ lastPass \in 0..(now + 1)
      /\ count \in Nat /\ failures \in Nat /\ row \in Row
      /\ req \in [Reqs -> Req] /\ alone \subseteq Reqs /\ clean \subseteq Reqs
  BY DeviceConstants DEF IInv, TypeOK
<1> QED  BY <1>1, DeviceConstants DEF Row, Req

(* A step that changes neither the history nor whether the row is there,   *)
(* and only ends polls.                                                    *)
LEMMA OtherStep ==
  ASSUME IInv, PInv,
         UNCHANGED <<lastPolled, lastPass, crowded, alone, clean, count, failures>>,
         row'.st = "gone" <=> row.st = "gone", row.interval <= row'.interval,
         row'.interval \in Nat,
         \A q \in Reqs : Polling(q)' => Polling(q) /\ req'[q] = req[q]
  PROVE  PInv'
<1>1. Gone' = Gone
  BY DEF Gone
<1>2. \A q \in Reqs : At(q, "update")' => At(q, "update") /\ req'[q] = req[q]
  BY DEF Polling
<1>3. Interval <= row'.interval
  BY Numbers, DeviceConstants DEF PInv, Spaced
<1>4. \A q \in Reqs : Polling(q)' => Interval <= req'[q].dc.interval
  BY DEF PInv, Spaced
<1>5. Spaced'
  BY <1>2, <1>3, <1>4, Numbers DEF PInv, Spaced
<1>6. Paid'
  BY <1>1, Numbers DEF PInv, Paid, Polling
<1> QED  BY <1>5, <1>6 DEF PInv

(* A step of a poll that is neither in TouchPoll nor at its DELETE.        *)
LEMMA LaterStep ==
  ASSUME IInv, PInv, NEW r \in Reqs, Decide(r) \/ Issue(r)
  PROVE  PInv'
<1> USE Numbers
<1>1. /\ \A q \in Reqs \ {r} : req'[q] = req[q]
      /\ Polling(r) /\ ~At(r, "respond")
      /\ req'[r].pc \in {"idle", "issue", "delete"}
      /\ Polling(r)' => req'[r].dc = req[r].dc
  BY IdleOK DEF Decide, Issue, Goto, Finish, Polling, Req
<1>2. UNCHANGED <<row, lastPolled, history>>
  BY DEF Decide, Issue
<1>3. \A q \in Reqs : At(q, "update")' => At(q, "update") /\ req'[q] = req[q]
  BY <1>1
<1>4. \A q \in Reqs : Polling(q)' => Interval <= req'[q].dc.interval
  BY <1>1 DEF PInv, Spaced, Polling
<1>5. Spaced'
  BY <1>2, <1>3, <1>4 DEF PInv, Spaced, history
<1>6. Paid'
  <2>1. Gone' = Gone
    BY <1>2 DEF Gone
  <2> QED  BY <1>1, <1>2, <2>1 DEF PInv, Paid, Polling, history
<1> QED  BY <1>5, <1>6 DEF PInv

LEMMA BeginStep ==
  ASSUME IInv, PInv, NEW r \in Reqs, GetByDeviceCode(r)
  PROVE  PInv'
<1> USE Numbers
<1>1. /\ req'[r].pc = "touch" /\ req'[r].dc = row
      /\ \A q \in Reqs \ {r} : req'[q] = req[q]
  BY IdleOK DEF GetByDeviceCode, Req
<1>2. /\ UNCHANGED <<row, lastPolled, count, failures, clean, lastPass, crowded>>
      /\ row.st # "gone"
      /\ alone' = alone \ {r} \/ (alone' = {r} /\ \A q \in Reqs : ~Polling(q))
  BY DEF GetByDeviceCode
<1>3. \A q \in Reqs : At(q, "update")' => At(q, "update") /\ req'[q] = req[q]
  BY <1>1
<1>4. \A q \in Reqs : Polling(q)' => Interval <= req'[q].dc.interval
  BY <1>1 DEF PInv, Spaced, Polling
<1>5. Spaced'
  BY <1>2, <1>3, <1>4 DEF PInv, Spaced
<1>6. Paid'
  <2>1. Gone' = 0 /\ Gone = 0
    BY <1>2 DEF Gone
  <2> QED  BY <1>1, <1>2, <2>1 DEF PInv, Paid, Polling
<1> QED  BY <1>5, <1>6 DEF PInv

LEMMA TouchStep ==
  ASSUME IInv, PInv, NEW r \in Reqs, TouchPoll(r)
  PROVE  PInv'
<1> USE Numbers
<1>1. /\ req'[r].pc = "update" /\ req'[r].dc = req[r].dc
      /\ req'[r].at = now + 1 /\ req'[r].last = lastPolled
      /\ \A q \in Reqs \ {r} : req'[q] = req[q]
      /\ At(r, "touch")
  BY DEF TouchPoll, Req
<1>2. /\ UNCHANGED <<row, lastPolled, count, failures, alone, lastPass, crowded>>
      /\ clean' = {} \/ (clean' = {r} /\ \A q \in Reqs : ~At(q, "update"))
  BY DEF TouchPoll
<1>3. \A q \in Reqs : Polling(q)' => Interval <= req'[q].dc.interval
  BY <1>1 DEF PInv, Spaced, Polling
<1>4. \A q \in Reqs : At(q, "update")' => lastPass <= req'[q].at
  BY <1>1 DEF PInv, Spaced
<1>5. \A q \in clean' : At(q, "update")' =>
        /\ lastPass <= req'[q].last
        /\ \A p \in Reqs : At(p, "update")' => p = q
  BY <1>1, <1>2 DEF PInv, Spaced
<1>6. Spaced'
  BY <1>2, <1>3, <1>4, <1>5 DEF PInv, Spaced
<1>7. Paid'
  <2>1. Gone' = Gone
    BY <1>2 DEF Gone
  <2> QED  BY <1>1, <1>2, <2>1 DEF PInv, Paid, Polling
<1> QED  BY <1>6, <1>7 DEF PInv

LEMMA UpdateStep ==
  ASSUME IInv, PInv, NEW r \in Reqs, TouchPollUpdate(r)
  PROVE  PInv'
<1> USE Numbers
<1>1. /\ \A q \in Reqs \ {r} : req'[q] = req[q]
      /\ req'[r].dc = req[r].dc /\ req'[r].pc \in {"slow", "decide"}
      /\ At(r, "update")
  <2>1. PICK l \in {"slow", "decide"} :
          req' = [req EXCEPT ![r] = [req[r] EXCEPT !.pc = l, !.at = 0, !.last = 0]]
    BY DEF TouchPollUpdate
  <2>2. At(r, "update")
    BY DEF TouchPollUpdate
  <2> QED  BY <2>1, <2>2 DEF Req
<1>2. /\ UNCHANGED <<now, row, alone, count, failures>>
      /\ clean' = clean \ {r}
      /\ lastPolled' = req[r].at \/ lastPolled' = lastPolled
      /\ \/ UNCHANGED <<lastPass, crowded>>
         \/ /\ r \in clean /\ ~TooFast(r) /\ lastPolled' = req[r].at /\ lastPass' = req[r].at
            /\ crowded' = (crowded \/ (lastPass > 0 /\ now + 1 - lastPass < Interval))
  BY DEF TouchPollUpdate, Stamp, Passed
<1>3. /\ Interval <= req[r].dc.interval /\ lastPass <= req[r].at /\ lastPass <= lastPolled
      /\ ~crowded
  BY <1>1 DEF PInv, Spaced, Polling
<1>4. \A q \in Reqs : Polling(q)' => Interval <= req'[q].dc.interval
  BY <1>1 DEF PInv, Spaced, Polling
<1>5. Spaced'
  <2>1. CASE UNCHANGED <<lastPass, crowded>>
    BY <1>1, <1>2, <1>3, <1>4, <2>1 DEF PInv, Spaced
  <2>2. CASE /\ r \in clean /\ ~TooFast(r) /\ lastPolled' = req[r].at /\ lastPass' = req[r].at
             /\ crowded' = (crowded \/ (lastPass > 0 /\ now + 1 - lastPass < Interval))
    <3>1. lastPass <= req[r].last /\ \A q \in Reqs : At(q, "update") => q = r
      BY <1>1, <2>2 DEF PInv, Spaced
    <3>2. ~(lastPass > 0 /\ now + 1 - lastPass < Interval)
      BY <1>3, <2>2, <3>1, DeviceConstants DEF TooFast
    <3>3. ~crowded'
      BY <1>3, <2>2, <3>2, Zenon
    <3>4. \A q \in Reqs : ~At(q, "update")'
      BY <1>1, <3>1
    <3>5. lastPass' <= lastPolled' /\ Interval <= row'.interval
      BY <1>2, <2>2 DEF PInv, Spaced
    <3> QED  BY <1>2, <1>4, <3>3, <3>4, <3>5 DEF Spaced
  <2> QED  BY <1>2, <2>1, <2>2
<1>6. Paid'
  <2>1. Gone' = Gone
    BY <1>2 DEF Gone
  <2> QED  BY <1>1, <1>2, <2>1 DEF PInv, Paid, Polling
<1> QED  BY <1>5, <1>6 DEF PInv

LEMMA DeleteStep ==
  ASSUME IInv, PInv, NEW r \in Reqs, Delete(r)
  PROVE  PInv'
<1> USE Numbers
<1>1. /\ \A q \in Reqs \ {r} : req'[q] = req[q]
      /\ req'[r].dc = req[r].dc /\ req'[r].pc = "respond"
      /\ At(r, "delete")
  BY DEF Delete, Goto, Req
<1>2. /\ UNCHANGED <<lastPolled, alone, count, clean, lastPass, crowded>>
      /\ row'.interval = row.interval
      /\ \/ row'.st = "gone" /\ failures' = failures
         \/ r \in alone /\ row' = row /\ failures' = failures + 1
         \/ r \notin alone /\ row' = row /\ failures' = failures
  BY DEF Delete, Row
<1>3. \A q \in Reqs : At(q, "update")' => At(q, "update") /\ req'[q] = req[q]
  BY <1>1
<1>4. \A q \in Reqs : Polling(q)' => Interval <= req'[q].dc.interval
  BY <1>1 DEF PInv, Spaced, Polling
<1>5. Spaced'
  BY <1>2, <1>3, <1>4 DEF PInv, Spaced
<1>6. Paid'
  <2>1. Gone \in {0, 1} /\ Gone' \in {0, 1}
    BY DEF Gone
  <2>2. Gone <= Gone' /\ failures <= failures' /\ failures' \in Nat
    BY <1>2 DEF Gone
  <2>3. r \in alone => count <= failures /\ failures + 1 <= failures' + Gone'
    BY <1>1, <1>2, <2>1 DEF PInv, Paid, Polling, Gone
  <2>4. count' <= failures' + Gone'
    BY <1>2, <2>1, <2>2 DEF PInv, Paid
  <2>5. ASSUME NEW q \in alone, Polling(q)'
        PROVE  IF At(q, "respond")' THEN count < failures' + Gone' ELSE count <= failures'
    <3>1. CASE q = r
      BY <1>1, <2>1, <2>2, <2>3, <3>1
    <3>2. CASE q # r
      <4>1. q \in Reqs /\ req'[q] = req[q] /\ Polling(q)
        BY <1>1, <2>5, <3>2 DEF Polling
      <4> QED  BY <2>1, <2>2, <4>1 DEF PInv, Paid
    <3> QED  BY <3>1, <3>2
  <2> QED  BY <1>2, <2>4, <2>5 DEF PInv, Paid
<1> QED  BY <1>5, <1>6 DEF PInv

LEMMA RespondStep ==
  ASSUME IInv, PInv, NEW r \in Reqs, Respond(r)
  PROVE  PInv'
<1> USE Numbers
<1>1. /\ \A q \in Reqs \ {r} : req'[q] = req[q]
      /\ ~Polling(r)' /\ At(r, "respond") /\ Polling(r)
  BY IdleOK DEF Respond, Finish, Polling
<1>2. /\ UNCHANGED <<row, lastPolled, alone, failures, clean, lastPass, crowded>>
      /\ count' = IF r \in alone THEN count + 1 ELSE count
  BY DEF Respond
<1>3. \A q \in Reqs : Polling(q)' => Polling(q) /\ req'[q] = req[q]
  BY <1>1 DEF Polling
<1>4. \A q \in Reqs : At(q, "update")' => At(q, "update") /\ req'[q] = req[q]
  BY <1>1 DEF Polling
<1>5. Spaced'
  BY <1>2, <1>3, <1>4 DEF PInv, Spaced
<1>6. Paid'
  <2>1. Gone' = Gone /\ Gone \in {0, 1}
    BY <1>2 DEF Gone
  <2>2. CASE r \in alone
    <3>1. \A q \in alone : ~Polling(q)'
      BY <1>1, <2>2 DEF PInv, Paid
    <3>2. count' <= failures' + Gone'
      BY <1>1, <1>2, <2>1, <2>2 DEF PInv, Paid
    <3> QED  BY <1>2, <3>1, <3>2 DEF PInv, Paid
  <2>3. CASE r \notin alone
    BY <1>2, <1>3, <2>1, <2>3 DEF PInv, Paid, Polling
  <2> QED  BY <2>2, <2>3
<1> QED  BY <1>5, <1>6 DEF PInv

LEMMA PollInit == Init => PInv
BY DeviceConstants, IdleOK DEF Init, PInv, Polling, Spaced, Paid, Gone, NewRow

LEMMA PollNext == IInv /\ PInv /\ [Next]_vars => PInv'
<1> SUFFICES ASSUME IInv, PInv, [Next]_vars PROVE PInv'
  OBVIOUS
<1> USE Numbers
<1>1. CASE Tick \/ UNCHANGED vars
  BY <1>1, OtherStep DEF Tick, vars, history, Polling
<1>2. CASE \E u \in Users : DeleteUser(u)
  <2>1. (row'.st = "gone" <=> row.st = "gone") /\ row'.interval = row.interval
    BY <1>2 DEF DeleteUser, Row
  <2> QED  BY <1>2, <2>1, OtherStep DEF DeleteUser, history, Polling
<1>3. ASSUME NEW r \in Reqs,
             \/ \E u \in Users : DeviceConsentSubmit(r, u)
             \/ Authorize(r) \/ Deny(r) \/ SlowDown(r) \/ Abort(r)
      PROVE  PInv'
  <2>1. /\ row'.st = "gone" <=> row.st = "gone"
        /\ row'.interval \in Nat /\ row.interval <= row'.interval
    <3>1. CASE SlowDown(r)
      <4>1. row' = row \/ row' = [row EXCEPT !.interval = @ + SlowStep]
        BY <3>1 DEF SlowDown
      <4> QED  BY <4>1, DeviceConstants DEF Row
    <3>2. CASE ~SlowDown(r)
      <4>1. \/ row' = row
            \/ row' = [row EXCEPT !.st = "denied"] /\ row.st # "gone"
            \/ row' = [row EXCEPT !.st = "allowed", !.user = req[r].user] /\ row.st # "gone"
        BY <1>3, <3>2 DEF DeviceConsentSubmit, Authorize, Deny, Abort
      <4>2. (row'.st = "gone" <=> row.st = "gone") /\ row'.interval = row.interval
        BY <4>1 DEF Row
      <4> QED  BY <4>2
    <3> QED  BY <3>1, <3>2
  <2>2. \A q \in Reqs : Polling(q)' => Polling(q) /\ req'[q] = req[q]
    <3>1. CASE \E u \in Users : DeviceConsentSubmit(r, u)
      <4>1. PICK u \in Users : DeviceConsentSubmit(r, u)
        BY <3>1
      <4>2. [IdleReq EXCEPT !.pc = "consent", !.user = u, !.dc = row].pc = "consent"
        BY IdleOK DEF Req
      <4> QED  BY <4>1, <4>2 DEF DeviceConsentSubmit, Polling
    <3>2. CASE req' = [req EXCEPT ![r] = IdleReq]
      BY <3>2, IdleOK DEF Polling
    <3> QED  BY <1>3, <3>1, <3>2 DEF Authorize, Deny, SlowDown, Abort, Finish
  <2>3. UNCHANGED <<lastPolled, lastPass, crowded, alone, clean, count, failures>>
    BY <1>3 DEF DeviceConsentSubmit, Authorize, Deny, SlowDown, Abort, history
  <2> QED  BY <2>1, <2>2, <2>3, OtherStep
<1> QED  BY <1>1, <1>2, <1>3, LaterStep, BeginStep, TouchStep, UpdateStep, DeleteStep,
            RespondStep DEF Next

THEOREM PollInvariance == Spec => []PInv
BY PollInit, PollNext, Invariance, PTL DEF Spec

(* Of two polls that pass the interval test, neither of them overlapped by *)
(* another TouchPoll, one ends at least Interval after the other started,  *)
(* whatever number of polls is in flight and whichever of them fail.       *)
THEOREM PollsKeepDistance == Spec => []PollsAreSpaced
<1>1. PInv => PollsAreSpaced
  BY DEF PInv, Spaced, PollsAreSpaced
<1> QED  BY <1>1, PollInvariance, PTL

(* Of the token responses, all but one are owed to a DELETE that failed or *)
(* to a poll that began while another was in flight.                       *)
THEOREM CodeIsSpent == Spec => []CodeRedeemedOnce
<1>1. IInv /\ PInv => CodeRedeemedOnce
  <2> SUFFICES ASSUME IInv, PInv PROVE count <= 1 + failures
    BY DEF CodeRedeemedOnce
  <2>1. count \in Nat /\ failures \in Nat
    BY DEF IInv, TypeOK
  <2> QED  BY <2>1 DEF PInv, Paid, Gone
<1> QED  BY <1>1, Invariance, PollInvariance, PTL
=============================================================================
