------------------------------ MODULE CibaFlow ------------------------------
(***************************************************************************)
(* Client-initiated backchannel authentication in poll mode: a client      *)
(* polls the token endpoint while the request is approved or denied out of *)
(* band, or approved by a wallet that presents a credential.  One row of   *)
(* ciba_requests and the presentation session linked to it are modelled.   *)
(* One action is one statement, except completeBoundCIBA: it is one        *)
(* transaction that holds the row locks of both tables until it commits.   *)
(***************************************************************************)
EXTENDS Naturals

CONSTANTS
  Reqs,         \* request slots: handlers that can be in flight at once
  Interval,     \* polling interval, the lifetime of the Redis poll key
  TTL,          \* lifetime of the request (expires_at)
  MaxTime       \* bound on the clock

ASSUME CibaConstants ==
  Interval \in Nat /\ TTL \in Nat /\ MaxTime \in Nat

VARIABLES
  now,          \* the clock
  row,          \* status and acr of the request, or that it is gone
  session,      \* status of the linked presentation session
  pollKey,      \* when ciba:poll:<auth_req_id> expires; 0 while it is absent
  userDeleted,  \* the user's row was deleted
  req,          \* the locals of each handler
  approvedAt,   \* when the request was approved, plus one; 0 before (history)
  denied,       \* a Deny took effect (history)
  presented,    \* a wallet presentation approved the request (history)
  sent,         \* the acr of the token responses that were sent (history)
  count,        \* token responses sent (history)
  failures,     \* DELETEs that failed (history)
  alone,        \* polls that began while no other was in flight (history)
  excused       \* their failed DELETEs and the other polls' responses (history)

history == <<approvedAt, denied, presented, sent, count, failures, alone, excused>>

vars == <<now, row, session, pollKey, userDeleted, req, history>>

Row == [st : {"pending", "approved", "denied", "gone"}, acr : BOOLEAN]

(* cr is the handler's copy of the row. *)
Req == [pc : {"idle", "approve", "deny", "present", "poll", "status", "cleanup",
              "issue", "delete", "respond"},
        cr : Row]

NewRow == [st |-> "pending", acr |-> FALSE]
IdleReq == [pc |-> "idle", cr |-> NewRow]

(* The types, and that a poll key never outlives the interval. *)
TypeOK ==
  /\ now \in 0..MaxTime
  /\ row \in Row
  /\ session \in {"pending", "verified", "failed"}
  /\ pollKey \in 0..(now + Interval)
  /\ userDeleted \in BOOLEAN
  /\ req \in [Reqs -> Req]
  /\ approvedAt \in 0..(now + 1)
  /\ denied \in BOOLEAN
  /\ presented \in BOOLEAN
  /\ sent \subseteq BOOLEAN
  /\ count \in Nat
  /\ failures \in Nat
  /\ alone \subseteq Reqs
  /\ excused \in Nat

(* BackchannelAuthorize stored the request and its presentation session.   *)
Init ==
  /\ now = 0
  /\ row = NewRow
  /\ session = "pending"
  /\ pollKey = 0
  /\ userDeleted = FALSE
  /\ req = [r \in Reqs |-> IdleReq]
  /\ approvedAt = 0
  /\ denied = FALSE
  /\ presented = FALSE
  /\ sent = {}
  /\ count = 0
  /\ failures = 0
  /\ alone = {}
  /\ excused = 0

At(r, l) == req[r].pc = l
Goto(r, l) == req' = [req EXCEPT ![r].pc = l]
Finish(r) == req' = [req EXCEPT ![r] = IdleReq]

(***************************************************************************)
(* Deciding out of band.                                                   *)
(***************************************************************************)

(* Get: the request exists.  Its status and its expiry are not looked at.  *)
Open(r, l) ==
  /\ At(r, "idle")
  /\ row.st # "gone"
  /\ req' = [req EXCEPT ![r] = [pc |-> l, cr |-> row]]
  /\ UNCHANGED <<now, userDeleted, row, session, pollKey, history>>

CIBAApprove(r) == Open(r, "approve")
CIBADeny(r) == Open(r, "deny")

(* Mutant: the UPDATE does not ask for a pending request. *)
ApproveAny(r) ==
  /\ At(r, "approve")
  /\ row' = IF row.st = "gone" THEN row ELSE [row EXCEPT !.st = "approved"]
  /\ approvedAt' = now + 1
  /\ Finish(r)
  /\ UNCHANGED <<now, userDeleted, session, pollKey, denied, presented, sent, count, failures,
                 alone, excused>>

Approve(r) ==
  /\ At(r, "approve")
  /\ IF row.st = "pending"
       THEN row' = [row EXCEPT !.st = "approved"] /\ approvedAt' = now + 1
       ELSE UNCHANGED <<row, approvedAt>>
  /\ Finish(r)
  /\ UNCHANGED <<now, userDeleted, session, pollKey, denied, presented, sent, count, failures,
                 alone, excused>>

Deny(r) ==
  /\ At(r, "deny")
  /\ IF row.st = "pending"
       THEN row' = [row EXCEPT !.st = "denied"] /\ denied' = TRUE
       ELSE UNCHANGED <<row, denied>>
  /\ Finish(r)
  /\ UNCHANGED <<now, userDeleted, session, pollKey, approvedAt, presented, sent, count, failures,
                 alone, excused>>

(***************************************************************************)
(* Approving with a wallet.                                                *)
(***************************************************************************)

(* The response handler reads the session and whether it is still linked   *)
(* to a request, then verifies the presentation.                           *)
Response(r) ==
  /\ At(r, "idle")
  /\ session = "pending"
  /\ req' = [req EXCEPT ![r] = [pc |-> "present", cr |-> row]]
  /\ UNCHANGED <<now, userDeleted, row, session, pollKey, history>>

(* Mutant: the two transitions are not tied to each other. *)
CompleteUntied(r) ==
  /\ At(r, "present") /\ req[r].cr.st # "gone"
  /\ session = "pending"
  /\ session' = "verified"
  /\ row' = IF row.st = "pending" THEN [st |-> "approved", acr |-> TRUE] ELSE row
  /\ approvedAt' = IF row.st = "pending" THEN now + 1 ELSE approvedAt
  /\ presented' = TRUE
  /\ Finish(r)
  /\ UNCHANGED <<now, userDeleted, pollKey, denied, sent, count, failures,
                 alone, excused>>

(* Both rows are locked while they are pending and not expired, and both   *)
(* transitions commit together.                                            *)
completeBoundCIBA(r) ==
  /\ At(r, "present") /\ req[r].cr.st # "gone"
  /\ session = "pending" /\ row.st = "pending" /\ now < TTL
  /\ session' = "verified"
  /\ row' = [st |-> "approved", acr |-> TRUE]
  /\ approvedAt' = now + 1
  /\ presented' = TRUE
  /\ Finish(r)
  /\ UNCHANGED <<now, userDeleted, pollKey, denied, sent, count, failures,
                 alone, excused>>

(* The link was NULL when the session was read: a standalone presentation. *)
CompleteStandalone(r) ==
  /\ At(r, "present") /\ req[r].cr.st = "gone"
  /\ session = "pending"
  /\ session' = "verified"
  /\ Finish(r)
  /\ UNCHANGED <<now, userDeleted, row, pollKey, history>>

(* The presentation is refused, or names another user. *)
FailPresentationSession(r) ==
  /\ At(r, "present")
  /\ session' = IF session = "pending" THEN "failed" ELSE session
  /\ Finish(r)
  /\ UNCHANGED <<now, userDeleted, row, pollKey, history>>

(***************************************************************************)
(* Polling.                                                                *)
(***************************************************************************)

Polling(r) == req[r].pc \notin {"idle", "approve", "deny", "present"}

(* Get; everything later uses this copy of the row. *)
cibaGrant(r) ==
  /\ At(r, "idle")
  /\ row.st # "gone" /\ now <= TTL
  /\ req' = [req EXCEPT ![r] = [pc |-> "poll", cr |-> row]]
  /\ alone' = IF \E q \in Reqs : Polling(q) THEN alone \ {r} ELSE {r}
  /\ UNCHANGED <<now, userDeleted, row, session, pollKey, approvedAt, denied, presented, sent,
                 count, failures, excused>>

KeyLifetime == Interval

(* SETNX of the poll key; a failure of Redis counts as slow_down. *)
PollKey(r) ==
  /\ At(r, "poll")
  /\ \/ /\ pollKey <= now
        /\ pollKey' = now + KeyLifetime
        /\ Goto(r, "status")
     \/ /\ UNCHANGED pollKey
        /\ Finish(r)
  /\ UNCHANGED <<now, userDeleted, row, session, history>>

Status(r) ==
  /\ At(r, "status")
  /\ \/ req[r].cr.st = "pending" /\ Finish(r)
     \/ req[r].cr.st = "denied" /\ Goto(r, "cleanup")
     \/ req[r].cr.st = "approved" /\ Goto(r, "issue")
  /\ UNCHANGED <<now, userDeleted, row, session, pollKey, history>>

DeleteDenied(r) ==
  /\ At(r, "cleanup")
  /\ row' = [row EXCEPT !.st = "gone"]
  /\ Finish(r)
  /\ UNCHANGED <<now, userDeleted, session, pollKey, history>>

(* The user is read, the tokens are signed with the copy's acr and the     *)
(* refresh token is stored: its foreign key refuses a deleted user.        *)
Issue(r) ==
  /\ At(r, "issue")
  /\ ~userDeleted
  /\ Goto(r, "delete")
  /\ UNCHANGED <<now, userDeleted, row, session, pollKey, history>>

(* Mutant: the row stays after the exchange. *)
DeleteForgotten(r) ==
  /\ At(r, "delete")
  /\ Goto(r, "respond")
  /\ UNCHANGED <<now, userDeleted, row, session, pollKey, history>>

(* "Delete the consumed auth_req"; its error is ignored. *)
Delete(r) ==
  /\ At(r, "delete")
  /\ \/ row' = [row EXCEPT !.st = "gone"] /\ UNCHANGED <<failures, excused>>
     \/ /\ failures' = failures + 1
        /\ excused' = IF r \in alone THEN excused + 1 ELSE excused
        /\ UNCHANGED row
  /\ Goto(r, "respond")
  /\ UNCHANGED <<now, userDeleted, session, pollKey, approvedAt, denied, presented, sent,
                 count, alone>>

Respond(r) ==
  /\ At(r, "respond")
  /\ sent' = sent \cup {req[r].cr.acr}
  /\ count' = count + 1
  /\ excused' = IF r \in alone THEN excused ELSE excused + 1
  /\ Finish(r)
  /\ UNCHANGED <<now, userDeleted, row, session, pollKey, approvedAt, denied, presented,
                 failures, alone>>

(* The user is inactive, a statement fails, a lock is taken, the replica dies. *)
Abort(r) ==
  /\ req[r].pc # "idle"
  /\ Finish(r)
  /\ UNCHANGED <<now, userDeleted, row, session, pollKey, history>>

(* The user is deleted: the foreign key deletes the request with it. *)
DeleteUser ==
  /\ ~userDeleted
  /\ userDeleted' = TRUE
  /\ row' = [row EXCEPT !.st = "gone"]
  /\ UNCHANGED <<now, session, pollKey, req, history>>

Tick ==
  /\ now < MaxTime
  /\ now' = now + 1
  /\ UNCHANGED <<row, session, pollKey, userDeleted, req, history>>

Next ==
  \/ Tick \/ DeleteUser
  \/ \E r \in Reqs :
       \/ CIBAApprove(r) \/ Approve(r) \/ CIBADeny(r) \/ Deny(r)
       \/ Response(r) \/ completeBoundCIBA(r) \/ CompleteStandalone(r)
       \/ FailPresentationSession(r)
       \/ cibaGrant(r) \/ PollKey(r) \/ Status(r) \/ DeleteDenied(r)
       \/ Issue(r) \/ Delete(r) \/ Respond(r) \/ Abort(r)

Spec == Init /\ [][Next]_vars

(***************************************************************************)
(* Properties.                                                             *)
(***************************************************************************)

(* A request that was denied never yields tokens, and one that yields      *)
(* tokens was never denied, although decisions race each other and the     *)
(* poll that issues the tokens works on an old copy of the row.  Tokens    *)
(* are only sent for a request that was approved before it expired,        *)
(* although CIBAApprove does not look at the expiry.                       *)
TokensNeedApproval ==
  /\ denied => count = 0 /\ \A r \in Reqs : ~At(r, "issue")
  /\ count > 0 => approvedAt > 0 /\ approvedAt <= TTL + 1

(* "Account binding and both pending-state transitions commit together": a *)
(* verified session whose request still exists belongs to a request that   *)
(* was approved with that presentation, and tokens claim the presentation  *)
(* (acr) only when it happened.                                            *)
PresentationBindsRequest ==
  /\ session = "verified" /\ row.st # "gone" => row = [st |-> "approved", acr |-> TRUE]
  /\ TRUE \in sent => presented

(* The DELETE makes a request single-use: of the token responses, all but  *)
(* one are owed to a DELETE that failed or to a poll that began while      *)
(* another was in flight, however decisions, presentations, crashes, lost  *)
(* answers and the deletion of the user fall in between.                   *)
RequestRedeemedOnce == count <= 1 + excused

(* "Delete the consumed auth_req to prevent double-spending": the request  *)
(* is not redeemed twice as long as no DELETE fails.  It is: two polls one *)
(* interval apart pass the poll key and are both between Get and Delete.   *)
NoDoubleSpending == count <= 1 + failures
=============================================================================
