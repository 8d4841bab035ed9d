----------------------------- MODULE DeviceFlow -----------------------------
(***************************************************************************)
(* The device authorization grant (RFC 8628): a device polls the token     *)
(* endpoint while users decide in a browser.  One row of device_codes is   *)
(* modelled.  No handler uses a transaction, so one action is one          *)
(* statement; TouchPoll is two actions, because its sub-select reads the   *)
(* snapshot taken when the statement starts and the row may be updated by  *)
(* another statement before this one gets the row lock.                    *)
(***************************************************************************)
EXTENDS Naturals

CONSTANTS
  Users,        \* users that may decide on the code
  NoUser,       \* user_id IS NULL
  Reqs,         \* request slots: handlers that can be in flight at once
  Interval,     \* poll_interval of a new row
  SlowStep,     \* what SlowDown adds to it
  MaxInterval,  \* bound on poll_interval
  TTL,          \* lifetime of the code
  MaxTime,      \* bound on the clock
  MaxFail       \* bound on the DELETEs that fail

ASSUME DeviceConstants ==
  /\ NoUser \notin Users
  /\ SlowStep \in Nat /\ MaxInterval \in Nat /\ Interval \in 0..MaxInterval
  /\ TTL \in Nat /\ MaxTime \in Nat /\ MaxFail \in Nat

VARIABLES
  now,          \* the clock
  row,          \* is_authorized, user_id and poll_interval, or that the row is gone
  lastPolled,   \* last_polled_at plus one; 0 while it is NULL
  deleted,      \* users whose row was deleted
  req,          \* the locals of each handler
  allowedBy,    \* users that allowed the device (history)
  responses,    \* users named by token responses that were sent (history)
  alone,        \* polls that began while no other was in flight (history)
  count,        \* token responses to such polls (history)
  failures,     \* DELETEs of such polls that failed (history)
  clean,        \* TouchPolls no other TouchPoll has overlapped (history)
  lastPass,     \* start of the last of them to pass the interval test, plus one (history)
  crowded       \* one of them passed it too early (history)

history == <<allowedBy, responses, alone, count, failures, clean, lastPass, crowded>>

vars == <<now, row, lastPolled, deleted, req, history>>

Row == [st : {"pending", "allowed", "denied", "gone"},
        user : Users \cup {NoUser},
        interval : 0..MaxInterval]

(* dc is the handler's copy of the row; at and last are when TouchPoll     *)
(* started (NOW() of its UPDATE) and what its snapshot saw.                *)
Req == [pc : {"idle", "consent", "touch", "update", "slow", "decide",
              "issue", "delete", "respond"},
        user : Users \cup {NoUser}, dc : Row, at : 0..(MaxTime + 1), last : 0..(MaxTime + 1)]

NewRow == [st |-> "pending", user |-> NoUser, interval |-> Interval]
IdleReq == [pc |-> "idle", user |-> NoUser, dc |-> NewRow, at |-> 0, last |-> 0]

(* The types, and that last_polled_at is never in the future. *)
TypeOK ==
  /\ now \in 0..MaxTime
  /\ row \in Row
  /\ lastPolled \in 0..(now + 1)
  /\ deleted \subseteq Users
  /\ req \in [Reqs -> Req]
  /\ allowedBy \subseteq Users
  /\ responses \subseteq Users
  /\ alone \subseteq Reqs
  /\ count \in Nat
  /\ failures \in Nat
  /\ clean \subseteq Reqs
  /\ lastPass \in 0..(now + 1)
  /\ crowded \in BOOLEAN

Init ==
  /\ now = 0
  /\ row = NewRow
  /\ lastPolled = 0
  /\ deleted = {}
  /\ req = [r \in Reqs |-> IdleReq]
  /\ allowedBy = {}
  /\ responses = {}
  /\ alone = {}
  /\ count = 0
  /\ failures = 0
  /\ clean = {}
  /\ lastPass = 0
  /\ crowded = FALSE

At(r, l) == req[r].pc = l
Goto(r, l) == req' = [req EXCEPT ![r].pc = l]
Finish(r) == req' = [req EXCEPT ![r] = IdleReq]
Expired == now > TTL

(***************************************************************************)
(* Consent in the browser.                                                 *)
(***************************************************************************)

(* GetByID: the code is known, not expired and not decided yet.  The SSO   *)
(* session names the user.                                                 *)
DeviceConsentSubmit(r, u) ==
  /\ At(r, "idle")
  /\ row.st = "pending" /\ ~Expired
  /\ req' = [req EXCEPT ![r] = [IdleReq EXCEPT !.pc = "consent", !.user = u, !.dc = row]]
  /\ UNCHANGED <<now, row, lastPolled, deleted, history>>

(* The UPDATE asks nothing of the row but that it exists; the foreign key  *)
(* refuses a deleted user.                                                 *)
Authorize(r) ==
  /\ At(r, "consent")
  /\ req[r].user \notin deleted
  /\ row' = IF row.st = "gone" THEN row
            ELSE [row EXCEPT !.st = "allowed", !.user = req[r].user]
  /\ allowedBy' = allowedBy \cup {req[r].user}
  /\ Finish(r)
  /\ UNCHANGED <<now, lastPolled, deleted, responses, alone, count, failures, clean,
                 lastPass, crowded>>

Deny(r) ==
  /\ At(r, "consent")
  /\ row' = IF row.st = "gone" THEN row ELSE [row EXCEPT !.st = "denied"]
  /\ Finish(r)
  /\ UNCHANGED <<now, lastPolled, deleted, history>>

(* An administrator deletes a user: device_codes.user_id becomes NULL. *)
DeleteUser(u) ==
  /\ u \notin deleted
  /\ deleted' = deleted \cup {u}
  /\ row' = IF row.user = u THEN [row EXCEPT !.user = NoUser] ELSE row
  /\ UNCHANGED <<now, lastPolled, req, history>>

(***************************************************************************)
(* Polling.                                                                *)
(***************************************************************************)

Polling(r) == req[r].pc \notin {"idle", "consent"}

(* GetByDeviceCode; everything later uses this copy of the row. *)
GetByDeviceCode(r) ==
  /\ At(r, "idle")
  /\ row.st # "gone" /\ ~Expired
  /\ req' = [req EXCEPT ![r] = [IdleReq EXCEPT !.pc = "touch", !.dc = row]]
  /\ alone' = IF \E q \in Reqs : Polling(q) THEN alone \ {r} ELSE {r}
  /\ UNCHANGED <<now, row, lastPolled, deleted, allowedBy, responses, count, failures,
                 clean, lastPass, crowded>>

(* TouchPoll starts: NOW() and the snapshot of its sub-select. *)
TouchPoll(r) ==
  /\ At(r, "touch")
  /\ req' = [req EXCEPT ![r] = [@ EXCEPT !.pc = "update", !.at = now + 1, !.last = lastPolled]]
  /\ clean' = IF \E q \in Reqs : At(q, "update") THEN {} ELSE {r}
  /\ UNCHANGED <<now, row, lastPolled, deleted, allowedBy, responses, alone, count,
                 failures, lastPass, crowded>>

(* Mutant: polls are never too fast. *)
TooFastNever(r) == FALSE

TooFast(r) == req[r].last > 0 /\ now + 1 - req[r].last < req[r].dc.interval

Stamp(r) == lastPolled' = req[r].at

(* A poll that passed the test is compared with the one that passed before *)
(* it, if neither was overlapped.                                          *)
Passed(r) ==
  \/ /\ r \in clean
     /\ lastPass' = req[r].at
     /\ crowded' = (crowded \/ (lastPass > 0 /\ now + 1 - lastPass < Interval))
  \/ r \notin clean /\ UNCHANGED <<lastPass, crowded>>

(* TouchPoll updates the row and tests the interval.  Its error, whether   *)
(* it finds no row, fails, or loses the answer to its UPDATE, is ignored:  *)
(* the handler goes on as if the poll had passed.                          *)
TouchPollUpdate(r) ==
  LET return(l) == req' = [req EXCEPT ![r] = [@ EXCEPT !.pc = l, !.at = 0, !.last = 0]]
  IN
  /\ At(r, "update")
  /\ \/ /\ row.st # "gone" /\ Stamp(r)
        /\ \/ TooFast(r) /\ return("slow") /\ UNCHANGED <<lastPass, crowded>>
           \/ ~TooFast(r) /\ return("decide") /\ Passed(r)
     \/ /\ (row.st # "gone" /\ Stamp(r)) \/ UNCHANGED lastPolled
        /\ return("decide")
        /\ UNCHANGED <<lastPass, crowded>>
  /\ clean' = clean \ {r}
  /\ UNCHANGED <<now, row, deleted, allowedBy, responses, alone, count, failures>>

(* A device that polls too fast has to wait longer from now on. *)
SlowDown(r) ==
  /\ At(r, "slow")
  /\ row.interval + SlowStep <= MaxInterval
  /\ row' = IF row.st = "gone" THEN row ELSE [row EXCEPT !.interval = @ + SlowStep]
  /\ Finish(r)
  /\ UNCHANGED <<now, lastPolled, deleted, history>>

(* Mutant: NULL is read as TRUE. *)
DecideNull(r) ==
  /\ At(r, "decide")
  /\ \/ req[r].dc.st # "denied" /\ Goto(r, "issue")
     \/ req[r].dc.st = "denied" /\ Finish(r)
  /\ UNCHANGED <<now, row, lastPolled, deleted, history>>

(* is_authorized is tested, then user_id dereferenced without a test: the *)
(* handler panics when the foreign key has set it to NULL, and recovery in *)
(* the middleware ends the request as an error would.                      *)
Decide(r) ==
  /\ At(r, "decide")
  /\ \/ /\ req[r].dc.st = "allowed" /\ req[r].dc.user # NoUser
        /\ Goto(r, "issue")
     \/ /\ req[r].dc.st # "allowed" \/ req[r].dc.user = NoUser
        /\ Finish(r)
  /\ UNCHANGED <<now, row, lastPolled, deleted, history>>

(* The user is read, the tokens are signed and the refresh token stored:   *)
(* its foreign key refuses a deleted user.                                 *)
Issue(r) ==
  /\ At(r, "issue")
  /\ req[r].dc.user \notin deleted
  /\ Goto(r, "delete")
  /\ UNCHANGED <<now, row, lastPolled, deleted, history>>

(* Mutant: the row stays after the exchange. *)
DeleteForgotten(r) ==
  /\ At(r, "delete")
  /\ Goto(r, "respond")
  /\ UNCHANGED <<now, row, lastPolled, deleted, history>>

(* Delete; its error is ignored. *)
Delete(r) ==
  /\ At(r, "delete")
  /\ \/ row' = [row EXCEPT !.st = "gone"] /\ UNCHANGED failures
     \/ r \in alone /\ failures < MaxFail /\ failures' = failures + 1 /\ UNCHANGED row
     \/ r \notin alone /\ UNCHANGED <<row, failures>>
  /\ Goto(r, "respond")
  /\ UNCHANGED <<now, lastPolled, deleted, allowedBy, responses, alone, count, clean,
                 lastPass, crowded>>

Respond(r) ==
  /\ At(r, "respond")
  /\ responses' = responses \cup {req[r].dc.user}
  /\ count' = IF r \in alone THEN count + 1 ELSE count
  /\ Finish(r)
  /\ UNCHANGED <<now, row, lastPolled, deleted, allowedBy, alone, failures, clean,
                 lastPass, crowded>>

(* The user is inactive or deleted, a statement fails, the replica dies. *)
Abort(r) ==
  /\ req[r].pc # "idle"
  /\ Finish(r)
  /\ UNCHANGED <<now, row, lastPolled, deleted, history>>

Tick ==
  /\ now < MaxTime
  /\ now' = now + 1
  /\ UNCHANGED <<row, lastPolled, deleted, req, history>>

Next ==
  \/ Tick
  \/ \E u \in Users : DeleteUser(u)
  \/ \E r \in Reqs :
       \/ \E u \in Users : DeviceConsentSubmit(r, u)
       \/ Authorize(r) \/ Deny(r)
       \/ GetByDeviceCode(r) \/ TouchPoll(r) \/ TouchPollUpdate(r) \/ SlowDown(r)
       \/ Decide(r) \/ Issue(r) \/ Delete(r) \/ Respond(r) \/ Abort(r)

Spec == Init /\ [][Next]_vars

(***************************************************************************)
(* Properties.                                                             *)
(***************************************************************************)

(* However consents and polls overlap, tokens are only sent for a user     *)
(* that allowed the device, although Authorize and Deny overwrite each     *)
(* other and deviceCodeGrant works on an old copy of the row.              *)
TokensNeedConsent == responses \subseteq allowedBy

(* TouchPoll "enforces the minimum poll interval": of two polls that pass  *)
(* its test, one ends at least Interval after the other started, however   *)
(* many polls are in flight, fail or are slowed down in between.  Polls    *)
(* whose TouchPoll overlaps another, and so does not see its stamp, are    *)
(* not counted, nor those that go on because TouchPoll failed.             *)
PollsAreSpaced == ~crowded

(* The DELETE makes a device code single-use: of the token responses, all  *)
(* but one are owed to a DELETE that failed or to a poll that began while  *)
(* another was in flight, however consents, crashes, lost answers and      *)
(* other polls fall in between.                                            *)
CodeRedeemedOnce == count <= 1 + failures
=============================================================================
