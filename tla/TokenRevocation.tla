-------------------------- MODULE TokenRevocation --------------------------
(***************************************************************************)
(* Revocation of access tokens: the Redis revocation list, the             *)
(* introspection endpoint with its Redis response cache, the revocation    *)
(* endpoint, and the revocation caused by a replayed authorization code.   *)
(*                                                                         *)
(* The list and the cache are separate keys and no handler updates them    *)
(* together, so each Redis command is an action.  An entry that expires at *)
(* time e is present while clock < e; a signed token verifies while clock  *)
(* is before its exp.  No name is also one of TokenEndpoint, so that       *)
(* TokenProofs can extend both.                                            *)
(***************************************************************************)
EXTENDS Integers

CONSTANTS
  Tokens,     \* access tokens
  Refresh,    \* refresh tokens, which are opaque values
  Calls,      \* request slots: handlers that can be in flight at once
  TTLs,       \* values an administrator gives access_token_ttl
  CacheTTL,   \* lifetime of a cached active response (30 s)
  NegTTL,     \* lifetime of a cached inactive response (10 s)
  MaxClock    \* bound on the clock

ASSUME RevocationConstants ==
  /\ Tokens # {} /\ Tokens \cap Refresh = {}
  /\ TTLs \subseteq Nat \ {0}
  /\ CacheTTL \in Nat \ {0}
  /\ NegTTL \in Nat \ {0}
  /\ MaxClock \in Nat

VARIABLES
  clock,      \* the clock
  ttl,        \* tc.AccessTokenTTL after the overrides
  exp,        \* exp of each token; 0 before it is issued
  blocked,    \* expiry of the token's key in the revocation list; 0 if none
  cache,      \* the cached introspection response of each token
  liveRT,     \* refresh tokens with revoked_at IS NULL
  call,       \* the locals of each handler
  answered,   \* values whose revocation was answered with success (history)
  cut         \* tokens whose revocation failed, or was cut short (history)

revVars == <<clock, ttl, exp, blocked, cache, liveRT, call, answered, cut>>

NoEntry == [active |-> FALSE, until |-> 0]
AnyToken == CHOOSE t \in Tokens : TRUE

(* The locals of a handler: the token, the answer it will give, and        *)
(* whether that answer was made without the revocation list.               *)
Call == [pc : {"idle", "check", "fill", "del"}, tok : Tokens, active : BOOLEAN, blind : BOOLEAN]
Idle == [pc |-> "idle", tok |-> AnyToken, active |-> FALSE, blind |-> FALSE]

(* The types of the keys and of the locals of the handlers; no key gets a  *)
(* negative lifetime.                                                      *)
RevTypeOK ==
  /\ clock \in 0..MaxClock
  /\ ttl \in TTLs
  /\ exp \in [Tokens -> Nat]
  /\ blocked \in [Tokens -> Nat]
  /\ cache \in [Tokens -> [active : BOOLEAN, until : Nat]]
  /\ liveRT \subseteq Refresh
  /\ call \in [Calls -> Call]
  /\ answered \subseteq Tokens \cup Refresh
  /\ cut \subseteq Tokens

RevInit ==
  /\ clock = 0
  /\ ttl \in TTLs
  /\ exp = [t \in Tokens |-> 0]
  /\ blocked = [t \in Tokens |-> 0]
  /\ cache = [t \in Tokens |-> NoEntry]
  /\ liveRT = Refresh
  /\ call = [r \in Calls |-> Idle]
  /\ answered = {}
  /\ cut = {}

Begin(r, l, t) ==
  /\ call[r].pc = "idle"
  /\ call' = [call EXCEPT ![r] = [pc |-> l, tok |-> t, active |-> FALSE, blind |-> FALSE]]

In(r, l) == call[r].pc = l
End(r) == call' = [call EXCEPT ![r] = Idle]

(* VerifyAccessToken, IsRevoked, and a hit of the introspection cache. *)
Verifies(t) == clock < exp[t]
IsRevoked(t) == clock < blocked[t]
Cached(t) == clock < cache[t].until

(***************************************************************************)
(* Introspection.  A cache hit is returned as it is and changes nothing.   *)
(***************************************************************************)

IntrospectMiss(r, t) ==
  /\ ~Cached(t)
  /\ Begin(r, "check", t)
  /\ UNCHANGED <<clock, ttl, exp, blocked, cache, liveRT, answered, cut>>

(* Mutant: only the signature is checked. *)
IntrospectUnlisted(r) ==
  /\ In(r, "check")
  /\ call' = [call EXCEPT ![r].pc = "fill", ![r].active = Verifies(call[r].tok)]
  /\ UNCHANGED <<clock, ttl, exp, blocked, cache, liveRT, answered, cut>>

(* Signature and expiry, then the revocation list.  An error of the list   *)
(* is read as "not revoked".                                               *)
Introspect(r) ==
  LET t == call[r].tok
      answer(active, blind) ==
        call' = [call EXCEPT ![r].pc = "fill", ![r].active = active, ![r].blind = blind]
  IN  /\ In(r, "check")
      /\ \/ answer(Verifies(t) /\ ~IsRevoked(t), FALSE)
         \/ answer(Verifies(t), TRUE)
      /\ UNCHANGED <<clock, ttl, exp, blocked, cache, liveRT, answered, cut>>

Lifetime(t, active) ==
  IF ~active \/ exp[t] <= clock THEN NegTTL
  ELSE IF exp[t] - clock > CacheTTL THEN CacheTTL
  ELSE exp[t] - clock

(* SetEx and the answer.  An active response that asks for a step-up is    *)
(* answered without being cached, and a failing SetEx is ignored.          *)
Fill(r) ==
  LET t == call[r].tok
      a == call[r].active
  IN  /\ In(r, "fill")
      /\ \/ cache' = [cache EXCEPT ![t] = [active |-> a, until |-> clock + Lifetime(t, a)]]
         \/ UNCHANGED cache
      /\ End(r)
      /\ UNCHANGED <<clock, ttl, exp, blocked, liveRT, answered, cut>>

(***************************************************************************)
(* Revocation.                                                             *)
(***************************************************************************)

(* Mutant: the revocation entry lives as long as a cache entry. *)
RevokeAccessTokenBriefly(r, t) ==
  /\ Verifies(t)
  /\ Begin(r, "del", t)
  /\ blocked' = [blocked EXCEPT ![t] = clock + CacheTTL]
  /\ cut' = cut \ {t}
  /\ UNCHANGED <<clock, ttl, exp, cache, liveRT, answered>>

(* RevokeAccessToken blocks the jti for the token's remaining lifetime. *)
RevokeAccessToken(r, t) ==
  /\ Verifies(t)
  /\ Begin(r, "del", t)
  /\ blocked' = [blocked EXCEPT ![t] = exp[t]]
  /\ cut' = cut \ {t}
  /\ UNCHANGED <<clock, ttl, exp, cache, liveRT, answered>>

(* The SET returns an error, executed or not.  The handler takes the value *)
(* for a refresh token, finds no row of it, leaves the cached response and *)
(* answers as if it had revoked the token.                                 *)
RevokeAccessTokenFails(t) ==
  /\ Verifies(t)
  /\ blocked' \in {blocked, [blocked EXCEPT ![t] = exp[t]]}
  /\ answered' = answered \cup {t}
  /\ cut' = IF t \in answered THEN cut ELSE cut \cup {t}
  /\ UNCHANGED <<clock, ttl, exp, cache, liveRT, call>>

(* The cached response is dropped, unless that fails too, and the client   *)
(* is answered.                                                            *)
DropCached(r) ==
  LET t == call[r].tok
  IN  /\ In(r, "del")
      /\ \/ cache' = [cache EXCEPT ![t] = NoEntry]
         \/ UNCHANGED cache
      /\ answered' = answered \cup {t}
      /\ End(r)
      /\ UNCHANGED <<clock, ttl, exp, blocked, liveRT, cut>>

(* Revoke of a refresh token, with or without token_type_hint.  Without    *)
(* it, RevokeAccessToken ignores a value that is no valid access token and *)
(* reports success, so RevokeRefreshTokenByValue is not called; where it   *)
(* is, its error is ignored.                                               *)
RevokeRefreshToken(t, hint) ==
  /\ \/ hint /\ liveRT' = liveRT \ {t}
     \/ UNCHANGED liveRT
  /\ answered' = answered \cup {t}
  /\ UNCHANGED <<clock, ttl, exp, blocked, cache, call, cut>>

(* A replayed code blocks the jti for the lifetime configured now; the     *)
(* cached response stays.                                                  *)
RevokeOnReplay(t) ==
  /\ exp[t] > 0
  /\ blocked' = [blocked EXCEPT ![t] = clock + ttl]
  /\ cut' = IF clock + ttl < exp[t] THEN cut \cup {t} ELSE cut \ {t}
  /\ answered' = answered \cup {t}
  /\ UNCHANGED <<clock, ttl, exp, cache, liveRT, call>>

(***************************************************************************)
(* Issuance, the administrator, failures and the clock.                    *)
(***************************************************************************)

Issue(t) ==
  /\ exp[t] = 0
  /\ exp' = [exp EXCEPT ![t] = clock + ttl]
  /\ UNCHANGED <<clock, ttl, blocked, cache, liveRT, call, answered, cut>>

SetTTL(d) ==
  /\ ttl' = d
  /\ UNCHANGED <<clock, exp, blocked, cache, liveRT, call, answered, cut>>

(* The replica dies, or the request is cancelled. *)
Cancel(r) ==
  /\ call[r].pc # "idle"
  /\ End(r)
  /\ UNCHANGED <<clock, ttl, exp, blocked, cache, liveRT, answered, cut>>

ClockTick ==
  /\ clock < MaxClock
  /\ clock' = clock + 1
  /\ UNCHANGED <<ttl, exp, blocked, cache, liveRT, call, answered, cut>>

RevNext ==
  \/ ClockTick
  \/ \E d \in TTLs : SetTTL(d)
  \/ \E t \in Tokens : Issue(t) \/ RevokeOnReplay(t) \/ RevokeAccessTokenFails(t)
  \/ \E t \in Refresh, hint \in BOOLEAN : RevokeRefreshToken(t, hint)
  \/ \E r \in Calls :
       \/ \E t \in Tokens : IntrospectMiss(r, t) \/ RevokeAccessToken(r, t)
       \/ Introspect(r) \/ Fill(r) \/ DropCached(r) \/ Cancel(r)

RevSpec == RevInit /\ [][RevNext]_revVars

(***************************************************************************)
(* Properties.                                                             *)
(***************************************************************************)

(* Access tokens revoked for good. *)
ForGood == (answered \cap Tokens) \ cut

(* A token whose revocation was answered is on the revocation list for as  *)
(* long as its signature verifies, so UserInfo and every other reader of   *)
(* the list refuses it, whichever revocations wrote the key, in whichever  *)
(* order, and whatever access_token_ttl was meanwhile.  The exceptions are *)
(* tokens none of whose answered revocations has written the list without  *)
(* an error, and tokens whose key a replay wrote last while                *)
(* access_token_ttl was less than what the token had left.                 *)
RevokedIsListed ==
  \A t \in ForGood : Verifies(t) => IsRevoked(t)

(* No handler that has read the list holds an "active" answer about t that *)
(* is yet to be given.                                                     *)
Drained(t) ==
  \A r \in Calls : ~(In(r, "fill") /\ call[r].tok = t /\ call[r].active /\ ~call[r].blind)

(* A handler holds an answer about t made without the list. *)
Unread(t) == \E r \in Calls : In(r, "fill") /\ call[r].tok = t /\ call[r].blind

(* A revoked token can still be reported active out of the cache, because  *)
(* an introspection that read the list before the revocation fills the     *)
(* cache after it, or the cached answer could not be dropped.  That is     *)
(* all: once those introspections are through, no other one that reads the *)
(* list finds the token active, and no "active" enters the cache except by *)
(* one whose read of the list failed.                                      *)
StaleAnswersDieOut ==
  [][\A t \in ForGood \cap ForGood' :
       Drained(t) =>
         /\ Drained(t)'
         /\ cache'[t].active => cache'[t] = cache[t] \/ Unread(t)]_revVars
=============================================================================
