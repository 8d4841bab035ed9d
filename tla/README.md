# Clavex: TLA+ specifications, model checks and proofs

Clavex is an identity provider written in Go: an OpenID Connect and OAuth 2
server with wallet credential issuance (OID4VCI), presentation verification
(OID4VP), CIBA, device authorization, SAML and eID connectors, and an audit
log that is sealed into signed checkpoints. Several replicas share one
PostgreSQL database and one Redis, and call Vault for certificate authorities.
A replica keeps no protocol state in memory, the queue of audit events
excepted: every request is a goroutine that issues SQL and Redis statements one after the
other, mostly outside transactions. What can go wrong is therefore what two
requests do between each other's statements, what a crash leaves behind between
two statements, and what a timeout or a retry meets. That is what these modules
model.

## 1. Inventory

### Components that are modelled

| Component | Where the state is | Operations | Hard behaviour | Correct when |
|---|---|---|---|---|
| Token endpoint (`oidc/exchange.go`, `repository/authcodes.go`, `repository/refreshtokens.go`, `handler/oidc.go` Token) | tables `authorization_codes`, `refresh_tokens`; Redis list of revoked jti | exchange a code, replay a code, rotate, recover a lost response, revoke a family, a session or all tokens of a user | no transaction anywhere: rotations, replays and administrators interleave; `replaced_by` is written by a separate statement; crashes between any two | a code starts one family; a replay reaches exactly what the exchange issued; families do not come back, change owner or outlive their first row |
| Token revocation (`oidc/userinfo.go`, `handler/oidc.go` Introspect, Revoke; `session/store.go`) | Redis: revocation list, introspection cache | introspect, revoke, revoke on replay, change `access_token_ttl` | list and cache are two keys, and any Redis command may fail unnoticed; an introspection in flight writes an old answer after the revocation | a revoked token is refused for as long as it verifies; stale answers are not renewed |
| Wallet issuance grants (`handler/oid4vci*.go`, `repository/wallet_issuance.go`, `oid4w*.go`) | offers, grants, wallet tokens, deferred credentials | exchange, rotate, issue, defer, approve, poll, deliver, revoke | preview without lock, then row locks, then checks again; administrators in between; locks must be released | one credential per offer; nothing after revocation or deletion; rights never grow; no request waits for ever |
| Device authorization (`handler/oidc_device.go`, `repository/devicecodes.go`) | one row of `device_codes` | consent, denial, poll, slow down, issue, delete | decisions overwrite each other; the poll decides on an old copy; the foreign key sets `user_id` to NULL | tokens only with consent, once, and polls kept apart by the interval, as far as polls do not overlap |
| CIBA (`handler/ciba.go`, `repository/ciba.go`, `handler/wallet_identity_binding.go`, `handler/oid4vp.go` Response) | a row of `ciba_requests`, its presentation session, a Redis poll key | approve, deny, present a credential, poll, issue, delete | approval, denial, presentation, expiry and polls in any order | denial is final, late approval is useless, `acr` means that the presentation happened, one redemption as far as polls do not overlap |
| Audit dispatcher (`audit/dispatcher.go`, `audit/event.go`, `audit/sinks.go`) | a Go channel, worker and delivery goroutines, channels of live streams; counters of a sink in the database | emit, publish, subscribe, cancel, deliver with retries, stop | a full buffer, lost answers of a sink, a broker that is away, a stream that is cancelled while it is notified, handlers that publish after Stop | Stop drains; one verdict per delivery; duplicates are bounded; no event is left behind |
| Signing keys (`repository/signing_keys.go`, `oidc/org_signer.go`, `handler/org_signing_keys.go`, `*/key_rotation.go`) | tables `signing_keys` and rotation policies | resolve, provision at first use, rotate, import, remove, schedule | key and key sets are read by three statements, rotation and its mark are two; `NOW()` is older than the commit; every replica rotates what is due | one active key; tokens verify for as long as they live; imported keys are not replaced silently; due rotations happen |
| Credential status lists (`repository/credential_status.go`, `oid4w.go`, `worker/wallet_status.go`, `federation/revnet.go`, `handler/gdpr_erasure.go`) | tables `issued_credentials`, `credential_status_lists` | reserve a slot, revoke, suspend, restore, follow parent attestations, revoke for a partner, erase a holder, rely on a credential | the state is kept twice; lists are rewritten as a whole, widened, filled up; external answers are awaited under a lock; locked rows are skipped | registry and list agree, slots are unique, revocation is terminal and arrives, decisions are current |
| CA rotation (`sshca/service.go`, `repository/pam_ssh_ca_rotation.go`, `worker/pam_rotation.go`; `devicepki/rotation.go` alike) | mounts in Vault, configuration and rotations in the database | start, mark ready, complete, abort, clean up, reconcile | Vault and database share no transaction, anything may end after any call | the mount that signs is served, old mounts go after their grace period and only then |
| Audit sealing (`merkle/sealer.go`, `merkle/merkle.go`, `repository/audit_structured.go`) | tables `audit_logs`, `audit_merkle_checkpoints` | write an event, delete expired ones, tick, seal on demand | every replica seals; ids commit out of order; failures between statements | along each branch of the chain no row twice and in order, and no row forgotten |

How they interact: the code replay of the token endpoint writes the revocation
list that introspection reads (`RevokeCodeJTI` in `TokenEndpoint`,
`RevokeOnReplay` in `TokenRevocation`). `Token` hands wallet grants to the
OID4VCI handler before anything else. A wallet presentation approves a CIBA
request. Every handler writes the audit log that the sealer reads, and hands the
event to the dispatcher once it is stored. Wallet issuance reserves its slot of
a status list in its own transaction; a presentation that approves something
locks and checks the credential it relies on. Every token is signed with the key
that `KeyRotation` resolves. Users,
clients and organisations are shared and changed by administrators at any time.

### Components that are not modelled

They are listed in `PROJECT.json` with their reasons. Most of the repository's
lines are in these groups, which is why the share of lines the modules stand for
is small:

* parsing, cryptography and formats: SAML, WS-Federation, eID connectors, mdoc,
  presentation verification, federation documents; a model of them would
  restate the code;
* handlers that create, read, update and delete single rows, SCIM among them,
  and rule evaluation on the data of one request (policy, risk, flows): no state
  between two steps, no second actor;
* wiring, configuration, command-line tools, fixtures and user interface;
* small protocols on one Redis key: login states, one-time tokens (`GETDEL`), the
  throttle of one-time passwords, the lockout, and the PAR reference. What can
  go wrong there is visible in two adjacent commands; section 4 describes it.

Of modelled components are left out: offers that were created before wallet
grants existed, VP-gated issuance and the counting of wrong tx_codes; expiry of
credentials, its extension by the adaptive TTL worker, signing and serving of
lists; manual changes of a CA's configuration; what an erasure deletes besides
its effect on credentials.

### Hazards

`PROJECT.json` lists each at its line, with the properties that watch it. In
short: interleaved rotations and replays, revoke-then-refuse, the link that is
written late, recovery of lost responses; the cache filled after a revocation,
lifetimes that follow a changed setting; locks, previews and replays in wallet
issuance; overlapping polls and ignored DELETE errors in the two polling grants;
the stale latest checkpoint and out-of-order commits in sealing; sends on
channels that close, retries of deliveries that arrived; keys that are replaced
between being resolved and being used, marks lost by a crash; lists that are
rewritten from a stale copy, loops over credentials that change meanwhile,
erasures that meet an issuance; promotions, aborts and cleanups of a CA that
overtake each other.

## 2. Modules

| Module | Content |
|---|---|
| `TokenEndpoint` | authorization_code and refresh_token grants; one action per statement |
| `TokenRevocation` | revocation list, introspection cache, revocation endpoint |
| `TokenProofs` | theorems about `TokenEndpoint` and `TokenRevocation` |
| `WalletGrant` | wallet grants with their row locks, deferral and delivery |
| `WalletGrantProofs` | theorems about `WalletGrant` |
| `OneShot` | abstract: a single-use authorization; `WalletGrant` implements it |
| `DeviceFlow`, `CibaFlow` | the two grants in which a client polls |
| `DeviceFlowProofs`, `CibaFlowProofs` | theorems about them |
| `AuditSealing` | the log, the sequence of its ids, retention and the sealers |
| `AuditDispatcher` | the goroutines and channels that fan events out |
| `AuditProofs` | theorems about `AuditSealing` and `AuditDispatcher` |
| `KeyRotation` | signing keys: resolving, provisioning, replacing, scheduling |
| `KeyRotationProofs` | theorems about `KeyRotation` |
| `CredentialStatus` | registry of credentials, status lists, monitor, erasure, verification |
| `CredentialStatusProofs` | theorems about `CredentialStatus` |
| `CaRotation` | staged rotation of a CA in Vault |
| `CaRotationProofs` | theorems about `CaRotation` |
| `MC...` | constants, symmetry sets and instances for TLC |

Conventions. An action has the name of the function whose statement it is, and
`map` in `PROJECT.json` names the lines. `Reqs` are request slots: a slot holds
the local variables of one handler (`req[r]`), `pc` is the statement it runs
next, and a slot is reused when the handler ends. `Abort`, `Rollback` and `Fail`
end a handler at any statement: an error, a cancelled request, a lost answer or
the death of the replica, which are the same thing to the database. `Tick` moves
the clock. Variables marked "history" are not in the program; they remember what
happened so that a property can speak about it. Operators marked "Mutant" are
plausible mistakes in the definition that follows them; replacing the definition
by one of them makes a property fail, which shows that the property depends on
that line of the code. Two proof modules extend two components each;
`TokenRevocation` and `AuditDispatcher` therefore have names of their own for what
is `Init`, `Next`, `Spec`, `TypeOK` elsewhere (`RevSpec`, `DispatchSpec`, ...), and
`TokenRevocation` for the clock, the slots and their locals (`clock`, `Calls`,
`call`).

**TokenEndpoint.** A row of `refresh_tokens` is a number in order of insertion;
the family id is the number of the first row, as fresh as the `uuid.New()` of
the code. Consuming a code is atomic (`UPDATE ... WHERE used_at IS NULL
RETURNING`); the checks that follow come when the code is already spent.
`GetUsedByHash`, `RevokeCodeJTI` and `RevokeReplayed` are the replay branch of
`Token`. `ExchangeRefreshToken` reads the presented row, `ReadSuccessor` follows
`replaced_by`, and then the old row is revoked, the user checked, the successor
inserted and linked, each by a statement of its own. `Creds` is what a request
proves about its sender; a wrong client and a missing certificate are refused at
different moments. Claims, scopes and signatures are left out: no statement on
these tables depends on them. `parent` (history) is the row a row was rotated
from, so that an overlap of two rotations of one row can be told from any other
way to a second live row (`Forked`).

**TokenRevocation.** A Redis key is the time it expires. The step-up branch of
`Introspect`, which does not cache, and a failing `SetEx` are the choice not to
fill. The reading of the list may fail, which the code reads as "not revoked"
(`blind`). The SET of a revocation may fail, executed or not: the handler then
takes the value for a refresh token and answers 200 all the same
(`RevokeAccessTokenFails`); so may the deletion of the cached answer. `cut`
(history) holds the tokens whose revocation was answered without ever having
been written, or was shortened by a replay.

**WalletGrant.** Three steps per handler: the preview, the lock with the checks
under it, and the commit that makes all writes visible. `Acquire` is `FOR
UPDATE`, `SharedLocked` the SHARE locks of `LockWalletEligibility`. An offer
names its grant, its authorization code and its deferred row.

**DeviceFlow** and **CibaFlow.** One row each. `TouchPoll` is two actions since
its sub-select reads the snapshot of the statement; an error of it counts as a
poll in time, as in the code. `completeBoundCIBA` is one action because it is one
transaction on both rows. `alone` and `clean` (history) mark the polls that
nothing overlapped.

**AuditSealing.** A batch is the set of its row ids, and stands for its Merkle
root: the leaves of a batch contain their ids and so are distinct, for which the
tree is injective up to collisions of SHA-256. An INSERT draws its id before it
commits, so rows appear out of order. `Tickers` are the calls of `RunAllOrgs`,
one per replica; the other `Sealers` are calls of `SealProof`. All overlap.

**AuditDispatcher.** The processes are goroutines of one replica, so a panic that
nobody recovers (`dead`) ends the behaviour. `ch` is the buffered channel, a
worker takes an event, copies the list of streams under the read lock, sends
without it, loads the sinks and waits for one delivery goroutine per sink.
`Send` has three outcomes: acknowledged, received but not acknowledged, lost.
`BuildSink` of an mqtt sink goes on to `ConnectMQTT`, which waits until the broker
is reachable, as `token.Wait()` does, without a timeout.
The panic of a handler that publishes after `Stop` is recovered by the
middleware and is the end of that emission only.

**KeyRotation.** A key is a number in order of insertion. `replaceSigningKey` is
one transaction under an advisory lock and one action, apart from its `NOW()`,
which is read when it begins and may be older than the commit by `MaxReq`.
Resolving is `GetActiveForOrg` and the two reads of key sets
(`GetJWKSKeysForOrg`). `Crash` loses whatever a request or worker had in mind,
the mark of a rotation in particular. `liveUntil` (history) is when the last
token of a key expires.

**CredentialStatus.** Transactions take their locks one by one: `CredExclusive`,
`CredShared`, `ListExclusive`, `ListShared` and `HolderFree` are derived from
where each transaction is. `req[r].read` is the list as a transaction read it,
which its commit writes back with one value changed. Operators, wallets and the
inactivity pass are one action, since all call `setIssuedCredentialState`.
`GDPRErasure` writes the registry on its own. A federated revocation takes at most
`RevokeLimit` credentials (50 in the code), a pass of the monitor the `PollLimit`
(64) that were checked longest ago; a pass ends when its time is up
(`PassTimesOut`), which it is while it awaits a list that is not in `answering`.

**CaRotation.** A mount and the key of its CA are one number. The worker's pass
is sequential: reconcile the cached key, start what is due, clean up. `Fail` ends
a request after any step; `lost` (history) records that it did so between
`CompleteRotation` and `PromoteMount`. `CreateAnswerLost` is an INSERT that is
committed and taken for failed; `torn` (history) holds the mounts of such
rotations.

## 3. Model checking

Twelve runs. `tlc -workers 2 -config <cfg> <module>` in this directory.

| Run | cfg | Result | Question |
|---|---|---|---|
| `tokens` | `MCTokens` | holds | `LinksStayInFamily`, `DeadStaysDead`, `SentIsRevocable`, `OneLiveRow`: two handlers exchange and replay two codes, rotate and recover; `RevokedIsListed`, `StaleAnswersDieOut`: introspections and revocations with Redis commands that fail |
| `replay_race` | `MCReplayRace` | violated | `ReplayRevokesFamily`: does a replay leave a family without live tokens? |
| `wallet` | `MCWallet` | holds | `OneUnspentRefresh` (a rotation has one winner and reuse is fatal), `DeadGrantIsInert` (revoked, deleted and ineligible grants yield nothing), `RightsNeverGrow`, `OneCredential` (the offer implements `OneShot`), `RequestsEnd` |
| `device` | `MCDevice` | holds | `TokensNeedConsent`, `PollsAreSpaced`, `CodeRedeemedOnce`, with polls that overlap |
| `ciba` | `MCCiba` | holds | `TokensNeedApproval` (denial is final, late approval inert), `PresentationBindsRequest`, `RequestRedeemedOnce`, with polls that overlap |
| `ciba_spending` | `MCCibaSpending` | violated | `NoDoubleSpending`: does the DELETE prevent double spending? |
| `audit` | `MCAudit` | holds | sealing: `BranchesIntact`, `Anchored`, with calls that overlap; dispatcher: `DispatchTypeOK` (no buffer overflows), `StopDrains`, `OneVerdict` (one per delivery, and duplicates are bounded), `StopReturns`, `EventsSettle` |
| `sealing_chain` | `MCSealingChain` | violated | `ChainIntact`: is the sealer safe for concurrent callers? |
| `keys` | `MCKeys` | holds | `OneActiveKey` (the newest, and first use provisions once), `LiveTokensVerify`, `ImportedKept`, `DueIsRotated` |
| `status` | `MCStatus` | holds | `ListAgrees`, `SlotsAreUnique`, `DecisionIsCurrent`, `ConfirmedAreRevoked` (a confirmed event revoked what its limit allows, an erased holder is left with nothing valid), `OnlyLegalLifts` (revocation is terminal, the monitor lifts only its own suspensions) |
| `monitor` | `MCMonitor` | holds | `ParentRevocationArrives`, with credentials that compete for bounded passes |
| `ca_rotation` | `MCCa` | holds | `PrimaryServes`, `RetiredAfterGrace`, `OldIsRetired`, `KeyIsRepaired` |

Type correctness is checked in `wallet`, `audit` and `status` and proved for
all modules. Further properties are proved and not run, because
the proof covers every instance: `CodeUsedOnce`, `ReplayIsTargeted`,
`LifetimeIsFixed` (token endpoint), `SnapshotSigns` (keys), `BothSign` and
`RemovedIsGone` (CA rotation).

A run may cover several instances, told apart by the variable `part`, which no
step changes: `MCTokens` and `MCAudit` run two components that share no variable,
each while the other stays where it starts; the parts of `MCCredentialStatus`,
`MCMonitor` and `MCCaRotation` are instances of one component that differ in the
requests they admit.

Bounds. Two slots are enough for every race listed, because each is a race of
two handlers; the third party is the environment, which is not limited to a
slot. `MCCiba` has three, for a poll between two decisions. Three refresh rows
(`MaxTok`) give a token, its successor and the successor of a recovery or of a
racing rotation; two codes of one user are the case in which a replay could hit
the wrong family. `MCWallet` has three token responses, an exchange and two
rotations of which one may be a replay, and a clock that passes the expiry of
access token and offer, then of the grant. `MCDevice` lets the clock pass the
code's lifetime and a slow-down raise the interval. In `MCTokens` the rows and
the clock have their full bounds while one code is used, and one row less and no
expiry with both (`Bounds`); its access token outlives two cache entries, and
`access_token_ttl` changes between two values. `MCAudit` has three rows and
batches of two, so that a full and a partial batch, rows that commit late, and a
ticker and a `SealProof` that overlap all occur; and two events on a buffer of
one, so that the buffer is full, two workers that deliver to one sink at once,
and two attempts. That sink is an mqtt sink, which has all the steps of the
others besides; sinks that send at once are covered by the proofs. `MCKeys` has
two keys: one replacement during which a request, an administrator and a worker
overlap, with a clock that passes a grace period one tick shorter than a token
and two requests; longer successions of keys are covered by the proof. `MCStatus`
has two credentials in two lists of two slots, neighbours in one list, a list
that is full, a new one, and a list of one bit; and, in its second part, three
credentials where a federated revocation takes two. `quiet` does not change
there, since nothing is possible in a quiet time that is not possible before.
`MCMonitor` has two dependent credentials for passes of one, and one on which an
operator works too. `MCCa` has three mounts and two rotations: with two agents,
promotions of consecutive rotations in either order, and with one agent an
INSERT that is taken for failed. All bounds are CONSTANTS named in guards.
Slots that play the same part are interchangeable, hence the symmetry sets; runs
with liveness use none. `CHECK_DEADLOCK FALSE` stands where the system really
comes to rest: the row of a device code or a CIBA request is gone and the clock
is at its bound, all ids are drawn and deleted, the dispatcher has stopped or
died, all keys are drawn and the clock is at its bound, all credentials are
revoked.

What the properties except. Races the code does not exclude are in the models, and
the properties say how far they reach. `OneLiveRow` allows a second live row to a
family in which two rotations of one row overlapped. `CodeRedeemedOnce` and
`RequestRedeemedOnce` allow a further response for every DELETE that failed, whose
error the code ignores, and for every poll that began while another was in
flight. `PollsAreSpaced` is about polls whose `TouchPoll` was neither overlapped
nor failed. `RevokedIsListed` and `StaleAnswersDieOut` except tokens in `cut`, the
latter also answers given without the list. `BranchesIntact` is what overlapping
calls leave of `ChainIntact`, and `Anchored` excepts rows that commit after a
higher id was read. `LiveTokensVerify` allows a token to fail by `Shortfall` before
it expires, which is what the grace period lacks to cover a token and two
requests, and nothing where it does cover them. `ConfirmedAreRevoked` is content
with `RevokeLimit` credentials where there were more. `ListAgrees` and
`ParentRevocationArrives` except what an erasure revoked (`erased`).
`PrimaryServes` excepts completions in which `lost` is set and, like
`RetiredAfterGrace` and `BothSign`, the mounts in `torn`. `StopReturns` and
`EventsSettle` except a process that died, and assume `BrokersComeBack`;
`ParentRevocationArrives` assumes `ListsComeBack`. Section 4 describes what happens
in each of these cases.

Fairness. Five runs assume some, of the program's own goroutines and tickers. In
`wallet` a transaction that holds its locks goes on (weak fairness of the
commits) and a handler that waits for a row lock gets it (strong fairness of the
lock steps: PostgreSQL queues the waiters of a row). In `audit` the ticker fires
again and again, a call under way goes on (weak fairness of each), and failures
stop at some time (`MaxFail`); the Go scheduler runs every goroutine that can run,
and a `Send` ends within its timeout. The wait for an mqtt broker has no timeout,
so the two liveness properties of the dispatcher are implications whose premise
is that brokers that went away come back for good. In `keys` the ticker of the
worker fires again, and crashes do not hit the same statement for ever (strong
fairness of the worker's steps). In `monitor` transactions go on, a transaction
that waits for a list gets it (strong fairness of `LockList`, PostgreSQL's queue
again), time passes, and that external lists which went away come back is a
premise of the property. In `monitor` and `ca_rotation` there comes a time
(`Quieten`) from which errors and crashes no longer end the worker's pass, and in
`monitor` no request gets in its way. These two workers have no memory between
passes but what they stamp, so passes that are left in peace must do the work:
that is what the liveness properties say. Nothing is assumed of clients,
administrators, agents, writers of the log or failures otherwise.

## 4. Findings and known limits

Three disagreements between the code and its comments have a run of their own:

* `replay_race`. `RevokeFamilyByID` revokes the rows that exist when it runs. A
  rotation that passed its checks before inserts its successor afterwards, and
  this token is live in a family that was revoked for theft.
* `ciba_spending`. The DELETE that is to "prevent double-spending"
  (`handler/ciba.go:531`) comes after the tokens were issued and nobody asks whether
  it deleted a row. Two polls one interval apart, the first still issuing, are
  both answered.
* `sealing_chain`. The sealer is said to be safe for concurrent callers without
  "double-sealing the same rows" (`merkle/sealer.go:7-8`). It reads the latest
  checkpoint, reads rows and inserts a checkpoint without transaction, lock or
  unique constraint; the ticker and a `SealProof` that overlap seal the same rows,
  and the chain that `VerifyChain` walks is broken.

The following behaviours were met while modelling. The models contain the ones
that are reachable and the properties are stated around them, as section 3 says.

* Erasure and status lists. `GDPRErasure` and its worker revoke credentials with
  an UPDATE of their own and not through `setIssuedCredentialState`, so the
  published list keeps calling them valid. Since a revoked credential accepts no
  further change, nothing publishes the revocation afterwards. Without
  `\ erased`, `ListAgrees` is violated by one erasure.
* Lost promotion. A completion of a CA rotation that ends between
  `CompleteRotation` and `PromoteSSHCAMount` leaves the old mount primary, and
  after the grace period the cleanup removes it: the CA that signs is gone.
  Without `lost`, `PrimaryServes` is violated.
* Device code of a deleted user. `deviceCodeGrant` dereferences `*dc.UserID`
  having tested only `IsAuthorized`; the foreign key has set `user_id` to NULL, so
  the poll panics instead of being refused.
* Mount of a rotation in flight. `CreateRotation` may be answered with an error
  although its INSERT was committed. `Start` then tears down the new mount of a
  rotation that is in flight, and that a completion which has fetched the key
  already may still promote. Without `torn`, `BothSign`, `PrimaryServes` and
  `RetiredAfterGrace` are violated.
* Revocation that did not happen. An error of the Redis SET in
  `RevokeAccessToken` falls through to the refresh-token path, and the client is
  answered 200 (`handler/oidc.go:2583`): the token stays active until it expires.
* Two live refresh tokens. `RevokeByID` does not check that it was the one that
  revoked the row, so two rotations that overlap both insert a successor.
* Device codes redeemed twice, and polls closer than the interval: as for CIBA,
  and an error of `TouchPoll` lets the poll pass (`oidc_device.go:453`).
* Brokers that stay away. The connect of an mqtt sink waits with `ConnectRetry`
  and without context or timeout (`audit/sinks.go:251`): a worker is stuck with its
  event, and `Stop` waits for the worker for ever. Without `BrokersComeBack`,
  `StopReturns` and `EventsSettle` are violated.
* Federated revocation in part. `RevokeByVCTAndUser` "revokes all non-revoked
  credentials" (`oid4w.go:1492`), of which its query takes 50 (line 1508); the event
  is confirmed then too.
* Monitor behind a slow credential. A pass has 25 seconds, and a credential whose
  external lists outlast it is rolled back without its stamp: it stays the oldest,
  and the ones behind it get no turn for as long as this lasts
  (`worker/wallet_status.go:23`, `:46`). Without `ListsComeBack`,
  `ParentRevocationArrives` is violated.
* Grace period and lifetimes. The grace period of signing keys is a constant of a
  day, and nothing bounds the configured `access_token_ttl` by it: tokens that live
  longer stop verifying early, by `Shortfall` at most.
* Cancelled live stream. `notifySubscribers` sends on a copy of the list without
  the lock; a stream cancelled in between has closed its channel, and the panic
  in the worker kills the process (`dead`).
* `Stop` of the dispatcher is said to be "safe to call multiple times"; a second
  call closes a closed channel. It has one caller, which runs once.
* `worker/key_rotation.go:18-20` says that no due row can reach the worker for an
  imported key. It can, when the key is imported after rotation was scheduled;
  the check inside the transaction refuses it, and `ImportedKept` holds.
* `RecordPresentation` has no caller, so presentations neither extend a
  credential nor protect it from the inactivity pass.
* Without `token_type_hint` a refresh token is never revoked although the answer
  is 200, since `RevokeAccessToken` reports success for what is no access token.
* A replayed code lists the jti for the `access_token_ttl` of the moment, which may
  be shorter than what the token has left (`cut` in `TokenRevocation`).
* A row that commits after a higher id was sealed is never sealed (`late` in
  `AuditSealing`).
* `Publish` drops the event when the buffer is full (`dispatcher.go:108`), and two
  workers may deliver events in another order than they were published: sinks
  are less complete than the table, and not ordered like it.
* `StopReturns` and `EventsSettle` hold for a process that nobody kills; a replica
  that dies loses the events in its channel.

Read in the code, and outside the modules:

* Wrong tx_codes are counted by a statement of their own (`oid4vci.go:437`), so
  guesses in flight at once exceed the cap by their number.
* The `c_nonce` is consumed in Redis while the transaction that uses it may still
  roll back (`oid4vci.go:728`): a failed request costs its nonce.
* While Redis is down, introspection and `UserInfo` treat revoked tokens as live
  (`userinfo.go:53`), which is `blind` in `TokenRevocation`.
* The hourly counter of one-time passwords is INCR and then EXPIRE
  (`session/store.go:57`): a crash in between leaves a counter that never expires.
* The leader lock is released with the worker's context (`leaderlock.go:37`), which
  is cancelled at shutdown: the lock then goes with its connection.
* A PAR reference is read with HGETALL and deleted afterwards (`oidc.go:1051`), so
  two authorization requests at once can both use it.
* The inactivity pass works through a list read before (`adaptive_ttl.go:103`); what
  is presented meanwhile is suspended or revoked all the same.
* Tearing down a mount after a failed start is best effort (`sshca/service.go:251`):
  when Vault fails twice, a mount stays that no row names.

## 5. Proofs

`tlapm <module>` on the eight proof modules checks theorems for every set of
processes, every bound and every lifetime, from the named assumptions of the
modules alone: `TokenConstants`, `RevocationConstants`, `DeviceConstants`,
`CibaConstants`, `WalletConstants`, `SealingConstants`, `DispatcherConstants`,
`KeyConstants`, `StatusConstants`, and `CaConstants`. These say what kinds of values
the constants are; none limits how many requests, polls, refreshes or sealing
calls overlap. `SnapshotsAgree` alone has a premise, that the grace period is
longer than two requests take (`GraceCoversRequests`). Every safety property that
a passing run checks is proved; only the liveness properties rest on the runs
alone.

| Module | Theorem | States |
|---|---|---|
| `TokenProofs` | `TypeCorrect` | `TypeOK` is invariant |
| | `CodeExchangedOnce` | `CodeUsedOnce`: a code starts at most one family |
| | `ReplayReachesSent` | `SentIsRevocable`: a sent token is in the family its code records |
| | `ReplayTargetsOwnFamily` | `ReplayIsTargeted` |
| | `RecoveryStaysInFamily` | `LinksStayInFamily` |
| | `RotationKeepsLifetime` | `LifetimeIsFixed` |
| | `DeadFamilyStaysDead` | `DeadStaysDead`, an action property |
| | `OnlyOverlapForks` | `OneLiveRow`, for any number of refreshes at once |
| | `InvariantHolds` | the inductive invariant `IInv` they rest on |
| | `RevTypeCorrect` | `RevTypeOK` of `TokenRevocation` |
| | `RevocationLasts` | `RevokedIsListed` |
| | `StaleAnswersEnd` | `StaleAnswersDieOut`, an action property |
| `WalletGrantProofs` | `TypeCorrect` | `TypeOK` |
| | `RefreshHasOneWinner` | `OneUnspentRefresh` |
| | `DeadGrantsAreInert` | `DeadGrantIsInert`, an action property |
| | `RightsStay` | `RightsNeverGrow`, an action property |
| | `OffersAreOneShot` | `OneCredential`: `WalletGrant` implements `OneShot` |
| `CredentialStatusProofs` | `TypeCorrect` | `TypeOK` |
| | `ListsAgree` | `ListAgrees` |
| | `SlotsOnce` | `SlotsAreUnique` |
| | `DecisionsAreCurrent` | `DecisionIsCurrent` |
| | `RevocationsAreComplete` | `ConfirmedAreRevoked`, for every limit |
| | `LiftsAreLegal` | `OnlyLegalLifts`, an action property |
| `KeyRotationProofs` | `TypeCorrect` | `TypeOK` |
| | `NewestIsActive` | `OneActiveKey`: the newest key is the active one, and first use provisions the first |
| | `TokensVerify` | `LiveTokensVerify`, for every lifetime and grace period |
| | `SnapshotsAgree` | `SnapshotSigns`, under `GraceCoversRequests` |
| | `ImportedIsKept` | `ImportedKept`, an action property |
| `CaRotationProofs` | `TypeCorrect` | `TypeOK`, with at most one rotation in flight |
| | `PrimaryIsServed` | `PrimaryServes` |
| | `BothCasSign` | `BothSign` |
| | `RemovedMountsAreGone` | `RemovedIsGone` |
| | `OldMountsOutliveGrace` | `RetiredAfterGrace`, an action property |
| `DeviceFlowProofs` | `TypeCorrect` | `TypeOK` |
| | `ConsentIsNeeded` | `TokensNeedConsent`, however many polls overlap |
| | `PollsKeepDistance` | `PollsAreSpaced`, however many polls overlap |
| | `CodeIsSpent` | `CodeRedeemedOnce`, however many polls overlap |
| `CibaFlowProofs` | `TypeCorrect` | `TypeOK` |
| | `ApprovalIsNeeded` | `TokensNeedApproval`, however many polls overlap |
| | `PresentationIsBound` | `PresentationBindsRequest` |
| | `RequestIsSpent` | `RequestRedeemedOnce`, however many polls overlap |
| `AuditProofs` | `TypeCorrect` | `TypeOK` of `AuditSealing`, with any number of sealers |
| | `BranchesHold` | `BranchesIntact`, for any number of overlapping calls |
| | `DispatchTypeCorrect` | `DispatchTypeOK`, the capacities of all buffers included |
| | `StopHasDrained` | `StopDrains` |
| | `VerdictsAreSingle` | `OneVerdict` |

None of these properties is inductive: each speaks about tables or mounts, while
the next statement of a handler depends on what it read earlier. Each module has
an invariant `IInv` that adds what the handlers know.

**Token endpoint.** `TablesOK` describes the rows by themselves: a family starts
with a row of the same code, and a code records nothing or its own first row.
`HandlerOK` says what a handler has established before each statement: the row
it rotates exists and is covered by its code's record, the successor it will
link equals the old row, the code it is exchanging is used and records nothing.
`ExchangeOK` says that a consumed code is in the hands of one handler, and that
it has no row until that handler inserts one. `Covered` ties the two grants
together: a client can only present rows it was sent, and only covered rows are
sent. The proof has one lemma for each kind of step: `EnvironmentStep`,
`ConsumeStep`, the two insertions, `RecordStep`, `LinkStep`, `RespondStep`, and
`MoveStep` for the steps that move a handler or revoke rows. `HandlerKept` and
`QuietStep` carry the invariant over steps that touch neither rows nor codes.
`DeadStep` shows that a dead family stays dead: an insertion into it needs a
handler that is rotating one of its rows, and a handler begins to rotate only a
live row. `OneLiveRow` needs a second invariant, `Lineage`: a row was rotated from a
row of its family that was revoked before, and of two rows of a family that
nobody forked the earlier one has a successor, and so is revoked. Its lemma
`LineageInserted` is about the one step at which it can break: a successor of a row
that has one already is a fork.

**Wallet grants.** `Knows` has, for each place a handler can be at, what its
transaction has found under the row lock: the grant is live, the presented token
is unspent, the offer not redeemed. `Apart` says that no two handlers are inside
a transaction on one grant, so what is known stays true until the commit;
`OfferOK` and `TokenOK` describe the rows between transactions. Eligibility is
known by a SHARE lock, which administrators wait for. The refinement maps the
credentials that were released to `redeemed` and grants that are revoked or
deleted to `void`: the commits that release are redemptions because `Knows` says
that the offer was neither.

**Credential status.** The state of a credential is kept in the registry and in
the list, and both are rewritten from what a transaction read. `Knows` says, by
the role of a process (issuer, operator, partner, monitor, verifier), that what
it read of a row or a list it holds locked is still what is there; `Apart` is the
mutual exclusion that the order of the locks gives, and carries it over the
steps of all others. `Unused` says that only the reserved slots of a list have
values and that a credential's row is empty before its issuance, `Erasure` that
nothing is erased while the holder exists and that no issuance is under way once
the holder is gone. `PartnerKnows` follows a federated revocation: what it took is
all it was asked for or as many as the limit, and what it has passed is revoked,
which stays so because revocation is terminal.
`Widths` bounds the entries of a list by the width it is published with. Slots
are counted with the library's theorems on finite sets.

**Signing keys.** The argument is one of clocks. `Clocks` says that a request is
at most `MaxReq` old and that `NOW()` of its transaction lies within it. `Held`
says that a request holding a key that has been replaced started so late that
the key has at least the rest of its grace period left; `Lives` that the last token
of a retired key expires at most `Shortfall` after the key. Replacing moves a key
from one to the other: tokens signed before live until `now + TokenTTL`, requests
that hold it started at most `MaxReq` ago, the retirement counts from a `NOW()` at
most `MaxReq` old, and `Shortfall` is by definition what the sum lacks.
`Listed`, `Roles` and `First` carry the other
properties, `Newest` all of them. `LocalStep` is the lemma for the steps that
change the locals of one request; `SignKeeps`, `TickKeeps` and `ReplaceKeeps` are
the others.

**CA rotation.** The argument is one of freshness. `Fresh` says that the name of a
mount is used by one start and then by one row; `Past` separates what has been
primary (the mount of the configuration, the old mount of every row) from what
has not (a mount being started, in flight, rolled back or about to be promoted),
so a teardown never hits a mount that was primary. A start and a row have a mount
in common only when the start is about to tear it down because it took its INSERT
for failed (`Mistaken`), and both parts except that mount. `Superseded` says that the old
mount of a completed rotation is not primary, unless the promotion is still
pending or was lost; `Cleaning` that the worker works on rotations whose grace
period has passed. `HarmlessStep` is the lemma for steps that end a part of a
request or touch the cached key; every other action has a lemma of its own.

**Token revocation.** `Listed` follows the key of the revocation list from the
command that writes it: whatever was answered, and whatever a handler is about
to answer, has a key that outlives the token or is in `cut`: a SET that failed puts
a token there unless an earlier revocation of it was answered, whose key nothing
but a replay can shorten. `exp` is part of it, so that the key of a token cannot
be written before the token exists. A handler that reads the list after that
finds the token revoked, which is all that `StaleAnswersEnd` needs besides.

**Device and CIBA.** Both decide on a copy of the row, so the invariant says what
is still true of an old copy. For a device code, the user of an authorized row or
copy is among those who allowed it (`Consented`), although the row itself may be
denied by now. For a CIBA request, `Decisions` says that the transition out of
"pending" happens once, so an approved copy means `Granted` for good; `Bound` and
`Suits` carry the presentation, and that a link that was NULL when the session
was read stays NULL. Single use is a count over the polls that were alone when
they began, of which there is one at a time: a response sent or under way stands
for the deletion of the row or for a DELETE that failed (`Paid`). The row may
vanish under such a poll, by another poll or with its user, so a poll in progress
must not be paid for by that. `Spaced` relates `last_polled_at`, and the stamp a
`TouchPoll` is about to write, to the last poll that passed without an overlap.

**Audit sealing.** `Knows` says that a sealer between its first read and its last
write knows a checkpoint of the chain, not necessarily the last one, and the
largest id of it, and is about to insert rows beyond that id: that is true of an
old copy too, whatever other calls insert meanwhile. That the ids of a batch have
a largest element is `LastExists`, from the well-foundedness of the natural
numbers.

**Audit dispatcher.** The argument follows an event. `ChannelOK` says that the
channel holds it once and no worker holds it then; `WorkersOK` that a worker
holds an event of its own, untouched by deliveries until it waits;
`DeliveriesOK` that a worker waits for every delivery under way. `Shutdown` says
that a worker leaves only a channel that is closed and empty, after which nothing
enters it. So when all have left nothing is queued, held or under way. `Attempts`
counts what a sink received against the attempts made, and `Counts` the
statistics against the set of finished deliveries. That there is a worker at all
(`workerCount` is 4) is an assumption `StopDrains` needs.

Only model-checked, because liveness under fairness is out of the prover's
reach: `RequestsEnd`, `Anchored`,
`StopReturns`, `EventsSettle`, `DueIsRotated`, `ParentRevocationArrives`,
`OldIsRetired`, `KeyIsRepaired`. No module uses RECURSIVE operators.

## 6. Plan

Done: the ten components above, with proofs of all their safety properties. What
would come next:

1. A composition of `TokenEndpoint` and `TokenRevocation` through the shared
   revocation list.
2. `LoginThrottle`: OTP cooldown and hourly cap, lockout bands, as Redis
   commands with crashes between INCR and EXPIRE; `OneTimeClaims`: PAR references
   and login states as implementations of `OneShot`.
3. `MerkleTree`: `Root` and `VerifyChain` as functions, checked against the
   batch they stand for.

Proofs: that `ReplayRevokesFamily` holds when no rotation is in flight at the
replay, which is the part of the comment that is true; and what the liveness
properties rest on as invariants, such as that a worker that cannot move waits
for one that can.
