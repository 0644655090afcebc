# A formal model of ArmourAPI

ArmourAPI is a security gateway: a Fastify server that puts a chain of
scanners in front of an upstream application, keeps blocklists, jails and token
revocations in Redis with an in-memory fallback, and offers an admin API. This
directory models its decision logic in TLA+, checks it with TLC on small
instances, and proves the central results with TLAPS for every value of the
constants.

Paths below are relative to the repository.

## 1. Inventory

| Component | Source | State | Operations |
|---|---|---|---|
| Per-key lock | `src/rate-limiter/blocklist.js:23-44` | `keyChains`: key -> tail of a chain of promises | `withKeyLock` |
| Blocklist and jail stores | `src/rate-limiter/blocklist.js` | `memoryStore`, `memoryJail`, `memoryViolations`; in Redis `armourapi:blocklist:*`, `armourapi:jail:*`, `armourapi:violations:*` with TTLs | `block`, `isBlocked`, `recordViolationAndEscalate`, `placeInJail`, `isJailed`, `releaseFromJail`, `listMemoryBlocklist` |
| Adaptive jail | `src/rate-limiter/index.js` | none of its own but the request's `armourapiAccount`, `armourapiBlockedByGate` | `createBlocklistGuard`, `createLoginGuard`, `recordLoginOutcome` |
| Rate limiters | `src/rate-limiter/index.js:42-67, 146-163` | windows of `rate-limiter-flexible` in Redis, insurance limiters in memory | `consume` |
| Token revocation | `src/auth/jwt.js`, `routes.js`, `token-guard.js` | the Bloom filter; token keys in the blocklist | sign, verify, `revokeToken`, `isTokenRevoked`, logout, the token guard |
| Gate pipeline | `src/proxy/routes.js`, `body-buffer.js`, `src/auth/session-hooks.js` | per request: body stream and its buffer, gate flag, reply; `isLast` on shared scanners | route chains, `createGatePreHandler`, `bufferRequestBody`, `onSend`/`onResponse` hooks |
| WAF adapters | `src/waf/*.js` | a pool with transactions (Coraza), a request and a timer (ModSecurity oracle) | `scan`, `close` |
| Fast filter | `src/waf/fast-filter.js` | none | `scan` |
| Schema validation, GraphQL guard | `src/validation`, `src/graphql-guard` | none | `scan`; a recursive walk over selections and fragments |
| Threat history | `src/security-api/threat-store.js` | a bounded list and a counter | `recordThreat`, `listThreats` |
| Traffic bus, admin API | `src/security-api/traffic-bus.js`, `routes.js` | subscribers | publish, subscribe, list, POST blocklist |
| Server | `src/server.js` | up, closing, closed | start, error handler, `shutdown` |
| Raft demo | `raft-demo/` | a replicated set (PySyncObj) | add, list |

How they interact. A request passes the scanners of its route one after the
other; every scanner but the last either denies or hands on, and a denial is
logged, counted, published and remembered by the gate. The blocklist guard and
the login hook share the stores through `withKeyLock`; the admin API writes the
blocklist *without* the lock; the token guard and logout use the same
`block`/`isBlocked` with keys of type `token`. Redis is one connection: a
command takes effect some time between the `await` and the resumption of its
caller, it may fail, it may be applied and its reply lost, and ioredis may send
it again.

What is hard, and what makes each part correct:

* **Lock.** Everything between two `await`s interleaves. Correct: calls on a key
  run one at a time in arrival order, a throwing turn does not poison the
  chain, a hanging one holds up only its own key.
* **Stores and jail.** A burst of requests, an admin, the clock and a Redis that
  fails in between. Correct: a burst escalates once (ARM-02), a decision taken
  under the lock still holds when it is acted on, blocks double per repeat and
  lapse, keys go free -> jailed -> blocked, every request ends, and what memory
  enforces is in Redis.
* **Token revocation.** Seconds against milliseconds, the token's expiry racing
  its check, a probabilistic filter, restarts. Correct: a revocation outlives its token, a
  revoked token is refused, nothing else is, and an answered logout is durable.
* **Restarts.** What was in memory is gone, what Redis has stays, and of the
  commands under way some have landed. Correct: a block that Redis lists is
  enforced and not paid for twice, and counts are forgotten in time.
* **GraphQL guard.** A recursive walk that fragments can send round in circles,
  with limits that cut it short, over a batch. Correct: it ends, and its verdict
  is that of the query written out.
* **Admin API.** Pages that come and go while the gate decides. Correct: the feed
  has every decision from the subscription on, the history with it misses no
  threat, and an attack goes by its own name.
* **Pipeline.** A body stream that can be read once, scanners that throw, shared
  scanner objects, an engine that must give back transactions, an oracle that
  may not answer, a shutdown. Correct: one verdict per request, the body arrives whole, only the
  upstream decides logins, each cookie leaves once and hardened (with an exception,
  below), transactions are closed, every request gets a reply.

`PROJECT.json` lists each hazard at its source line, with the properties aimed
at it.

## 2. Modules

| Module | Models | Depends on |
|---|---|---|
| `KeyQueue` | abstract: a FIFO queue per key | |
| `KeyLock` | `withKeyLock` as a chain of promises | `KeyQueue` (refined) |
| `KeyLockProofs` | its theorems | `KeyLock` |
| `Blocklist` | the operations of the stores, as operators | |
| `BlocklistProofs` | lemmas about those operators | `Blocklist` |
| `Quarantine` | abstract: free, jailed, blocked | |
| `AdaptiveJail` | guard, login guard, login outcomes, admin block | `Blocklist`, `KeyQueue` (turns), `Quarantine` (refined) |
| `AdaptiveJailHistory` | the same with the series of breaches of each key | `AdaptiveJail` |
| `AdaptiveJailRestart` | the same in a process that stops and starts again | `AdaptiveJail` |
| `AdaptiveJailProofs` | theorems about one life of the process | `AdaptiveJailHistory`, `BlocklistProofs` |
| `AdaptiveJailRestartProofs` | theorems about all its lives | `AdaptiveJailRestart`, `AdaptiveJailProofs` |
| `TokenRevocation` | issue, guard, logout, restart | `Blocklist` |
| `TokenRevocationProofs` | its theorems | `TokenRevocation`, `BlocklistProofs` |
| `GatePipeline` | chains, gate, buffering, adapters, hooks, shutdown | |
| `GatePipelineProofs` | its theorems | `GatePipeline` |
| `GraphqlGuard` | the scan of batches and the walk over selections, and what a query written out is | |
| `GraphqlGuardProofs` | its theorems | `GraphqlGuard` |
| `SecurityApi` | threat history, live feed, their routes, the names of blocks | |
| `SecurityApiProofs` | its theorems | `SecurityApi` |
| `MC...` | the instances for TLC; in `MCGraphqlGuard` also the tree a query expands to, by recursion | |

### State and actions against the code

**KeyLock.** `keyChains[k]` holds all calls chained on `k`; the code's map holds
the last. `WithKeyLock` is the synchronous body of the function, `StartTurn` the
reaction of `tail.then(fn, fn)`, `Settle` the return or throw of `fn`. A call in
`Hanging` may stay in its function for ever.

**Blocklist.** An entry carries the ticks it has left. The code deletes or
ignores what has expired, and 0 left stands for both. Every Redis command has one of four
outcomes: `ok`, `lost` (not applied, rejected), `unacked` (applied, rejected)
and `resent` (applied twice, answered), and the constant `Regimes` says which outcomes a
behaviour may have. Two commands show the difference between the last three:
`INCR` counts by two when resent, and `EXPIRE` that fails after `INCR` leaves a
counter without TTL (`NoTtl`). `wire` holds the SETs of `block` that are on the
connection, since `block` sets the mirror first and an admin does not take the
lock: SETs are applied in the order they were sent. All other commands take
effect when their caller resumes: under the lock no other caller of the same
key can tell. Counts are capped at `ViolationCap`, from where the block is the
maximum anyway (`CapAssumption` says so).

**AdaptiveJail.** `pc[r]` is the `await` at which request `r` is. An action is
the code between two awaits: `Arrive`, `GuardCheck` (the look outside the lock),
then, in the turn, `Recheck`, `CheckJail`, `JailLimit`, `IncrViolations`,
`ExpireViolations`, `SetBlock`, `ReleaseJail`, `PlaceInJail`; `Forward` and
`Reply` are the rest of the chain and the upstream, `RecordOutcome` and
`FailLimit` are `recordLoginOutcome`, which loops over the address and the
account (`todo`). The verdict of a limiter (`JailLimit`, `FailLimit`) is a free
choice: any configuration of `rate-limiter-flexible` is one of its behaviours.
The locks are the queue of `KeyQueue`, which `KeyLock` refines.

**AdaptiveJailRestart.** `Restart` may come between any two steps. It empties
the mirrors, the locks and the requests. Of the commands that were on their way
Redis has read some: any prefix of the SETs on the wire (`DrainWire`), and for any set of
keys the `INCR`, `EXPIRE`, or the SET or DEL of the jail that the key's turn
awaits (`Land`); a key has one turn, so one such command. `Restarts` bounds how often.

**TokenRevocation.** A tick is half a second, so that what `Math.floor` cuts off
is visible. `Guard` and `GuardConfirm` are the two halves of the check, `Logout`
and `LogoutDone` those of a logout; `Restart` clears what is in memory, may apply any
prefix of the SETs that were on the connection, and keeps Redis. `mark`
records, for the properties only, when a logout was called.

**GatePipeline.** `chain[r]` are the scanners ahead, `body[r]` the state of
`request.body`. A turn of the gate runs a scanner whose verdict is
free, one action per scanner (`FastFilter` ... `Passthrough`),
`OpenTransaction`/`InspectTransaction` are the Coraza adapter,
`AskOracle`/`OracleAnswers`/`OracleGone` the ModSecurity adapter, `Forward` and
`Answer` the upstream, `Send` the `onSend` hooks, `Respond` the `onResponse`
hook, `Signal` and `Close` the shutdown. A client may hang up (`HangUp`), and a
shutdown does not wait for its request; since nothing else in the gateway reacts
to that, the action is enabled during a shutdown only. `cookies[r]` is the
Set-Cookie header, an array: the upstream's with `Answer`, and what the two
hooks make of it with `Send` (`Hardened` first, then the session's cookie). Of a
cookie there are the flags it has as attributes (`flags`), and those that another of its
parts, `name=value` first of all, begins like (`like`): `hardenOneCookie`
cannot tell the two apart (`HardenOne`).

**GraphqlGuard.** `stack` is the recursion of `walkSelectionSet`: a call has the
selections it has left, its depth, and the fragment whose spread led to it. An
action is one selection of the loop (`SelectField`, `SelectInline`,
`SelectSpread`), a return, the next definition, or the start and end of an
operation of the batch. A document is the record of its operation definitions and its
fragments; the parser is external, and an operation it rejects is `unparsable`.
What a verdict means is said without the walk: `Places` are the selection sets
of the query written out, every spread replaced by what it stands for, with
their depth and the fragments around them; `VerdictIsTrue` compares the verdict
with their depths and their `Fields`. `Longest` bounds how deeply places nest. The
prover cannot use a `RECURSIVE` operator, so places are gathered level by
level; `MCGraphqlGuard` also expands the query as a tree, by recursion, and
`PlacesAreTheTree` has TLC compare the two on every query of the run.

**SecurityApi.** A connection is an operator's page: a WebSocket and the latest
answer to its `GET threats`. `Block` and `Allow` are what `createGatePreHandler`
tells the history and the bus; `Reporting` and `Category` name a block as the Coraza adapter does
(`pickReportingRule`, `categoryFor`). A socket closes in two steps, and its
handler leaves the bus with the second. `LastOf` is `slice(-limit)` of any number, 0 and
`NaN` included. `matched`, `joined` and the ids of events are there for the properties only.

## 3. What is checked

Every name below is a definition of the module; the comment above it quotes the
promise of the code it states.

| Run | Shows | Instance |
|---|---|---|
| `KeyLock` | `OneAtATime`, `ArrivalOrder`, refinement `ChainIsQueue`, `TurnComes` | 2 keys, 4 calls, one that may hang |
| `JailBurst` | `TurnsHeld`, `DecidesUnblocked`, `MirrorIsBacked`, `OneEscalationPerBlock` | 3 requests and an admin on one address, Redis answering with resends or doing anything |
| `JailCycle` | refinement `JailsBeforeBlocks` of `Quarantine`, `RepeatBreachDoubles`, and the liveness of `EveryRequestEnds`, `BlocksLapse`, `CountsLapse` | 2 requests, one address, a window of six ticks and blocks up to four, Redis up or down throughout |
| `JailRestart` | `TypeOK`, `BlockOutlivesProcess` | 2 requests, an address and an account, one restart at any step |
| `TokenRevocation` | `RevocationOutlivesToken`, `OnlyRevokedRefused`, `RevocationIsBacked`, `RevokedRefused` | 2 clients, an access and a refresh token that share a bit, three seconds |
| `GatePipeline` | `OneVerdict`, `ThreatsAreLatest`, `BodyArrivesWhole`, `UpstreamDecidesLogins`, `CookiesLeaveOnce`, `TransactionsClosed`, `EveryRequestReplied` | 2 requests, all routes, all sizes of bodies, headers of up to two cookies, three engines, a history of one entry |
| `GraphqlGuard` | `SeenIsPath`, `VerdictIsTrue`, `ScanEnds` | every query of two selections over two fragments that may spread themselves and each other, depth 3, 4 fields, batches up to 3, places up to six selections deep |
| `SecurityApi` | `FeedIsWhole`, `NothingBetween`, `AttacksAreNamed`, `AnswersAreLatest` | 2 pages, 3 decisions, a history of two entries, every order of two matched rules out of four |

Why these bounds. Three requests are the smallest burst with one in its turn, one
queued, and one at its look outside the lock; a fourth would only queue behind
the second. Requests that are done arrive anew, so a run has
no last round. The order of the durations is that of the code: the base block
is shorter than the jail or as long, the cap follows it, and the violation
window is the longest; doubling shows with a cap of four times the base.
A history of one entry overflows with the second denial. A header of two cookies
shows an order, and a copy; its cookies lack a flag, have one, or have a name
that begins like one they have or lack.
Two tokens of which one covers the other's bits are the smallest filter with a
false positive; the horizon is past every expiry. One restart is enough
for what one life leaves to the next, and a second life that stops is like the
first. A depth limit of three and a limit of four fields are passed both by
nesting and by spreading a fragment twice; a self-spread, a cycle of two, an undefined
fragment and a spread below a field are all among the documents, none of which
nests deeper than `Longest` (TLC checks that with `DocumentsAssumption`). Three decisions
overflow a history of two. Symmetry is used only in
`JailBurst`, `TokenRevocation` and `SecurityApi`, which check safety.

`KeyLock`, `GatePipeline`, `GraphqlGuard` and `SecurityApi` are run without the
deadlock check: there each call is made once, each request arrives once, the
server does stop, a scan ends, and decisions are bounded.

### Fairness

* `AdaptiveJail`: weak fairness of `Tick` and of `Step(r)`. A Redis promise
  settles: the client does not queue offline and gives a command up after one
  retry (`redis/client.js:12-18`), so a connection that breaks rejects it. (One that
  stays open and silent would not; that case is the `Hanging` of `KeyLock`.)
  The limiters settle with it, the upstream answers or http-proxy gives up. No request is assumed
  to arrive, and the lock has no fairness of its own: `EveryRequestEnds` holds
  because the queue is FIFO.
* `KeyLock`: the event loop runs a reaction whose promise has settled; a
  function settles unless it is in `Hanging`.
* `GatePipeline`: weak fairness of the gateway's own steps, of its timer and of
  http-proxy. The oracle is *not* assumed to answer; the timer is what makes
  `EveryRequestReplied` hold.
* `GraphqlGuard`: a synchronous walk goes on.
* `TokenRevocation` and `SecurityApi` have safety properties only and no fairness.

### Where the code and its comments disagree

Four runs check one statement of the repository each, and TLC finds it false.

* `JailRecheckAdmits`: `index.js:88` says an already-blocked IP is rejected. A
  request that waited for the lock behind the one that got the address blocked
  sees the block in its recheck and returns `null`, which admits it.
* `AccountBlockIgnored`: the same comment says so for accounts. The account is
  set by the login guard, which comes *after* the blocklist guard, so the
  guard's account check never sees one.
* `RevocationRestart`: the Bloom filter is said never to let a revoked token slip
  through. After a restart it is empty, and a miss is not confirmed in Redis.
* `JailCutCount`: each repeat "within the violation window" doubles the block
  (`blocklist.js:80-81`). A stop between `INCR` and `EXPIRE` leaves a count without
  TTL, and only a count of one goes on to set it: from there on breaches any
  time apart double. Within one life, with Redis up or down throughout,
  `CountsLapse` holds (`JailCycle`).

Two statements are narrower than their words without a run of their own. ArmourAPI
"hardens any Set-Cookie header passing through it" (`session-hooks.js:51`), but
`hardenOneCookie` looks for a flag at the beginning of every part of the cookie, `name=value`
included (line 39): a cookie `secureSession=x` is taken to be Secure already,
and leaves without it, as does one named `httponly_id` without HttpOnly. MCGatePipeline has
such cookies, and `CookiesLeaveOnce` says what does hold: a flag is missing only from
a cookie of which another part begins like it. And the Bloom
filter "can never let a genuinely revoked token slip through", but a check that
verified the token before its expiry and reads the store after it finds no revocation.
`RevokedRefused` is the part of the statement that holds.

## 4. What is proved

| Theorem | Says |
|---|---|
| `KeyLockProofs!TypeCorrect`, `TurnsInArrivalOrder`, `MutualExclusion` | `TypeOK`, `ArrivalOrder` and `OneAtATime`, for any keys, calls and hanging calls |
| `KeyLockProofs!ChainImplementsQueue` | the refinement `ChainIsQueue`: the chain is a FIFO queue per key |
| `AdaptiveJailProofs!TypeCorrect` | `TypeOK` for any requests, admins, keys, durations and regimes |
| `AdaptiveJailProofs!TurnsExclude` | `TurnsHeld` |
| `AdaptiveJailProofs!DecisionsStand` | `DecidesUnblocked` |
| `AdaptiveJailProofs!EscalatesOnce` | `OneEscalationPerBlock`, an action property |
| `AdaptiveJailProofs!MirrorBacked` | `MirrorIsBacked`, as long as Redis answers: with turns and admins on one key |
| `AdaptiveJailProofs!BlocksComeFromJail` | the refinement `JailsBeforeBlocks` of `Quarantine`, where Redis is up, or down, throughout and no admin blocks by hand |
| `AdaptiveJailProofs!BreachesDouble` | `RepeatBreachDoubles`, an action property of `AdaptiveJailHistory`, where Redis is up, or down, throughout, with any admins |
| `AdaptiveJailRestartProofs!TypeCorrectInEveryLife`, `DecisionsStandInEveryLife`, `EscalatesOnceInEveryLife` | `TypeOK`, `TurnsHeld` with `DecidesUnblocked`, and `OneEscalationPerBlock` with stops and restarts at any step, any number of them |
| `AdaptiveJailRestartProofs!BlocksOutliveProcess` | `BlockOutlivesProcess`, under the assumptions of `BlocksComeFromJail` |
| `TokenRevocationProofs!TypeCorrect`, `RevocationOutlives`, `OnlyTheRevokedAreRefused`, `RevocationBacked`, `TheRevokedAreRefused` | `TypeOK`, `RevocationOutlivesToken`, `OnlyRevokedRefused`, `RevocationIsBacked` and the action property `RevokedRefused`, for any clients, tokens, filter and regimes, over any number of restarts |
| `GatePipelineProofs!TypeCorrect`, `EveryVerdictOnce`, `HistoryIsLatest`, `BodiesArrive`, `OnlyTheUpstreamDecides`, `EachCookieLeavesOnce`, `TransactionsGivenBack` | every invariant of the run `GatePipeline`, for any requests in flight, engines and bound of the history |
| `GraphqlGuardProofs!TypeCorrect`, `PathIsSeen` | `TypeOK`, with how far the walk goes beyond a limit, and `SeenIsPath`, for any limits and any payload |
| `GraphqlGuardProofs!VerdictHolds` | `VerdictIsTrue`, for any limits, batches and finite documents, whatever their fragments spread |
| `SecurityApiProofs!TypeCorrect`, `FeedsAreWhole`, `NothingIsMissed` | `TypeOK`, `FeedIsWhole` and `NothingBetween`, for any pages, rules and bounds |
| `SecurityApiProofs!AttacksNamed` | `AttacksAreNamed`, for any rules in any order |
| `SecurityApiProofs!LatestAnswered` | `AnswersAreLatest`, an action property, for any history, category and limit |

*Argument for the lock.* `OneAtATime` is not inductive by itself: two calls of a
key could run if a later one had been let in early. `ArrivalOrder` excludes
that, and needs in turn that a call stands in one place of one chain, which is
part of `TypeOK`. `TypeOK` with `ArrivalOrder` is inductive, and mutual
exclusion follows from it. The queue that the chain implements is what follows
the calls that have settled. That these are a prefix of the chain is kept as
an invariant with the length of the prefix as its witness (`Boundary`), so that
no induction over the chain is needed: a new call is behind the boundary, a
start does not move it, and the call that settles is the one behind it, by
`ArrivalOrder`.

*Argument for ARM-02.* The inductive invariant is
`TypeOK /\ TurnsHeld /\ DecidesUnblocked`. A turn that finds its key unblocked must
know that no escalation starts until it acts. Only a turn escalates, only the
head of the queue is in a turn, and the head keeps its place until it leaves:
this is `TurnsHeld`. Time only lets blocks lapse, and the admin's block has reason
`manual`. So `DecidesUnblocked` is preserved, and then a step that counts a
violation or lengthens an escalation would have to be one of a turn past its recheck,
whose key `DecidesUnblocked` says is not under an escalation. Types come first because
the arithmetic of TTLs and counts needs them; `BlocklistProofs` has a lemma per
operation of the stores.

*Argument for restarts.* A step within a life is a step of `AdaptiveJail`, so
its lemmas carry over, and `Restart` is the one new case. It leaves no turn, so
`TurnsHeld` and `DecidesUnblocked` hold of nothing. It can still charge a key, with an
`INCR` that lands: but that `INCR` was the queue head's, and `DecidesUnblocked`
says that its key was under no escalation. `BlockOutlivesProcess` speaks of
Redis instead of the mirror and needs an invariant of its own (`Listed`): a turn that is
past its recheck and has not blocked its key works at one that Redis does not
list, and every SET on the connection is that of a turn which awaits it. So no
SET of another turn can list the key meanwhile. An admin's SET could, and a
recheck that alone went unanswered would not have seen the list: hence the two
assumptions (`Undisturbed`): no admin, and a Redis that answers throughout or
is down throughout. Where it is down it lists nothing (`Unreached`).

*Argument for the mirror.* `block` writes the mirror before Redis, and an admin
does it without the lock, so that several SETs of a key may be on the
connection. They are applied in the order sent, so it is the newest that
counts: `Backed` says that what the mirror enforces is not longer than the
newest SET of the key on the connection or, where there is none, than what
Redis has. Redis applies the oldest first (`EndBlockTakes`), so the newest is the
last to be applied.

*Argument for the tiers.* A key is free, jailed or blocked; a step maps to a step of
`Quarantine` because the turn that blocks a key has found it unblocked
(`DecidesUnblocked` for the mirror, `Listed` and `Unreached` for Redis) and in jail,
and because no stay is left in jail while the key is blocked, except that of the
turn that has just blocked it and is not done: in memory while it awaits the SET, in
Redis while it awaits the SET or the DEL (`NoStayLeft`).

*Argument for progressive delays.* `AdaptiveJailHistory` records of each key
what its latest breach earned, and how long the window of its series and the
quiet since it still last. `Series` relates that to the
counters: in Redis the count expires with the *window*, which the first breach
opens; in memory with the *quiet*, which every breach begins anew. The
last block is the one the count earned, so that the next count earns its double
(`BlockDoubles`) or, where none is left, the base (`FirstBlock`). Between `INCR`
and `EXPIRE` Redis has a count of one without TTL; the turn is in the lock,
so no other breach of the key can fall in between (`Settling`). An admin's block
charges nothing. Where Redis fails at times, some breaches are counted in Redis
and some in memory, and the statement is not made.

*Argument for revocations.* Within one life the mirror is enough: `block` writes
it before it awaits Redis, with a lifetime that is rounded up
(`RevocationOutlivesToken`), and the filter gains bits only. For what survives a restart, each
SET on the connection must be that of a logout which awaits it, for a token
revoked in this life, and last as long as the token (`SetsAwaited`); then whatever
prefix of the SETs a stop applies, Redis is right. That only revoked tokens are refused needs
the converse, that no store has a token which nobody revoked
(`UnmarkedUnlisted`): a false positive of the filter finds nothing there.

*Argument for the pipeline.* The invariant is one per request (`RequestInv`), since
requests share only the history and the pool. The scanners ahead are a suffix
of the route's chain, with the adapter last and nowhere else (`ChainAhead`); so
`isLast`, which a shared scanner object carries, cannot be wrong for a route.
The body is as it was sent until the fast filter has read it, and buffered or absent ever after
(`BodyRead`); a verdict is there exactly when the gate denied or forwarded (`Judged`);
what the hooks did agrees with what the upstream answered (`Hooked`). The
Set-Cookie header is empty before the answer, the upstream's until it is sent, and
then what `HardenedKeeps` says of the array that `hardenCookiesOnSend` puts in
its place (`Header`).

*Argument for the GraphQL guard.* The calls on the stack are no deeper than
the depth that was seen, and a selection is looked at within the limits only; so
one more level, or field, is the most that is seen. A spread enters a fragment
that is not on the path, and leaves it when its call returns, at the end of the
set or with a limit passed. Selection sets nest without end, so the stack
is typed with what its sets are left open.

*Argument for the verdict.* The calls on the stack walk a trail of places, each the
set of a selection that was taken from another; what was taken so far is a set of
definitions and selections (`Tracks`). A place is named by the selection
it is the set of, so a place that is entered was never entered before, and no field is
counted twice. The counters are true of what is done at every step (`Counted`):
the depth is that of a place, the field count is the number of fields
done. As long as no limit is passed, a place that was left is done
to its last selection (`Completed`); at the end of the walk
everything reachable is done then, and what is reachable from the definitions is every
place (`PlacesInduction`). With a limit passed the walk leaves selections out, but then the counters
name a place, or fields enough, that break the limit.

*Argument for the feed.* `Heard` says event by event that a page has the
events since it subscribed, one that is open all of them. A page that is open
has its handler on the bus (part of `TypeOK`), so it hears a new threat in the
turn in which the history gets it; what the history had before was in the
answer.

*Argument for names and answers.* Both rest on what `filter` returns: the
elements that are kept, in their order, and every one of them. `Filter` is a
recursive function here, and the facts are proved by induction along the
sequence.

The assumptions are those the modules name. Durations are positive
(`DurationAssumption`), the cap of the count is one beyond which the block is
maximal (`CapAssumption`), regimes are sets of outcomes (`RegimeAssumption`),
keys are those of addresses and accounts and admins are not requests
(`ActorAssumption`), what the engine reports are sequences of rules
(`MatchesAssumption`), bounds are naturals, a
document names its fragments, and no name is empty (`PayloadsAssumption`). The prover knows no fact
of exponentiation, so `CapAssumption` and `PowerAssumption` state those that are used: powers
of two up to the cap are positive naturals, and each is twice the one before it.
`DocumentsAssumption` says that documents are finite: what graphql parses comes
from a body of bounded size, and a fragment is not spread within itself, so for all bodies
up to that size one `Longest` is enough.
TLC evaluates all of them on every instance.

Only model-checked, and why:

* Liveness: `TurnComes`, `EveryRequestEnds`, `BlocksLapse`, `CountsLapse`, `EveryRequestReplied`,
  `ScanEnds`. The prover does not know fairness.
* `PlacesAreTheTree`: its reference is a recursive operator.

Every safety property that a passing run checks is a theorem. Induction is done by
hand where one is needed, on a set of naturals (`SetInduction`, from the
well-foundedness of the naturals) or on a set of places (`PlacesInduction`), since the induction
theorems of the library cannot be used.

## 5. What is abstracted or left out

* What rules match (signatures, Coraza, schemas) is a free verdict of the
  scanner; in `GatePipeline` so is the GraphQL guard's, which has a module of
  its own.
* The limiters' windows and insurance limiters are `rate-limiter-flexible`'s. Their
  verdicts are free, which holds whatever they answer, also where an address and
  an account of one name share their points (`index.js:205`).
* Addresses, accounts and tokens are model values; the strings built from them
  are pairs of type and value. Durations are small numbers in the order of the
  real ones.
* A cookie's name, value and unknown attributes are only what they begin like.
* `keyChains` is never pruned; what it leaks are settled promises, which
  decide nothing.
* `listMemoryBlocklist` only reads the mirror, and the admin key is one
  comparison per request.
* `JailsBeforeBlocks` is stated within one life. A stop between the SET of a
  block and the DEL of the jail leaves both in Redis, and the key is back in
  jail when its block lapses; nothing in the repository says otherwise.
* One process at a time: ArmourAPI may run in several, and then the lock is per
  process. The code's own comments restrict ARM-02 to one process.

Not modelled:

* Logging, metrics, configuration and the demo page decide nothing.
* The zod schemas are tables of formats without state.
* The Raft demo is not part of the gateway: a script around PySyncObj, whose
  replication is the library's.

## 6. Plan

Done, in this order: `KeyQueue`, `KeyLock` and proofs; `Blocklist` and lemmas;
`AdaptiveJail` with `Quarantine` and history, and proofs; `TokenRevocation`;
`GatePipeline`; `AdaptiveJailRestart` and proofs; `GraphqlGuard`; `SecurityApi`.

Then proofs: `ChainIsQueue`, `MirrorIsBacked`, `JailsBeforeBlocks`, the invariants
of `TokenRevocation`, `GatePipeline`, `GraphqlGuard` and `SecurityApi`, and last
those that need an induction or a history: `AttacksAreNamed`, `AnswersAreLatest`,
`RepeatBreachDoubles` and `VerdictIsTrue`.

What is left: a statement about breaches that holds where Redis fails at times,
when some are counted in memory and some in Redis; and `KeyLock` under several
processes, should the code ever share its lock.
