# crypto-compliance: a verification development

TLA+ models of the crypto-compliance service, TLC configurations that check them
on small instances, and TLAPS proofs of what matters most for every instance.

- [1. The system](#1-the-system)
- [2. Modules and how they map to the code](#2-modules-and-how-they-map-to-the-code)
- [3. Runs, bounds and fairness](#3-runs-bounds-and-fairness)
- [4. Proofs](#4-proofs)
- [5. Findings](#5-findings)
- [6. Not modelled](#6-not-modelled)
- [7. Plan](#7-plan)

`C` below stands for `src/backend/src/compliance`.

## 1. The system

Three services: a NestJS **backend** (gRPC) that decides whether a crypto address
may be used, a NestJS **gateway** (HTTP, JWT) in front of it, and a Next.js **admin
console**. Several replicas of the backend share one PostgreSQL database, one Valkey
server and the BullMQ queue kept in it.

| Component | State | Operations | What makes it correct |
|---|---|---|---|
| Policy lists (`C/adapters/secondary/policy`, `C/application/use-cases/mutate-…`) | table `compliance_address_policies`, unique on (policy, network, address) | `getPolicy`, `exists`, `add`, `remove`, `list`; the use case `execute`, `addWithInvariant` | an address is on at most one list; leaving the whitelist for the blacklist needs a confirmation; `changed` tells the truth; one row per address whatever its spelling |
| Signed mutations (`secure-mutate-…`, `trusted-mutate-…`) | none of their own | `execute`: validate, timestamp window, HMAC, hash, `executeOnce` or run directly | the signature binds the request; one audit row per answered mutation; nothing is let in after the window |
| Idempotency (`C/adapters/secondary/idempotency`) | Postgres advisory locks; the audit rows are the record. The Valkey variant is not wired | `executeOnce`: poll the lock until a deadline, look up, replay or act, unlock | one owner per key; every positive answer of a key is the same; a failed attempt does not burn the key; nobody waits for ever, neither for the lock nor for a connection of the pool |
| Mutation history (`C/adapters/secondary/history`) | table `compliance_policy_mutation_history`, partial unique index on `idempotency_key` | `append`, `list`, `findByIdempotencyKey` | a key has one row |
| Compliance check (`check-address-compliance.service.ts`) | none of its own | `execute`: lists, cache, lock, cache again, provider, store, history | the lists win over cache and provider; one provider request per miss; every reply audited |
| Cache and address lock (`C/adapters/secondary/cache`) | Valkey keys with a TTL | `get`, `set`, `withAddressLock` (SET NX PX token, compare-and-delete) | only the owner deletes the lock; waiters end |
| Provider queue (`C/adapters/secondary/queue`) | BullMQ jobs | `checkAddress` (enqueue and wait), `process` (worker, concurrency 1) | each waiting caller gets its own job's answer or a timeout |
| Provider client (`C/adapters/secondary/http`) | none | HTTP request, response validation, risk evaluation | a provider answer is classified the same way everywhere |
| gRPC controller and error mapping | none | five handlers | an error keeps its meaning up to the HTTP client |
| Gateway | none (JWT is stateless) | login, policy and admin endpoints, signing of trusted mutations | what the gateway signs is what the backend verifies |
| Console (`src/frontend/app/page.tsx`) | session in storage, three lists, pending operation | load, add, remove, login, logout | what is shown belongs to the current session and is not older than what was shown; one mutation at a time; no flag stays set |
| Network field (`src/frontend/components/network-combobox.tsx`) | text, open or not, chosen network | typing, keys, clicks | the network that is sent is the one that is shown |

How they interact: the console calls the gateway over HTTP; the gateway signs a
mutation and calls the backend over gRPC; the backend's use cases await Postgres
statements (each on some connection of the pool), Valkey commands and the queue.
There is no transaction across two statements anywhere. So the hard behaviours are
the interleavings of requests between two awaits, in one process or in several
replicas; the failure of one statement in the middle of a use case, with or without
effect; the death of a process; locks that are lost while the work goes on (a session
dropped, a TTL elapsed); and retries by clients that did not get an answer.
`PROJECT.json` lists each hazard at its line, with the properties that watch it.

## 2. Modules and how they map to the code

### PolicyMutation (`mutate-compliance-address-policy.service.ts`, policy adapter)

`table` holds the rows of `compliance_address_policies`. Each element of `Calls` is a
request in `execute`: `step` is the place it awaits at, `input` its normalised
request, `sawTarget` and `sawOpposite` the two answers of `Promise.all`, `changed`
the field of the reply.

| Action | Code |
|---|---|
| `Begin` | validation, `normalizeInput`, dispatch on `action` |
| `ReadTarget`, `ReadOpposite` | the two `exists` of `Promise.all`, answered in any order |
| `RejectUnconfirmed` | the `ConflictException` of `addWithInvariant` |
| `RemoveOpposite` | `remove(oppositeEntry)` |
| `AddTarget`, `KeepTarget` | `add(targetEntry)`: `INSERT … ON CONFLICT DO NOTHING`, or nothing when the row was seen |
| `Delete` | `remove` of a removal request |
| `QueryFails` | a statement that fails without effect; a statement whose answer is lost is the second outcome of the write actions |
| `Return` | the caller has the answer, or the process is gone |

An address is a record `[network, name, mixed]`: `mixed` stands for letter case, and
`Canonical` is the lower-casing on `eip155` networks done by the use case and again by
the adapter. `before` (the lists that held the entry when the call began) and `raced`
(calls that overlapped another one on the same entry) are history variables that no
guard reads. `Outcome` is the atomic meaning of a request: the abstract specification
that `UnracedAtomic` compares each call with.

A statement of a dead client that the database applies later, after others have
written, is not modelled: a statement takes effect before its call ends.

### IdempotentMutation (`secure-…`, `trusted-mutate-…`, Postgres idempotency and history adapters)

Composes PolicyMutation (the action that `executeOnce` guards) with the advisory lock
and the audit table. Both use cases have this body; their signature and timestamp
checks precede any state and are taken as passed (`Submit`). The request hash covers
action, policy, network, address and confirmation, so it stands for the request.

`session[c]` is the connection that the query runner of a request holds, `owner[k]`
the session that holds the advisory lock of a key. Locks are re-entrant in a session:
`Available(k, s)` also holds when `s` has it already. Unlocking may fail silently
(`leaked`): the session then goes back to the pool with the lock. `SessionDrops` ends
a session on the server, with its locks, while the request that holds it goes on.
`Append` obeys the partial unique index (`Clashes`); `Crash` is the death of the
process at any point. `history` may start with a row older than the `request_hash`
column, which the index sees and the look-up does not. The sleep between two polls and
the deadline appear as the phases `queued` (not tried yet) and `polling` (found the
lock taken at least once): any number of polls, then the lock or the deadline.
`unguarded` is a history variable.

### WriteOnceRecord

What a key promises: decided at most once, never changed, every positive answer is the
decision. IdempotentMutation implements it (`KeysAreWriteOnce == Record!Spec`) with the
audit table as the record: `recordOf` and `toldTo` are the refinement mapping.

### CheckAddress (`check-address-compliance.service.ts`, Valkey cache adapter, check history)

Composes PolicyMutation (whose steps change the lists between the awaits of a check)
with the check itself: `ReadBlacklist` and `ReadWhitelist` are the two statements of
`getPolicy`, `LookUp` and `Recheck` the cache before and under the lock, `TakeLock`,
`FindLocked`, `GiveUp` the loop of `withAddressLock`, `ProviderAnswers` and
`ProviderTimesOut` the queue seen from its caller, `Store`, `Release`, `Save` the
rest. `lock[e]` names the check whose token is in Valkey; a token is fresh for each
acquisition, and a check acquires only a free lock, so the name of the check is enough.
`LockExpires` and `CacheExpires` are the TTLs; the lock's 250 ms may elapse at any point of its
owner's work. `at` numbers the provider's answers, so that an older one can be told
from a newer one. A command may fail without effect (`Fails`) or with effect and no
answer (`Applied`). `found`, `disturbed`, `overrun` and `lapsed` are history variables.

### ConnectionPool (Postgres idempotency adapter, `typeorm.config.ts`)

IdempotentMutation has a session for every request; this module asks where the sessions
come from. `executeOnce` keeps one connection of the pool for its query runner and the
advisory lock, while the look-up, the statements of the mutation and the audit insert
each ask the same pool for another. `stage[c]` is where a request stands, `owner[k]` who
holds the lock of a key with its session, `lent` the tickets (request and use) that have a
connection, `queue` the line for one, `expired` the requests whose deadline has passed: the
deadline is looked at between two polls only, so a request that stands in line is not ended
by it. An unlock that fails is swallowed, and so is a lock statement that took effect and
failed: the lock stays with a session of the pool (`leaked`). Which session the pool lends is
left open, so a request under that key may get the lock again, with the session that has it,
or find it taken (`LockTaken`). `losses` counts locks left and sessions dropped.

| Action | Code |
|---|---|
| `Submit` | `execute`: with a key `createQueryRunner`, without one the statements at once |
| `Grant`, `GrantFails` | the pool of `pg`: the first in line gets a connection, or no connection can be opened for it |
| `TryLock`, `LockFails`, `WakeUp` | `pg_try_advisory_lock`, the release of the query runner and the sleep between two polls |
| `StatementReturns`, `StatementFails` | a statement gives its connection back; `Promise.all` does not wait for the other look-up when one has failed |
| `Unlock` | the `finally` block: the unlock, whose failure is swallowed (`MayLeak`), and the release |
| `SessionDrops`, `LeakEnds` | the server ends a session: one that is lent, while its request works on, or one that kept a lock |
| `Expire` | the deadline |

### ValkeyIdempotency (`valkey-compliance-idempotency.adapter.ts`)

The second implementation of the idempotency port, not registered in the module. `record`
is the value under the key: none, in progress, completed with a result. `runs` lists the
requests whose action was carried out, `mine[c]` the run whose result a request holds.
`Create` and `CreateFails` are `SET NX`, `Read`, `ReadFails` and `GiveUp` the loop of the
waiter, `Act` and `ActFails` the action, `Mark` and `Release` the two scripts (with their
failures), `Die` the death of a process at an await, `Lose` the loss of the record (its
TTL, an eviction, a restart of the store). `Losses` says which of these faults a run
allows; `faults` remembers which have happened. `KeyIsWriteOnce == Record!Spec` is the
same abstract specification that IdempotentMutation implements, so the two adapters can be
compared: the Postgres one implements it under every fault, this one as long as every
success could be recorded and no record was lost (`SoundSoFar`), through the other faults:
reads and creations that fail, actions that fail, releases that fail, processes that die.

### ProviderQueue (`bull-compliance-provider.adapter.ts`, processor, `suward-…`, `risk-evaluation.ts`)

`caller[k]`, `ask[k]` and `asked[k]` are a check that waits for a job, `job[j]` the record
of a job (state, question, attempts failed, times stalled, owner, result), `queue` the
line, `worker[w]` what each replica's worker has in hand. One attempt of a worker is the
whole `checkAddress` of the Suward adapter: `Refuse` (schema or configuration, nothing is
sent) or `Receive` of one of `Outcomes`, which is computed from every combination of a
reply's features by `Usable` and `ToDomain`. `since` and `sent` are history variables.

| Action | Code |
|---|---|
| `Ask`, `AskFails` | `queue.add` with a fresh id, `waitUntilFinished` |
| `Notice`, `TimesOut`, `Leave` | the end of the wait: an event, the timer, the answer is given |
| `Take`, `Refuse`, `Receive` | the processor and the provider client |
| `Promote`, `Stall` | BullMQ: the backoff is over; a lock nobody renewed is given up, the job handed out again or failed |
| `Die` | the process of a worker dies |
| `Close` | `onModuleDestroy` |

A job ends with or without its caller (`EveryJobEnds`); what the caller has of it is
ProviderPort.

### ProviderPort

What `ComplianceProviderPort` promises a check: a caller is asked for (`Send`) after it
asked (`Ask`), what the provider says to that (`Say`) is told to it once (`Tell`) and does
not change until it leaves; until it is told it may fail (`Fail`), at once, late, or
together with others when the adapter closes. ProviderQueue implements it
(`ServesPort == Port!Spec`): `portStage` and `portResult` are the refinement mapping,
which counts a call as sent only when a request about its own question was sent after it
asked, and as said when its job is completed. Retries, hand-overs and the attempts of
workers that have lost their job are steps the port does not see.

CheckAddress takes the port as its provider. Its stage `asking` is a call that is asked or
sent, `ProviderAnswers` is `Say`; what was said and is lost before the check has it (`Fail`
after `Say`) is `Fails` in the stage `storing`; and `ProviderTimesOut` is any other `Fail`.

### GrpcMapping and Gateway (both sides of the gRPC boundary)

GrpcMapping holds the tables of both sides: numbers of enumerated values, codes of
statuses. Gateway sends requests through them. `session` is the token a client holds;
`stage[c]`, `ask[c]`, `token[c]` and `sentAt[c]` are an HTTP request, `wire[c]` its gRPC
message, `reply[c]` what the backend makes of it, `answer[c]` what the client gets.
`clock` is the gateway's, `clock + skew` the backend's. `work[c]` is the mutation that the
backend has let in for it and not ended; `did[c]` is history: what was carried out, and when
it was let in.

| Action | Code |
|---|---|
| `Login`, `Redeploy`, `Tick` | `issueToken`; a gateway that starts with another secret; time |
| `Send` | a client, with the token it has; a caller of the signed interface signs now |
| `GatewayRefuses`, `GatewayForwards` | guard, `requireMutationBody`, headers, `normalizeTrustedMutationInput`, signature and timestamp, the gRPC message |
| `BackendReplies` | the gRPC controller: a query, a check, or a mutation that is refused for its fields, its window or its signature; `toGrpcException` |
| `BackendAdmits` | the checks of a mutation passed, `executeOnce` or `execute` begins |
| `BackendEnds` | the mutation ends, at any later time, with any outcome, also when nobody waits for it any more |
| `ConnectionBreaks` | a gRPC call that ends without an answer, before, during or after the backend's work |
| `Answer` | the way back: repeated fields, numbers to names, `toHttpException`; the caller of a check, which has no route at the gateway, gets the gRPC code |

What the use cases do is in the modules above; here a mutation that was let in waits for as
long as it may (for a connection, its key, the stores: nothing ends that wait with the
window), is carried out or not, and any error may follow (`MutationOutcomes`).

### Console (`page.tsx`, `policy-api.ts`, the API routes)

One browser tab. `session`, `shown`, `loading`, `mutating`, `authenticating`, `error` and
`form` are the state of the page, `stored` its local storage. `loads` and `calls` are the
requests under way: a load is three requests with the token it was started with (`got`),
a mutation is one request and then a load of its own. No answer is matched with what is
current when it comes: `Arrive`, `LoadDenied`, `Denied` apply to whatever session there
is, as in the code. `book` is the backend, one atomic mutation at a time, with an audit
row each (PolicyMutation shows what that takes); `Drift` is a request whose answer was
lost and which is carried out later, `OtherMoves` another operator, `Refresh` a reload of
the page, `Expire` the end of a token. `Env` says which of these a run allows. A load that ends after a
later one, or after its session, is the fault `overtaken` (`Overtaken`). `newest`,
`out`, `faults` and the fields `seen` and `number` of a call are history.

### NetworkCombobox (`network-combobox.tsx`, `network-options.ts`)

`value` is the network of the form, `query` the text of the search, `isOpen`, `focused` and
`saving` the state of the field; each key and click is an action, `Change` the typing and
pasting of a text. The search is a table:
which text starts with or contains which is a constant, given by the MC module for three
presets; `Score`, `Before`, `First` are the ranking of `searchNetworkOptions`.

### The proof modules

`PolicyMutationProofs`, `IdempotentMutationProofs`, `CheckAddressProofs`,
`ValkeyIdempotencyProofs`, `ConnectionPoolProofs`, `ProviderQueueProofs`, `GatewayProofs`
and `ConsoleProofs` each extend their component and TLAPS; `ConsoleProofs` also extends
NetworkCombobox, the field of the page's form, and proves about it in its last section. The
two components composed with PolicyMutation instantiate it; their proof modules instantiate
PolicyMutationProofs to reuse its type lemma, under a `PolicyAssumption` that restates the
assumptions of PolicyMutation on the constants.

### MC modules

Each component has an MC module that `EXTENDS` it and gives the constants their values.
Symmetry permutes the calls of the `policy_` runs, which the specification only compares;
the other runs have liveness properties or too few of a kind to be worth it.

The definitions commented `Mutant of X` are plausible bugs of `X` (a dropped guard, a
missing comparison): no specification uses them. Putting one in the place of `X` must
break the property `PROJECT.json` names beside it.

## 3. Runs, bounds and fairness

| Run | Question | Properties | Bounds |
|---|---|---|---|
| `policy_two_calls` | what is atomic without overlap, what survives any overlap | `OneRowPerAddress`, `UnracedAtomic`, `UnracedFailure`, `BothListsOnlyByRace`, `DemotionNeedsConfirmation` | 2 calls, one EVM and one other network, one address in two spellings, every request on the EVM network and the whitelist's on the other |
| `policy_race` | can an address be on both lists | `NeverOnBothLists` is violated | the same |
| `idempotent` | what a key promises through failures, lost sessions and crashes | `EveryAnswerIsOnRecord`, `OneOwner`, `GuardedRunCanBeRecorded`, `NoForgottenLock`, `KeysAreWriteOnce`, `EveryRequestAnswered` | 2 calls, 2 different requests, one key or none, 2 sessions, with and without an old row |
| `check` | lists, cache, lock and history of overlapping checks | `UndisturbedVerdict`, `OwnerKeepsLock`, `AskedOnlyOnMiss`, `CacheGoesForward`, `EveryCheckAnswered` | 2 checks of one address, a mutation that puts it on the blacklist under another spelling, 2 provider answers |
| `pool` | when a pool of connections gets stuck, and what requests leave behind | `StuckOnlyOnDistinctKeys`, `AnsweredLeaveOnlyReads`, `StuckUntilDropped`, `AnsweredUnlessStuck` | 3 requests: one key, either of two, either or none; 2 connections; 1 lock left with a session or session dropped |
| `pool_full` | is every request answered | `EveryRequestAnswered` is violated | 2 requests under two keys, 2 connections, no lock or session lost |
| `queue` | what callers and the provider can rely on | `ServesPort`, `RequestsBounded`, `EveryJobEnds` | 1 caller that asks twice, 2 workers, 2 jobs, 2 attempts, 1 hand-over, an acceptable question and one that is refused, three results (no signals, none of stolen coins, one at its threshold; several at once are left to the proof) |
| `valkey` | the other adapter against the same promise | `ResultIsOwn`, `BlockedExplained`, `KeyIsWriteOnce` | 2 clients, 2 requests under one key, every fault, 3 runs of the action |
| `console` | what the page shows and what a session leaves behind | `SettledIsCurrent`, `SignedOutHoldsNothing`, `SignedOutStays`, `SavedMeansShown` | 2 sessions, 2 sign-ins at a time, 2 loads, 1 mutation, every event around the page, 1 audit row |
| `console_live` | overlapping mutations in one visit | `OneCallAtATime`, `MovesAreSeen`, `WaitingEnds` | 1 session, 1 load, 2 mutations, 2 audit rows; lost answers, expiry, another operator, no reload of the page |
| `gateway` | what is carried out, when it was let in, and what the client reads | `CarriedOutAsAsked`, `AnswerTellsEffect`, `AnswerReadsBack`, `SignaturesAgree`, `AdmittedInTime` | 1 call at a time of every kind, 2 secrets in 4 deployments and one change of secret, clocks apart by -3, 0, 1, tokens of 1, time up to 3; the constants of limits and windows scaled down, their order kept |
| `combobox` | is the network that is sent the one that is shown | `SentIsShown`, `EnterTakesPreviewed` | 3 presets, ids of which one starts with another, 6 searches |

The type invariants, and a few properties that the proofs of section 4 settle for every
instance, are not repeated in the runs; the invariants were checked by TLC on these instances
before they were proved.

Why the bounds are enough for the cases at stake. A race of the lists needs two calls
on one entry; a call that ended can start again, so longer histories are sequences of
these. The lock of a key needs an owner, a rival, and a second session to which the
lock passes when the first is dropped; a request that has its answer may come again as a
retry. The cache race needs two askers, and a check that ended can start again and finds
what it left. The pool needs as many keys as connections and one request more. A job that
is handed out twice needs two workers, a question mistaken for another's two jobs; one
caller that leaves and asks again has the same two questions under way as two callers. An
overtaken load needs two loads, a late answer of an ended session two sessions. Requests
return to `idle`, so a run covers any number of requests, two (or three) at a time. The
counters that are capped are named constants: `MaxAsks` (answers of the provider),
`MaxJobs`, `MaxRuns`, `MaxSessions`, `MaxLoads`, `MaxCalls`, `MaxLogins`, `MaxRows`,
`MaxClock`, `MaxStored`, `MaxRedeploys`, `MaxLosses`; `MaxAttempts`, `MaxStalled`, `PoolSize` and `Ttl`
are settings of the code. What the bounds leave to the proofs is more of everything at a
time: two keys, three checks, callers or clients, two calls through the gateway.

`check` has one mutation, an addition to the blacklist, so its address is never on the
whitelist. That a whitelisted address is cleared and that the blacklist wins on both lists
is part of `UndisturbedVerdict`, but no reachable state of this run shows it;
`UndisturbedVerdictHolds` (section 4) covers every list and any number of mutations, checks
and answers. `Risks` has one element there: nothing in a check depends on what the provider
says, only on whether it has said it.

In `console_live` the page is not reloaded: an operator who reloads before every answer
waits for ever, by his own doing. `AnsweredUnlessStuck` and `StuckOnlyOnDistinctKeys`
together say that requests under one key, however many, never block the pool, whether or not the lock of
that key was left with a session: a poller
sleeps with its connection in hand, but gives it back before it polls again.

Fairness. Nothing is asked of clients, operators, of servers that drop sessions, of crashes
or of expiry.

- `idempotent`: weak fairness of `Progress(c)`, `check`: of `Advance(k)`. Node resumes a
  request whenever what it awaits is settled, statements and commands end (with an answer
  or an error), and timers fire. Each loop has a deadline, which is a step of the request
  itself: no request needs the lock in order to be answered.
- `pool`: the database answers every statement, timers fire, and the pool serves its line
  (`Grant`). That a deadline passes (`Expire`) is fair too, and still does not help
  a request that waits for a connection, which is what `pool_full` shows.
- `queue`: workers take jobs and their fetch ends, by the reply or by the limits of the HTTP
  client; delays end, and BullMQ notices a lock that nobody renews. Callers need not wait.
- `console_live`: every request of the page ends, with an answer or an error.

Deadlock is checked in the `policy_`, `idempotent` and `check` runs. The others may stop:
their jobs, sessions or audit rows are used up, or (`pool`) the system is stuck, which is
what the run is about.

## 4. Proofs

Proved for every value of the constants is every property of the passing runs that is not
liveness, with the three refinements among them (IdempotentMutation and ValkeyIdempotency of
WriteOnceRecord, ProviderQueue of ProviderPort). Liveness under fairness is out of the
prover's reach and stays with TLC: `EveryRequestAnswered`, `EveryCheckAnswered`,
`AnsweredUnlessStuck`, `EveryJobEnds`, `WaitingEnds`.

Proved, and not repeated in a run, are the type invariants and: that every reply of a check is
in the history (`EveryReplyAudited`); of the queue that an answer is about what was asked
(`AnswerIsOwn`, which the refinement says again step by step), that nothing rejected is sent
(`RejectedNeverSent`), that a waiting job stands in line once (`InLineOnce`), that an ended job
keeps its outcome (`OutcomeIsFinal`) and that worse news never lowers the risk (`MoreIsWorse`);
of the Valkey adapter that one request at a time works under a key while records are kept
(`OneOwner`), that a second run is explained by a success that could not be recorded
(`RepeatExplained`) and that a record is never made another request's (`RecordKeepsRequest`); of
the gateway that an error keeps its status (`ErrorKeepsItsStatus`); of the network field that a
network without a colon is a text that finds no preset (`MatchIsNoNetwork` in ConsoleProofs).

The lemmas about the steps of an invariant are laid out one action at a time.

### PolicyMutationProofs

For any sets of calls, networks and names, from three assumptions: `NetworksAssumption`
(EVM networks are networks), `OfferedAssumption` (clients send well-formed requests) and
`NoRequestAssumption` (the null value is no request).

`OneRowPerAddress` follows from every row being canonical. The other properties rest
on `IInv`: two calls active on one entry are both in `raced` (`OverlapIsMarked`), so a
step of another call cannot touch the entry of an unraced one; hence for an unraced call
the table still is what it found at its start, but for its own writes, and its two
answers are still true of its start (`KnowsTheTable`); `PlaceOK` ties the program point to
the request and the answers. `UnracedAtomic` alone is not inductive: it speaks of the last
step of a call, and what that step does depends on answers read several steps earlier.
The proof that `Next` preserves `IInv` has one lemma per action; the step of one call
against the invariant of another uses `OverlapIsMarked` only.

### IdempotentMutationProofs

For any sets of requests, keys and sessions, from `PolicyAssumption`, `KeysSentAssumption`,
`LegacyAssumption` (rows older than the request hash have a key, no hash, and no two of
them share a key, as the migration requires) and `NullAssumption` (the null values are none
of the others).

None of the properties is inductive alone. `SessionsFit` says that a session serves one
request, exactly from the lock to the unlock, and that a dropped session owns nothing;
`LocksFit` that a request past the lock owns it unless its session was dropped, in which
case its key is in `unguarded`. `OneOwner` follows: two requests past the lock of an
unlost key would have the same session. That a rival cannot record a row under the key of
a guarded request (`GuardedRunCanBeRecorded`) needs the same two. `PhasesFit` ties the
guard to the mutation it runs, and `OneRowPerKey` is the unique index. A positive answer
stays on record (`EveryAnswerIsOnRecord`) because rows are never deleted and the index
admits no second row beside the one the answer came from.

`KeysAreWriteOnceHolds` is the refinement: an `Append` under a key is `Decide`, told or
untold; a `Replay` of the same request is `Tell`, and by `OneRowPerKey` what it tells is
the decision; every other step takes an answer back or changes nothing the record shows.
It needs no statement about locks: the unique index alone keeps the keys write-once, the
lock spares a second request the work.

### CheckAddressProofs

For any sets of checks, mutations, networks and names and any number of provider answers,
from `PolicyAssumption`, `QueriedAssumption`, `NullAssumption`, `MaxAsksAssumption` and
`RisksAssumption`.

`OwnerKeepsLock` is nearly inductive by itself; it needs `Placed` (a check whose lock
expired has its address in `lapsed`). As `lock[e]` names one check, at most one check of an
address that has not lapsed is past the lock: while it asks or stores, the cache has no
entry (`AskedOnlyOnMiss`), so it cannot replace a newer one (`CacheGoesForward`).
`UndisturbedVerdict` needs what a check knows on its way (`KnowsItsLists`: past the first
read the blacklist does not hold its address, past the second no list does), and that
whatever the cache holds comes from the provider (`CacheIsProviders`), so that no verdict
of a list survives there.

### ConnectionPoolProofs

For any sets of requests and keys and any size of the pool, from `PoolAssumption` (a pool of
one connection at least; the null values are no request and no key), with any number of locks
left behind and sessions dropped. The properties rest on `IInv`: who holds a query runner is
between the connection and the unlocking, and has a key (`SessionsLent`, `KeyedWaits`); who
asks for a lock holds one (`SessionsAtLock`), later the server may have taken it; it is asked
for before (`SessionsWaiting`); nobody holds what he stands in line for (`TicketsOnce`); the
lock of a key is with the request under that key that works or unlocks and still has its
session (`LocksOwned`); a statement is lent or in line only at the stage that sent it, but for
a look-up left behind by `Promise.all` (`StatementsInTime`). A full pool of query runners at
work then means as many owners of locks as connections, with keys that differ, and none of
them can take a step before it is granted one more: only a session that the server drops ends
that (`StuckUntilDropped`).

### ValkeyIdempotencyProofs

For any sets of clients and requests, any `Losses` and any `MaxRuns`, from
`ValkeyAssumption` and `ValkeyNullAssumption`. Answers are results of runs of the same
request (`MineIsOwn`) because a record never names the run of another (`RecordIsOwn`), which
survives releases and losses. While no record was lost, an owner's record is there and in
progress (`OwnersRecord`), so there is one owner (`OneOwner`) and a run has an owner or a
record (`RunIsRecorded`), unless a success went unrecorded. `KeyIsWriteOnceHolds` shows each
step to be a step of WriteOnceRecord or a stutter, for as long as `SoundSoFar` holds after it:
the run of the action is `Decide`, its answer and every replay are `Tell`.

### ProviderQueueProofs

For any sets of callers, workers, questions, scores and any bounds, from `QueueAssumption`
(scores are 0..100, at least one attempt, the null value is none of the others). The line
holds the waiting jobs once each (`LineOfWaiting`); the requests sent for a job are at most its
failed attempts and hand-overs, and one more while it is active (`RequestsCounted`): what a
worker sends that has lost its job is paid for by the hand-over.
`QuestionsKept` and `ResultsJudged` tie a job to what was asked and to what the provider can
answer, `OwnJob` a caller to the job it added, `SentSince` the requests to callers that had
asked before. `MoreIsWorseHolds` rests on `ResultsJudged`: each result is what `isHighRisk` makes of some
reply, with any number of signals of stolen coins.

`ServesPortHolds` needs two facts more: a caller that waits has a job to itself
(`JobsApart`), so that a step of a job is a step of one call at most, and a job that is not
there has not been sent (`Unsent`), so that a fresh call is not yet sent. `StillFrom` says
when a step leaves a caller's view alone; each action then moves the view of one caller
(`OneMoves`), of none (`NoneMoves`, `HiddenStep`), or, when the adapter closes, of all that
wait.

### GatewayProofs

For any calls, users, requests, secrets, clocks and limits, from `GatewayAssumption` (the
positions of limits and windows to each other, and the form of the requests). `CallInv(c)`
says of each stage of a call what its message is: that of a user whose token was good when it
was sent (`AdminMessage`), with a timestamp of the time it was signed (`InTime`, `Early`), in
canonical spelling on both sides (`UnderWay`); a signature fails only where the secrets differ or
a key is left out (`Disagreeing`); a reply and an answer carry the status the refusal began
with (`ReplyFits`, `AnswerFits`), and what they say was carried out was (`EffectFits`). Lower-casing
twice is lower-casing once, which is why the two normalisations agree (`CanonicalAtBothEnds`).
A mutation is let in before its token's end and one window more (`AdmittedInTime`): the
gateway signs only before the end, and the backend's window closes on the signature.
`WorkFits` keeps that for a mutation that waits in the backend, also when its caller is
gone. When it ends is not bounded, and nothing is claimed of it.

`AnswerReadsBackHolds` follows a call through four conversions, so it needs an invariant of its
own (`ReadsInv`): a message on its way asks what the client asked, and a response on its way
back reads as what the service said (`CallReads`). That rests on facts about the tables and the
wire, each a lemma: the numbers of the enumerated values read back as their names
(`NamesReadBack`), a repeated field without elements is an empty list (`ElementsReadBack`), a
number that fits int32 is itself (`Int32Fits`). Of the history a client gets as many rows as
it asked for, the most there may be at most, and the default where it asked for none or for
no positive number; only of a limit that does not fit int32 it is not said how many, but no
more than the most (`RowsAsAskedFor`). The proof attempt found that the property had promised
more than the code keeps for limits below -2^31, which wrap round to a positive number: it now
excepts them, and the limits of the run include such a one.

### ConsoleProofs

For any addresses, sessions, loads and mutations and any events, from `ConsoleAssumption` and
`NoneAssumption`. `IInv` is the type invariant, the room left for audit rows (`RoomLeft`) and
`Safe`: a load that ends a mutation is tied to it and to no other (`LoadsTied`), the flag of a
mutation is up while it listens (`FlagHolds`), one sign-in is under way unless the Enter key
began a second (`SignInsInTurn`), a confirmation was given by an operator who was shown the
row (`ConfirmedIsSeen`), a load started after a mutation reads what it wrote (`LoadsFollow`),
and what the newest load has read is the backend's state unless somebody else wrote since
(`WillBeCurrent`). `SettledIsCurrent` alone says nothing of a page that still loads, so it
cannot be inductive.

The network field, for any presets, texts and search tables, from `ComboboxAssumption` (no two
presets share an id, a place or a rank, and no preset has another's id among its texts; ids have
a colon and no capitals, names no colon). Its search answers with a `CHOOSE`, which says
something only when the best preset is one: `FirstIsBest` shows that of any presets found,
however many, one comes before all others, from the least of their scores and ranks
(`LeastNatural`, by well-foundedness of the naturals). An id finds its own preset first
(`IdFindsItsPreset`), which is where the picture, looked up by id, and the Enter key, which
searches, could part. `ComboboxInv` types the field and says that the network has a colon,
as an id does, or finds no preset (`MatchIsNoNetwork`): an unknown name, committed by Enter or by
the custom row, does become the network.


## 5. Findings

- `policy_race`: two overlapping additions leave one address on both lists
  (`addWithInvariant`); the service's test says the replacement `keeps invariant`. A
  check then reports the blacklist.
- `pool_full`: as many requests under different keys as the pool has connections each hold
  one and wait for one more, for ever, and everybody after them; the deadline of
  `executeOnce` does not end that wait.

What else the models show of the code, stated as the exception of the property that holds
beside it:

- When the audit row of a mutation is not written, the retry under the same key carries the
  mutation out again. The keys stay write-once for the *answers* (`KeysAreWriteOnce`), not
  for the *executions*.
- The address lock expires after 250 ms by default and is never renewed, while its owner may
  wait 60 s for the provider; `AskedOnlyOnMiss` and `CacheGoesForward` except checks and
  addresses whose lock expired (`overrun`, `lapsed`).
- A caller whose wait ended is told that its job failed after all attempts, while the job may
  not have had its first and runs on; what it finds is neither cached nor recorded.
- Jobs that no attempt can cure (refused by the schema, no API key) use up their attempts too.
- A failed `markCompleted` of the Valkey adapter releases the key of a request that was carried
  out (`"mark"` in `SoundSoFar`); the next request under it, the same or another, is executed.
- A 401 of an earlier session's request signs out the session that is current, and the reset
  of the saving flag lets a second mutation begin beside the first (`"kicked"` in
  `OneCallAtATime`).
- The backend answers 401 to a mutation outside its time window, which the console takes for
  the end of the session although the token is good.
- The window of a signature, and through it the end of a token, are checked before
  `executeOnce` waits for a connection (without a limit) and for the lock of the key (30 s by
  default, where the window reaches 10 s back): a mutation may be made long after they ended. `AdmittedInTime`
  dates the check, not the mutation.
- A failed unlock leaves the lock of a key with a session of the pool: who asks under that
  key, and is lent another session, is told `still in progress` until that session ends
  (`leaked` in ConnectionPool and IdempotentMutation).
- A text without a colon that finds no preset is taken for the network by Enter.
- Enter takes the first preset a text is a part of: `eip155:5`, typed or pasted as a custom id,
  becomes `eip155:56`.

## 6. Not modelled

- Wording, logging, tracing, number and date formats; address and network patterns beyond
  letter case and canonical form; the encoding of tokens and signatures, which are taken as
  equal exactly when key and content are.
- That the provider's reply names the address that was asked: the code does not look.
- Migrations and connection settings as such: the unique indexes, the old audit rows and
  the pool, its size and its missing deadline, appear in the models that use them.
- Statement timeouts of the database, and a statement of a dead client that takes effect later.
- The inside of BullMQ, `pg` and Valkey, beyond the behaviour the code builds on (marked
  external in `PROJECT.json`): a job's state, line and lock, the pool's line, SET NX PX.
- Values under the adapters' Valkey keys that the adapters did not write.
- More than one tab of the console, and its layout (`network-ui.tsx`, the badges and tables).
- Deployment descriptions and load tests (`loadtest/`, with the script that reads a report):
  they hold no state of the system.

## 7. Plan

Written: the modules of section 2, their runs, and the proofs of section 4. Left, in this order:

1. Console over Gateway: the page against a gateway that answers by its own rules, where the
   401 of the window and the end of the token meet the flags of the page.
2. CheckAddress over ProviderPort: the port in the place of `ProviderAnswers` and
   `ProviderTimesOut`, as PolicyMutation already is in the place of the lists.
