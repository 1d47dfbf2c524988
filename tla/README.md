# TLA+ models of the signer's gateway and enclave

The repository is a two-process signing service. A **gateway** (`src/poc/gateway`), an HTTP server
on a cloud host, authenticates clients, applies limits and a per-tenant kill switch, and relays
requests over vsock to an **enclave** (`src/poc/enclave`), which holds tenant secrets only while it
uses them: it resolves the tenant, opens the sealed key, checks the policy sealed with it, signs a
request for an exchange or a chain, and hands out numbered receipts of its decisions. Anything outside
the enclave, the gateway included, is untrusted by the enclave; the gateway in turn trusts neither the
clock nor the disk.

Beside the two programs there are the tools that make what they need: `policy-cli`, which signs and wraps
policies; the `parent` command, which has the enclave give birth to a key and writes the sealed result to
disk; and a contract that records which enclave measurements are released.

This directory models the parts of these programs that keep state and make decisions about money:
twenty-two modules with the components, seven that instantiate them for TLC, and eight with proofs that
TLAPS checks. `PROJECT.json` has the machine-readable index: which definition stands for which lines, which
properties a run checks, which change of the code each property detects, and the list of hazards.

## 1. Inventory

### Gateway

| Component | State it keeps | Operations | What is hard about it |
|---|---|---|---|
| Tenant-state store (`tenant_state.rs`) | one record per customer (level ACTIVE / CANCEL_ONLY / HALTED, who set it, status of the unwind), the JSON file, the `durable` flag | `transition` by operator, client or automation; `update_reconcile`; `load`, `boot_probe` | a write-through that fails for one tenant and succeeds for another; restart after a failed write |
| Automatic unwind (`reconcile.rs`) | `RUNNING` (the claims), one spawned task per stopped tenant, progress in the tenant's record | `kick`, `run` (rounds of list, recheck, cancel), `resume_all` | presses, tasks, panics and restarts interleave at every await; venues lie, fail or time out; a release in the middle |
| Order admission (`tenant_state_mw`, `body_route_gate`) | none of its own | last look at the level before an order is signed | an order admitted before a stop may rest on the book after it |
| Daily order counter and x402 spend cap (`limits.rs`) | the cached day with a sum per key, a state file each | `check_and_count_order`, `check_and_count_x402_spend`, `boot_probe` | the clock is read before the lock; write-through may fail; a host crash may undo a rename; overflow |
| Per-minute windows (`limits.rs`) | window and count per token, in three buckets | `check_bucket` | stale clock readings at a boundary |
| Circuit breaker (`backoff.rs`) | one circuit per customer's key at a venue, bounded | `allow`, `report_success`, `report_rate_limited` | every caller passes a half-open circuit |
| Hedge execution (`hedge.rs`) | a detached task with two legs | `post_hedge`, `execute_leg` | one leg executed, the other failed or late; the caller may be gone |
| Routes and handlers (`main.rs`, `handlers.rs`) | request slots of two pools | tiers and their layers, the order of gates on every route | a gate forgotten on one route; a handler dropped by its timeout; a full pool |
| Bearer authentication (`auth.rs`), vsock client | two token sets; connections in flight | `lookup`, `round_trip` | an answer lost after the enclave signed |
| Start and health probe (`main.rs`, `state.rs`, `aws.rs`) | the key files in memory, the environment, the health flag | `load_all_blobs`, boot self-test, periodic probe | files and environment replaced under a running gateway |
| Receipt forwarding | none | | |

### Enclave

| Component | State it keeps | Operations | What is hard about it |
|---|---|---|---|
| Tenant registry (`registry.rs`) | resident version and entries, the pending nonce | `challenge`, `refresh`, `resolve` | check and install are two critical sections; the relay may replay what was signed, also into a restarted enclave |
| Dispatch (`handler.rs`, `handle`) | none of its own | resolve once, rate limit, mode gate, handler, receipt | the identity resolved at the start is stale when the answer is signed |
| Receipts and heartbeat (`receipt.rs`) | counter per customer, resident receipt key, boot id | `issue_pre`, `issue_heartbeat`, `install_key` | numbering under failing signatures and key changes; a heartbeat reads under three locks |
| Signing routes (`handler.rs`, 18 `handle_sign_*`) | none of their own | venue grant, blob, floor, policy, caps, intent, signature | many routes share one sealed key: a cap one route enforces must not be avoided by another |
| DEK cache, pinned policy keys, intent ledger (`dek_cache.rs`, `tofu.rs`, `intent_ledger.rs`) | three bounded tables shared by all connections | `get`/`put`, `verify_and_pin`/`require_if_pinned`, `record_if_new` | behaviour at capacity, races between connections, loss at a restart |
| Rate limiter (`rate_limiter.rs`) | bounded token buckets and ghosts of evicted ones | `check` | eviction and restore at the limit; the clock is read before the lock |
| Provisioning (`handler.rs`) | none after the call | `provision_agent_key`, `provision_data_key` | must refuse whatever the load path would refuse later |
| Attestation (`attestation.rs`) | none | | |
| Signers and envelope (`signer.rs`, `envelope.rs`, `kms_client.rs`) | none | canonical strings, MACs, key unwrapping | |

### Tools and contract

| Component | State it keeps | Operations | What is hard about it |
|---|---|---|---|
| `policy-cli` | the files it writes | `policy sign`, `wrap`, `envelope`, `seal` | what it lets pass has to be what the enclave enforces |
| `parent` | the blob file, the printed address | `provision-data-key`, `provision-agent-key` | between birth and print the key exists once, in memory |
| `UsenamiAttestationRegistry.sol` | records per owner, index of active measurements | `registerPCR0`, `deprecatePCR0` | two structures that must give one answer |

### How they interact

A client's press of the kill switch calls `transition`, which writes the record through and returns;
the same handler then calls `kick`, which claims the tenant and spawns the unwind. The unwind reads the
tenant's level, sends signed requests to the venues through the gateway's own routes, and writes its
progress back with `update_reconcile`. At boot `resume_all` closes or restarts whatever the record says
was under way. Orders pass `order_gate` (limits) and the kill switch before they are relayed. In the
enclave `handle` resolves the tenant from the registry once per request; the signing handlers share the
three tables; whatever they answer, the receipt is attached on the way out. The registry is refreshed
through the same untrusted relay that carries the requests. A request meets two throttles, the window of
its token in the gateway and the bucket of its key in the enclave; an answer `rate_limited` of the second
opens the gateway's circuit for that key. Operators carry policies, key files, addresses and measurements
by hand from tool to tool, to the gateway's disk and environment, and to the chain.

## 2. Modules and their correspondence to the code

```
TenantRules <-- TenantState <-- Reconcile             gateway: kill switch, store, unwind
     ^               ^              ^
     |        TenantStateProofs <-- ReconcileProofs
GatewayRoutes <-- Gateway <-- GatewayProofs           gateway: routes, gates, pools, enclave connections
Backoff, Hedge <----'                                 gateway: circuits, hedge execution
                              (Hedge INSTANCEs HedgePromise)
DailyBudget <-- DailyBudgetProofs                     gateway: daily budgets
RateWindows, RateLimiter <-- Throttle <-- ThrottleProofs
                                                      both: windows per minute, token buckets
Registry <-- Receipts <-- ReceiptsProofs              enclave: registry, dispatch, receipts
SigningRules <-- Signing <-- SigningProofs            enclave: signing path
     ^
Blobs <-- PolicyTool <-- KeyFactory <-- GatewayBoot <-- Release <-- ReleaseProofs
                                                      tools, minting, key files, start and probe
Pcr0Registry <------------------------------------------'
                                                      contract
```

Arrows are EXTENDS. `MCReconcile`, `MCDailyBudget`, `MCReceipts`, `MCSigning`, `MCGateway`, `MCThrottle` and
`MCRelease` only give the constants values and bound the search. A definition whose comment calls it a mutated form or a
variant is a plausible bug, kept beside the original so that it can be put in its place to see that the
property detects it; no specification uses it.

**What one step is.** Every module uses the same rule: a lock that is taken and released, or an
`.await`, ends a step. Inside a critical section nothing interleaves; between two of them anything may.

**TenantRules, TenantState.** `tenants` is the map under the store's lock, `disk` the file, `durable`
the flag the healthcheck reads, `proc` the life of the process. `Refused`, `Changes` and `PhaseAfter`
are the decision in `transition`; `Transition` and `JobUpdate` are a change and its write-through
(`Persist`), which may fail: the code keeps the new record in memory and lowers the flag. `Boot` stands
for `load` and `boot_probe`, `ResumeOrphan` and `Serve` for the first loop of `resume_all`. In this
module alone the unwind is any sequence of status writes.

**Reconcile** adds the real unwind. `press[p]` is a worker thread in a press handler (`KickDue` and
`KickClaim` are the two halves of `kick`: the record under the read lock, then `try_claim`). `claims`
is `RUNNING`. `job[j]` holds the locals of a spawned task: `Begin` (token lookup, first status),
`Round`, `List`/`ListFails`, `Recheck`, `Cancel`, `RoundEnd`, `Verdict`, `Publish`, `Leave` (the drop
of `ClaimGuard`), and `Panic` at any point. `Panic` is what an unwinding build does; the release profile
(`src/poc/Cargo.toml`, `panic = "abort"`) turns it into a `Crash`, so a run with `MaxPanics = 0` is the
release build and `unwind_two_tenants` covers both. `order[o]` follows client orders from admission to the book.
`unseen`, `after` and `turned` are history variables. What a venue answers is a free choice: a listing
fails or returns exactly the resting orders; a cancel removes any of them.

**DailyBudget** serves both budgets; `Kind` selects which comparison is made. `ReadClock` is the
caller's clock reading before the mutex, `Charge` and `Deny` the critical section, including the
write-through (`Store`) that precedes the decision. The day read is arbitrary, so staleness, steps
backwards and a broken clock (day 0) are all behaviours. `HostCrash` puts back the file before the last
rename, because the directory fsync is best-effort; `slack` records how much that may have erased.
Dry-run is a constant.

**Registry.** `head` and `signed` are the control plane, `Challenge`, `Check` (steps 1 to 4 of
`refresh`) and `Install` (the write lock and the nonce slot) are the enclave, `Reboot` is a restart.
Whatever is in `signed` can be delivered at any time to any call.

**Receipts** EXTENDS Registry and adds the dispatch: `Handle` resolves once and decides the rate limit
and the mode gate, `Act` stands for the handler, `Attach` and `Number` for `issue_pre` before and under
the counter lock, `BeatKey`, `BeatCount` and `BeatSign` for the three reads of a heartbeat.

**SigningRules, Signing.** `SigningRules` has what the handlers decide, as operators: venue of an
action, floor of a build, policy gates, and one cap gate per route (batch totals on Hyperliquid, single
orders on Binance, OKX and AsterDex, whose batches are refused under a cap, a blanket refusal on the generic routes when a cap is
present, the transfer and allowance clauses). A request is described by what its signed bytes do at the
venue and which of method and path it names, since the lists on a part bind only a request that
names it. `Signing` carries a request over a connection: `Receive` (shape checks and grant), `CacheHit`,
`CacheMiss`, `Decrypt`, `DecryptFails` (`load_secret_for`), `Load` (`load_and_parse_blob`: floor, pins),
`Clear`/`Deny` (policy, cap, then the intent under the ledger's lock), `Sign`/`SignFails`, `Reply`, and
`Verify` for `verify_blob`. `Restart` empties the tables and may start another build. A connection keeps
the position its intent was recorded at (`ticket`), which only the properties read.

**GatewayRoutes, Gateway.** A kind of request is a route and, where the handler looks into the body, what the
body asks for. `Tier`, `Layers` and `Handler` give each kind its *program*: the steps of its middleware and
its handler in the order of the code, such as `<<"auth", "state", "rate", "read", "orders", "count", ...>>`.
`Gateway` runs programs side by side. A step that decides from bytes or from a budget another module has may
pass or fail (`Check`, `CheckFails`); the kill switch, the daily counter, the circuits, the request slots and
the connections to the enclave are state. `TimeOut` is `TimeoutLayer`: it drops a handler of a hardened tier
at any await, and the hedge's legs with it while they are being signed. `EnclaveAnswers` and
`ConnectionBreaks` are the enclave's side, which goes on when nobody waits. `saw`, `signed` and `ordered` are
history.

**Backoff, Hedge, HedgePromise.** `Backoff` has the circuits, a scope each; time is whether the backoff has
elapsed; `strikes` and `waits` (rate_limited answers, and backoffs sat out, since the last success) are history. `Hedge` is what happens after both legs are signed: a detached task sends, sorts each answer into
ok, rejected or unknown, and reports one status, while the venues place or refuse a leg that reached them at
any time. `HedgePromise` is the abstract specification: the two orders and what the caller was told.

**RateWindows, RateLimiter, Throttle.** The windows per minute and the token buckets, each with the reading of
the clock as a parameter, and `Throttle`, in which a request reads the wall clock, later gets the lock of its
window, travels to the enclave, reads the monotonic clock, and later gets the limiter's lock. The wall
clock moves both ways. `admitted`, `late`, `newest`, `denied`, `granted`, `since`, `regress`, `evictions`
and `evictedAt` are history. Whole tokens per tick stand for the limiter's fractions.

**Blobs, PolicyTool, KeyFactory, GatewayBoot, Release.** `Blobs` says what a sealed key is bound to and what
must agree for it to open and to load. `PolicyTool` is `policy-cli`; a policy has a set of `flaws`, one per
check of `sanity_check_policy`. `KeyFactory` is minting: the parent's command (`Ask`, `WriteNew`,
`WriteTorn`, `Announce`, `Killed`) and the enclave's checks (`Mints`). A command of `policy-cli` that refuses
its input writes nothing, so its refusals (version, base64, key length) have no action. `Loads` is what a
running enclave that has pinned nothing yet accepts, the policy's own TOFU signature (`TofuSound`) included;
what a pin refuses more is in `Signing`. `GatewayBoot` is the start: the three
passes over the files (`LoadAllBlobs`; a `.ctx.json` that cannot be parsed or is empty is in `config.garbled`), the self-test and the probe (`ProbeOutcomes`). `Release` composes
them with the contract: operators do everything by hand, in any order. In `Unattended` lies one assumption
about them: nobody moves or removes a file between a command's write and its print.

**Pcr0Registry** is the contract: `RegisterPCR0` and `DeprecatePCR0` with their reverts as guards.

## 3. What the runs check

Run one with `tlc -config <cfg> <module>`.

| Run | Instance | Question, and what the run shows |
|---|---|---|
| `signing` | 2 connections, 3 builds, every route, tables of capacity 1, 1 restart | `FloorHolds`, `WithinCaps`, `SecretsStayHome`, `OrdersAreIntended`, `IntentOnce`, `PinHolds`. |
| `unwind` | 1 tenant, 2 venues, 2 orders, 2 press threads, 2 job slots, 2 rounds, 2 presses, 1 restart | `DoneIsTruthful` (nothing the job ever listed is still resting when it says Done), `ReleaseStopsUnwind` (at most one batch of cancels after a release), `RunningHasJob`. |
| `unwind_two_tenants` | 2 tenants, one without a token, a venue that cannot be unwound, 1 panic, 1 restart, 2 presses, with fairness | `OneJobPerTenant`: claims stay per tenant. `DurableMeansOnDisk`, `OnlyOperatorReleases`: the flag tells the truth about the shared file, and a level falls only by an operator or by a restart the flag had announced. `ImplementsStore`: the composition is a behaviour of the store's specification. `UnwindEnds`: no task runs for ever. `UnwindMissedOnlyByClaim`: every stop leads to a verdict or a release, also across a restart, unless its kick met a claim still held or its task panicked. |
| `unwind_restop`, `unwind_escalate` | 1 tenant, 3 and 2 presses | Counterexamples, section 6. |
| `budgets` | both budgets: 2 keys and cap 2 for orders; amounts 1 and 3, cap 4, largest sum 5 for transfers; days 0..2, 2 crashes | `CapHolds`, `Covered` (the inductive invariant of its proof), `NeverRefilled`: the day charged never moves back. |
| `receipts` | 2 refreshes in flight of 3 versions, one not acceptable, 3 nonces; 2 connections, 2 tenants, 2 receipt keys, 3 requests, 1 restart | `NoReplay`, `NoDowngrade`, `NonceIsNotBurnt` of the registry; `GapFree`, `HeartbeatCounts` of the receipts. |
| `heartbeat_torn` | as above without a restart | Counterexample, section 6. |
| `gateway` | 3 connections with a request each, one of any kind and two a stop or an order, a signing pool of 2, the other pools and the enclave of size 1, 1 circuit with up to 2 doublings, 1 release, with fairness | `StopIsFinal`: whatever is signed was asked, at some moment since it arrived, of a tenant whose state lets it through. `OrdersAreCounted`. `BackoffIsEarned`. `HedgeKeepsPromise`: the refinement of `HedgePromise`. `EveryRequestAnswered` and `StopGoesThrough`, with an enclave and venues that never answer. |
| `throttle` | 2 tokens, three configurations, 2 windows; 4 keys with room for 2; 2 workers, 6 requests | `WindowBound`, `DenialsAreEarned`: what a stale reading can and cannot do to a window. `GrantsAreBounded`, `NothingLeaks`, `GhostsLastTheirTime`: the limiter at its limit. |
| `keys` | 3 builds; 6 policies, sound, flawed, oversized, not written back alike, with both and with half of the TOFU fields; agent keys of a strict and of a permissive venue; 2 commands, 5 files, 2 keys; 2 owners and 2 measurements, with fairness | `SealedKeysLoad`: what was minted and announced can be loaded. `AnnouncedIsSealed`. `ServesPublishedKey`. `OutageIsReported`. `IndexAgrees` of the contract. |
| `key_drift` | as above | Counterexample, section 6. |

**Bounds, and why they are enough.** Each bound is a CONSTANT named in its module. Two actors are what
the races in question need: two threads inside `kick`, two requests at one counter, two refreshes
between check and install, two connections with one intent. Two rounds let a job see a book, cancel, and
look again; two presses are a stop and a release or an escalation; the third of `unwind_restop` is the
second stop. A second tenant matters only for the claim set and the shared `durable` flag, so it has a
run of its own; there the first file may already hold stopped tenants. Day 0 is the broken clock, days 1 and 2 give a roll-over and a step back. A cap of 2
is reached, and passed, by two requests that race at it after a first charge. Tables of capacity 1 evict or refuse at the second
entry. In `signing` a request has a weight: one that explores a route takes the whole bound of 3, one
that takes part in a race takes 1, so three racing requests, or one request of each of the several
hundred pairs of request and blob, are covered in about 200,000 states. Symmetry is used for
interchangeable threads, jobs, requests, connections and customers, and in no run with liveness or
counterexamples over time. In `gateway` a pool of size 1 is full at the second request, and two requests are
a probe and the answer before it, an order and the stop next to it, or a hedge and whatever competes with
its legs. In `throttle` two keys fill the map, two more make ghosts of them, and the next forgets one.

Five passing runs add a CONSTRAINT where components that do not influence each other would multiply: `OnePayer`
(transfers of one key; orders of two), `Balanced` (refreshes race in depth before the first request, one is
in flight next to requests), `InDepth` of the throttles (each in depth next to the first steps of the other),
`InDepth` of the unwind (a second press while the other tenant has no record), and `Stories` (minting,
serving, a client's blob, and the contract, one at a time). What they cut off is checked in no run; for the
safety properties the theorems cover it.

`CHECK_DEADLOCK FALSE` is set where all bounded inputs may be used up, a state in which the real system
just waits for the next request.

**Fairness.** In `unwind_two_tenants` and `unwind_escalate` it is weak fairness of each step of a
spawned task, of the two halves of a kick, and of the restart sequence: the tokio runtime polls every
ready task, the outbound HTTP client has a timeout so every await ends, the handler runs `kick` without
waiting for anything, and the service manager restarts the gateway. Nothing is assumed of presses,
venues (a listing may fail each time), orders, or writes. In `gateway` it is weak fairness of each request's
and each leg's own steps and of its timeout; the enclave, the venues and clients owe nothing. In `keys` it
is weak fairness of the periodic probe, whose ticker fires again after at most three attempts.

## 4. What is proved

All proofs hold for every value of the constants that satisfies the named assumptions of the modules
(section 5): any number of customers, connections, requests, tasks, orders, keys, files, versions and days, any
capacities. Every safety property that a passing run checks is also a theorem.

| Module | Theorem | Result | Argument |
|---|---|---|---|
| TenantStateProofs | `StoreTypeCorrect` | types | inductive as it stands |
| | `DurableTheorem` | `DurableMeansOnDisk` | inductive: each step writes the file from memory or lowers the flag, and boot reads memory from the file |
| | `ReleaseTheorem` | `OnlyOperatorReleases` | a step property that needs `DurableMeansOnDisk`: at `Boot` a level can fall only if file and memory differ, so only if the flag is already down |
| ReconcileProofs | `UnwindImplementsStore` | `ImplementsStore` | refinement: each step of a task, press or order is a step of the store or leaves it alone |
| | `UnwindKeepsStorePromises` | the store's two theorems, of the composition | from the refinement |
| | `UnwindTypeCorrect` | types | together with the refinement, which says what the store's variables may be |
| | `OneJobTheorem` | `OneJobPerTenant` | `ClaimsHeld` |
| | `RecordsTheorem`, `RunningTheorem` | `RecordsExist`, `RunningHasJob` | with `LeavingHasReported` |
| | `ReleaseStopsTheorem` | `ReleaseStopsUnwind` | with `NoSecondBatch` |
| | `DoneTheorem` | `DoneIsTruthful` | with `CleanMeansUnseen`, `DoneMeansClean` |
| DailyBudgetProofs | `AlwaysCovered` | `Covered` | see below |
| | `CapTheorem` | `CapHolds` | from `Covered`: what was granted is at most what the file accounts for, and that is at most the cap |
| | `NeverRefilledTheorem` | `NeverRefilled` | the guard `Resolvable` and the roll-over |
| ReceiptsProofs | `RegistryTypeCorrect` | types of the registry | |
| | `NoReplayTheorem` | `NoReplay` | what is resident or checked was signed over a nonce this enclave issued, at a version not below the one current when the nonce was issued |
| | `NoDowngradeTheorem`, `NonceTheorem` | `NoDowngrade`, `NonceIsNotBurnt` | step properties |
| | `ImplementsRegistry` | the composition implements `RegistrySpec` | every step is a registry step or leaves the registry alone, so the registry's theorems hold of the composition |
| | `GapFreeTheorem`, `HeartbeatTheorem` | `GapFree`, `HeartbeatCounts` | `ReceiptInv` |
| SigningProofs | `PinTheorem`, `FloorTheorem` | `PinHolds`, `FloorHolds` | `LoadInv` |
| | `IntendedTheorem` | `OrdersAreIntended` | `ClearInv` |
| | `CapsTheorem` | `WithinCaps` | `ClearInv`, and one argument per cap gate |
| | `IntentTheorem` | `IntentOnce` | `ReplayInv` |
| | `SecretsTheorem` | `SecretsStayHome` | `HomeInv` |
| | `TablesTheorem` | `TypeOK`: the capacities | with `ReplayInv` and `CacheOK` |
| GatewayProofs | `HedgeImplementsPromise`, `GatewayKeepsPromise` | `HedgeKeepsPromise` | refinement: every step of the execution maps to a step of the promise or to a stutter, given an invariant that ties outcomes to orders; the rest of the gateway stutters |
| | `BackoffTheorem` | `BackoffIsEarned` | `BackoffInv` |
| | `StopTheorem` | `StopIsFinal` | `StopInv` |
| | `CountTheorem` | `OrdersAreCounted` | `CountInv` |
| | `PoolsTheorem` | `PoolsAreBounded` | `PoolInv`: only `TakeSlot` lets a request into a router, one at a time, and only while it is not full |
| | `GatewayTypeCorrect` | types | from `CountInv`, `BackoffInv`, `HedgeInv` and the bounds |
| ThrottleProofs | `WindowTheorem`, `DenialTheorem` | `WindowBound`, `DenialsAreEarned` | `EntryBounds`, `Earned` |
| | `GrantTheorem` | `GrantsAreBounded` | `KeyBounds` |
| | `LeakTheorem`, `GhostTheorem` | `NothingLeaks`, `GhostsLastTheirTime` | `LineInv` |
| ReleaseProofs | `RegisterAgrees` | `IndexAgrees` of the contract alone | inductive together with the types: the newest record alone may be active, and the index names it |
| | `ReleaseImplementsRegister`, `IndexTheorem` | the same of the composition | refinement |
| | `AnnouncedTheorem`, `SealedKeysTheorem` | `AnnouncedIsSealed`, `SealedKeysLoad` | `SealedInv` |
| | `ServingTheorem` | `ServesPublishedKey` | inductive: files and environment are read at the start only |

The inductive invariants and why the properties alone are not enough:

- **`Covered`.** The cap cannot be proved from the cache: a crash erases it. So the invariant says that
  every grant is in the state file (`FileCovers`), that it is in the file before the last rename but for
  one charge (`PrevFileCovers`, because a host crash restores that one), that the cache is never behind
  the file (`CacheAhead`, or a write would lose a charge), and that no stored sum passes the cap. A day
  that is over counts as fully used, which is what makes a clock step backwards harmless.
- **`SignedWhenCurrent` and `OwnNonces`** (the registry's `ReplayInv`). `NoReplay` speaks of the resident
  registry; a refresh spends time between its check and its install, so the invariant says the same of
  every call in flight, that the pending nonce is one of this boot, and that a message was signed at a
  version current after its nonce was issued.
- **`ReceiptInv`** is `Counters` (the counters and the requests in flight have their types),
  `GapFree`, and `Beats`: the counter a heartbeat read, or carries, lies between the count when it was
  asked for and the count now.
- **`LoadInv`** says of every connection past the load that its policy was accepted: by the running
  build's floor, or by a pin that is in the table now. It is inductive because pins only grow
  (`PinsGrow`), the build changes only when all connections are gone, and a connection's offer never
  changes (`StepOfConn`).
- **`BackoffInv`** adds to `BackoffIsEarned` that the map is finite and that a circuit whose backoff has
  elapsed, or that is half-open, has sat out one backoff more than it doubled (`Ripe`): the answer of the
  first of several callers may double it, and then nothing is left for the others.
- **`ClearInv`** adds that a connection past the gates passed them for exactly this request.
  `IntendedTheorem` then needs only that the routes which ask for no intent cannot place an order under
  a policy with an intent key (`IntentRoutes`).
- **`ReplayInv`** is about three sequences. `LedgerIsTail`: the ledger is the last part of everything
  recorded, and is complete until it is full. `Window`: what was recorded twice was recorded more than
  the capacity apart. `Tickets`: each record belongs to at most one connection or one signature, and to
  the intent it was made for. The first is needed to conclude from "not in the ledger" that the last
  `MaxNonces` records are different; the third to carry that from records to signatures, which happen
  later and in another order. A full ledger looks before it evicts: with the two swapped the
  window shrinks by one, which the run's mutated form shows.
- **`EntryBounds`.** `WindowBound` is not inductive: a check with an old reading moves an entry back and
  empties it, and a later one opens the newer window again. So the invariant bounds every window by what it
  was charged against: the one that is open by its count and one cap per late check, the newest one, once it
  was left, by the late checks alone, and windows not reached yet by nothing.
- **`KeyBounds`** is `GrantsAreBounded` for forgotten keys too, since a key may be evicted, restored or taken
  for a new one in any order. A stale reading adds no tokens but moves `last_refill` back; `regress` counts
  how far, and that stretch is refilled a second time.

- **`ClaimsHeld`** ties `RUNNING` to the tasks both ways, and says that nothing runs while the process is down;
  without the second half a restart could spawn a task beside an old one. **`LeavingHasReported`** covers the
  window between the last status write and the drop of the claim: the task still lives but no longer vouches
  for Running. **`NoSecondBatch`**: a tenant that received a batch after its release has no task past its
  recheck; the bound of one batch is not inductive without it. **`CleanMeansUnseen`** says of every venue
  a task holds for clean, at any moment of its rounds, that what rests there arrived after the listing.
- **`HomeInv`** adds to `SecretsStayHome` what the cache holds (`CacheOK`): each key of the cache belongs to an
  offer whose context KMS accepted. With `WrappedOnce` a hit then opens only what KMS would have opened.
- **`LineInv`** puts numbers on the limiter's two queues. `ghost_order` holds exactly the latest evictions, in
  order and without repeats (`LatestEvictions`); a key that is tracked again comes to its turn no sooner than
  its previous eviction has dropped out (`TurnsComeLate`). The latter is why a stale entry of a restored ghost
  never cuts a later one short, and needs that the map stays full once it evicts (`FullOnceEvicting`).
- **`StopInv`** follows a request through its program. `StopIsFinal` speaks of signatures, which come after the
  handler may be gone, so the invariant says that whatever is on a connection was seen allowed (`SentWasSeen`), that
  the legs of a hedge exist only once it was (`LegsAreSeen`), and that a request not seen yet has the gate of its kind
  before every step that lets the enclave sign (`GateAhead`). That each route's program has the gate in this
  place is a lemma over all kinds (`ProgramIsGated`), and so is what the charge needs (`ProgramIsCharged`).
- **`CountInv`** counts what may still be signed: `Credit` is the set of a tenant's requests that were charged and
  are on the way to the enclave or on a connection, `LegCredit` the one order of a hedge's two legs.
  Orders signed, credit and leg credit together are at most the counter.
- **`SealedInv`** follows a key from birth to print: a command's answer is sealed to the requested identity under a
  policy that passed the minting build's checks; once written, the file holds exactly it; and a policy on the
  shelf that carries the authority's signature is one every build enforces (`ShelfOK`).

**Only model-checked.** Liveness under fairness and ENABLED are out of the prover's reach, so `UnwindEnds`,
`UnwindMissedOnlyByClaim`, `EveryRequestAnswered`, `StopGoesThrough` and `OutageIsReported` rest on TLC. What a
fold computes is induction over data and is out of reach too: `CapsTheorem` takes the totals of a batch
(`TotalSize`, `TotalNotional`) as the handlers do and evaluates them only for one order; that they
are the sums they are called is left to their definition.

## 5. Assumptions

- Signatures, MACs and authenticated encryption are not forged: a signature is a record of who signed
  what, and a blob opens only under the context it was sealed with. KMS enforces its encryption context.
- `WrappedOnce`: a wrapped data key determines the context it was wrapped under (blobs with one data key and
  two contexts are not offered).
- The control plane signs only the version that is current when it signs.
- `OffersAssumption`: what the abstract request says it does and the orders it lists agree: a structured order
  is one order, and cancels, transfers, allowances and data documents place none. It replaces the parsing of
  venue bodies.
- `GatewayAssumption`: no token is in both lists (the gateway refuses to start otherwise), every listed token
  belongs to a customer, and the pools are not empty.
- `DraftsAssumption`, `FactoryAssumption`, `NoneAssumption`: the policy files an operator starts from are unsigned,
  a key of an identity is written to a file of the model, and "none" is not also a policy, a file or a build.
- The other named assumptions give constants their types: `BudgetAssumption`, `RegistryAssumption`,
  `ReceiptsAssumption`, `RulesAssumption`, `SigningAssumption`, `ReconcileAssumption`, `HedgeAssumption`,
  `BackoffAssumption`, `BlobsAssumption`, `WindowsAssumption`, `LimiterAssumption`, `RegisterAssumption`.
- The gateway's state files are written by the gateway alone. A host crash that undoes a rename is
  modelled for the budgets, where a lost charge matters, and not for the tenant states.
- Locks are not poisoned: release builds abort on a panic.
- Venues answer a hedge's leg honestly: a 4xx, an error code or a final status without a fill means that
  nothing was placed.
- The KMS key policy decides by the enclave's measurement; the role that mints may encrypt, the production
  role may not.

## 6. What the runs found

- **`unwind_restop`** (`StoppedIsNotTerminated`). A job that saw a release decides Terminated. A second
  stop before it publishes finds a status that is not final and keeps it, and its kick meets the held
  claim. The job then writes Terminated on a tenant that is stopped again: no unwind is armed, and
  `resume_all` skips it as final.
- **`unwind_escalate`** (`StopIsUnwound`). Between the last status write and the drop of `ClaimGuard` the
  record is final but the claim is held. An escalation in that window arms Pending, its kick returns at
  `try_claim`, and nothing kicks again until the next press or a restart. `UnwindMissedOnlyByClaim`
  shows that this window is the only way to miss an unwind.
- **`heartbeat_torn`** (`HeartbeatIsOneRegistry`). A heartbeat carries the digest of the entry resolved
  when the request came in and the registry version resident when it is signed: a refresh in between
  yields a signed document that pairs the new version with the old entry.
- **`key_drift`** (`PublishedPubkeyIsServed`). The boot self-test compares the signer's address with
  `SIGNER_DATA_ADDRESS`; `SIGNER_DATA_PUBKEY`, published next to it by `/attestation`, is compared with
  nothing, so after a key change that updates one of the two variables the gateway starts, attests and
  publishes a public key it does not sign with.

The source lines and the comments they disagree with are quoted in `PROJECT.json`.

Smaller disagreements met while modelling, which the models follow the code on:

- `docs/CLIENT-ONBOARDING.md:73` and on describes two forms of blob as both accepted; `policy-cli envelope`
  (`main.rs:773`) binds no associated data, and an enclave that always binds the identity never opens such an
  envelope. The recipe in the header of `policy-cli`'s `main.rs` adds context pairs under which KMS does not unwrap either.
- `handler.rs:4223`, "a key that cannot be loaded must never be minted": three checks are made at load only
  (minting has none of them, lines 4239-4263). The size cap; and where the floor does not apply, which is
  `hyperliquid_testnet` on a permissive build, the label and request rate, and the policy's own TOFU fields
  (lines 1332-1358): a key whose policy has one of `signer_pubkey` and `policy_signature`, or two that do not
  verify, is minted, written and announced, and every load refuses it. `SealedKeysLoad` names these
  exceptions in its hypothesis; without any one of them TLC finds the key.
- The gateway bounds a key file by 8 KiB and the enclave its base64 text: files of 6 to 8 KiB pass the
  gateway only.
- `backoff.rs:6` speaks of one request that is let through a half-open circuit; every caller is.
- A check with an old clock reading reopens an old window and empties it; `WindowBound` says what that costs.
  The enclave's `last_refill` moves back in the same way.
- A failed write of a new key file leaves a file behind that blocks the retry. The write is not followed
  by an fsync (`parent/src/main.rs:561`): `AnnouncedIsSealed` is about failing and killed commands, not about
  a host that loses its power after the address is printed.

## 7. What is not modelled

- **Cryptography, byte layouts, parsers** (most of `signer.rs`, `proto.rs`, `attestation.rs`, the venue body
  parsers): functions without state. They appear as what a request does, what a blob opens for, and which
  requests are well formed.
- **Frames** (`vsock.rs`, `vsock_server.rs`): length prefixes and size limits. The connection limit, lost
  answers and timeouts are in `Gateway`.
- **The accept loop** (`gateway/src/main.rs:894`, `965`-`975`): all tiers, the stop included, share one cap on
  open connections, and a connection past it is dropped. A slot of `Requests` stands for a connection that was
  accepted, so `StopGoesThrough` and `EveryRequestAnswered` hold from the arrival of the request on.
- **Receipt forwarding** copies a header; **metrics, logging, TLS** keep no state a decision reads.
- **SDKs, front ends, demo clients, vendored code**: not these programs.
- The registry commands of `policy-cli` beyond what they sign.
- The per-minute and daily budgets are free choices inside `Gateway`; their own modules model them, and the
  daily counter is counted there.

## 8. Plan

Done, in the order the behaviours matter: kill switch and unwind; daily budgets; registry, dispatch and
receipts; signing path; routes, circuits and hedge; the two throttles; minting, key files, start and contract;
and theorems for every safety property of the passing runs.
Next: the parsers of `asterdex` and `okx` bodies, whose size rules feed the caps, as operators checked against a
reference on small bodies.
