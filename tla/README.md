# perp-cli: TLA+ models, model checking and proofs

perp-cli is a command line program, a library and a set of long-running bots
that trade perpetual futures on several venues. Nothing in it is a database or
a consensus protocol, but its hard parts are of the same kind: several
processes of one user share files under `~/.perp`, orders are sent to venues
that lose answers and show fills late, a pair of orders must end hedged or
flat whatever happens to either, daemons are killed between two orders, and
WebSocket callbacks arrive in every order. These models are about those parts.
Paths below are relative to `src/src/` of the repository.

    tlc -config PerpOrder.cfg MCPerpOrder     model-checks one run
    tlapm OrderProofs.tla                     checks the proofs of a module


## 1. The system and its components

| Component | State it keeps | Operations | Modelled by |
|---|---|---|---|
| Advisory file lock, `arb/file-lock.ts` | `<path>.lock`; in memory the depth of nested calls | `withFileLock` | `FileLock` |
| Arb state, `arb/state.ts` | `arb-state*.json` and its `.tmp`: the open pairs | add, remove, update (locked); load, save (not locked) | `ArbStore` |
| Verified perp order, `bot/perp-order.ts` | none of its own; the account's position on a venue | `placePerpVerified` | `VerifiedLeg`, `PerpOrder` |
| Verified pair, `commands/arb-auto.ts:194-315` | two legs | `openPerpPairVerified`, `closePerpPairVerified`, trim, roll back | `PairExec` |
| `arb auto` daemon, `commands/arb-auto.ts` | tracked pairs, the spot-perp entries it saw, stale symbols, failures; on disk the arb state | recovery, sync, close, enter, stop | `ArbDaemon` |
| Pending entries, `arb/pending-entry.ts` | one file | add, clear, orphans | part of `ArbDaemon` |
| Quarantine, `bot/quarantine.ts`, and the order calls it stops, `mcp-server.ts`, `commands/trade.ts` | one file; in memory what could not be written | quarantine, look up, clear; `trade_execute`, `trade_close`, market and close orders of `perp trade` | `Quarantine`, part of `ArbDaemon` |
| Multi-leg orders, `commands/trade.ts:2694-2911` | the legs and what is known of each | `perp trade multi` with or without `--rollback` | `TradeMulti` |
| WebSocket connection, `ws/connection.ts` (and the hooks of `ws/stream.ts`) | socket, attempts, timers, send queue | subscribe, release, close, all callbacks | `WsConnection` |
| Aster nonces, `exchanges/aster-nonce.ts` | last nonce per signer in a file | `nextAsterNonce` | `AsterNonce` |
| Plan executor, `plan-executor.ts` | results of the steps | run a step, roll back | `PlanExecutor` |
| Background jobs, `jobs.ts` | one record per job, a tmux session | start, update, list, stop, remove | `Jobs` |
| Spot-perp executor, `bot/strategies/spot-perp-executor.ts` | none of its own; spot on one venue, a short on another | open, close, rotate | `SpotPair` |
| Subscriptions, `ws/subscription.ts` | buffer, coalesce keys, waiting readers | emit, iterate, callback, fail, end | `WsSubscription` |
| User store, `ws/user-state.ts` and the resubscription of `ws/stream.ts` | fills seen, open orders per scope | snapshots, deltas, gaps | `UserFeed` |
| RISEx nonces, `exchanges/risex/nonce.ts` | last pair in a file, a lock file per account | `allocateNonce` | `RisexNonce` |
| Credit limit, `pacifica/rate-limit.ts` | last observation, credits in flight | acquire, settle | `CreditLimiter` |
| QFEX order socket, `exchanges/qfex/ws-transport.ts`, `exchanges/qfex/adapter.ts` | connection, running command | order, cancel, open orders | `QfexTransport` |
| Bot engine, `bot/engine.ts` | phase of a bot, what its `finally` must clean up | the loop, signals | `BotEngine` |
| Slicing strategies, `strategies/twap.ts`, `dca.ts`, `split-order.ts` | what was filled so far | slices | `Slices` |
| Client order ids, `client-id-tracker.ts`, `commands/trade.ts` | an append-only file | check, record | `ClientIds` |
| Market store, token refreshes, Pacifica's older WebSocket client, grid, trailing stop and funding arb, bridges, venue adapters, wallets, risk checks, caches, market data, the other tools of the MCP server and commands of `perp trade`, dashboard, settings | - | - | not modelled, see section 8 |

How they interact:

- Other CLI calls (**`perp arb exec`**) and funding bots open pairs next to the
  daemon: a spot-perp pair becomes an entry of the arb state that blocks its
  symbol, a perp-perp pair leaves no record (section 7).
- A **CLI call** or a **daemon** changes the arb state through `arb/state.ts`,
  which takes the **file lock** around load, modify and save. The daemon also
  saves a state it loaded earlier without the lock.
- The **daemon** writes a **pending entry** before the first order of a pair,
  calls `openPerpPairVerified`, records the pair in the arb state, or
  **quarantines** its symbol, and clears the pending entry. At the next start
  pending entries of dead processes become quarantines.
- The **pair** calls the **verified order** once per leg, and again for roll
  backs, trims and residuals. It relies only on what a verified order promises.
- The **plan executor** calls the same verified order for the steps of a plan,
  the **spot-perp executor** for its short (and balances for its spot leg),
  **split orders** for each part, **`trade multi`** for each leg and roll back.
- Order calls of the **MCP server** and of **`perp trade`** read the
  **quarantine** at their gate and write it when an outcome is unknown; so do
  the plan executor, `trade multi` and the daemon. A human clears it.
- A verified order on QFEX goes through its **order socket**; on Aster and
  RISEx its request carries a **nonce**; a request to Pacifica is let through
  by the **credit limit**; an order of the CLI may carry a **client id**.
- A **background job** is a daemon in a tmux session; CLI calls and the job
  write its record. What the job runs is the **bot engine** or a strategy.
- A **connection** calls back into the stream, which may drop channels, and
  into the user's state listeners, who may close or unsubscribe. The stream feeds
  the **user store** and emits into **subscriptions**.

What makes them correct, in a line each:

- lock: one holder; a dead holder blocks nobody for good;
- arb state: every completed change is there, one pair per symbol, never a
  partial file;
- verified order: *filled f* is exact and over, *rejected* is final, and all
  the rest is *pending*;
- pair: *opened* is hedged, *not opened* and *closed* are flat, *failed*
  changed nothing, and everything else is *quarantined*;
- daemon: what it opened is never forgotten and never doubled, over kills,
  restarts, failed writes and what others trade and record meanwhile; a stop
  never falls between two legs;
- connection: one socket exactly while there are channels; nothing waits for a
  timer that does not exist; retries are bounded, if a bound was asked for;
- spot-perp: the short is never larger than the spot that covers it, and what a
  result claims is held is held;
- subscription: nothing is merged, evicted or dropped that a reader would miss
  without a notice, and the iteration ends;
- user store: a fill is delivered once, or a gap is announced;
- nonces strictly increase across processes;
- credits: what is believed to be left is never above what is left, and no
  request is one too many unless one in flight costs more than was reserved;
- QFEX: nothing is told of an order or a cancel that is not so at the venue;
- slices: no more than the total, whatever gets lost on the way;
- client ids: one order per id;
- bot: it remembers every order it may have placed, and a stop ends it;
- `trade multi`: what the answer says of each leg is what the account has done;
- quarantine: no order opens on an underlying while a human has not looked at
  an unknown outcome on it;
- plan: an order that may still execute is quarantined and left alone; a
  rollback leaves no more than what its flooring drops;
- jobs: a stop that answered left nothing that trades.

Which behaviours are hard to test, each at its line, is the list `hazards` of
`PROJECT.json`; a hazard names the properties that cover it.


## 2. Modules

    FileLock ----- ArbStore          (EXTENDS: the operations run in the lock)
        \--------- AsterNonce
    VerifiedLeg <- PerpOrder         (INSTANCE: PerpOrder implements it)
    PairExec, SpotPair, TradeMulti, PlanExecutor
                                     (orders that behave as VerifiedLeg)
    Quarantine                       (what all of them write to)
    ArbDaemon                        (pairs that end as PairExec)
    QfexTransport                    (the socket below one order of PerpOrder)
    ClientIds, Slices                (what is above one order)
    WsConnection, WsSubscription, UserFeed
    RisexNonce, CreditLimiter
    Jobs, BotEngine

Theorems are in modules of their own:

    FileLockProofs       FileLock, and what it protects: ArbStore, AsterNonce
    VenueProofs          RisexNonce, CreditLimiter, WsConnection
    StreamProofs         WsSubscription, UserFeed
    OrderProofs          PerpOrder, QfexTransport, Slices, ClientIds
    PairProofs           PairExec, SpotPair, TradeMulti, Quarantine
    PlanExecutorProofs   PlanExecutor
    ArbDaemonProofs      ArbDaemon
    JobProofs            Jobs, BotEngine

`MC...` modules add a symmetry set or a value a `.cfg` cannot express.
`MCPerpOrder`, `MCPairs`, `MCStreams`, `MCJobs` and `MCAsterNonce` also put
several modules into one run: each is checked from its initial states while the
others have not begun, so that a run explores the sum of their state spaces and
not the product. They share no variable, so nothing is lost by that.

A section "Slips of the code" in a module holds wrong versions of a definition;
no action uses them. Each stands for a plausible bug (a dropped guard, a
missing reset, a swapped order) that a property must notice, and documents what
the property is for.

The layers are deliberate. `PerpOrder` models reads, polls and error texts and
is shown to implement `VerifiedLeg`; `PairExec` and `PlanExecutor` start from
that promise and add late execution of pending orders; `ArbDaemon` starts from
what `PairExec` shows of its results. No module could be checked with all of
it at once. In the same way `QfexTransport` shows what the answers of one venue
are worth, and `Slices` starts from orders that fill, are refused, stay unknown
or fail plainly.

### FileLock (`arb/file-lock.ts`)

One variable for the lock file (`lock`: absent, or who created it), one for
its age (`stale`), and for each process where it is (`pc`), whether its
deadline passed (`late`) and the nesting depth (`held`). Every system call is
an action: `OpenExclusive` (`openSync "wx"`), `StatLock`, `TakeOver` (the
unlink of a stale lock), `CheckDeadline` (throw `LOCK_HELD` or sleep),
`EndSection` and `Release` (the finally block). `LockAges` and
`DeadlinePasses` are time, `Crash` and `Restart` the user and the kernel. The
history variable `stolen` records that some unlink removed the file of a live
holder. `SlowHolders` says whether a live holder may be older than the stale
age.

### ArbStore (`arb/state.ts`)

Extends the lock. A pair is a symbol and its venues (`positionKey`); sizes and
prices are left out. `main` and `tmp` are the two files; a killed
`writeFileSync` leaves a partial `.tmp`. `Begin` ... `EndOp` is an operation in
the lock: `Load` (with the promotion of a complete `.tmp`), the change in
memory, `WriteTmp`, `RenameTmp`. `BeginResave` is the daemon's load and save
outside the lock. Two history variables: `ledger`, the completed changes applied
one after another, and `overlapped`, whether an unlocked save ever ran next to
another write (its load before, its rename after).

### VerifiedLeg and PerpOrder (`bot/perp-order.ts`)

`VerifiedLeg` is the promise: an order executes at most once, and the answer is
*filled* with the exact fill of an order that is over, *rejected* for an order
that is over and did nothing, or *pending*. `PerpOrder` is the code:
`ReadBefore`, `PlaceUnsent` / `PlaceSent` (the request did or did not reach the
venue), `AnswerSent` (how the call came back, `resp`), `Conclude` (outcomes
without a poll), `PollMeasured` (fill measured from the position),
`PollFinal` (the venue's final fill cross-checked with the position).
`Execute` and `Publish` are the venue: the order executes in part or in full,
and account reads catch up later.

### PairExec (`commands/arb-auto.ts`, `bot/perp-order.ts`, `bot/fill-size.ts`)

`open` is what each leg really holds, in the finest unit the venue fills;
`Step` units make one unit of the precision in which sizes are written, so that
flooring (`fillSizeString`) leaves dust. `PlaceLong`, `PlaceShort` (with
`RetryShort`, the retry at the venue's lot), `TrimLong`, the roll back, and
`ClosePair` follow the code; `CloseFirst` and `CloseResidual` are
`closePerpVerified`. Pending orders stay in `loose` and execute at any time.

### ArbDaemon (`commands/arb-auto.ts`, `arb/pending-entry.ts`, `bot/quarantine.ts`)

`pairs` and `loose` are what the daemons really opened; `state` and `spot` the
entries of the arb state that the daemon manages and those of the mode
"spot-perp" that it does not, `pending` and `quarantine` the two other files;
`tracked`, `seenSpot` (the spot-perp entries of the cycle's `syncState`),
`staleSyms`, `failures`, `unpersisted`, `stopping` the daemon's memory. An entry
passes its guards (`EntryGuards`), is sized, which with `--size auto` awaits
books and balances of two venues, and writes its pending record (`EntryBegin`);
anything may happen in between. A leg sequence is left with one action per
result (`LegsOpened`, `LegsNotOpened`, `LegsUnknown`; `CloseClosed`,
`CloseFailed`, `CloseUnknown`). `RecordPair` is `st.add`, which throws when the
write fails or another pair has the symbol by now, and then quarantines. `Kill`
may fall anywhere, and inside a leg sequence any part of it may have happened;
the process's memory goes with it (`Exits`). Every write fails or succeeds as
`WritesFail` allows. The history variable `forgotten` is the symbols whose
quarantine could not be written and died with the process.

Three actions are others: `CliClose` (`perp arb close`), `HumanSettles`, and
`OthersOpen`, which is `perp arb exec` (`commands/arb-auto.ts:2047-2690`) or a
funding bot (`bot/strategies/spot-perp-state.ts`) opening a pair at any time. A
spot-perp pair adds an entry unless the symbol has one; a perp-perp pair adds
none; an unknown outcome quarantines. Only daemons add perp-perp entries. On a
symbol others have traded (`foreign`) the venues may show the daemon anything,
as positions are one number per account and symbol.

Prices, funding and the filters that only skip a symbol, the cooldown among
them, are nondeterminism: a daemon may skip any symbol in any cycle, so whatever
it decides is covered.

### WsConnection (`ws/connection.ts`, `ws/stream.ts`)

JavaScript runs one callback to its end, so a callback is an action. The
exceptions are the calls of `setState`, which run the user's listeners in the
middle of `connect`, `onopen` and `handleClose`: there the action is split, and
`cont` is what is left to do. `sock` is what became of each socket ever
created, so that one nobody refers to is still seen. The minute windows of the
two limiters are counters that age (`recent`, `sent`), the silence of the worst
channel has three grades, and a fourth value, "unwatched", when no channel has a
`staleAfterMs`: user and bbo channels have none, so `evaluate` passes them over.
`maxAttempts` is the limit of the stream's options, `MaxAttempts` or
`Unlimited`: `null`, the default.

### AsterNonce (`exchanges/aster-nonce.ts`)

Extends `FileLock` with the same protocol under a lock of its own. `ReadNonces`
and `WriteNonces` (write and rename of the process's own `.tmp`) are separate
steps; the clock may be set to any value at any time.

### PlanExecutor (`plan-executor.ts`)

The plan is not fixed in advance: when a step's turn comes, any step of any kind,
side, failure policy and dependency may be next, which covers every plan of
`MaxSteps` steps. `MarketOrder`, `RestingOrder`, `ClosePosition`,
`CancelOrders`, `OtherStep` are the cases of `executeStep`; `Succeeds`,
`Fails`, `IsPending` what `executePlan` makes of their end; `Rollback`
undoes one result per step, last first, with a reduce-only verified close or a
cancel by order id. A size as typed has a precision (`grain`, the step of its
last decimal): the rollback floors the measured fill to it (`Floored`), passes
over a step of which nothing is left, and drops what the close leaves below a
step (`Reversed`, `CloseEnds`). The history variable `dust` counts the most that
can be dropped, by symbol and side. An order with an unknown outcome remembers whether it is
the residual of a close (`ofClose`), the one kind the code does not quarantine.

### Jobs (`jobs.ts`, `commands/jobs.ts`)

One record and one tmux session. `writeFileSync` is two steps (`Truncate`,
`Write`), and a process killed in between leaves a record that is no JSON. The
job (`UpdateProgress`, `UpdateFinal`) and the CLI calls (`Launch`, `List...`,
`Stop...`, `Remove...`) load, change and save without a lock. The iteration under
way when the signal comes still makes its progress update.

### SpotPair (`bot/strategies/spot-perp-executor.ts`, `exchanges/spot-result.ts`)

`spot` and `short` are what is really held, in units of the spot venue, `Lot`
of which make a lot of the perp venues. `at` is where the executor is:
`Transfer`, `ReadBalance`, `BuySpot`, `CheckBuy`, `ShortPerp`, `Unbuy` open a
position; `ClosePerpLeg`, `SellSpot`, `Rehedge`, `CheckSell`, `RehedgeRest`
close it; `RotateClose`, `RotateOpen`, `RotateBack` move the short. Each order
fills, is refused, or goes `astray`: it may execute at any later time, for any
part. `verdict` is the result as its callers see it; "manual" asks for a human.
The user may close some of the short at any time.

### WsSubscription (`ws/subscription.ts`)

The buffer between the stream and one reader. `Emit` is `emit` with its
coalescing, eviction and overflow; `Attach`, `NextItem`, `NextDone`,
`NextWaits`, `Return` the iterator, with several `next()` calls at a time;
`OnCallback` the callback interface; `MarkActive`, `Fail`, `End` the stream's
side. Every emitted item has a number, and a row in the buffer carries the
numbers it stands for, so that what was merged or dropped can be told from what
was delivered.

### UserFeed (`ws/user-state.ts`, `ws/stream.ts`)

Fills and open orders of an account as the store keeps them, at the end of a
socket that is lost with its frames. A venue may replay its last fills on a
subscribe or not, and may send order snapshots per scope or not (`replays`,
`snapshots`). `OnFills` is the deduplication and the check of a snapshot
against what was seen (`SnapshotGap`), `OnOrders` merges a scope, `OnOpen`
announces gaps and clears orders, `OnAck` tells which channel is served.
`covered` is what the reader knows through a refetch.

### RisexNonce (`exchanges/risex/nonce.ts`)

The lock (link, look, rename, put back, release), each system call an action,
and the allocation in it (`FetchRemote`, `ReadLocal`, `WriteLocal`). A lock is
stale when it is old and its process is gone. `displaced` records that a
takeover moved a lock other than the one it had found stale.

### TradeMulti (`commands/trade.ts`)

`StartMulti` is the command past its checks, `PlaceLeg` one verified order,
`AfterLegs` the decision to roll back, `RollbackLeg` and `RollbackRest` the two
orders of `closePerpVerified`, `EndMulti` the answer (`Outcome`). `position` is
what the account really holds, legs of one command may trade one market twice,
and the account may come with positions of its own (`before`). An unknown
outcome stays in `adrift` and may execute at any later time.

### Quarantine (`bot/quarantine.ts`, `mcp-server.ts`, `mcp-trade-guard.ts`, `commands/trade.ts`)

`file` and `readable` are the quarantine file, `held` what a process could not
write (`unpersisted`). An order call is at most one of `Gate` and then one of
`Settle`, `ExecuteUnknown`, `McpCloseUnknown`, `TradeCloseUnknown`,
`MarketUnknown`; calls of one server interleave in between. `Clear` is the
human's command, `Damage` and `Fix` a file broken and repaired by hand. A symbol
has several spellings (`KeyOf` is `quarantineKey`). Two history variables:
`doubt`, the unknown outcomes that no human has cleared and some process still
knows of, and `ignored`, the doubts a call that passed its gate should have seen.

### CreditLimiter (`pacifica/rate-limit.ts`)

`AcquireCredits` and `Wake` are `acquire` (with `Decide`, the head of its
loop), `Track` the health probe that is sent whatever is left, `Settle` is
`observe` and `rateLimitedError`, `TransportFails` the release after a failed
request. `Answers` and `TimePasses` are the venue: it serves requests in any
order at a price of its own (`charge`), which need not be what was reserved
(`cost`): all reads reserve 10, heavy GETs cost 30 to 120. It answers 429 when
the price is more than is left; an answer may come from a cache, or without
usable headers (`told`), or of another quota, which `observe` drops alike.
Answers arrive in any order, and its window refreshes.

### QfexTransport (`exchanges/qfex/ws-transport.ts`, `exchanges/qfex/adapter.ts`)

One command at a time on one socket: `AddOrder`, `CancelOrder`,
`GetUserOrders`, then `Connect`, `SendCommand`, and a step per frame that is
read: `FirstFrame`, `LaterFrame`, `FillFrame`, `Terminated`, `CancelFrame`,
`ReadFrame`, or `TimesOut`. `Serve`, `Executes`, `EndsUnfilled`, `StrayError`,
`VenueCloses` are the venue. `told` is what the adapter makes of it.

### BotEngine (`bot/engine.ts`)

`Loop` is one step of `runBot`, `place` the await it is at. What is followed is
which batches of orders rest at the venue, and what the engine knows of them
(`strategyActive`, `onStopPending`). Requests fail with or without effect, or
take effect later (`ArrivesLate`); `Signal` is SIGINT, SIGTERM or `q`, `Kill` a
second signal during the final clean-up, or SIGKILL.

### Slices (`strategies/twap.ts`, `strategies/dca.ts`, `strategies/split-order.ts`)

One order after another until a total is traded. `Fills`, `Unknown` and
`PlainError` are the ends of an order; whether an error means that the order
may have executed is what the strategies differ in. `hidden` records an order
that executed, or may, behind a plain error.

### ClientIds (`client-id-tracker.ts`, `commands/trade.ts`, `exchanges/risex/adapter.ts`)

The calls under one client id: `CheckDuplicate`, `Refused` (the gates),
`LogPending`, `SendOrder`, `LogSubmitted`, `LogFailed`, `OutcomeUnknown`. An
append may write part of its line (`torn`). `overlapped` records that a call
read the file between the check and the record of another.


## 3. Runs

A run takes from a second to about three minutes with two workers.

| Run | Bounds | What it shows |
|---|---|---|
| `lock` | 3 processes, 1 call each, nesting 2, 1 crash, slow holders, with fairness | `ExclusiveUnlessStolen`: two holders only after an unlink removed a live holder's file; `CallsReturn`: every call enters its section, throws, or is killed |
| `lock_takeover` | 3 processes, 1 crash, no slow holder | violates `MutualExclusion`, finding 1 |
| `store` | a daemon that also saves unlocked and a CLI process, 2 calls each, 1 crash, 2 symbols on 2 pairs of venues | `NoLostUpdateUnlessOverlapped`: what completed is on disk, through every kill; `OnePairPerSymbol` |
| `store_unlocked` | the same, no crash, 1 pair of venues | violates `NoLostUpdate`, finding 2 |
| `order` | 2 orders of 1 or 5 lots, 2 polls, start positions on both sides; QFEX: 2 orders of 2 lots (one resting), 3 commands, 1 stray error, 3 frames under way; slices: 6 lots in 3, 2 errors borne; client ids: 3 calls, 2 torn lines | `RejectedIsFinal`, `FilledIsExact`, `ReadsSettled`, `ImplementsLeg` of the verified order; `ConclusionsHold`: what is told of a QFEX order or cancel is so and stays so; `TotalIsKept`: slices never exceed the total; `OneOrderPerId` |
| `pair` | perp: sizes of 1, 3 and 5 steps of 2 units, lot of 2 steps; spot: 4 or 6 units, lots of 2, a fee of 1, 3 floorings; multi: 3 markets (one symbol on two venues), 4 plans of 2 or 3 legs of 1 to 2.5 lots, holdings of -1, 0 or 1 lot, 2 commands; quarantine: a server with 2 calls at a time on mainnet, a CLI on testnet, 2 spellings of one symbol | `PerpClaimsHold`: opened is hedged, not opened and closed are flat; `SpotClaimsHold`: the same for spot and short, rotation included; `NeverNakedShort`: at no time may more be short than spot covers, late executions included; `MultiClaimsHold`: a market that is not quarantined has moved by the legs reported as filled and has no order out; `RefusedUntilCleared`: no opening order passes its gate while a human has not cleared an unknown outcome |
| `daemon` | 1 daemon, 2 symbols, one of which others trade, 1 position, 1 kill or 1 trade of others (again after a human settled it), 2 entries, every write may fail, with fairness | `ExposureIsKnown`, `EntryIsCovered`, `NeverReenteredUnlessForgotten`: what the daemon opened is never forgotten nor doubled by it unless a quarantine was lost; `WithinMaxPositions`: its open pairs on record keep the limit, those lost sight of and those of symbols others trade aside; `NoExitBetweenLegs`, `StopEnds` |
| `ws_connection` | 3 sockets, 2 attempts or no limit, channels watched for silence or not, 2 connects and 2 messages a minute, queue of 2; subscription: 2 rows, buffer of 2, 4 items, 2 waiting readers; feed: 5 fills, replays of 2, window of 4, 2 orders in 2 scopes, 2 frames under way, 2 disconnects; with fairness | `SocketsFollowChannels`, `TimersFollowSocket`, `ServedOrEnded`, `FlappingEnds`; `NothingLostUnnoticed`, `IterationEnds`; `FeedIsExact` |
| `nonce` | Aster: 2 processes, 2 calls each, 2 signers, 1 crash, slow holders, 2 clock values; RISEx: 3 processes, 1 call each, 1 kill, 2 bits, 1 anchor step; credits: 2 requests at a time that reserve 1 or 2 and cost 1 or 3, a quota of 4 with 1 in reserve, windows of 2 ticks with a margin of 1, answers 1 tick late | `NoncesIncreaseUnlessStolen`; `HandedOutOnceUnlessDisplaced`; `EstimateIsSafe`: what is believed to be left is never above what is left, nor, unless a request in flight costs more than was reserved for it, the estimate above what will be left |
| `plan` | 3 steps, 2 symbols, orders of 4 units typed in steps of 2, an account short by 1 | `OnlyResidualsGoUnquarantined`; `RollbackLeavesOnlyDust`: a rollback that quarantined nothing leaves what flooring drops and no more; `PendingIsLeftAlone` |
| `plan_residual` | the same | violates `UnknownIsQuarantined`, finding 3 |
| `jobs` | 1 CLI process making 3 calls, 2 updates by the job; a bot with batches of 2 orders, 3 starts, 2 ticks without equity; with fairness | `StopEndsTheJob`, `StopIsRecorded`, `StopReturns` of the job; `OrdersAreRemembered`, `RunEnds` of the bot it may run |

A property that needs the types of its module has the type invariant as its
first conjunct (`PerpClaimsHold`, `NoncesIncreaseUnlessStolen`, `FeedIsExact`,
`NothingLostUnnoticed` and others say so). The type invariants of the lock, the
verified order and the quarantine are theorems (section 6).

Several properties have the form "unless": the plain property is false of the
code, a run or section 7 shows how, and the weaker one says that this is the
only way. `stolen`, `overlapped`, `forgotten`, `displaced`, `hidden`, `late`,
`orphaned` and `touched` are history variables that record it; they, and
`before`, `doubt`, `ignored` and `dust`, decide nothing: no guard reads them.

Why the bounds are enough. Three processes are what the takeover race of the
lock needs: a dead creator and two waiters. The nesting of two calls is the
first in which an inner call must not release. The store needs two processes,
one of which saves unlocked, and two symbols on two venue combinations so that a
change may be refused, lost or brought back; the second call of a process meets
what its first, or a kill, left behind. An order of 5 lots is the smallest with
a partial fill that still counts as filled (4 of 5), one that does not (1 to 3),
and both sides of the 80 % rule; two polls are a first read that lags and a last
one; a second order shows what the first leaves behind. A step of 2 units makes
every flooring lose dust, a lot of 2 steps makes the lot retry differ from the
fill. In `daemon`, one symbol more than `MaxPositions` lets the limit bite, two
entries are one that left something behind and one that must respect it, and
one upset (`MaxUpsets`) is a kill, which puts every one of its states in front of
a restart, or a trade of others, which may fall between any two steps, the guards
of an entry and its record among them. (Both in one behaviour, and a kill of a
recovery that follows a kill, need `MaxUpsets = 2`; the theorems have no such
bound.) Three sockets are the
current one, one that is closing, and one that should not be there. Three plan
steps are one completed, one depending on it or on another symbol, and one that
fails or is lost. An order of 4 units in steps of 2 fills 1 to 4: 1 floors to
nothing, 3 leaves a unit, 2 and 4 leave none; an account that is short by 1 makes
a buy cross zero, so that its reduce-only reversal finds less than it asks for. Three CLI calls are a start, a stop and one more in between or
after. Spot sizes of two and three lots leave one or two after a partial
fill, and the fee makes what was bought less than what was ordered by less than
a lot. A third QFEX command meets what two others
left on the wire. Six lots in three slices have shares that a partial fill cuts.
Four emitted items overflow a buffer of two with one merged; five fills exceed
the window of four, and three of them in one outage exceed a replay of two. RISEx's takeover race needs a dead
holder and two waiters, and the third process is the one that links in between.
Two concurrent requests make two answers that overtake each other, and one that
asks while the answer of the other is under way. (Three that reserve 1 and cost 1
or 2 are 834 thousand states, and the property holds; the theorem has any number.)
Prices of 1 and 3 are less than one reservation and more than both. Four plans of
`trade multi` have a size that floors, a symbol on two venues, and a market
traded twice in one command, with and without crossing zero; a second command
meets the quarantine and the late orders of the first. Two calls of one server
overlap between gate and outcome, and the CLI on the other network must neither
be stopped nor clear what is not its own. Three starts are one that failed, one that cleans up after it, and
one that must find nothing left.

`CHECK_DEADLOCK FALSE` is set everywhere because every bound (calls, entries,
crashes, steps, updates) lets the model stop where the program would go on, and
because programs end.


## 4. Assumptions of the models

Made because the code makes them, or because nothing in the code can tell:

- The venue executes a market or IOC order at most once, and its plain error
  message or final size for an order means that it is done with that order
  (the message may be wrong about the fill). Account reads lag, but never go
  back.
- Nobody else trades the symbol on that account during a verified order
  (hazard `bot/perp-order.ts:133`).
- `PerpOrder` works in whole lots: the tolerances of half a lot in the code are
  then equality. `PairExec` has the fractions.
- `writeFileSync` may be cut by a kill, `rename` is atomic.
- In `ArbDaemon` each change of the quarantine and pending files is one step: the
  code makes it without an `await` in between, under the lock `FileLock` models.
  The guards of one entry are one step too, as no `await` is between them; its
  pending record is another. A daemon that restarts may have any identity; the
  code treats its own pid in an old record as a dead one. Others that trade a
  symbol do not close what the daemon opened there, except through `perp arb
  close`; what they open is not in `pairs`.
- In `ws_connection` the user's state listeners do not call back into the stream
  (`Reentrant = FALSE`) and a timer that is due fires before a later subscribe
  runs (`LateTimers = FALSE`); section 7 says what happens otherwise. The release
  of a channel that is not the last is not an action of its own: it sends a message,
  as `Subscribe` does, and may leave only unwatched channels behind, for which
  `ServedOrEnded` asks less. The acknowledgement timeout of `ws/stream.ts:606-629`,
  which drops subscriptions that are still pending, is one of the reasons for
  which `Unsubscribe` may happen and is not relied upon.
- In `daemon` one daemon runs at a time, next to CLI calls and a human; section 7
  says what happens with two.
- In `jobs` one CLI call runs at a time, next to the job; section 7 again.
- In `SpotPair` a balance that is read is up to date or the read fails, and
  nobody else trades the spot.
- In `TradeMulti` an order with an unknown outcome does not execute between the
  two position reads of another order on its market (the verified order would
  count it), and a rollback that is refused has closed nothing.
- In `Quarantine` a file operation is one step (it runs under the lock, without
  an `await`); the risk check, the sending and the wait of a call are one
  interval between gate and outcome. Every process declares its network
  (`cli-program.ts`, `mcp-server.ts`), so that entries of an unknown network,
  which block and are cleared on both, do not occur.
- In `UserFeed` the window of seen fills is at least twice as long as a replay of
  the venue, and there is at least one scope of orders; a reader that is told of a gap refetches over REST once the
  channel is acknowledged again; frames of one socket arrive in order; order
  ids are not reused.
- In `QfexTransport` the venue sends replies to the connection that asked, in
  order, and executes an order once.
- In `CreditLimiter` the credits of the key are spent by these requests only
  (other processes of the same IP are not, as the code says of itself), an answer
  is less than a window late, and the venue refreshes its quota once per window
  with the `t` it announces, as the code assumes; the docs it quotes call the
  window rolling. `Retry-After` is taken for that `t`. A first observation is of
  the tracked quota. For the second half of `EstimateIsSafe` no request in flight
  costs more than was reserved for it.
- In `BotEngine` nobody else cancels or places orders of the symbol on that
  account.
- In `ClientIds` an append is whole or a part of a line; a reader sees whole
  lines up to there.
- In `Jobs` an update of the record takes less time than the stop timeout
  (`JOB_STOP_TIMEOUT_MS`, 90 seconds), and `kill-session` ends the job at once.


## 5. Fairness

- `lock`: a process runs on until it is killed, its section ends, time passes.
  The section is a few synchronous file operations, hence strong fairness for
  its end in spite of nested calls. Restarts are not fair: a killed process may
  stay away.
- `daemon`: the daemon's own steps, one by one, because its loop has no other
  way on; leg sequences end because every order is polled a bounded number of
  times. Starting, entering, closing and signals are not fair.
- `ws_connection`: a callback ends; timers fire; time passes; a handshake ends
  in `onopen` or `onclose`. Data, pongs and the user's calls are not fair.
  A reader that iterates goes on reading (`Reading`): a loop that does not ask
  again comes to no end, and the code cannot make it.
- `jobs`, the bot: every await of its loop returns, as requests time out
  (`BotFairness`). Signals, kills, limits and late executions are not fair.
- `jobs`, the job: a CLI call runs on, and a file write that has begun ends. The job
  itself need not do anything: it may ignore the signal for ever.

The other runs check safety only and use no fairness.


## 6. Proofs

TLC decides small instances; the theorems hold for any number of processes,
symbols, calls, crashes, sizes and polls. They use the `ASSUME`s of their modules,
which TLC evaluates in every run, and where a theorem says so a condition on the
behaviour (`OneAtATime`, `OneCall`). For each theorem there is an inductive
invariant; TLC has checked it too before its proof.

`FileLockProofs`

- `LockTyping`: `LockSpec => []LockTypeOK`.
- `ExclusionUnlessStolen`: `LockSpec => []ExclusiveUnlessStolen`. The property
  with the type invariant is inductive: as long as nothing was stolen the lock
  file belongs to every holder, so there is one holder; a create needs the file
  to be absent, hence no holder; an unlink by anybody else while there is a
  holder sets `stolen`.
- `ExclusionWithoutCrashes`: `MaxCrashes = 0 /\ ~SlowHolders` implies
  `LockSpec => []MutualExclusion`. The invariant adds that no process is dead,
  that nothing is stolen, that a lock file has a live holder as its creator,
  and that it is not stale, so that no process ever reaches the takeover.
- `NothingLost`: `ArbSpec => []NoLostUpdateUnlessOverlapped`. While nothing was
  stolen or overlapped, a process between its load and its rename holds the
  completed changes plus its own (`Exact`), since it is alone; and the load that
  promoted a complete `.tmp` is why a `.tmp` left by a kill never brings back
  what a later change removed.
- `OnePairOfEachSymbol`: `ArbSpec => []OnePairPerSymbol`. This one needs no
  lock: each file and each copy in memory has one pair of a symbol (`SingleInv`).
- `NoncesIncreaseAcrossProcesses`: `NonceSpec => []NoncesIncreaseUnlessStolen`.
  Every step of the nonce protocol is a step of the lock or leaves it alone, so
  the theorems about the lock hold of it (`NonceLockHolds`). The invariant
  adds that a process about to write has read the file as it still is, because
  it is the only holder, and that the file has the greatest nonce of each signer.

`OrderProofs`

- `OrderInvariant`: the inductive invariant. Besides types it says what is
  known of the order in flight at each point of the call (nothing was sent
  before `place`; afterwards position, fill and direction agree with the
  position before the call), what each answer means for the order (a refused or
  final one is over, a definite failure never became an order), and that reads
  are settled unless the answer is *pending*. The properties alone are not
  inductive: that a measured movement is the fill needs that the read before
  the order was up to date, which in turn needs that the previous call did not
  return before its fill was visible.
- `OrderTyping`, `RejectionIsFinal`, `FillIsExact`, `ReadsAreSettled`: its
  consequences.
- `OrderImplementsLeg`: `Spec => Leg!LegSpec`. Every step of `PerpOrder` is a
  step of `VerifiedLeg` (start, send, execute, return) or a stutter (reads,
  polls, publication), under the mapping of `pc` to `phase`.
- `TotalIsNeverExceeded`: `SlicesSpec => []TotalIsKept`. What is counted and out
  is at most the total because TWAP and DCA never count more than the even
  shares sent so far (`Bounded`), and what is counted is what executed while the
  run goes on.
- `IdIsForOneOrder`: `IdsSpec => []OneOrderPerId`. One call at a time is between
  its check and its end, and an order that executed or may keeps the id in use
  (`OneAtATime` of that module).
- `QfexConcludesTruly`: `QfexSpec => []ConclusionsHold`. Every frame under way says
  something that was so and, where it is final, still is (`FrameIsTrue`), because a
  command is sent once (`SentOnce`) and the venue takes nothing back. That is not
  enough for the refusal of an order: one that comes after a fill looks like one
  that never traded. Until the first response of an order is read, all its frames
  are there from the first (`FromTheFirst`), so that a fill is read before; after
  that the refusal itself states what is left. A read is answered by its own rows
  because at most one reply to a read can still come (`OneReply`).

`PairProofs`

- `PairClaimsHold`: `PairSpec => []PerpClaimsHold`. The tolerances of the
  property are a number of floorings, each of which leaves less than a step. The
  invariant (`PerpInv`) counts them along each path: an entry that ends *opened*
  has floored twice, a close of its long leg a third time and of the dust left by
  that a fourth, a roll back once. `Closing` says what a close in progress was
  asked for relative to what the leg held when it began.
- `ShortNeverNaked`: `SpotSpec => []NeverNakedShort`. The invariant
  (`ShortIsCovered`) is that at most one order is out that could add to the short
  or take from its cover, and that the cover allows for all of it.
- `SpotReportsHold`: `SpotSpec => []SpotClaimsHold`, by what is held at each place
  of the executor (`SpotStages`): what a balance read, what the legs then hold and
  what the floorings have left so far.
- `MultiReportsHold`: `MultiSpec => []MultiClaimsHold`. Along the command a market
  has moved by what is reported of it, less what the first order of a roll back has
  closed (`Movement`). The exception is what makes it hard: a roll back that finds the
  position gone counts as done, and then the position is zero and another leg of
  the market is left, whose roll back finds nothing to close and quarantines it.
  `Reported` is a recursive function over the legs; that it changes with one leg by
  what is said of that leg (`ReportChanges`) is an induction over the legs. It is done
  with sets, as the induction theorems of the library cannot be used: the least leg
  at which two sums differ (`LeastNumber`, from the library's theorem that the
  numbers are well founded under `<`).
- `QuarantineTyping`: `QuarantineSpec => []QuarantineTypeOK`.
- `OpeningWaitsForHuman`: `QuarantineSpec => []RefusedUntilCleared`. The property
  needs that every doubt has an entry where its process looks for it, in the
  file or in that process's memory (`DoubtsAreKept`): an entry that replaces
  another has its source, key and network, a clear takes entry and doubt
  alike, and a kill takes the memory and what only it knew.

`ArbDaemonProofs`, for any number of daemons of which no two run at the same time
(`OneAtATime`; section 7 says what two do to each other):

- `ExposureKnown`: `Spec /\ []OneAtATime => []ExposureIsKnown`,
  `EntriesCovered`: the same for `EntryIsCovered`, and `NotReentered` for
  `NeverReenteredUnlessForgotten`. They share an invariant (`KnownInv`): what is
  open is in a file, or in the memory of the daemon that is alive
  (`WorldIsKnown`), and for a daemon past its recovery it is in one that outlasts
  the pending record (`EntriesAreKnown`), so that the record may be cleared; past
  recovery the state on disk is what the daemon tracks or has found stale
  (`StateIsManaged`), so that it cannot enter what it does not know. None of
  this depends on when others add, remove or trade: they add no perp-perp entry,
  and an entry of theirs that meets a record in progress makes `st.add` throw, so
  that the pair is quarantined instead.
- `PositionsBounded`: `Spec /\ []OneAtATime => []WithinMaxPositions`. `RoomInv`:
  the daemon tracks every pair of its own on record that it may not take for
  stale, and there is room for the one in hand, also after the awaits between the
  guards of an entry and its record, as only the daemon adds to what it tracks.
- `ExitsBetweenLegs`: `Spec => NoExitBetweenLegs`, with any number running.

`PlanExecutorProofs`

- `UnknownIsHeld`: `Spec => []OnlyResidualsGoUnquarantined`, and
  `RollbackSparesPending`: `Spec => PendingIsLeftAlone`.
- `RollbackIsComplete`: `Spec => []RollbackLeavesOnlyDust`, for any number of steps,
  sizes, precisions, fills and orders of others before the plan. In each direction a
  symbol is no further from where it was than the market fills of the completed
  steps that the rollback has yet to reverse, and the dust of those it has: a fill
  loses less than a step when it is floored (`Flooring`), and its close may leave
  as much again (`Closed`, `Repaid`). The sum of the fills over the steps is not a
  recursive definition: the invariant says that there is a function (`OwedOn`) that
  begins at 0 and grows at each step by that step's fill, which is what an
  induction over the steps would give, and each action extends or cuts it.

`JobProofs`

- `StoppedIsOver`: `Spec => []StopEndsTheJob`, with any number of CLI calls at once:
  a stop answers only after it has seen the session gone or has killed it, and a
  job that has gone is never started again (each start has an id of its own).
- `StopIsOnRecord`: `Spec /\ []OneCall => []StopIsRecorded`, for calls that come one
  after the other (`OneCall`; a list beside a stop writes back an old record,
  section 7). `RecordInv` says what every process in the middle of a save is
  about to write, and that a record that says stopped while the job runs is a
  stop's in progress, so that the job's own update keeps it. A last update made
  before the mark is not covered: `FinalResultKept` (section 7).
- `BotRemembersItsOrders`: `BotSpec => []OrdersAreRemembered`. Where the loop is
  tells whether the strategy has started and not stopped (`StartIsKnown`), and
  a start begins with nothing of an earlier batch at the venue
  (`OrdersAreKnown`).

`VenueProofs`

- `PairsAreHandedOutOnce`: `RisexSpec => []HandedOutOnceUnlessDisplaced`. The
  invariant: the token of a killed call is never that of a living one
  (`GoneForGood`); hence a lock found stale has no owner, a takeover that moves
  just that lock disturbs nobody, and every owner holds the one lock
  (`OwnedAndLater`), so that the pair it is about to write comes after all
  others.
- `CreditsSuffice`: `CreditSpec => []EstimateIsSafe`. What the venue has spent since
  an observation was made is covered by answers that are still on their way and
  say less (`Counted`): each of them lowers the observation when it arrives, and
  until then what was reserved for it is in `inFlight`. Reservations and prices are
  any numbers; that no request in flight costs more than was reserved for it is a
  condition of the second half only, which is compared request by request (sums
  as cardinalities of sets of units, `Total`). The proof found that the property
  needs `~crossed` (section 7).
- `OneSocketForChannels` and `TimersEndWithSocket`: with `~Reentrant` and
  `~LateTimers`, `Spec => []SocketsFollowChannels` and `[]TimersFollowSocket`, for
  any number of attempts and of sockets still closing. Both conditions are needed:
  section 7 says what the code does without them. The invariant (`ConnInv`) is
  about the middle of a callback as much as about its end: where `connect`,
  `onopen` and `handleClose` hand over to a listener, the rest of them is about to
  make the socket or the timer that is not there yet (`CallbacksFit`).

`StreamProofs`

- `SubscriptionLosesNothingUnnoticed`: `SubSpec => []NothingLostUnnoticed`. The
  property is about everything a consumer was or will be handed (`Seen`), the
  invariant about each item of it: which emitted items it stands for (`Told`), how
  many notices are missing and by which count they are covered (`Account`), that
  the set of keys and the count of control items are those of the buffer
  (`Queue`). A merge changes one item in place, an eviction removes one
  (`IsWithout`), a hand-over moves the head of the buffer to the end of what was
  handed out, which changes nothing that is seen (`HandedOut`). That the first
  evictable item exists when `SelectInSeq` finds one again needs the least of a
  set of numbers (`LeastOf`).

- `FeedIsAlwaysExact`: `FeedSpec => []FeedIsExact`. For the fills the invariant
  says that the window of seen fills holds the last ones that were delivered
  (`Kept`), that the frames under way carry what the venue executed, in order
  (`FillsOnTheirWay`). With replays, nothing is missed between two delivered
  fills, nor after one but what is under way (`ReplaysClose`); without, nothing
  since the first acknowledgement but what is under way or owed (`GapsClose`). The
  window is wide enough, because all that was delivered
  after a fill which may be replayed are fills of the last two
  replay lengths, each once (`WindowIsWide`, a pigeonhole): this is where a window
  of twice the replay length is needed. The loop of `applyFills` keeps this
  (`LoopKeeps`, by a least counterexample over its rounds). For the orders, the
  last frame under way that mentions an order decides how it ends
  (`LastMention`); without such a frame it is as the venue has it (`NoMention`); a
  scope that the venue answered is known or its snapshot is under way
  (`ScopesBegin`).

Only model-checked, and for good: the liveness properties
(`CallsReturn`, `StopEnds`, `ServedOrEnded`, `FlappingEnds`, `IterationEnds`,
`StopReturns`, `RunEnds`), as liveness under fairness and `ENABLED` are out of the
prover's reach. So are the library's theorems on induction; where an induction is
needed it is done by a least counterexample (`LeastNumber` in `PairProofs`) or the
invariant carries what it would give (`OwedOn` in `PlanExecutorProofs`).


## 7. Disagreements between the code and what it says

Three are runs that TLC finds violated; `PROJECT.json` quotes the sentences.

1. `lock_takeover`: a stale lock is unlinked by path after the check; the
   second of two waiters removes the new lock of the first.
2. `store_unlocked`: the heartbeat, startup and final saves of `arb auto` are
   outside the lock and undo a CLI call's change made in between.
3. `plan_residual`: a residual order with an unknown outcome is a plain failure
   for the plan; the symbol is not quarantined.

The same models show more, by a change of a constant or of the property:

- `NeverReentered` in place of `NeverReenteredUnlessForgotten` in
  `ArbDaemon.cfg`: a quarantine that cannot be written is only in memory, yet
  the pending record is dropped; after a restart the symbol is entered again.
- `Daemons = {d1, d2}` in `ArbDaemon.cfg`: `EntryIsCovered` fails, two daemons
  share the pending record of a symbol.
- A perp-perp pair of `perp arb exec` is in no record: neither an entry of the arb
  state nor a pending record is written (`commands/arb-auto.ts:2238-2310`; only its
  spot-perp mode persists, 2653). The daemon enters such a symbol, and the account
  then holds two pairs; in `ArbDaemon` that is an entry of a `foreign` symbol, of
  which `NeverReenteredUnlessForgotten` says nothing. A spot-perp entry that
  appears between the guards (1351) and `writePendingEntry` (1463) does not stop
  the entry either: `upsertPosition` then throws (`arb/state.ts:214-226`), and the
  pair that was just opened is quarantined.
- A tracked pair that was closed by hand and replaced by a spot-perp entry of its
  symbol before the next sync stays tracked (`arb-auto.ts:998-1008` compares
  symbols), and the daemon's close removes that entry: `st.remove` goes by the
  symbol alone.
- `WithinMaxPositions` with the symbols of `foreign` counted: the positions of
  others may hide a daemon's pair when it starts (a short of theirs against its
  long), so that its entry is stale and leaves room for another.
- `Reentrant = TRUE` in `WsConnection.cfg`: `SocketsFollowChannels` fails,
  `connect` and `handleClose` go on after a listener has unsubscribed or closed.
- A socket whose channels are all of an account or bbo is never ended for silence:
  their wires have `staleAfterMs: null` (`ws/codecs/hyperliquid.ts:177`, 189-195,
  `pacifica.ts:105`, 112, `lighter.ts:138`, 147, `arcus.ts:91`, 99, `aster.ts:152`),
  which `evaluate` skips (`ws/connection.ts:120`); only the pings' missing pongs
  or the venue's close end it. By default the attempts are not limited either
  (`ws/stream.ts:256`), so that a flapping connection goes on for ever.
  `ServedOrEnded` names both exceptions, `FlappingEnds` asks for a limit.
- `LateTimers = TRUE`: `SocketsFollowChannels` fails, `ensureOpen` in the idle state does not
  look at a deferred connect that is due.
- `NoncesIncrease` with three processes in `AsterNonce.cfg`: the race of 1 in the
  nonce lock gives one nonce to two processes.
- `Cli = {c1, c2}` in `Jobs.cfg`: `StopIsRecorded` fails, a list writes back a
  record it loaded before the stop (`jobs.ts:108-113`): `StoppedStays` is about one
  call at a time. `FinalResultKept`, with one CLI process: a stop writes back a
  record it loaded before the job's last update; `StopIsRecorded` is about a last
  update that found the record marked.
- `RollbackLeavesOnlyDust` without the dust: a step is to be "closed reduce-only
  for its MEASURED fill" (`plan-executor.ts:406-408`), but the fill is floored to
  the decimals in which the size was typed (431), and a step of which nothing is
  left is passed over (432): of a size "1" that filled 0.85 all stays open, with
  nothing reversed or quarantined and the status "success"; of a size "2" that
  filled 1.7 the 0.7 stay, and the step says "rolled_back". What a close leaves
  below such a step is dropped in the same way (`bot/perp-order.ts:324-334`).

- `ReopensOnlyItsOwn` as a PROPERTY in `PairExec.cfg`: `closePosition` says it
  re-opens a short "only when THIS call closed it"
  (`bot/strategies/spot-perp-executor.ts:309`), yet the unsold rest of a partial
  sale is hedged again also when the short was already gone (416-432).
- `HandedOutOnce` in `AsterNonce.cfg`: a lock moved away by mistake is put back
  "if" no new lock exists (`exchanges/risex/nonce.ts:79-82`); a third process
  links its own in between, and two processes hand out one pair.
- `EstimateIsSafe` without the condition that no request in flight costs more than
  was reserved: every read reserves 10 (`pacifica/rate-limit.ts:95`, 145), and the
  docs it quotes have heavy GETs cost 30 to 120 (4-6). While such requests are in
  flight the estimate is too high by the difference, and a request that is let
  through may meet a 429; the read reserve of 120 absorbs one of them, not
  several. What an observation says is exact all the same.
- `EstimateIsSafe` without `~hidden`: a request that failed in transport may
  have been charged; its reservation is released at once. Without `~crossed`: the
  limiter waits `RESET_MARGIN_MS` longer than the venue for the next window, and
  meanwhile takes an answer of the new one, which has more left, for a late
  answer of the old one and drops it (`pacifica/rate-limit.ts:250-258`). Its
  reservation is released all the same; once the old observation has expired, an
  answer that it had overtaken is believed and says more than there is.
- `WithinMaxPositions` with the symbols of `forgotten` counted, with four kills and
  four entries: a symbol entered again after its quarantine was lost has two
  pairs and one state entry, which may be stale and leave room for another pair
  while more than one is open.
- `ConclusionsHold` with `~crossed` instead of `crossed => orphaned`: an error
  that is about nothing that was asked ends a running read with a definite
  error, which keeps the connection (`exchanges/qfex/ws-transport.ts:513`,
  479-484), and the next read gets its rows.
- `TotalIsAlwaysKept`: TWAP and DCA take every error but `ORDER_PENDING` for an
  order that did not execute (`strategies/twap.ts:124`, `strategies/dca.ts:150`),
  and send the rest of the total again; `bot/perp-order.ts:13-20` tells that the
  answer of a venue may be wrong about that.
- `OneOrderUnlessTorn`: two calls under one id whose check and record overlap
  both send. A torn line does the same: the record joined to it cannot be read.
  `client-id-tracker.ts:64-65` lets a failed order be retried, but the CLI never
  records "failed" (only the RISEx and txflow adapters and the MCP server do).
- `OrdersExact`, read next to `ws/types.ts:214-216`: `complete` is per scope seen
  so far, so a store that has heard of one scope of two calls its set complete
  (`ws/user-state.ts:69-73`) while the frames are under way. A gap is announced
  when the socket opens (`ws/stream.ts:270`), before the channel is served again:
  a reader that refetches at once misses what happens until the acknowledgement.
- `MultiClaimsHold` without `~Against(m)`: a leg that filled against a position
  the account held is rolled back with a reduce-only order that finds nothing to
  reduce; the command answers ORDER_REJECTED with no leg filled, and the earlier
  position is gone (`commands/trade.ts:2831`, `bot/perp-order.ts:324-334`).
- "An earlier unknown outcome on the symbol blocks new orders"
  (`commands/trade.ts:523-525`) is not so of the market orders of `perp trade`
  themselves: an unknown one is logged and thrown, not quarantined (881-884), so
  that it leaves no `doubt` in `Quarantine`.
- In `BotEngine`: the exit phase tries a failing `onStop` again for ever, without
  reading the equity or the runtime limit (`bot/engine.ts:519-521`); only a signal
  ends it. The handlers are removed before the clean-up (638-648), so that a
  second signal kills the process before its orders are cancelled.


## 8. Not modelled, and why

- Venue adapters, signing, bridges, wallets: wire formats and calls of foreign
  services with no state of their own; a venue's behaviour is the environment
  of `PerpOrder`.
- Risk checks, funding, history, liquidity, caches, dashboards, settings, logs:
  pure computations on floats, reads, presentation; a cache miss is always
  allowed.
- Bot strategies (grid, apex, DCA) and the stand-alone grid, trailing stop and
  funding arb: decisions on prices.
- The market store (`ws/market-state.ts`) keeps the last value of a row;
  limit, stop, scale and atomic orders and cancels of `commands/trade.ts` and
  `mcp-server.ts`, their reading tools, Pacifica's older WebSocket client and the
  token bucket of `exchanges/rate-limiter.ts` are left for later; so are `awaitCapacity` of
  `pacifica/rate-limit.ts`, which reserves and releases at once, and an
  observation of another quota that is adopted while none is live.
- In the modelled files: the network tag and adoption of legacy state files and
  the dry-run store (`arb/state.ts`); spot-perp and dex modes
  (`commands/arb-auto.ts`); directory loading, auth tokens and shared wires
  (`ws/stream.ts`; a token refresh resubscribes without a
  gap event, 586-598, which no property covers); positions and balances
  (`ws/user-state.ts`); authentication and heartbeats
  (`exchanges/qfex/ws-transport.ts`); the strategy that decides when to call the
  executor (`bot/strategies/spot-perp-arb-strategy.ts`); validation and dry run (`plan-executor.ts`); refusals
  before a start and argv (`jobs.ts`).


## 9. Plan

Done, in this order: `FileLock` with its proofs, `ArbStore`, `PerpOrder` with
`VerifiedLeg` and proofs, `PairExec`, `ArbDaemon`, `WsConnection`,
`AsterNonce`, `PlanExecutor`, `Jobs`; then `SpotPair`, `WsSubscription`,
`UserFeed`, `RisexNonce`, `CreditLimiter`, `QfexTransport`, `BotEngine`,
`Slices`, `ClientIds`, `TradeMulti`, `Quarantine`; then the proofs of section 6. The
most important behaviour, money that is really at a venue and what the program
believes of it, came first.

Proofs: every invariant and action property of the runs is stated by a theorem of
section 6; what is left are the liveness properties, out of the prover's reach.

Next, models: the token refresh and wire sharing of `ws/stream.ts` in
`UserFeed`; the stop, limit and scale orders of `perp trade`; the grid and the
trailing stop; two kinds of daemon positions, perp-perp and spot-perp, in
`ArbDaemon`.
