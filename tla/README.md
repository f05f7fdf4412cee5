# Open Energy: TLA+ models of the event log, the audit chain, trading, settlement and fan-out

Open Energy runs an energy market on Cloudflare Workers. This project models
the parts of it that decide, record and hand on what happened:

- the v2 engine (`open-energy-platform/src/v2`) with its store, its HTTP
  commands, its timer sweep, and the seal and export of its log;
- the advisory locks and the v1 audit chain that is appended to under them;
- the trading orders that are matched under the same locks, and the order
  book's matching algorithm;
- the settlement (delivery versus payment) locks behind the HTTP idempotency
  middleware;
- the fan-out of events: queue, in-line stages, dead letters, bills.

Paths below are relative to `open-energy-platform/src/` unless they start with
`docs/`, `tests/` or `migrations/`.

## 1. Inventory

### The system

Open Energy is a Cloudflare Workers application. Every HTTP request, queue
message and cron run is an isolate of its own; all of them share one D1
(SQLite) database, and any of them may be overtaken by others at every awaited
call. There are two generations of business logic.

| Component | State it keeps | Operations | Hard behaviour | What makes it correct |
|---|---|---|---|---|
| **v2 engine** `v2/domain/engine.ts` | none: it loads, decides, commits | `applyTransition`: key lookup, load, authorise, legality, input, guards, event, commit, retry | decides on rows read several awaits earlier; retries; replays | one atomic, linked, duplicate-free log; honest answers |
| **v2 store** `v2/store/d1.ts`, `migrations/526` | `v2_txns`, `v2_events`, `v2_parties`, `v2_timers`, `v2_claims`, `v2_merkle_roots`, `v2_reference` | `getTxn`, `commit`, `dueTimers`, `deleteTimer` ... | pre-checks apart from the batch; COUNT as sequence; a conditional UPDATE | the indexes carry the invariants |
| **v2 commands** `routes/v2.ts` 608-688 | none | `POST /txn`, `POST /txn/:id/act` | redelivery, server-made ids, a token read by the route | what the client is told |
| **v2 timer sweep** `routes/v2.ts` 897-956 | its list of due rows | lists per class, fires, deletes | races the clients and other sweeps | no deadline lost, none stuck |
| **v2 guards and chains** `v2/domain/guards`, `chains/` | data | ten guards, 255 declarations | - | the state graph carries the business rule |
| **merkle seal, export, verifier** | `v2_merkle_roots`; packs | nightly seal, export, external verification | three reads, then an append | every event sealed, every root recomputes; honest packs verify |
| **advisory locks** `utils/locks.ts` | `advisory_locks` | acquire, steal, release | expiry, re-entry by one holder | mutual exclusion |
| **v1 audit chain** `utils/audit-chain.ts` | `audit_events`, `audit_chain_state`, R2 heads | append, verify, publish | a lock that may expire mid-way | one unbroken chain per entity type |
| **idempotency middleware** | `idempotency_keys` | look up, run, store | look-up and store apart; expiry | one effect per key |
| **settlement DvP** `routes/settlement-dvp.ts` | `settlement_dvp_locks` | cash, energy, release | read, then unconditional write | locked exactly when both legs are in |
| **trading orders** `routes/trading.ts` | `trade_orders`, `trade_matches`, `margin_reservations` | place, match, cancel, amend, expire | a match under the lock of its pair, the others under none, all on rows read before | filled by what the row says, margin neither lost nor left behind |
| **order book matching** `utils/matching.ts` | none | `matchOrder` | prices that are null, fill-or-kill, stable sorting | price-time priority; all that can trade does |
| **order book** `do/order-book.ts` | in-memory book, rows | post, cancel, hydrate | writes to an order by id, whatever others did to it since | an order it rests or cancels keeps what was filled and what is reserved in step |
| **sessions, one-time tokens** `utils/auth-tokens.ts` | sessions, tokens | rotate, revoke, consume | check and use apart | a token is used once |
| **cascade, queue, dead letters** `utils/cascade.ts`, `utils/fee-engine.ts`, `utils/analytics-sink.ts` | queue, `cascade_dlq`, `oe_platform_events`, `oe_platform_revenue` and its splits | enqueue, consume, run in line, retry, replay | a stage may fail half-way and is run again; the queue delivers again | nothing lost, everything settled, bills bounded by faults |
| v1 routes, specs, web pages, ProtoCEC, migrations, scripts | own tables | CRUD | - | outside the model |

Interaction: clients call the commands, cron calls the sweep, both call
`applyTransition`, which only touches the world through the store. The sweep
deletes timer rows that the engine's batches also clear and arm. The seal reads
what commits append; the export reads both. The audit chain and the matching of
orders sit on the locks, the settlement routes behind the idempotency
middleware; the routes fire the cascade after they have written.

`PROJECT.json` lists every component with its status, and every hazard at its
line.

### What is hard here

1. Everything the engine decides rests on reads that are stale at the commit:
   row, tail, token, parties, halt flag, the COUNT of events.
2. Commands are delivered again: during, right after, long after the original.
3. An isolate can die after the batch and before its answer.
4. A sweep works from a list of rows that clients clear and re-arm.
5. Refusals by a guard are recorded: they take a sequence number and make other
   tokens stale.
6. Claims are permanent, shared by several chains, and thrown, not answered.
7. A lock is a row that outlives its holder, is released by participant rather
   than by request, and expires by a comparison of texts.
8. A match, a confirmation, a cancel and an amendment each write what follows
   from a row read awaits before; only some of them hold a lock, and two matches
   of one order hold different ones.
9. A key of the middleware is looked up before the handler and stored after it.
10. A stage of the cascade is several inserts with fresh ids: whatever runs it
    again starts from its beginning.

## 2. Modules

| Module | Models | Extends |
|---|---|---|
| `ChainDecl` | the vocabulary of `types.ts` (edges, timers, parties) and the guards | - |
| `Consultations` | `consultation_notice.ts`, `public_consultation.ts` as data | `ChainDecl` |
| `CarbonChains` | `carbon_issuance.ts`, `carbon_retirement.ts`, `carbon_reversal.ts` as data | `ChainDecl` |
| `V2Engine` | engine, store, commands, sweep, environment | `ChainDecl` |
| `TxnLog` | abstract: a log of decisions, each atomic | `ChainDecl` |
| `V2Safety` | types, invariants, refinement, progress | `V2Engine`, instance of `TxnLog` |
| `V2Findings` | statements of comments and tests that some behaviour breaks | `V2Safety` |
| `V2Invariant` | the inductive invariant `IInv` of the engine, and what is kept besides it | `V2Safety` |
| `V2Proofs` | theorems: `IInv` is inductive (one lemma per action); the log, the projections, time, the answers; the engine implements `TxnLog` | `V2Invariant`, `TLAPS` |
| `MCConsultation`, `MCCarbon` | instances for TLC | `V2Findings`, `V2Invariant` and the chains |
| `MerkleSeal` | seal, export and verifier on top of the log, with their properties | - |
| `SealProofs` | theorems on seal and export | `MerkleSeal`, `TLAPS` |
| `MCSeal` | instance for TLC | `MerkleSeal` |
| `AdvisoryLocks` | `utils/locks.ts` | - |
| `LockProofs` | the lock's invariant, for every module that extends it | `AdvisoryLocks`, `TLAPS` |
| `AuditChain` | `appendAudit`, `verifyChain`, `publishChainHeadToR2` | `AdvisoryLocks` |
| `AppendOnly` | abstract: append-only chains with a verified mark | - |
| `AuditSafety` | properties, refinement and inductive invariant of the audit chain | `AuditChain`, instance of `AppendOnly` |
| `AuditProofs` | theorems on locks and audit chain | `AuditSafety`, `LockProofs` |
| `MCAudit` | instance for TLC | `AuditSafety` |
| `TradeOrders` | orders and margin of `routes/trading.ts`, with properties | `AdvisoryLocks` |
| `TradeProofs` | theorems on orders and margin, and lemmas on sums | `TradeOrders`, `LockProofs` |
| `Matching` | `matchOrder` as operators, with properties of a call | - |
| `MatchingProofs` | theorems on a call, and lemmas on loops, ranks and sums | `Matching`, `TradeProofs` |
| `MCTrading` | instance for TLC of both | `TradeOrders`, `Matching` |
| `Idempotency` | the middleware around a handler | - |
| `SettlementDvp` | the settlement routes as its handler, with properties | `Idempotency` |
| `DvpProofs` | theorems on settlement and idempotency | `SettlementDvp`, `TLAPS` |
| `MCSettlement` | instance for TLC | `SettlementDvp` |
| `Cascade` | queue, stages, dead letters, bills, with properties | - |
| `CascadeProofs` | theorems on the cascade | `Cascade`, `TLAPS` |
| `MCCascade` | instance for TLC | `Cascade` |

### V2Engine against the code

A process is one HTTP request at a time (`Clients`) or one cron run
(`Sweepers`). `pc[p]` names the D1 call about to be made; each action is one
awaited call with the synchronous code after it, so interleavings are those of
the event loop and of other isolates.

| Action | Code |
|---|---|
| `Send`, `Redeliver`, `ReadToken` | the two POST handlers, `routes/v2.ts` 630-688 |
| `Lookup` | fast path of the key and step 1, `engine.ts` 150-173 |
| `Load` | first SELECT of `getTxn`, CONFLICT / NOT_FOUND / STALE, `engine.ts` 177-208 |
| `LoadTail` | later SELECTs of `getTxn`, steps 3-5, `engine.ts` 210-250 |
| `RunGuards` | steps 6 and 7, `engine.ts` 252-320 |
| `PreCheckKey`, `PreCheckSeq`, `PreCheckClaim`, `CountEvents` | `d1.ts` 254-312 |
| `Commit`, `AbortBatch` | the batch, its UNIQUE violations, the UPDATE's row count, `d1.ts` 314-470, and step 9 |
| `ReplayRaced` | `engine.ts` 409-416 |
| `StartSweep`, `NextClass`, `EndSweep`, `Visit`, `AfterFire` | `sweepTimers`, `routes/v2.ts` 905-948 |
| `Tick`, `FlipHalt`, `Crash` | the clock, the compliance flag, an isolate that ends |

Abstractions. Hashes are injective: `HashOf` is the content that identifies an
event. Business fields are one payload of a small set, with the predicates that
guards and claims test (`Consistent`, `Evidenced`, `Crossing`). The human
reference is the four hex digits of a uuid, so `Refs` is a set in which
collisions happen. The parties never change after the opening (no code sets
`until_event_id`), so reading them with the tail loses nothing. The consecutive
SELECTs of events, parties and timers in `getTxn` are one step: parties do not
change and timers are not used. `PreCheckSeq` joins the pre-checks for the event
key, the human reference and the row's seq: all three retry, and the batch
repeats each of them. Dropping a row of a closed txn is one step with the read,
because a txn that once was closed stays marked so. `closed_at` is never taken
back (`engine.ts` 399), which is also why a txn that leaves a terminal state
stays marked: 13 chains declare such an edge, for example
`imbalance_settlement.ts` 184-186 (settled to archived), and the sweep drops the
timers of such a txn. In the chains modelled no edge leaves a terminal state
(`TerminalsFinal`, which the instances assume and TLC evaluates). `v2_outbox` is left out: no
chain declares effects. Reading back the txn for the answer (step 10) changes
nothing.

### MerkleSeal against the code

| Action | Code |
|---|---|
| `Land` | a commit of an event as `engine.ts` 297-321 builds it, `d1.ts` 308-345: what the engine's theorems say of it |
| `ReadSealed`, `ReadCount`, `ReadWindow`, `AppendRoot` | the four calls of `sealPendingEvents`, `merkle-seal.ts` 14-30 |
| `StartExport`, `ReadEvents`, `ReadRoots`, `Receive` | `GET /export`, `exportPack` and `eventsForExport` with its chunks of 90 chains |
| `Crash` | the isolate of a seal ends |

`Land` stands for the whole engine: numbered and linked as `GaplessHolds`,
`HashLinkedHolds` and `GlobalOrderHolds` prove, and per txn in time order as
`TimeForward` says; across txns times may run backwards, since a clock is read
well before its commit. An event carries the chain that its command named
(`engine.ts` 303), which need not be the txn's own (170), so any chain may come
next; the export filters each event by that chain. Because of `GlobalOrder` the COUNT that the seal reads
is the last `global_seq`. `MerkleRoot` is the code's fold, with hashing as
pairing; the verifier is the operator `Verifies`. An undefined lower bound of a
query is time 0 and an undefined upper bound the last time. Left out: the
recomputation of event and pack hashes (an honest pack quotes what is stored),
the custody notice (the same test on both sides), and the parties of the pack,
which no check reads.

### AdvisoryLocks and AuditChain against the code

| Action | Code |
|---|---|
| `Call`, `Insert`, `Steal`, `Release` | `withLock`, `acquireLock`, `releaseLock`, `utils/locks.ts` 26-91 |
| `Abandon` | the isolate ends inside the lock, or the DELETE of its row fails |
| `Ask`, `ReadHead`, `AppendRow` | `appendAudit`, `utils/audit-chain.ts` 136-174 |
| `StartVerify`, `ReadSeed`, `ReadPage`, `Persist`, `Report` | `verifyChain`, 246-355 |
| `CheckPrior`, `ReadHeads`, `PutObject`, `RecordAnchor`, `StopPublish` | `publishChainHeadToR2`, 398-482 |

`expires_at` is written by `toISOString` and compared with `datetime('now')` as
text. `'T'` sorts after `' '`, so on one date no lock is ever expired, and on a
later date every lock of an earlier one is. `DatePassed` models that comparison;
`DayLength` is the length of a UTC day. A hash is the history that it was
computed from, which makes SHA-256 injective and lets `AppendOnly` be stated on
the head hashes themselves. A failing INSERT of the lock only
ends the call before it began, and is left out. The anchors of different hours never meet, so
the instance has one hour. `overrun` is a history variable: the keys under which
some request was still at work after the date on its lease had passed.

### TradeOrders and Matching against the code

| Action or operator | Code |
|---|---|
| `Place` | the batch of `POST /orders`, `routes/trading.ts` 395-427 |
| `Rest`, `CancelUnfilled`, `FailToPost` | its `auto_match` branch, 453-504, through `POST /post` of the order book, `do/order-book.ts` 57-112 and 193-287 |
| `AskMatch`, `Lock`, `ReadBuy`, `ReadSell`, `ReadMargin`, `Fill` | `POST /match`, 942-1090, call by call |
| `ReadCancel`, `ReadExpired`, `EndOrders` | cancel and expire, 648-666 and 892-920 |
| `ReadAmend`, `Amend` | amend, 698-826 |
| `matchOrder` and its parts | `utils/matching.ts` 65-159 |

Left out of an order are its price, which no check of a match compares, and the
gates of `POST /orders` (limits, credit), of which `Rate` remains: margin
proportional to volume. Volumes are integers, so the code's tolerance of 0.0005
is equality. The order book works on the rows of its own memory, so whether it finds a match
is left open. Without one it writes to the order's row by id alone: a limit order
rests, `open` and with the volume it was placed for (`Rest`); any other type is
cancelled and its margin not looked at (`CancelUnfilled`). With a match it fails
(`FailToPost`): the row of `trade_matches` is in, the row of `trade_fills` is
refused (section 6), no order is touched, and the request answers as if nothing
had happened. `matches` holds only what `POST /match` wrote. After a match the
route also writes contracts, fees and cascades,
which read nothing of what is modelled. In `Matching` a book is a sequence,
because `Array.sort` is stable, and every order and book of the bounds is a call
of its own. A candidate's place after the sort is its `Rank`: how many eligible
orders are `Ahead` of it, by `compareBookPriority` and, where that is
indifferent, by their place in the book. `MatchingProofs` shows that ranks number
the candidates without a gap, so that this is the one stable sort.

### Idempotency and SettlementDvp against the code

| Action | Code |
|---|---|
| `Deliver`, `Clean`, `Find`, `Respond`, `Store`, `Die` | `middleware/idempotency.ts` 42-143 |
| `Enter`, `Create`, `Select` | role check and `ensureLockRow`, `routes/settlement-dvp.ts` 30-36, 58-64 |
| `Update` | the UPDATE of each route and its answer, 69-77, 89 |

`Idempotency` leaves the handler to the module that extends it: `at[d]` becomes
`"handler"`, and `Respond` takes it back. The request hash is injective on
bodies. A response says of which call it is the answer (`of`), which stands for
what the body says. The error handler turns the violation of the primary key in
`Create` into a 409, which is stored like any answer below 500.

### Cascade against the code

| Action | Code |
|---|---|
| `SendToQueue`, `RunInline` | `fireCascade`, `utils/cascade.ts` 2565-2600 |
| `TakeMessage`, `Finish`, `CallFails` for the consumer | `processCascadeQueueBatch`, 2606-2635 |
| `RecordEvent` | `recordPlatformEvent`, `utils/analytics-sink.ts` 45-65 |
| `RecordFee`, `WriteSplit` | `computeAndRecordFee`, `writeSplits`, `utils/fee-engine.ts` 90-157 |
| `CallFails`, `WriteDeadLetter` in line | `runStage`, `writeToDlq`, 2704-2782 |
| `Replay`, `Resolve`, `MarkByHand` | `retryDlqItem`, `resolveDlqItem`, 2789-2915 |

`wrangler.toml` gives the queue no dead letter queue, so a message is dropped
after `MaxRetries` redeliveries. The events modelled are on the rate card with
an enabled, split fee, the longest path through the stage. A letter stands for
the stage of its event, though the code writes one row per failure: each event
is fired once, so a stage fails in line once. The stages `audit`,
`notifications`, `webhooks` and `registry` are left out: they share no table
with the two that are modelled, and a failure of the registry stage in the
consumer is a failure of the delivery before its first insert (`Die`).

## 3. Properties

`V2Safety` holds what the engine must keep:

- the log: `GlobalOrder`, `GaplessPerTxn`, `HashLinked`, `OncePerKey`, `TimeForward`;
- the projections: `Projection`, `ClosedIsFinal`, `ClaimedOnce`, `TimersCurrent`;
- the answers: `AnswersHonest`, `RefusedOpensNothing`;
- `ImplementsLog`: the engine refines `TxnLog`, in which a decision is taken on
  the current state and recorded in one step (`log` is the sequence of events
  without the store's bookkeeping, `members` the parties);
- progress: `RequestsEnd`, `DueTimersLeave`.

`MerkleSeal` states what the regulator gets: every sealed root recomputes
(`RootsRecompute`), no event before the end of a window is left out
(`NothingSkipped`), the roots of an honest pack match its events, and it passes
the whole verifier if it has no lower time bound and its events are `Uncut`
(`HonestPackVerifies`), and every event is sealed in the end (`EventsSealed`).
Uncut says which exports the code reads consistently: a txn of the pack kept to
one chain so far, or one statement asks for all chains that it went through.

`AuditSafety` and `AdvisoryLocks`: nobody is let into a lock while another is at
work, until a date has passed (`Exclusive`); even then the chain does not fork
(`Unforked`), its state is its last row (`HeadIsLast`), the verifier cries wolf
only if it was started beyond the end (`NoFalseAlarm`), what was published stays
true (`AnchorsGenuine`), and all of it implements `AppendOnly`
(`ImplementsChain`).

`TradeOrders`: within one pair, fills, remainder and volume agree
(`PairConserves`) and margin adds up (`MarginConserved`), also when the order book
opens or cancels the order in between; a cancelled or expired order holds none
(`EndedFreesMargin`), unless the order book was what cancelled it. Orders that
were filled against several others, or amended, or whose lock was overrun are
excluded: see the findings.
`Matching`: `PriceTimePriority` and `AllThatCanTrades`, the latter on books in
which every order has a price.

`SettlementDvp`: `LockedMeansBoth`, `ConfirmationsStay` and `ToldIsTrue` say
what survives of delivery versus payment when requests overwrite each other's
status; `AnswerIsOwn` and `AnswerStays` what the middleware promises.

`Cascade`: `NothingLost` (at rest, every stage was carried out or has a letter,
up to the faults that tries and redeliveries make up for), `BilledPerFault`,
`ResolvedIsDone`, and that a fired event comes to rest at all (`EventsSettle`).

## 4. Runs

The runs of the engine are bounded by their sets of clients, txns, keys and
references and by the `Max...` constants of `V2Engine`. `CHECK_DEADLOCK FALSE`
stands where the system rightly stops: the engine with its keys used up and the
clock at its bound, trading with its matches used up, the cascade at rest.

| Run | Instance | Checks |
|---|---|---|
| `requests` | consultations: 2 clients, 2 txns, 4 keys, 2 references, 1 crash, 1 redelivery, every refusal of steps 1-5 (0.9 M states) | the log, the answers, `ImplementsLog` |
| `claims` | retirement: 2 clients, 2 txns of one serial range, 6 keys, 1 halt (3.5 M states) | `ClaimedOnce` |
| `deadlines` | reversal: 2 clients, 1 sweep, 1 txn with an SLA that claims, clock to 2, a halt set in between (1.3 M states) | `IInv`, `Projection`, `TimersCurrent`, `TimeForward`, `ClosedIsFinal` |
| `progress` | consultation: 1 client, 1 sweep, 1 crash, 1 redelivery, fair (0.1 M states) | `RequestsEnd`, `DueTimersLeave` |
| `exports` | 2 seals, 1 export at a time with 2 scopes, chunks of one chain, 2 chains that any act may name, 2 events, 2 times, 1 crash, fair (0.8 M states) | `RootsRecompute`, `NothingSkipped`, `HonestPackVerifies`, `EventsSealed` |
| `audit` | 2 requests of 2 participants on one chain, a verifier, 2 publications, clock to 2 with a day of 2 (3.1 M states) | `AuditInv`, `Exclusive`, `Unforked`, `HeadIsLast`, `NoFalseAlarm`, `AnchorsGenuine`, `ImplementsChain` |
| `trading` | 1 bid and 2 offers, the bid and an `ioc` offer with `auto_match`, 2 match requests, 1 cancel, expiry or amendment (of the other offer) at a time; 36 takers with every book of up to 3 of 19 orders (2.7 M states) | `PairConserves`, `MarginConserved`, `EndedFreesMargin`, `PriceTimePriority`, `AllThatCanTrades` |
| `settlement` | 1 cycle, 2 deliveries at once out of 6 calls, one key used by two participants and for two bodies, clock to 2 (0.9 M states) | `LockedMeansBoth`, `ConfirmationsStay`, `ToldIsTrue`, `AnswerIsOwn`, `AnswerStays` |
| `cascade` | 1 event, 2 stages, 2 splits, 2 tries, 2 redeliveries, 2 operators, 4 faults, fair (0.8 M states) | `NothingLost`, `BilledPerFault`, `ResolvedIsDone`, `EventsSettle` |

Why the bounds are enough. Every conflict is between one commit and one stale
read, so two clients (or a client and a sweep) show each kind; a retry that
fails again needs two conflicts, which four keys provide. Two txns are needed
for claims, references and the global order; two time units let a timer be
armed, extended, fall due and be overtaken. `claims` and `deadlines` allow one
retry (`MaxRetries = 2`) to stay small; `requests` and `progress` have the
code's bound of three attempts. The code's limit of 200 rows per sweep and
class is never reached in these instances. Two seals overlap in every way that
two events allow, and a third reads the same table as the second. With chunks of one
chain every statement of an export names one chain; that one statement asks for
several is left to the theorem.

In `audit` a lock that lives 0 units in days of 2 expires with the date, so the
second request takes over from the first while it is at work, and the first one
releases the second one's row when both are of one participant's id; chains are
independent cells, so one is enough. Pages of one row make the verifier read
between any two appends. In `trading` two match requests
meet on one pair and on two, and each order is placed, filled in part and in
full and cancelled, the bid expired, and the bid and one offer dealt with by the
order book, at every point of a match. A match is asked for while none is made
(`MaxMatches = 1`), so the two requests make up to two, one after the other on
one pair, or on both pairs. An amended order is outside the properties; the
instance amends one offer (`Amendable`), once, which is enough to disturb its
partner. In `settlement` two
deliveries are two first ones, a retry, or two legs; the row is created,
confirmed, locked and released under both. In `cascade` the four faults exhaust
the tries of a stage and the deliveries of a message, and hit the letter and its
replay. Events do not meet, so one is enough.

The theorems of section 5 do not depend on any of these bounds.

### Findings

Three runs exhibit behaviour that contradicts a comment. `PROJECT.json` quotes
each line.

| Run | What happens |
|---|---|
| `lost_deadline` | a refusal recorded between the two reads of a sweep makes its firing STALE, and the deadline is deleted although nothing was decided |
| `minted_serials` | a range that was issued as a whole cannot be retired |
| `overfilled_order` | two matches of one bid with two offers hold two locks, and together fill more than the bid's volume |

Other behaviour of the code that the model contains and that a reader should
know of, though no line of the repository denies it: a `POST /txn` that is
delivered again is answered with a fresh txn id that names nothing
(`RefusedOpensNothing` states what is true of that id); a redelivery that
passes the key lookup before the original commits may be answered STALE
although its event is in the log; a sweep may fire a timer row from its list
that an extension has cleared and re-armed meanwhile; a timer whose firing
claims a taken range throws in every sweep until its txn moves (in `progress`
no chain claims, so `DueTimersLeave` says nothing about such a timer); every
recorded comment moves the end of the comment window; ranges of serials that
overlap without being equal are both retired.

The models show more that a reader should know of, and that their properties
step around:

- Engine. The redelivery of a refused command answers ok, because the replay
  paths answer from whatever event holds the key (`v2/domain/engine.ts` 166). An
  act is not checked against its txn's own chain (170): where two chains share a
  state name, an act that names the other one takes that chain's edge, and a
  consultation's outcome can be published without its review. In `deadlines` the
  chain has no self edge; that such edges keep the timers current is a theorem.
- Seal and export. Two seals that read the same position both append, so the
  windows of the roots may overlap (`tests/v2/merkle-seal.test.ts` 79-80 expects
  that they do not when one follows the other). An export with a lower time
  bound begins in the middle of a txn, and the verifier refuses it. It also
  refuses an honest pack by chain that holds a txn in which an act named another
  chain: the events of that act are filtered out, or in without what precedes
  them. An export of more chains than fit a statement (90) may in the same way
  hold a later event of such a txn, committed between two statements, and miss
  an earlier one.
- Locks. On one UTC date a stale lock is never taken over, whatever its TTL,
  contrary to `utils/locks.ts` 7-9; a request that dies inside makes every
  further append of its entity type fail until midnight. Lines 14-15 say that
  two callers may both steal: the UPDATE is atomic and also moves the date on,
  so they do not.
- Audit chain. The nightly `verifyChain(env, '')` (`index.ts` 380 and 403) walks
  the chain of the empty entity type, which nothing is appended to. Of two
  publications of one hour the one that loses the ledger has already replaced
  the winner's object; they differ, as `published_at` does, contrary to
  `utils/audit-chain.ts` 466-467. The object is genuine either way
  (`AnchorsGenuine`), but its hash is not the one in the ledger.
- Trading. An amendment that read before a fill forgets the fill; one that read
  before a cancel leaves margin reserved on a cancelled order. A cancel that
  read before a full fill marks a matched order cancelled. An `ioc`, `fok` or
  `market` order that the order book cancels for want of a match keeps its margin
  reserved (`do/order-book.ts` 283-287 against `routes/trading.ts` 422-426), and
  no request that comes after frees it: cancel and expiry only take live orders. A
  limit order that was cancelled or expired before the order book gets to it is
  opened again, without margin; one that was amended before gets the volume it
  was placed for as its remainder. A match that the order book finds leaves a row
  of `trade_matches` and changes no order.
- Matching. A resting order without a price sorts last, and the loop stops at
  the first order that does not cross: behind a priced order out of reach it is
  not matched, although it crosses by itself.
- Settlement. A confirmation that read before a release turns a released cycle
  back; after a race of the two legs both may be confirmed while the status says
  `cash_in` or `energy_in`, until one is confirmed again. A second request that
  creates the row at the same time is answered 409, and with a key that answer
  is replayed. A retry without a stored answer may get 409 for a confirmation
  that it made itself.
- Cascade. Revenue and analytics rows have fresh ids, so a redelivery after a
  failed split, a further try and a concurrent replay each bill again
  (`BilledPerFault` is the exact bound; compare `utils/trade-fees.ts` 87). A
  replay marks its letter resolved even if it was abandoned meanwhile.

### Fairness

`FairSpec` adds weak fairness of: each engine step of a request or sweep under
way (D1 calls return and the event loop goes on), of a client receiving its
answer, of the sweep's own steps (cron fires every 15 minutes and a run goes on
until it ends) and of the clock. Sending, redelivering, crashing and the halt
carry none. A crash stops a request for good: `Crash` returns the process to
idle, and the client may or may not deliver again. In `MerkleSeal` only the seal
is fair: it comes back every night and its calls return. In `Cascade` the queue
delivers what it holds, and a worker goes on, by a call that returns, fails, or
by its end; nobody has to replay a letter. The other modules state no fairness
and no liveness. No strong fairness is needed: once a request has started its
next step stays enabled.

## 5. Proofs

All theorems are of the `Spec` of `V2Engine`, `MerkleSeal`, `AuditChain`,
`TradeOrders`, `SettlementDvp` or `Cascade`, or of any one call of `Matching`
(`CallSpec`); they are safety only, hold for every value of the constants that
satisfies the named assumptions, and are checked by TLAPS to the last leaf:

| Theorem | Property | Module |
|---|---|---|
| `Inductive` | `IInv` | `V2Proofs` |
| `TypeCorrect` | `TypeOK` (part of `IInv`) | `V2Proofs` |
| `GlobalOrderHolds` | `GlobalOrder` | `V2Proofs` |
| `OncePerKeyHolds` | `OncePerKey` | `V2Proofs` |
| `GaplessHolds` | `GaplessPerTxn` | `V2Proofs` |
| `HashLinkedHolds` | `HashLinked` | `V2Proofs` |
| `ProjectionHolds` | `Projection` | `V2Proofs` |
| `ClaimedOnceHolds` | `ClaimedOnce` | `V2Proofs` |
| `TimersCurrentHolds` | `TimersCurrent` | `V2Proofs` |
| `StampsHold` | `Stamps`: the clock, drafts and the log | `V2Proofs` |
| `TimeForwardHolds` | `TimeForward` | `V2Proofs` |
| `ClosedIsFinalHolds` | `ClosedIsFinal`, if `TerminalsFinal` | `V2Proofs` |
| `AnswersHonestHolds` | `AnswersHonest` | `V2Proofs` |
| `IdsOwnedHolds` | `IdsOwned`: one opening per fresh id | `V2Proofs` |
| `RefusedOpensNothingHolds` | `RefusedOpensNothing` | `V2Proofs` |
| `Refinement` | `ImplementsLog` | `V2Proofs` |
| `SealInductive` | `SealInv` | `SealProofs` |
| `RootsRecomputeHolds` | `RootsRecompute` | `SealProofs` |
| `NothingSkippedHolds` | `NothingSkipped` | `SealProofs` |
| `HonestPackVerifiesHolds` | `HonestPackVerifies` | `SealProofs` |
| `AuditInductive` | `AuditInv` | `AuditProofs` |
| `ExclusiveHolds` | `Exclusive` | `AuditProofs` |
| `UnforkedHolds` | `Unforked` | `AuditProofs` |
| `HeadIsLastHolds` | `HeadIsLast` | `AuditProofs` |
| `NoFalseAlarmHolds` | `NoFalseAlarm` | `AuditProofs` |
| `AnchorsGenuineHolds` | `AnchorsGenuine` | `AuditProofs` |
| `AuditRefinement` | `ImplementsChain` | `AuditProofs` |
| `LockedMeansBothHolds` | `LockedMeansBoth` | `DvpProofs` |
| `ConfirmationsStayHolds` | `ConfirmationsStay` | `DvpProofs` |
| `ToldIsTrueHolds` | `ToldIsTrue` | `DvpProofs` |
| `AnswerIsOwnHolds` | `AnswerIsOwn` | `DvpProofs` |
| `AnswerStaysHolds` | `AnswerStays` | `DvpProofs` |
| `CascadeInductive` | `CascadeInv` | `CascadeProofs` |
| `NothingLostHolds` | `NothingLost` | `CascadeProofs` |
| `ResolvedIsDoneHolds` | `ResolvedIsDone` | `CascadeProofs` |
| `BillsAreCounted` | `CountInv` | `CascadeProofs` |
| `BilledPerFaultHolds` | `BilledPerFault` | `CascadeProofs` |
| `TradeInductive` | `TradeInv` | `TradeProofs` |
| `PairConservesHolds` | `PairConserves` | `TradeProofs` |
| `MarginConservedHolds` | `MarginConserved` | `TradeProofs` |
| `EndedFreesMarginHolds` | `EndedFreesMargin` | `TradeProofs` |
| `PriceTimePriorityHolds` | `PriceTimePriority` | `MatchingProofs` |
| `AllThatCanTradesHolds` | `AllThatCanTrades` | `MatchingProofs` |

Assumptions: the chains are records of the declaration vocabulary
(`ChainsAssumption`); the special payloads are payloads (`PayloadsAssumption`);
the string for "no state" is a string (`AbsentAssumption`); the bounds are
naturals and the retry and sweep limits at least 1 (`BoundsAssumption`); no
process is both a client and a sweep (`ProcsAssumption`); the inputs are intents
(`IntentsAssumption`); `None` is no txn, reference, payload or number
(`NoneAssumption`). Of the seal: every txn has members, queries are
queries, bounds are naturals, and no job is both a seal and an export. Of the
locks and the audit chain: a day, an hour, a page and a scan have a length, there
is one lock per entity type, and `None` is no row or local. Of settlement: a call
is its key, scope and body, views carry no key, and `None` is none of the things
it stands in for. Of the cascade: a bill has a split, a stage a try, operators
are finitely many and are neither producer nor consumer, and `None` is no number
and no task. Of trading: each order has a side, a volume and a type, a match names two
orders and locks their pair, and `None` is no row. Of a book: an order is a
record of the fields that the interface `MatchingOrder` declares, with integer
prices, volumes and times, and `Null` is no number and no order.
`WindowAssumption` and `DeadlineAssumption` only concern the chains of the
instances. Of the chains nothing is assumed beyond their shape, so the theorems
do not depend on which declarations are modelled; only `ClosedIsFinalHolds` has
`TerminalsFinal` as a hypothesis, and says nothing of the 13 chains that break it.

### The argument

The properties of the log are not inductive: a commit is right because of what
its request read several awaits before. `IInv` says what each process may rely
on at each `pc`, however the database has grown since.

- `SnapOK`: the loaded row has a seq no greater than the txn's row, and equals
  that row if the seqs are equal. `TailOK`: the loaded tail is an event of the
  txn, not older than the row.
- `JudgedOK`: the actor held the role and the edge was legal from the loaded
  state. Both still hold later, since parties are never removed and the row is
  the process's own copy.
- `DraftOK`: the event under way extends the loaded row and tail along the edge
  of the command.
- `Dense`: the log holds the sequence numbers 1 up to the txn's seq, and no
  other.

Each action that is not a commit moves one process and only adds to the
database or leaves it alone; the lemmas of `V2Proofs` show that the others'
facts survive. The heart is the commit. It succeeds only if `(txn, seq)` is free
in the log, and its seq is one more than the loaded row's; with `Dense` the row
cannot have moved on, so by `SnapOK` the loaded row is the current one, and by
`TailOK` the tail can only be the event at that very seq. It follows that the
UPDATE of a batch that lands always matches its row: the branch of `d1.ts`
461-470 that throws after such a batch is never taken. The properties follow
(only `Commit` writes the log, and `LandedEvent` says what it appends), and the
refinement: a commit is one lawful decision of `TxnLog` on the current state and
every other step a stutter.

Three properties need facts that `IInv` does not have. Time: a request reads its
clock once, after its load, so its draft is not before any event the loaded row
counts (`StampOK`); at the commit these are all there are, whatever other txns
did since. Closing: a closed txn is in a terminal state (`ClosedTerminal`), which
no edge leaves. Fresh ids: `IdsOwned` says that an id is drawn once, so that no
other request carries it until its opening has landed, and that a copy of a
request held for redelivery names a txn only if that exists. A refused opening
thus is the only one that could have written under its id, and wrote nothing.

For the seal, `SealInv` says that a seal starts where some window ended
(`SealOK`), so whatever it appends leaves no gap, and that its window lies within
a log that only grows, so its root stays right (`RootOK`). A pack holds with an
event all earlier ones of its txn and chain, and if one statement read it, all
earlier ones of its txn under the chains asked for (`PackOK`), which is where the
time order of each txn's log is needed: an upper time bound then cuts a txn only
at its end. For uncut events these are all earlier ones.

For the audit chain, a hash is a history, and `Past(t, h)` says that `h` was the
head of `t` at some time: its sequence number is the length of its history, and
that history a prefix of the present one. A request, a walk of the verifier and a
publication each carry such a head, and a chain that only grows keeps it so. When
a request appends, its number is free only if its head is the present one
(`ChainOK` has a row for every number up to the head), so the append extends the
chain, and the refinement maps it to `Extend`; otherwise the UNIQUE index rolls
the batch back. None of this uses the lock. `LockOK` shows separately what the
lock does: unless someone was at work past the date of its lease, the row of the
lock is in the name of the one request at work.

For settlement, `DvpInv` says that a row in hand lacks confirmations at most: it
was the cycle's row once, and rows gain confirmations and a time of locking and
lose neither. So a status `locked` computed from it is right of the present row
too (`LockedMeansBoth`), and what a response says of its row stays true as long
as the response is stored (`ToldIsTrue`).

The lock is proved once (`LockProofs`): `LocksInv` is kept by its own actions
and by every step that leaves its variables alone, so the audit chain and the
matches of `TradeOrders` take it over as it is.

For trading, the theorems hold of an order that one pair's lock guards
(`Guarded`): filled against one other only, never amended, its lock never
overrun. For a match `p` that holds the lock of such an order (`Alone`), what it
read of the row and of the reservation is still there at its batch, unless a
cancel or an expiry, which take no lock, ended the order in between; that changes
the status and releases the margin, but neither remainder nor amounts (`Kept`).
The order book also writes a remainder without a lock, but only to an order of
which nothing was matched, and then what it writes is there already: filled plus
remainder is the volume, so a remainder of the whole volume means that nothing
was filled.
The sums over matches and reservations are folds that take the elements in an
order of the library's choosing. `TradeProofs` shows that they do not depend on
it, by well-foundedness of the finite subsets, and so what one more element adds.

For a call of the order book, `matchOrder`'s loops are folds over a prefix of the
candidates. A fold equals a walk (`Ran`), of which each step is known, so that an
invariant can be carried from each candidate to the next (`LoopOK`): what the
taker lacks, what each resting order gave, and that none gave anything before
those ahead of it were exhausted. Priority is then a matter of ranks. For
`AllThatCanTrades` the prefix must be all that crosses: with prices on all orders
a candidate behind one that does not cross does not cross either.

For the cascade, `HeldOK` says that until every stage of a fired event is done or
has a letter somebody has the event in hand: its message, or the producer in
line, unless the producer's isolate ended. A worker moves past a failed stage only with a letter, and only if the
letter itself fails too, or all deliveries are used up, is a stage left behind;
`InlineOK` and `ConsumerOK` charge each further try and delivery to a fault, so
that this takes more faults than `NothingLost` tolerates. `CountInv` charges
bills: those written and those that somebody may still write without another
failure (`Due`) are at most one, plus the faults, plus what a letter gives to
operators beyond the first (`Means`). A fault lets one more worker bill, and
raises `Means` by one.

### Checked by TLC only

- `RequestsEnd`, `DueTimersLeave`, `EventsSealed` and `EventsSettle`: liveness is
  out of the prover's reach.
- The three findings, which are violations of statements rather than properties.

Every other property of section 4 is a theorem.

## 6. What is not modelled, and the plan

Not modelled:

- The Durable Object of the order book (`do/order-book.ts`) beyond its algorithm
  and what it does to the order it is sent. With the schema of the repository
  `persistMatch` throws on its first fill: `migrations/036` creates `trade_fills`
  without the column `counterparty_order_id`, and the CHECK on
  `trade_orders.status` admits neither `filled` nor `partially_filled`. So nothing
  after the first row of `trade_matches` of a fill is reachable, that row is read
  by nothing that is modelled, and nothing in the repository calls `/cancel`.
- The gates, contracts, fees and other resources of `routes/trading.ts`, and the
  amounts of fees: floating point by configuration.
- The audit, notification, webhook and registry stages of the cascade: some
  hundred rules of "insert a row when this event comes", each on tables of its
  own.
- Sessions and one-time tokens: one row and two statements each, apart from
  everything modelled here.
- The 250 other chain declarations: the same vocabulary, run by the same engine.
- v1 CRUD routes and their spec utilities, web pages, generated registries, the
  ProtoCEC site, imports, read-only queries and affordances. They are nearly all
  of the repository's lines, and keep rows without a protocol between actors.

What could come next: an instance of the engine with a chain whose terminal
states can be left, to state what remains of `ClosedIsFinal` there; amendments
and several partners in the theorems on orders, which first need the code to lock
by order rather than by pair.
