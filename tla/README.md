# Reserve growth backend: TLA+ models, checks and proofs

The backend walks every Compound market and treasury wallet of several chains,
one midnight (UTC) at a time, finds the block that stands for the midnight,
reads the contract at that block, prices the result, and stores one row per
source and day. A checkpoint per source says how far it got. It does that for
months of history over RPC providers, a price API, a mail server and a
database, any of which may fail at any line, in a process that may be restarted
at any line, and it must neither lose a day nor store one twice.

This directory holds that protocol as TLA+ modules, the TLC runs that check
it on small instances, and proofs of its main invariants that TLAPS checks for
every value of the constants. All paths of code below are relative to the
repository; `contract.service.ts` is
`src/modules/contract/contract.service.ts`, and so on.

```
tlc -config ReserveSync_server.cfg MCReserveSync     # model-check one run
tlapm ReserveSync_proofs.tla                         # check the proofs
```

## 1. Inventory of the system

| Component | State | Operations | Modelled in |
|---|---|---|---|
| **GetHistoryService** `history/cron/history-get.service.ts` | `isProcessing`, one Boolean per process | `getHistory` (cron, command), `startReservesProcessing` and `startStatsProcessing` (administrator, with or without `clearData`), `updatePriceCompForStats` (command) | ReserveSync, StatsSync |
| **ContractService.saveReserves** `contract/contract.service.ts:618-807` | table `reserves`, `source.blockNumber`, the entities in memory | day loop: search, read, price, INSERT, checkpoint | ReserveSync |
| **ContractService.saveStats** `:809-1071` | tables `incomes`, `spends` | day loop with two INSERTs; resumes from the last rows | StatsSync |
| **Time grid** `common/utils/calculate-time-range.ts` | none | first and last midnight to process | DailyGrid |
| **Block search** `contract/contract.service.ts:163-593` | Redis cache of blocks | `findBlockByTimestamp` (three searches), `getContractCreationBlock`, `getSourceBlockNumber` | BlockSearch |
| **Sources** `source/` | table `source` | listing, `updateWithSource`; creation by `source-fill` | ReserveSync, SourceFill (creation) |
| **Prices** `price/` | table `price`, Redis (prices with a TTL, a flag per preloaded coin), the time of the last request | lookup with fallbacks, preload, forced reload, rate limit | PriceCache (not the rate limit) |
| **CAPO and oracles** `capo/`, `oracle/` | snapshots, daily aggregates, discovered oracles | collect, check alerts, aggregate the day of the latest snapshot, discover | CapoMonitor (not the discovery) |
| **Alerts** `alert/`, `mail/` | table `alert` | deduplicate, send on several channels, mark sent | CapoMonitor (mail: also a fault of ReserveSync) |
| **Read side** `history/history.controller.ts`, `history.service.ts`, repositories | Redis cache of responses | pagination, daily differences, merge of incomes and spends, filled prices, one-hour cache | HistoryPages |
| **source-fill** `source/cli/source-fill.command.ts`, `asset/`, `github/` | tables `source`, `asset`, the file `.github-cache.json` | check, then insert, from static lists, a Comptroller crawl and the roots files on GitHub | SourceFill |
| **Algorithms** `contract/algorithm.service.ts` | none | 256-bit and floating-point arithmetic on contract values | not modelled |
| **Providers, networks** `network/` | one client per network | RPC calls | faults of the models |
| **Events, revenue, treasury, runway** | CRUD tables, a Google sheet | request and response | not modelled |
| **Bootstrap, guards, migrations** | configuration | framework wiring | not modelled |

**Interactions.** The cron and the administrator's endpoints call the one
`GetHistoryService` of the server and share its lock; the commands
`history:get` and `stats:get` are processes of their own with a lock of
their own. Jobs of different processes meet only in the database: a job lists its
`Source` entities once, works on them for hours, and writes them back.
`saveReserves` and `saveStats` call the block search, the price service, the
mail service and the history tables. Everything else reads those tables.

**What is hard here.** (1) The row and the checkpoint are two writes, and so are
spends and incomes. (2) Each failure has its own path: a failed read skips the
day, a failed price stops the source, a failed mail turns a stop into a
skip or ends the job, a failed checkpoint write leaves the entity modified.
(3) The search may return a block on either side of the midnight, and the next
run starts from that block. (4) A clearing rewinds checkpoints one by one and
deletes rows in one statement; the statistics are cleared by two statements in
parallel. (5) Two processes do not share the lock. (6) A search guesses from
configured block times and gives up after a bounded number of probes. (7) The
daily aggregation has no lock, and its queries see different sets of snapshots.
(8) `source-fill` compares with a list as old as the command, and no table it writes
has a unique key. (9) A page of a listing is several queries without a transaction, over an order that is
only partial, and the pages of a walk may come from the cache of different times.

**What makes each part correct.** Collection: no day silently lost, one row per day
or two for a reason that can be named, each row read at a block near its midnight, checkpoints behind the rows,
locks released, catching up with today. Statistics: no holes, incomes once.
Search: the first block not before the target, or one within the
accepted slip; termination. Prices: one price per day, the same answer for a day whenever it is asked for, and a price the
provider gave is not lost. (An exact price is asked for first, but an approximation, once it was stored, is taken for
the price of the day from then on.) Alerts: each condition once per window, none lost. Read side:
a walk over the pages misses no row, and each difference, price and merge is the one the table says. `source-fill`: every
contract gets one source and one asset, whatever broke off before.
`PROJECT.json` lists the hazards behind these, line by line, with the properties
that cover them.

## 2. The modules

| Module | What it is | Checked by |
|---|---|---|
| `DailyGrid` | the day grid, the fallback, and what a search may return; no state | through its users |
| `DailyLedger` | abstract specification of the collection: a ledger of settled days and a frontier | refined by ReserveSync |
| `ReserveSync` | jobs, lock, clearing, `saveReserves`, crashes | `MCReserveSync`, 5 runs |
| `StatsSync` | `saveStats`, clearing of the statistics | `MCStatsSync`, 1 run |
| `BlockSearch` | one call of a block search | `MCBlockSearch`, 2 runs |
| `PriceCache` | the price of one asset: cache, table, preload, fallbacks, forced reload | itself, 1 run |
| `CapoMonitor` | snapshots, alerts and daily aggregates of the oracles | `MCCapoMonitor`, 1 run |
| `SourceFill` | the `source:fill` command: finding contracts, creating assets and sources | `MCSourceFill`, 1 run |
| `HistoryPages` | the listings of the history API, read page by page beside the collectors | `MCHistoryPages`, 1 run |
| `DailyGrid_proofs` | arithmetic of midnights | TLAPS |
| `ReserveSync_proofs` | eleven theorems about ReserveSync, among them the refinement of DailyLedger | TLAPS |
| `BlockSearch_proofs` | six theorems about BlockSearch, the last about DailyGrid too | TLAPS |
| `PriceCache_proofs` | four theorems about PriceCache | TLAPS |
| `CapoMonitor_proofs` | six theorems about CapoMonitor | TLAPS |
| `StatsSync_proofs` | five theorems about StatsSync, one of them the invariant of `TablesHaveNoHole` | TLAPS |
| `SourceFill_proofs` | six theorems about SourceFill | TLAPS |
| `HistoryPages_proofs` | five theorems about HistoryPages | TLAPS |

`ReserveSync` and `StatsSync` EXTEND `DailyGrid` and take a search as one step
whose outcome is any block of `FoundBlocks`. `BlockSearch` is the detail of that
step: its property `ResultStandsForTarget` says which block the outcome is when the chain
is steady, and theorem `SearchesFitTheGrid` that its timestamp then lies in that set. `ReserveSync` starts from the sources that `SourceFill` creates, one per
contract, and `HistoryPages` reads the tables the collectors fill, a day possibly stored twice or out of order; that the
spends of a day are there before its incomes is what it takes from `StatsSync` (theorem `SpendsComeFirst`).

### DailyGrid
Time is counted in ticks and the chain mines a block per tick, so that block `b`
has timestamp `b` and the head is `now`. This keeps what the collection
depends on: the order of blocks and midnights, and how far a returned block may
be from its midnight. `EarlySlip` and `LateSlip` stand for the
accepted error of an estimate (`contract.service.ts:441`) and for probes that
failed; `BlocksPerDay` is the configured fallback, which need not agree with the
true number of blocks a day (`Day`).

### ReserveSync
| Variable | Code |
|---|---|
| `blockNumber` | column `source.blockNumber` |
| `reserves`, `repeated` | table `reserves`: distinct rows, and the days stored more than once |
| `isProcessing[h]` | the field of `GetHistoryService` of process `h` |
| `job[j]` | the local variables of a running job |
| `entity[j]` | the `Source` objects the job listed; `updateWithSource` modifies them before it writes |
| `base`, `skipped`, `unpriced`, `uncommitted` | history variables, read by properties only: where a source was last asked to start, days moved past after a failure, days whose price failed, days with rows that a failed write or a crash left without a checkpoint behind them |

A step is what happens between two awaits that another job can observe.
Chain reads and price lookups change nothing another job reads and are part of the write they
lead to; each write to the database is a step of its own (`SaveRow`, `Commit`,
`Rewind`, `Purge`, `UpToDate`). Failures are separate actions, one per path of
the code: `ReadReverts` (CALL_EXCEPTION), `ValueInvalid`, `PriceFails`,
`DayFails` (anything else, and a `lastBlock` beyond the head), `CommitFails`,
`SourceFails`. "db" includes any exception of a listing, a write or a DELETE;
"mail" is the failure of the mail that reports another failure, so it costs none
of its own. A row that was inserted although the connection reported an
error is not modelled.

`base` moves where the code asks a source to start again. When a rewind fails after the
entity was modified, the job collects from the requested start although the table
keeps the old checkpoint, so `base` moves there only if that claims less
(`Later`). Days before a requested start are outside the promise, and so is
the midnight a start falls on: the code collects the first midnight strictly after it.

### StatsSync
`rows[t][s]` is table `t` (`incomes`, `spends`) of source `s`; `repeated` as
above. A source resumes from the earlier of the last rows of the two
tables (`GoesOnFrom`, `contract.service.ts:849-877`), or from an asked date.
`StartClearing`, `Delete`, `DeleteFails`, `OrphanEnds` are the
`Promise.all` of `history-get.service.ts:194`: when one TRUNCATE fails the job
ends, the lock is free, and the other TRUNCATE goes on. The amounts are
abstracted away. `algorithm.cometStats` always returns spends, so
the branch without them (1011-1015) is not taken. Which algorithm list the
source comes from does not matter here; the order of jobs on a host is given by
`OneJobPerHost`. `EarlyRows` are the rows of blocks that were mined before their midnight: the only reason
for which the incomes of a day are stored twice.

### BlockSearch
A behaviour is one call. `StartFind` is a midnight looked for by a day loop, from
any `fromBlock` up to one beyond the head; `StartSource` is `getSourceBlockNumber`,
the bisection for the creation block followed, when a date after it is asked for, by a search
from block 0. `network` selects the ordinary search (estimate, correct, search around), the Arbitrum search
(short span or the walk over periods) or the Scroll bisection. `TypeOK`,
`ResultInRange` and so on quantify over every chain of the instance: the chain is a
variable chosen at the start. Two of them, `TypeOK` and `ResultInRange` (a search never
returns a block before the one it was told to start from), are in no run: they are proved. The Redis cache is transparent: what it holds are
final blocks, and a cache that fails counts as a miss. The head, read
once per call, is fixed.

### PriceCache
One symbol, and the price of day `d` is named `d`, so that an approximation is recognised by
its name. `price[d]` is the set of distinct prices in the table for the day,
`cache[d]` the Redis key, `preloaded` the coin's flag (which another symbol of the coin may set:
`SiblingPreloads`), `call[c]` the call a process is in. TTLs are abstracted to `Expire`, at any
moment and for any key, which also stands for a read or write of Redis that fails.
A call may fail at the provider, in Redis and in the database, each
caught where the code catches it. `disturbed` and `exact` are history variables. The first holds the days on which a
query or insert failed, a process died, or another caller was at work. The table has no unique
key and errors of it count as an absent price, so on those days the code does keep
two prices; `OnePricePerDay` and `PriceIsStable` speak of all others. The second holds the days whose own price the provider
gave: `ExactPricesAreKept` says of all of them, disturbed or not, that one crash or failed insert does not lose the
price, since it is inserted twice (203 and 102). Approximations are stored as well: their sources `database_nearest` and
`database_fallback` pass the test of `price.service.ts:100-103`, whose comment says that only a price of an
external provider is saved.

### CapoMonitor
| Variable | Code |
|---|---|
| `isCollecting`, `job` | the lock and the local state of `collectOracleData` (`capo.service.ts:44-107`), which awaits `createAlert` |
| `snapshots` | table of snapshots: per oracle, when they were taken |
| `sent` | the newest row of table `alerts` with status `sent`, per oracle and kind; the cooldown reads nothing else of the table |
| `aggregation[a]` | the local state of one of the aggregations under way (252-439) |
| `daily` | table of daily aggregates, in the order of insertion; a row is known by the snapshots that went into it |
| `due` | the crons that have not fired in this minute |
| `case` | what the behaviour may meet: how many aggregations at once, which checks may be true, and whether Telegram has a token and a chat |
| `delivered`, `unsure`, `collided` | history variables: what the channels delivered, alerts whose sending failed on the way, days on which two aggregations were at work |

`Checks` lists the five checks in the order of the code; whether one is true is a free choice, except
that the price growth needs a snapshot of a day ago. `createAlert` swallows every
failure, and an alert goes to the mail first and to Telegram only if the mail was sent. A Telegram that is enabled without
its credentials returns as if it had sent (`telegram.service.ts:19-22`; `Configured`), and the alert is marked. `Stall` is an
await that never ends: it keeps the lock until a restart. An aggregation reads the
latest snapshot, then the snapshots of that day, then for each oracle a row and writes it: four
awaits, each a step. An oracle without an asset fails after its row was looked for (405, 424), and the next one
goes on. Every minute both crons fire; the code aggregates every third. Firing more
often makes more aggregations overlap, and changes nothing else.

### SourceFill
| Variable | Code |
|---|---|
| `sources`, `assets` | the tables: of every contract its rows, each with its asset; of every token the number of its rows |
| `job[c]` | the local state of a running command: what it listed at the start, the loop it is in, the contract in hand |
| `cachedList` | the list of roots files in `.github-cache.json` |
| `allMarkets`, `published` | the outside world: what the Comptrollers list, which files the repository has |
| `overlapped` | history variable: two commands have run at the same time |

A contract is an entry of `sources.ts`, a crawled market, a Comet market or a rewards contract (`Kinds`). Three of the four are
compared with the list of the start (`source-fill.command.ts:33`), rewards contracts with the table (133-145). Creating a source is up to four
steps: look for the asset, create it, insert the source, go on. A failure ends the whole command (`Abort`, 219-223) or
skips one file (`GiveUpFile`, `SkipFile`, 207-214), depending on where it happens; a crash ends it anywhere.
`FetchList` has the three outcomes of `listAllRootsJson`: the tree, the tree without a cache file, and the fallback that reads
directories one by one and counts one that fails as empty, whose short list is cached like a full one.

### HistoryPages
| Variable | Code |
|---|---|
| `endpoint`, `order` | which listing of `HistoryController` this behaviour asks for, ascending or descending |
| `rows`, `spends`, `compPrices` | the listed table, table `spends`, the days with a price of COMP |
| `cache` | Redis: the response of a page, for an hour |
| `client[c]` | the request in progress and the pages of the walk so far |
| `version`, `clears`, and of a page `version`, `besides`, `clears`, `dates`, `ahead` | history variables: the inserts and deletions that its two queries have seen, how many rows each day had, and how many were listed before them |

A request is two queries (`ReadRows` with `ReadCount` or `ReadSpends`) between which the collectors may insert, then `Respond`. A
listing is any order of the rows that agrees with the dates (`Listings`), drawn anew for every page. The entries of a page carry
which row they were subtracted from (`Lag` in SQL over the whole table, `DifferenceOnPage` in the repository over the page), which
spends they were merged with, and the day their price is of (`FillPrices`). `StoreRow`, `StoreSpends` and `Clear` are the writers
of the other modules as far as a reader can tell them apart: a row of any day may come at any time, since two processes do not collect in step.

## 3. The runs

| Run | Question | Result |
|---|---|---|
| `server` | one process, cron and administrator, two sources (a market with reserves and statistics, a wallet), a fallback of more blocks than the chain mines in a day, reads, reverts, invalid values and prices failing twice, one clearing | `RowsAreNearTheirDay` (a row is off its midnight by the excess of the fallback for each day that failed before it, and no more), `CheckpointMovesBackToClear` hold |
| `crash` | crashes, failing writes and mails, slips on both sides of midnight, two clearings, a fallback that keeps pace | `OneJobPerHost`, `LedgerInv` (the inductive invariant), `RepeatsHaveACause` (a day has two rows only after an early block, a lost checkpoint or a lost DELETE), `CheckpointFollowsRow` hold, and the collection implements `DailyLedger` |
| `processes` | cron and `history:get` in two processes, with fairness, blocks before midnight, and a failure or crash | `NoSilentGap`, `FailedPriceIsRetried`; every lock is released; every day gets its row in the end or a failure took it |
| `search` | every chain of nine blocks with gaps of 1 or 3 s, three networks, one failing read | bounds that enclose the answer, the right block for an instant and for a creation, and termination except at a period end |
| `stats` | one process, blocks on either side of midnight, every failure of the loop and of the clearing, crashes, two clearings | `NoHole`, `IncomesAreNotRepeated` (except a day whose block was found before its midnight) hold |
| `slip` | is a day stored once when an early block is accepted? | **violated**: the next run starts from a block before midnight, so its first midnight is the day already stored |
| `mail` | is a day whose price failed retried, as the comment says, or given a price of $1, as the README says? | **violated** when the mail about it fails: the stop becomes a skip, and the day has no row at any price |
| `prices` | a lookup process and a reload process, days that pass, keys that expire, two failures or crashes | a price the provider gave for the day is kept after any one of them; one price per day and stable answers on undisturbed days |
| `periods` | does every search end? | **violated**: the Arbitrum walk stands still at the last block of a period |
| `capo` | one oracle, two days, alerts on two channels, Telegram with and without credentials, aggregations that overlap, one failure, stall or restart | an alert that counts as sent was delivered by every channel that is configured, and is not repeated within the cooldown; aggregates hold snapshots of their day, one row per day and never fewer snapshots than before, unless aggregations overlap; the lock is released unless an await never ends, and the last day is aggregated |
| `fill` | one command run again and again with two failures in a world that changes, or two commands at once | one source per contract and one asset per token unless commands overlap, and then no more copies than commands; a completed command has missed nothing; running it again fills the table after any failures |
| `pages` | a client walks four listings while rows are inserted, prices stored, tables cleared and pages cached | a walk misses no row that was there when it began; statistics have their spends; differences and prices come from the right neighbour |

The three violations are described in `PROJECT.json` under `findings`, with the
lines of code and documentation that disagree; that of `mail` contradicts both a comment and a line of the README.

**Bounds, and why they are enough.** A day is 3 ticks: a midnight and two other
instants, so that a start may lie on, after and just before a midnight. `MaxTime`
7 to 10 gives two or three midnights per source, enough for a day to be skipped
in the middle, for two consecutive runs and for a checkpoint to overtake
another. Two failures are what the known difficult cases need (a failed write
followed by a crash); a third in `stats` lets a failed clearing meet a failing
collection. `server` configures 4 blocks for a day of 3, so that each of its two failed days puts `lastBlock` a block
further ahead and the bound of `RowsAreNearTheirDay` is met with one and with two; the other runs, whose properties need
`FallbackKeepsPace`, configure 3. `stats` goes to `MaxTime` 9, two midnights and the first after them, with an `EarlySlip` of 1. Two jobs suffice for lock and overtaking, since both only involve
pairs; two sources are used where one source's failure could reach another. The search is
run with 2 probes on intervals of at most 3 blocks (the code: 25 on any interval), so that both
a search that converges and one that is cut short occur; `HeadBlock` 8 gives
room on both sides of an estimate, and two Arbitrum periods one boundary. The
precondition of `ResultStandsForTarget` (`IsSteady`: no block is further from the
configured pace than half the margin, in blocks) is met by searches of several
probes, and the conclusion does fail on chains that are not steady.
`prices` has three days and begins on the second, a provider that forgets all but yesterday and today, a window of one day around a missing
price and an age limit of two days: on the third day the first is forgotten and old, so that each fallback is taken, the nearest price after
a failure of the provider, and a day is looked up before and after the provider forgets it. Two failures let the second hit a lookup that the first has sent to a
fallback; a fetched price is inserted twice, so that only both together may lose it.
`capo` has one oracle, since oracles share only the loop, a day of two minutes so that a day has several
snapshots and the run a change of day, and a cooldown of two minutes so that an alert is met both
inside and after it. `Cases` splits the behaviours in three: several checks with one aggregation at a time, one check with a
Telegram that lacks its credentials, and two aggregations at a time while no check holds; alerts and aggregations share no
state but the snapshots.
`fill` has two entries of which one is a Comptroller, a market with the token of an entry, and three files of which two share one rewards
contract and one is of a network without a provider: every way in which one contract of a run may already have been met by the
same run, or by one that broke off. Two failures let the second hit the run that repairs the first. Two commands at once start from a complete world and without
failures: what they do to each other is in the overlap alone.
`pages` begins with three rows on two days and adds one (two for the statistics, whose tables begin with two), with pages of
two, so that a walk has two or three pages, a day lies across a page boundary, and a row may arrive before, between and after the pages. The incentives begin with the prices
of COMP missing or present for the second day, and with no spends, or with three of one source: on the first day one without a price and a later one with,
on the second one without, so that the 0 of a latest row of spends meets a price of its day in the table.
Deadlock is checked except for `BlockSearch`, whose calls end.

**Fairness.** `FairSpec` of ReserveSync assumes that time passes, that a running
job keeps taking steps and that the daily cron fires. The code justifies the second for requests to a node, which give up
after 30 seconds (`provider.factory.ts`); that price requests, queries and mails return is an assumption, since no timeout is set for them. It
does not assume that a person starts anything, and no failure is forced or forbidden. That a
search ends is assumed there; `BlockSearch` shows where it does not hold. Its own
`FairSpec` is weak fairness of the progress actions. That of CapoMonitor lets the crons fire, the
collection and each aggregation go on, and the clock run to its bound; the last minute stands for all
later ones, in which the aggregation keeps firing. `axios.post` of `telegram.service.ts:27`, the mails and the queries have no timeout: an await of
theirs that never ends is the fault `stall`, which no fairness resolves, and `LockIsFreed` says that nothing else keeps the lock. In SourceFill a running command goes on:
that its remote calls return is assumed, a command that hangs being one that somebody ends and runs again; and the cached list expires after its 30 minutes; that somebody runs the command again and again is a hypothesis of `RerunsFill`, not fairness.

## 4. What is proved

`ReserveSync_proofs`, for any jobs, hosts, sources, algorithms, slips below a day,
day lengths, and bounds:

* **`TypeCorrect`**: `Spec => []TypeOK`.
* **`LockIsExact`**: `Spec => []OneJobPerHost`. The lock is set exactly while one
  job of the host runs, whichever way jobs end.
* **`NothingLost`**: `Spec => []NoSilentGap`, assuming `ClearingIsAlone` and
  `FallbackKeepsPace`.
* **`LedgerIsKept`**: `Spec => []LedgerInv`, the strengthening below, under the same assumptions.
* **`RowsAreNear`**: `Spec => []RowsAreNearTheirDay`, without an assumption. Its invariant says of each loop how far it may be ahead of
  its target: by the excess of `blocksPerDay` for every day of the source that failed before. Such days are only ever added, so neither
  other processes nor deletions falsify it. Where `blocksPerDay` keeps pace the excess is 0 and each row is within the slips of its midnight.

`NoSilentGap` speaks of the table only, and is not inductive: a job may write
a checkpoint it has held in memory for hours. `LedgerInv` adds what every
job could still do (`JobInv`):

* `EntitiesSettled`: every block a job holds in memory claims settled days only,
  so that writing it back, even over a newer value (`UpToDate`), opens no gap;
* `LoopKeepsPace`: in the day loop every day before the target is settled, and
  `lastBlock` has not run past the target by more than `LateSlip`, so that the
  search for the next midnight lands on that midnight;
* `FoundIsSettled`: between `SaveRow` and `Commit` the day itself is settled, so
  that the checkpoint may move to the block found, and a crash in between leaves
  a row without a checkpoint, never the reverse;
* `PurgeClaimsNothing`: sources marked for the DELETE claim nothing, in the table
  and in memory, so that losing their rows opens no gap;
* `ClearingIsCounted`: a job that clears has used up one of the clearings.

Each action is shown to keep it. Most actions only add rows or given-up days and move
one job (`UnmovedKeeps`, `GrowsKeepsGaps`); the work is in `Commit`, `Rewind` and
`Purge`. The arithmetic of midnights (`FirstMidnight`, `NextMidnight`, ...) is
in `DailyGrid_proofs`.

The assumptions are about the deployment and are not vacuous:
`ClearingIsAlone` (no clearing, or a single process) because a job of another process may
write back a checkpoint it loaded before the clearing, over deleted rows; `FallbackKeepsPace`
(`blocksPerDay` no more than a day's blocks) because otherwise `lastBlock`
overtakes the next midnight. Neither is enforced by the code. `MaxClears = 0`
satisfies the first for any number of processes.

The others build on `LedgerInv`, under the two assumptions above unless said otherwise:

* **`CollectionKeepsLedger`**: `Spec => KeepsLedger`, the refinement of `DailyLedger`. `BoundInv` keeps every block in the
  state, in the table or in memory, within `MaxTime`, the last instant of the ledger. `SaveRow` is then a `Record`, a skipped day
  (and a failed price, where mails fail) a `GiveUp`, and `UpToDate` and `Commit` move the frontier over days that
  `LedgerInv` shows to be settled; `Rewind` is a `Restart`, or a `Narrow` when its write fails, and `Purge` a `Wipe`; all others leave the ledger alone.
* **`LedgerLeavesNoGap`**: `KeepsLedger => []NoSilentGap`, without an assumption. The abstract specification is strong enough to
  mean something: whatever keeps the promise of `DailyLedger`, by these jobs or by others, leaves no gap.
* **`CheckpointsFollowRows`**: `Spec => CheckpointFollowsRow`. The table alone does not show it, since a job writes from memory:
  `FollowInv` says that every block a job holds stands on a stored row or before the start, and so does what it has found.
* **`FailedPricesAreRetried`**: `Spec => []FailedPriceIsRetried`, assuming also that mails do not fail. It is `NoSilentGap`
  with nothing given up for a price, and that only midnights fail.
* **`CheckpointsGoForward`**: `Spec => CheckpointMovesBackToClear`, assuming `OneHost`. By `ForwardInv` a job that does not
  clear holds nothing older than the table and its loop only goes up from there. Two processes do break the property: one may commit a day
  that the other has passed.
* **`RepeatsAreExplained`**: `Spec => []RepeatsHaveACause`, assuming `OneHost` alone: crashes, failed writes, early blocks and any fallback are
  allowed, since they are the causes the property names. `OnceInv` says that rows lie behind the checkpoint, except that of the day in progress, those whose
  DELETE is to come, rows of early blocks and `uncommitted` ones (`RowsAreBehind`), that a job's memory is no older than that (`MemoryIsBehind`), and that a
  loop is past all other rows of its source (`LoopIsPastRows`). A second process does store a day twice without any of these causes.

`PriceCache_proofs`, for any callers, days, windows, history lengths and bounds:

* **`PriceTypes`**: `Spec => []TypeOK`; `quoted` holds prices only, so no miss is ever answered.
* **`OnePrice`**: `Spec => []OnePricePerDay`, with any number of lookups and reloads side by side.
* **`ExactPricesStay`**: `Spec => []ExactPricesAreKept`, for all days, however callers interleave. `ExactInv` counts: a price that is not stored is in
  hand and one thing has gone wrong, or two have (`Secured`), and a caller that holds a price hands it on to the table or fails (`HandsOver`).
* **`PricesAgree`**: `Spec => []PriceIsStable`, assuming `OneLooker`: two processes that look the same day up may
  each cache a different fallback before either is stored.

The invariant `PriceInv` says what a caller relies on between its steps (`CallInv`): the days of
a batch had no row when it was made, the day of a lookup that goes on to the provider had
none, a fresh price is the only one of its day until it is saved; and that the
cache holds only what is in the table or about to be (`CacheInv`). `OthersKeep` shows
that an insert breaks none of it for another caller, because it disturbs the
days it touches while that caller is at work; each action then has one lemma.

`CapoMonitor_proofs`, for any oracles, channels, aggregations at once, cases, cooldowns, day lengths and bounds:

* **`CapoTypes`**: `Spec => []TypeOK`.
* **`NoAlertIsHidden`**: `Spec => []SentIsDelivered`, of the channels that are configured. `JobInv` carries it: the alert in hand is no older
  than the last one sent, and was delivered, under the same stamp, by each configured channel it has passed, so
  that marking it sent at the end claims nothing more. An enabled Telegram without credentials is passed undelivered, and no more is claimed of it.
* **`DaysAreApart`**: `Spec => []AggregateIsOfItsDay`. `AggregationInv` says that what an aggregation
  counted is of its day; snapshots are only appended, so neither it nor a row is ever falsified by
  another step (`TakeSnapshotKeeps`), and a row that is replaced gets counted snapshots of its own day.
* **`OneRowEach`**: `Spec => []OneAggregatePerDay`, and **`RowsOnlyGrow`**: `Spec => AggregatesGrow`, an action property.
  An aggregation looks for its row in one query and stores it in another. `OverlapInv` says when that is safe: two aggregations at work on the
  same day have already marked it as one they overlapped on (`Apart`); otherwise the row that was found is still the row of the day, none
  appeared where none was found, and what was counted contains what the row holds (`CountedInv`).
* **`NoRepeats`**: `Spec => NotRepeated`, an action property. A channel delivers before the alert is marked, so the cooldown may look up a status that is
  older than the delivery. `CoolInv` closes the gap: unless an attempt failed on the way, the last delivery of a channel is the one that
  counts as sent or the alert in hand; `CollectionLocks` that there is only one in hand.

`StatsSync_proofs`, for any sources, creation blocks, dates, day lengths, failures, clearings and crashes:

* **`TypeCorrect`**: `Spec => []TypeOK`, for any number of collectors side by side.
* **`SpendsComeFirst`**: `Spec => []IncomesHaveTheirSpends`: until something is deleted, a row of incomes is never in the table without
  the row of spends of its day and block. It holds for any number of collectors, wherever they fail; `StoreRow` of HistoryPages relies on it.
* **`TablesHaveNoHole`**: `Spec => []NoHole`.
* **`IncomesOnce`**: `Spec => []IncomesAreNotRepeated`, assuming `OneCollector` alone. In its own invariant (`OnceInv`) no row of incomes of the source in
  progress has a block beyond `lastBlock`, and one whose day is still to come has a block mined before that day (`PastIncomes`); the last row of spends is never
  behind that of incomes (`SpendsAhead`), which is why a source that goes on from the earlier of the two goes on from that of incomes.

The last two assume `OneCollector`, since a second process would go on from the rows the first one is writing or has just deleted; `TablesHaveNoHole` also
`FallbackKeepsPace` as above and `SlipsAreApart`, that no block stands for two midnights. The code enforces none of them.

`NoHole` speaks of one table; what decides it is how the two are out of step when a job ends anywhere. `TablesInv` compares rows
of either table: from a row of one up to a row of the other, that day excluded, the first has no day missing, so that going on from
either leaves none behind. `SpendsAhead` says that spends reach as far as incomes unless they were deleted, which makes the earlier of
the last rows that of incomes (`GoesOnFromARow`, `LoopBegins`). Of a job in the loop, `LoopInv` says that both tables are
covered up to the target and that rows beyond it have only skipped days between (spends stored ahead by a job that
crashed); `AheadInv` that incomes are of days before it; `FoundInv` that between the inserts the row of spends is there or
all are gone (a TRUNCATE that outlived its job); `DatedInv` that a start that was asked for follows a complete deletion.

`BlockSearch_proofs`, for any chain whose timestamps do not decrease, any networks, periods, margins, probes and failures:

* **`SearchTypes`**: `Spec => []TypeOK`; no block beyond the chain is ever read.
* **`ProbesKeepBounds`**: `Spec => []ProbesAreSound`.
* **`CreationBlockIsRight`**: `Spec => []CreationIsFound`.
* **`SearchNeverMovesBack`**: `Spec => []ResultInRange`.
* **`BlockOfInstant`**: `Spec => []ResultStandsForTarget`.
* **`SearchesFitTheGrid`**: `Spec => []FindsOnTheGrid`, assuming that the slips of the grid are at least the slip of the search less one. Where
  `ResultStandsForTarget` promises a block and the chain mines one within the slips of the target, its timestamp is one of the `FoundBlocks` of
  DailyGrid: the justification of the one step that ReserveSync and StatsSync make of a search, and of blocks named by their timestamps.

`SearchInv` has one part per search. `CreationInv`: the creation block stays between the bounds of the bisection. `BinaryInv`: every block
below `left` is too early and, once it has moved, the one at `right` is late enough; and the block looked for was
enclosed at the start. That last fact is the hard one: on a steady chain the error of the corrected estimate is at most half the
margin, so that the narrow range of `contract.service.ts` encloses the answer (`EstimateEncloses`). `WalkInv` and `ScrollInv` keep the other two within the
chain. `DoublingAssumption` states what the prover does not know of powers of two, `2^(n+1) = 2 * 2^n` up to the number of probes; TLC
evaluates it in every run of the module.

`SourceFill_proofs`, for any commands (finitely many), lists, tokens, faults and bounds:

* **`FillTypes`**: `Spec => []TypeOK`.
* **`OneSourceEach`**: `Spec => []SourcesAreUnique`, **`OneAssetEach`**: `Spec => []AssetsAreUnique`.
* **`AssetComesFirst`**: `Spec => []SourceHasItsAsset`: a source never refers to an asset that is not there.
* **`OneSourcePerCommand`**: `Spec => []RepeatsAreBounded`.
* **`CompletedIsComplete`**: `Spec => CompletedFillMissesNothing`, an action property.

`FillInv` says of a running command (`JobInv`) where it is in its loops and what it has in hand (`InPlace`, `AssetInHand`),
and that everything it has passed has a source or is among its failures (`Accounts`): the completeness of a finished command is the
case in which everything is passed. `Alone` says that while commands have not overlapped, what the only running one
did not find in its list, and has not inserted itself, is not in the table either. For overlapping commands `RepeatsInv` counts: the copies of a contract and
the commands that may still insert one (`Inserters`) are together no more than the commands, since a command enters
that set only while the contract has no source, and leaves it by inserting.

`HistoryPages_proofs`, for any clients, endpoints, sources, days, page sizes, inserts and deletions:

* **`TypeCorrect`**: `Spec => []TypeOK`.
* **`WalksAreComplete`**: `Spec => []WalkMissesNothing`.
* **`StatisticsAreMatched`**: `Spec => []StatsHaveTheirSpends`.
* **`RevenueIsTheDifference`**: `Spec => RevenueAgreesInsideAPage`, and **`PricesAreTheNearest`**: `Spec => PricesComeFromNeighbours`.

The differences and the prices of a page are computed from entry to entry, and the prover has no induction. What stands in
for it is the least counterexample: `LeastNat` gives a set of numbers its least element, so that what holds at a
place when it holds at all places before it, holds everywhere. A walk takes more. The pages are cut out of listings that agree
on the order of days only, so a proof cannot follow a row; it follows numbers. The rows of a day fill the places behind all rows that the
order puts before them (`ahead`, `dates`), whatever the listing, so a page read at an offset shows of each day exactly the places in its window
(`Sees`). `WalkInv` is `PagesInv` (no page, cached or in a client's hand, has seen more than the tables hold, and of two pages between the same deletions
the later saw no fewer rows of any day, nor fewer before it), `Progress` (what the two queries of a request under way have read agrees) and `Covered`:
the pages so far show of each day at least as many rows as the first page's listing had of it, or as many of them as the offset has passed.
Rows that were inserted since only push the others to places the walk has yet to come to.

**Only model-checked** is liveness (`LockIsReleased`, `CatchesUp`, `EndsUnlessStuck`, `LockIsFreed`, `LastDayIsAggregated`,
`RerunsFill`), which is beyond the prover. Every invariant and action property that a passing run checks is a theorem.

## 5. What is not modelled, and why

* `updatePriceCompForStats` (`history-get.service.ts:218-285`): it fills the column `priceComp` of rows that exist and have none, under the same lock. It neither adds nor
  moves a row, and a run that fails leaves rows for the next one.
* In the collectors prices are a success or a failure and the values of rows are left out: no property of
  the collection depends on them. `PriceCache` has the detail of a price.
* Algorithms: pure fixed-point and floating-point arithmetic, which TLC does not have.
* Reorganisations: the code treats every block as final.
* A drift between configured block time and chain is in `BlockSearch` only; in the
  collectors it shows as slip.
* CRUD endpoints, bootstrap, guards, the Google sheet of runway, serialisation:
  no protocol.
* Discovery of oracles (`discovery.service.ts`), the values of snapshots and aggregates, and the API that reads them.
* `SourceService.create` and `update`, `AssetService.create`, and some methods of the price service: nothing calls them.
* In the read side: amounts, the selection of sources by algorithm, and the unpaged queries of treasury holdings and runway.

**Where the collection is only right under an assumption.** `blocksPerDay` of several networks is above their real pace (mainnet 7200, polygon 43200), so `FallbackKeepsPace`
fails for them. `RowsAreNear` then bounds how far rows are off their midnight, a block of excess per failed day; enough failed days in one run of the loop add up to more than a day, and
`NoSilentGap` is lost (with 5 blocks for a day of 3, two failed days do it). The same holds of the two tables of the statistics.

Observed while reading, not turned into runs: an enabled Telegram without `botToken` or `chatId` returns without an error (`telegram.service.ts:19-22`), the alert counts as sent, and the cooldown
silences it; an answer of Telegram that never comes keeps `isCollecting` set until the server is restarted, and with it the collection stands still; an approximated price is stored although the comment of `price.service.ts:100` says
that only prices of external providers are; the latest unpriced row of spends holds 0, where `COALESCE` of `reserves-repository.service.ts:313` stops, so that the day takes a neighbour's price although the table
has its own; a crawled market lists the
algorithms `comptroller` and `market_v2` (`source-fill.command.ts:74-76`), which share one checkpoint
(`contract.service.ts:598-615`), so the first one's rows leave nothing for `totalReserves()`, which the README says
markets are read by; a snapshot that is taken after the last aggregation of its day never enters
a row, because the next aggregation is of the next day; `getSourceBlockNumber` returns promises
without awaiting them inside its `try` (215, 218), so its fallback to
`source.blockNumber` covers only failures of the calls it awaits; a Scroll search that finds no late block returns
`fromBlock` as if it were one; the walk over Arbitrum periods may overshoot its
target and return the block it stands on; alerts are said to be repeated "once per
hour" (`alert.service.ts:14`) while the constant on that line is one minute;
`price.repository.ts` uses `orIgnore` on a table without a unique key, so a fetched price is inserted twice (203,
then 102); `findNearestPrice` looks for cached prices under the coin's name, under which none is
stored; `admin.controller.ts:31` says that existing data is cleared before the collection, while a source that is
already at the requested block is left out of the DELETE (`history-get.service.ts:79-85`, 164-165); line 49 says so of the statistics,
whose two deletes run in parallel, so that one may fail and the collection not start while the other table has been emptied
(`history-get.service.ts:194`); a forced reload of prices skips the days that have a row (`price.service.ts:252-267`), so an approximation stored for a day is
not replaced; a first page asked for with `offset=0` is refused (`@Min(1)`), and must be asked for without one; the incentives answer
an empty page with a total of 0; the first row of a source on a page of revenue shows its stored value instead of a difference.

## 6. Plan

Done: all modules of section 2, the refinement of `DailyLedger`, and the theorems of section 4. What is left:

1. Abstract specifications of other components and their refinement: the two tables of the statistics as their readers see them
   (spends, then incomes, or both gone), the price of a day as a value that is set once, a notification as sent once per window.
2. `updatePriceCompForStats` beside `saveStats`, and the discovery of oracles beside the collection of snapshots.

`CheckpointFollowsRow` does need `ClearingIsAlone`: without it a job writes back, in `UpToDate`, a checkpoint it loaded before another process
cleared the rows under it.
