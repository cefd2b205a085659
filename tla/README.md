# Verification of data-scrapping

data-scrapping collects daily prices, split history, macro series and news into
`data/market.db`, keeps its bookkeeping in `data/state/*.json`, and publishes a
copy of the database, `market_snapshot.db`, with a verdict (`complete`,
`partial`, `failed`) that other programs rely on. This directory holds TLA+
models of it, the TLC runs that check them, and proofs that TLAPS checks.
Paths are relative to the repository (`src/` is the Python package).

## The system

| Part | State it keeps | Operations | Talks to |
|---|---|---|---|
| Credit accounting (`rate_limit.py`, `twelve_data.py`, `config.py`) | per key: `date`, `calls_used_today`, `disabled_reason`; per run: `RunCreditCap.used` | request loop, retries, charging, usage sync, key rotation | provider, state document |
| Collection loops (`main.py`) | position in the core, split and rotation loops; `Run.handled` | `collect_core_symbol`, `refresh_split_events`, `collect_rotation_symbol`, save every 5 symbols and at the end | credit accounting, storage, state document |
| State document (`state.py`, `scheduling.py`) | per symbol: `core_session`, `last_success_date`, `splits_checked_at`, `splits_stale`, backoff; `pipeline_run` | success, failure, skip, rotation order, atomic save | everything |
| Storage (`storage.py`) | `ohlcv`, `corporate_actions`, ... in DuckDB | one transaction per symbol | |
| Snapshot (`snapshot.py`) | `collection_runs`, `market_snapshot.db` | judge completion, record it, copy, verify, `os.replace` | state document, universe, storage |
| Universe (`universe.py`, `catalog.py`) | `universe.json`, `symbols.txt`, S&P 500 cache | weekly refresh, former core, delisting | provider (free calls) |
| Locks (`lock.py`, `lib_env.sh`) | `flock` on `pipeline.lock`; legacy pid file | acquire, release, probe | all writers |
| Daily pipeline (`run_daily.sh`, systemd) | stage, exit codes | universe, core, FRED, snapshot, rotation, news, indicators, ... | all |
| News (`finnhub_news.py`) | per symbol cursor | windows, resumption | |
| Macro (`fred.py`) | per series success time | collect all series | |
| Indicators (`indicators.py`) | update times | find stale symbols, recompute | storage |
| Rebuild (`rebuild.py`) | backups, maintenance record | build, verify, replace, prune | storage |
| Data rules, validation, summary, Discord, progress, export, backup, legacy provider | reports, or nothing | | |

What makes it hard: a run is a long sequence of paid calls whose answers may be
lost after they were billed; the process may be killed between a database
commit and the save of the marks that describe it; UTC midnight, the close of a
session and a stock split may each fall anywhere; and completion is judged from
marks in one file while the copy is made of another. `PROJECT.json` lists the
hazards at their lines.

What makes each part correct:

- credits: never count less than the provider bills, keep the run cap and the
  daily reserve, always come back from a call;
- collection: the marks tell the truth about the rows, whatever is killed,
  interrupted, late or repeated; no bar of an unfinished session is stored;
- snapshot: readers see whole copies only, and `complete` means complete;
- locks: one writer, and no refusal without one;
- universe, news, rebuild: a crash between two writes loses nothing for good.

## Modules

| Module | Models |
|---|---|
| `CreditBudget` | the credit accounting, as used by `src.main` and `src.universe` |
| `MCCreditBudget` | the instance that TLC checks (three configurations) |
| `SnapshotContract` | the abstract specification: what readers of `market_snapshot.db` are promised |
| `CoreCollection` | core, split and rotation loops, state document, completion and publication; implements `SnapshotContract` |
| `PipelineTurns` | the abstract specification of the pipeline lock: the writers of `data/` take turns |
| `AtomicFile` | `atomic_io.py` and `discord_status.py`: several processes write one file through one temporary name |
| `DailyPipeline` | the pipeline lock, `run_daily.sh`, its status monitor, `rclone_backup.sh`, CLIs started by hand, the probe; composed with `AtomicFile`, implements `PipelineTurns` |
| `DatabaseRebuild` | `rebuild.py`, the writers of `market.db` and its backups |
| `PriceRows` | the rows of one symbol: collection, legacy provider, data rules, cleanup, indicators |
| `NewsWindow` | `finnhub_news.py` for one symbol |
| `UniverseRefresh` | `universe.py`, `fetch_tickers.py` and the three files they write |
| `...Proofs` | the theorems about the module of that name; `CoreContractProofs` proves the refinement |

Why they can be separate: the pipeline lock. `OneWriter` (checked, and proved for
any number of processes) says that at most one owner works on `data/`, so the
other modules have one running process at a time, and its environment is what
happens outside the machine or to the process itself.

### CreditBudget

`bucket` and `active` are the `KeySlot`s, `capUsed` is `RunCreditCap.used`, `disk`
is `state.json`, `billed` is the provider's own count. `req` is one call of
`request()`: `PickKey` and `NothingCanPay` are the top of its `while True`,
`AttemptLost` and `RequestLost` are `_get`, the `Answer...` actions are the
branches after `classify_error`. `Sync...` actions are `sync_usage`. The loops of
`main.py` appear as the calls they make (`need`), their saves, and the ways they
end. `src.universe` is the `catalog` phase: free calls, no cap, nothing saved.
Midnight, use of a key from elsewhere, SIGKILL (`Crash`) and Ctrl-C
(`Interrupt`, which still runs the `finally` block) come from the environment. A key
is used from elsewhere only while no run of ours is active (`ExternalUse`). That is an
assumption: the provider allows it at any moment, and what is used so during a run is
seen by the next sync only, so `VerifiedKeyCovered` and `MidnightUndercountBound` say
nothing about it.

### CoreCollection

Three stores are kept apart, since the code writes them at different moments:
`db` (one transaction per symbol), `mem` (the entries of the running process)
and `disk` (`state.json`). Between `CoreCommit` and `CoreRecord` a process may die;
between `CoreRecord` and the save made by `Tick` as well. A symbol's rows are
reduced to what completion is about: the last bar, whether it has an
`adj_close`, whether the history is rescaled for the symbol's split, and whether
`corporate_actions` has that split. `SeesSplit` is `split_events`: a change of the
ratio can be seen only when the effective session's bar is among the stored
rows and in the raw response. `Latest` is what the provider answers: at most
`MaxLag` sessions late, or with today's unfinished bar, which `BarsUntil` drops.

History variables record what the code cannot know. `unsaved` and `moved`:
symbols whose last commit `state.json` does not describe yet. `barsLost`: symbols
whose rows were replaced behind `core_session`, by a lost commit or by the
rotation. `splitsLost`: symbols whose change of basis was consumed without an
event. The invariants below exclude exactly these symbols, and two of the
violation runs show that the exclusion is needed.

### SnapshotContract

Three variables: the published copy, the copy that is recorded and not
published yet, and the symbols that are excused. A copy is offered, then
published in one step or withdrawn by a crash; a complete one may be wrong about
excused symbols only.

### AtomicFile and DailyPipeline

`AtomicFile` is one file, its `.tmp`, and for each writer where it is and where its
open handle leads: a rename by one writer takes the handle of the other along.
A text is only `whole`, `empty` or `mixed` (the end of a longer text behind a
shorter one). Two writers meet (`Sharing`) when both have the `.tmp` file open. The writers are `discord_status.py` processes: `Load` is `_load`, then
the post to Discord, then `Open`, `Fill`, `Swap`, which are `atomic_write_bytes`.

`DailyPipeline` has for each owner (a script or a CLI) its own process (`at`), for a
script its stage, the running child, and the monitor. A flock belongs to the
open file: `Inherited` says which processes have descriptor 9, and `Freed` drops the
lock when the last one exits. `Acquire`/`NameHolder` are `acquire_pipeline_lock`,
`CliAcquire`/`CliEnds` are `PipelineLock`, `Probe` is `pipeline_running`. `BeginStage` is
`start_status_monitor` and `run_stage` up to its command, `EndStage` the end of the
command and `stop_status_monitor`, which kills the loop and leaves its last command
(a refresh, or `sleep`) running: `late`. `met` is history: an update and a refresh shared the temporary file, and
since then a writer is under way or the file is broken. `KillScript` is a SIGKILL of the shell alone,
whose children live on; `KillTree` is systemd stopping the unit.

### PipelineTurns

What the lock is for, without files and descriptors: whose turn it is, and the
processes of the turn. A turn begins with one process, when nothing of an earlier
turn is left, has processes of one owner only, and ends in the same step as the last
of them. `TakeTurns` says that `DailyPipeline` does that: `holder` is `lock`, and
`live` is `Processes`, read off the shells, stages, monitors and status processes and
not off the lock. (Whose update is running is not recorded; it counts for the
holder, and for nobody, which no turn allows, when the lock is free.)

### DatabaseRebuild

A database file is its last commit, its schema version and its size. A backup
is a name for a file; while it is in `linked` it is the same file as `market.db`, and
`Following` lets it change with every write, until `os.replace` (`Replace`) gives
`market.db` a file of its own. `wal` is `market.db.wal`: a killed writer leaves its commit
there, and `FoldLog` (opening and `CHECKPOINT`) puts it into the file. The steps of
`rebuild_database` are actions (`OpenSource`, `Build`, `Verify`, `Link`, `Replace`, `Prune`,
`RecordRebuild`), each with its failure (`SyncFails` is that of the directory after the
swap: nothing is pruned or recorded), and `Kill` may fall between any two. Backup
names are (day, time), with time 0 for the bare date, ordered like the strings.
`Copies` allows a wrong copy, so that `Verify` has something to find.

### PriceRows

`rows` maps days to bars, and a price is reduced to its split basis: how many of the
symbol's splits its provider had applied (-1 for the unadjusted prices of the
legacy provider). `CoreFirstCall` and `CoreReplace` are the two calls of a core symbol,
with anything from outside in between; `RotationReplace` and `AvUpsert` have one.
`Filter`, `Patches`, `AdjDerivable` and `PatchBar` are `DataRules`. `ind[d]` says whether the
indicator row was calculated from the rows as they are, which the code cannot
see: it has `written > indAt`, update times of one second, in `Stale`.

### NewsWindow

The provider returns the newest articles of a range, at most some number that is
not below the threshold by which the code recognises a truncated page; the
number is chosen anew for every answer. `Begin` chooses a window, `Resume` replaces
it by a saved one, `Page` is one round of the loop with its commit, `Persist` the save
of the state file. The end of a window is any day, also one ahead of today, as
`--to-date` is. `since` and `base` are history: from which day on the finished
windows follow each other, given that `--max-days-back` and `--from-date` may ask for
a gap, and `early` the days that were walked before they were over (they lay before
the end of a window that reaches ahead of today) and not asked for again since. The
promise of the code, "last_to advances only after a window is fully
covered, so no dates are skipped", is stated for the days from `since` on that are neither `early` nor crowded.

### UniverseRefresh

`cache`, `list` and `uni` are the S&P 500 file, `symbols.txt` and `universe.json`. `Fetch`
computes everything, as the code does; `WriteCache`, `WriteList` and `SaveUniverse` write
the files one by one, with `Kill` in between. The answers of the provider may be cut
short, down to nothing; an empty list is written like any other, by `WriteList` and by
`FetchTickers`. Readers (`Members`, `Rotation`,
`AllSymbols`) put the universe together from whatever is there, the cached history
included while `universe.json` has no members. `served` records which members a
collection ever treated as core, `promised` the recent removals of the first refresh,
`dropped` what a first refresh knew when it was killed after the cache.

## Runs

| Run | Expects | Shows |
|---|---|---|
| `credit_budget` | pass | types; `CapOvershootBound`, `ChargesCoverBilling`, `VerifiedKeyCovered`, `SyncedRunPaysVerified`, `MidnightUndercountBound`; `RequestAdvances`; `PaidRequestReturns` under fairness |
| `credit_catalog` | violation | a free call answered with the daily limit never returns |
| `credit_skip` | violation | a key the sync skipped is used after midnight, unverified |
| `core_collection` | pass | types; `CompleteHasBars`, `CompleteHasSplits`, `NoUnfinishedBar`, `CleanRunLeavesNoGap`; `StaleSurvives`; `ContractHolds` (refinement) |
| `core_offhours` | violation | a run during the session of a split publishes a complete copy without the split |
| `core_killed` | violation | a kill between commit and save publishes a complete copy without the split |
| `daily_pipeline` | pass | types; `OneWriter`, `HolderNamed`, `StatusWhole`; `TakeTurns` (refinement); `LockComesFree` under fairness |
| `rebuild` | pass | types; `NothingLost`, `ReplacedFileKept`, `LinkOnlyByKill`; `NoNeedlessRebuild` |
| `rebuild_pruned` | violation | the fourth rebuild of a day prunes the backup it has just made |
| `price_rows` | pass | types; `IndicatorsCurrent`, `RulesKept`, `OneBasis`, `PatchesInside` |
| `news_window` | pass | types; `NoDateSkipped`, `WalkedPartStored`; `WindowWalksOn`; `WindowsFinish` under fairness |
| `universe` | pass | types; `FormerKept`; `RotationListed`; `ListComesBack` under fairness |

What the properties exclude is part of what they say, because it is where the
code gives less than one might think. Each exclusion is a history variable or
a condition named in the property. The only assumptions that are guards of
actions instead are about the provider and those who use it: `ExternalUse`, above, and
that an article carries the date on which it appears (`Publish`).

- `ChargesCoverBilling` (`crashed`): a kill loses the charges since the last save.
- `StatusWhole` (`met`): an update and a refresh that outlived its monitor have the
  `.tmp` file open together; see below.
- `LockComesFree` (`sigkilled`): a monitor whose `run_daily.sh` was killed with SIGKILL
  loops on and keeps the lock, although `lock.py` says that a killed run never
  leaves a stale lock behind. (Under systemd the whole unit is killed.)
- `ReplacedFileKept` (`reused`): the finding of `rebuild_pruned`.
- `LinkOnlyByKill` (`kills`): a kill between link and swap leaves a backup that later
  writes change.
- `NoNeedlessRebuild` (`unrecorded`): a rebuild killed before its record.
- `IndicatorsCurrent` (`tie`): an upsert within the second of the calculation.
- `OneBasis` (`mixed`, `torn`): the legacy provider's raw prices, and a split between the
  two calls of a core symbol, until the next fetch.
- `PatchesInside` (`cleaned`): a cleanup may remove the rows around a patch.
- `NoDateSkipped`, `WalkedPartStored` (`Crowded`, `early`): a day with more articles than one
  answer holds, and a day that a `--to-date` ahead of it made the walk pass before it was
  over; see below.
- `FormerKept` (`dropped`, `halfDone`): a first refresh killed after it wrote the cache.
- `RotationListed` (`run.boot`): the first refresh does not compare the bootstrapped
  former members with the catalog; the next one does.

Two of these exclusions are disagreements with the text of the repository, which
TLC shows when the exclusion is dropped (no run of their own):

- `src/src/atomic_io.py:4` says "Readers see either the old file or the new one, never a
  partial write". `stop_status_monitor` kills the loop and not the refresh it is running,
  and all writers use one temporary name. A refresh opens the `.tmp` file, its monitor is
  stopped, the update behind the stage opens and truncates the same file, and the
  rename of one of them puts the other's half-written file in place:
  `discord_status.json` is empty, until the other has filled it. When their texts
  differ in length, what is left may be mixed, and then every later `discord_status`
  process fails in `_load`.
- `src/src/finnhub_news.py` promises that "no dates are skipped", because `last_to`
  advances only after a window is covered. `run` (line 262) takes a `--to-date` ahead of
  today. On day 1 a window that ends on day 4 is walked and finished, with `last_to` 4;
  the run of day 4 starts at day 3, one before `last_to`, and what appeared on day 2 is
  never asked for. An unfinished window of that kind leaves the days behind its cursor
  in the same way.

Bounds. `credit_budget` has two keys (rotation from one to the other), a daily
limit of 3 with a reserve of 1 and a cap of 2, so that keys, reserve and cap all
run out; two attempts per call and two per usage sync, one retry, a save every two
symbols, two UTC days, one run id that any number of invocations resume. Two
network attempts are the smallest number with which the slack terms of
`CapOvershootBound` and `MidnightUndercountBound` matter. A second run id starts
from an empty cap, a smaller case of the first; the proofs cover any number.
`core_collection` has two symbols and saves
every second one, so that a symbol can be recorded and unsaved while the next is
committed; symbol 2 splits and moves between core and rotation; two sessions
and two UTC days make a stale mark, a late bar and a run across midnight
possible; one kill or interrupt, since the invariants speak of what one lost
process leaves behind, and the proofs cover any number. Runs themselves are not
bounded. Symbols are not symmetric: the loops go through them in order.

`daily_pipeline` has one owner of each kind and one viewer, which meet in every
order, two stages of which the first is monitored (a stage after a monitored one
is where a late refresh bites), and unboundedly many starts and kills. `rebuild` has
four commits, a factor of two and four sizes (a file can grow past the factor and
shrink again), two days of two seconds (bare, stamped and colliding names; more
than the two backups that are kept) and one kill; `rebuild_pruned` four seconds of one
day, one for each rebuild. `price_rows` has four days: before, at and after
the patch and its reference day; a start and a closure that reject days around
it; one split, two seconds. `news_window` has pages of two articles, two requests
per run and days of up to three articles, so that windows are truncated, saved and
resumed and a day can be crowded while another has an article; four days let windows
overlap, leave gaps and reach far enough ahead to pass a day for good; four articles
in all, one fault. `universe` has two symbols, two index compositions, two days
with a maximum age of one, a catalog of at least one symbol, one killed refresh and
any number of lost lists. A member can leave and not return with two compositions:
returns, and kills of several refreshes, are covered by `FormerKeptAlways` alone.

The violation runs use only the events their counterexample needs:
`core_offhours` and `core_killed` have one symbol, the first no kill and no late
response, the second no run while a session with a split is open; `rebuild_pruned`
has one commit and no kill.

Fairness. `CreditBudget`: weak fairness of `RequestStep` only: inside `request()`
the process runs on, and `http_get` returns or times out. Nothing is assumed
about which answer comes, nor that processes start or survive;
`PaidRequestReturns` counts a killed process as returned. `DailyPipeline`: processes
that run come to their end (stages, CLIs, status posts with their timeout of 15
seconds, `sleep`); strong fairness where a status update may hold the script up again
and again, because it makes finitely many between two stages. Nothing is assumed
about starts and kills. `NewsWindow`: `run_daily.sh` starts a run for today again and
again, and a run goes on unless it is killed. `UniverseRefresh`: the daily start of
`src.universe` happens although other programs run in between (strong fairness),
and a refresh goes on; the provider may answer with an empty NASDAQ list, but not
for ever while symbols are listed (`FetchListed`). `CoreCollection`,
`DatabaseRebuild` and `PriceRows` have no liveness property: with answers that may
fail for ever, nothing has to complete.

Findings are described in `PROJECT.json` with the lines that state the contrary.

## Proofs

All theorems hold for every value of the constants that the modules' `ASSUME`s
allow: any number of keys, symbols, processes, stages, backups, days or articles,
any limits, intervals, page sizes, and any number of kills. The bounds of the
runs (`MaxDay`, `MaxKills`, ...) are constants like the others.

`CreditBudgetProofs`
- `TypeCorrect`: `TypeOK`, from `TypeInv` (it adds which parts of a request are set at
  which place).
- `CapBounded`: `CapOvershootBound`. A call begins only below the cap (`CapAllows` for
  its cost of at most one) and charges at most its attempts; `CapInv` relates the
  cap to the attempts made so far and bounds what is saved.
- `BillingCovered`: `ChargesCoverBilling`. `BillInv` says that each credit billed is
  charged or among the uncertain attempts of the call in progress, and that a
  resumed run id starts with at least what was billed unless one of its
  processes was killed.
- `VerifiedCovered`: `VerifiedKeyCovered`. `WaitGap` is the heart: a step of a call never
  widens the gap between what a key was billed and what is counted for it, its
  uncertain attempts included. `DayInv` (buckets are of the day of the start until
  midnight, in a sync also afterwards) shows that a refresh of the day changes
  nothing before midnight, `ReportInv` that a report is current when it is adopted.
- `SyncedPaysVerified`: `SyncedRunPaysVerified`. `PayInv`: behind the slot of the sync a
  key in use is verified or `Unpaid`, and budget and cap only shrink within a run.
- `MidnightBounded`: `MidnightUndercountBound`. `LateInv` follows a run past midnight:
  `LateSync` counts what the slot in progress can have been billed, call by call and
  round by round, up to `SyncCalls`; `LateRun` covers the one call under way until the
  next look for a key refreshes its bucket.
- `PaidRequestAdvances`: `RequestAdvances`. While the date stays, every step of a paid call
  takes a key from those that can still pay, a retry, an attempt of its round, or
  brings the key into the new day (`Advance`), and gives none of the first two back.
  Keys, retries and attempts are finite, so no sequence of answers keeps a call
  going. `PayerInv` is what this needs: the key in use is one of those that could
  pay when it was picked, so that losing it leaves fewer. The daily limit disables
  it, the per-minute limit counts a retry, a lost answer charges an attempt.

`CoreCollectionProofs`. The properties are not inductive: what a complete copy
holds depends on what state.json said, and that on what memory said when it was
saved. `IInv` is the chain:
- `DiskBars`, `MemBars`: `core_session` of state.json (of memory) tells the last bar
  of every symbol that is not lost, not unsaved (not being committed);
- `FoundHeld`: what `collect_core_symbol` returned still describes the rows when it
  is recorded;
- `DiskSplits`, `MemSplits`, `SplitsHeld`: likewise for the split marks, and
  `RescaledKnown`, `WithRows` (a symbol with marks has rows), without which the
  first collection of a symbol could look like an unchanged basis;
- `StaleKept`: a mark that memory dropped was dropped by a split refresh;
- `CleanSoFar`: what has left the loops of a run without failures is done;
- `Clocks`, `Quiet`: days and sessions count from one; between runs and while a
  snapshot is made everything is saved.

`OtherSteps`, `MemWritten`, `DiskWritten`, `RowsWritten` classify the steps once, so
that each conjunct is proved against a few kinds of step. From `IInv`:
`TypeCorrect`, `BarsComplete` (`CompleteHasBars`), `SplitHistoryComplete`
(`CompleteHasSplits`), `FinishedBarsOnly` (`NoUnfinishedBar`), `CleanRunComplete`
(`CleanRunLeavesNoGap`), `StaleMarkSurvives` (`StaleSurvives`, an action property).

`CoreContractProofs`: `ImplementsContract`, the refinement of `SnapshotContract`.
`SnapshotRecord` maps to `Offer`, `SnapshotPublish` to `Publish`, a kill while the copy
is made to `Withdraw`, everything else to `Collect` or a stutter. `CopyStands` is the
delicate part: a split that takes effect while the copy is made does not change
what the copy is worth, because no stored row is rescaled for it yet.

`DailyPipelineProofs`. `Inv` says why one writer is enough: `Held` (whoever does
something, the shell, the CLI, the stage or the monitor that inherited the
descriptor, has the lock), `Named` (the pid in the file is the holder's from its first
stage on), `Beside` (the loop runs beside a stage, or after its script was killed),
`Status` (status processes belong to the run with the lock, and an update never runs
beside the loop), and `File`: as long as the two have not met, each writer is `Alone`
with the temporary file, and the file is whole again once a meeting is over (`Closed`). From it: `PipelineTypeCorrect`, `OneWriterAlways`, `HolderNamedAlways`,
`StatusWholeAlways`.

`TakeTurnsAlways` is the refinement of `PipelineTurns`. `Inv` gives that all processes are
the holder's (`OfHolder`); that there is one as long as there is a holder needs
`Lives`, since `Inv` would also hold of a lock that nobody gives back. `LivesWhenOneEnds`
is the heart: whichever process ends or is killed, `Freed` keeps the lock only for
one that still has the descriptor. `LockSteps` then leaves three kinds of step:
the lock is granted while free, goes to nobody, or stays. `OrphansOnlyEndAlways` adds what
happens after a SIGKILL of a script: without a monitor that loops on, no process of
the turn starts another (TLC checked the formula on the instance of `daily_pipeline`
before it was proved; no run of its own).

`DatabaseRebuildProofs`. `Underway` is what holds between two steps of a rebuild: the
log is folded in, the verified copy equals `market.db`, the backup is linked until the
swap and the newest name afterwards (unless `reused`); `Settled` is what remains when
it is over. `RebuildTypeCorrect`, `NothingLostAlways`, `ReplacedFileKeptAlways`,
`LinkOnlyByKillAlways`, `NoNeedlessRebuildAlways`. Pruning needs cardinalities of finite
sets: a name with none newer is among the newest for any number kept.

`PriceRowsProofs`. The four properties are inductive together with `Between` (the first
answer of a core symbol keeps to the rules until it is stored, and no indicator is
from the future). `GoodRows` is what both full replacements write, proved once.
`RowsTypeCorrect`, `IndicatorsCurrentAlways`, `RulesKeptAlways`, `OneBasisAlways`,
`PatchesInsideAlways`.

`NewsWindowProofs`. `WholeAfterOldest` and the lemmas around it say what a truncated
page proves about the days behind its oldest article, by counting; `GoodEntry` is the
invariant of an entry, saved or in memory, and `Walking` that of the window being
walked. Publication only adds articles to today. `Covered` says of every day inside a
finished or walked part, unless it is crowded or `early`, that it is over and stored:
with that, nothing more can appear on it, wherever the window ends. `NewsTypeCorrect`, `NoDateSkippedAlways`, `WalkedPartStoredAlways`.
`WindowsWalkOn` proves `WindowWalksOn`: `NextCursorBelow` says that `next_cursor` goes strictly
down, also on a crowded day, and `Follows` that a run walks the window of the file from
`Resume` on and has, when it is done, a `Successor` of it: the same window, less of it,
or `last_to` at its end. Only `Persist` writes the file.

`UniverseRefreshProofs`. `Kept` is `FormerKept` as the readers see it; it holds at every
moment at which no new cache stands in for a `universe.json` that is not there yet
(`KeptHere`, `CacheAlone`), and `Carried` is what a refresh carries from its computation
to its last file. `UniverseTypeCorrect`, `FormerKeptAlways`, `RotationListedAlways`.

Only model-checked: the liveness properties `PaidRequestReturns`, `LockComesFree`,
`WindowsFinish` and `ListComesBack`, since liveness under fairness is out of the
prover's reach. What makes them true apart from fairness is proved: a paid call and a
saved window only move towards their end (`RequestAdvances`, `WindowWalksOn`), and an
orphaned turn only loses processes and the lock goes with the last
(`OrphansOnlyEnd`, `TakeTurns`). That the steps are taken is TLC's part. Every invariant and action property of the passing runs, and both refinements,
are proved.

## Not modelled

- `export_dataset.py`: SQL from a finished snapshot into new files, in one pass.
- `fred.py`: every run fetches every series whole and upserts it; how late a series
  may be for a copy to be complete is a free choice in `CoreCollection`.
- `summary.py`, `validate.py`, `validate_duckdb.py`, most of `progress.py`, `logging_utils.py`:
  they read and format, and change no collected state.
- The numbers: indicators, split ratios, the overlap threshold of
  `split_basis_changed`, patch rescaling beyond its basis. They are floating point
  over one list, without an order of events to explore.
- Waiting: the sliding window of `PerMinuteRateLimiter`; pauses and timeouts are steps
  that may take any time.
- `--only`, `--dry-run`, `--check`, `--limit`: they select or write nothing.
- The order of the rotation, its backoff dates and the order in which symbols get
  their news: any choice is allowed, so no property depends on it.
- `FileLock`: the programs take the pipeline lock, and only the tests of `FileLock` use it.
- Environment files and installation.
