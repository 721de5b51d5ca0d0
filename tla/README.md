# TLA+ models of the tick-feed classifier and the rotation monitor

This directory holds TLA+ models of the two programs in `src/`. TLC checks them.

* `src/test_ws_analysis.py` connects to a WebSocket price feed and captures
  ticks for a bounded time. It runs four statistical analyzers over the
  capture and prints a verdict: SIMULATED, REAL, LIKELY_SIMULATED or
  INCONCLUSIVE. `spec.md` describes this program.
* `src/backend/schema/automation_monitor.py` is a CLI that reports on the
  rotation and compression of the tick databases. `spec.md` leaves it out of
  scope, but it is code of the repository, so it has a model too.

## 1. Inventory

### Components, state and operations

| component | code | state | operations |
|---|---|---|---|
| Stream capturer | `capture_and_analyze` lines 192–258 | `captured_ticks` (symbol → list, capped at `CAPTURE_COUNT` = 20), `total_tick_count`, `analysis['symbols']`, the loop's `start` and clock, the connection | connect; loop top with a deadline check (`TIMEOUT` = 30 s); `wait_for(recv, 5.0)`; handle one message; break on the stop rule; flatten the buffers; exit 1 on an empty capture |
| LP-source analyzer | `analyze_lp` 32–50 | writes `analysis['lp_sources']` and appends to `analysis['evidence']` | tally the `lp` values; add evidence for `SIMULATED` (simulated) and `YOFX` (real) |
| Price-pattern analyzer | `analyze_price_patterns` 52–87 | appends evidence | for each symbol with 3 or more ticks, count the distinct rounded bid changes; a ratio below 0.5 counts as simulated |
| Timestamp analyzer | `analyze_timestamps` 89–117 | appends evidence | sort the pooled timestamps and take the gaps; regularity below 0.3 with a mean gap under 1 s counts as simulated |
| Spread analyzer | `analyze_spread` 119–145 | appends evidence | for each symbol, consistency = 1 − distinct/len; above 0.95 counts as simulated |
| Verdict aggregator | `generate_verdict` 147–190 | reads `lp_sources` and `evidence` | count the indicators; if/elif chain of 4 rules |
| Entry point | lines 266–271 | none | `asyncio.run`; `KeyboardInterrupt` exits 0 |
| Rotation monitor CLI | `automation_monitor.py` `main` 403–476, `check_system_status` 66–144, `run_*_test` 298–372 | counters of the status check; no persistent state | parse the arguments; run one command; exit |
| Database directory commands | `get_database_inventory` 146–206, `analyze_database` 233–296 | the files of the database directory, shared with the compression job | glob, stat and list (inventory); exists, stat, `sqlite3.connect` and queries (analyze) |
| Monitor reporting | `show_*`, the `print_*` helpers | none | output only |

### How the components interact

The classifier is one asyncio task. It owns every global variable. The
capturer fills the buffers. After the connection closes, the analyzers run
one after another on the frozen buffers. They communicate only through the
shared `analysis` dict. `generate_verdict` reads `lp_sources`, which only
`analyze_lp` fills. So the verdict rule depends on the call order at lines
260–264. The feed is the environment: the timing and content of each message
are outside the program.

The monitor is a one-shot CLI. Its environment is the host: the script
files, the database directory, the metadata file, cron or Task Scheduler,
disk usage, and the exit status of the scripts. `inventory` and `analyze`
read the database directory that the weekly compression job writes and
removes files in, with no lock between them: each file-system call of the
command is a step that the job's steps can interleave with.

### What is hard

* **Timeouts.** There are two clocks: the overall deadline, checked only at
  the top of the loop, and the 5 s read timeout. How they interleave with
  message arrivals decides when the capture stops.
* **Failure paths.** Only `TimeoutError` and `JSONDecodeError` are handled
  inside the loop. Everything else ends at the outer `except Exception` and
  exits 1. That includes non-object JSON, a tick without `symbol`, a missing
  `timestamp` among the first 5 ticks, and the connection closing. A
  timestamp missing later in the stream crashes the timestamp analyzer
  instead.
* **Bounded buffers.** Ticks past the per-symbol cap are dropped. They are
  still counted, but they are never analysed.
* **Arithmetic.** The analyzers' thresholds interact with the cap. The
  verdict is decided by counting votes across the analyzers.
* **Interrupts.** `KeyboardInterrupt` can arrive at any point.

### Properties that make each component correct

* Capturer:
  - each buffer holds exactly the first `CAPTURE_COUNT` ticks of its symbol;
  - the capture ends within `TIMEOUT + READ_TIMEOUT`;
  - every session terminates;
  - a malformed message is skipped, not fatal (spec 4.1 and 7).
* Analyzers and aggregator:
  - a SIMULATED marker gives the SIMULATED verdict (spec 8);
  - a constant spread counts as simulation evidence (spec 4.5);
  - the verdict is the rule list applied to the evidence;
  - which votes can produce LIKELY_SIMULATED.
* Monitor:
  - the status check says "healthy" only when every check passed;
  - `inventory` and `analyze` complete and leave the directory as the
    compression job leaves it;
  - the exit status of a script test reflects the script's result.

## 2. Modules

| module | models | notes |
|---|---|---|
| `TickAnalyzers` | the four analyzers and `generate_verdict` as operators over a buffer (symbol → sequence of tick records) | constants `Symbols`, `Labels`, `NoStamp`, `StampsPerSecond`; `RECURSIVE` insertion sort for `sorted()` |
| `QuoteSession` | one run of `test_ws_analysis.py`, from connect to exit; `EXTENDS TickAnalyzers` | one action per step of the code; instantiates `QuoteClassifier` |
| `QuoteClassifier` | what one classification session promises: the buffers only grow by appending up to the cap, and the session ends without a verdict or with exit 0 and the rule list over all four analyzers' evidence on one snapshot | the abstract specification `QuoteSession` refines |
| `TimestampCadence` | `analyze_timestamps` on the float timestamps of a fixed-cadence feed near the current epoch | stamps in ulps (2^-22 s) |
| `RotationMonitor` | one invocation of `automation_monitor.py`: `status`, `analyze`, `test-rotation`, `test-compression`, `policy` | the host is a record of facts chosen in `Init` |
| `DbDirectory` | the `inventory` command (`get_database_inventory`) and the `analyze` command (`analyze_database`) racing the weekly compression job and the monthly archival on the same directory | the two jobs are environment actions |
| `MC_QuoteSession`, `MC_DbDirectory`, `MC_TimestampCadence` | the constant definitions for the runs | |

### QuoteSession: how the state and actions map to the code

Variables:

* `pc` is the point the task has reached: `connect`, `loop` (loop top),
  `recv` (awaiting a message), `drained` (after the `async with`), one
  phase per analyzer, `verdict`, and `done`.
* `now` is the number of whole seconds since `start`.
* `msgs` counts the messages read. It is a model bound.
* `total`, `symbols`, `captured`, `lpSources` and `evidence` are the code's
  globals.
* `verdict` is the printed verdict.
* `exitCode` and `error` record how the process ended, and which exception
  ended it when the status is 1.
* `received` is a history variable. It holds every tick received per
  symbol, whether kept or dropped.

Actions:

* `ConnectOk` and `ConnectFail` model `websockets.connect`.
* `LoopTop` is the deadline check at line 213.
* `ReadTimeout` is `wait_for` raising `TimeoutError` after `READ_TIMEOUT`.
* `Receive(m, d)` is a message `m` arriving after `d` ≤ `READ_TIMEOUT`
  seconds. It covers the whole handler. Invalid JSON and other types are
  skipped. Non-object JSON, a tick without symbol, or a closed connection
  mean `sys.exit(1)`. For a tick, `OnTick` counts it, records its symbol,
  keeps it if the buffer has room, and logs it if it is among the first 5.
  The log raises `KeyError` when the tick has no timestamp. Then `Enough`
  decides the break.
* `Drain` flattens the buffers and exits 1 when nothing was captured.
* `AnalyzeLp`, `AnalyzePricePatterns`, `AnalyzeTimestamps` and
  `AnalyzeSpread` run in the code's order. `AnalyzeTimestamps` crashes on a
  kept tick with no timestamp.
* `GenerateVerdict` prints the verdict and exits 0.
* `Interrupt` is `KeyboardInterrupt` at any point, with exit 0.
* `Terminated` is the stuttering step of the stopped process.

Data abstraction:

* Prices are integers in units of 1e‑7, so `round(x, 6)` is modelled by what
  it does (`Round6`). An `ASSUME` excludes rounding ties.
* Timestamps are integers in units of 1/`StampsPerSecond` s.
* The comparisons `u/n < 0.5`, `u/n < 0.3`, `mean < 1` and `1 − u/n > 0.95`
  are integer cross-multiplications. For every count up to 59 these agree
  with Python's floating-point results, checked exhaustively in Python.
* An evidence string becomes a record (polarity, analyzer, subject). The
  code counts evidence by its emoji, and each string has exactly one emoji.
* The evidence list becomes a set: its records are distinct, and the list's
  order only affects printing.
* The `lp` field, when absent, reads as `"UNKNOWN"` (`tick.get('lp',
  'UNKNOWN')`). The label set may contain `"UNKNOWN"`.

### Refinement: QuoteSession implements QuoteClassifier

`QuoteSession` defines `Classifier == INSTANCE QuoteClassifier WITH status <-
IF pc = "done" THEN "done" ELSE "capturing", kept <- captured, Ticks <- Tick`;
`verdict`, `exitCode`, `CAPTURE_COUNT` and the analyzer constants map by name.
`ClassifierSpec == Classifier!Spec` is checked as a `PROPERTY` in the capture
and analysis runs. Under this mapping a kept tick is a `Keep` step; a dropped
tick, a timeout, the loop top, `Drain` and the four analyzer steps are
stuttering steps; `GenerateVerdict` is `Decide`; every failure and the
interrupt are `Abort`. `Abort` allows the failing step to keep one last tick,
because the logging `KeyError` at line 233 is raised after the tick was
appended at line 229. Since the analyzers run one after another and
`generate_verdict` reads what they accumulated, the refinement shows that the
verdict is the rule list over *one* snapshot of the buffers: an analyzer that
replaced the evidence instead of extending it
(`AnalyzePricePatternsOverwrites`) or a verdict on an empty capture
(`DrainNoEmptyCheck`) breaks it.

### RotationMonitor

`facts` (the host) and `args` (argparse) are chosen in `Init`; `phase`,
`checksPassed`, `checksTotal`, `statusResult`, `ran` (the script launched and
its `DRY_RUN`), `crash` and `exitCode` are what the invocation produces. There
is one action per command, each covering `main()`'s branch and the method it
calls. `Status` is `check_system_status()` followed by `show_rotation_status()`:
on POSIX it stops at check 4 with `ValueError`; on Windows it computes the
counts, the result, and then `show_rotation_status()` raises `AttributeError`
on a metadata file that is truthy JSON but not an object. `TestRotation` and
`TestCompression` share `RunScriptTest`; on Windows the `.sh` of the
compression test cannot be launched and the caught exception returns False.

### DbDirectory

A database is an element of `Dbs = 1..NumDbs` in path order; `file[d]` is
`"db"`, `"both"` (zstd has written the `.zst`, the `.db` is not yet removed),
`"zst"`, `"none"` (no file: a missing directory, or an archive the monthly
archival moved to cold storage) or `"stray"` (an archive with an empty `.db`
beside it, which only `sqlite3.connect` creates). A run starts from any mix
of `db`, `zst`, `stray` and `none`, because an earlier `analyze` may have
left a stray. `cmd` and `target` are the
parsed arguments of the one invocation. The inventory steps are `NoDirectory`, `GlobActive`,
`GlobCompressed`, `StatActive`/`ActiveListed` (the loop over the last
`LIST_LIMIT` active databases) and `StatCompressed`/`CompressedListed`. The
compression job is `CompressWrite(d)` and `CompressRemove(d)`, and the
archival, which the retention policy of `show_retention_policy` (lines
391–400) runs monthly on databases older than 30 days, is `Archive(d)`: it
moves the `.db.zst` away, so `StatCompressed` can fail too. All are enabled
at any time. `busy` is a history variable: the databases a job worked on since the
command's first step; `absent` is a history variable: the databases whose
`.db` was missing at the start or has been removed by the job since. Sizes,
mtimes and totals are left out; the `stat()` that can fail is kept.

The analyze steps follow `analyze_database`: `AnalyzeMissing` (the
`exists()` early return), `AnalyzeExists`, `AnalyzeStat` (the `stat()` outside
the `try`, which raises `FileNotFoundError` on a vanished file) and
`AnalyzeConnect`: `sqlite3.connect` followed by the queries. `connect` creates
a missing file (a 0-byte file, whose `PRAGMA integrity_check` returns `ok`);
once open, the queries read that file whatever the job does to its path, and
every error they raise is caught. The analysis dict is discarded by `main()`,
so the model keeps only the file-system effect and the exit path.

### TimestampCadence

A feed that stamps tick *i* with `b + i*step` (b a whole epoch second between
2^30 and 2^31) produces doubles spaced 2^-22 s apart, so a stamp is a whole
number of ulps: `FloatStamp(i, ms)` is `round(i*ms*2^22/1000)`, computed in
two parts so that no value leaves TLC's 32-bit integers. An `ASSUME` checks
that no stamp is a rounding tie. The gaps are then exact differences, and the
`TickAnalyzers` operators apply `set(gaps)` to them bit for bit.

## 3. Runs

| run | cfg | expect | what it shows |
|---|---|---|---|
| capture | `capture.cfg` | pass | 2 symbols, cap 2, T=3, R=2, up to 6 messages, every fault kind and missing timestamps. `BufferKeepsFirstTicks`: each buffer is the first CAPTURE_COUNT ticks received for its symbol. `DeadlineOverrunBounded`: `now ≤ TIMEOUT + READ_TIMEOUT`. `Termination`: every session ends. `ClassifierSpec`: the session refines the abstract classifier (57k states, about 2.5 min) |
| analysis | `analysis.cfg` | pass | 1 symbol, cap 5; the labels, bids and stamps vary enough that every analyzer votes both ways and all four verdicts occur. `LikelySimulatedNeedsTimestampFlag`: LIKELY_SIMULATED needs the timestamp vote. `ClassifierSpec` again, here over the analyzer steps (1.27M states) |
| cadence | `cadence.cfg` | pass | `UniformCadenceFlaggedFromEight`: every whole-millisecond cadence of 1–999 ms, captures of 2–20 ticks |
| monitor | `monitor.cfg` | pass | every command on every host (12 800 initial states): `TypeOK`, including the check-1 over-count up to 6 |
| directory | `directory.cfg` | pass | `inventory` or `analyze` on 3 databases, window 2, both jobs on all of them, strays possible at the start: `DoubleListedOnlyWhileBusyOrStray`: a database listed as active and as compressed was worked on by a job during the listing or is a stray; `NoDatabaseCreatedUnlessCompressing`: a missing or removed `.db` reappears only if zstd worked on it while the command ran; `CrashOnlyWhileJobsRun`: `FileNotFoundError` escapes only when a job removed a file while the command ran (for `analyze`, its target) |
| malformed | `malformed.cfg` | violation | `MalformedMessageNeverFatal`: non-object JSON, a tick without symbol, or an early tick without timestamp exits 1 |
| precedence | `precedence.cfg` | violation | `SimulatedPrecedence`: s1 fills, then a SIMULATED tick for s1 is dropped, then s2 fills. The verdict is not SIMULATED |
| fullspread | `fullspread.cfg` | violation | `ConstantSpreadFlagged`: with the code's cap of 20, a constant spread is judged "variable" |
| monitor_status | `monitor_status.cfg` | violation | `StatusAccurate`: with both scripts present and one check failing, the status check returns True |
| monitor_status_crash | `monitor_status_crash.cfg` | violation | `StatusCompletes`: on POSIX `status` always dies with `ValueError` |
| inventory_race | `inventory_race.cfg` | violation | `InventoryCompletes`: a `.db` removed between glob and `stat()` crashes the inventory |
| analyze_race | `analyze_race.cfg` | violation | `NoDatabaseCreated`: analyze stats the `.db`, zstd writes the archive and removes the `.db`, then `sqlite3.connect` creates an empty `.db` beside the archive |

### Bounds

* capture: the deadline can pass while a read is pending (T=3, R=2). One
  symbol can fill while the other is still open, so ticks are dropped. A
  tick without timestamp can arrive both before and after the 5th tick
  (6 messages).
* analysis: a timestamp vote needs at least 4 gaps before it can say
  "simulated" (10·1 < 3·4), which takes 5 ticks. A price vote needs at
  least 3 changes before it can say "simulated" (2·1 < 3).
* fullspread: uses the code's own capacity, 20.
* cadence: every cadence the generator could use below one second, and every
  capture length up to the code's cap of 20. The bound 8 is tight: for some
  cadences 7 ticks give two distinct gaps out of 6, which is not below 0.3·6.
* directory: with a window of 2 over 3 databases the slice drops one, and
  either job can be on any database at any point of the listing.

### Mutants

Each property of a passing run has a mutant in `PROJECT.json` that TLC
catches:

* an uncaught `KeyboardInterrupt` (exit status 130) breaks `TypeOK`;
* the cap test written `<=` breaks `BufferKeepsFirstTicks`;
* the deadline check left out breaks `DeadlineOverrunBounded`;
* a read timeout that does not move the clock on breaks `Termination`;
* a verdict on an empty capture breaks `ClassifierSpec` (capture), and an
  analyzer replacing the evidence breaks it (analysis);
* consistency computed without the `1 −` breaks
  `LikelySimulatedNeedsTimestampFlag`;
* a regularity threshold of 0.2 instead of 0.3 breaks
  `UniformCadenceFlaggedFromEight`;
* `parser.error` for a missing `--db-path` breaks the monitor's `TypeOK`;
* the whole list instead of `[-10:]` breaks the inventory's `TypeOK`, and a
  compressed glob matching `*.db*` breaks `DoubleListedOnlyWhileBusyOrStray`;
* `analyze` going on to `connect` for a missing path (the early return
  dropped, the `stat()` moved into the `try`) breaks
  `NoDatabaseCreatedUnlessCompressing`, and `analyze` without its `exists()`
  check, stat()ing any path, breaks `CrashOnlyWhileJobsRun`.

### Fairness

Steps of the session task (`SessionStep`) and the completion of a read
(`ReadStep`: a message or the timeout) are weakly fair. The task is the only
one, and every await is bounded by `wait_for`. Nothing constrains the feed's
choices or the user's interrupt. `msgs ≤ MaxMessages` bounds how many
messages the feed sends. After that bound only timeouts remain, which
models a feed that goes silent. `now` saturates at `NowCap = TIMEOUT +
READ_TIMEOUT + 1`. The correct code never reaches that value; only a broken
deadline check does. The monitor and directory models carry no liveness
property and no fairness: the compression job may run or not, and the one
thing that must not happen (the crash) is a safety property.

## 4. Findings

The findings are listed in `PROJECT.json`:

1. Invalid messages are fatal, contrary to spec 4.1 and 7.
2. A SIMULATED marker is lost when its tick is dropped after the cap. The
   spec does not address this case.
3. The spread heuristic can never fire with a capacity of 20. The code
   itself prints "Perfectly consistent spread (100.0%)", which is
   unreachable.
4. The monitor's status check over-counts check 1: a fully healthy Windows
   host reports failure, and one failing check can report success.
5. `status` always crashes on POSIX: `subprocess.run` rejects
   `capture_output=True` together with `stderr=`.
6. `inventory` crashes when the compression job removes a `.db` between the
   glob and its `stat()`. The monthly archival moving a `.db.zst` between
   the compressed glob and its `stat()` (line 187) crashes it the same way,
   with zstd idle; `CrashOnlyWhileJobsRun` shows that these job steps are
   the only way the crash happens.
7. `analyze` racing the compression job recreates the database it analyses
   as an empty file: when zstd removes the `.db` after `analyze` stat()ed it,
   `sqlite3.connect` creates a 0-byte `<name>.db` beside `<name>.db.zst`,
   reports "integrity check passed" on it and exits 0. The next `inventory`
   lists the empty file as active, and the next compression run finds a
   `.db` to compress again; what the script then does to the archive is not
   in this repository. Because a run may start from such a stray, a
   database can be listed as active and as compressed with both jobs idle
   (`DoubleListedOnlyWhileBusyOrStray` allows exactly this case and no
   other). (The same race one step earlier, between `exists()`
   and `stat()`, ends `analyze` with `FileNotFoundError`.)

Three defects are visible on reading the code and have no run of their
own: `--dry-run` can never be off (`args.dry_run or True`, line 470, so the
script tests always run with `DRY_RUN=true`); the storage
totals of `inventory` sum only the 10 databases listed, and `test-compression`
can never pass on Windows because it executes a `.sh` file directly.

The timestamp heuristic is weaker than it looks on real timestamps: float
gaps of a uniform cadence take two values, so captures of 5–7 ticks may go
unflagged. `cadence` shows that from 8 ticks on the flag is certain.

## 5. Further work

These extensions are possible but have no run yet:

1. **Pure-algorithm checks.** `Round6`, `SortedStamps` and the verdict rule
   list against reference definitions over bounded inputs.
2. **Larger instances.** Three symbols in `capture`, to reach the
   `min(3, len(symbols))` branch of the stop rule with a third symbol. The
   capture run with two symbols already takes about 2.5 minutes.
3. **Inventory sizes.** The storage totals sum only the listed 10
   databases (line 180). A property on them needs sizes in the model.
4. **Interrupt during analysis.** On Python ≥ 3.11, a SIGINT during the
   synchronous analysis cancels the task only after the verdict is printed.
   `Interrupt` is enabled at every step, which covers the earlier versions'
   behaviour and this one.

## 6. Not modelled

Every operation of `automation_monitor.py` and `test_ws_analysis.py` that
changes state or decides an exit status is an action of a module. What is
left out, and why:

* The `Colors` class, the `print_*` helpers, headers, banners and the
  argparse description and help texts: printing and formatting only, and no
  property is about wording.
* The `websockets` library and JSON parsing, beyond the outcomes a read can
  have.
* The results of `analyze_database()`'s queries: `main()` discards them, so
  only the file-system effect of `connect` and the exit path are modelled.
  `show_retention_policy()` and the listing output are print-only.
* The external rotation and compression scripts, cron, Task Scheduler and
  sqlite. Their code is not in this repository. They appear only through the
  facts they produce: whether a file exists, a script's exit status, and
  the files the compression job writes and removes and the archival moves
  away (taken from the policy `show_retention_policy` prints).
* The evidence list's order: it only affects printing.
