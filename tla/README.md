# TLA+ models of GeoPilot HVAC

GeoPilot records the sensors of a heating plant (Modbus RTU over RS485, 1-Wire) into SQLite and
lets a person operate relays from a web page. This directory holds the TLA+ models of its core
logic, the TLC configurations that check them on small instances, and proofs for TLAPS.

    tlc -workers 2 -config guard_safety.cfg MCCommandGuard.tla
    tlapm CommandGuardProofs.tla

`PROJECT.json` lists the runs, the source lines each definition models, the hazards, the findings
and the theorems. All source paths below are relative to the repository root.

## 1. Inventory

| Component (code) | State | Operations | Interacts with | What must hold |
| --- | --- | --- | --- | --- |
| Command guard (`control.py`) | the gate (a lock), last applied decision per relay in memory | `execute` | journal, write transport, request threads | intent before write, one outcome per command, interval kept across threads and restarts, every caller released |
| Command journal (`sqlite_journal.py`) | rows with a unique `command_id` | `append`, `for_target`, `last_applied_at` | guard, surface | nothing lost silently, nothing rewritten |
| Control surface (`control_server.py`, `tools/geopilot_control.py`) | one thread per request, token, `SerialBus` | command, state, probe | guard, bus | fresh command ids, the port opened per exchange |
| Port lock (`port_lock.py`) | one advisory lock per port, a descriptor per `PortLock` | `hold`, `close` | every transport, across processes | exchanges do not overlap, nobody waits for ever |
| Modbus transports (`modbus_pyserial_transport.py`, `modbus_pyserial_write.py`) | an open serial port, a shared input buffer | read registers, read bits, write coil | lock, devices | an answer belongs to its request, a confirmed write happened |
| Acquisition runtime (`runtime.py`, `acquisition_runner.py`, `tools/geopilot_poll.py`) | open sources, the shutdown flag | `run_cycle`, `run_cycles` | transports, ingestion, provenance | one sensor's failure stays its own; storage errors; shutdown |
| Ingestion (`ingestion.py`, `register_decoder.py`) | known sensors | normalise, ingest | historian | deterministic ids, one result per measurement |
| Historian (`historian.py`, `sqlite_historian.py`) | measurements by id | append, queries | recorder, reports | append is idempotent, a conflict is never overwritten |
| Provenance (`provenance.py`, `sqlite_provenance.py`) | epochs of the configuration | record, at, spanning, changes_between | runtime, reports | one epoch per change, at most one in force at an instant |
| Connectivity (`connectivity.py`) | none (a view over the record) | presence per sensor, verdict per bus | dashboard | a verdict fits the sensor's cadence |
| Reporting, tariff, fuel (`reporting.py`, `tools/geopilot_report.py`, `tariff.py`, `fuel.py`) | none; several statements per report | runs, gates, pairs, buckets, events, coverage, warning, bill | recorders that go on writing | boundaries: every sample counted once; figures, counts and warning fit each other |
| Backup (`tools/geopilot_backup.py`) | copies on disk | copy, count, exit code | recorders that go on writing | a set called good is good, and can be read together |
| Control page (`assets/control.js`) | token, in-flight flag, picture | load, refresh, command | surface | a picture is explained, never goes back, catches up |
| Configuration, domain, registry (`configuration.py`, `domain.py`, `registry.py`) | none | validation, building the plan | surface, recorder, calibration | what is accepted can be built and used, or fails for a known reason |
| Calibration, probe, 1-Wire (`calibration.py`, `probe.py`, `onewire.py`, tools) | readings of a bath | sample, calibrate, probe | devices, configuration file | the offsets reach the reference; the probe shows what is recorded |
| Dashboard, dossier, export | none | rendering | read-only connection | unit tests reach these well |

What is hard here: three kinds of process share one RS485 line and one input buffer; request
threads race on a check-then-act interval; every durable step can be followed by a crash or refused
by the disk; what reads the databases does so in several statements while they are being written; a page, its
requests and the service it was loaded from have lives of their own; the configuration file is read at
different times by different processes; the only clock is the wall clock, which can be set; devices answer late, wrongly or not
at all. The hazards, with their lines, are in `PROJECT.json`.

## 2. Plan

| Order | Module | What it adds | State |
| --- | --- | --- | --- |
| 1 | `CommandJournal`, `CommandGuard`, abstract `AuditTrail`, `CommandGuardProofs`, `AuditTrailProofs` | operating a relay | checked; invariants and refinement proved |
| 2 | `ModbusBus`, `ModbusBusProofs` | exchanges on the shared segment | checked; invariants proved |
| 3 | `Provenance`, `Recorder`, `RecorderProofs` | recording: session, cycle, loop, shutdown, storage errors, several recorders on one disk | checked; invariants proved |
| 4 | `Ordering`, `Historian`, `Reporting`, `Connectivity`, `Tariff`, composed by `Readers`, `ReportingProofs`, `ReadersProofs` | append by several processes; reports, connection table and backup beside them | checked; every property proved |
| 5 | `Devices`, `Configuration`, `Calibration`, `ControlPage`, composed by `Installation`, `InstallationProofs` | one installation around its file: page, probe, recorder, calibration | checked; every safety property proved |

`Readers` EXTENDS `Connectivity` (on `Reporting`, on `Historian`), `Tariff` and `Provenance`; `Installation`
EXTENDS `ControlPage`, `Configuration`, `Devices` and `Calibration`. `Historian` to `Tariff`, `Devices`,
`Configuration` and `Calibration` have no variables: they are the algorithms, as operators, and the two
composing modules run them on what the processes saw. `Provenance` serves both `Recorder` and `Readers`.

`Ordering` is what the ORDER BY of a query and the filter of a list do to a sequence, as plain functions, so
that it can be proved about; `Induction` has the facts about numbers, finite sets and orders the proofs share.

Every invariant and every action property of a run is now a theorem; the three liveness properties are left to TLC. Left to model,
if the project grows: the totals of run reports, and the dossier.

## 3. Modules

**`CommandJournal`** is the table `commands` as a sequence of records. `Store` is `append` with
`INSERT OR IGNORE` on the unique key: the guard stores an intent under `<id>/issued` and an outcome
under the plain id, which `RowKey` keeps apart. `LastAppliedAt` is the query behind the interval.

**`CommandGuard`** is `ControlService` as the surface runs it.

| Model | Code |
| --- | --- |
| `gate` | `ControlService._gate` |
| `pc`, `command`, `now` per thread | the local variables of one `execute` call; `now` is its single clock reading |
| `cache` | `_last_applied`; lost by `Crash`, refilled by `_remember` |
| `journal` | the database file; survives `Crash` |
| `Submit` / `Enter` | a request handler builds a command with a new id / enters `with self._gate` |
| `RefuseUnpermitted`, `FailUnwired`, `RefuseTooSoon`, `Issue` | the four ways out of the checks, in the code's order |
| `WriteAcknowledged`, `WriteFailed`, `WriteEscapes` | what `write_coil` can do: return, raise `ModbusWriteError`, raise something else |
| `RecordApplied`, `RecordFailed` | the outcome; `Record` may be refused by the journal, which drops the connection |
| `Crash`, `Boot` | the process ends anywhere; systemd starts it, perhaps with an edited configuration |
| `Tick`, `SetClock` | the host's wall clock; only `SetClock` makes `stepped` true |

The position of a relay is not state, because the guard never looks at it. `moves` is a history of
the coil writes the device obeyed. `unanswered` marks relays decided on while the journal could not
be read; the documentation accepts that exception (the guard fails open), so `AppliedSpaced` and
`RecordedMoveRests` exclude those relays and no others.

**`AuditTrail`** is the guard's promise to whoever reads the journal: at most one command open,
announced before it moves anything, moved at most once, concluded at most once, "applied" only if
moved. `CommandGuard!Contract` maps the journal and the gate onto it.

**`ModbusBus`** is the segment. A client is a process or request thread; one in `PerCommand` opens the
port for each exchange (`SerialBus`), the others keep it (the recorder). A frame is whom it answers
and its form; the buffer `line` is a sequence of bytes, each a position in a frame, so what a read
takes, checks and leaves behind is exact. Contents are abstract: bytes that are not one undamaged
frame from its start never pass unit, function, count and CRC together. `Discard` (pyserial resets the
input buffer when it opens a port; bytes of a frame still arriving come later) and the devices are
external; they deal with requests in the order they heard them. `TimeOut` does not ask what the device does: a read may
run out of time before the device has answered, or in the middle of the answer, and what is still to come then is
for whoever reads next. `carried`, `uncoordinated` and `tainted` are history: coil writes obeyed while
they were being made, an exchange made without the lock, and bytes that come after the end of their
exchange (an answer later than the timeout, a damaged header, a process that ended or a read that raised in the middle, a
port opened while a frame arrives). `OwnAnswer`, and that nothing is left over at a handover, are stated for histories
without the last two; that nobody waits for a device when the lock is free (`CleanHandover`) holds with late answers and
crashes too. The three violation runs show that each of the conditions is needed.

**`Provenance`** is the table of configuration epochs: a sequence of rows in the order they were
written, each a fingerprint and an instant. `Moved` is the test of `record`, `EpochAt` the query `at`,
which orders by row and not by time. What a fingerprint is made of is abstract.

**`Recorder`** is `geopilot_poll.py` with the session, the loop and the cycle below it; several recorders
(the timer's, one run by hand) share the clock, the historian and the journal of epochs.

| Model | Code |
| --- | --- |
| `pc`, `config`, `started`, `results`, `outcomes` per recorder | the process: the configuration `main` loaded, `started_at`, the results of the running cycle, the list of `CycleOutcome` |
| `measurements`, `epochs` | the two database files |
| `Start` | `main` loads the configuration, which may have been edited since |
| `OpenJournal`, `InsertEpoch` | `AcquisitionSession.__init__`: `record` looks at the latest epoch, then writes one |
| `CannotOpen` | anything of this fails: the run ends, an epoch stays |
| `BeginCycle`, `Store`, `StoreAgain`, `ReadFails` | one sensor after the other: a new row, the same observation again, an `AcquisitionFailure` |
| `StoreConflicts`, `StoreFails`, `ReadRaises`, `Report` | the ways a cycle ends: three exceptions `run_cycle` catches, or the report, which rejects itself when the clock went back |
| `Continue`, `Finish` | the loop of `run_cycles`, and the exit code |
| `Signal`, `Crash`, `SetBack` | SIGINT or SIGTERM, the end of the process, the host's clock |

The id of a measurement is its sensor and its instant, in microseconds, so a row is known by the two;
that two observations share them takes a clock that was set back, which the runs do. A sensor is read and
its row committed in one step: nothing in between is visible to anybody else but the race of two
processes on one id, which is left to `Historian`. An edit of the configuration file is folded into the next
`Start`, the only place that reads the file. `Cycles` is `--cycles`, or 1 for `--once`; an endless
`--interval` run differs by never reaching its last cycle. `heard`, `mixed` and `raced` are history:
the cycles begun when the signal came, that recorders ran together on different
configurations, and that one looked at the journal of epochs while another was writing to it.
`AttributedRightly` and `EpochsMark` name the last two as conditions, and each of them is needed:
without it TLC finds a counterexample (section 6).

**`Historian`** is the table of measurements: a sequence of rows in the order of insertion, `SameId` (an id is a
hash of sensor and instant), `Query`, which orders them by instant (`Ordering`). **`Reporting`** holds the walks of `reporting.py`, each as a recursive function: the
state of the code's loop after its first observations: `DetectRuns` (`_BuildingRun`), `Gated`
(`_StateGate`, which only goes forward), `Pairs` (two streams consumed together), `SqlBuckets` and
`AggregateBuckets` (the two ways the code makes the same table), `Coverage`. Local time is an offset kept with each row,
as in the database. Means are sums with counts. **`Connectivity`** is `_cadence` and `_judge` (the median kept doubled),
**`Tariff`** the tiered rate in whole prices.

**`Readers`** has the recorders and one run of one tool.

| Model | Code |
| --- | --- |
| `rows`, `epochs` | the two databases |
| `Read`, `LookUp`, `Insert` | `SqliteMeasurementHistorian.append`, the lookup and the insert apart; `pending` is what a process has looked up and not found |
| `Restart`, `ChangeOffset` | a recorder started with an edited configuration; the host's change of the clocks |
| `ask` | the command line; `UsageError` and `Kind` are the checks and the dispatch of `main` |
| `Questions` | the statements a tool makes, in their order; those of an event report depend on the events found |
| `Ask` | the next statement: it sees what is committed, so `seen` keeps how many rows, how many epochs, and when |
| `CopyFails` | a database that cannot be copied |
| `Selected`, `Buckets`, `Excluded`, `Warned`, `Found`, `Cost`, `Verdict`, `BackupExit`, ... | what is printed, computed from what the statements saw |

`made` is history: the configuration each row was recorded under. Statements that follow each other without a use of
their result in between (the checks of units and states; the counts) are one; the look for readings of before 1970 is a statement of
its own, apart from the one that makes the buckets. That a statement sees a prefix of the insertions is
SQLite's: a statement is a read transaction, and inserts are committed one by one. The backup's third file, the
journal of commands, is copied like the other two.

**`Devices`** says what a device answers (words, bits, a temperature, silence, garbage) and what the two users of an
answer make of it: `RegisterRaw`, `ProbeRaw`, `BitRaw` and `Ingested` for the recorder; `ProbeRegister`, `ProbeDevice`,
`ProbeBit` for the probe. Words have `WordSize` values and `NotFinite` marks the exponent of a float; temperatures are
whole numbers and Fahrenheit is a different one, so that a unit lost or applied twice shows. **`Configuration`** is
a document as its tables of ids and references, `Accepted` with each check of `parse_configuration`, and what is built
from it: the registry, and the `Plan` of requests with their ids. `PlanRaises` is the ways that can end in an exception: a
register read that `ModbusReadRequest` or `RegisterDefinition` refuses (`RegisterTaken`), and two requests of one id, which
`AcquisitionPlan` refuses; the id of a request is the bus, and for its bits the bus with `:bits` behind (`BitsId`). None of
this is asked when the file is parsed. So `Cycle` needs a plan, and `Probe` only that each request can be made, since it does not
build one. **`Calibration`** is the arithmetic of a bath on whole numbers.

**`ControlPage`** is one page and the service behind it. `page` is the closure of `control.js` (token, flag, picture);
`requests` are the fetches on their way, each with how far its thread has come; `coil` is the history of the
relay, so that a picture has a version. `Load`, `Refresh`, `Send`, `Told`, `Draw` and `FetchFails` are the
page; `Forbid`, `ReadTargets`, `ReadJournal`, `Refuse`, `Intend`, `Operate` and `Conclude` are threads
of the service, the guard seen from outside (`CommandGuard` has its inside); `Lose`, `Restart` and `ByHand`
are the connection, systemd and a person at the panel. `left` holds the bounds.

**`Installation`** puts a page, a probe, a recorder and a calibration around one configuration file: `doc` is the
file, `loaded` what the surface was started with. `Probe` and `Cycle` answer with what is installed (`scene`), `Round` and
`Paste` are a calibration and the person who copies its offsets into the file, `Reload` a restart of the surface.

`MC*` modules give the constants their values.

## 4. Runs

| Run | Shows | Bounds |
| --- | --- | --- |
| `guard_safety` | the trail and the interval survive everything but an unreadable journal; the guard implements `AuditTrail` | 2 threads, 3 commands, 1 relay, interval 2 with the clock in 0..2 |
| `guard_liveness` | every caller is answered or disconnected | 2 threads, 2 commands, 2 relays and an unknown id, all setups |
| `guard_open_failure` (violation) | an unopenable port leaves an intent without outcome and without crash | 1 relay |
| `guard_interval` (violation) | a lost echo, or a crash between the write and its record, lets a relay be operated again inside its interval | 1 relay |
| `bus_safety` | own answers, clean handover, confirmed means carried out, every exchange ends, late answers included | a poller and 2 surface threads, 4 requests, 1 fault |
| `bus_unlocked` (violation) | without the lock file reads swap answers and succeed | 2 alike reads |
| `bus_leaked_locks` (violation) | lock descriptors run out with no fault at all | room for 1 descriptor |
| `bus_leftovers` (violation) | an answer later than its timeout, or one damaged byte, gives a later read an earlier answer under the lock | 1 client, 4 reads, 1 fault |
| `recorder_safety` | measurements keep their configuration, epochs mark changes, reports and exit codes tell the truth, a run ends when it should | 2 recorders (1 and 2 cycles), 2 sensors, 2 configurations, 2 starts, 1 fault or signal, 1 set-back of 2 |
| `recorder_storage_error` (violation) | an insert that SQLite refuses does not end the run | 1 recorder, 2 cycles |
| `reading_safety` | an append that returned is on record; runs, gates, pairs, buckets, counts, occasions, warnings, bills, verdicts and copies are right at every boundary and whatever is recorded meanwhile | a command line at a time, 2 to 5 rows, 1 or 2 of them during the tool; 2 recorders |
| `installation_safety` | pictures are explained, never go back and catch up; what is accepted builds, but for the two known exceptions; the probe shows what is recorded; offsets reach the reference | a scene at a time: up to 2 commands, 2 loads, a restart, a fault; 1 read of every sort; up to 2 mistakes; 2 probes, 2 baths of 2 rounds |

Why the bounds are enough: two threads and three commands on one relay give a decision, its rival and
the one after a restart; a clock of three instants reaches "just too early" and "just long enough" for
an interval of two. Commands and threads are interchangeable, and `guard_safety` uses that symmetry.
On the bus, two requests of the same shape and two opposite writes to one coil are the pairs that can be
taken for each other; two reads suffice for a late answer to be taken for the next one, and four two-word reads are what it
takes until three-byte reads meet a frame boundary of nine bytes. `Descriptors` stands for the process's limit of open files and `MaxStrikes` for
the number of faults in one history; the clock stays within 0..`Horizon`.
For the recorder, two starts are what it takes for two configurations to meet, on one recorder after a
crash or on two at once; a set-back by two instants reaches an instant that has a row and one that has none;
two sensors leave one unread behind a failed insert. `MaxStarts`, `MaxStrikes` and `MaxSetBacks`
bound the history, and the theorems do without these bounds. `recorder_safety` uses that
configurations are interchangeable.

`reading_safety` takes one command line per behaviour, with bounds of its own (`Bounds`, in `MCReaders`): the steps of the
clock, and the rows of other sensors between, make gaps less than, exactly and more than the limit of what is asked (`maxGap`,
`tolerance`, the bucket, the multiples of the cadence), and one row during the tool falls between any two of its statements.
A day of four units and offsets of 0 to -3 give buckets that begin before the epoch, readings of before 1970 that slip in behind the check, alone or
beside a reading that belongs there, and offsets that change inside a window and
straddle midnight. Five readings are four gaps, of which one may be an outage. All 512 combinations of the main arguments
are tried on an empty record. `installation_safety` takes one scene per behaviour (`Scenes`, in `MCInstallation`): a page with two commands, one
hand and one fault has every overlap of two threads; each register type meets each quantity, unit, kind of sensor
and sort of answer; a complete document gets one mistake, or one and a second bus, so that every reference is
wrong once; documents that are accepted and yet cannot be planned have a read of no register, of too many, of no scale, of
a station or address too high, or a second bus, of either kind, called `port:bits` beside the bits of `port`; three readings of a bath (0, 4, 8) settle, just settle and do not. `Recent` is 2 where the code has 20, so that
records leave the page.

`CHECK_DEADLOCK FALSE` stands where every command or request is used once, or the clock stops, and the
system has nothing left to do.

**Fairness.** A thread in `execute` keeps running and each of its steps ends, since the lock, the port
lock and the serial reads have timeouts; the same for a client of the bus. Devices deal with the requests
they heard (or the request is lost). Nothing is assumed of callers, of the clock, of crashes or restarts.
For the page, its timer fires, a request that was sent is served or fails, and what arrived is drawn; nobody has to load it,
press anything or restart anything, and faults are finitely many because `left` counts them down.
Weak fairness is enough: the gate has no timeout, but its holder always leaves and only finitely many
commands are submitted in a run.

## 5. Proofs

`CommandGuardProofs` holds for any sets of threads, commands and relays, any intervals and any faults,
from `GuardAssumption` alone (and the arithmetic and sequence facts of the back-ends). Its argument is one
chain of inductive invariants, each preserved by every action under the ones before it:

1. `Protocol`: types; a busy thread carries a command whose caller still waits and that no other thread
   carries; whoever decides, writes or records holds the gate; what reaches the bus is aimed at a whitelisted relay;
   the newest applied row of a relay exists whenever there is one. The model lets a thread past the gate run without looking
   at it, as the code does, so that only one thread is there is a fact to be proved (`Gated`).
2. `Ledger`: no key is stored twice; a command has no outcome while its caller waits and no intent before it is
   decided; between intent and outcome the intent is the last row. Hence `WriteAhead`, `AnswerOnDisk` and
   `OutcomeFollowsIntent`, which are not inductive alone: that the outcome follows its intent needs that nobody writes
   in between.
3. `Spacing`: a remembered operation is at least as late as every one on record, and a command on its way to the
   relay is rested against every one on record. Hence `AppliedSpaced`.
4. `Motion`: a row names the target of its command; while the clock only ticks no decision is later than the clock;
   a command moves its relay at most once and, until it is recorded, nothing moves after it. Hence `RecordedMoveRests`.

`RecorderProofs` does the same for `Recorder`, from `RecorderAssumption`: any recorders, any plan, any number
of cycles, starts, faults and set-backs. Five invariants carry it:

1. `Typing`: types, that the results of a cycle follow the plan, and that a running recorder has a configuration.
2. `Attribution`: while the clock has not been set back, nothing on disk is as new as the clock; recorders
   running together agree, and those whose session is open find their configuration in the last
   epoch; what was measured since a recorder stamped an epoch it has yet to write was measured under that
   configuration; so every measurement is governed by the epoch `at` answers. Hence `AttributedRightly`. The third
   part is what the gap between stamp and insert needs.
3. `Marking`: a recorder about to write an epoch is alone in that and what it saw still holds. Hence `EpochsMark`.
4. `Ending`: a running recorder has no exit code, one that is opening has no outcome, and one that was signalled
   has begun no further cycle where the loop will not look at the flag. Hence `EndsOnlyWhenAsked` and
   `StopsWithinOneCycle`.
5. `Honest`: every success is a row, every report answers the whole plan, and 0 is given to runs without a failed
   cycle. Hence `ReportedIsStored` and `ZeroMeansComplete`.

`AuditTrailProofs` shows that the guard implements `AuditTrail` (`Contract`), from the invariants above and one
more: a write that was acknowledged moved the relay (`Operated`). What is open is the command of the one thread
past the checks, which needs `Gated`; that it was neither announced nor settled before is `Ledger`, that it did not move
before is `LastMove`. A crash, a refused append and an escaping exception are `Abandon`; the clock, a restart and a thread that
waits are stutters.

`ModbusBusProofs` is about any processes, requests, descriptors and faults. `OwnAnswer` and `CleanHandover` rest on
`Order`: only who is in an exchange holds the lock; and as long as every process is coordinated and no byte comes after the
end of its exchange, whoever is in an exchange holds it, a free lock means a quiet segment, and the wire and the buffer hold exactly
what the holder waits for. That whoever is in an exchange holds the lock needs the first condition alone (`Covered`). `ConfirmedMeansCarriedOut` needs none of that. It rests on `Carrying`: the bytes of a frame stay
together, a request is sent once and answered once, and wherever in a buffer the echo of a write begins, a device has carried
that write out. It is proved under `WritesPerCommand`, which says that who operates a coil opens the port for it, as
`SerialBus` does: an opened port holds no beginning of an earlier echo.

`Induction` and `ReportingProofs` are about the operators, with no state. The library's induction theorems take an operator as a
parameter, which the provers here cannot instantiate; so an induction is made from a set instead: the numbers that
lack a property have no least member (`LeastNat`), hence `Climb` and, for a recursive function over an interval,
`Recursion`. From these: what `Ordered`, `Arranged` and `Chosen` return (`OrderedIs`, `ArrangedIs`, `ChosenIs`), and,
for streams of any length, what each walk of `reporting.py` has made after its first observations: runs are maximal stretches, a gate
stands at a nearest state, pairs are one to one, buckets partition. A walk is a recursive function in the model
(`Walk`, `GateWalk`, `PairWalk`, `Growth`, `Sums`) for this reason. A sum over a set (`MapThenSumSet`) is defined by a
CHOOSE of a recursive function, so that one exists is proved first.

`ReadersProofs` holds for any sensors, command lines, recorders and rates, from `ReadersAssumption`,
`ConnectivityAssumption` (at least four readings are sampled, where the code takes 50, and two to four are required, where it wants 3) and
`TariffAssumption` (prices and limits are not negative). Its invariants:

1. `Appended`: a measurement, stored or about to be, has the unit of its sensor; one id has one row; every append that
   ended still stands. Hence `ReturnedMeansOnRecord`.
2. `ReadersInv` adds the types (`TypeOK`), a journal in the order of time and the statements: those made are the first ones the command line
   asks for, each saw a beginning of the record, and none saw less than the one before. Hence `BackupTellsTheTruth`, `FiguresNeverFallShort`, and, with the
   lemmas on walks, `RunsAreWhatWasSeen`, `GateSpeaksForTheNearest`, `PairsAreOneToOne`, `BucketsAgree`, `OutageDoesNotHide` and `DeadBusIsQuiet`.
3. `Attributed`: every row was made under the configuration the journal has in effect at its instant, and what a statement
   has not seen of the journal is later than what it has seen. Hence `VerifiedSetHangsTogether` (the record is copied before the journal) and
   `WarnedOfEveryMove`.
4. `Growing`: the readings of a counter rise with time. Hence `CostIsWhatTheBillGrowsBy`.
5. `Following`: the readings of one recorder follow each other. Hence `OccasionsNeverFallShort`, the part of `CountsNeverFallShort` about
   events: a longer stream has no fewer runs. Its hypothesis, that one recorder is at work, is needed: a row that a second one inserts late can join two runs.

**What is left of the statements the runs refute.** For five of the six the theorems say when they do hold, for any constants:

- `UnresolvedOnlyByCrash`: with ports that open and a journal that takes its records (`NothingRefused`), an intent without
  an outcome is left only by a process that ended. The invariant (`Traced`) is about the keys on disk and the answer of the caller.
- `OperationsSpacedAlways`: where no echo is lost and no process dies (`NothingForgotten`), no two decisions that operated a relay,
  recorded as applied or not, are closer than its interval, with refused records, an unreadable journal and a clock that is set
  at will. `Spacing` does not give that, since it knows only what is on record. The invariant (`Remembering`) is about the cache: an operation is
  remembered by the thread that carried it and then by the service, even where its record was refused, and what is on its way
  is rested against every operation of its relay, on record or not.
- `NothingInterleavesWhileLocksLast`: while the lock file opens and no process makes more exchanges than it may have files open
  (`LocksLast`), no two exchanges overlap. The invariant counts: a descriptor left open was opened for a request (`Counted`).
- `ForeignAnswersFit`, with no condition at all: an answer to somebody else is an answer from the same unit, of the same kind and
  quantity. So where no two requests have the same form (`AllDiffer`) a lost race fails, and noise costs one reading (`LostRacesFail`).
  A plan that reads several registers of one unit is not such a segment.
- `RetriesAreOwn`: for one client whose answers come before its timeout or not at all, and whose reads neither raise, nor end with
  the process, nor meet a damaged head (`ReadToTheEnd`), the next cycle is the retry: from `Order`, and that nothing is in the buffer
  of whoever opens the port. `bus_leftovers` shows that without late answers alone, or damaged heads alone, being excluded this fails.

The sixth, that a storage error is fatal, is nowhere true of the code.

`InstallationProofs` holds for any installation and any bounds, from `InstallationAssumption` (the types of a parsed
file, that the names the model uses for "no value" and for an exception are nobody's id, and that two names with `:bits`
behind them are equal only if the names are: strings are opaque to the provers, so this is assumed of each scene, where TLC
evaluates it) and
`CalibrationAssumption`. Its invariants:

1. `Honest`: only a hand or a command on record moves the relay, every request holds what its step says, and what is
   shown is explained; hence `MoveIsExplained`. `Forward` adds that of the present load one refresh at most is on its
   way, and then the flag is set, and that it brings nothing older than what is shown; hence `PictureNeverGoesBack`.
2. `Bathed`: the readings of a run are what the devices answered, without the offsets the file holds; and what is in the
   file after a paste brings each device to the target, whatever was in it before. Hence `UsableCalibrationMeetsReference`, with the means of a bath as lemmas (`MeanIs`, `MeansAddUp`).
3. `Recorded`: the last probe and the last cycle say what the installation answers under the configuration they had. Hence
   `OneReadingOneValue`: kind by kind, what the probe shows is the row the recorder makes.
4. What can be built from an accepted document needs no invariant but the types and the names of the file (`NamesKept`): the registry grows by one
   entry at a time (`GrowthIs`, `NoTwo`, `RegistryIs`); of the three runs of requests exactly one asks for a read,
   once (`OneAsks`, `OneInThree`, `PlannedOnce`); and request ids meet only where the bits of a bus go by the name of another
   bus that is read (`OnlyBitsClash`, `RaisesWhen`). Hence `AcceptedConfigurationBuilds`.
5. `Numbered`: tokens, loads and commands count up to what the budget allows. Hence `TypeOK`.

Only model-checked: liveness, which is out of the prover's reach, as ENABLED is: `EveryCallerReleased`,
`ExchangesEnd` and `PictureCatchesUp`.

## 6. Findings

Under which conditions the statements refuted here do hold is proved for 1 to 5 (section 5).

1. A serial port that cannot be opened raises past the guard: an intent without outcome, and no crash.
2. A lost echo, and a crash between the write and its record, let a relay be operated inside its interval.
3. `docs/PORT_LOCK.md` says a lost race fails; two reads of the same shape swap answers and succeed. The half of the
   claim about writes holds: `ConfirmedMeansCarriedOut`, also without the lock.
4. `SerialBus` leaves one lock descriptor open per exchange; at the limit the lock is silently off.
5. No flush before a request: an answer that comes after the serial timeout stays in the buffer of the poller's
   long-lived port and is returned, with a valid CRC and under the lock, for the next read of the same shape, and so on with
   each read after it; one damaged header byte shifts the port by part of a frame, to the same effect a few reads later.
6. `runtime.py:274` and `docs/ACQUISITION_RUNTIME.md:87` have a database that cannot be written end the recording;
   the handler below the comment catches every `Exception`, so the run goes on to the next cycle (and exits with 2).

Things a reader should know besides, met while modelling and not made into runs.

*Recording and control.* `docs/PROVENANCE.md:91` promises what was in effect when a reading was
taken: that fails when a recorder runs on with its old configuration while another has opened a new epoch, and when the
clock is set back. Two sessions that open at once may write the same epoch twice. The fingerprint leaves out the data type,
the quantity and the source of a read, and `compare` keeps one of two reads of one sensor. A signal during the sleep
lets one more cycle run before the loop ends (`docs/ACQUISITION_RUNTIME.md:75` has it stop after the current one).
The interval counts from the decision's clock reading, so the physical
spacing of two operations can be shorter by the time the first waited for the bus; and a restart of the poller, which reopens
its port, is what clears a shifted buffer. An `append` that loses a race raises `sqlite3.IntegrityError`, neither of the two
outcomes its docstring names.

*Reports.* The warning about corrections is made before the report and from the start of the coverage: a row recorded in
between is in the figures and may be of an epoch the warning did not know. It covers the window of the report, not the
readings before it that `--before` adds to an event. Counts are taken after the figures (`CountsNeverFallShort` bounds what that does).
A bucket report looks for readings of before 1970 in a statement of its own (`reporting.py:404`); one that is recorded between it and
the aggregation is misplaced in silence, which the docstring at `reporting.py:1130` says a report must not do: it is counted in the interval
at the epoch or an earlier one, never lost, and no later interval is touched (`BucketsAgree`). Where the clocks change inside a bucket its label is the smallest offset in SQL and the first in Python, and "oldest
first" can invert. Runs at the edges of the window or of a gap become events like any other. Windows of events
may overlap, so a pooled mean can count a reading twice, and the baseline does not include a window that reaches before the
start. `--cost` is ignored with `--minus`, `--bucket`, `--runs` and `--events`, and with a gate it takes the whole span of the counter.

*Connectivity.* A sensor with few readings is "new", hence healthy, for ever; with three readings one outage is half of the
gaps; a bus whose sensors are all late is called stopped; a sensor whose unit was edited is judged by one of its units.

*Backup.* A copy is compared with a count taken after it, so rows recorded in between make a sound copy a `MISMATCH`.

*Page and configuration.* `send()` says it re-reads the bus "either way" (`assets/control.js:81`), but its refresh is dropped while one is
in flight: the page catches up with the next timer. An open page never recovers from a restart of the service until it is
loaded again. The surface keeps the configuration it was started with while a recorder of the timer reads the file each minute, so
the probe and the record may differ until the surface is restarted (`OneReadingOneValue` compares them under one
configuration). A configuration is accepted, and raises when the recorder builds its plan, if a register read has a scale of
zero or a scale or offset that is not finite, a quantity outside 1 to 125, a unit above 255 or an address above 65535, or if
a bus with bits, `port`, stands beside a bus called `port:bits` that is read. A bit with such a unit or address ends every cycle
at that bit, for the exception is none that `_bit_executor_for` catches (`runtime.py:416`); and the probe then shows no
result of any sensor, only that it failed, as it does for such a register (but not for a scale). A probe that fails in every round of a calibration is left out, where `geopilot_calibrate.py:94` says it is refused by name.

## 7. Not modelled

Rendering (dashboard, dossier, report text, CSV, export); Host and Origin checks and request bodies; validation of
single values and serialisation; floating point (means and offsets are exact here); the totals of run
reports and the pooled means of event reports; the rates without blocks and the fuel comparison; schema versions of
the databases; two surfaces on one journal (a second one cannot bind the address); a sensor whose unit changes; simulated scenarios, hardware and firmware
placeholders, the dataclasses and protocols at the Modbus boundary.
