# TLA+ models of kio

kio is a Linux kernel module that runs an I/O workload against a block device
from inside the kernel and prints latencies and throughput. Its configuration
is a tree of sysfs files; `kio.py` writes them, starts a run and reads the
result from the kernel log. This directory holds TLA+ models of the driver and
of the script, TLC configurations that check them on small instances, and TLAPS
proofs of their safety properties for every instance.

## The system

| part | state | operations |
|---|---|---|
| `driver/kio_run.c`, run | `kio_running`, the array of `struct kio_thread`, `emergency_stop` | `kio_run()` creates, waits for, stops and joins one kthread per configured thread, sums up their statistics |
| `driver/kio_run.c`, thread | `dispatched`, `completed`, `clat_total`, `bio_wqh`, burst counters, `next_offset` | `kio_thread_fn()`: wait for room, take a page, choose direction and offset, wait for the burst before, submit, sleep; finally drain |
| `driver/kio_run.c`, completion | the same counters, from interrupt context | `kio_bio_completion()`: add the latency, update the counters, wake, release |
| `driver/kio_config.c` | `kio_config`: mutex, `num_threads`, `runtime_seconds`, `threads[]` with a kobject each | store handlers of `num_threads`, `runtime_seconds`, `run_workload` (under the mutex) and of 13 files per thread (without it); `kio_config_init()`, `kio_config_exit()` |
| `driver/kio_io.c` | `kio_io`: the device, its size and block size, the bio set | `kio_io_init()`, `kio_io_submit()`, `kio_io_exit()` |
| `driver/kio_main.c` | none of its own | module load and unload |
| `kio.py` | none but its arguments | reload the module if needed, write the files, run, parse the log |

`run_workload` calls `kio_run()` with the mutex held, after
`kio_config_is_valid()` checked every thread. The threads read their
configuration, which lives in `kio_config.threads`, throughout the run. Each
thread hands bios to the block layer, which calls `kio_bio_completion()`
concurrently with the thread, with other handlers and with `kio_run()`. Loading
makes the files before it opens the device, unloading gives the device back
before it removes the files. A call of `kio.py` is a sequence of reads and
writes of the files, and of the log before and after the run; nothing keeps two
calls apart.

What makes this hard: counters shared without a lock between a thread and its
handlers; three waits that end by a wakeup, a stop request or a signal; a stop
protocol over several threads, some of which may have failed; setup and loading
that fail half way; sysfs handlers that test a flag and act on it later, or run
while the module goes; arithmetic on windows, strides, bursts and words at their
boundaries; results that are found by searching a log of limited size.

## Modules

| module | models | lines of code |
|---|---|---|
| `KioWorkload` | the choice of the next I/O as operators | `kio_run.c` 84-179, 248-257 |
| `KioWords` | what the words of the driver's structures hold of a number, as operators | `kio_config.h` 27-41 |
| `KioValid` | the check of a thread's configuration, as operators | `kio_config.c` 20-153, `kio_io.h` 40-44 |
| `KioFields` | the files of a thread and the fields behind them, as operators | `kio_config.c` 160-174, 231-246, `kio_config.h` 10 |
| `KioSubmit` | the sector on the disk an offset becomes, as operators | `kio_io.c` 159-194, 216-285, `kio_compat.h` 171-196 |
| `KioIssue` | the sequence of I/Os one thread issues, from the stored configuration on | `kio_config.c` 46-153, `kio_run.c` 196-263 |
| `KioRun` | one call of `kio_run()`: caller, threads, handlers | `kio_run.c` 17-82, 181-437, `kio_io.c` 196-285 |
| `KioBench` | what a run promises, without counters, waits and handlers | |
| `KioRunBench` | the mapping under which `KioRun` implements `KioBench` | |
| `KioConfig` | the sysfs store handlers with several writers, step by step | `kio_config.c` 46-472 |
| `KioSettings` | what the sysfs files promise, without mutex, handlers and directories | |
| `KioConfigSettings` | the mapping under which `KioConfig` implements `KioSettings` | |
| `KioModule` | loading and unloading while users are in the files | `kio_main.c` 37-66, `kio_io.c` 25-157, `kio_config.c` 46-153, 186-249, 322-522, `kio_run.c` 236-265, 373-437 |
| `KioStats` | the printed numbers at the widths of their variables, as operators | `kio_run.c` 290-363, 429-431 |
| `KioSession` | calls of `kio.py`, composed with `KioModule` and `KioStats` | `kio.py` 20-210, `driver/Makefile` 40-49 |
| `KioRunProofs`, `KioRunThreadProofs`, `KioIssueProofs`, `KioConfigProofs`, `KioSessionProofs`, `KioReportProofs`, `KioStatsProofs`, `KioAveragesProofs` | proofs | |
| `MCKioRun`, `MCKioIssue`, `MCKioConfig`, `MCKioSession` | instances for TLC | |

`KioRun` and `KioIssue` look at the same loop from two sides. `KioRun` keeps
everything concurrent and drops offsets and time. `KioIssue` keeps the values
and drops the concurrency: `kio_thread_next_dir()` and
`kio_thread_next_offset()` touch only the thread's own fields, so what is issued
does not depend on when I/Os complete. In the same way `KioConfig` has the store
handlers in detail and `KioModule` has them as single steps, with what the
handlers cannot see: the module around them.

### KioRun

Every label of `pc` is a place of `kio_thread_fn()` between two accesses to
shared state, every label of `run.pc` one of `kio_run()`. `T_...` actions are
steps of a thread, `Run_...` of the caller, `C_...` of the completion handlers.
Handlers of one thread are interchangeable, so the model counts how many bios are
with the device (`queued`), have had their latency added (`timed`) and are past
the decrement of `dispatched` (`late`, by stage).

`wait_event_interruptible()` is one step that either goes on or falls asleep:
the kernel enqueues the task before it tests the condition, so a wakeup after
the test is not lost to the kernel's own code. `kthread_stop()` is two steps, the
request with its wakeup and the join. A kthread that is asked to stop before it
first runs never enters its function. Calling `kthread_stop()` on an error
pointer, or on a task that returned by itself and may be gone, leads to `oops`;
for a task that returned the call may also still work, so both can happen.

Abstracted: time (a run may end at any moment, and each latency is one unit so
that `clat_total` counts what was added to it); the submission latency and the run
time; offsets; the printed text. `kio_io_submit()` fails nondeterministically.

### KioBench and KioRunBench

`KioBench` is the run as the writer of `run_workload` may think of it: threads
that work, each with a number of I/Os outstanding per direction, a queue depth
that is kept, bursts that do not overlap with `burst_finish`, a thread that
leaves with nothing outstanding, a run that is over when all threads have left.
A signal to a thread relaxes this by what the code really does then: one I/O
beyond the depth, bursts that overlap, and leaving with I/Os under way. An I/O is
outstanding from its submission to the decrement of `dispatched`, and everything
else of `KioRun` (the waits, the pages, the stages of a handler, the stop
requests) is a stutter.

### KioValid, KioSubmit and KioIssue

The numbers are those of the code. `kio_config_is_valid()` corrects
`offset_high` even if a later check then refuses the configuration, hence
`Corrected`. The sums of the code are 64-bit unsigned; an `off_t` plus a block
size of at most 2^20 does not wrap there, so unbounded integers agree.
`rnd` is any natural number from `Draws`.

`KioIssue` starts with a stored configuration, validates it, and issues I/Os for
ever. `burst` is a history variable: how many I/Os and delays the burst has had.

`KioSubmit` follows an offset to a sector of the whole disk. The device may be a
partition; the block layer then adds its start (external), except that with
`io_submit_mode` 2 the driver does so itself. In builds for kernels before 5.11
`blk_partition_remap()` returns at once for just the bios that need it (line 179);
the model says so, and `StaysInPartition` names that case as its exception.

### KioConfig

Each writer has a frame: the handler it is in, its argument and its place. The
mutex is a variable. The thread files can be written as soon as the directory
exists; in the code each file appears a little later, so the model allows some
more behaviours. `kobj[t]` tells whether the directory of thread `t` is there, is
being removed (nobody can enter its files, those inside are waited for: `Drained`,
external sysfs behaviour), is gone, or was put while its pointer stayed.
`corrupt` records a kind of memory misuse. `kio_config_is_valid()` reads the fields
of a thread one by one, some of them twice, while the thread files can be written
to. The model does not have a step per read. `seen` holds every configuration that
a mixture of old and new values can make since the check of the thread began, each
group of tests may be answered by any of them (`R_Fit` before the cap of
`offset_high`, `R_Rest` after it), and `R_Cap` stores a cap computed from any of
them over whatever was stored meanwhile. `kio_run()` is `R_Size`, `R_Start` and
`R_End` or `R_SetupFails`; between `R_Start` and `R_End` lies everything that
`KioRun` models. A value of a thread file that is no number is the fault
`"number"`; for the other files it is the same as a number out of range. `Truncate`
cuts a value to the width and the sign of its field. `landed` is a history variable:
whether a thread store landed since the run's checks began, and how many landed in
the run.

### KioSettings and KioConfigSettings

`KioSettings` is the configuration as its users may think of it: a number of threads
that is set once, a runtime, stores that are admitted while nothing runs and land
some time later in an array that is there, and one run at a time, which begins with
a check of the threads: one after the other they are found to be runnable and have
their `offset_high` corrected, or the run is refused. It promises what the code can
keep: a store that was admitted before the run may land in it, and only such a store
(`clean` is then false) lets a run begin with threads the check has not seen. A run that cannot be
set up leaves the flag, after which nothing is admitted, set or run. In `KioConfig` a
store is admitted from its test of `kio_running` to its return, and the handler of
`run_workload` that holds the mutex tells the phase; the mutex, the refused writes
and the directories are stutters.

### KioModule

`mod` is where loading or unloading is: a label for each step of
`kio_config_init()`, `kio_io_init()` and the two exits, the labels of the code's
`goto` statements included. `held` is what `kio_io_init()` has taken. Users enter
and leave the files at any time a file exists; sysfs lets nobody into a file
that is being removed and waits for those inside (external). The directory of a
thread holds a reference on the directory of kio, so that `kobject_put()` does
not remove the files while there is one; the files and the array then outlive the
module (`Orphaned`), `kio` cannot be loaded again, and whoever is in one of the files
or reads one dies (`HandlerFaults`). `tconf` is the array. The numbers a user has for
a thread are written to its files in one go (`Stored`) and arrive cut to their
fields; the run checks and corrects them thread by thread until one is refused
(`CheckedConfig`). A run is one user in `running`; `RunIO` and `RunReadsConfig` are
what its threads do with a device or an array that is gone, `hung` is the run of
`run_hang`, and `dead` a process that died in `kthread_stop()`. Both keep the mutex,
and other threads of such a run go on. `raced` is a history variable.

### KioStats and KioSession

`KioStats` has the quotients of `kio_run_stats_thread()` and
`kio_run_stats_total()` modulo the sizes of their words, and the printed fixed
point numbers as `parse_results()` reads them, in thousandths. What they should be
is stated for numbers that fit: the products of each thread (`Fits`), and for the
summary also the sums (`FitTogether`), with no latencies from a thread that counted
nothing, which the race of `run_latency` could otherwise leave. The IOPS of the
summary are no average (`session_iops`), but what they are can be said exactly: the
n-th part of a number that lies between the IOPS of the n threads
(`SummaryIopsDivided`, where the products of the sums fit as well: `FitSummary`).

`KioSession` adds to `KioModule` one call of `kio.py` per user at a time, and the
kernel log. Every step of the script on the driver is an action of `KioModule`:
a write is `Open`, which enters the handler or fails, and the handler. `make
reload` is `Unload` and `Load` with the module's own steps between. A log line is
its time, its kind and the run it belongs to; the log drops its oldest lines, and
of a message of several lines only the first shows a time. `lines_since()` takes
the start time for a regular expression and looks for it anywhere in a line; the
model compares times. A start time that was not found is `None` in the code and 0
in the model. History fields of a call: what ran, what was measured, and whether
the call was alone. What a call has for the files of a thread is written thread by
thread, the values of the configuration file and of the command line together; the
code writes an option of the command line to all threads before the next option, so
that a call that fails on the way may leave other files written than in the model.
A failure to read the version file is left out: it needs the
module to go at that moment, and then the next write of the call fails instead.

## Runs

| run | configuration | what it shows | distinct states |
|---|---|---|---|
| `run_one_thread` | 1 thread, setup and page faults and signals, at most 4 I/Os, five workloads, fair | queue depth, burst separation, wakeups, drain, teardown; the waits and the run end; `KioBench` is implemented | 302,955 |
| `run_two_threads` | 2 threads, setup, page and submission faults, 2 I/Os each | counters and pages, after a failed submission too; the order of teardown; what the summary counts | 991,595 |
| `run_latency` | 1 thread, no fault | **violated**: the average latency | |
| `run_hang` | 1 thread, failing submissions | **violated**: the run ends | |
| `issue` | 160 configurations with windows at all ends of a partition, 108 mixes and burst lengths | offsets fit the device, the window and the partition; bursts are complete, one delay at most | 1,781 |
| `issue_low` | the windows of `issue` | **violated**: no I/O below `offset_low` | |
| `issue_delay` | the bursts of `issue` | **violated**: every burst is delayed | |
| `config_setup` | 3 writers, 2 processors, all faults | one setup, no use of a freed array | 437,208 |
| `config_runs` | 2 writers, 1 processor, runs and files that may fail, fair | what a run reads was checked and stays, but for stores under way; `KioSettings` is implemented; every write returns | 196,476 |
| `config_race` | 2 writers | **violated**: only the supported block size runs | |
| `session` | 2 users, 2 calls of `kio.py` of 7 kinds, 2 processors, all faults | clean unload, no run without a device, misuse only by calls that overlap a load or unload; own results, asked configuration, true averages; failures have a reason; calls, handlers and loads do not wait for each other | 680,589 |
| `session_iops` | 1 user, 1 call, 2 threads | **violated**: the summary's IOPS are an average | |

The six violated properties are disagreements between the code and what its
documentation says; `PROJECT.json` quotes the lines.

- `run_latency`: a handler decrements `dispatched` and is overtaken by the
  drain, the join and the statistics before it increments `completed`.
- `run_hang`: a failed `kio_io_submit()` does not take its count back.
- `issue_low`: a strided workload starts at 0 and rounds below `offset_low`.
- `issue_delay`: a burst in the same direction as the last one is not delayed.
- `config_race`: a store that tested `kio_running` before the run lands in it.
- `session_iops`: the IOPS of the summary are divided by the number of threads
  twice.

What the properties of `session` allow is as telling as what they forbid.
`MisuseOnlyIfRaced` names the circumstance in which unloading goes wrong, a user in
a file while the module is loaded or unloaded, and `UnloadedIsClean` what then may
stay behind. `NoDeadlock` excepts a run that hangs and a process that died in its
run: neither gives the mutex back, and a later write waits for ever.
`FailsForAReason` includes the calls that fail because an earlier failure left
`kio_running` or `num_threads` set, or because a value that an earlier call left
makes no valid configuration with the new ones. `RunsAsAsked` says what a call can
rely on although the numbers are cut to their fields and `offset_high` is corrected
after the configuration was read back. `ReportIsOwn` says when a call can show
results of another run: only if the last line of the log before the run showed no
time. If instead the start line has been dropped from the log all of the log is
searched, but then every older result was dropped before it.

### Bounds

`MaxIO` bounds the I/Os of a thread. Four of them fill a queue of depth 2 twice,
give a burst of two followed by one of one and leave one to be caught by the
stop; nothing in the code distinguishes later I/Os. Two threads are the smallest
number for which one is stopped while another runs or has failed. Three writers
are needed for a second call of `num_threads` while a third is in a thread file.
The devices and windows of `MCKioIssue` are at the true sizes; they hold a few
strides each because the offsets then repeat.

`MaxSessions` is two calls, by the same user one after the other or by two at
once: the first leaves results, a configuration or a failure for the second. A
log of `LogSize` 7 lines holds the results of two runs of two threads, but not
with a message of others (`MaxNoise` 1) of five lines; one of two lines leaves a
last line without a time. The calls of `MCCalls` ask for one or two threads, with
numbers that are cut to their fields and an `offset_high` that is corrected; for a
single file, which is valid only with what an earlier call left; for a block size that
passes the check and is then not supported; for something that is no number; and for
three threads on two processors or no time at all. `U32`, `U64` and `NSEC_PER_SEC` are small because TLC
counts with 32 bits; the measurements of `MCMeasured` stay within the small words
as real ones do within the true ones, and the mutant that computes in `u32`
leaves them. There is one pair of measurements, of two threads that both did
something: nothing in the driver or the script depends on what was measured, and
`ReportShowsAverages` is proved for all measurements, those of a thread that did
nothing included.

The proofs remove these bounds for the properties they cover.

`CHECK_DEADLOCK FALSE` is used where the system really stops: after a failed
submission (`run_two_threads`, `run_hang`) the caller and the thread wait for
ever; in `session` and `session_iops` the calls come to their end. That calls do
not block each other before is the invariant `NoDeadlock` there. It says when a step of
the module (`ModCanStep`) or of a call (`CallCanStep`) is possible, instead of using
`ENABLED`, so that it can be proved.

### Fairness

`KioRun`: weak fairness of the caller, of each thread and of the handlers of each
thread. The scheduler runs a runnable task, and the block layer completes every
bio it accepted and runs the handler to its end. Signals and faults are not fair.

`KioConfig`: weak fairness of each handler, which takes for granted that a run
ends (`run_one_thread` shows it of `KioRun` as long as no submission fails;
`run_hang` shows that it may not end otherwise), and strong fairness of taking
the mutex: the kernel's mutex hands over to the longest waiter. Nothing says that
anybody writes.

`KioSession` has no fairness: a user may leave a call at any point.

## Proofs

All theorems hold for every value of the constants, under the assumptions named
in the modules: a positive number of threads or processors, a finite set of writers
that is not empty, configurations of the right type, a device of at least 1 GiB
(`kio_io_init()` refuses less), a logical block of 512 to 4096 bytes, a `u64` no
shorter than a `u32`, and words, seconds and a kernel log that are not empty.

- `KioRunProofs`: the accounting invariant. `dispatched` equals the bios in `queued`
  and `timed` plus the one about to be submitted plus a leaked one, and is not
  inductive alone: it needs that a thread that is not running has no bio in a
  pre-submission stage, that pages follow the same count, and where the caller may
  be while threads exist. It yields `TypeOK`, `DispatchedCountsInFlight`,
  `PagesAccounted`, `RunningCoversThreads` and `FlagClearedUnlessSetupFails`.
- `KioRunThreadProofs`: on top of it, `NoLostWakeup` (a thread asleep has its wait
  queue published, and a condition that came true has a handler in a stage before
  the wakeup), `QueueDepthRespected`, `DrainedAtExit`, `OopsOnlyAfterFailure` and
  `BurstFinishSeparates` (all bios in flight have the direction of the burst that
  is going on). `NoLostWakeup` also says that a thread asleep whose condition does not
  hold waits for an I/O in flight, unless its submission failed. `SummaryIsExact` is
  about the books behind the summary: `Ledger` says of each thread that `clat_total` is
  ahead of `completed` by the handlers between the two updates, so `Summary` can say
  that no sum of I/Os exceeds that of their latencies, whatever handlers still run
  while the threads are added up one after the other. Last comes `RunImplementsBench`, the refinement: each action of
  `KioRun` is shown to be one of `KioBench` or a stutter. The invariants say what the
  abstract guards ask for: `QueueDepthRespected` and `BurstFinishSeparates` hold
  after the submission, hence there was room before it; `DrainedAtExit` makes
  `Leave` possible, and the order of the joins makes `End` possible.
- `KioIssueProofs`: `OffsetInv` says where `next_offset` may stand within the
  window, `BurstInv` that the I/Os of a burst issued and left add up to its
  length. They yield `TypeOK`, the three offset properties, `OneDelayPerBurst`
  and `BurstsComplete`. `StaysInPartition` follows from the offsets and from a
  logical block being a whole number of sectors, so that no offset loses a
  remainder when it becomes a sector.
- `KioConfigProofs`: `ConfigInv` says for each handler what it relies on at its
  place: holding the mutex, the array being there, how much of it has been taken
  down, and that the directory of a thread whose file is being written exists;
  and that a directory implies the array. `MemorySafe`, `NumThreadsSetOnce` and
  `RunParametersStable` follow. `RunInv` adds what a run reads. While the flag is
  set no store passes its test, so the stores that landed in the run together with
  those that are past their test stay fewer than the writers, the runner being one
  of them: this sum, not the number of stores landed, is what no step can raise, and
  it gives `FewStoresLand`. While no store has landed `seen` is just the thread under
  check, so that its tests are those of `kio_config_is_valid()`, and up to the start of
  the run every thread that the check has gone through is as it left it; that gives
  `RunsCheckedConfig`. Its remaining part, that stores and the
  correction of `offset_high` keep the type of a configuration, completes `TypeOK`.
  `ConfigImplementsSettings` is the refinement of `KioSettings`. Besides `ConfigInv` and
  `RunInv` it needs `SettingsInv`: threads are set up and taken down while the flag is
  clear, and the check looks only at threads that are there.
  Last come the waits. `MutexIsReleased` says that the holder of the mutex is always in
  a handler that will unlock it, on the error paths too. `WritesNeverAllWait` is the
  part of `WritesReturn` that needs no fairness: the one place where a handler waits
  with the mutex held is the removal of a directory, and it waits for stores to the
  files of that directory, which take no mutex.
- `KioSessionProofs`: first `KioModule` by itself. `ModInv` says what is held at each
  label of loading and unloading, how many files there are, when there can be an
  array or a user in a handler or a run, that misuse has the cause listed, and what
  stays behind when threads are created after the directories were removed. Its parts need each other: a run cannot start while loading
  because `dev_byte_size` is set last and cleared before the array goes. Then the
  same for any calls of `kio.py`: since every step of the script on the driver is an
  action of `KioModule`, the lemmas about these actions carry over, and `CallsInv`
  adds that the numbers and values a call writes are those `KioModule` allows.
  `AloneInv` is about a call during which no other was under way: users are only in
  handlers the script has opened, nobody else is active, and at each place of the
  script the driver holds what was written so far, each number as its field has it. It
  needs that storing the same numbers twice is storing them once, and yields
  `RunsAsAsked`.
  `CountedInv` says that a run with statistics had threads and counters for each.
  `WaitsInv` says that what a call waits for is under way: its run, or the loading or
  unloading it has asked for. With `PlacesInv`, which says what handler a call is in
  at each place of the script, it yields `NoDeadlock` (`NobodyIsStuck`): the mutex is
  held by a run that can go on, or by one that hangs or has died.
- `KioReportProofs`: `LogInv` says that the log holds the last lines printed and that
  the time of a line is its place among all; `ReadsInv` that a call that is alone
  finds its start line unless it was dropped, and that after the start line there
  are no results but its own. Whatever was dropped, then, is older than what is
  kept, which gives `ReportIsOwn`, and with `AloneInv` `FailsForAReason` and
  `SessionTypeOK`. For `FailsForAReason` each step of the script that can fail is taken
  back to the test of the handler that refused it.
- `KioStatsProofs`: for all words and all measurements that fit,
  `ThreadLineIsAverage` says that what is printed of a thread and parsed again is its
  average, truncated; the printing loses nothing but the last three digits of the
  bandwidth. `SummaryLiesBetween` is about the sums: as long as they fit their words
  the totals are the true sums, and a quotient of sums lies between the quotients.
  Both facts are inductions over the threads, by the smallest element of the set of
  numbers that fail, which takes no induction theorem with a predicate as a
  parameter. `SummaryIopsAreDivided` is the same for the IOPS of the summary, before
  the code divides them by the number of threads a second time.
- `KioAveragesProofs`: `ReportShowsAverages`, from `CountedInv` and the theorems of
  `KioStatsProofs`.

Checked by TLC only: the liveness properties (`RunEnds`, `QdWaitEnds`,
`WritesReturn`), which need fairness. Every other property of the passing runs is proved.

## Not modelled

- `kio_compat.h` but for the variants above: it selects names and signatures of
  the kernel, many of them unused by this driver, and has no state.
- The build files, except `load` and `unload`; `test.sh` and `sweep.sh`, which only
  call `kio.py` and write the files.
- Of `kio.py` the arguments, the YAML and CSV files, sudo, and the text of the
  lines: pure input and output.
- The length of a delay, and all other time. That `schedule_timeout()` is called
  in a running task (`kio_run.c` line 253) is therefore out of reach.
- The status of a completed bio, which the driver does not look at.
- `kstrdup()` failing in `kio_io_init()`: `strim()` follows the null pointer before
  it is tested (`kio_io.c` line 45).
- `KioConfig` and `KioRun` as one specification. A run inside `R_Start` and `R_End`
  shares with the handlers only the flag and the configuration, and
  `RunParametersStable`, `RunsCheckedConfig` and `FewStoresLand` say what a run can
  rely on of these; their product is beyond TLC for instances in which both do
  something.
