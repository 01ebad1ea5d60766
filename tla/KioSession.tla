----------------------------- MODULE KioSession -----------------------------
(***************************************************************************)
(* kio.py: what a call of it does to the driver and reads from the kernel  *)
(* log.  Every user of KioModule is a process that runs the script, one    *)
(* call after the other: it reloads the module if the number of threads    *)
(* has to change, writes the files, runs the workload and parses the lines *)
(* the run printed.                                                        *)
(***************************************************************************)
EXTENDS KioModule, KioStats, FiniteSets

CONSTANTS
  Calls,         \* how kio.py is called, see CallType
  LogSize,       \* lines the kernel log holds
  Measured,      \* what the threads of a run may measure
  MaxSessions,   \* bound: calls of kio.py
  NoiseLines,    \* how many lines the messages of others have
  MaxNoise       \* bound: messages printed by others

\* --num-threads, --runtime, and what the configuration files and the command
\* line say of each thread.
CallType == [n : NumThreadsArgs, secs : SecondsArgs, vals : [Tids -> Values]]

ASSUME KioSessionAssumption ==
  /\ LogSize \in Nat \ {0}
  /\ MaxSessions \in Nat
  /\ MaxNoise \in Nat
  /\ NoiseLines \subseteq Nat \ {0}
  /\ Measured \subseteq [Tids -> Counters] /\ Measured # {}
  /\ Calls \subseteq CallType

VARIABLES
  py,            \* the call of kio.py of each user
  log,           \* the kernel log
  printed,       \* the lines ever printed
  sessions,      \* calls so far
  noise          \* messages of others so far

pyVars == <<py, log, printed, sessions, noise>>

allVars == <<vars, pyVars>>

\* A call: its place, its arguments, the next thread to write, the configuration
\* read back, the time of the last line before the run, and the results.  History:
\* the configuration that ran and for how long, the run (0 if it printed no
\* statistics), what it measured, whether start is known, whether the log kept the
\* run's lines, and whether no other call was under way.
NoReport == [summary |-> 0, threads |-> <<>>]

Idle == [pc |-> "idle", n |-> 0, secs |-> 0, vals |-> <<>>, i |-> 0, conf |-> <<>>,
         start |-> 0, report |-> NoReport, ran |-> <<>>, time |-> 0, own |-> 0,
         measured |-> <<>>, marked |-> TRUE, kept |-> TRUE, alone |-> TRUE]

Active(u) == py[u].pc \notin {"idle", "done", "failed"}

\* A line of the log: its time, 0 if the line shows none, and the run whose
\* result it is, named by the time of its summary.
LineOf(stamp, run, kind, tid) ==
  [stamp |-> stamp, run |-> run, kind |-> kind, tid |-> tid]

OtherLine(stamp) == LineOf(stamp, 0, "other", 0)

\* The kernel log drops its oldest lines.
Logged(lines) ==
  LET all == log \o lines
  IN  SubSeq(all, IF Len(all) > LogSize THEN Len(all) - LogSize + 1 ELSE 1, Len(all))

Prints(lines) == log' = Logged(lines) /\ printed' = printed + Len(lines)

PrintsNothing == UNCHANGED <<log, printed>>

\* What kio_run() prints when it has stopped its n threads.  One line, printed
\* before, stands for the lines of a run that are not results.
StatsLines(n) ==
  LET run == printed + n + 1
  IN  [k \in 1 .. n |-> LineOf(printed + k, run, "thread", k - 1)]
      \o <<LineOf(run, run, "summary", 0)>>

SessionInit ==
  /\ Init
  /\ py = [u \in Users |-> Idle]
  /\ log = <<>> /\ printed = 0
  /\ sessions = 0 /\ noise = 0

Sets(u, frame) == py' = [py EXCEPT ![u] = frame]
At(u, pc) == py[u].pc = pc
Goto(u, pc) == Sets(u, [py[u] EXCEPT !.pc = pc])
Fails(u) == Goto(u, "failed")

PyOnly == UNCHANGED <<modVars, log, printed, sessions, noise>>
Quiet == UNCHANGED <<log, printed, sessions, noise>>

(***************************************************************************)
(* Kio.__init__(): the number of threads, the reload, the run time.        *)
(***************************************************************************)
Begin(u, call) ==
  /\ ~Active(u) /\ in[u] = "out"
  /\ sessions < MaxSessions
  /\ sessions' = sessions + 1
  /\ py' = [w \in Users |->
              IF w = u THEN [Idle EXCEPT !.pc = "cur", !.n = call.n, !.secs = call.secs,
                                         !.vals = call.vals,
                                         !.alone = \A x \in Users \ {u} : ~Active(x)]
              ELSE [py[w] EXCEPT !.alone = @ /\ ~Active(w)]]
  /\ UNCHANGED <<modVars, log, printed, noise>>

\* read('num_threads') is None if there is no such file.
ReadCur(u) ==
  /\ At(u, "cur") /\ ~Orphaned
  /\ LET none == ~FileExists("num_threads") IN
     Goto(u, IF none \/ (NumThreadsShow > 0 /\ NumThreadsShow # py[u].n) THEN "unload"
             ELSE IF NumThreadsShow # py[u].n THEN "num_threads"
             ELSE "runtime_seconds")
  /\ PyOnly

\* make reload: rmmod if the module is listed, then insmod.
Unload(u) ==
  /\ At(u, "unload")
  /\ \/ mod = "unloaded" /\ Goto(u, "load") /\ UNCHANGED modVars
     \/ Rmmod /\ Goto(u, "unloading")
     \/ mod \notin {"unloaded", "loaded"} /\ Fails(u) /\ UNCHANGED modVars
  /\ Quiet

Load(u) ==
  /\ At(u, "load")
  /\ \/ Insmod /\ Goto(u, IF mod' = "unloaded" THEN "failed" ELSE "loading")
     \/ mod # "unloaded" /\ Fails(u) /\ UNCHANGED modVars
  /\ Quiet

\* A step of the insmod or rmmod that is under way.
ModuleStep ==
  /\ ModStep
  /\ py' = [u \in Users |->
       [py[u] EXCEPT !.pc =
          CASE @ = "unloading" /\ mod' = "unloaded" -> "load"
            [] @ = "loading" /\ mod' = "loaded" -> "num_threads"
            [] @ = "loading" /\ mod' = "unloaded" -> "failed"
            [] @ \in {"loading", "unloading"} /\ mod' = "oops" -> "failed"
            [] OTHER -> @]]
  /\ Quiet

\* write() opens the file, which may be gone, ...
Open(u, exists, f) ==
  /\ in[u] = "out"
  /\ \/ exists /\ Enter(u, f) /\ UNCHANGED py
     \/ ~(exists /\ FileExists(f)) /\ Fails(u) /\ UNCHANGED modVars
  /\ Quiet

\* ... and the store handler answers with an error or not.
WriteNumThreads(u) ==
  /\ At(u, "num_threads")
  /\ \/ Open(u, TRUE, "num_threads")
     \/ /\ NumThreadsStore(u, py[u].n)
        /\ Goto(u, IF threads = "null" /\ threads' = "live" THEN "runtime_seconds"
                   ELSE "failed")
        /\ Quiet

WriteRuntimeSeconds(u) ==
  /\ At(u, "runtime_seconds")
  /\ \/ Open(u, TRUE, "runtime_seconds")
     \/ /\ RuntimeSecondsStore(u, py[u].secs)
        /\ Goto(u, IF SecondsAccepted(py[u].secs) THEN "var" ELSE "failed")
        /\ Quiet

(***************************************************************************)
(* main(): the values given for each thread, the configuration read back,  *)
(* then run().                                                             *)
(***************************************************************************)
NextThread(u, error) ==
  Sets(u, [py[u] EXCEPT !.i = @ + 1, !.pc = IF error THEN "failed" ELSE @])

\* Whether a call writes to the files of a thread.
Writes(v) == DOMAIN v.set # {} \/ ~v.number

WriteThreadVar(u) ==
  /\ At(u, "var")
  /\ py[u].i < py[u].n
  /\ IF py[u].i \in Tids /\ Writes(py[u].vals[py[u].i])
       THEN \/ Open(u, py[u].i < num_threads, "var")
            \/ /\ ThreadVarStore(u, py[u].i, py[u].vals[py[u].i])
               /\ NextThread(u, kio_running \/ ~py[u].vals[py[u].i].number)
               /\ Quiet
       ELSE NextThread(u, FALSE) /\ PyOnly

\* get_config(): a file that is not there reads as None.
GetConfig(u) ==
  /\ At(u, "var") /\ ~Orphaned
  /\ py[u].i >= py[u].n
  /\ IF FileExists("num_threads")
       THEN Sets(u, [py[u] EXCEPT !.pc = "mark",
              !.conf = [t \in 0 .. NumThreadsShow - 1 |->
                          IF FileExists("var") THEN ThreadVarShow(t) ELSE <<>>]])
       ELSE Fails(u)
  /\ PyOnly

\* last_timestamp(); 0 stands for None.
LastTimestamp(u) ==
  /\ At(u, "mark")
  /\ Sets(u, [py[u] EXCEPT !.pc = "run_workload",
                !.start = IF log = <<>> THEN 0 ELSE log[Len(log)].stamp,
                !.marked = log = <<>> \/ log[Len(log)].stamp # 0])
  /\ PyOnly

\* The write of run_workload succeeds even if kio_run() fails.
WriteRunWorkload(u) ==
  /\ At(u, "run_workload")
  /\ \/ Open(u, TRUE, "run_workload")
     \/ /\ RunWorkloadStore(u)
        /\ \/ ~RunAccepted /\ Fails(u) /\ PrintsNothing
           \/ /\ RunAccepted
              /\ Sets(u, [py[u] EXCEPT
                   !.pc = IF in'[u] = "running" THEN "wait" ELSE "read",
                   !.ran = [t \in 0 .. num_threads - 1 |-> tconf'[t]],
                   !.time = runtime_seconds])
              /\ Prints(<<OtherLine(printed + 1)>>)
        /\ UNCHANGED <<sessions, noise>>

\* The run ends with its statistics, or early without them.
RunReturns(u) ==
  /\ At(u, "wait")
  /\ RunEnds(u)
  /\ \/ /\ Prints(StatsLines(num_threads))
        /\ \E m \in Measured :
             Sets(u, [py[u] EXCEPT !.pc = "read", !.own = printed', !.measured = m])
     \/ May("run") /\ Goto(u, "read") /\ Prints(<<OtherLine(printed + 1)>>)
  /\ UNCHANGED <<sessions, noise>>

RunStep(u) ==
  /\ RunIO(u) \/ RunReadsConfig(u) \/ RunHangs(u)
  /\ UNCHANGED py
  /\ Quiet

\* The process that makes the call dies: in kthread_stop(), in a handler whose code
\* is gone, or as it reads the file of one.
Dies(u) ==
  /\ Active(u)
  /\ \/ RunCrashes(u)
     \/ /\ in[u] # "out" \/ At(u, "cur") \/ (At(u, "var") /\ py[u].i >= py[u].n)
        /\ HandlerFaults(u)
  /\ Fails(u)
  /\ Quiet

Matches(start) == {k \in DOMAIN log : start # 0 /\ log[k].stamp = start}

\* Mutant: always all of the log.
LinesSince_all(start) == DOMAIN log

\* The places of the lines after the last that matches: of all the lines if none
\* does.
LinesSince(start) == {k \in DOMAIN log : \A j \in Matches(start) : j < k}

OfKind(lines, kind) == {k \in lines : log[k].kind = kind}

\* A later line replaces an earlier one.
Newest(lines) == log[CHOOSE k \in lines : \A j \in lines : j <= k].run

Parsed(lines) ==
  LET threadLines == OfKind(lines, "thread")
      tids == {log[k].tid : k \in threadLines}
  IN  [summary |-> Newest(OfKind(lines, "summary")),
       threads |-> [t \in tids |-> Newest({k \in threadLines : log[k].tid = t})]]

ParseResults(u) ==
  /\ At(u, "read")
  /\ LET lines == LinesSince(py[u].start)
         found == OfKind(lines, "summary") # {} /\ OfKind(lines, "thread") # {}
     IN  Sets(u, [py[u] EXCEPT
           !.pc = IF found THEN "done" ELSE "failed",
           !.kept = \A t \in DOMAIN py[u].ran : \E k \in DOMAIN log :
                      log[k].tid = t /\ log[k].kind = "thread" /\ log[k].run = py[u].own,
           !.report = IF found THEN Parsed(lines) ELSE @])
  /\ PyOnly

\* Somebody else prints; only the first line of a message shows a time.
Noise ==
  /\ noise < MaxNoise
  /\ noise' = noise + 1
  /\ \E n \in NoiseLines :
       Prints([k \in 1 .. n |-> OtherLine(IF k = 1 THEN printed + 1 ELSE 0)])
  /\ UNCHANGED <<modVars, py, sessions>>

ScriptStep(u) ==
  \/ ReadCur(u) \/ Unload(u) \/ Load(u)
  \/ WriteNumThreads(u) \/ WriteRuntimeSeconds(u) \/ WriteThreadVar(u)
  \/ GetConfig(u) \/ LastTimestamp(u) \/ WriteRunWorkload(u) \/ RunReturns(u)
  \/ ParseResults(u) \/ Dies(u)

SessionNext ==
  /\ \/ \E u \in Users :
          \/ \E call \in Calls : Begin(u, call)
          \/ ScriptStep(u) \/ RunStep(u)
     \/ ModuleStep
     \/ Noise
  /\ History

SessionSpec == SessionInit /\ [][SessionNext]_allVars

(***************************************************************************)
(* Properties.                                                             *)
(***************************************************************************)
\* Every variable keeps its type, and the log its size.
SessionTypeOK ==
  /\ TypeOK
  /\ Len(log) <= LogSize
  /\ printed >= Len(log)
  /\ \A u \in Users :
       /\ py[u].n \in NumThreadsArgs \cup {0}
       /\ py[u].start \in 0 .. printed /\ py[u].own \in 0 .. printed
       /\ py[u].kept \in BOOLEAN /\ py[u].alone \in BOOLEAN

\* The results a call shows are those of its own run, of every thread of it if
\* the log kept their lines, and of no other run: the log drops the old results
\* before it drops the line from which the call reads on.  Only if the last line
\* before the run showed no time may there be results of earlier runs: for
\* threads the run does not have, or if it failed.
ReportIsOwn ==
  \A u \in Users : At(u, "done") /\ py[u].alone =>
    LET f == py[u] IN
    /\ f.marked => f.own # 0 /\ DOMAIN f.report.threads \subseteq 0 .. f.n - 1
    /\ f.kept => 0 .. f.n - 1 \subseteq DOMAIN f.report.threads
    /\ f.own # 0 => /\ f.report.summary = f.own
                    /\ \A t \in DOMAIN f.report.threads :
                         t < f.n => f.report.threads[t] = f.own

\* The run of a call has as many threads and takes as long as it asked for,
\* whatever an earlier call left; the numbers it gave for a thread are there as
\* their fields hold them; and what ran is the configuration shown with the
\* results, but for the offset_high that the start of the run corrected.
RunsAsAsked ==
  \A u \in Users : py[u].own # 0 /\ py[u].alone =>
    LET f == py[u] IN
    /\ DOMAIN f.ran = 0 .. f.n - 1 /\ f.time = f.secs
    /\ DOMAIN f.conf = DOMAIN f.ran
    /\ \A t \in DOMAIN f.ran : /\ Stored(f.conf[t], f.vals[t]) = f.conf[t]
                               /\ f.ran[t] = Corrected(f.conf[t], DevSize)

\* A call that is alone fails only because the module could not be loaded or
\* unloaded; the number of threads, the run time or a value is refused; there was
\* no memory for the threads; the values, with those an earlier call left, make no
\* valid configuration; an earlier failure has left the driver unusable; its run
\* killed it or failed; or the log lost its results.
FailsForAReason ==
  [][\A u \in Users : Active(u) /\ py'[u].pc = "failed" /\ py[u].alone =>
       \/ mod' # "loaded"
       \/ py[u].n \notin 1 .. Cpus
       \/ py[u].secs \notin 1 .. KIO_MAX_RUNTIME_SECONDS
       \/ At(u, "num_threads") /\ NumThreadsAccepted(py[u].n) /\ "array" \in Faults
       \/ At(u, "var") /\ \E t \in 0 .. py[u].n - 1 : ~py[u].vals[t].number
       \/ At(u, "run_workload") /\ \E t \in 0 .. py[u].n - 1 :
                                     ~kio_config_is_valid(tconf[t], DevSize)
       \/ kio_running /\ py[u].pc \notin {"wait", "read"}
       \/ num_threads' > 0 /\ threads' = "null"
       \/ At(u, "wait") /\ in'[u] = "dead"
       \/ At(u, "read") /\ (py[u].own = 0 \/ ~py'[u].kept)]_allVars

\* When the insmod or rmmod that is under way can go on: it waits for those who
\* are in the files it removes.
ModCanStep ==
  /\ mod \in Loading \cup Leaving
  /\ mod = "destroy" => (num_threads > 0 /\ threads = "null") \/ DirsUnused
  /\ mod = "drain" => FilesUnused

\* When a call can: it waits for insmod and rmmod, for the mutex, and for its run.
CallCanStep(u) ==
  /\ Active(u) /\ py[u].pc \notin {"loading", "unloading"}
  /\ in[u] \in {"num_threads", "runtime_seconds", "run_workload"} =>
       MutexFree \/ Orphaned
  /\ At(u, "wait") => in[u] = "running"

\* Calls, writes, loads and unloads never all wait for each other: while a call
\* is under way one of them can go on, unless a run hangs or its process died, and
\* the mutex is never given back.
NoDeadlock ==
  (\E u \in Users : Active(u)) =>
    \/ ModCanStep \/ \E u \in Users : CallCanStep(u)
    \/ \E u \in Users : in[u] \in {"hung", "dead"}

(***************************************************************************)
(* The numbers shown.                                                      *)
(***************************************************************************)
\* The measurements of n threads that the lines show; TLC computes the set once.
ShownRight ==
  {mn \in {<<m, n>> : m \in Measured, n \in 1 .. Cpus} : ShowsAverages(mn[1], mn[2])}

\* Every thread's line shows its averages as long as its products fit their words,
\* and the summary's bandwidth and latencies lie between those of the threads if
\* the sums do too; its I/Os per second are too small by the number of threads.
ReportShowsAverages ==
  \A u \in Users : py[u].own # 0 =>
    <<py[u].measured, Cardinality(DOMAIN py[u].ran)>> \in ShownRight

\* The summary's I/Os per second are an average of those of the threads.
SummaryIopsIsAverage ==
  \A u \in Users : py[u].own # 0 =>
    LET tids == DOMAIN py[u].ran
        m == py[u].measured
    IN Between(SummaryLine(Totals(m, Cardinality(tids))).iops,
               {ThreadLine(m[t]).iops : t \in tids})
=============================================================================
