----------------------------- MODULE KioModule -----------------------------
(***************************************************************************)
(* Loading and unloading the driver: kio_init() and kio_exit() of          *)
(* driver/kio_main.c, which call kio_config_init(), kio_io_init(),         *)
(* kio_io_exit() and kio_config_exit(), while users are in the sysfs files *)
(* or run a workload.  The store handlers are single steps here, KioConfig *)
(* has them in detail, and a user writes the files of a thread's directory *)
(* in one go.                                                              *)
(***************************************************************************)
EXTENDS KioFields, Sequences

CONSTANTS
  Users,          \* processes that use the sysfs files
  Cpus,           \* num_online_cpus()
  DevSize,        \* the size of the device in bytes
  NumThreadsArgs, \* what is written to num_threads,
  SecondsArgs,    \* to runtime_seconds,
  Values,         \* and to the files of a thread, see IsAssignment
  BiosetPointer,  \* the build uses bioset_create(), not bioset_init()
  Faults          \* what may fail, see FaultKinds

\* kobject_create_and_add() and sysfs_create_file() of kio_config_init(); the
\* steps of kio_io_init(), where "name" is a missing block_device (strim() of a
\* failed kstrdup() follows the null pointer before the test of it, and is left
\* out); kzalloc() of the array, creating the threads; what KioRun has in detail:
\* starting a run, a thread of it, a submission, and stopping a thread that is
\* not there.
FaultKinds == {"kobj", "file", "name", "open", "queue", "size", "bio_set",
               "array", "setup", "run", "submit", "stop"}

\* What is written to the files of a thread: numbers to some of them, and after
\* them perhaps something that kstrtol() takes for no number.
IsAssignment(v) ==
  /\ DOMAIN v.set \subseteq ThreadVars
  /\ \A f \in DOMAIN v.set : v.set[f] \in Int
  /\ v.number \in BOOLEAN

ASSUME KioModuleAssumption ==
  /\ Cpus \in Nat \ {0}
  /\ DevSize \in Nat
  /\ NumThreadsArgs \subseteq Nat
  /\ SecondsArgs \subseteq Int
  /\ \A v \in Values : IsAssignment(v)
  /\ BiosetPointer \in BOOLEAN
  /\ Faults \subseteq FaultKinds

VARIABLES
  mod,            \* where loading or unloading is
  files,          \* how many of the files of /sys/kernel/kio there are
  held,           \* what kio_io_init() took and has not been given back
  dev_byte_size,  \* kio_io.dev_byte_size: whether it is set
  runtime_seconds,
  num_threads,
  threads,        \* kio_config.threads: "null" or "live"
  tconf,          \* what the array holds
  kio_running,
  in,             \* the handler each user is in
  misuse,         \* what was used or missed although it was gone, or stayed
                  \* although it should have gone, since the last load
  raced           \* history: somebody was in a handler of the module while it
                  \* was being loaded or unloaded

ioVars   == <<held, dev_byte_size>>
confVars == <<runtime_seconds, num_threads, threads, tconf, kio_running>>
modVars  == <<mod, files, ioVars, confVars, in, misuse>>
vars     == <<modVars, raced>>

Tids == 0 .. Cpus - 1

Resources == {"dev_name", "bdev", "bio_set"}

\* The labels of kio_io_init() name where its error paths enter.
Loading == {"files", "name", "open", "queue", "size", "bio_set", "finalize",
            "err_put_back_bd", "err_no_queue", "err_release_dev_name"}

\* "drain" waits for the handlers in the files of kio.
Leaving == {"bioset_exit", "kfree", "blkdev_put", "clear", "destroy", "put",
            "drain"}

TopFiles == <<"num_threads", "runtime_seconds", "run_workload">>

\* In kio_run(): the run goes on, waits for ever, or the process that started
\* it died there.  All of them keep kio_config.mutex.
InRun == {"running", "hung", "dead"}

\* A process is also dead if it called a handler whose code was gone.
Handlers == {"out", "num_threads", "runtime_seconds", "run_workload", "var"}
              \cup InRun

\* Every variable keeps its type.
TypeOK ==
  /\ mod \in Loading \cup Leaving \cup {"unloaded", "loaded", "oops"}
  /\ files \in 0 .. 3
  /\ held \subseteq Resources
  /\ dev_byte_size \in BOOLEAN
  /\ runtime_seconds \in 0 .. KIO_MAX_RUNTIME_SECONDS
  /\ num_threads \in 0 .. Cpus
  /\ threads \in {"null", "live"}
  /\ tconf \in [Tids -> ThreadConfig]
  /\ kio_running \in BOOLEAN
  /\ in \in [Users -> Handlers]
  /\ misuse \in {"no", "device", "array", "files"}
  /\ raced \in BOOLEAN

Init ==
  /\ mod = "unloaded"
  /\ files = 0
  /\ held = {}
  /\ dev_byte_size = FALSE
  /\ runtime_seconds = 0
  /\ num_threads = 0
  /\ threads = "null"
  /\ tconf = [t \in Tids |-> ZeroConfig]
  /\ kio_running = FALSE
  /\ in = [u \in Users |-> "out"]
  /\ misuse = "no"
  /\ raced = FALSE

(***************************************************************************)
(* Loading.                                                                *)
(***************************************************************************)
Goes(from, to) == mod = from /\ mod' = to

May(fault) == fault \in Faults

\* insmod: fresh memory, the memset() and the mutex of kio_config_init(), and
\* the kobject of /sys/kernel/kio, whose name is taken if the directory of a
\* thread has kept the last one.
Insmod ==
  /\ mod = "unloaded"
  /\ \/ /\ threads = "null"
        /\ mod' = "files"
        /\ runtime_seconds' = 0
        /\ num_threads' = 0
        /\ tconf' = [t \in Tids |-> ZeroConfig]
        /\ kio_running' = FALSE
        /\ misuse' = "no"
        /\ UNCHANGED threads
     \/ /\ threads = "live" \/ May("kobj")
        /\ UNCHANGED <<mod, confVars, misuse>>
  /\ UNCHANGED <<files, ioVars, in>>

\* Mutant: goes on to the device one file too late.
CreateFile_oneMore ==
  /\ \/ /\ mod = "files"
        /\ files' = files + 1
        /\ mod' = IF files = Len(TopFiles) THEN "name" ELSE "files"
     \/ May("file") /\ Goes("files", "put") /\ UNCHANGED files
  /\ UNCHANGED <<ioVars, confVars, in, misuse>>

\* The next of the three files, usable at once.
CreateFile ==
  /\ \/ /\ mod = "files"
        /\ files' = files + 1
        /\ mod' = IF files' = Len(TopFiles) THEN "name" ELSE "files"
     \/ May("file") /\ Goes("files", "put") /\ UNCHANGED files
  /\ UNCHANGED <<ioVars, confVars, in, misuse>>

\* A step of kio_io_init() that takes what, or fails and jumps to err.
Takes(from, what, to, err) ==
  /\ \/ Goes(from, to) /\ held' = held \cup what
     \/ May(from) /\ Goes(from, err) /\ UNCHANGED held
  /\ UNCHANGED <<files, dev_byte_size, confVars, in, misuse>>

Gives(from, what, to) ==
  /\ Goes(from, to)
  /\ held' = held \ {what}
  /\ UNCHANGED <<files, dev_byte_size, confVars, in, misuse>>

\* Mutant: the failure of the bio set does not give the device back.
IoInit_keepsDevice ==
  \/ Takes("name", {"dev_name"}, "open", "destroy")
  \/ Takes("open", {"bdev"}, "queue", "err_release_dev_name")
  \/ Takes("queue", {}, "size", "err_no_queue")
  \/ Takes("size", {}, "bio_set", "err_put_back_bd")
  \/ Takes("bio_set", {"bio_set"}, "finalize", "err_release_dev_name")

IoInit ==
  \/ Takes("name", {"dev_name"}, "open", "destroy")
  \/ Takes("open", {"bdev"}, "queue", "err_release_dev_name")
  \/ Takes("queue", {}, "size", "err_no_queue")
  \/ Takes("size", {}, "bio_set", "err_put_back_bd")
  \/ Takes("bio_set", {"bio_set"}, "finalize", "err_no_queue")

Finalize ==
  /\ Goes("finalize", "loaded")
  /\ dev_byte_size' = TRUE
  /\ UNCHANGED <<files, held, confVars, in, misuse>>

\* err_put_back_bd: the bio set does not exist yet.  bioset_exit() takes a
\* zeroed set, bioset_free() follows the null pointer.
PutBackBd ==
  /\ Goes("err_put_back_bd", IF BiosetPointer THEN "oops" ELSE "err_no_queue")
  /\ UNCHANGED <<files, ioVars, confVars, in, misuse>>

IoInitError ==
  \/ PutBackBd
  \/ Gives("err_no_queue", "bdev", "err_release_dev_name")
  \/ Gives("err_release_dev_name", "dev_name", "destroy")

(***************************************************************************)
(* Unloading.                                                              *)
(***************************************************************************)
Rmmod ==
  /\ Goes("loaded", "bioset_exit")
  /\ UNCHANGED <<files, ioVars, confVars, in, misuse>>

IoExit ==
  \/ Gives("bioset_exit", "bio_set", "kfree")
  \/ Gives("kfree", "dev_name", "blkdev_put")
  \/ Gives("blkdev_put", "bdev", "clear")

\* The memset() of kio_io_exit().
ClearIo ==
  /\ Goes("clear", "destroy")
  /\ dev_byte_size' = FALSE
  /\ UNCHANGED <<files, held, confVars, in, misuse>>

\* Mutant: does not put the directories.
DestroyAllThreads_keepsThem ==
  /\ mod = "destroy"
  /\ mod' = IF num_threads > 0 /\ threads = "null" THEN "oops" ELSE "put"
  /\ UNCHANGED <<files, ioVars, confVars, in, misuse>>

\* Nobody is in the files of the threads, or in any file.
DirsUnused == \A u \in Users : in[u] # "var"
FilesUnused == \A u \in Users : in[u] = "out"

\* kio_config_destroy_all_threads(): follows the null array if num_threads is
\* set; else removes the directories, waiting for the handlers in their files,
\* and frees the array.
DestroyAllThreads ==
  /\ mod = "destroy"
  /\ IF num_threads > 0 /\ threads = "null"
       THEN mod' = "oops" /\ UNCHANGED threads
       ELSE /\ DirsUnused
            /\ mod' = "put"
            /\ threads' = "null"
  /\ UNCHANGED <<files, ioVars, runtime_seconds, num_threads, tconf, kio_running,
                 in, misuse>>

\* kobject_put(kio_kobj).  The directory of a thread holds a reference to it:
\* while there is one the put drops a reference and returns, and the module goes
\* although the files and the array stay.
PutKobj ==
  /\ mod = "put"
  /\ IF threads = "live"
       THEN mod' = "unloaded" /\ misuse' = "files" /\ UNCHANGED files
       ELSE mod' = "drain" /\ files' = 0 /\ UNCHANGED misuse
  /\ UNCHANGED <<ioVars, confVars, in>>

\* sysfs removes a file when nobody is in its handlers.
Drain ==
  /\ Goes("drain", "unloaded")
  /\ FilesUnused
  /\ UNCHANGED <<files, ioVars, confVars, in, misuse>>

ModStep ==
  \/ CreateFile \/ IoInit \/ Finalize \/ IoInitError
  \/ IoExit \/ ClearIo \/ DestroyAllThreads \/ PutKobj \/ Drain

(***************************************************************************)
(* The handlers, and a run.                                                *)
(***************************************************************************)
FileExists(f) ==
  IF f = "var" THEN threads = "live" ELSE \E k \in 1 .. files : TopFiles[k] = f

Enter(u, f) ==
  /\ in[u] = "out"
  /\ FileExists(f)
  /\ in' = [in EXCEPT ![u] = f]
  /\ UNCHANGED <<mod, files, ioVars, confVars, misuse>>

\* Mutant: a handler waits while the flag of a run is set.
MutexFree_flag == ~kio_running

\* kio_config.mutex is held throughout a run.
MutexFree == \A u \in Users : in[u] \notin InRun

\* A handler of the module, whose code is there, goes on.
Handles(u, from, to) ==
  mod # "unloaded" /\ in[u] = from /\ in' = [in EXCEPT ![u] = to]

Leaves(u, f) == Handles(u, f, "out")

\* Mutant: off by one, refuses as many threads as there are processors.
NumThreadsAccepted_offByOne(n) ==
  ~kio_running /\ num_threads = 0 /\ threads = "null" /\ n \in 1 .. Cpus - 1

NumThreadsAccepted(n) ==
  ~kio_running /\ num_threads = 0 /\ threads = "null" /\ n \in 1 .. Cpus

\* The array is not allocated; or it is, but creating the directories fails, as
\* it does once /sys/kernel/kio is being removed, and it is freed again.
NumThreadsStore(u, n) ==
  /\ Leaves(u, "num_threads")
  /\ MutexFree
  /\ \/ /\ NumThreadsAccepted(n)
        /\ num_threads' = n
        /\ \/ /\ mod # "drain"
              /\ threads' = "live"
              /\ tconf' = [t \in Tids |-> ZeroConfig]
           \/ /\ mod = "drain" \/ May("setup")
              /\ UNCHANGED <<threads, tconf>>
     \/ /\ ~NumThreadsAccepted(n) \/ May("array")
        /\ UNCHANGED <<num_threads, threads, tconf>>
  /\ UNCHANGED <<mod, files, ioVars, runtime_seconds, kio_running, misuse>>

\* What the file num_threads, and the files of a thread, read as.
NumThreadsShow == num_threads
ThreadVarShow(t) == tconf[t]

SecondsAccepted(seconds) ==
  ~kio_running /\ InRange(seconds, 1, KIO_MAX_RUNTIME_SECONDS)

RuntimeSecondsStore(u, seconds) ==
  /\ Leaves(u, "runtime_seconds")
  /\ MutexFree
  /\ runtime_seconds' = IF SecondsAccepted(seconds) THEN seconds ELSE runtime_seconds
  /\ UNCHANGED <<mod, files, ioVars, num_threads, threads, tconf, kio_running, misuse>>

\* What the writes of v leave in the configuration c of a thread.
Stored(c, v) ==
  [f \in ThreadVars |-> IF f \in DOMAIN v.set THEN Truncate(f, v.set[f]) ELSE c[f]]

\* Mutant: does not look up the thread of the directory, stores for all.
ThreadVarStore_all(u, t, v) ==
  /\ Leaves(u, "var")
  /\ tconf' = IF kio_running \/ t >= num_threads THEN tconf
              ELSE [s \in Tids |-> Stored(tconf[s], v)]
  /\ UNCHANGED <<mod, files, ioVars, runtime_seconds, num_threads, threads,
                 kio_running, misuse>>

ThreadVarStore(u, t, v) ==
  /\ Leaves(u, "var")
  /\ tconf' = IF kio_running \/ t >= num_threads THEN tconf
              ELSE [tconf EXCEPT ![t] = Stored(@, v)]
  /\ UNCHANGED <<mod, files, ioVars, runtime_seconds, num_threads, threads,
                 kio_running, misuse>>

\* What the checks before a run compare with.
DevByteSize == IF dev_byte_size THEN DevSize ELSE 0

\* kio_run_workload_store() gets as far as the checks of the threads.
RunChecked ==
  /\ ~kio_running
  /\ num_threads > 0 /\ threads = "live"
  /\ InRange(runtime_seconds, 1, KIO_MAX_RUNTIME_SECONDS)

\* The threads before t pass them.
ValidBefore(t) ==
  \A s \in 0 .. t - 1 : kio_config_is_valid(tconf[s], DevByteSize)

\* The threads are checked until one is refused, and corrected on the way.
CheckedConfig ==
  [t \in Tids |-> IF t < num_threads /\ ValidBefore(t)
                  THEN Corrected(tconf[t], DevByteSize) ELSE tconf[t]]

\* Mutant: takes the size of the device for granted.
RunAccepted_noDevice ==
  /\ RunChecked
  /\ \A t \in 0 .. num_threads - 1 : kio_config_is_valid(tconf[t], DevSize)

RunAccepted == RunChecked /\ ValidBefore(num_threads)

\* What kio_run() tests before it sets the flag.
SizesSupported == \A t \in 0 .. num_threads - 1 : tconf[t].block_size = 4096

\* kio_run() clears the flag at its end, but not if it fails before the first
\* thread was created.
RunWorkloadStore(u) ==
  /\ MutexFree
  /\ tconf' = IF RunChecked THEN CheckedConfig ELSE tconf
  /\ \/ /\ RunAccepted /\ SizesSupported
        /\ \/ Handles(u, "run_workload", "running")
           \/ May("run") /\ Leaves(u, "run_workload")
        /\ kio_running' = TRUE
     \/ /\ ~(RunAccepted /\ SizesSupported)
        /\ Leaves(u, "run_workload")
        /\ UNCHANGED kio_running
  /\ UNCHANGED <<mod, files, ioVars, runtime_seconds, num_threads, threads, misuse>>

\* A submission fails: the thread waits for it, and the run for the thread.
RunHangs(u) ==
  /\ May("submit")
  /\ Handles(u, "running", "hung")
  /\ UNCHANGED <<mod, files, ioVars, confVars, misuse>>

\* kthread_stop() of an error pointer, or of a thread that has returned.
RunCrashes(u) ==
  /\ May("stop")
  /\ Handles(u, "running", "dead")
  /\ UNCHANGED <<mod, files, ioVars, confVars, misuse>>

\* A thread of the run is there: of one that hangs or crashed, another thread.
ThreadRuns(u) ==
  /\ mod # "unloaded"
  /\ in[u] = "running" \/ (in[u] \in InRun /\ num_threads > 1)

\* An I/O of a run while the module is being unloaded: the device or the bio set
\* is used after it was given back; or the device has no size any more, the
\* submission fails and the run never ends.
RunIO(u) ==
  /\ ThreadRuns(u)
  /\ ~dev_byte_size \/ ~ {"bdev", "bio_set"} \subseteq held
  /\ misuse' = "device"
  /\ in' = IF in[u] = "running" /\ ~dev_byte_size THEN [in EXCEPT ![u] = "hung"]
           ELSE in
  /\ UNCHANGED <<mod, files, ioVars, confVars>>

\* The threads of a run read their configuration all the time.
RunReadsConfig(u) ==
  /\ ThreadRuns(u)
  /\ threads = "null"
  /\ misuse' = "array"
  /\ UNCHANGED <<mod, files, ioVars, confVars, in>>

RunEnds(u) ==
  /\ Leaves(u, "running")
  /\ kio_running' = FALSE
  /\ UNCHANGED <<mod, files, ioVars, runtime_seconds, num_threads, threads, tconf,
                 misuse>>

\* The files stayed and the code of their handlers is gone: whoever is in one of
\* them, or reads one, dies.
Orphaned == mod = "unloaded" /\ threads = "live"

HandlerFaults(u) ==
  /\ Orphaned
  /\ in[u] # "dead"
  /\ in' = [in EXCEPT ![u] = "dead"]
  /\ UNCHANGED <<mod, files, ioVars, confVars, misuse>>

HandlerStep(u) ==
  \/ \E n \in NumThreadsArgs : NumThreadsStore(u, n)
  \/ \E seconds \in SecondsArgs : RuntimeSecondsStore(u, seconds)
  \/ \E t \in Tids, v \in Values : ThreadVarStore(u, t, v)
  \/ RunWorkloadStore(u) \/ RunHangs(u) \/ RunCrashes(u)
  \/ RunIO(u) \/ RunReadsConfig(u) \/ RunEnds(u) \/ HandlerFaults(u)

History ==
  raced' = IF mod' = "loaded" \/ (mod = "unloaded" /\ mod' # mod) THEN FALSE
           ELSE raced \/ \E u \in Users : in'[u] # "out"

Next ==
  /\ \/ Insmod \/ Rmmod \/ ModStep
     \/ \E u \in Users :
          \/ \E f \in {"var", "num_threads", "runtime_seconds", "run_workload"} :
               Enter(u, f)
          \/ HandlerStep(u)
  /\ History

Spec == Init /\ [][Next]_vars

(***************************************************************************)
(* Properties.                                                             *)
(***************************************************************************)
\* A load that fails at any of its steps, and an unload, give back the device,
\* its name and the bio set.  They free the threads' array, remove every file and
\* leave nobody in a handler whose code is gone, unless threads were created
\* behind the back of the removal: then all of the files of kio stay.
UnloadedIsClean ==
  mod = "unloaded" =>
    /\ held = {} /\ ~dev_byte_size
    /\ \/ threads = "null" /\ files = 0 /\ FilesUnused
       \/ misuse = "files" /\ raced /\ threads = "live" /\ files > 0

\* The files are there before the device is, and until after it is gone; still
\* a run starts only with the device open, its bio set made and its threads
\* configured, and has them while the module stays loaded.
RunHasDevice ==
  \A u \in Users : in[u] = "running" =>
    /\ mod \notin Loading \cup {"unloaded"}
    /\ mod = "loaded" => /\ held = Resources /\ dev_byte_size
                         /\ threads = "live" /\ num_threads > 0

\* kio_exit() gives the device back before the files go.  Nothing is used after
\* it is gone, no run hangs for want of the device and no file outlives the
\* module, unless somebody was in a handler while the module was being loaded or
\* unloaded.
MisuseOnlyIfRaced == misuse # "no" => raced
=============================================================================
