-------------------------- MODULE KioSessionProofs --------------------------
(***************************************************************************)
(* Loading and unloading, for any number of users and processors and any   *)
(* faults; the calls of kio.py, which keep the invariant of the module     *)
(* they load, use and unload, however many there are; a call that is       *)
(* alone, which runs the threads and numbers it was given; and calls,      *)
(* handlers and unloads that wait for each other, but never all of them.   *)
(***************************************************************************)
EXTENDS KioSession, Integers, TLAPS

-----------------------------------------------------------------------------
(***************************************************************************)
(* Loading and unloading.  The invariant says for each place of them what  *)
(* has been taken, who may be in a handler and what a run relies on.       *)
(***************************************************************************)
\* From the load's last step to the memset() of kio_io_exit().
Sized == {"loaded", "bioset_exit", "kfree", "blkdev_put", "clear"}

\* The error paths enter where exactly what they give back has been taken.
HeldInv ==
  /\ mod \in {"finalize", "loaded", "bioset_exit"} => held = Resources
  /\ mod \in {"queue", "size", "bio_set", "err_put_back_bd", "err_no_queue",
              "kfree"} => held = {"dev_name", "bdev"}
  /\ mod \in {"open", "err_release_dev_name"} => held = {"dev_name"}
  /\ mod = "blkdev_put" => held = {"bdev"}
  /\ mod \in {"unloaded", "files", "name", "clear", "destroy", "put", "drain"} =>
       held = {}
  /\ dev_byte_size <=> mod \in Sized

FilesInv ==
  /\ mod = "drain" => files = 0
  /\ mod = "unloaded" => files = 0 \/ threads = "live"
  /\ mod = "files" => files < 3
  /\ mod \notin {"unloaded", "files", "put", "drain", "oops"} => files = 3

\* Threads that exist before the device, or are created while the module is
\* being unloaded, are the work of somebody who raced; they keep the files.
ThreadsInv ==
  /\ threads = "live" => num_threads > 0 /\ files > 0
  /\ mod = "drain" => threads = "null"
  /\ mod = "unloaded" /\ threads = "live" => misuse = "files"
  /\ mod \in {"files", "put", "unloaded"} /\ threads = "live" => raced

\* A run starts with the device there and keeps the array until it is destroyed,
\* after which no other can be made; whoever is in a handler of a module not
\* loaded has raced.
UserInv(u) ==
  /\ mod = "unloaded" /\ threads = "null" => in[u] = "out"
  /\ in[u] \in {"running", "hung"} => mod \notin Loading \cup {"unloaded"}
  /\ in[u] = "dead" => mod \notin Loading
  /\ in[u] \in InRun /\ mod \in Sized \cup {"destroy"} => threads = "live"
  /\ in[u] \in InRun /\ mod = "put" => threads = "null" /\ num_threads > 0
  /\ in[u] # "out" /\ mod # "loaded" => raced
  /\ in[u] # "out" /\ mod \notin {"unloaded", "drain"} => files > 0

UsersInv == \A u \in Users : UserInv(u)

MisuseInv == misuse # "no" => mod \notin Loading \cup {"loaded"} /\ raced

ModInv == TypeOK /\ HeldInv /\ FilesInv /\ ThreadsInv /\ UsersInv /\ MisuseInv

-----------------------------------------------------------------------------
(***************************************************************************)
(* The configuration of a thread.                                          *)
(***************************************************************************)
\* What kzalloc() leaves has the types of the fields.
LEMMA ZeroType == ZeroConfig \in ThreadConfig
  BY DEF ZeroConfig, ThreadConfig

\* So has what is made of a number.
LEMMA TruncateType ==
  ASSUME NEW x \in Int, NEW f \in ThreadVars
  PROVE  IF f \in {"offset_random", "burst_delay", "burst_finish"}
         THEN Truncate(f, x) \in BOOLEAN ELSE Truncate(f, x) \in Int
<1>1. Byte(x) \in Int /\ Word(x) \in Int /\ SignedWord(x) \in Int /\ Bit(x) \in BOOLEAN
  BY KioWordsAssumption DEF Byte, Word, SignedWord, Bit
<1>2. CASE f \in {"offset_random", "burst_delay", "burst_finish"}
  BY Zenon, <1>1, <1>2 DEF Truncate
<1>3. CASE f \notin {"offset_random", "burst_delay", "burst_finish"}
  BY <1>1, <1>3 DEF Truncate
<1> QED BY Zenon, <1>2, <1>3

\* A configuration is a function of the thread's files.
LEMMA ConfigFields ==
  ASSUME NEW c,
         c = [f \in ThreadVars |-> c[f]],
         \A f \in ThreadVars :
           IF f \in {"offset_random", "burst_delay", "burst_finish"}
           THEN c[f] \in BOOLEAN ELSE c[f] \in Int
  PROVE  c \in ThreadConfig
<1>1. /\ c.block_size \in Int /\ c.queue_depth \in Int /\ c.offset_stride \in Int
      /\ c.offset_low \in Int /\ c.offset_high \in Int
      /\ c.offset_random \in BOOLEAN /\ c.burst_delay \in BOOLEAN
      /\ c.burst_finish \in BOOLEAN /\ c.read_mix_percent \in Int
      /\ c.read_burst \in Int /\ c.write_burst \in Int
      /\ c.read_sleep_usec \in Int /\ c.write_sleep_usec \in Int
  BY DEF ThreadVars
<1>2. c = [block_size |-> c.block_size, queue_depth |-> c.queue_depth,
           offset_stride |-> c.offset_stride, offset_low |-> c.offset_low,
           offset_high |-> c.offset_high, offset_random |-> c.offset_random,
           burst_delay |-> c.burst_delay, burst_finish |-> c.burst_finish,
           read_mix_percent |-> c.read_mix_percent, read_burst |-> c.read_burst,
           write_burst |-> c.write_burst, read_sleep_usec |-> c.read_sleep_usec,
           write_sleep_usec |-> c.write_sleep_usec]
  BY DEF ThreadVars
<1> QED BY Zenon, <1>1, <1>2 DEF ThreadConfig

\* And every configuration is one.
LEMMA FieldsOfConfig ==
  ASSUME NEW c \in ThreadConfig, NEW f \in ThreadVars
  PROVE  IF f \in {"offset_random", "burst_delay", "burst_finish"}
         THEN c[f] \in BOOLEAN ELSE c[f] \in Int
  BY DEF ThreadConfig, ThreadVars

\* Writing to the files of a thread keeps its type.
LEMMA StoredType ==
  ASSUME NEW c \in ThreadConfig, NEW v, IsAssignment(v)
  PROVE  Stored(c, v) \in ThreadConfig
<1> DEFINE s == Stored(c, v)
<1>1. s = [f \in ThreadVars |-> s[f]]
  BY Zenon DEF Stored
<1>2. ASSUME NEW f \in ThreadVars
      PROVE  IF f \in {"offset_random", "burst_delay", "burst_finish"}
             THEN s[f] \in BOOLEAN ELSE s[f] \in Int
  <2>1. CASE f \in DOMAIN v.set
    <3>1. v.set[f] \in Int /\ s[f] = Truncate(f, v.set[f])
      BY Zenon, <2>1 DEF Stored, IsAssignment
    <3> QED BY Zenon, <3>1, TruncateType
  <2>2. CASE f \notin DOMAIN v.set
    <3>1. s[f] = c[f]
      BY Zenon, <2>2 DEF Stored
    <3> QED BY Zenon, <3>1, FieldsOfConfig
  <2> QED BY Zenon, <2>1, <2>2
<1> HIDE DEF s
<1>3. s \in ThreadConfig
  BY Zenon, <1>1, <1>2, ConfigFields
<1> QED BY Zenon, <1>3 DEF s

\* What a second write of the same numbers changes: nothing.
LEMMA StoredTwice ==
  ASSUME NEW c, NEW v
  PROVE  Stored(Stored(c, v), v) = Stored(c, v)
  BY Zenon DEF Stored

\* What a call without values for a thread changes: nothing either.
LEMMA StoredNothing ==
  ASSUME NEW c \in ThreadConfig, NEW v, ~Writes(v)
  PROVE  Stored(c, v) = c
<1>1. Stored(c, v) = [f \in ThreadVars |-> c[f]]
  BY Zenon DEF Stored, Writes
<1>2. c = [f \in ThreadVars |-> c[f]]
  BY DEF ThreadConfig, ThreadVars
<1> QED BY Zenon, <1>1, <1>2

\* The correction of offset_high keeps the type.
LEMMA CorrectedType ==
  ASSUME NEW c \in ThreadConfig, NEW size \in Nat
  PROVE  Corrected(c, size) \in ThreadConfig
<1>1. ASSUME NEW high \in Int PROVE [c EXCEPT !.offset_high = high] \in ThreadConfig
  BY Zenon DEF ThreadConfig
<1>2. size - c.block_size \in Int
  BY DEF ThreadConfig
<1> QED BY Zenon, <1>1, <1>2 DEF Corrected, CapHigh

\* No configuration is valid for a device without a size.
LEMMA NoDeviceNotValid ==
  ASSUME NEW c \in ThreadConfig
  PROVE  ~kio_config_is_valid(c, 0)
<1>1. c.offset_low \in Int /\ c.block_size \in Int
  BY DEF ThreadConfig
<1>2. kio_config_is_valid(c, 0) =>
        512 <= c.block_size /\ c.offset_low >= 0 /\ c.offset_low + c.block_size <= 0
  BY SMT DEF kio_config_is_valid, FitsDevice, VarsInRange, InRange, LowFits
<1> QED BY <1>1, <1>2

-----------------------------------------------------------------------------
\* What the steps of loading and unloading leave alone.
LEMMA ModStepFrame ==
  ASSUME Insmod \/ Rmmod \/ ModStep
  PROVE  /\ UNCHANGED in
         /\ Insmod \/ UNCHANGED <<runtime_seconds, num_threads, tconf, kio_running>>
         /\ Insmod \/ PutKobj \/ UNCHANGED misuse
<1>1. CASE Insmod
  BY Zenon, <1>1 DEF Insmod
<1>2. CASE Rmmod \/ CreateFile \/ IoInit \/ Finalize \/ IoInitError
  BY Zenon, <1>2 DEF Rmmod, CreateFile, IoInit, Takes, Finalize, IoInitError, PutBackBd,
     Gives, confVars
<1>3. CASE IoExit \/ ClearIo \/ DestroyAllThreads \/ PutKobj \/ Drain
  BY Zenon, <1>3 DEF IoExit, Gives, ClearIo, DestroyAllThreads, PutKobj, Drain, confVars
<1> QED BY Zenon, <1>1, <1>2, <1>3 DEF ModStep

\* The steps of a handler leave loading and unloading alone.
HandlerOrEnter(u) ==
  \/ \E f \in {"var", "num_threads", "runtime_seconds", "run_workload"} :
       Enter(u, f)
  \/ HandlerStep(u)

\* A handler and its entry leave the life of the module alone.
LEMMA HandlerFrame ==
  ASSUME NEW u \in Users, HandlerOrEnter(u)
  PROVE  UNCHANGED <<mod, files, held, dev_byte_size>>
<1>1. ASSUME NEW f, Enter(u, f) PROVE UNCHANGED <<mod, files, held, dev_byte_size>>
  BY Zenon, <1>1 DEF Enter, ioVars
<1>2. CASE HandlerStep(u)
  BY Zenon, <1>2 DEF HandlerStep, NumThreadsStore, RuntimeSecondsStore, ThreadVarStore,
     RunWorkloadStore, RunHangs, RunCrashes, RunIO, RunReadsConfig, RunEnds,
     HandlerFaults, ioVars
<1> QED BY Zenon, <1>1, <1>2 DEF HandlerOrEnter

-----------------------------------------------------------------------------
(***************************************************************************)
(* Steps of loading and unloading.                                         *)
(***************************************************************************)
\* The device, its name and the bio set are given back in the order of the
\* labels, so that every path ends with none.
LEMMA ModHeld ==
  ASSUME ModInv, Insmod \/ Rmmod \/ ModStep
  PROVE  HeldInv'
<1>1. HeldInv /\ mod \in Loading \cup Leaving \cup {"unloaded", "loaded", "oops"}
  BY Zenon DEF ModInv, TypeOK
<1>2. CASE Insmod \/ Rmmod \/ CreateFile \/ Finalize \/ PutBackBd
  BY <1>1, <1>2 DEF Insmod, Rmmod, CreateFile, Finalize, PutBackBd, Goes, ioVars,
     HeldInv, Sized
<1>3. CASE Takes("name", {"dev_name"}, "open", "destroy")
  BY Zenon, <1>1, <1>3 DEF Takes, Goes, HeldInv, Sized
<1>4. CASE Takes("open", {"bdev"}, "queue", "err_release_dev_name")
  BY Zenon, <1>1, <1>4 DEF Takes, Goes, HeldInv, Sized
<1>5. CASE \/ Takes("queue", {}, "size", "err_no_queue")
           \/ Takes("size", {}, "bio_set", "err_put_back_bd")
  BY <1>1, <1>5 DEF Takes, Goes, HeldInv, Sized
<1>6. CASE Takes("bio_set", {"bio_set"}, "finalize", "err_no_queue")
  BY Zenon, <1>1, <1>6 DEF Takes, Goes, HeldInv, Sized, Resources
<1>7. CASE \/ Gives("err_no_queue", "bdev", "err_release_dev_name")
           \/ Gives("err_release_dev_name", "dev_name", "destroy")
  BY <1>1, <1>7 DEF Gives, Goes, HeldInv, Sized
<1>8. CASE IoExit
  BY Zenon, <1>1, <1>8 DEF IoExit, Gives, Goes, HeldInv, Sized, Resources
<1>9. CASE ClearIo \/ DestroyAllThreads \/ PutKobj \/ Drain
  BY <1>1, <1>9 DEF ClearIo, DestroyAllThreads, PutKobj, Drain, Goes, ioVars,
     HeldInv, Sized
<1> QED BY Zenon, <1>2, <1>3, <1>4, <1>5, <1>6, <1>7, <1>8, <1>9
        DEF ModStep, IoInit, IoInitError

\* The steps that only take, give back or change the device.
Passes ==
  /\ UNCHANGED <<files, confVars, in, misuse>>
  /\ \/ mod \in Loading \ {"files"} /\ mod' \in Loading \ {"files"}
     \/ mod \in Loading \ {"files"} /\ mod' = "destroy"
     \/ mod = "finalize" /\ mod' = "loaded"
     \/ mod = "err_put_back_bd" /\ mod' = "oops"
     \/ mod \in Sized /\ mod' \in (Sized \ {"loaded"}) \cup {"destroy"}

\* The places between which loading and unloading move.
LEMMA ModMoves ==
  ASSUME Insmod \/ Rmmod \/ ModStep
  PROVE  \/ Insmod \/ CreateFile \/ DestroyAllThreads \/ PutKobj \/ Drain
         \/ Passes
<1>1. CASE Rmmod \/ Finalize \/ ClearIo
  BY Zenon, <1>1 DEF Passes, Rmmod, Finalize, ClearIo, Goes, Sized, Loading
<1>2. CASE IoInit
  BY Zenon, <1>2 DEF Passes, IoInit, Takes, Goes, May, Loading
<1>3. CASE IoInitError
  BY Zenon, <1>3 DEF Passes, IoInitError, PutBackBd, Gives, Goes, Loading
<1>4. CASE IoExit
  BY Zenon, <1>4 DEF Passes, IoExit, Gives, Goes, Sized
<1> QED BY Zenon, <1>1, <1>2, <1>3, <1>4 DEF ModStep

\* All places are different.
LEMMA Places ==
  /\ Loading \cap (Sized \cup {"unloaded", "destroy", "put", "drain", "oops"}) = {}
  /\ Sized \cap {"unloaded", "destroy", "put", "drain", "oops"} = {}
  /\ {"files", "finalize", "err_put_back_bd", "name"} \subseteq Loading
  /\ "loaded" \in Sized
  /\ Leaving = (Sized \ {"loaded"}) \cup {"destroy", "put", "drain"}
BY Zenon DEF Loading, Leaving, Sized

\* They keep the types.
LEMMA ModTyped ==
  ASSUME ModInv, Insmod \/ Rmmod \/ ModStep, History
  PROVE  TypeOK'
<1>1. TypeOK /\ FilesInv
  BY Zenon DEF ModInv
<1>2. /\ UNCHANGED in
      /\ runtime_seconds' \in 0 .. KIO_MAX_RUNTIME_SECONDS
      /\ num_threads' \in 0 .. Cpus /\ kio_running' \in BOOLEAN
      /\ tconf' \in [Tids -> ThreadConfig]
  <2>1. CASE Insmod
    <3>1. 0 \in 0 .. Cpus /\ 0 \in 0 .. KIO_MAX_RUNTIME_SECONDS
      BY KioModuleAssumption DEF KIO_MAX_RUNTIME_SECONDS
    <3> QED BY Zenon, <1>1, <2>1, <3>1, ZeroType DEF Insmod, TypeOK, confVars
  <2>2. CASE ~Insmod
    BY Zenon, <1>1, <2>2, ModStepFrame DEF TypeOK
  <2> QED BY Zenon, <2>1, <2>2, ModStepFrame
<1>3. held' \subseteq Resources /\ dev_byte_size' \in BOOLEAN
  <2>1. CASE Insmod \/ Rmmod \/ CreateFile \/ PutBackBd \/ DestroyAllThreads
               \/ PutKobj \/ Drain \/ Finalize \/ ClearIo
    BY Zenon, <1>1, <2>1 DEF TypeOK, Insmod, Rmmod, CreateFile, PutBackBd,
       DestroyAllThreads, PutKobj, Drain, Finalize, ClearIo, ioVars
  <2>2. CASE IoInit
    BY Zenon, <1>1, <2>2 DEF TypeOK, IoInit, Takes, Resources
  <2>3. CASE IoExit \/ IoInitError
    BY Zenon, <1>1, <2>1, <2>3 DEF TypeOK, IoExit, IoInitError, Gives
  <2> QED BY Zenon, <2>1, <2>2, <2>3 DEF ModStep
<1>4. raced' \in BOOLEAN
  BY Zenon, <1>1 DEF History, TypeOK
<1>5. /\ mod' \in Loading \cup Leaving \cup {"unloaded", "loaded", "oops"}
      /\ files' \in 0 .. 3
      /\ threads' \in {"null", "live"}
      /\ misuse' \in {"no", "device", "array", "files"}
  <2>1. CASE Insmod
    BY Zenon, <1>1, <2>1, Places DEF TypeOK, Insmod, confVars
  <2>2. CASE DestroyAllThreads \/ Drain
    BY Zenon, <1>1, <2>2, Places DEF TypeOK, DestroyAllThreads, Drain, Goes, confVars
  <2>3. CASE PutKobj
    BY <1>1, <2>3, Places DEF TypeOK, PutKobj, confVars
  <2>4. CASE CreateFile
    BY <1>1, <2>4, Places DEF TypeOK, FilesInv, CreateFile, confVars, Goes
  <2>5. CASE Passes
    BY Zenon, <1>1, <2>5, Places DEF Passes, TypeOK, confVars
  <2> QED BY Zenon, <2>1, <2>2, <2>3, <2>4, <2>5, ModMoves
<1> QED BY Zenon, <1>1, <1>2, <1>3, <1>4, <1>5 DEF TypeOK

\* The other conjuncts, which all depend on the same moves.
LEMMA ModOthers ==
  ASSUME ModInv, Insmod \/ Rmmod \/ ModStep, History
  PROVE  FilesInv' /\ ThreadsInv' /\ UsersInv' /\ MisuseInv'
<1>1. /\ TypeOK /\ FilesInv /\ ThreadsInv /\ UsersInv /\ MisuseInv
      /\ UNCHANGED in
  BY Zenon, ModStepFrame DEF ModInv
<1>2. mod' # "loaded" /\ (mod # "unloaded" \/ mod' = mod) =>
        (raced => raced') /\ \A u \in Users : in'[u] # "out" => raced'
  BY Zenon DEF History
<1>3. CASE Insmod
  <2>1. CASE mod' = "files"
    <3>1. /\ mod = "unloaded" /\ files' = files /\ threads = "null" /\ threads' = "null"
          /\ misuse' = "no"
      BY Zenon, <1>1, <1>3, <2>1 DEF Insmod
    <3>2. files' = 0 /\ \A u \in Users : in'[u] = "out"
      BY Zenon, <1>1, <3>1 DEF UsersInv, UserInv, FilesInv
    <3> QED BY <2>1, <3>1, <3>2, Places
            DEF FilesInv, ThreadsInv, UsersInv, UserInv, MisuseInv, InRun
  <2>2. CASE mod' # "files"
    <3>1. mod = "unloaded" /\ UNCHANGED <<mod, files, num_threads, threads, misuse>>
      BY Zenon, <1>3, <2>2 DEF Insmod, confVars
    <3> QED BY Zenon, <1>1, <1>2, <3>1, Places
            DEF FilesInv, ThreadsInv, UsersInv, UserInv, MisuseInv
  <2> QED BY Zenon, <2>1, <2>2
<1>4. CASE CreateFile
  <2>1. /\ mod = "files" /\ mod' \in {"files", "name", "put"}
        /\ mod' = "files" => files' < 3
        /\ mod' = "name" => files' = 3
        /\ files > 0 => files' > 0
        /\ UNCHANGED <<num_threads, threads, misuse>>
    BY <1>1, <1>4 DEF CreateFile, Goes, TopFiles, TypeOK, FilesInv, confVars
  <2>2. FilesInv' /\ ThreadsInv' /\ MisuseInv'
    BY Zenon, <1>1, <1>2, <2>1, Places DEF FilesInv, ThreadsInv, MisuseInv
  <2>3. \A u \in Users : in[u] \notin InRun
    BY Zenon, <1>1, <2>1, Places DEF UsersInv, UserInv, InRun
  <2>4. UsersInv'
    BY Zenon, <1>1, <1>2, <2>1, <2>3, Places DEF UsersInv, UserInv, InRun
  <2> QED BY Zenon, <2>2, <2>4
<1>5. CASE DestroyAllThreads
  <2>1. /\ mod = "destroy" /\ UNCHANGED <<num_threads, misuse, files>>
        /\ \/ mod' = "put" /\ threads' = "null"
           \/ mod' = "oops" /\ num_threads > 0 /\ threads = "null" /\ UNCHANGED threads
    BY Zenon, <1>5 DEF DestroyAllThreads
  <2>2. FilesInv' /\ ThreadsInv' /\ MisuseInv'
    BY Zenon, <1>1, <1>2, <2>1, Places DEF FilesInv, ThreadsInv, MisuseInv
  <2>3. \A u \in Users : in[u] \in InRun => num_threads > 0
    BY Zenon, <1>1, <2>1 DEF UsersInv, UserInv, ThreadsInv
  <2>4. UsersInv'
    BY Zenon, <1>1, <1>2, <2>1, <2>3, Places DEF UsersInv, UserInv
  <2> QED BY Zenon, <2>2, <2>4
<1>6. CASE PutKobj
  <2>1. /\ mod = "put" /\ UNCHANGED <<num_threads, threads>>
        /\ \/ /\ mod' = "unloaded" /\ misuse' = "files" /\ threads = "live"
              /\ UNCHANGED files
           \/ mod' = "drain" /\ files' = 0 /\ threads = "null" /\ UNCHANGED misuse
    BY Zenon, <1>1, <1>6 DEF PutKobj, TypeOK, confVars
  <2>2. FilesInv' /\ ThreadsInv' /\ MisuseInv'
    BY Zenon, <1>1, <1>2, <2>1, Places DEF FilesInv, ThreadsInv, MisuseInv
  <2>3. threads = "live" => \A u \in Users : in[u] \notin InRun
    BY Zenon, <1>1, <2>1 DEF UsersInv, UserInv
  <2>4. UsersInv'
    BY Zenon, <1>1, <1>2, <2>1, <2>3, Places DEF UsersInv, UserInv, InRun
  <2> QED BY Zenon, <2>2, <2>4
<1>7. CASE Drain
  <2>1. /\ mod = "drain" /\ mod' = "unloaded" /\ \A u \in Users : in[u] = "out"
        /\ UNCHANGED <<files, num_threads, threads, misuse>>
    BY Zenon, <1>7 DEF Drain, Goes, FilesUnused, confVars
  <2>2. threads = "null"
    BY Zenon, <1>1, <2>1 DEF ThreadsInv
  <2> QED BY <1>1, <1>2, <2>1, <2>2, Places
          DEF FilesInv, ThreadsInv, UsersInv, UserInv, MisuseInv, InRun
<1>8. CASE Passes
  <2>1. UNCHANGED <<files, num_threads, threads, misuse>>
    BY Zenon, <1>8 DEF Passes, confVars
  <2>2. FilesInv' /\ ThreadsInv'
    BY Zenon, <1>1, <1>8, <2>1, Places DEF Passes, FilesInv, ThreadsInv
  <2>3. UsersInv'
    BY Zenon, <1>1, <1>2, <1>8, <2>1, Places DEF Passes, UsersInv, UserInv, InRun
  <2>4. MisuseInv'
    BY Zenon, <1>1, <1>2, <1>8, <2>1, Places DEF Passes, MisuseInv
  <2> QED BY Zenon, <2>2, <2>3, <2>4
<1> QED BY Zenon, <1>3, <1>4, <1>5, <1>6, <1>7, <1>8, ModMoves

-----------------------------------------------------------------------------
(***************************************************************************)
(* Steps of the handlers.                                                  *)
(***************************************************************************)
\* What a handler does to its user and to what was misused: it leaves, starts a
\* run on a device with a size, hangs, dies, or misuses what an unload has taken
\* away.
Ends(u, where) == in' = [in EXCEPT ![u] = where]

Misuses ==
  \/ /\ misuse' = "device"
     /\ ~dev_byte_size \/ ~ {"bdev", "bio_set"} \subseteq held
  \/ misuse' = "array" /\ threads = "null"

HandlerMoves(u) ==
  \/ /\ mod # "unloaded" /\ in[u] # "out"
     /\ \/ Ends(u, "out") /\ UNCHANGED misuse
        \/ Ends(u, "running") /\ dev_byte_size /\ threads = "live" /\ UNCHANGED misuse
        \/ /\ in[u] = "running" /\ (Ends(u, "hung") \/ Ends(u, "dead"))
           /\ UNCHANGED misuse \/ Misuses
        \/ in[u] \in InRun /\ UNCHANGED in /\ Misuses
  \/ Orphaned /\ Ends(u, "dead") /\ UNCHANGED misuse

\* Every step of a handler is one of these.
LEMMA HandlerEffect ==
  ASSUME ModInv, NEW u \in Users, HandlerStep(u)
  PROVE  HandlerMoves(u)
<1>1. ASSUME NEW n \in NumThreadsArgs, NumThreadsStore(u, n) PROVE HandlerMoves(u)
  BY Zenon, <1>1 DEF NumThreadsStore, Leaves, Handles, HandlerMoves, Ends
<1>2. ASSUME NEW t \in Tids, NEW v \in Values, ThreadVarStore(u, t, v)
      PROVE  HandlerMoves(u)
  BY Zenon, <1>2 DEF ThreadVarStore, Leaves, Handles, HandlerMoves, Ends
<1>3. ASSUME NEW seconds \in SecondsArgs, RuntimeSecondsStore(u, seconds)
      PROVE  HandlerMoves(u)
  BY Zenon, <1>3 DEF RuntimeSecondsStore, Leaves, Handles, HandlerMoves, Ends
<1>4. CASE RunWorkloadStore(u)
  <2>1. CASE Leaves(u, "run_workload")
    BY Zenon, <1>4, <2>1 DEF RunWorkloadStore, Leaves, Handles, HandlerMoves, Ends
  <2>2. CASE ~Leaves(u, "run_workload")
    <3>1. /\ Handles(u, "run_workload", "running") /\ RunAccepted /\ UNCHANGED misuse
      BY Zenon, <1>4, <2>2 DEF RunWorkloadStore
    <3>2. num_threads \in 1 .. Cpus /\ tconf \in [Tids -> ThreadConfig] /\ 0 \in Tids
          /\ 0 \in 0 .. num_threads - 1
      BY <3>1, KioModuleAssumption DEF RunAccepted, RunChecked, ModInv, TypeOK, Tids
    <3>3. kio_config_is_valid(tconf[0], DevByteSize) /\ tconf[0] \in ThreadConfig
      BY Zenon, <3>1, <3>2 DEF RunAccepted, ValidBefore
    <3>4. dev_byte_size
      BY Zenon, <3>3, NoDeviceNotValid DEF DevByteSize
    <3> QED BY Zenon, <3>1, <3>4 DEF RunAccepted, RunChecked, Handles, HandlerMoves, Ends
  <2> QED BY Zenon, <2>1, <2>2
<1>5. CASE RunIO(u)
  <2>1. mod # "unloaded" /\ in[u] \in InRun /\ in[u] # "out" /\ Misuses
    BY Zenon, <1>5 DEF RunIO, ThreadRuns, Misuses, InRun
  <2> QED BY Zenon, <1>5, <2>1 DEF RunIO, HandlerMoves, Ends
<1>6. CASE RunReadsConfig(u)
  <2>1. mod # "unloaded" /\ in[u] \in InRun /\ in[u] # "out" /\ Misuses
    BY Zenon, <1>6 DEF RunReadsConfig, ThreadRuns, Misuses, InRun
  <2> QED BY Zenon, <1>6, <2>1 DEF RunReadsConfig, HandlerMoves
<1>7. CASE RunHangs(u) \/ RunCrashes(u)
  BY Zenon, <1>7 DEF RunHangs, RunCrashes, Handles, HandlerMoves, Ends
<1>8. CASE RunEnds(u) \/ HandlerFaults(u)
  BY Zenon, <1>8 DEF RunEnds, HandlerFaults, Leaves, Handles, HandlerMoves, Ends
<1> QED BY Zenon, <1>1, <1>2, <1>3, <1>4, <1>5, <1>6, <1>7, <1>8 DEF HandlerStep

\* The types of what the handlers store.
ConfTypes ==
  /\ runtime_seconds \in 0 .. KIO_MAX_RUNTIME_SECONDS
  /\ num_threads \in 0 .. Cpus /\ threads \in {"null", "live"}
  /\ tconf \in [Tids -> ThreadConfig] /\ kio_running \in BOOLEAN

\* The check before a run keeps the type of the configurations.
LEMMA CheckedType ==
  ASSUME tconf \in [Tids -> ThreadConfig]
  PROVE  CheckedConfig \in [Tids -> ThreadConfig]
<1>1. DevByteSize \in Nat
  BY Zenon, KioModuleAssumption DEF DevByteSize
<1> QED BY Zenon, <1>1, CorrectedType DEF CheckedConfig

\* What a handler does to the threads: num_threads creates them once.
LEMMA HandlerThreads ==
  ASSUME ModInv, NEW u \in Users, HandlerStep(u)
  PROVE  /\ ConfTypes'
         /\ \/ UNCHANGED <<num_threads, threads>>
            \/ /\ num_threads = 0 /\ threads = "null" /\ num_threads' > 0
               /\ mod = "drain" => threads' = "null"
               /\ mod # "unloaded" /\ in[u] # "out"
<1>1. ConfTypes
  BY Zenon DEF ModInv, TypeOK, ConfTypes
<1>2. ASSUME NEW n \in NumThreadsArgs, NumThreadsStore(u, n)
      PROVE  /\ num_threads' \in 0 .. Cpus /\ threads' \in {"null", "live"}
             /\ tconf' \in [Tids -> ThreadConfig]
             /\ UNCHANGED <<runtime_seconds, kio_running>>
             /\ \/ UNCHANGED <<num_threads, threads>>
                \/ /\ num_threads = 0 /\ threads = "null" /\ num_threads' > 0
                   /\ mod = "drain" => threads' = "null"
                   /\ mod # "unloaded" /\ in[u] # "out"
  <2>1. CASE NumThreadsAccepted(n) /\ num_threads' = n
    <3>1. n \in 0 .. Cpus /\ n > 0 /\ num_threads = 0 /\ threads = "null"
      BY <2>1, KioModuleAssumption DEF NumThreadsAccepted
    <3>2. mod # "unloaded" /\ in[u] # "out" /\ UNCHANGED <<runtime_seconds, kio_running>>
      BY Zenon, <1>2 DEF NumThreadsStore, Leaves, Handles
    <3>3. \/ mod # "drain" /\ threads' = "live" /\ tconf' = [t \in Tids |-> ZeroConfig]
          \/ UNCHANGED <<threads, tconf>>
      BY Zenon, <1>2 DEF NumThreadsStore
    <3>4. /\ threads' \in {"null", "live"} /\ tconf' \in [Tids -> ThreadConfig]
          /\ mod = "drain" => threads' = "null"
      BY Zenon, <1>1, <3>1, <3>3, ZeroType DEF ConfTypes
    <3> QED BY Zenon, <2>1, <3>1, <3>2, <3>4
  <2>2. CASE ~(NumThreadsAccepted(n) /\ num_threads' = n)
    BY Zenon, <1>1, <1>2, <2>2 DEF NumThreadsStore, ConfTypes
  <2> QED BY Zenon, <2>1, <2>2
<1>3. ASSUME NEW t \in Tids, NEW v \in Values, ThreadVarStore(u, t, v)
      PROVE  /\ UNCHANGED <<runtime_seconds, num_threads, threads, kio_running>>
             /\ tconf' \in [Tids -> ThreadConfig]
  <2>1. tconf' = tconf \/ tconf' = [tconf EXCEPT ![t] = Stored(tconf[t], v)]
    BY Zenon, <1>3 DEF ThreadVarStore
  <2>2. Stored(tconf[t], v) \in ThreadConfig
    BY Zenon, <1>1, KioModuleAssumption, StoredType DEF ConfTypes
  <2> QED BY Zenon, <1>1, <1>3, <2>1, <2>2 DEF ThreadVarStore, ConfTypes
<1>4. ASSUME NEW seconds \in SecondsArgs, RuntimeSecondsStore(u, seconds)
      PROVE  /\ UNCHANGED <<num_threads, threads, tconf, kio_running>>
             /\ runtime_seconds' \in 0 .. KIO_MAX_RUNTIME_SECONDS
  <2>1. SecondsAccepted(seconds) => seconds \in 0 .. KIO_MAX_RUNTIME_SECONDS
    BY KioModuleAssumption DEF SecondsAccepted, InRange, KIO_MAX_RUNTIME_SECONDS
  <2> QED BY Zenon, <1>1, <1>4, <2>1 DEF RuntimeSecondsStore, ConfTypes
<1>5. CASE RunWorkloadStore(u)
  <2>1. /\ UNCHANGED <<runtime_seconds, num_threads, threads>>
        /\ tconf' = CheckedConfig \/ tconf' = tconf
        /\ kio_running' = TRUE \/ kio_running' = kio_running
    BY Zenon, <1>5 DEF RunWorkloadStore
  <2> QED BY Zenon, <1>1, <2>1, CheckedType DEF ConfTypes
<1>6. CASE \/ RunEnds(u) \/ RunHangs(u) \/ RunCrashes(u) \/ RunIO(u)
           \/ RunReadsConfig(u) \/ HandlerFaults(u)
  <2>1. /\ UNCHANGED <<runtime_seconds, num_threads, threads, tconf>>
        /\ kio_running' = FALSE \/ kio_running' = kio_running
    BY Zenon, <1>6 DEF RunEnds, RunHangs, RunCrashes, RunIO, RunReadsConfig,
       HandlerFaults, confVars
  <2> QED BY Zenon, <1>1, <2>1 DEF ConfTypes
<1> QED BY Zenon, <1>1, <1>2, <1>3, <1>4, <1>5, <1>6 DEF HandlerStep, ConfTypes

\* A user enters a file that is there.
LEMMA EnterFiles ==
  ASSUME ModInv, NEW u \in Users, NEW f, Enter(u, f)
  PROVE  files > 0 /\ (mod = "unloaded" => threads = "live")
<1>1. files > 0
  <2>1. CASE threads = "live"
    BY Zenon, <2>1 DEF ModInv, ThreadsInv
  <2>2. CASE threads # "live"
    <3>1. PICK k \in 1 .. files : TopFiles[k] = f
      BY Zenon, <2>2 DEF Enter, FileExists
    <3>2. files \in 0 .. 3
      BY Zenon DEF ModInv, TypeOK
    <3> QED BY <3>1, <3>2
  <2> QED BY Zenon, <2>1, <2>2
<1>2. files # 0
  BY <1>1
<1> QED BY Zenon, <1>1, <1>2 DEF ModInv, FilesInv

\* A handler and its entry keep the invariant.
LEMMA HandlerKeeps ==
  ASSUME ModInv, NEW u \in Users, HandlerOrEnter(u), History
  PROVE  ModInv'
<1>1. /\ TypeOK /\ HeldInv /\ FilesInv /\ ThreadsInv /\ UsersInv /\ MisuseInv
      /\ in \in [Users -> Handlers]
      /\ misuse \in {"no", "device", "array", "files"}
      /\ raced \in BOOLEAN
  BY Zenon DEF ModInv, TypeOK
<1>2. UNCHANGED <<mod, files, held, dev_byte_size>>
  BY Zenon, HandlerFrame
<1>3. /\ raced' \in BOOLEAN
      /\ mod # "loaded" =>
           (raced => raced') /\ \A q \in Users : in'[q] # "out" => raced'
  BY Zenon, <1>1, <1>2 DEF History
<1>4. HeldInv'
  BY Zenon, <1>1, <1>2 DEF HeldInv
<1>5. ASSUME NEW f \in {"var", "num_threads", "runtime_seconds", "run_workload"},
             Enter(u, f)
      PROVE  ModInv'
  <2>1. /\ UNCHANGED <<runtime_seconds, num_threads, threads, tconf, kio_running, misuse>>
        /\ in' = [in EXCEPT ![u] = f] /\ files > 0
        /\ mod = "unloaded" => threads = "live"
    BY Zenon, <1>5, EnterFiles DEF Enter, confVars
  <2>2. TypeOK'
    BY <1>1, <1>2, <1>3, <2>1 DEF TypeOK, Handlers
  <2>3. FilesInv' /\ ThreadsInv' /\ MisuseInv'
    BY Zenon, <1>1, <1>2, <1>3, <2>1 DEF FilesInv, ThreadsInv, MisuseInv
  <2>4. f \notin InRun
    BY Zenon DEF InRun
  <2>5. ASSUME NEW q \in Users, q # u PROVE in'[q] = in[q]
    BY Zenon, <1>1, <2>1, <2>5
  <2>6. in'[u] = f
    BY Zenon, <1>1, <2>1
  <2>7. UsersInv'
    <3>1. threads = "null" => mod # "unloaded"
      BY Zenon, <2>1
    <3>2. f \notin {"running", "hung", "dead"}
      BY Zenon
    <3> QED BY Zenon, <1>1, <1>2, <1>3, <2>1, <2>4, <2>5, <2>6, <3>1, <3>2 DEF UsersInv, UserInv
  <2> QED BY Zenon, <1>4, <2>2, <2>3, <2>7 DEF ModInv
<1>6. CASE HandlerStep(u)
  <2>1. /\ ConfTypes'
        /\ \/ UNCHANGED <<num_threads, threads>>
           \/ /\ num_threads = 0 /\ threads = "null" /\ num_threads' > 0
              /\ mod = "drain" => threads' = "null"
              /\ mod # "unloaded" /\ in[u] # "out"
    BY Zenon, <1>6, HandlerThreads
  <2>2. HandlerMoves(u)
    BY Zenon, <1>6, HandlerEffect
  <2>3. \/ UNCHANGED misuse /\ UNCHANGED in
        \/ /\ \E where \in Handlers : Ends(u, where)
           /\ misuse' \in {misuse, "device", "array"}
        \/ UNCHANGED in /\ misuse' \in {"device", "array"}
    BY Zenon, <2>2 DEF HandlerMoves, Misuses, Handlers, InRun
  <2>4. TypeOK'
    <3>1. in' \in [Users -> Handlers] /\ misuse' \in {"no", "device", "array", "files"}
      BY Zenon, <1>1, <2>3 DEF Ends
    <3> QED BY Zenon, <1>1, <1>2, <1>3, <2>1, <3>1 DEF TypeOK, ConfTypes
  <2>5. in[u] # "out" => (mod # "loaded" => raced)
                           /\ (mod \notin {"unloaded", "drain"} => files > 0)
    BY Zenon, <1>1 DEF UsersInv, UserInv
  <2>6. /\ ~Orphaned => mod # "unloaded" /\ in[u] # "out"
        /\ mod = "unloaded" => Orphaned /\ UNCHANGED <<num_threads, threads, misuse>>
    BY Zenon, <2>1, <2>2 DEF HandlerMoves, Orphaned
  <2>7. FilesInv' /\ ThreadsInv'
    BY Zenon, <1>1, <1>2, <1>3, <2>1, <2>5, <2>6 DEF FilesInv, ThreadsInv
  <2>8. MisuseInv'
    <3>1. CASE UNCHANGED misuse
      BY Zenon, <1>1, <1>2, <1>3, <3>1 DEF MisuseInv
    <3>2. CASE ~UNCHANGED misuse
      <4>1. mod # "unloaded" /\ in[u] \in InRun /\ in[u] # "out" /\ Misuses
        BY Zenon, <2>2, <3>2 DEF HandlerMoves, InRun
      <4>2. mod \notin Loading \cup {"loaded"}
        BY Zenon, <1>1, <4>1, Places DEF Misuses, HeldInv, UsersInv, UserInv, InRun, Resources
      <4> QED BY Zenon, <1>2, <1>3, <2>5, <4>1, <4>2 DEF MisuseInv
    <3> QED BY Zenon, <3>1, <3>2
  <2>9. ASSUME NEW q \in Users, in'[q] = in[q] PROVE UserInv(q)'
    <3>1. /\ mod = "unloaded" => UNCHANGED <<num_threads, threads>>
          /\ threads = "live" => UNCHANGED <<num_threads, threads>>
          /\ num_threads > 0 => UNCHANGED <<num_threads, threads>>
      BY <2>1, <2>6
    <3> QED BY Zenon, <1>1, <1>2, <1>3, <2>9, <3>1 DEF UsersInv, UserInv
  <2>10. UserInv(u)'
    <3>1. CASE Ends(u, "out")
      <4>1. in'[u] = "out"
        BY Zenon, <1>1, <3>1 DEF Ends
      <4> QED BY Zenon, <4>1 DEF UserInv, InRun
    <3>2. CASE Ends(u, "running") /\ dev_byte_size /\ threads = "live"
      <4>1. in'[u] = "running"
        BY Zenon, <1>1, <3>2 DEF Ends
      <4>2. mod \in Sized /\ mod \notin Loading \cup {"unloaded", "put"}
        BY Zenon, <1>1, <3>2, Places DEF HeldInv
      <4>3. threads' = "live" /\ files > 0
        BY Zenon, <1>1, <2>1, <3>2 DEF ThreadsInv
      <4> QED BY Zenon, <1>2, <1>3, <4>1, <4>2, <4>3 DEF UserInv, InRun
    <3>3. CASE /\ mod # "unloaded" /\ in[u] = "running"
               /\ Ends(u, "hung") \/ Ends(u, "dead")
      <4>1. in'[u] \in {"hung", "dead"}
        BY Zenon, <1>1, <3>3 DEF Ends
      <4>2. UserInv(u) /\ in[u] \in InRun /\ in'[u] \in InRun
        BY Zenon, <1>1, <3>3, <4>1 DEF UsersInv, InRun
      <4>3. /\ threads = "live" => UNCHANGED <<num_threads, threads>>
            /\ num_threads > 0 => UNCHANGED <<num_threads, threads>>
        BY <2>1
      <4> QED BY Zenon, <1>2, <1>3, <3>3, <4>1, <4>2, <4>3 DEF UserInv
    <3>4. CASE UNCHANGED in
      BY Zenon, <2>9, <3>4
    <3>5. CASE Orphaned /\ Ends(u, "dead")
      <4>1. in'[u] = "dead" /\ mod = "unloaded" /\ threads' = "live"
        BY Zenon, <1>1, <2>6, <3>5 DEF Ends, Orphaned
      <4> QED BY Zenon, <1>2, <1>3, <4>1, Places DEF UserInv
    <3> QED BY Zenon, <2>2, <3>1, <3>2, <3>3, <3>4, <3>5 DEF HandlerMoves
  <2>11. UsersInv'
    <3>1. ASSUME NEW q \in Users, q # u PROVE in'[q] = in[q]
      BY Zenon, <1>1, <2>3, <3>1 DEF Ends
    <3> QED BY Zenon, <2>9, <2>10, <3>1 DEF UsersInv
  <2> QED BY Zenon, <1>4, <2>4, <2>7, <2>8, <2>11 DEF ModInv
<1> QED BY Zenon, <1>5, <1>6 DEF HandlerOrEnter

-----------------------------------------------------------------------------
\* Nothing is loaded at first.
LEMMA ModuleStarts == Init => ModInv
<1> SUFFICES ASSUME Init PROVE ModInv
  OBVIOUS
<1>1. TypeOK
  <2>1. 0 \in 0 .. Cpus /\ 0 \in 0 .. 3 /\ 0 \in 0 .. KIO_MAX_RUNTIME_SECONDS
    BY KioModuleAssumption DEF KIO_MAX_RUNTIME_SECONDS
  <2>2. in \in [Users -> Handlers] /\ tconf \in [Tids -> ThreadConfig]
    BY Zenon, ZeroType DEF Init, Handlers
  <2> QED BY Zenon, <2>1, <2>2 DEF Init, TypeOK
<1>2. HeldInv /\ FilesInv /\ ThreadsInv
  BY Zenon, Places DEF Init, HeldInv, FilesInv, ThreadsInv
<1>3. UsersInv /\ MisuseInv
  BY Zenon DEF Init, UsersInv, UserInv, MisuseInv, InRun
<1> QED BY Zenon, <1>1, <1>2, <1>3 DEF ModInv

\* Every step of loading and unloading keeps the invariant.
LEMMA LoadKeeps ==
  ASSUME ModInv, Insmod \/ Rmmod \/ ModStep, History
  PROVE  ModInv'
  BY Zenon, ModHeld, ModTyped, ModOthers DEF ModInv

\* Nothing happens to what does not change.
LEMMA StutterKeeps ==
  ASSUME ModInv, UNCHANGED vars
  PROVE  ModInv'
  BY DEF vars, modVars, ioVars, confVars, ModInv, TypeOK, HeldInv, FilesInv,
     ThreadsInv, UsersInv, UserInv, MisuseInv

\* The invariant implies each of the properties.
LEMMA CleanFromInv == ModInv => UnloadedIsClean
<1> SUFFICES ASSUME ModInv, mod = "unloaded"
             PROVE  /\ held = {} /\ ~dev_byte_size
                    /\ \/ threads = "null" /\ files = 0 /\ FilesUnused
                       \/ misuse = "files" /\ raced /\ threads = "live" /\ files > 0
  BY Zenon DEF UnloadedIsClean
<1>1. held = {} /\ ~dev_byte_size /\ threads \in {"null", "live"}
  BY Zenon, Places DEF ModInv, HeldInv, TypeOK
<1>2. CASE threads = "null"
  BY Zenon, <1>1, <1>2 DEF ModInv, FilesInv, UsersInv, UserInv, FilesUnused
<1>3. CASE threads = "live"
  BY Zenon, <1>1, <1>3 DEF ModInv, ThreadsInv
<1> QED BY Zenon, <1>1, <1>2, <1>3

\* In particular a run's device and threads.
LEMMA DeviceFromInv == ModInv => RunHasDevice
<1> SUFFICES ASSUME ModInv, NEW u \in Users, in[u] = "running"
             PROVE  /\ mod \notin Loading \cup {"unloaded"}
                    /\ mod = "loaded" => /\ held = Resources /\ dev_byte_size
                                         /\ threads = "live" /\ num_threads > 0
  BY Zenon DEF RunHasDevice
<1>1. UserInv(u) /\ in[u] \in InRun
  BY Zenon DEF ModInv, UsersInv, InRun
<1>2. mod = "loaded" => held = Resources /\ dev_byte_size
  BY Zenon, Places DEF ModInv, HeldInv
<1> QED BY Zenon, <1>1, <1>2, Places DEF ModInv, UserInv, ThreadsInv

\* In particular that misuse takes a race.
LEMMA RaceFromInv == ModInv => MisuseOnlyIfRaced
  BY Zenon DEF ModInv, UsersInv, UserInv, MisuseInv, MisuseOnlyIfRaced

-----------------------------------------------------------------------------
\* The invariant holds in every state of loading, use and unloading.
THEOREM ModuleInvariant == Spec => []ModInv
<1>1. ModInv /\ [Next]_vars => ModInv'
  <2> SUFFICES ASSUME ModInv, [Next]_vars PROVE ModInv'
    OBVIOUS
  <2>1. CASE (Insmod \/ Rmmod \/ ModStep) /\ History
    BY Zenon, <2>1, LoadKeeps
  <2>2. ASSUME NEW u \in Users, HandlerOrEnter(u), History PROVE ModInv'
    BY Zenon, <2>2, HandlerKeeps
  <2>3. CASE UNCHANGED vars
    BY Zenon, <2>3, StutterKeeps
  <2> QED BY Zenon, <2>1, <2>2, <2>3 DEF Next, HandlerOrEnter
<1> QED BY <1>1, ModuleStarts, PTL DEF Spec

\* A failed load and an unload give back the device, its name and the bio set, and
\* the array and the files too, with nobody left in a handler, unless threads were
\* created while the module came or went.
THEOREM UnloadGivesBack == Spec => []UnloadedIsClean
  BY ModuleInvariant, CleanFromInv, PTL

\* A run has its device and its threads while the module stays loaded, although
\* the files can be written before kio_io_init() has opened the device.
THEOREM RunsHaveTheirDevice == Spec => []RunHasDevice
  BY ModuleInvariant, DeviceFromInv, PTL

\* Nothing is used after kio_exit() gave it back, no file outlives the module and
\* no run lacks its device, unless a handler raced with a load or an unload.
THEOREM MisuseNeedsRace == Spec => []MisuseOnlyIfRaced
  BY ModuleInvariant, RaceFromInv, PTL

-----------------------------------------------------------------------------
(***************************************************************************)
(* Calls of kio.py and the module.                                         *)
(***************************************************************************)
\* A call writes what it was given: the frame of every call that has begun
\* holds arguments a user may give.
FrameFields == {"pc", "n", "secs", "vals", "i", "conf", "start", "report", "ran",
                "time", "own", "measured", "marked", "kept", "alone"}

HasArgs(f) ==
  f.n \in NumThreadsArgs /\ f.secs \in SecondsArgs /\ f.vals \in [Tids -> Values]

Given(f) == DOMAIN f = FrameFields /\ (f.pc = "idle" \/ HasArgs(f))

CallsInv == /\ py = [u \in Users |-> py[u]]
            /\ \A u \in Users : Given(py[u])

\* A step of the frame of one call that keeps what was given.
LEMMA GivenKept ==
  ASSUME CallsInv, NEW u \in Users, NEW f, Sets(u, f), Given(f)
  PROVE  CallsInv'
<1>1. py' = [w \in Users |-> IF w = u THEN f ELSE py[w]]
  BY Zenon DEF CallsInv, Sets
<1>2. \A w \in Users : Given(py'[w])
  BY Zenon, <1>1 DEF CallsInv
<1> QED BY Zenon, <1>1, <1>2 DEF CallsInv

\* A call that goes on, or fails, keeps what was given.
LEMMA GotoKeeps ==
  ASSUME CallsInv, NEW u \in Users, NEW pc, Goto(u, pc), ~At(u, "idle")
  PROVE  CallsInv'
<1>1. Given([py[u] EXCEPT !.pc = pc])
  BY Zenon DEF CallsInv, Given, HasArgs, FrameFields, At
<1> QED BY Zenon, <1>1, GivenKept DEF Goto

\* So does the script, whatever it does.
LEMMA ScriptKeeps ==
  ASSUME CallsInv, NEW u \in Users, ScriptStep(u)
  PROVE  CallsInv'
<1>1. /\ Given(py[u]) /\ DOMAIN py[u] = FrameFields
      /\ ~At(u, "idle") => HasArgs(py[u])
  BY Zenon DEF CallsInv, Given, At
<1>2. UNCHANGED py => CallsInv'
  BY Zenon DEF CallsInv
<1>3. CASE ReadCur(u)
  BY Zenon, <1>3, GotoKeeps DEF ReadCur, At
<1>4. CASE Unload(u) \/ Load(u)
  BY Zenon, <1>4, GotoKeeps DEF Unload, Load, Fails, At
<1>5. ASSUME NEW e, NEW f, Open(u, e, f), ~At(u, "idle") PROVE CallsInv'
  BY Zenon, <1>2, <1>5, GotoKeeps DEF Open, Fails
<1>6. CASE WriteNumThreads(u)
  BY Zenon, <1>5, <1>6, GotoKeeps DEF WriteNumThreads, At
<1>7. CASE WriteRuntimeSeconds(u)
  BY Zenon, <1>5, <1>7, GotoKeeps DEF WriteRuntimeSeconds, At
<1>8. CASE WriteThreadVar(u)
  <2>1. ASSUME NEW e, NextThread(u, e) PROVE CallsInv'
    <3>1. ~At(u, "idle")
      BY Zenon, <1>8 DEF WriteThreadVar, At
    <3>2. Given([py[u] EXCEPT !.i = @ + 1, !.pc = IF e THEN "failed" ELSE @])
      BY Zenon, <1>1, <3>1 DEF Given, HasArgs, FrameFields, At
    <3> QED BY Zenon, <2>1, <3>2, GivenKept DEF NextThread
  <2> QED BY Zenon, <1>5, <1>8, <2>1 DEF WriteThreadVar, At
<1>9. CASE GetConfig(u)
  <2>1. ~At(u, "idle")
    BY Zenon, <1>9 DEF GetConfig, At
  <2>2. ASSUME NEW c PROVE Given([py[u] EXCEPT !.pc = "mark", !.conf = c])
    BY Zenon, <1>1, <2>1 DEF Given, HasArgs, FrameFields, At
  <2> QED BY Zenon, <1>9, <2>1, <2>2, GivenKept, GotoKeeps DEF GetConfig, Fails
<1>10. CASE LastTimestamp(u)
  <2>1. ~At(u, "idle")
    BY Zenon, <1>10 DEF LastTimestamp, At
  <2>2. ASSUME NEW a, NEW b
        PROVE  Given([py[u] EXCEPT !.pc = "run_workload", !.start = a, !.marked = b])
    BY Zenon, <1>1, <2>1 DEF Given, HasArgs, FrameFields, At
  <2> QED BY Zenon, <1>10, <2>2, GivenKept DEF LastTimestamp
<1>11. CASE WriteRunWorkload(u)
  <2>1. ~At(u, "idle")
    BY Zenon, <1>11 DEF WriteRunWorkload, At
  <2>2. ASSUME NEW a, NEW b, NEW c
        PROVE  Given([py[u] EXCEPT !.pc = a, !.ran = b, !.time = c])
    BY Zenon, <1>1, <2>1 DEF Given, HasArgs, FrameFields, At
  <2> QED BY Zenon, <1>5, <1>11, <2>1, <2>2, GivenKept, GotoKeeps
          DEF WriteRunWorkload, Fails
<1>12. CASE RunReturns(u)
  <2>1. ~At(u, "idle")
    BY Zenon, <1>12 DEF RunReturns, At
  <2>2. ASSUME NEW a, NEW b
        PROVE  Given([py[u] EXCEPT !.pc = "read", !.own = a, !.measured = b])
    BY Zenon, <1>1, <2>1 DEF Given, HasArgs, FrameFields, At
  <2> QED BY Zenon, <1>12, <2>1, <2>2, GivenKept, GotoKeeps DEF RunReturns
<1>13. CASE ParseResults(u)
  <2>1. ~At(u, "idle")
    BY Zenon, <1>13 DEF ParseResults, At
  <2>2. ASSUME NEW a, NEW b, NEW c
        PROVE  Given([py[u] EXCEPT !.pc = a, !.kept = b, !.report = c])
    BY Zenon, <1>1, <2>1 DEF Given, HasArgs, FrameFields, At
  <2> QED BY Zenon, <1>13, <2>2, GivenKept DEF ParseResults
<1>14. CASE Dies(u)
  <2>1. ~At(u, "idle")
    BY Zenon, <1>14 DEF Dies, Active, At
  <2> QED BY Zenon, <1>14, <2>1, GotoKeeps DEF Dies, Fails
<1> QED BY Zenon, <1>3, <1>4, <1>6, <1>7, <1>8, <1>9, <1>10, <1>11, <1>12, <1>13, <1>14
        DEF ScriptStep

\* A step of a call is a step of the module or leaves the module alone.
LEMMA ScriptUsesModule ==
  ASSUME CallsInv, NEW u \in Users, ScriptStep(u) \/ RunStep(u)
  PROVE  Insmod \/ Rmmod \/ HandlerOrEnter(u) \/ UNCHANGED modVars
<1>1. ASSUME NEW e,
             NEW f \in {"var", "num_threads", "runtime_seconds", "run_workload"},
             Open(u, e, f)
      PROVE  HandlerOrEnter(u) \/ UNCHANGED modVars
  BY Zenon, <1>1 DEF Open, HandlerOrEnter
<1>2. ~At(u, "idle") => HasArgs(py[u])
  BY Zenon DEF CallsInv, Given, At
<1>3. CASE WriteNumThreads(u)
  <2>1. py[u].n \in NumThreadsArgs
    BY Zenon, <1>2, <1>3 DEF WriteNumThreads, At, HasArgs
  <2> QED BY Zenon, <1>1, <1>3, <2>1
          DEF WriteNumThreads, HandlerOrEnter, HandlerStep
<1>4. CASE WriteRuntimeSeconds(u)
  <2>1. py[u].secs \in SecondsArgs
    BY Zenon, <1>2, <1>4 DEF WriteRuntimeSeconds, At, HasArgs
  <2> QED BY Zenon, <1>1, <1>4, <2>1
          DEF WriteRuntimeSeconds, HandlerOrEnter, HandlerStep
<1>5. CASE WriteThreadVar(u)
  <2>1. CASE py[u].i \in Tids /\ Writes(py[u].vals[py[u].i])
    <3>1. py[u].vals \in [Tids -> Values]
      BY Zenon, <1>2, <1>5 DEF WriteThreadVar, At, HasArgs
    <3>2. py[u].vals[py[u].i] \in Values
      BY Zenon, <2>1, <3>1
    <3> QED BY Zenon, <1>1, <1>5, <2>1, <3>2
            DEF WriteThreadVar, HandlerOrEnter, HandlerStep
  <2>2. CASE ~(py[u].i \in Tids /\ Writes(py[u].vals[py[u].i]))
    BY Zenon, <1>5, <2>2 DEF WriteThreadVar, PyOnly
  <2> QED BY Zenon, <2>1, <2>2
<1>6. CASE WriteRunWorkload(u)
  BY Zenon, <1>1, <1>6 DEF WriteRunWorkload, HandlerOrEnter, HandlerStep
<1>7. CASE RunReturns(u) \/ RunStep(u) \/ Dies(u)
  BY Zenon, <1>7 DEF RunReturns, RunStep, Dies, HandlerOrEnter, HandlerStep
<1>8. CASE \/ ReadCur(u) \/ GetConfig(u) \/ LastTimestamp(u) \/ ParseResults(u)
  BY Zenon, <1>8 DEF ReadCur, GetConfig, LastTimestamp, ParseResults, PyOnly
<1>9. CASE Unload(u) \/ Load(u)
  BY Zenon, <1>9 DEF Unload, Load
<1> QED BY Zenon, <1>3, <1>4, <1>5, <1>6, <1>7, <1>8, <1>9 DEF ScriptStep

\* Time that passes in the script does not break the invariant of the module.
LEMMA IdleKeeps ==
  ASSUME ModInv, UNCHANGED modVars, History
  PROVE  ModInv'
<1>1. UNCHANGED <<mod, files, held, dev_byte_size, runtime_seconds, num_threads,
                  threads, tconf, kio_running, in, misuse>>
  BY Zenon DEF modVars, ioVars, confVars
<1>2. /\ raced' \in BOOLEAN
      /\ mod # "loaded" =>
           (raced => raced') /\ \A q \in Users : in'[q] # "out" => raced'
  BY Zenon, <1>1 DEF History, ModInv, TypeOK
<1>3. TypeOK' /\ HeldInv' /\ FilesInv'
  BY <1>1, <1>2 DEF ModInv, TypeOK, HeldInv, FilesInv
<1>4. ThreadsInv' /\ MisuseInv'
  BY Zenon, <1>1, <1>2 DEF ModInv, ThreadsInv, MisuseInv
<1>5. UsersInv'
  BY Zenon, <1>1, <1>2 DEF ModInv, UsersInv, UserInv
<1> QED BY Zenon, <1>3, <1>4, <1>5 DEF ModInv

\* Calls of kio.py, any number at the same time, with the messages of others in
\* the log and every fault, keep the invariant of the module.
THEOREM SessionInvariant == SessionSpec => [](ModInv /\ CallsInv)
<1>1. SessionInit => ModInv /\ CallsInv
  <2>1. SessionInit => CallsInv
    BY DEF SessionInit, CallsInv, Given, Idle, FrameFields
  <2>2. Init => ModInv
    BY Zenon, ModuleStarts
  <2> QED BY Zenon, <2>1, <2>2 DEF SessionInit
<1>2. ModInv /\ CallsInv /\ [SessionNext]_allVars => (ModInv /\ CallsInv)'
  <2> SUFFICES ASSUME ModInv, CallsInv, [SessionNext]_allVars
               PROVE  ModInv' /\ CallsInv'
    OBVIOUS
  <2>1. ASSUME NEW u \in Users, NEW call \in Calls, Begin(u, call), History
        PROVE  ModInv' /\ CallsInv'
    <3>1. \A w \in Users : Given(IF w = u
              THEN [Idle EXCEPT !.pc = "cur", !.n = call.n, !.secs = call.secs,
                                !.vals = call.vals,
                                !.alone = \A x \in Users \ {u} : ~Active(x)]
              ELSE [py[w] EXCEPT !.alone = @ /\ ~Active(w)])
      <4>1. /\ call.n \in NumThreadsArgs /\ call.secs \in SecondsArgs
            /\ call.vals \in [Tids -> Values]
        BY Zenon, KioSessionAssumption DEF CallType
      <4> QED BY <4>1 DEF CallsInv, Given, HasArgs, Idle, FrameFields
    <3>2. CallsInv'
      BY Zenon, <2>1, <3>1 DEF Begin, CallsInv
    <3> QED BY Zenon, <2>1, <3>2, IdleKeeps DEF Begin
  <2>2. ASSUME NEW u \in Users, ScriptStep(u) \/ RunStep(u), History
        PROVE  ModInv' /\ CallsInv'
    <3>1. CallsInv'
      BY Zenon, <2>2, ScriptKeeps DEF RunStep, CallsInv
    <3>2. ModInv'
      BY Zenon, <2>2, ScriptUsesModule, LoadKeeps, HandlerKeeps, IdleKeeps
    <3> QED BY Zenon, <3>1, <3>2
  <2>3. CASE ModuleStep /\ History
    <3>1. ASSUME NEW w \in Users, NEW pc, py[w].pc # "idle" \/ pc = "idle"
          PROVE  Given([py[w] EXCEPT !.pc = pc])
      BY Zenon, <3>1 DEF CallsInv, Given, HasArgs, FrameFields
    <3>2. CallsInv'
      BY Zenon, <2>3, <3>1 DEF ModuleStep, CallsInv
    <3>3. ModInv'
      BY Zenon, <2>3, LoadKeeps DEF ModuleStep
    <3> QED BY Zenon, <3>2, <3>3
  <2>4. CASE Noise /\ History
    BY Zenon, <2>4, IdleKeeps DEF Noise, CallsInv
  <2>5. CASE UNCHANGED allVars
    <3>1. UNCHANGED vars /\ UNCHANGED py
      BY Zenon, <2>5 DEF allVars, pyVars
    <3> QED BY Zenon, <3>1, StutterKeeps DEF CallsInv
  <2> QED BY Zenon, <2>1, <2>2, <2>3, <2>4, <2>5 DEF SessionNext
<1> QED BY <1>1, <1>2, PTL DEF SessionSpec

\* Whatever calls of kio.py do to it, an unloaded module has given back the device,
\* and everything else unless two calls raced.
THEOREM SessionUnloadGivesBack == SessionSpec => []UnloadedIsClean
  BY SessionInvariant, CleanFromInv, PTL

\* A run that kio.py started has its device and its threads while the module
\* stays loaded.
THEOREM SessionRunHasDevice == SessionSpec => []RunHasDevice
  BY SessionInvariant, DeviceFromInv, PTL

\* Calls of kio.py misuse what another call's reload took away, or hang, only
\* if one was in a handler while another loaded or unloaded the module.
THEOREM SessionMisuseNeedsRace == SessionSpec => []MisuseOnlyIfRaced
  BY SessionInvariant, RaceFromInv, PTL

-----------------------------------------------------------------------------
(***************************************************************************)
(* What a call that is alone finds.                                        *)
(***************************************************************************)
\* The places of a call that is under way.
Early == {"cur", "unload", "unloading", "load", "loading", "num_threads",
          "runtime_seconds"}
Late == {"var", "mark", "run_workload", "wait", "read"}

\* The flags of a frame, and what it holds by its place.
FrameOK(f) ==
  /\ f.pc \in Early \cup Late \cup {"idle", "done", "failed"}
  /\ f.n \in Nat /\ f.i \in Nat
  /\ f.alone \in BOOLEAN /\ f.kept \in BOOLEAN /\ f.marked \in BOOLEAN
  /\ f.pc = "idle" => f.n = 0
  /\ f.pc \in Early => f.i = 0
  /\ f.own # 0 => f.pc \in {"read", "done", "failed"}

\* A user is in a handler only where the script has opened its file.
InPlace(u) ==
  /\ in[u] \in {"num_threads", "runtime_seconds", "var", "run_workload"} =>
       At(u, in[u])
  /\ in[u] \in {"running", "hung"} => At(u, "wait")
  /\ in[u] = "dead" => At(u, "failed")
  /\ in[u] = "var" => /\ py[u].i < py[u].n /\ py[u].i \in Tids
                      /\ Writes(py[u].vals[py[u].i])

\* The module is loaded or unloaded only by a call that waits for it.
Busy == mod \in Loading \cup Leaving
Reloading(u) == py[u].pc \in {"loading", "unloading"}

PlacesInv ==
  /\ \A u \in Users : FrameOK(py[u]) /\ InPlace(u)
  /\ Busy => \E u \in Users : Reloading(u)

\* No other call is under way while one is alone.
Lone(u) == Active(u) /\ py[u].alone

LoneInv == \A u \in Users : Lone(u) => \A w \in Users : w # u => ~Active(w)

\* The run had the threads, the time and the values that were asked for, and what
\* was shown is what ran, but for the correction of offset_high.
Asked(f) ==
  /\ f.n > 0
  /\ DOMAIN f.ran = 0 .. f.n - 1 /\ f.time = f.secs
  /\ DOMAIN f.conf = DOMAIN f.ran
  /\ \A t \in DOMAIN f.ran : /\ Stored(f.conf[t], f.vals[t]) = f.conf[t]
                             /\ f.ran[t] = Corrected(f.conf[t], DevSize)

\* What the driver has been made to hold, by the place of the call.
Stage(u) ==
  LET f == py[u] IN
  /\ f.pc = "load" => mod = "unloaded"
  /\ f.pc \in {"loading", "num_threads"} => num_threads = 0
  /\ f.pc \in Late \cup {"runtime_seconds"} => num_threads = f.n
  /\ f.pc \in Late => runtime_seconds = f.secs
  /\ f.pc \in {"var", "mark", "run_workload"} =>
       \A t \in Tids : t < f.i /\ t < f.n =>
         Stored(tconf[t], f.vals[t]) = tconf[t]
  /\ f.pc \in {"mark", "run_workload"} =>
       /\ f.i >= f.n
       /\ f.conf = [t \in 0 .. f.n - 1 |->
                      IF threads = "live" THEN tconf[t] ELSE <<>>]
  /\ f.pc \in {"wait", "read"} => Asked(f)

StagesInv ==
  \A u \in Users : /\ Lone(u) => Stage(u)
                   /\ py[u].own # 0 /\ py[u].alone => Asked(py[u])

\* Only the frame of call u changes, and not what was given.
OwnFrame(u) ==
  /\ \A w \in Users : w # u => py'[w] = py[w]
  /\ py'[u].n = py[u].n /\ py'[u].secs = py[u].secs /\ py'[u].vals = py[u].vals
  /\ py'[u].alone = py[u].alone

\* Not what it knows of its run.
SameRun(u) ==
  /\ py'[u].start = py[u].start /\ py'[u].marked = py[u].marked
  /\ py'[u].ran = py[u].ran /\ py'[u].time = py[u].time
  /\ py'[u].own = py[u].own
  /\ py'[u].measured = py[u].measured /\ py'[u].kept = py[u].kept

\* No more than its place changes.
SameData(u) ==
  py'[u].i = py[u].i /\ py'[u].conf = py[u].conf /\ SameRun(u)

SameModule ==
  UNCHANGED <<mod, files, held, dev_byte_size, runtime_seconds, num_threads,
              threads, tconf, kio_running, in, misuse>>

\* One frame changes, the others stay.
LEMMA SetsEffect ==
  ASSUME CallsInv, NEW u \in Users, NEW f, Sets(u, f)
  PROVE  py'[u] = f /\ \A w \in Users : w # u => py'[w] = py[w]
  BY Zenon DEF CallsInv, Sets

\* A call that goes on, or fails.
LEMMA GotoEffect ==
  ASSUME CallsInv, NEW u \in Users, NEW pc, Goto(u, pc)
  PROVE  py'[u].pc = pc /\ OwnFrame(u) /\ SameData(u)
<1>1. DOMAIN py[u] = FrameFields
  BY Zenon DEF CallsInv, Given
<1>2. /\ py'[u] = [py[u] EXCEPT !.pc = pc]
      /\ \A w \in Users : w # u => py'[w] = py[w]
  BY Zenon, SetsEffect DEF Goto
<1> QED BY Zenon, <1>1, <1>2 DEF OwnFrame, SameData, SameRun, FrameFields

\* The module does not change.
LEMMA PyOnlyEffect ==
  ASSUME UNCHANGED modVars PROVE SameModule
  BY Zenon DEF modVars, ioVars, confVars, SameModule

\* A file is opened, or is not there.
LEMMA OpenEffect ==
  ASSUME TypeOK, CallsInv, NEW u \in Users, NEW e, NEW f, Open(u, e, f)
  PROVE  /\ in[u] = "out" /\ Quiet
         /\ OwnFrame(u) /\ SameData(u)
         /\ \/ /\ e /\ in'[u] = f /\ \A w \in Users : w # u => in'[w] = in[w]
               /\ UNCHANGED <<mod, files, held, dev_byte_size, runtime_seconds,
                              num_threads, threads, tconf, kio_running, misuse,
                              py>>
            \/ /\ ~(e /\ FileExists(f))
               /\ py'[u].pc = "failed" /\ SameModule
<1>1. in[u] = "out" /\ Quiet
  BY Zenon DEF Open
<1>2. CASE e /\ Enter(u, f) /\ UNCHANGED py
  <2>1. in' = [in EXCEPT ![u] = f] /\ in \in [Users -> Handlers]
    BY Zenon, <1>2 DEF Enter, TypeOK
  <2>2. UNCHANGED <<mod, files, held, dev_byte_size, runtime_seconds, num_threads,
                    threads, tconf, kio_running, misuse, py>>
    BY Zenon, <1>2 DEF Enter, ioVars, confVars
  <2> QED BY Zenon, <1>1, <1>2, <2>1, <2>2
          DEF OwnFrame, SameData, SameRun
<1>3. CASE ~(e /\ FileExists(f)) /\ Fails(u) /\ UNCHANGED modVars
  BY Zenon, <1>1, <1>3, GotoEffect, PyOnlyEffect DEF Fails
<1> QED BY Zenon, <1>2, <1>3 DEF Open

\* A user leaves a handler, and no other user does.
LEMMA LeavesEffect ==
  ASSUME TypeOK, NEW u \in Users, NEW f, Leaves(u, f)
  PROVE  /\ in[u] = f /\ in'[u] = "out"
         /\ \A w \in Users : w # u => in'[w] = in[w]
  BY Zenon DEF Leaves, Handles, TypeOK

\* What the script learns from num_threads.
LEMMA ReadCurEffect ==
  ASSUME TypeOK, CallsInv, NEW u \in Users, py[u].n \in Nat, ReadCur(u)
  PROVE  /\ At(u, "cur") /\ OwnFrame(u) /\ SameData(u)
         /\ SameModule /\ Quiet
         /\ \/ py'[u].pc = "unload"
            \/ py'[u].pc = "num_threads" /\ num_threads = 0
            \/ py'[u].pc = "runtime_seconds" /\ num_threads = py[u].n
<1> DEFINE none == ~FileExists("num_threads")
           to == IF none \/ (NumThreadsShow > 0 /\ NumThreadsShow # py[u].n)
                   THEN "unload"
                 ELSE IF NumThreadsShow # py[u].n THEN "num_threads"
                 ELSE "runtime_seconds"
<1>1. At(u, "cur") /\ Goto(u, to) /\ PyOnly
  BY Zenon DEF ReadCur
<1> HIDE DEF none
<1>2. num_threads \in Nat
  BY KioModuleAssumption DEF TypeOK
<1>3. \/ to = "unload"
      \/ to = "num_threads" /\ num_threads = 0
      \/ to = "runtime_seconds" /\ num_threads = py[u].n
  BY <1>2 DEF NumThreadsShow
<1> HIDE DEF to
<1>4. py'[u].pc = to /\ OwnFrame(u) /\ SameData(u)
  BY Zenon, <1>1, GotoEffect
<1>5. SameModule /\ Quiet
  BY Zenon, <1>1, PyOnlyEffect DEF PyOnly, Quiet
<1> QED BY Zenon, <1>1, <1>3, <1>4, <1>5

\* rmmod begins, or there is nothing to unload, or it is refused.
LEMMA UnloadEffect ==
  ASSUME CallsInv, NEW u \in Users, Unload(u)
  PROVE  /\ At(u, "unload") /\ OwnFrame(u) /\ SameData(u) /\ Quiet
         /\ UNCHANGED <<runtime_seconds, num_threads, threads, tconf, kio_running, in>>
         /\ \/ py'[u].pc = "load" /\ mod = "unloaded" /\ mod' = mod
            \/ py'[u].pc = "unloading" /\ mod = "loaded"
            \/ py'[u].pc = "failed" /\ mod' = mod /\ mod # "loaded"
<1>1. At(u, "unload") /\ Quiet
  BY Zenon DEF Unload
<1>2. CASE mod = "unloaded" /\ Goto(u, "load") /\ UNCHANGED modVars
  BY Zenon, <1>1, <1>2, GotoEffect DEF modVars, confVars
<1>3. CASE Rmmod /\ Goto(u, "unloading")
  BY Zenon, <1>1, <1>3, GotoEffect DEF Rmmod, Goes, confVars
<1>4. CASE mod \notin {"unloaded", "loaded"} /\ Fails(u) /\ UNCHANGED modVars
  BY Zenon, <1>1, <1>4, GotoEffect DEF Fails, modVars, confVars
<1> QED BY Zenon, <1>2, <1>3, <1>4 DEF Unload

\* insmod begins, or fails at once.
LEMMA LoadEffect ==
  ASSUME CallsInv, NEW u \in Users, Load(u)
  PROVE  /\ At(u, "load") /\ OwnFrame(u) /\ SameData(u) /\ Quiet
         /\ UNCHANGED in
         /\ \/ mod = "unloaded" /\ num_threads' = 0 /\ mod' = "files"
               /\ py'[u].pc = "loading"
            \/ mod = "unloaded" /\ mod' = "unloaded" /\ py'[u].pc = "failed"
            \/ mod # "unloaded" /\ mod' = mod /\ py'[u].pc = "failed"
<1>1. At(u, "load") /\ Quiet
  BY Zenon DEF Load
<1>2. CASE Insmod /\ Goto(u, IF mod' = "unloaded" THEN "failed" ELSE "loading")
  <2>1. /\ mod = "unloaded" /\ UNCHANGED in
        /\ (mod' = "files" /\ num_threads' = 0) \/ mod' = "unloaded"
    BY Zenon, <1>2 DEF Insmod
  <2>2. mod' = "files" => Goto(u, "loading")
    BY Zenon, <1>2
  <2>3. mod' = "unloaded" => Goto(u, "failed")
    BY Zenon, <1>2
  <2> QED BY Zenon, <1>1, <2>1, <2>2, <2>3, GotoEffect
<1>3. CASE mod # "unloaded" /\ Fails(u) /\ UNCHANGED modVars
  BY Zenon, <1>1, <1>3, GotoEffect DEF Fails, modVars
<1> QED BY Zenon, <1>2, <1>3 DEF Load

\* The store handler of num_threads, as the script sees it.
NumStored(u) ==
  /\ in[u] = "num_threads" /\ in'[u] = "out"
  /\ \A w \in Users : w # u => in'[w] = in[w]
  /\ OwnFrame(u) /\ SameData(u) /\ Quiet
  /\ UNCHANGED <<mod, runtime_seconds, kio_running>>
  /\ \/ py'[u].pc = "runtime_seconds" /\ num_threads' = py[u].n
     \/ /\ py'[u].pc = "failed"
        /\ \/ /\ ~NumThreadsAccepted(py[u].n) \/ May("array")
              /\ UNCHANGED <<num_threads, threads>>
           \/ num_threads' > 0 /\ threads' = "null"

\* The write of num_threads opens the file, or its handler answers.
LEMMA WriteNumThreadsEffect ==
  ASSUME TypeOK, CallsInv, NEW u \in Users, WriteNumThreads(u)
  PROVE  /\ At(u, "num_threads")
         /\ Open(u, TRUE, "num_threads") \/ NumStored(u)
<1>1. At(u, "num_threads")
  BY Zenon DEF WriteNumThreads
<1> DEFINE to == IF threads = "null" /\ threads' = "live" THEN "runtime_seconds"
                 ELSE "failed"
<1>2. ASSUME NumThreadsStore(u, py[u].n), Goto(u, to), Quiet
      PROVE  NumStored(u)
  <2>1. /\ in[u] = "num_threads" /\ in'[u] = "out"
        /\ \A w \in Users : w # u => in'[w] = in[w]
    BY Zenon, <1>2, LeavesEffect DEF NumThreadsStore
  <2>2. UNCHANGED <<mod, runtime_seconds, kio_running>>
    BY Zenon, <1>2 DEF NumThreadsStore
  <2>3. \/ threads = "null" /\ threads' = "live" /\ num_threads' = py[u].n
        \/ /\ ~NumThreadsAccepted(py[u].n) \/ May("array")
           /\ UNCHANGED <<num_threads, threads>>
        \/ threads = "null" /\ threads' = "null" /\ num_threads' > 0
    <3>1. NumThreadsAccepted(py[u].n) => py[u].n > 0 /\ threads = "null"
      BY DEF NumThreadsAccepted
    <3> QED BY Zenon, <1>2, <3>1 DEF NumThreadsStore
  <2>4. \/ threads' = "live" /\ threads = "null" /\ to = "runtime_seconds"
        \/ ~(threads = "null" /\ threads' = "live") /\ to = "failed"
    BY Zenon
  <2> HIDE DEF to
  <2>5. py'[u].pc = to /\ OwnFrame(u) /\ SameData(u)
    BY Zenon, <1>2, GotoEffect
  <2> QED BY Zenon, <1>2, <2>1, <2>2, <2>3, <2>4, <2>5 DEF NumStored
<1> QED BY Zenon, <1>1, <1>2 DEF WriteNumThreads

RuntimeStored(u) ==
  /\ in[u] = "runtime_seconds" /\ in'[u] = "out"
  /\ \A w \in Users : w # u => in'[w] = in[w]
  /\ OwnFrame(u) /\ SameData(u) /\ Quiet
  /\ UNCHANGED <<mod, num_threads, threads, tconf, kio_running>>
  /\ IF SecondsAccepted(py[u].secs)
       THEN py'[u].pc = "var" /\ runtime_seconds' = py[u].secs
       ELSE py'[u].pc = "failed" /\ runtime_seconds' = runtime_seconds

\* The write of runtime_seconds.
LEMMA WriteRuntimeSecondsEffect ==
  ASSUME TypeOK, CallsInv, NEW u \in Users, WriteRuntimeSeconds(u)
  PROVE  /\ At(u, "runtime_seconds")
         /\ Open(u, TRUE, "runtime_seconds") \/ RuntimeStored(u)
<1>1. At(u, "runtime_seconds")
  BY Zenon DEF WriteRuntimeSeconds
<1> DEFINE to == IF SecondsAccepted(py[u].secs) THEN "var" ELSE "failed"
<1>2. ASSUME RuntimeSecondsStore(u, py[u].secs), Goto(u, to), Quiet
      PROVE  RuntimeStored(u)
  <2>1. /\ in[u] = "runtime_seconds" /\ in'[u] = "out"
        /\ \A w \in Users : w # u => in'[w] = in[w]
    BY Zenon, <1>2, LeavesEffect DEF RuntimeSecondsStore
  <2>2. UNCHANGED <<mod, num_threads, threads, tconf, kio_running>>
    BY Zenon, <1>2 DEF RuntimeSecondsStore, confVars
  <2>3. py'[u].pc = to /\ OwnFrame(u) /\ SameData(u)
    BY Zenon, <1>2, GotoEffect
  <2>4. runtime_seconds' = IF SecondsAccepted(py[u].secs) THEN py[u].secs
                           ELSE runtime_seconds
    BY Zenon, <1>2 DEF RuntimeSecondsStore
  <2> QED BY Zenon, <1>2, <2>1, <2>2, <2>3, <2>4 DEF RuntimeStored
<1> QED BY Zenon, <1>1, <1>2 DEF WriteRuntimeSeconds

\* The values of the next thread: the store handler, or nothing to write.
HasValue(u) == py[u].i \in Tids /\ Writes(py[u].vals[py[u].i])

NextVar(u, error) ==
  /\ OwnFrame(u) /\ SameRun(u) /\ py'[u].conf = py[u].conf
  /\ py'[u].i = py[u].i + 1
  /\ py'[u].pc = IF error THEN "failed" ELSE "var"

VarStored(u) ==
  /\ in[u] = "var" /\ in'[u] = "out"
  /\ \A w \in Users : w # u => in'[w] = in[w]
  /\ NextVar(u, kio_running \/ ~py[u].vals[py[u].i].number) /\ Quiet
  /\ UNCHANGED <<mod, runtime_seconds, num_threads, threads, kio_running>>
  /\ tconf' = IF kio_running \/ py[u].i >= num_threads THEN tconf
              ELSE [tconf EXCEPT ![py[u].i] = Stored(@, py[u].vals[py[u].i])]

\* The write of the next value, if one was given.
LEMMA WriteThreadVarEffect ==
  ASSUME TypeOK, CallsInv, NEW u \in Users, WriteThreadVar(u)
  PROVE  /\ At(u, "var") /\ py[u].i < py[u].n
         /\ \/ HasValue(u) /\ Open(u, py[u].i < num_threads, "var")
            \/ HasValue(u) /\ VarStored(u)
            \/ ~HasValue(u) /\ NextVar(u, FALSE) /\ SameModule /\ Quiet
<1>1. At(u, "var") /\ py[u].i < py[u].n
  BY Zenon DEF WriteThreadVar
<1>2. ASSUME NEW e, NextThread(u, e) PROVE NextVar(u, e)
  <2>1. DOMAIN py[u] = FrameFields
    BY Zenon DEF CallsInv, Given
  <2>2. /\ py'[u] = [py[u] EXCEPT !.i = @ + 1,
                                  !.pc = IF e THEN "failed" ELSE @]
        /\ \A w \in Users : w # u => py'[w] = py[w]
    BY Zenon, <1>2, SetsEffect DEF NextThread
  <2>3. py'[u].pc = IF e THEN "failed" ELSE "var"
    BY Zenon, <1>1, <2>1, <2>2 DEF At, FrameFields
  <2> QED BY Zenon, <2>1, <2>2, <2>3
          DEF NextVar, OwnFrame, SameRun, FrameFields
<1>3. ASSUME ThreadVarStore(u, py[u].i, py[u].vals[py[u].i]),
             NextThread(u, kio_running \/ ~py[u].vals[py[u].i].number), Quiet
      PROVE  VarStored(u)
  <2>1. /\ in[u] = "var" /\ in'[u] = "out"
        /\ \A w \in Users : w # u => in'[w] = in[w]
    BY Zenon, <1>3, LeavesEffect DEF ThreadVarStore
  <2> QED BY Zenon, <1>2, <1>3, <2>1 DEF VarStored, ThreadVarStore
<1>4. CASE HasValue(u)
  BY Zenon, <1>1, <1>3, <1>4 DEF WriteThreadVar, HasValue
<1>5. CASE ~HasValue(u)
  BY Zenon, <1>1, <1>2, <1>5, PyOnlyEffect
     DEF WriteThreadVar, HasValue, PyOnly, Quiet
<1> QED BY Zenon, <1>4, <1>5

\* The configuration that is read back.
LEMMA GetConfigEffect ==
  ASSUME CallsInv, NEW u \in Users, GetConfig(u)
  PROVE  /\ At(u, "var") /\ py[u].i >= py[u].n
         /\ OwnFrame(u) /\ SameRun(u) /\ py'[u].i = py[u].i
         /\ SameModule /\ Quiet
         /\ \/ /\ py'[u].pc = "mark"
               /\ py'[u].conf =
                    [t \in 0 .. num_threads - 1 |->
                       IF threads = "live" THEN tconf[t] ELSE <<>>]
            \/ py'[u].pc = "failed" /\ ~FileExists("num_threads")
<1> DEFINE conf == [t \in 0 .. NumThreadsShow - 1 |->
                      IF FileExists("var") THEN ThreadVarShow(t) ELSE <<>>]
<1>1. At(u, "var") /\ py[u].i >= py[u].n /\ PyOnly
  BY Zenon DEF GetConfig
<1>2. SameModule /\ Quiet
  BY Zenon, <1>1, PyOnlyEffect DEF PyOnly, Quiet
<1>3. CASE FileExists("num_threads")
  <2>1. DOMAIN py[u] = FrameFields
    BY Zenon DEF CallsInv, Given
  <2>2. /\ py'[u] = [py[u] EXCEPT !.pc = "mark", !.conf = conf]
        /\ \A w \in Users : w # u => py'[w] = py[w]
    BY Zenon, <1>3, SetsEffect DEF GetConfig
  <2>3. conf = [t \in 0 .. num_threads - 1 |->
                  IF threads = "live" THEN tconf[t] ELSE <<>>]
    BY Zenon DEF NumThreadsShow, FileExists, ThreadVarShow
  <2> HIDE DEF conf
  <2>4. /\ py'[u].pc = "mark" /\ py'[u].conf = conf
        /\ OwnFrame(u) /\ SameRun(u) /\ py'[u].i = py[u].i
    BY Zenon, <2>1, <2>2 DEF OwnFrame, SameRun, FrameFields
  <2> QED BY Zenon, <1>1, <1>2, <2>3, <2>4
<1>4. CASE ~FileExists("num_threads")
  BY Zenon, <1>1, <1>2, <1>4, GotoEffect DEF GetConfig, Fails, SameData
<1> QED BY Zenon, <1>3, <1>4

\* The mark that is taken before the run.
LEMMA LastTimestampEffect ==
  ASSUME CallsInv, NEW u \in Users, LastTimestamp(u)
  PROVE  /\ At(u, "mark") /\ OwnFrame(u) /\ SameModule /\ Quiet
         /\ py'[u].pc = "run_workload"
         /\ py'[u].i = py[u].i /\ py'[u].conf = py[u].conf
         /\ py'[u].ran = py[u].ran /\ py'[u].own = py[u].own
         /\ py'[u].kept = py[u].kept
         /\ py'[u].start = IF log = <<>> THEN 0 ELSE log[Len(log)].stamp
         /\ py'[u].marked = (log = <<>> \/ log[Len(log)].stamp # 0)
<1> DEFINE start == IF log = <<>> THEN 0 ELSE log[Len(log)].stamp
           marked == log = <<>> \/ log[Len(log)].stamp # 0
<1>1. At(u, "mark") /\ PyOnly
  BY Zenon DEF LastTimestamp
<1>2. DOMAIN py[u] = FrameFields
  BY Zenon DEF CallsInv, Given
<1>3. /\ py'[u] = [py[u] EXCEPT !.pc = "run_workload", !.start = start,
                                !.marked = marked]
      /\ \A w \in Users : w # u => py'[w] = py[w]
  BY Zenon, SetsEffect DEF LastTimestamp
<1> HIDE DEF start, marked
<1>4. /\ OwnFrame(u) /\ py'[u].pc = "run_workload"
      /\ py'[u].i = py[u].i /\ py'[u].conf = py[u].conf
      /\ py'[u].ran = py[u].ran /\ py'[u].own = py[u].own
      /\ py'[u].kept = py[u].kept
      /\ py'[u].start = start /\ py'[u].marked = marked
  BY Zenon, <1>2, <1>3 DEF OwnFrame, FrameFields
<1>5. SameModule /\ Quiet
  BY Zenon, <1>1, PyOnlyEffect DEF PyOnly, Quiet
<1> QED BY Zenon, <1>1, <1>4, <1>5 DEF start, marked

\* The store handler of run_workload refuses, or starts a run.
RunRefused(u) ==
  /\ in[u] = "run_workload" /\ in'[u] = "out"
  /\ \A w \in Users : w # u => in'[w] = in[w]
  /\ OwnFrame(u) /\ SameData(u) /\ Quiet
  /\ UNCHANGED <<mod, runtime_seconds, num_threads, threads, kio_running>>
  /\ ~RunAccepted /\ py'[u].pc = "failed"

RunStarted(u) ==
  /\ in[u] = "run_workload"
  /\ \A w \in Users : w # u => in'[w] = in[w]
  /\ OwnFrame(u)
  /\ py'[u].i = py[u].i /\ py'[u].conf = py[u].conf
  /\ py'[u].start = py[u].start /\ py'[u].marked = py[u].marked
  /\ py'[u].own = py[u].own /\ py'[u].kept = py[u].kept
  /\ UNCHANGED <<mod, runtime_seconds, num_threads, threads>>
  /\ RunAccepted /\ tconf' = CheckedConfig
  /\ py'[u].ran = [t \in 0 .. num_threads - 1 |-> tconf'[t]]
  /\ py'[u].time = runtime_seconds
  /\ \/ in'[u] = "running" /\ py'[u].pc = "wait"
     \/ in'[u] = "out" /\ py'[u].pc = "read"
  /\ Prints(<<OtherLine(printed + 1)>>)

\* The write of run_workload opens the file, is refused or starts a run.
LEMMA WriteRunWorkloadEffect ==
  ASSUME TypeOK, CallsInv, NEW u \in Users, WriteRunWorkload(u)
  PROVE  /\ At(u, "run_workload")
         /\ \/ Open(u, TRUE, "run_workload")
            \/ RunRefused(u)
            \/ RunStarted(u)
<1>1. At(u, "run_workload")
  BY Zenon DEF WriteRunWorkload
<1>2. CASE RunWorkloadStore(u) /\ ~RunAccepted /\ Fails(u) /\ PrintsNothing
           /\ UNCHANGED <<sessions, noise>>
  <2>1. Leaves(u, "run_workload") /\ UNCHANGED kio_running
    BY Zenon, <1>2 DEF RunWorkloadStore
  <2>2. UNCHANGED <<mod, runtime_seconds, num_threads, threads>>
    BY Zenon, <1>2 DEF RunWorkloadStore
  <2>3. RunRefused(u)
    BY Zenon, <1>2, <2>1, <2>2, LeavesEffect, GotoEffect
       DEF RunRefused, Fails, PrintsNothing, Quiet
  <2> QED BY Zenon, <1>1, <2>3
<1>3. CASE /\ RunWorkloadStore(u) /\ RunAccepted
           /\ Sets(u, [py[u] EXCEPT
                !.pc = IF in'[u] = "running" THEN "wait" ELSE "read",
                !.ran = [t \in 0 .. num_threads - 1 |-> tconf'[t]],
                !.time = runtime_seconds])
           /\ Prints(<<OtherLine(printed + 1)>>)
  <2>1. UNCHANGED <<mod, runtime_seconds, num_threads, threads>> /\ tconf' = CheckedConfig
    BY Zenon, <1>3 DEF RunWorkloadStore, RunAccepted
  <2>2. /\ in[u] = "run_workload"
        /\ in' = [in EXCEPT ![u] = "running"] \/ in' = [in EXCEPT ![u] = "out"]
    BY Zenon, <1>3 DEF RunWorkloadStore, Leaves, Handles
  <2>3. in \in [Users -> Handlers]
    BY Zenon DEF TypeOK
  <2>4. /\ in'[u] = "running" \/ in'[u] = "out"
        /\ \A w \in Users : w # u => in'[w] = in[w]
    BY Zenon, <2>2, <2>3
  <2>5. DOMAIN py[u] = FrameFields
    BY Zenon DEF CallsInv, Given
  <2> DEFINE ran == [t \in 0 .. num_threads - 1 |-> tconf'[t]]
             to == IF in'[u] = "running" THEN "wait" ELSE "read"
  <2>a. Sets(u, [py[u] EXCEPT !.pc = to, !.ran = ran, !.time = runtime_seconds])
    BY Zenon, <1>3
  <2>b. to = IF in'[u] = "running" THEN "wait" ELSE "read"
    BY Zenon
  <2> HIDE DEF ran, to
  <2>6. /\ py'[u] = [py[u] EXCEPT !.pc = to, !.ran = ran, !.time = runtime_seconds]
        /\ \A w \in Users : w # u => py'[w] = py[w]
    BY Zenon, <2>a, SetsEffect
  <2>7. /\ py'[u].pc = to /\ py'[u].ran = ran /\ py'[u].time = runtime_seconds
        /\ OwnFrame(u)
        /\ py'[u].i = py[u].i /\ py'[u].conf = py[u].conf
        /\ py'[u].start = py[u].start /\ py'[u].marked = py[u].marked
        /\ py'[u].own = py[u].own /\ py'[u].kept = py[u].kept
    BY Zenon, <2>5, <2>6 DEF OwnFrame, FrameFields
  <2>8. \/ in'[u] = "running" /\ py'[u].pc = "wait"
        \/ in'[u] = "out" /\ py'[u].pc = "read"
    BY Zenon, <2>4, <2>b, <2>7
  <2> QED BY Zenon, <1>1, <1>3, <2>1, <2>2, <2>4, <2>7, <2>8 DEF RunStarted, ran
<1> QED BY Zenon, <1>1, <1>2, <1>3 DEF WriteRunWorkload

\* A run returns, with its statistics or without.
LEMMA RunReturnsEffect ==
  ASSUME TypeOK, CallsInv, NEW u \in Users, RunReturns(u)
  PROVE  /\ At(u, "wait") /\ py'[u].pc = "read"
         /\ in'[u] = "out" /\ \A w \in Users : w # u => in'[w] = in[w]
         /\ OwnFrame(u)
         /\ py'[u].i = py[u].i /\ py'[u].conf = py[u].conf
         /\ py'[u].start = py[u].start /\ py'[u].marked = py[u].marked
         /\ py'[u].ran = py[u].ran /\ py'[u].time = py[u].time
         /\ py'[u].kept = py[u].kept
         /\ UNCHANGED <<mod, runtime_seconds, num_threads, threads, tconf>>
         /\ \/ /\ Prints(StatsLines(num_threads))
               /\ py'[u].own = printed' /\ py'[u].measured \in Measured
            \/ Prints(<<OtherLine(printed + 1)>>) /\ py'[u].own = py[u].own
<1>1. /\ At(u, "wait") /\ Leaves(u, "running")
      /\ UNCHANGED <<mod, runtime_seconds, num_threads, threads, tconf>>
  BY Zenon DEF RunReturns, RunEnds
<1>2. in'[u] = "out" /\ \A w \in Users : w # u => in'[w] = in[w]
  BY Zenon, <1>1, LeavesEffect
<1>3. DOMAIN py[u] = FrameFields
  BY Zenon DEF CallsInv, Given
<1>4. ASSUME NEW m \in Measured, Prints(StatsLines(num_threads)),
             Sets(u, [py[u] EXCEPT !.pc = "read", !.own = printed',
                                   !.measured = m])
      PROVE  /\ py'[u].pc = "read" /\ py'[u].own = printed' /\ OwnFrame(u)
             /\ py'[u].i = py[u].i /\ py'[u].conf = py[u].conf
             /\ py'[u].start = py[u].start /\ py'[u].marked = py[u].marked
             /\ py'[u].ran = py[u].ran /\ py'[u].time = py[u].time
             /\ py'[u].kept = py[u].kept /\ py'[u].measured \in Measured
  <2>1. /\ py'[u] = [py[u] EXCEPT !.pc = "read", !.own = printed',
                                  !.measured = m]
        /\ \A w \in Users : w # u => py'[w] = py[w]
    BY Zenon, <1>4, SetsEffect
  <2> QED BY Zenon, <1>3, <2>1 DEF OwnFrame, FrameFields
<1>5. CASE Goto(u, "read") /\ Prints(<<OtherLine(printed + 1)>>)
  BY Zenon, <1>1, <1>2, <1>5, GotoEffect DEF SameData, SameRun
<1> QED BY Zenon, <1>1, <1>2, <1>4, <1>5 DEF RunReturns

\* What parse_results() finds, and whether the log kept the run's lines.
Found(u) ==
  /\ OfKind(LinesSince(py[u].start), "summary") # {}
  /\ OfKind(LinesSince(py[u].start), "thread") # {}

KeptLines(u) ==
  \A t \in DOMAIN py[u].ran : \E k \in DOMAIN log :
    log[k].tid = t /\ log[k].kind = "thread" /\ log[k].run = py[u].own

\* The results that are parsed, and the end of the call.
LEMMA ParseResultsEffect ==
  ASSUME CallsInv, NEW u \in Users, ParseResults(u)
  PROVE  /\ At(u, "read") /\ OwnFrame(u) /\ SameModule /\ Quiet
         /\ py'[u].i = py[u].i /\ py'[u].conf = py[u].conf
         /\ py'[u].start = py[u].start /\ py'[u].marked = py[u].marked
         /\ py'[u].ran = py[u].ran /\ py'[u].time = py[u].time
         /\ py'[u].own = py[u].own /\ py'[u].measured = py[u].measured
         /\ py'[u].pc = IF Found(u) THEN "done" ELSE "failed"
         /\ py'[u].kept = KeptLines(u)
         /\ Found(u) => py'[u].report = Parsed(LinesSince(py[u].start))
<1> DEFINE to == IF Found(u) THEN "done" ELSE "failed"
           report == IF Found(u) THEN Parsed(LinesSince(py[u].start))
                     ELSE py[u].report
<1>1. At(u, "read") /\ PyOnly
  BY Zenon DEF ParseResults
<1>2. DOMAIN py[u] = FrameFields
  BY Zenon DEF CallsInv, Given
<1>3. Sets(u, [py[u] EXCEPT !.pc = to, !.kept = KeptLines(u), !.report = report])
  BY Zenon, <1>2 DEF ParseResults, Found, KeptLines, FrameFields
<1>4. Found(u) => report = Parsed(LinesSince(py[u].start))
  BY Zenon
<1>5. to = IF Found(u) THEN "done" ELSE "failed"
  BY Zenon
<1> HIDE DEF to, report
<1>6. /\ py'[u] = [py[u] EXCEPT !.pc = to, !.kept = KeptLines(u), !.report = report]
      /\ \A w \in Users : w # u => py'[w] = py[w]
  BY Zenon, <1>3, SetsEffect
<1>7. /\ OwnFrame(u)
      /\ py'[u].i = py[u].i /\ py'[u].conf = py[u].conf
      /\ py'[u].start = py[u].start /\ py'[u].marked = py[u].marked
      /\ py'[u].ran = py[u].ran /\ py'[u].time = py[u].time
      /\ py'[u].own = py[u].own /\ py'[u].measured = py[u].measured
      /\ py'[u].pc = to /\ py'[u].kept = KeptLines(u)
      /\ py'[u].report = report
  BY Zenon, <1>2, <1>6 DEF OwnFrame, FrameFields
<1>8. SameModule /\ Quiet
  BY Zenon, <1>1, PyOnlyEffect DEF PyOnly, Quiet
<1> QED BY Zenon, <1>1, <1>4, <1>5, <1>7, <1>8

\* A step of loading or unloading moves the calls that wait for its end.
LEMMA ModuleStepEffect ==
  ASSUME CallsInv, ModuleStep
  PROVE  /\ Busy /\ Quiet /\ UNCHANGED <<runtime_seconds, num_threads, tconf, kio_running, in>>
         /\ \A w \in Users :
              /\ py'[w].n = py[w].n /\ py'[w].secs = py[w].secs
              /\ py'[w].vals = py[w].vals
              /\ py'[w].alone = py[w].alone /\ py'[w].report = py[w].report
              /\ SameData(w)
              /\ ~Reloading(w) \/ Busy' => py'[w].pc = py[w].pc
              /\ Reloading(w) =>
                   \/ py'[w].pc = py[w].pc
                   \/ py'[w].pc = "load" /\ mod' = "unloaded"
                   \/ py'[w].pc = "num_threads" /\ py[w].pc = "loading"
                   \/ py'[w].pc = "failed" /\ mod' \in {"unloaded", "oops"}
<1>1. ModStep /\ Quiet
  BY Zenon DEF ModuleStep
<1>2. Busy /\ UNCHANGED <<runtime_seconds, num_threads, tconf, kio_running, in>>
  <2>1. CASE CreateFile \/ Finalize \/ PutBackBd
    BY Zenon, <2>1 DEF CreateFile, Finalize, PutBackBd, Goes, confVars, Busy,
                       Loading, Leaving
  <2>2. CASE ClearIo \/ DestroyAllThreads \/ PutKobj \/ Drain
    BY Zenon, <2>2 DEF ClearIo, DestroyAllThreads, PutKobj, Drain, Goes, confVars,
                       Busy, Loading, Leaving
  <2>3. ASSUME NEW from \in Loading, NEW what, NEW to, NEW err,
               Takes(from, what, to, err)
        PROVE  Busy /\ UNCHANGED <<runtime_seconds, num_threads, tconf, kio_running, in>>
    BY Zenon, <2>3 DEF Takes, Goes, confVars, Busy
  <2>4. ASSUME NEW from \in Loading \cup Leaving, NEW what, NEW to,
               Gives(from, what, to)
        PROVE  Busy /\ UNCHANGED <<runtime_seconds, num_threads, tconf, kio_running, in>>
    BY Zenon, <2>4 DEF Gives, Goes, confVars, Busy
  <2>5. CASE IoInit
    BY Zenon, <2>3, <2>5 DEF IoInit, Loading
  <2>6. CASE IoInitError \/ IoExit
    BY Zenon, <2>1, <2>4, <2>6 DEF IoInitError, IoExit, Loading, Leaving
  <2> QED BY Zenon, <1>1, <2>1, <2>2, <2>5, <2>6 DEF ModStep, IoInitError
<1>3. ASSUME NEW w \in Users
      PROVE  /\ py'[w].n = py[w].n /\ py'[w].secs = py[w].secs
             /\ py'[w].vals = py[w].vals
             /\ py'[w].alone = py[w].alone /\ py'[w].report = py[w].report
             /\ SameData(w)
             /\ ~Reloading(w) \/ Busy' => py'[w].pc = py[w].pc
             /\ Reloading(w) =>
                  \/ py'[w].pc = py[w].pc
                  \/ py'[w].pc = "load" /\ mod' = "unloaded"
                  \/ py'[w].pc = "num_threads" /\ py[w].pc = "loading"
                  \/ py'[w].pc = "failed" /\ mod' \in {"unloaded", "oops"}
  <2> DEFINE pc == py[w].pc
             to == CASE pc = "unloading" /\ mod' = "unloaded" -> "load"
                     [] pc = "loading" /\ mod' = "loaded" -> "num_threads"
                     [] pc = "loading" /\ mod' = "unloaded" -> "failed"
                     [] pc \in {"loading", "unloading"} /\ mod' = "oops" -> "failed"
                     [] OTHER -> pc
  <2>1. DOMAIN py[w] = FrameFields
    BY Zenon DEF CallsInv, Given
  <2>2. py'[w] = [py[w] EXCEPT !.pc = to]
    BY Zenon, <2>1 DEF ModuleStep, FrameFields
  <2>3. /\ ~Reloading(w) \/ Busy' => to = pc
        /\ Reloading(w) => \/ to = pc
                           \/ to = "load" /\ mod' = "unloaded"
                           \/ to = "num_threads" /\ pc = "loading"
                           \/ to = "failed" /\ mod' \in {"unloaded", "oops"}
    BY Zenon DEF Reloading, Busy, Loading, Leaving
  <2> HIDE DEF to
  <2>4. /\ py'[w].n = py[w].n /\ py'[w].secs = py[w].secs
        /\ py'[w].vals = py[w].vals
        /\ py'[w].alone = py[w].alone /\ py'[w].report = py[w].report
        /\ SameData(w) /\ py'[w].pc = to
    BY Zenon, <2>1, <2>2 DEF SameData, SameRun, FrameFields
  <2> QED BY Zenon, <2>3, <2>4
<1> QED BY Zenon, <1>1, <1>2, <1>3

\* The process of a call dies where it is.
LEMMA DiesEffect ==
  ASSUME TypeOK, CallsInv, NEW u \in Users, Dies(u)
  PROVE  /\ Active(u) /\ py'[u].pc = "failed" /\ OwnFrame(u) /\ SameData(u) /\ Quiet
         /\ in'[u] = "dead" /\ \A w \in Users : w # u => in'[w] = in[w]
         /\ UNCHANGED <<mod, runtime_seconds, num_threads, threads, tconf, kio_running>>
         /\ in[u] = "running" \/ (Orphaned /\ in[u] # "dead")
         /\ in[u] = "out" => At(u, "cur") \/ At(u, "var")
<1>1. Active(u) /\ Goto(u, "failed") /\ Quiet /\ in \in [Users -> Handlers]
  BY Zenon DEF Dies, Fails, TypeOK
<1>2. /\ in' = [in EXCEPT ![u] = "dead"]
      /\ UNCHANGED <<mod, runtime_seconds, num_threads, threads, tconf, kio_running>>
      /\ in[u] = "running" \/ (Orphaned /\ in[u] # "dead")
      /\ in[u] = "out" => At(u, "cur") \/ At(u, "var")
  <2>1. CASE RunCrashes(u)
    BY Zenon, <2>1 DEF RunCrashes, Handles, confVars
  <2>2. CASE HandlerFaults(u)
    BY Zenon, <2>1, <2>2 DEF Dies, HandlerFaults, confVars
  <2> QED BY Zenon, <2>1, <2>2 DEF Dies
<1>3. in'[u] = "dead" /\ \A w \in Users : w # u => in'[w] = in[w]
  BY Zenon, <1>1, <1>2
<1> QED BY Zenon, <1>1, <1>2, <1>3, GotoEffect

\* Only a call that is under way takes steps.
LEMMA ActorIsActive ==
  ASSUME TypeOK, CallsInv, PlacesInv, NEW u \in Users, ScriptStep(u)
  PROVE  Active(u) /\ ~Reloading(u)
<1>1. CASE ~Dies(u)
  <2>1. py[u].pc \in {"cur", "unload", "load", "num_threads", "runtime_seconds",
                      "var", "mark", "run_workload", "wait", "read"}
    BY Zenon, <1>1 DEF ScriptStep, ReadCur, Unload, Load, WriteNumThreads,
         WriteRuntimeSeconds, WriteThreadVar, GetConfig, LastTimestamp,
         WriteRunWorkload, RunReturns, ParseResults, At
  <2> QED BY Zenon, <2>1 DEF Active, Reloading
<1>2. CASE Dies(u)
  <2>1. /\ Active(u) /\ in[u] \in Handlers /\ in[u] # "dead" /\ InPlace(u)
        /\ in[u] = "out" => At(u, "cur") \/ At(u, "var")
    BY Zenon, <1>2, DiesEffect DEF TypeOK, PlacesInv
  <2> QED BY Zenon, <2>1 DEF Handlers, InRun, InPlace, At, Reloading
<1> QED BY Zenon, <1>1, <1>2

\* What a step of the script leaves the user in, and who answers for the module.
OwnPlace(u) ==
  /\ OwnFrame(u)
  /\ \A w \in Users : w # u => in'[w] = in[w]
  /\ FrameOK(py'[u]) /\ InPlace(u)'
  /\ Busy' => Reloading(u)' \/ mod' = mod

\* A user who has opened no file is out of every handler.
LEMMA OutsideHandlers ==
  ASSUME TypeOK, PlacesInv, NEW u \in Users,
         \/ py[u].pc \notin {"num_threads", "runtime_seconds", "var",
                             "run_workload", "wait", "failed"}
         \/ At(u, "var") /\ (py[u].i >= py[u].n \/ ~HasValue(u))
  PROVE  in[u] = "out"
<1>1. in[u] \in Handlers /\ InPlace(u) /\ FrameOK(py[u])
  BY Zenon DEF TypeOK, PlacesInv
<1>2. py[u].i < py[u].n => ~(py[u].i >= py[u].n)
  BY <1>1 DEF FrameOK
<1> QED BY Zenon, <1>1, <1>2 DEF Handlers, InRun, InPlace, At, HasValue

\* A call out of every handler is in place anywhere.
LEMMA OutInPlace ==
  ASSUME NEW u \in Users, in'[u] = "out"
  PROVE  InPlace(u)'
  BY Zenon DEF InPlace

\* A call that only moves keeps its frame well-formed, unless it moves back.
LEMMA MoveFrameOK ==
  ASSUME NEW u \in Users, FrameOK(py[u]), OwnFrame(u), SameData(u),
         \/ py[u].pc \in Early /\ py'[u].pc \in Early \cup {"var"}
         \/ py'[u].pc = "failed"
  PROVE  FrameOK(py'[u])
<1>1. /\ py'[u].n = py[u].n /\ py'[u].i = py[u].i /\ py'[u].own = py[u].own
      /\ py'[u].alone = py[u].alone /\ py'[u].kept = py[u].kept
      /\ py'[u].marked = py[u].marked
  BY Zenon DEF OwnFrame, SameData, SameRun
<1>2. CASE py[u].pc \in Early /\ py'[u].pc \in Early \cup {"var"}
  <2>1. py[u].own = 0
    BY Zenon, <1>2 DEF FrameOK, Early
  <2> QED BY Zenon, <1>1, <1>2, <2>1 DEF FrameOK, Early, Late
<1>3. CASE py'[u].pc = "failed"
  BY Zenon, <1>1, <1>3 DEF FrameOK, Early
<1> QED BY Zenon, <1>2, <1>3

\* Opening a file.
LEMMA OpenPlace ==
  ASSUME TypeOK, CallsInv, PlacesInv, NEW u \in Users, NEW e, NEW f, Open(u, e, f),
         \/ f \in {"num_threads", "runtime_seconds", "run_workload"} /\ At(u, f)
         \/ /\ f = "var" /\ At(u, "var") /\ py[u].i < py[u].n /\ HasValue(u)
  PROVE  OwnPlace(u)
<1>1. /\ in[u] = "out" /\ OwnFrame(u) /\ SameData(u) /\ FrameOK(py[u])
      /\ \/ /\ e /\ in'[u] = f /\ \A w \in Users : w # u => in'[w] = in[w]
            /\ UNCHANGED <<mod, py>>
         \/ py'[u].pc = "failed" /\ SameModule
  BY Zenon, OpenEffect DEF PlacesInv
<1>2. CASE /\ in'[u] = f /\ \A w \in Users : w # u => in'[w] = in[w]
           /\ UNCHANGED <<mod, py>>
  <2>1. InPlace(u)'
    BY Zenon, <1>2 DEF InPlace, At, HasValue
  <2> QED BY Zenon, <1>1, <1>2, <2>1 DEF OwnPlace
<1>3. CASE py'[u].pc = "failed" /\ SameModule
  BY Zenon, <1>1, <1>3, OutInPlace, MoveFrameOK DEF OwnPlace, SameModule
<1> QED BY Zenon, <1>1, <1>2, <1>3

\* Every step of the script keeps its user in place.
LEMMA ScriptPlace ==
  ASSUME ModInv, CallsInv, PlacesInv, NEW u \in Users, ScriptStep(u)
  PROVE  OwnPlace(u)
<1>1. /\ TypeOK /\ FrameOK(py[u]) /\ InPlace(u)
      /\ py[u].n \in Nat /\ py[u].i \in Nat
  BY Zenon DEF ModInv, PlacesInv, FrameOK
<1>2. CASE ReadCur(u)
  <2>1. /\ At(u, "cur") /\ OwnFrame(u) /\ SameData(u) /\ SameModule
        /\ py'[u].pc \in {"unload", "num_threads", "runtime_seconds"}
    BY Zenon, <1>1, <1>2, ReadCurEffect
  <2>2. in[u] = "out"
    BY Zenon, <1>1, <2>1, OutsideHandlers DEF At
  <2>3. FrameOK(py'[u])
    BY Zenon, <1>1, <2>1, MoveFrameOK DEF At, Early
  <2> QED BY Zenon, <2>1, <2>2, <2>3, OutInPlace DEF OwnPlace, SameModule
<1>3. CASE Unload(u)
  <2>1. /\ At(u, "unload") /\ OwnFrame(u) /\ SameData(u) /\ UNCHANGED in
        /\ \/ py'[u].pc \in {"load", "failed"} /\ mod' = mod
           \/ py'[u].pc = "unloading"
    BY Zenon, <1>3, UnloadEffect
  <2>2. in[u] = "out"
    BY Zenon, <1>1, <2>1, OutsideHandlers DEF At
  <2>3. FrameOK(py'[u])
    BY Zenon, <1>1, <2>1, MoveFrameOK DEF At, Early
  <2> QED BY Zenon, <2>1, <2>2, <2>3, OutInPlace DEF OwnPlace, Reloading
<1>4. CASE Load(u)
  <2>1. /\ At(u, "load") /\ OwnFrame(u) /\ SameData(u) /\ UNCHANGED in
        /\ \/ py'[u].pc = "failed" /\ mod' = mod
           \/ py'[u].pc = "loading"
    BY Zenon, <1>4, LoadEffect
  <2>2. in[u] = "out"
    BY Zenon, <1>1, <2>1, OutsideHandlers DEF At
  <2>3. FrameOK(py'[u])
    BY Zenon, <1>1, <2>1, MoveFrameOK DEF At, Early
  <2> QED BY Zenon, <2>1, <2>2, <2>3, OutInPlace DEF OwnPlace, Reloading
<1>5. CASE WriteNumThreads(u)
  <2>1. At(u, "num_threads") /\ (Open(u, TRUE, "num_threads") \/ NumStored(u))
    BY Zenon, <1>1, <1>5, WriteNumThreadsEffect
  <2>2. CASE Open(u, TRUE, "num_threads")
    BY Zenon, <1>1, <2>1, <2>2, OpenPlace
  <2>3. CASE NumStored(u)
    <3>1. FrameOK(py'[u])
      BY Zenon, <1>1, <2>1, <2>3, MoveFrameOK DEF NumStored, At, Early
    <3> QED BY Zenon, <2>3, <3>1, OutInPlace DEF NumStored, OwnPlace
  <2> QED BY Zenon, <2>1, <2>2, <2>3
<1>6. CASE WriteRuntimeSeconds(u)
  <2>1. /\ At(u, "runtime_seconds")
        /\ Open(u, TRUE, "runtime_seconds") \/ RuntimeStored(u)
    BY Zenon, <1>1, <1>6, WriteRuntimeSecondsEffect
  <2>2. CASE Open(u, TRUE, "runtime_seconds")
    BY Zenon, <1>1, <2>1, <2>2, OpenPlace
  <2>3. CASE RuntimeStored(u)
    <3>1. FrameOK(py'[u])
      BY Zenon, <1>1, <2>1, <2>3, MoveFrameOK DEF RuntimeStored, At, Early
    <3> QED BY Zenon, <2>3, <3>1, OutInPlace DEF RuntimeStored, OwnPlace
  <2> QED BY Zenon, <2>1, <2>2, <2>3
<1>7. CASE WriteThreadVar(u)
  <2>1. /\ At(u, "var") /\ py[u].i < py[u].n
        /\ \/ HasValue(u) /\ Open(u, py[u].i < num_threads, "var")
           \/ HasValue(u) /\ VarStored(u)
           \/ ~HasValue(u) /\ NextVar(u, FALSE) /\ SameModule
    BY Zenon, <1>1, <1>7, WriteThreadVarEffect
  <2>2. CASE HasValue(u) /\ Open(u, py[u].i < num_threads, "var")
    BY Zenon, <1>1, <2>1, <2>2, OpenPlace
  <2>3. ASSUME NEW e, NextVar(u, e) PROVE FrameOK(py'[u]) /\ OwnFrame(u)
    <3>1. py'[u].i \in Nat /\ py'[u].pc \in {"var", "failed"}
      BY <1>1, <2>3 DEF NextVar
    <3>2. py'[u].own = 0
      BY Zenon, <1>1, <2>1, <2>3 DEF NextVar, SameRun, FrameOK, At
    <3> QED BY Zenon, <1>1, <2>3, <3>1, <3>2
            DEF NextVar, OwnFrame, SameRun, FrameOK, Early, Late
  <2>4. CASE VarStored(u)
    BY Zenon, <2>3, <2>4, OutInPlace DEF VarStored, OwnPlace
  <2>5. CASE ~HasValue(u) /\ NextVar(u, FALSE) /\ SameModule
    BY Zenon, <1>1, <2>1, <2>3, <2>5, OutInPlace, OutsideHandlers
       DEF OwnPlace, SameModule
  <2> QED BY Zenon, <2>1, <2>2, <2>4, <2>5
<1>8. CASE GetConfig(u)
  <2>1. /\ At(u, "var") /\ py[u].i >= py[u].n /\ OwnFrame(u) /\ SameRun(u)
        /\ py'[u].i = py[u].i /\ SameModule /\ py'[u].pc \in {"mark", "failed"}
    BY Zenon, <1>8, GetConfigEffect
  <2>2. FrameOK(py'[u])
    BY Zenon, <1>1, <2>1 DEF OwnFrame, SameRun, FrameOK, At, Early, Late
  <2> QED BY Zenon, <1>1, <2>1, <2>2, OutInPlace, OutsideHandlers
          DEF OwnPlace, SameModule
<1>9. CASE LastTimestamp(u)
  <2>1. /\ At(u, "mark") /\ OwnFrame(u) /\ SameModule
        /\ py'[u].pc = "run_workload" /\ py'[u].i = py[u].i
        /\ py'[u].own = py[u].own /\ py'[u].kept = py[u].kept
        /\ py'[u].marked \in BOOLEAN
    BY Zenon, <1>9, LastTimestampEffect
  <2>2. FrameOK(py'[u])
    BY Zenon, <1>1, <2>1 DEF OwnFrame, FrameOK, At, Early, Late
  <2>3. in[u] = "out"
    BY Zenon, <1>1, <2>1, OutsideHandlers DEF At
  <2> QED BY Zenon, <2>1, <2>2, <2>3, OutInPlace DEF OwnPlace, SameModule
<1>10. CASE WriteRunWorkload(u)
  <2>1. /\ At(u, "run_workload")
        /\ Open(u, TRUE, "run_workload") \/ RunRefused(u) \/ RunStarted(u)
    BY Zenon, <1>1, <1>10, WriteRunWorkloadEffect
  <2>2. CASE Open(u, TRUE, "run_workload")
    BY Zenon, <1>1, <2>1, <2>2, OpenPlace
  <2>3. CASE RunRefused(u)
    BY Zenon, <1>1, <2>3, MoveFrameOK, OutInPlace DEF RunRefused, OwnPlace
  <2>4. CASE RunStarted(u)
    <3>1. FrameOK(py'[u])
      BY Zenon, <1>1, <2>1, <2>4 DEF RunStarted, OwnFrame, FrameOK, At, Early, Late
    <3>2. InPlace(u)'
      BY Zenon, <2>4 DEF RunStarted, InPlace, At
    <3> QED BY Zenon, <2>4, <3>1, <3>2 DEF RunStarted, OwnPlace
  <2> QED BY Zenon, <2>1, <2>2, <2>3, <2>4
<1>11. CASE RunReturns(u)
  <2>1. /\ At(u, "wait") /\ py'[u].pc = "read"
        /\ in'[u] = "out" /\ \A w \in Users : w # u => in'[w] = in[w]
        /\ OwnFrame(u) /\ py'[u].i = py[u].i /\ py'[u].kept = py[u].kept
        /\ py'[u].marked = py[u].marked /\ mod' = mod
    BY Zenon, <1>1, <1>11, RunReturnsEffect
  <2>2. FrameOK(py'[u])
    BY Zenon, <1>1, <2>1 DEF OwnFrame, FrameOK, Early, Late
  <2> QED BY Zenon, <2>1, <2>2, OutInPlace DEF OwnPlace
<1>12. CASE ParseResults(u)
  <2>1. /\ At(u, "read") /\ OwnFrame(u) /\ SameModule
        /\ py'[u].i = py[u].i /\ py'[u].marked = py[u].marked
        /\ py'[u].pc \in {"done", "failed"} /\ py'[u].kept \in BOOLEAN
    BY Zenon, <1>12, ParseResultsEffect DEF KeptLines
  <2>2. FrameOK(py'[u])
    BY Zenon, <1>1, <2>1 DEF OwnFrame, FrameOK, Early
  <2>3. in[u] = "out"
    BY Zenon, <1>1, <2>1, OutsideHandlers DEF At
  <2> QED BY Zenon, <2>1, <2>2, <2>3, OutInPlace DEF OwnPlace, SameModule
<1>13. CASE Dies(u)
  <2>1. /\ py'[u].pc = "failed" /\ OwnFrame(u) /\ SameData(u) /\ mod' = mod
        /\ in'[u] = "dead" /\ \A w \in Users : w # u => in'[w] = in[w]
    BY Zenon, <1>1, <1>13, DiesEffect
  <2>2. FrameOK(py'[u]) /\ InPlace(u)'
    BY Zenon, <1>1, <2>1, MoveFrameOK DEF InPlace, At
  <2> QED BY Zenon, <2>1, <2>2 DEF OwnPlace
<1> QED BY Zenon, <1>2, <1>3, <1>4, <1>5, <1>6, <1>7, <1>8, <1>9, <1>10, <1>11,
               <1>12, <1>13 DEF ScriptStep

\* A call begins with a fresh frame.
LEMMA BeginEffect ==
  ASSUME NEW u \in Users, NEW call, Begin(u, call)
  PROVE  /\ ~Active(u) /\ in[u] = "out" /\ SameModule /\ UNCHANGED <<log, printed>>
         /\ py'[u].pc = "cur" /\ py'[u].n = call.n /\ py'[u].vals = call.vals
         /\ py'[u].i = 0 /\ py'[u].own = 0 /\ py'[u].start = 0
         /\ py'[u].kept = TRUE /\ py'[u].marked = TRUE
         /\ py'[u].alone = (\A x \in Users \ {u} : ~Active(x))
<1>1. ~Active(u) /\ in[u] = "out" /\ SameModule /\ UNCHANGED <<log, printed>>
  BY Zenon, PyOnlyEffect DEF Begin
<1> DEFINE alone == \A x \in Users \ {u} : ~Active(x)
<1>2. py'[u] = [Idle EXCEPT !.pc = "cur", !.n = call.n, !.secs = call.secs,
                            !.vals = call.vals, !.alone = alone]
  BY Zenon DEF Begin
<1> HIDE DEF alone
<1>3. /\ py'[u].pc = "cur" /\ py'[u].n = call.n /\ py'[u].vals = call.vals
      /\ py'[u].i = 0 /\ py'[u].own = 0 /\ py'[u].start = 0
      /\ py'[u].kept = TRUE /\ py'[u].marked = TRUE /\ py'[u].alone = alone
  BY <1>2 DEF Idle
<1> QED BY Zenon, <1>1, <1>3 DEF alone

\* The others are no longer alone.
LEMMA BeginOthers ==
  ASSUME CallsInv, NEW u \in Users, NEW call, Begin(u, call), NEW w \in Users, w # u
  PROVE  /\ py'[w].pc = py[w].pc /\ py'[w].report = py[w].report
         /\ py'[w].n = py[w].n /\ py'[w].secs = py[w].secs
         /\ py'[w].vals = py[w].vals /\ SameData(w)
         /\ py'[w].alone = (py[w].alone /\ ~Active(w))
<1>1. DOMAIN py[w] = FrameFields
  BY Zenon DEF CallsInv, Given
<1>2. py'[w] = [py[w] EXCEPT !.alone = @ /\ ~Active(w)]
  BY Zenon DEF Begin
<1> QED BY Zenon, <1>1, <1>2 DEF SameData, SameRun, FrameFields

\* An I/O of a run, a look at its configuration, or a submission that fails.
LEMMA RunStepEffect ==
  ASSUME TypeOK, NEW u \in Users, RunStep(u)
  PROVE  /\ Quiet
         /\ UNCHANGED <<py, mod, runtime_seconds, num_threads, threads, tconf,
                        kio_running>>
         /\ in'[u] = in[u] \/ (in[u] = "running" /\ in'[u] = "hung")
         /\ \A w \in Users : w # u => in'[w] = in[w]
<1>1. Quiet /\ UNCHANGED py
  BY Zenon DEF RunStep
<1>2. in \in [Users -> Handlers]
  BY Zenon DEF TypeOK
<1>3. /\ UNCHANGED <<mod, runtime_seconds, num_threads, threads, tconf, kio_running>>
      /\ (in[u] = "running" /\ in' = [in EXCEPT ![u] = "hung"]) \/ in' = in
  BY Zenon DEF RunStep, RunIO, RunReadsConfig, RunHangs, Handles, confVars
<1> QED BY Zenon, <1>1, <1>2, <1>3

\* Whatever happens, users are in the handlers the script has opened, and the
\* module is loaded or unloaded by a call that waits for it.
LEMMA PlacesStep ==
  ASSUME ModInv, CallsInv, PlacesInv, SessionNext
  PROVE  PlacesInv'
<1>1. /\ TypeOK
      /\ \A u \in Users : FrameOK(py[u]) /\ InPlace(u)
      /\ Busy => \E u \in Users : Reloading(u)
  BY Zenon DEF ModInv, PlacesInv
<1>2. ASSUME NEW u \in Users, NEW call \in Calls, Begin(u, call)
      PROVE  PlacesInv'
  <2>1. /\ ~Active(u) /\ in[u] = "out" /\ SameModule
        /\ py'[u].pc = "cur" /\ py'[u].n = call.n /\ py'[u].i = 0 /\ py'[u].own = 0
        /\ py'[u].kept = TRUE /\ py'[u].marked = TRUE
        /\ py'[u].alone \in BOOLEAN
        /\ \A w \in Users : w # u =>
              /\ py'[w].pc = py[w].pc
              /\ py'[w].n = py[w].n /\ py'[w].vals = py[w].vals
              /\ SameData(w) /\ py'[w].alone \in BOOLEAN
    <3>1. /\ ~Active(u) /\ in[u] = "out" /\ SameModule
          /\ py'[u].pc = "cur" /\ py'[u].n = call.n /\ py'[u].i = 0 /\ py'[u].own = 0
          /\ py'[u].kept = TRUE /\ py'[u].marked = TRUE
          /\ py'[u].alone \in BOOLEAN
      BY Zenon, <1>2, BeginEffect
    <3>2. ASSUME NEW w \in Users, w # u
          PROVE  /\ py'[w].pc = py[w].pc
                 /\ py'[w].n = py[w].n /\ py'[w].vals = py[w].vals
                 /\ SameData(w) /\ py'[w].alone \in BOOLEAN
      BY Zenon, <1>2, <3>2, BeginOthers
    <3> QED BY Zenon, <3>1, <3>2
  <2>2. call.n \in Nat /\ 0 \in Nat
    BY Zenon, KioModuleAssumption, KioSessionAssumption DEF CallType
  <2>3. FrameOK(py'[u])
    BY Zenon, <2>1, <2>2 DEF FrameOK, Early
  <2>4. InPlace(u)'
    BY Zenon, <2>1, OutInPlace DEF SameModule
  <2>5. ASSUME NEW w \in Users, w # u PROVE FrameOK(py'[w]) /\ InPlace(w)'
    <3>1. FrameOK(py'[w])
      BY <1>1, <2>1, <2>5 DEF FrameOK, SameData, SameRun
    <3>2. InPlace(w)'
      BY ZenonT(30), <1>1, <2>1, <2>5 DEF InPlace, At, SameData, SameModule
    <3> QED BY Zenon, <3>1, <3>2
  <2>6. Busy' => \E w \in Users : Reloading(w)'
    <3>1. Busy' => Busy
      BY Zenon, <2>1 DEF Busy, SameModule
    <3>2. \A w \in Users : Reloading(w) => w # u /\ Reloading(w)'
      BY Zenon, <2>1 DEF Reloading, Active
    <3> QED BY Zenon, <1>1, <3>1, <3>2
  <2> QED BY Zenon, <2>3, <2>4, <2>5, <2>6 DEF PlacesInv
<1>3. ASSUME NEW u \in Users, ScriptStep(u) PROVE PlacesInv'
  <2>1. OwnPlace(u) /\ ~Reloading(u)
    BY Zenon, <1>1, <1>3, ScriptPlace, ActorIsActive
  <2>2. \A w \in Users : FrameOK(py'[w]) /\ InPlace(w)'
    BY ZenonT(30), <1>1, <2>1 DEF OwnPlace, OwnFrame, InPlace, At
  <2>3. Busy' => \E w \in Users : Reloading(w)'
    BY Zenon, <1>1, <2>1 DEF OwnPlace, OwnFrame, Busy, Reloading
  <2> QED BY Zenon, <2>2, <2>3 DEF PlacesInv
<1>4. ASSUME NEW u \in Users, RunStep(u) PROVE PlacesInv'
  <2>1. /\ UNCHANGED <<py, mod>>
        /\ in'[u] = in[u] \/ (in[u] = "running" /\ in'[u] = "hung")
        /\ \A w \in Users : w # u => in'[w] = in[w]
    BY Zenon, <1>1, <1>4, RunStepEffect
  <2>2. InPlace(u)'
    BY Zenon, <1>1, <2>1 DEF InPlace, At
  <2>3. \A w \in Users : w # u => InPlace(w)'
    BY Zenon, <1>1, <2>1 DEF InPlace, At
  <2> QED BY Zenon, <1>1, <2>1, <2>2, <2>3 DEF PlacesInv, Busy, Reloading
<1>5. CASE ModuleStep
  <2>1. /\ UNCHANGED in
        /\ \A w \in Users :
              /\ py'[w].n = py[w].n /\ py'[w].vals = py[w].vals
              /\ py'[w].alone = py[w].alone /\ SameData(w)
              /\ ~Reloading(w) \/ Busy' => py'[w].pc = py[w].pc
              /\ Reloading(w) => py'[w].pc \in {py[w].pc, "load", "num_threads",
                                                "failed"}
    BY Zenon, <1>5, ModuleStepEffect
  <2>2. Busy
    BY Zenon, <1>5, ModuleStepEffect
  <2>3. ASSUME NEW w \in Users PROVE FrameOK(py'[w]) /\ InPlace(w)'
    <3>1. CASE py'[w].pc = py[w].pc
      <4>1. FrameOK(py'[w])
        BY ZenonT(30), <1>1, <2>1, <3>1 DEF FrameOK, SameData, SameRun
      <4>2. InPlace(w)'
        BY Zenon, <1>1, <2>1, <3>1 DEF InPlace, At, SameData
      <4> QED BY Zenon, <4>1, <4>2
    <3>2. CASE py'[w].pc # py[w].pc
      <4>1. Reloading(w) /\ py'[w].pc \in {"load", "num_threads", "failed"}
        BY Zenon, <2>1, <3>2
      <4>2. FrameOK(py'[w])
        BY ZenonT(30), <1>1, <2>1, <4>1 DEF FrameOK, SameData, SameRun, Reloading, Early
      <4>3. in[w] = "out"
        BY Zenon, <1>1, <4>1, OutsideHandlers DEF Reloading
      <4> QED BY Zenon, <2>1, <4>2, <4>3, OutInPlace
    <3> QED BY Zenon, <3>1, <3>2
  <2>4. Busy' => \E w \in Users : Reloading(w)'
    BY Zenon, <1>1, <2>1, <2>2 DEF Reloading
  <2> QED BY Zenon, <2>3, <2>4 DEF PlacesInv
<1>6. CASE Noise
  <2>1. UNCHANGED <<mod, in, py>>
    BY Zenon, <1>6 DEF Noise, modVars
  <2> QED BY Zenon, <1>1, <2>1 DEF PlacesInv, InPlace, At, Busy, Reloading
<1> QED BY Zenon, <1>2, <1>3, <1>4, <1>5, <1>6 DEF SessionNext

\* A call that is alone stays alone until another begins.
LEMMA LoneStep ==
  ASSUME ModInv, CallsInv, PlacesInv, LoneInv, SessionNext
  PROVE  LoneInv'
<1>1. TypeOK
  BY Zenon DEF ModInv
<1>2. ASSUME NEW u \in Users, NEW call \in Calls, Begin(u, call)
      PROVE  LoneInv'
  <2>1. /\ ~Active(u) /\ py'[u].alone = (\A x \in Users \ {u} : ~Active(x))
        /\ \A w \in Users : w # u =>
              /\ py'[w].pc = py[w].pc
              /\ py'[w].alone = (py[w].alone /\ ~Active(w))
    <3>1. ~Active(u) /\ py'[u].alone = (\A x \in Users \ {u} : ~Active(x))
      BY Zenon, <1>2, BeginEffect
    <3>2. ASSUME NEW w \in Users, w # u
          PROVE  py'[w].pc = py[w].pc /\ py'[w].alone = (py[w].alone /\ ~Active(w))
      BY Zenon, <1>2, <3>2, BeginOthers
    <3> QED BY Zenon, <3>1, <3>2
  <2>2. \A w \in Users : w # u => (Active(w)' <=> Active(w))
    BY Zenon, <2>1 DEF Active
  <2>3. ASSUME NEW v \in Users, Lone(v)', NEW w \in Users, w # v
        PROVE  ~Active(w)'
    <3>1. v = u
      BY Zenon, <2>1, <2>2, <2>3 DEF Lone
    <3> QED BY Zenon, <2>1, <2>2, <2>3, <3>1 DEF Lone
  <2> QED BY Zenon, <2>3 DEF LoneInv
<1>3. ASSUME \A w \in Users : /\ Active(w)' => Active(w)
                              /\ py'[w].alone = py[w].alone
      PROVE  LoneInv'
  BY Zenon, <1>3 DEF LoneInv, Lone
<1>4. ASSUME NEW u \in Users, ScriptStep(u) PROVE LoneInv'
  <2>1. OwnFrame(u) /\ Active(u)
    BY Zenon, <1>1, <1>4, ScriptPlace, ActorIsActive DEF OwnPlace
  <2> QED BY Zenon, <1>3, <2>1 DEF OwnFrame, Active
<1>5. ASSUME NEW u \in Users, RunStep(u) PROVE LoneInv'
  <2>1. UNCHANGED py
    BY Zenon, <1>1, <1>5, RunStepEffect
  <2> QED BY Zenon, <1>3, <2>1 DEF Active
<1>6. CASE ModuleStep
  <2>1. \A w \in Users : /\ py'[w].alone = py[w].alone
                         /\ ~Reloading(w) => py'[w].pc = py[w].pc
    BY Zenon, <1>6, ModuleStepEffect
  <2>2. \A w \in Users : Active(w)' => Active(w)
    BY Zenon, <2>1 DEF Active, Reloading
  <2> QED BY Zenon, <1>3, <2>1, <2>2
<1>7. CASE Noise
  <2>1. UNCHANGED py
    BY Zenon, <1>7 DEF Noise
  <2> QED BY Zenon, <1>3, <2>1 DEF Active
<1> QED BY Zenon, <1>2, <1>4, <1>5, <1>6, <1>7 DEF SessionNext

\* A step that leaves the call where it is, and what it set up alone.
LEMMA StageKept ==
  ASSUME NEW u \in Users, Stage(u), SameData(u),
         py'[u].n = py[u].n, py'[u].secs = py[u].secs, py'[u].vals = py[u].vals,
         py'[u].pc = py[u].pc,
         UNCHANGED <<mod, runtime_seconds, num_threads, threads, tconf>>
  PROVE  Stage(u)'
  BY ZenonT(30) DEF Stage, SameData, SameRun, Asked

\* Opening a file changes nothing that was set up.
LEMMA OpenStage ==
  ASSUME TypeOK, CallsInv, NEW u \in Users, Stage(u), NEW e, NEW f, Open(u, e, f)
  PROVE  Active(u)' => Stage(u)'
<1>1. CASE py'[u].pc = "failed"
  BY Zenon, <1>1 DEF Active
<1>2. CASE py'[u].pc # "failed"
  <2>1. UNCHANGED <<mod, runtime_seconds, num_threads, threads, tconf, py>>
    BY Zenon, <1>2, OpenEffect
  <2>2. SameData(u)
    BY Zenon, <2>1 DEF SameData, SameRun
  <2> QED BY Zenon, <2>1, <2>2, StageKept
<1> QED BY Zenon, <1>1, <1>2

\* The values written so far, after the next.
LEMMA VarStage ==
  ASSUME ModInv, PlacesInv, NEW u \in Users, Stage(u),
         At(u, "var"), py[u].i < py[u].n,
         \/ HasValue(u) /\ VarStored(u)
         \/ ~HasValue(u) /\ NextVar(u, FALSE) /\ SameModule
  PROVE  Active(u)' => Stage(u)'
<1> SUFFICES ASSUME Active(u)' PROVE Stage(u)'
  OBVIOUS
<1>1. /\ py[u].i \in Nat /\ py[u].n \in Nat /\ num_threads = py[u].n
      /\ runtime_seconds = py[u].secs
      /\ tconf \in [Tids -> ThreadConfig]
      /\ \A t \in Tids : t < py[u].i /\ t < py[u].n =>
           Stored(tconf[t], py[u].vals[t]) = tconf[t]
  BY Zenon DEF Stage, At, ModInv, TypeOK, PlacesInv, FrameOK, Late
<1>2. /\ py'[u].n = py[u].n /\ py'[u].secs = py[u].secs /\ py'[u].vals = py[u].vals
      /\ py'[u].i = py[u].i + 1 /\ num_threads' = num_threads
      /\ runtime_seconds' = runtime_seconds /\ py'[u].pc = "var"
  <2>1. py'[u].pc # "failed"
    BY Zenon DEF Active
  <2> QED BY Zenon, <2>1 DEF VarStored, NextVar, OwnFrame, SameModule
<1>3. \A t \in Tids : t < py[u].i + 1 => t < py[u].i \/ t = py[u].i
  BY <1>1, KioModuleAssumption DEF Tids
<1>4. ASSUME NEW t \in Tids, t < py[u].i + 1, t < py[u].n
      PROVE  Stored(tconf'[t], py[u].vals[t]) = tconf'[t]
  <2>1. CASE VarStored(u) /\ HasValue(u)
    <3>1. ~kio_running
      BY Zenon, <1>2, <2>1 DEF VarStored, NextVar
    <3>2. ~(py[u].i >= num_threads)
      BY <1>1
    <3>3. tconf' = [tconf EXCEPT ![py[u].i] = Stored(@, py[u].vals[py[u].i])]
      BY Zenon, <2>1, <3>1, <3>2 DEF VarStored
    <3>4. CASE t = py[u].i
      <4>1. tconf'[t] = Stored(tconf[t], py[u].vals[t])
        BY Zenon, <1>1, <3>3, <3>4
      <4> QED BY Zenon, <4>1, StoredTwice
    <3>5. CASE t # py[u].i
      BY Zenon, <1>1, <1>3, <1>4, <3>3, <3>5
    <3> QED BY Zenon, <3>4, <3>5
  <2>2. CASE ~HasValue(u) /\ SameModule
    <3>1. CASE t = py[u].i
      <4>1. tconf[t] \in ThreadConfig /\ ~Writes(py[u].vals[t])
        BY Zenon, <1>1, <2>2, <3>1 DEF HasValue
      <4>2. Stored(tconf[t], py[u].vals[t]) = tconf[t]
        BY Zenon, <4>1, StoredNothing
      <4> QED BY Zenon, <2>2, <4>2 DEF SameModule
    <3>2. CASE t # py[u].i
      BY Zenon, <1>1, <1>3, <1>4, <2>2, <3>2 DEF SameModule
    <3> QED BY Zenon, <3>1, <3>2
  <2> QED BY Zenon, <2>1, <2>2
<1> QED BY Zenon, <1>1, <1>2, <1>4 DEF Stage, Late

\* A run that is accepted has the device, and each of its threads passed.
LEMMA AcceptedConfig ==
  ASSUME TypeOK, RunAccepted
  PROVE  /\ num_threads > 0 /\ threads = "live"
         /\ \A t \in 0 .. num_threads - 1 :
              /\ kio_config_is_valid(tconf[t], DevSize)
              /\ CheckedConfig[t] = Corrected(tconf[t], DevSize)
<1>1. num_threads > 0 /\ threads = "live" /\ ValidBefore(num_threads)
  BY Zenon DEF RunAccepted, RunChecked
<1>2. /\ tconf \in [Tids -> ThreadConfig] /\ num_threads \in 0 .. Cpus
      /\ dev_byte_size \in BOOLEAN
  BY Zenon DEF TypeOK
<1>3. 0 \in 0 .. num_threads - 1 /\ 0 \in Tids
  BY <1>1, <1>2, KioModuleAssumption DEF Tids
<1>4. dev_byte_size
  <2>1. kio_config_is_valid(tconf[0], DevByteSize) /\ tconf[0] \in ThreadConfig
    BY Zenon, <1>1, <1>2, <1>3 DEF ValidBefore
  <2> QED BY Zenon, <1>2, <2>1, NoDeviceNotValid DEF DevByteSize
<1>5. DevByteSize = DevSize
  BY Zenon, <1>4 DEF DevByteSize
<1>6. ASSUME NEW t \in 0 .. num_threads - 1
      PROVE  /\ kio_config_is_valid(tconf[t], DevSize)
             /\ CheckedConfig[t] = Corrected(tconf[t], DevSize)
  <2>1. t \in Tids /\ t < num_threads /\ 0 .. t - 1 \subseteq 0 .. num_threads - 1
    BY <1>2, KioModuleAssumption DEF Tids
  <2>2. ValidBefore(t)
    BY Zenon, <1>1, <2>1 DEF ValidBefore
  <2>3. CheckedConfig[t] = Corrected(tconf[t], DevByteSize)
    BY Zenon, <2>1, <2>2 DEF CheckedConfig
  <2> QED BY Zenon, <1>1, <1>5, <2>3 DEF ValidBefore
<1> QED BY Zenon, <1>1, <1>6

\* The run starts with the threads, the time and the values that were written.
LEMMA RunStage ==
  ASSUME ModInv, PlacesInv, NEW u \in Users, Stage(u),
         At(u, "run_workload"), RunStarted(u)
  PROVE  /\ Asked(py'[u]) /\ num_threads' = py'[u].n
         /\ runtime_seconds' = py'[u].secs
<1>1. /\ py[u].n \in Nat /\ py[u].i \in Nat /\ num_threads = py[u].n
      /\ py[u].i >= py[u].n /\ runtime_seconds = py[u].secs
      /\ py[u].conf = [t \in 0 .. py[u].n - 1 |->
                         IF threads = "live" THEN tconf[t] ELSE <<>>]
      /\ \A t \in Tids : t < py[u].i /\ t < py[u].n =>
           Stored(tconf[t], py[u].vals[t]) = tconf[t]
      /\ num_threads \in 0 .. Cpus /\ TypeOK
  BY Zenon DEF Stage, At, ModInv, TypeOK, PlacesInv, FrameOK, Late
<1>2. /\ py'[u].n = py[u].n /\ py'[u].secs = py[u].secs /\ py'[u].vals = py[u].vals
      /\ py'[u].conf = py[u].conf /\ num_threads' = num_threads
      /\ py'[u].time = runtime_seconds /\ runtime_seconds' = runtime_seconds
      /\ py'[u].ran = [t \in 0 .. py[u].n - 1 |-> tconf'[t]]
      /\ tconf' = CheckedConfig /\ RunAccepted
  BY Zenon, <1>1 DEF RunStarted, OwnFrame
<1>3. \A t \in 0 .. py[u].n - 1 : t \in Tids /\ t < py[u].i /\ t < py[u].n
  BY <1>1, KioModuleAssumption DEF Tids
<1>4. /\ py[u].n > 0 /\ threads = "live"
      /\ \A t \in 0 .. py[u].n - 1 : tconf'[t] = Corrected(tconf[t], DevSize)
  BY Zenon, <1>1, <1>2, AcceptedConfig
<1>5. /\ DOMAIN py'[u].ran = 0 .. py[u].n - 1 /\ DOMAIN py'[u].conf = 0 .. py[u].n - 1
      /\ \A t \in 0 .. py[u].n - 1 :
           py'[u].ran[t] = tconf'[t] /\ py'[u].conf[t] = tconf[t]
  <2>1. /\ py'[u].conf = [t \in 0 .. py[u].n - 1 |-> tconf[t]]
        /\ py'[u].ran = [t \in 0 .. py[u].n - 1 |-> tconf'[t]]
    BY Zenon, <1>1, <1>2, <1>4
  <2> QED BY Zenon, <2>1
<1>6. \A t \in 0 .. py[u].n - 1 : Stored(tconf[t], py[u].vals[t]) = tconf[t]
  BY Zenon, <1>1, <1>3
<1>7. \A t \in 0 .. py[u].n - 1 :
        /\ Stored(py'[u].conf[t], py'[u].vals[t]) = py'[u].conf[t]
        /\ py'[u].ran[t] = Corrected(py'[u].conf[t], DevSize)
  BY Zenon, <1>2, <1>4, <1>5, <1>6
<1> QED BY ZenonT(30), <1>1, <1>2, <1>4, <1>5, <1>7 DEF Asked

\* The same run is as it was asked for.
LEMMA AskedKept ==
  ASSUME NEW u \in Users, Asked(py[u]),
         py'[u].n = py[u].n, py'[u].secs = py[u].secs, py'[u].vals = py[u].vals,
         py'[u].ran = py[u].ran, py'[u].time = py[u].time,
         py'[u].conf = py[u].conf
  PROVE  Asked(py'[u])
  BY Zenon DEF Asked

\* Every step of a call that is alone sets up what the next relies on.
LEMMA OwnStage ==
  ASSUME ModInv, CallsInv, PlacesInv, NEW u \in Users, Stage(u), ScriptStep(u)
  PROVE  /\ Active(u)' => Stage(u)'
         /\ py'[u].own # 0 => Asked(py'[u])
<1>1. /\ TypeOK /\ FrameOK(py[u]) /\ py[u].n \in Nat /\ py[u].i \in Nat
      /\ py[u].own # 0 => py[u].pc \in {"read", "done", "failed"}
  BY Zenon DEF ModInv, PlacesInv, FrameOK
<1>2. /\ OwnFrame(u) /\ py'[u].n = py[u].n /\ py'[u].secs = py[u].secs
      /\ py'[u].vals = py[u].vals
  BY Zenon, ScriptPlace DEF OwnPlace, OwnFrame
<1>3. CASE ReadCur(u)
  <2>1. /\ At(u, "cur") /\ SameData(u) /\ SameModule
        /\ \/ py'[u].pc = "unload"
           \/ py'[u].pc = "num_threads" /\ num_threads = 0
           \/ py'[u].pc = "runtime_seconds" /\ num_threads = py[u].n
    BY Zenon, <1>1, <1>3, ReadCurEffect
  <2> QED BY Zenon, <1>1, <1>2, <2>1
          DEF Stage, Late, SameData, SameRun, SameModule, At
<1>4. CASE Unload(u)
  <2>1. /\ At(u, "unload") /\ SameData(u)
        /\ \/ py'[u].pc = "load" /\ mod' = "unloaded"
           \/ py'[u].pc = "unloading"
           \/ py'[u].pc = "failed"
    BY Zenon, <1>4, UnloadEffect
  <2> QED BY Zenon, <1>1, <2>1 DEF Stage, Late, SameData, SameRun, Active, At
<1>5. CASE Load(u)
  <2>1. /\ At(u, "load") /\ SameData(u)
        /\ \/ py'[u].pc = "loading" /\ num_threads' = 0
           \/ py'[u].pc = "failed"
    BY Zenon, <1>5, LoadEffect
  <2> QED BY Zenon, <1>1, <2>1 DEF Stage, Late, SameData, SameRun, Active, At
<1>6. CASE WriteNumThreads(u)
  <2>1. At(u, "num_threads") /\ (Open(u, TRUE, "num_threads") \/ NumStored(u))
    BY Zenon, <1>1, <1>6, WriteNumThreadsEffect
  <2>2. SameData(u)
    BY Zenon, <1>1, <2>1, OpenEffect DEF NumStored
  <2>3. py'[u].own = 0
    BY Zenon, <1>1, <2>1, <2>2 DEF SameData, SameRun, At
  <2>4. CASE Open(u, TRUE, "num_threads")
    BY Zenon, <1>1, <2>3, <2>4, OpenStage
  <2>5. CASE NumStored(u)
    <3>1. \/ py'[u].pc = "runtime_seconds" /\ num_threads' = py[u].n
          \/ py'[u].pc = "failed"
      BY Zenon, <2>5 DEF NumStored
    <3> QED BY Zenon, <1>2, <2>3, <3>1 DEF Stage, Active, Late
  <2> QED BY Zenon, <2>1, <2>4, <2>5
<1>7. CASE WriteRuntimeSeconds(u)
  <2>1. /\ At(u, "runtime_seconds")
        /\ Open(u, TRUE, "runtime_seconds") \/ RuntimeStored(u)
    BY Zenon, <1>1, <1>7, WriteRuntimeSecondsEffect
  <2>2. SameData(u)
    BY Zenon, <1>1, <2>1, OpenEffect DEF RuntimeStored
  <2>3. py'[u].own = 0
    BY Zenon, <1>1, <2>1, <2>2 DEF SameData, SameRun, At
  <2>4. CASE Open(u, TRUE, "runtime_seconds")
    BY Zenon, <1>1, <2>3, <2>4, OpenStage
  <2>5. CASE RuntimeStored(u)
    <3>1. /\ num_threads' = py[u].n
          /\ \/ py'[u].pc = "var" /\ runtime_seconds' = py[u].secs
             \/ py'[u].pc = "failed"
      BY Zenon, <2>1, <2>5 DEF RuntimeStored, Stage, At
    <3>2. py'[u].i = 0
      BY Zenon, <1>1, <2>1, <2>2 DEF SameData, FrameOK, At, Early
    <3>3. \A t \in Tids : ~(t < 0)
      BY KioModuleAssumption DEF Tids
    <3> QED BY Zenon, <1>2, <2>3, <3>1, <3>2, <3>3 DEF Stage, Active
  <2> QED BY Zenon, <2>1, <2>4, <2>5
<1>8. CASE WriteThreadVar(u)
  <2>1. /\ At(u, "var") /\ py[u].i < py[u].n
        /\ \/ HasValue(u) /\ Open(u, py[u].i < num_threads, "var")
           \/ HasValue(u) /\ VarStored(u)
           \/ ~HasValue(u) /\ NextVar(u, FALSE) /\ SameModule
    BY Zenon, <1>1, <1>8, WriteThreadVarEffect
  <2>2. py'[u].own = 0
    <3>1. SameRun(u)
      BY Zenon, <1>1, <2>1, OpenEffect DEF SameData, VarStored, NextVar
    <3> QED BY Zenon, <1>1, <2>1, <3>1 DEF SameRun, At
  <2>3. CASE Open(u, py[u].i < num_threads, "var")
    BY Zenon, <1>1, <2>2, <2>3, OpenStage
  <2> QED BY Zenon, <2>1, <2>2, <2>3, VarStage
<1>9. CASE GetConfig(u)
  <2>1. /\ At(u, "var") /\ py[u].i >= py[u].n /\ SameRun(u) /\ SameModule
        /\ py'[u].i = py[u].i
        /\ \/ /\ py'[u].pc = "mark"
              /\ py'[u].conf = [t \in 0 .. num_threads - 1 |->
                                  IF threads = "live" THEN tconf[t] ELSE <<>>]
           \/ py'[u].pc = "failed"
    BY Zenon, <1>9, GetConfigEffect
  <2>2. py'[u].own = 0
    BY Zenon, <1>1, <2>1 DEF SameRun, At
  <2>3. py'[u].pc = "mark" => Stage(u)'
    BY Zenon, <1>2, <2>1 DEF Stage, Late, At, SameModule
  <2> QED BY Zenon, <2>1, <2>2, <2>3 DEF Active
<1>10. CASE LastTimestamp(u)
  <2>1. /\ At(u, "mark") /\ SameModule
        /\ py'[u].pc = "run_workload" /\ py'[u].i = py[u].i
        /\ py'[u].conf = py[u].conf /\ py'[u].own = py[u].own
    BY Zenon, <1>10, LastTimestampEffect
  <2> QED BY Zenon, <1>1, <1>2, <2>1 DEF Stage, Late, At, SameModule
<1>11. CASE WriteRunWorkload(u)
  <2>1. /\ At(u, "run_workload")
        /\ Open(u, TRUE, "run_workload") \/ RunRefused(u) \/ RunStarted(u)
    BY Zenon, <1>1, <1>11, WriteRunWorkloadEffect
  <2>2. py'[u].own = 0
    BY Zenon, <1>1, <2>1, OpenEffect
       DEF SameData, SameRun, RunRefused, RunStarted, At
  <2>3. CASE Open(u, TRUE, "run_workload")
    BY Zenon, <1>1, <2>2, <2>3, OpenStage
  <2>4. CASE RunRefused(u)
    BY Zenon, <2>2, <2>4 DEF RunRefused, Active
  <2>5. CASE RunStarted(u)
    <3>1. /\ Asked(py'[u]) /\ num_threads' = py'[u].n
          /\ runtime_seconds' = py'[u].secs
      BY Zenon, <2>1, <2>5, RunStage
    <3>2. py'[u].pc \in {"wait", "read"}
      BY Zenon, <2>5 DEF RunStarted
    <3> QED BY Zenon, <3>1, <3>2 DEF Stage
  <2> QED BY Zenon, <2>1, <2>3, <2>4, <2>5
<1>12. CASE RunReturns(u)
  <2>1. /\ At(u, "wait") /\ py'[u].pc = "read"
        /\ UNCHANGED <<runtime_seconds, num_threads>>
        /\ py'[u].ran = py[u].ran /\ py'[u].time = py[u].time
        /\ py'[u].conf = py[u].conf
    BY Zenon, <1>1, <1>12, RunReturnsEffect
  <2>2. Asked(py'[u])
    BY Zenon, <1>2, <2>1, AskedKept DEF Stage, At
  <2> QED BY Zenon, <1>2, <2>1, <2>2 DEF Stage, Late, At
<1>13. CASE ParseResults(u)
  <2>1. /\ At(u, "read") /\ py'[u].pc \in {"done", "failed"}
        /\ py'[u].ran = py[u].ran /\ py'[u].time = py[u].time
        /\ py'[u].conf = py[u].conf
    BY Zenon, <1>13, ParseResultsEffect
  <2>2. Asked(py'[u])
    BY Zenon, <1>2, <2>1, AskedKept DEF Stage, At
  <2> QED BY Zenon, <2>1, <2>2 DEF Active
<1>14. CASE Dies(u)
  <2>1. Active(u) /\ py'[u].pc = "failed" /\ SameData(u)
    BY Zenon, <1>1, <1>14, DiesEffect
  <2>2. py'[u].own # 0 => At(u, "read")
    BY Zenon, <1>1, <2>1 DEF Active, SameData, SameRun, At
  <2>3. At(u, "read") => Asked(py'[u])
    BY Zenon, <1>2, <2>1, AskedKept DEF Stage, At, SameData, SameRun
  <2> QED BY Zenon, <2>1, <2>2, <2>3 DEF Active
<1> QED BY Zenon, <1>3, <1>4, <1>5, <1>6, <1>7, <1>8, <1>9, <1>10, <1>11, <1>12,
               <1>13, <1>14 DEF ScriptStep

\* What a call that is alone has set up stays, for nobody else takes steps.
LEMMA StagesStep ==
  ASSUME ModInv, CallsInv, PlacesInv, LoneInv, StagesInv, SessionNext
  PROVE  StagesInv'
<1> SUFFICES ASSUME NEW v \in Users
             PROVE  /\ Lone(v)' => Stage(v)'
                    /\ py'[v].own # 0 /\ py'[v].alone => Asked(py'[v])
  BY Zenon DEF StagesInv
<1>1. /\ TypeOK
      /\ Lone(v) => Stage(v)
      /\ py[v].own # 0 /\ py[v].alone => Asked(py[v])
  BY Zenon DEF ModInv, StagesInv
<1>2. ASSUME NEW u \in Users, NEW call \in Calls, Begin(u, call)
      PROVE  /\ Lone(v)' => Stage(v)'
             /\ py'[v].own # 0 /\ py'[v].alone => Asked(py'[v])
  <2>1. CASE v = u
    <3>1. py'[u].pc = "cur" /\ py'[u].own = 0
      BY Zenon, <1>2, BeginEffect
    <3> QED BY Zenon, <2>1, <3>1 DEF Stage, Late
  <2>2. CASE v # u
    <3>1. /\ py'[v].pc = py[v].pc /\ py'[v].n = py[v].n
          /\ py'[v].secs = py[v].secs /\ py'[v].vals = py[v].vals /\ SameData(v)
          /\ py'[v].alone = (py[v].alone /\ ~Active(v))
      BY Zenon, <1>2, <2>2, BeginOthers
    <3>2. ~Lone(v)'
      BY Zenon, <3>1 DEF Lone, Active
    <3> QED BY Zenon, <1>1, <3>1, <3>2, AskedKept DEF SameData, SameRun
  <2> QED BY Zenon, <2>1, <2>2
<1>3. ASSUME NEW u \in Users, ScriptStep(u)
      PROVE  /\ Lone(v)' => Stage(v)'
             /\ py'[v].own # 0 /\ py'[v].alone => Asked(py'[v])
  <2>1. OwnFrame(u) /\ Active(u)
    BY Zenon, <1>1, <1>3, ScriptPlace, ActorIsActive DEF OwnPlace
  <2>2. CASE v = u
    BY Zenon, <1>1, <1>3, <2>1, <2>2, OwnStage DEF OwnFrame, Lone
  <2>3. CASE v # u
    <3>1. py'[v] = py[v]
      BY Zenon, <2>1, <2>3 DEF OwnFrame
    <3>2. ~Lone(v)'
      BY Zenon, <2>1, <2>3, <3>1 DEF LoneInv, Lone, Active
    <3> QED BY Zenon, <1>1, <3>1, <3>2
  <2> QED BY Zenon, <2>2, <2>3
<1>4. ASSUME UNCHANGED <<py, mod, runtime_seconds, num_threads, threads, tconf>>
      PROVE  /\ Lone(v)' => Stage(v)'
             /\ py'[v].own # 0 /\ py'[v].alone => Asked(py'[v])
  <2>1. SameData(v)
    BY Zenon, <1>4 DEF SameData, SameRun
  <2>2. Lone(v)' => Lone(v)
    BY Zenon, <1>4 DEF Lone, Active
  <2> QED BY Zenon, <1>1, <1>4, <2>1, <2>2, StageKept
<1>5. ASSUME NEW u \in Users, RunStep(u)
      PROVE  /\ Lone(v)' => Stage(v)'
             /\ py'[v].own # 0 /\ py'[v].alone => Asked(py'[v])
  BY Zenon, <1>1, <1>4, <1>5, RunStepEffect
<1>6. CASE ModuleStep
  <2>1. /\ Busy /\ num_threads' = num_threads
        /\ py'[v].n = py[v].n /\ py'[v].secs = py[v].secs
        /\ py'[v].vals = py[v].vals
        /\ py'[v].alone = py[v].alone /\ SameData(v)
        /\ ~Reloading(v) => py'[v].pc = py[v].pc
        /\ Reloading(v) => \/ py'[v].pc = py[v].pc
                           \/ py'[v].pc = "load" /\ mod' = "unloaded"
                           \/ py'[v].pc = "num_threads" /\ py[v].pc = "loading"
                           \/ py'[v].pc = "failed"
    BY Zenon, <1>6, ModuleStepEffect
  <2>2. py'[v].own # 0 /\ py'[v].alone => Asked(py'[v])
    BY Zenon, <1>1, <2>1, AskedKept DEF SameData, SameRun
  <2>3. ASSUME Lone(v)' PROVE Stage(v)'
    <3>1. Lone(v)
      BY Zenon, <2>1, <2>3 DEF Lone, Active, Reloading
    <3>2. Reloading(v)
      <4>1. PICK w \in Users : Reloading(w)
        BY Zenon, <2>1 DEF PlacesInv
      <4> QED BY Zenon, <3>1, <4>1 DEF LoneInv, Reloading, Active
    <3>3. py[v].pc = "loading" => num_threads = 0
      BY Zenon, <1>1, <3>1 DEF Stage
    <3>4. py'[v].pc # "failed"
      BY Zenon, <2>3 DEF Lone, Active
    <3> QED BY Zenon, <2>1, <3>2, <3>3, <3>4 DEF Stage, Reloading, Late
  <2> QED BY Zenon, <2>2, <2>3
<1>7. CASE Noise
  BY Zenon, <1>4, <1>7 DEF Noise, modVars, confVars
<1> QED BY Zenon, <1>2, <1>3, <1>5, <1>6, <1>7 DEF SessionNext

\* The invariant of calls that are alone.
AloneInv == PlacesInv /\ LoneInv /\ StagesInv

\* A call that is alone finds the driver as it has set it up, place by place.
THEOREM AloneInvariant == SessionSpec => []AloneInv
<1>1. SessionInit => AloneInv
  <2> SUFFICES ASSUME SessionInit PROVE AloneInv
    OBVIOUS
  <2>1. /\ \A u \in Users : py[u] = Idle /\ in[u] = "out"
        /\ mod = "unloaded"
    BY Zenon DEF SessionInit, Init
  <2>2. /\ Idle.pc = "idle" /\ Idle.n = 0 /\ Idle.i = 0 /\ Idle.own = 0
        /\ Idle.alone = TRUE /\ Idle.kept = TRUE /\ Idle.marked = TRUE
    BY Zenon DEF Idle
  <2>3. 0 \in Nat
    OBVIOUS
  <2>4. FrameOK(Idle)
    BY Zenon, <2>2, <2>3 DEF FrameOK, Early
  <2>5. PlacesInv
    BY Zenon, <2>1, <2>4 DEF PlacesInv, InPlace, Busy, Loading, Leaving
  <2>6. \A u \in Users : ~Active(u) /\ py[u].own = 0
    BY Zenon, <2>1, <2>2 DEF Active
  <2> QED BY Zenon, <2>5, <2>6 DEF AloneInv, LoneInv, StagesInv, Lone
<1>2. ModInv /\ CallsInv /\ AloneInv /\ [SessionNext]_allVars => AloneInv'
  <2> SUFFICES ASSUME ModInv, CallsInv, AloneInv, [SessionNext]_allVars
               PROVE  AloneInv'
    OBVIOUS
  <2>1. CASE SessionNext
    BY Zenon, <2>1, PlacesStep, LoneStep, StagesStep DEF AloneInv
  <2>2. CASE UNCHANGED allVars
    <3>1. UNCHANGED <<py, mod, in, runtime_seconds, num_threads, threads, tconf>>
      BY Zenon, <2>2 DEF allVars, pyVars, vars, modVars, confVars
    <3>2. PlacesInv'
      BY Zenon, <3>1 DEF AloneInv, PlacesInv, InPlace, At, Busy, Reloading
    <3>3. LoneInv'
      BY Zenon, <3>1 DEF AloneInv, LoneInv, Lone, Active
    <3>4. \A u \in Users : (Lone(u)' => Lone(u)) /\ SameData(u)
      BY Zenon, <3>1 DEF Lone, Active, SameData, SameRun
    <3>5. StagesInv'
      BY Zenon, <3>1, <3>4, StageKept DEF AloneInv, StagesInv
    <3> QED BY Zenon, <3>2, <3>3, <3>5 DEF AloneInv
  <2> QED BY Zenon, <2>1, <2>2
<1> QED BY <1>1, <1>2, SessionInvariant, PTL DEF SessionSpec

\* The run of a call that was alone has the threads and the time it asked for, and
\* the numbers it gave as the fields hold them; the configuration shown is the one
\* that ran, but for the corrected offset_high, whatever calls came before.
THEOREM RunsAreAsAsked == SessionSpec => []RunsAsAsked
<1>1. AloneInv => RunsAsAsked
  BY Zenon DEF AloneInv, StagesInv, Asked, RunsAsAsked
<1> QED BY <1>1, AloneInvariant, PTL

-----------------------------------------------------------------------------
(***************************************************************************)
(* What a run has measured.                                                *)
(***************************************************************************)
\* A run that has printed its statistics had threads, and measured something for
\* each.
HasThreads(f) == \E n \in 1 .. Cpus : DOMAIN f.ran = 0 .. n - 1

Counted(f) ==
  /\ f.pc = "wait" \/ f.own # 0 => HasThreads(f)
  /\ f.own # 0 => f.measured \in Measured

CountedInv == \A u \in Users : Counted(py[u])

\* A step of a call on its own frame.
LEMMA ScriptCounts ==
  ASSUME ModInv, CallsInv, PlacesInv, NEW u \in Users, Counted(py[u]), ScriptStep(u)
  PROVE  Counted(py'[u])
<1>1. /\ TypeOK /\ FrameOK(py[u]) /\ py[u].i \in Nat /\ py[u].n \in Nat
      /\ py[u].own # 0 => py[u].pc \in {"read", "done", "failed"}
  BY Zenon DEF ModInv, PlacesInv, FrameOK
<1>2. ASSUME py[u].pc \notin {"wait", "read", "done", "failed"},
             py'[u].own = py[u].own, py'[u].pc # "wait"
      PROVE  Counted(py'[u])
  BY Zenon, <1>1, <1>2 DEF Counted
<1>3. ASSUME NEW e, NEW f, Open(u, e, f), At(u, f), f # "wait",
             f \notin {"read", "done", "failed"}
      PROVE  Counted(py'[u])
  <2>1. SameData(u) /\ (py'[u].pc = py[u].pc \/ py'[u].pc = "failed")
    BY Zenon, <1>1, <1>3, OpenEffect
  <2> QED BY Zenon, <1>2, <1>3, <2>1 DEF SameData, SameRun, At
<1>4. CASE ReadCur(u)
  BY Zenon, <1>1, <1>2, <1>4, ReadCurEffect DEF SameData, SameRun, At
<1>5. CASE Unload(u) \/ Load(u)
  BY Zenon, <1>1, <1>2, <1>5, UnloadEffect, LoadEffect DEF SameData, SameRun, At
<1>6. CASE WriteNumThreads(u)
  BY Zenon, <1>1, <1>2, <1>3, <1>6, WriteNumThreadsEffect
     DEF NumStored, SameData, SameRun, At
<1>7. CASE WriteRuntimeSeconds(u)
  BY Zenon, <1>1, <1>2, <1>3, <1>7, WriteRuntimeSecondsEffect
     DEF RuntimeStored, SameData, SameRun, At
<1>8. CASE WriteThreadVar(u)
  BY Zenon, <1>1, <1>2, <1>3, <1>8, WriteThreadVarEffect
     DEF VarStored, NextVar, SameRun, At
<1>9. CASE GetConfig(u) \/ LastTimestamp(u)
  BY Zenon, <1>1, <1>2, <1>9, GetConfigEffect, LastTimestampEffect DEF SameRun, At
<1>10. CASE WriteRunWorkload(u)
  <2>1. CASE RunRefused(u)
    BY Zenon, <1>1, <1>2, <1>10, <2>1, WriteRunWorkloadEffect
       DEF RunRefused, SameData, SameRun, At
  <2>2. CASE RunStarted(u)
    <3>1. py[u].own = 0 /\ py'[u].own = py[u].own
      BY Zenon, <1>1, <1>10, <2>2, WriteRunWorkloadEffect DEF RunStarted, At
    <3>2. num_threads \in 1 .. Cpus
      BY <1>1, <2>2 DEF RunStarted, RunAccepted, RunChecked, TypeOK
    <3>3. DOMAIN py'[u].ran = 0 .. num_threads - 1
      BY Zenon, <2>2 DEF RunStarted
    <3> QED BY Zenon, <3>1, <3>2, <3>3 DEF Counted, HasThreads
  <2> QED BY Zenon, <1>1, <1>3, <1>10, <2>1, <2>2, WriteRunWorkloadEffect DEF At
<1>11. CASE RunReturns(u)
  BY Zenon, <1>1, <1>11, RunReturnsEffect DEF Counted, HasThreads, At
<1>12. CASE ParseResults(u)
  BY Zenon, <1>1, <1>12, ParseResultsEffect DEF Counted, HasThreads, At
<1>13. CASE Dies(u)
  BY Zenon, <1>1, <1>13, DiesEffect DEF Counted, HasThreads, SameData, SameRun
<1> QED BY Zenon, <1>4, <1>5, <1>6, <1>7, <1>8, <1>9, <1>10, <1>11, <1>12, <1>13
        DEF ScriptStep

\* The other steps change nothing of a run that has begun.
LEMMA CountedStep ==
  ASSUME ModInv, CallsInv, PlacesInv, CountedInv, SessionNext
  PROVE  CountedInv'
<1> SUFFICES ASSUME NEW u \in Users PROVE Counted(py'[u])
  BY Zenon DEF CountedInv
<1>1. TypeOK /\ Counted(py[u])
  BY Zenon DEF ModInv, CountedInv
<1>2. ASSUME SameData(u), py'[u].pc = "wait" => py[u].pc = "wait"
      PROVE  Counted(py'[u])
  BY Zenon, <1>1, <1>2 DEF SameData, SameRun, Counted, HasThreads
<1>3. ASSUME NEW v \in Users, NEW call \in Calls, Begin(v, call)
      PROVE  Counted(py'[u])
  <2>1. CASE v = u
    BY Zenon, <1>3, <2>1, BeginEffect DEF Counted
  <2>2. CASE v # u
    BY Zenon, <1>2, <1>3, <2>2, BeginOthers
  <2> QED BY Zenon, <2>1, <2>2
<1>4. ASSUME NEW v \in Users, ScriptStep(v) PROVE Counted(py'[u])
  <2>1. CASE v = u
    BY Zenon, <1>1, <1>4, <2>1, ScriptCounts
  <2>2. CASE v # u
    BY Zenon, <1>1, <1>4, <2>2, ScriptPlace DEF OwnPlace, OwnFrame
  <2> QED BY Zenon, <2>1, <2>2
<1>5. ASSUME NEW v \in Users, RunStep(v) PROVE Counted(py'[u])
  BY Zenon, <1>1, <1>5, RunStepEffect
<1>6. CASE ModuleStep
  BY Zenon, <1>2, <1>6, ModuleStepEffect
<1>7. CASE Noise
  BY Zenon, <1>1, <1>7 DEF Noise
<1> QED BY Zenon, <1>3, <1>4, <1>5, <1>6, <1>7 DEF SessionNext

\* Every run that printed statistics had threads and measured them, alone or not.
THEOREM CountedInvariant == SessionSpec => []CountedInv
<1>1. SessionInit => CountedInv
  <2>1. Idle.pc = "idle" /\ Idle.own = 0
    BY Zenon DEF Idle
  <2> QED BY Zenon, <2>1 DEF SessionInit, CountedInv, Counted
<1>2. ModInv /\ CallsInv /\ AloneInv /\ CountedInv /\ [SessionNext]_allVars =>
        CountedInv'
  <2> SUFFICES ASSUME ModInv, CallsInv, AloneInv, CountedInv, [SessionNext]_allVars
               PROVE  CountedInv'
    OBVIOUS
  <2>1. CASE UNCHANGED allVars
    BY Zenon, <2>1 DEF allVars, pyVars, CountedInv, Counted, HasThreads
  <2> QED BY Zenon, <2>1, CountedStep DEF AloneInv
<1> QED BY <1>1, <1>2, SessionInvariant, AloneInvariant, PTL DEF SessionSpec

-----------------------------------------------------------------------------
(***************************************************************************)
(* Calls, handlers, loads and unloads never all wait for each other.       *)
(***************************************************************************)
\* What a call that waits is waiting for is under way.
Waits(u) ==
  /\ At(u, "wait") => in[u] \in {"running", "hung"}
  /\ At(u, "loading") => Busy
  /\ At(u, "unloading") => mod \in Leaving

WaitsInv == \A u \in Users : Waits(u)

\* Where a step of insmod or rmmod leads; an unload does not turn back.
LEMMA ModPath ==
  ASSUME ModStep
  PROVE  /\ mod' \in Loading \cup Leaving \cup {"loaded", "unloaded", "oops"}
         /\ mod \in Leaving => mod' \in Leaving \cup {"unloaded", "oops"}
<1>1. CASE CreateFile \/ Finalize \/ PutBackBd
  BY Zenon, <1>1 DEF CreateFile, Finalize, PutBackBd, Goes, Loading, Leaving
<1>2. CASE ClearIo \/ DestroyAllThreads \/ PutKobj \/ Drain
  BY Zenon, <1>2 DEF ClearIo, DestroyAllThreads, PutKobj, Drain, Goes, Leaving
<1>3. CASE IoInit
  BY Zenon, <1>3 DEF IoInit, Takes, Goes, Loading, Leaving
<1>4. CASE IoInitError \/ IoExit
  BY Zenon, <1>1, <1>4 DEF IoInitError, IoExit, Gives, Goes, Loading, Leaving
<1> QED BY Zenon, <1>1, <1>2, <1>3, <1>4 DEF ModStep

\* A call does not go on waiting for an insmod or rmmod that is over.
LEMMA ReloadEnds ==
  ASSUME CallsInv, ModuleStep, NEW w \in Users
  PROVE  /\ py'[w].pc = "loading" => mod' \notin {"loaded", "unloaded", "oops"}
         /\ py'[w].pc = "unloading" => mod' \notin {"unloaded", "oops"}
<1> DEFINE pc == py[w].pc
           to == CASE pc = "unloading" /\ mod' = "unloaded" -> "load"
                   [] pc = "loading" /\ mod' = "loaded" -> "num_threads"
                   [] pc = "loading" /\ mod' = "unloaded" -> "failed"
                   [] pc \in {"loading", "unloading"} /\ mod' = "oops" -> "failed"
                   [] OTHER -> pc
<1>1. DOMAIN py[w] = FrameFields
  BY Zenon DEF CallsInv, Given
<1>2. py'[w] = [py[w] EXCEPT !.pc = to]
  BY Zenon, <1>1 DEF ModuleStep, FrameFields
<1>3. /\ to = "loading" => mod' \notin {"loaded", "unloaded", "oops"}
      /\ to = "unloading" => mod' \notin {"unloaded", "oops"}
  BY Zenon
<1> HIDE DEF to
<1>4. py'[w].pc = to
  BY Zenon, <1>1, <1>2 DEF FrameFields
<1> QED BY Zenon, <1>3, <1>4

\* A step of the script waits only for what it has begun, and begins to load or
\* unload only when nobody else does.
LEMMA ScriptWaits ==
  ASSUME ModInv, CallsInv, PlacesInv, NEW u \in Users, Waits(u), ScriptStep(u)
  PROVE  Waits(u)' /\ (mod' = mod \/ mod \in {"loaded", "unloaded"})
<1>1. /\ TypeOK /\ FrameOK(py[u]) /\ py[u].n \in Nat
  BY Zenon DEF ModInv, PlacesInv, FrameOK
<1>2. ASSUME py'[u].pc \notin {"wait", "loading", "unloading"} PROVE Waits(u)'
  BY Zenon, <1>2 DEF Waits, At
<1>3. ASSUME NEW e, NEW f, Open(u, e, f),
             py[u].pc \notin {"wait", "loading", "unloading"}
      PROVE  Waits(u)' /\ mod' = mod
  BY Zenon, <1>1, <1>2, <1>3, OpenEffect DEF SameModule
<1>4. CASE ReadCur(u)
  BY Zenon, <1>1, <1>2, <1>4, ReadCurEffect DEF SameModule
<1>5. CASE Unload(u)
  <2>1. CASE Rmmod /\ Goto(u, "unloading")
    <3>1. mod = "loaded" /\ mod' = "bioset_exit" /\ py'[u].pc = "unloading"
      BY Zenon, <2>1, GotoEffect DEF Rmmod, Goes
    <3> QED BY Zenon, <3>1 DEF Waits, At, Leaving
  <2>2. CASE /\ Goto(u, "load") \/ Goto(u, "failed")
             /\ UNCHANGED modVars
    <3>1. py'[u].pc = "load" \/ py'[u].pc = "failed"
      BY Zenon, <2>2, GotoEffect
    <3> QED BY Zenon, <1>2, <2>2, <3>1 DEF modVars
  <2> QED BY Zenon, <1>5, <2>1, <2>2 DEF Unload, Fails
<1>6. CASE Load(u)
  BY Zenon, <1>2, <1>6, LoadEffect DEF Waits, At, Busy, Loading
<1>7. CASE WriteNumThreads(u)
  <2>1. CASE NumStored(u)
    BY Zenon, <1>2, <2>1 DEF NumStored
  <2> QED BY Zenon, <1>1, <1>3, <1>7, <2>1, WriteNumThreadsEffect DEF At
<1>8. CASE WriteRuntimeSeconds(u)
  <2>1. CASE RuntimeStored(u)
    BY Zenon, <1>2, <2>1 DEF RuntimeStored
  <2> QED BY Zenon, <1>1, <1>3, <1>8, <2>1, WriteRuntimeSecondsEffect DEF At
<1>9. CASE WriteThreadVar(u)
  <2>1. CASE VarStored(u)
    BY Zenon, <1>2, <2>1 DEF VarStored, NextVar
  <2>2. CASE NextVar(u, FALSE) /\ SameModule
    BY Zenon, <1>2, <2>2 DEF NextVar, SameModule
  <2> QED BY Zenon, <1>1, <1>3, <1>9, <2>1, <2>2, WriteThreadVarEffect DEF At
<1>10. CASE GetConfig(u)
  BY Zenon, <1>2, <1>10, GetConfigEffect DEF SameModule
<1>11. CASE LastTimestamp(u)
  BY Zenon, <1>2, <1>11, LastTimestampEffect DEF SameModule
<1>12. CASE WriteRunWorkload(u)
  <2>1. CASE RunRefused(u)
    BY Zenon, <1>2, <2>1 DEF RunRefused
  <2>2. CASE RunStarted(u)
    BY Zenon, <1>2, <2>2 DEF RunStarted, Waits, At
  <2> QED BY Zenon, <1>1, <1>3, <1>12, <2>1, <2>2, WriteRunWorkloadEffect DEF At
<1>13. CASE RunReturns(u)
  BY Zenon, <1>1, <1>2, <1>13, RunReturnsEffect
<1>14. CASE ParseResults(u)
  BY Zenon, <1>2, <1>14, ParseResultsEffect DEF SameModule
<1>15. CASE Dies(u)
  BY Zenon, <1>1, <1>2, <1>15, DiesEffect
<1> QED BY Zenon, <1>4, <1>5, <1>6, <1>7, <1>8, <1>9, <1>10, <1>11, <1>12, <1>13,
               <1>14, <1>15 DEF ScriptStep

\* Whatever happens, a call that waits for the module or for its run has one to
\* wait for.
LEMMA WaitsStep ==
  ASSUME ModInv, CallsInv, PlacesInv, WaitsInv, SessionNext
  PROVE  WaitsInv'
<1> SUFFICES ASSUME NEW u \in Users PROVE Waits(u)'
  BY Zenon DEF WaitsInv
<1>1. TypeOK /\ Waits(u)
  BY Zenon DEF ModInv, WaitsInv
<1>2. ASSUME py'[u].pc = py[u].pc, in'[u] = in[u], mod' = mod PROVE Waits(u)'
  BY Zenon, <1>1, <1>2 DEF Waits, At, Busy
<1>3. ASSUME NEW v \in Users, NEW call \in Calls, Begin(v, call)
      PROVE  Waits(u)'
  <2>1. CASE v = u
    BY Zenon, <1>3, <2>1, BeginEffect DEF Waits, At
  <2>2. CASE v # u
    <3>1. py'[u].pc = py[u].pc
      BY Zenon, <1>3, <2>2, BeginOthers
    <3>2. SameModule
      BY Zenon, <1>3, BeginEffect
    <3> QED BY Zenon, <1>2, <3>1, <3>2 DEF SameModule
  <2> QED BY Zenon, <2>1, <2>2
<1>4. ASSUME NEW v \in Users, ScriptStep(v) PROVE Waits(u)'
  <2>1. CASE v = u
    BY Zenon, <1>1, <1>4, <2>1, ScriptWaits
  <2>2. CASE v # u
    <3>1. py'[u] = py[u] /\ in'[u] = in[u]
      BY Zenon, <1>4, <2>2, ScriptPlace DEF OwnPlace, OwnFrame
    <3>2. mod' = mod \/ mod \in {"loaded", "unloaded"}
      BY Zenon, <1>4, ScriptWaits DEF WaitsInv
    <3>3. mod \in {"loaded", "unloaded"} => py[u].pc \notin {"loading", "unloading"}
      BY Zenon, <1>1 DEF Waits, At, Busy, Loading, Leaving
    <3>4. CASE mod' = mod BY Zenon, <1>2, <3>1, <3>4
    <3>5. CASE mod \in {"loaded", "unloaded"}
      BY Zenon, <1>1, <3>1, <3>3, <3>5 DEF Waits, At
    <3> QED BY Zenon, <3>2, <3>4, <3>5
  <2> QED BY Zenon, <2>1, <2>2
<1>5. ASSUME NEW v \in Users, RunStep(v) PROVE Waits(u)'
  <2>1. /\ UNCHANGED <<py, mod>>
        /\ in'[v] = in[v] \/ in'[v] = "hung"
        /\ \A w \in Users : w # v => in'[w] = in[w]
    BY Zenon, <1>1, <1>5, RunStepEffect
  <2> QED BY Zenon, <1>1, <2>1 DEF Waits, At, Busy
<1>6. CASE ModuleStep
  <2>1. /\ in' = in
        /\ ~Reloading(u) => py'[u].pc = py[u].pc
        /\ py'[u].pc = "unloading" => py[u].pc = "unloading"
        /\ py'[u].pc = "wait" => py[u].pc = "wait"
    BY Zenon, <1>6, ModuleStepEffect DEF Reloading
  <2>2. /\ mod' \in Loading \cup Leaving \cup {"loaded", "unloaded", "oops"}
        /\ mod \in Leaving => mod' \in Leaving \cup {"unloaded", "oops"}
    BY Zenon, <1>6, ModPath DEF ModuleStep
  <2>3. /\ py'[u].pc = "loading" => mod' \notin {"loaded", "unloaded", "oops"}
        /\ py'[u].pc = "unloading" => mod' \notin {"unloaded", "oops"}
    BY Zenon, <1>6, ReloadEnds
  <2> QED BY Zenon, <1>1, <2>1, <2>2, <2>3 DEF Waits, At, Busy
<1>7. CASE Noise
  <2>1. UNCHANGED <<mod, in, py>>
    BY Zenon, <1>7 DEF Noise, modVars
  <2> QED BY Zenon, <1>2, <2>1
<1> QED BY Zenon, <1>3, <1>4, <1>5, <1>6, <1>7 DEF SessionNext

\* A call that waits for the module, or for its run, has one to wait for.
THEOREM WaitsInvariant == SessionSpec => []WaitsInv
<1>1. SessionInit => WaitsInv
  <2>1. Idle.pc = "idle"
    BY Zenon DEF Idle
  <2> QED BY Zenon, <2>1 DEF SessionInit, WaitsInv, Waits, At
<1>2. ModInv /\ CallsInv /\ AloneInv /\ WaitsInv /\ [SessionNext]_allVars => WaitsInv'
  <2> SUFFICES ASSUME ModInv, CallsInv, AloneInv, WaitsInv, [SessionNext]_allVars
               PROVE  WaitsInv'
    OBVIOUS
  <2>1. CASE UNCHANGED allVars
    <3>1. UNCHANGED <<py, mod, in>>
      BY Zenon, <2>1 DEF allVars, pyVars, vars, modVars
    <3> QED BY Zenon, <3>1 DEF WaitsInv, Waits, At, Busy
  <2> QED BY Zenon, <2>1, WaitsStep DEF AloneInv
<1> QED BY <1>1, <1>2, SessionInvariant, AloneInvariant, PTL DEF SessionSpec

\* Nothing is stuck for good but behind a run that hangs or a process that died in
\* one: else the holder of the mutex runs, who waits for the mutex waits for the
\* holder, an unload for both, and a call for the unload.
THEOREM NobodyIsStuck == SessionSpec => []NoDeadlock
<1>1. TypeOK /\ PlacesInv /\ WaitsInv => NoDeadlock
  <2> SUFFICES ASSUME TypeOK, PlacesInv, WaitsInv, NEW u \in Users, Active(u),
                      \A v \in Users : ~CallCanStep(v) /\ in[v] \notin {"hung", "dead"}
               PROVE  ModCanStep
    BY Zenon DEF NoDeadlock
  <2>1. \A v \in Users : in[v] \in Handlers /\ InPlace(v) /\ Waits(v)
    BY Zenon DEF TypeOK, PlacesInv, WaitsInv
  <2>2. \A v \in Users : in[v] # "running"
    <3> SUFFICES ASSUME NEW v \in Users, in[v] = "running" PROVE FALSE
      OBVIOUS
    <3>1. At(v, "wait") BY Zenon, <2>1 DEF InPlace
    <3> QED BY Zenon, <3>1 DEF CallCanStep, Active, At
  <2>3. MutexFree
    BY Zenon, <2>2 DEF MutexFree, InRun
  <2>4. \A v \in Users : in[v] = "out"
    <3> SUFFICES ASSUME NEW v \in Users, in[v] # "out" PROVE FALSE
      OBVIOUS
    <3>1. At(v, in[v]) /\ in[v] \in {"num_threads", "runtime_seconds", "var",
                                     "run_workload"}
      BY Zenon, <2>1, <2>2 DEF Handlers, InRun, InPlace
    <3> QED BY Zenon, <2>3, <3>1 DEF CallCanStep, Active, At
  <2>5. At(u, "loading") \/ At(u, "unloading")
    BY Zenon, <2>1, <2>2, <2>3 DEF CallCanStep, Waits, At
  <2>6. mod \in Loading \cup Leaving
    BY Zenon, <2>1, <2>5 DEF Waits, Busy
  <2> QED BY Zenon, <2>4, <2>6 DEF ModCanStep, DirsUnused, FilesUnused
<1>2. ModInv /\ AloneInv => TypeOK /\ PlacesInv
  BY Zenon DEF ModInv, AloneInv
<1> QED BY <1>1, <1>2, SessionInvariant, AloneInvariant, WaitsInvariant, PTL
=============================================================================
