----------------------------- MODULE KioConfig -----------------------------
(***************************************************************************)
(* The configuration of the driver (driver/kio_config.c) under several     *)
(* processes that write to its sysfs files: num_threads, runtime_seconds   *)
(* and run_workload, whose handlers hold kio_config.mutex, and the files   *)
(* of each thread's directory, whose handler does not.  kio_run() is the   *)
(* part of it that the configuration sees, KioRun is the rest.             *)
(***************************************************************************)
EXTENDS KioFields, FiniteSets

CONSTANTS
  Writers,          \* processes with a sysfs file open for writing
  Cpus,             \* num_online_cpus()
  DevSize,          \* kio_io.dev_byte_size
  NumThreadsArgs,   \* what is written to num_threads,
  SecondsArgs,      \* to runtime_seconds,
  Stores,           \* and to a thread's files: [var |-> ..., value |-> ...]
  Faults            \* what may fail, see FaultKinds

\* kzalloc() of the array, kobject_create_and_add(), sysfs_create_file(), the
\* kstrtol() of a thread's file, and the part of kio_run() that sets up its
\* threads.
FaultKinds == {"array", "kobj", "file", "number", "run"}

ASSUME KioConfigAssumption ==
  /\ IsFiniteSet(Writers) /\ Writers # {}
  /\ Cpus \in Nat \ {0}
  /\ DevSize \in Nat
  /\ NumThreadsArgs \subseteq Int
  /\ SecondsArgs \subseteq Int
  /\ Stores \subseteq [var : ThreadVars, value : Int]
  /\ Faults \subseteq FaultKinds

None == "none"

ASSUME NoneAssumption == None \notin Writers

Tids == 0 .. Cpus - 1

VARIABLES
  mutex,            \* the holder of kio_config.mutex, or None
  kio_running,      \* the flag of kio_run.c
  runtime_seconds,
  num_threads,
  threads,          \* kio_config.threads: "null" or "live"
  tconf,            \* what the array holds
  kobj,             \* threads[t].kobj and the directory behind it
  corrupt,          \* memory a handler touched although it was gone
  failed,           \* history: what failed in kio_num_threads_store()
  landed,           \* history: stores into what is checked, and is run
  seen,             \* what the check of a thread may read
  w                 \* the handler each writer is in

dataVars == <<runtime_seconds, num_threads, threads, tconf>>
vars == <<mutex, kio_running, dataVars, kobj, corrupt, failed, landed, seen, w>>

\* A kobject is being removed once nobody can enter its files any more; the
\* pointer is dangling if it was put and not cleared.
KobjState == {"null", "live", "removing", "dangling"}

PC == { "idle", "lock", "body", "ntalloc", "ntkobj", "ntfiles", "ntput",
        "ntdestroy", "ntfree", "rvalid", "rfit", "rcap", "rrest", "rsize", "rstart",
        "running", "unlock", "vcheck", "vlookup", "vassign" }

\* The check of one thread is under way.
Checking == {"rfit", "rcap", "rrest"}

\* From the beginning of the check to the end of the run.
Checked == Checking \cup {"rvalid", "rsize", "rstart", "running"}

Frame == [ pc : PC, op : {"", "num_threads", "runtime_seconds",
                          "run_workload", "var"},
           arg : Int, tid : Tids, var : ThreadVars, i : Tids ]

IdleFrame == [ pc |-> "idle", op |-> "", arg |-> 0, tid |-> 0,
               var |-> "block_size", i |-> 0 ]

\* Whether a store landed since the check began, and how many did since the
\* run began.
Landed == [ checked : BOOLEAN, running : Nat ]

NoStores == [ checked |-> FALSE, running |-> 0 ]

\* Every variable keeps its type; num_threads never exceeds the processors.
TypeOK ==
  /\ mutex \in Writers \cup {None}
  /\ kio_running \in BOOLEAN
  /\ runtime_seconds \in 0 .. KIO_MAX_RUNTIME_SECONDS
  /\ num_threads \in 0 .. Cpus
  /\ threads \in {"null", "live"}
  /\ tconf \in [Tids -> ThreadConfig]
  /\ kobj \in [Tids -> KobjState]
  /\ corrupt \in {"no", "put", "array"}
  /\ failed \in {"no", "array", "kobj", "file"}
  /\ landed \in Landed
  /\ seen \subseteq ThreadConfig
  /\ w \in [Writers -> Frame]

Init ==
  /\ mutex = None
  /\ kio_running = FALSE
  /\ runtime_seconds = 0
  /\ num_threads = 0
  /\ threads = "null"
  /\ tconf = [t \in Tids |-> ZeroConfig]
  /\ kobj = [t \in Tids |-> "null"]
  /\ corrupt = "no"
  /\ failed = "no"
  /\ landed = NoStores
  /\ seen = {}
  /\ w = [p \in Writers |-> IdleFrame]

Goto(p, label) == w' = [w EXCEPT ![p].pc = label]

\* The handler returns.
Return(p) == w' = [w EXCEPT ![p] = IdleFrame]

\* The loops over i: once more at "again", or on to "done".
Loop(p, last, again, done) ==
  w' = IF w[p].i + 1 < last
       THEN [w EXCEPT ![p].pc = again, ![p].i = @ + 1]
       ELSE [w EXCEPT ![p].pc = done, ![p].i = 0]

-----------------------------------------------------------------------------
(***************************************************************************)
(* A process writes to a file.                                             *)
(***************************************************************************)

Call(p, op, arg) ==
  /\ w[p].pc = "idle"
  /\ w' = [w EXCEPT ![p].pc = "lock", ![p].op = op, ![p].arg = arg]
  /\ UNCHANGED <<mutex, kio_running, dataVars, kobj, corrupt, failed, landed, seen>>

\* The files of a directory can be written to while it is filled.
CallVar(p, t, s) ==
  /\ w[p].pc = "idle"
  /\ kobj[t] = "live"
  /\ w' = [w EXCEPT ![p] = [pc |-> "vcheck", op |-> "var", arg |-> s.value,
                            tid |-> t, var |-> s.var, i |-> 0]]
  /\ UNCHANGED <<mutex, kio_running, dataVars, kobj, corrupt, failed, landed, seen>>

\* Mutant: the mutex excludes nobody.
Lock_any(p) ==
  /\ w[p].pc = "lock"
  /\ mutex' = p
  /\ Goto(p, "body")
  /\ UNCHANGED <<kio_running, dataVars, kobj, corrupt, failed, landed, seen>>

Lock(p) ==
  /\ w[p].pc = "lock"
  /\ mutex = None
  /\ mutex' = p
  /\ Goto(p, "body")
  /\ UNCHANGED <<kio_running, dataVars, kobj, corrupt, failed, landed, seen>>

Unlock(p) ==
  /\ w[p].pc = "unlock"
  /\ mutex' = None
  /\ Return(p)
  /\ UNCHANGED <<kio_running, dataVars, kobj, corrupt, failed, landed, seen>>

-----------------------------------------------------------------------------
(***************************************************************************)
(* kio_num_threads_store()                                                 *)
(***************************************************************************)

\* Mutant: does not compare the number with the processors.
NT_Check_anyNumber(p) ==
  /\ w[p].pc = "body" /\ w[p].op = "num_threads"
  /\ Goto(p, IF \/ kio_running
                \/ num_threads > 0 \/ threads = "live"
                \/ w[p].arg < 1
             THEN "unlock" ELSE "ntalloc")
  /\ UNCHANGED <<mutex, kio_running, dataVars, kobj, corrupt, failed, landed, seen>>

NT_Check(p) ==
  /\ w[p].pc = "body" /\ w[p].op = "num_threads"
  /\ Goto(p, IF \/ kio_running
                \/ num_threads > 0 \/ threads = "live"
                \/ w[p].arg \notin 1 .. Cpus
             THEN "unlock" ELSE "ntalloc")
  /\ UNCHANGED <<mutex, kio_running, dataVars, kobj, corrupt, failed, landed, seen>>

NT_Alloc(p) ==
  /\ w[p].pc = "ntalloc"
  /\ threads' = "live"
  /\ num_threads' = w[p].arg
  /\ tconf' = [t \in Tids |-> ZeroConfig]
  /\ kobj' = [t \in Tids |-> "null"]
  /\ Goto(p, "ntkobj")
  /\ UNCHANGED <<mutex, kio_running, runtime_seconds, corrupt, failed, landed, seen>>

NT_AllocFails(p) ==
  /\ w[p].pc = "ntalloc"
  /\ "array" \in Faults
  /\ failed' = "array"
  /\ Goto(p, "unlock")
  /\ UNCHANGED <<mutex, kio_running, dataVars, kobj, corrupt, landed, seen>>

\* kio_config_create_thread(i): the directory, then its files.
NT_Kobj(p) ==
  /\ w[p].pc = "ntkobj"
  /\ kobj' = [kobj EXCEPT ![w[p].i] = "live"]
  /\ Goto(p, "ntfiles")
  /\ UNCHANGED <<mutex, kio_running, dataVars, corrupt, failed, landed, seen>>

NT_KobjFails(p) ==
  /\ w[p].pc = "ntkobj"
  /\ "kobj" \in Faults
  /\ failed' = "kobj"
  /\ w' = [w EXCEPT ![p].pc = "ntdestroy", ![p].i = 0]
  /\ UNCHANGED <<mutex, kio_running, dataVars, kobj, corrupt, landed, seen>>

NT_Files(p) ==
  /\ w[p].pc = "ntfiles"
  /\ Loop(p, num_threads, "ntkobj", "unlock")
  /\ UNCHANGED <<mutex, kio_running, dataVars, kobj, corrupt, failed, landed, seen>>

\* The kobject is put, but ktc->kobj keeps pointing to it.
NT_FilesFail(p) ==
  /\ w[p].pc = "ntfiles"
  /\ "file" \in Faults
  /\ failed' = "file"
  /\ kobj' = [kobj EXCEPT ![w[p].i] = "removing"]
  /\ Goto(p, "ntput")
  /\ UNCHANGED <<mutex, kio_running, dataVars, corrupt, landed, seen>>

\* Removing a directory waits for the handlers that are in its files.
Drained(t) ==
  \A p \in Writers : w[p].pc \in {"vcheck", "vlookup", "vassign"} => w[p].tid # t

NT_FilesPut(p) ==
  /\ w[p].pc = "ntput"
  /\ Drained(w[p].i)
  /\ kobj' = [kobj EXCEPT ![w[p].i] = "dangling"]
  /\ w' = [w EXCEPT ![p].pc = "ntdestroy", ![p].i = 0]
  /\ UNCHANGED <<mutex, kio_running, dataVars, corrupt, failed, landed, seen>>

\* kio_config_destroy_all_threads(): kobject_put() of threads[i].kobj begins.
NT_DestroyPut(p) ==
  /\ w[p].pc = "ntdestroy"
  /\ kobj[w[p].i] = "live"
  /\ kobj' = [kobj EXCEPT ![w[p].i] = "removing"]
  /\ UNCHANGED <<mutex, kio_running, dataVars, corrupt, failed, landed, seen, w>>

\* Mutant: does not wait for the handlers.
NT_DestroyNext_noDrain(p) ==
  /\ w[p].pc = "ntdestroy"
  /\ kobj[w[p].i] # "live"
  /\ corrupt' = IF kobj[w[p].i] = "dangling" THEN "put" ELSE corrupt
  /\ kobj' = [kobj EXCEPT ![w[p].i] = "null"]
  /\ Loop(p, num_threads, "ntdestroy", "ntfree")
  /\ UNCHANGED <<mutex, kio_running, dataVars, failed, landed, seen>>

\* It ends, unless there is none; a dangling pointer is put once too often.
NT_DestroyNext(p) ==
  /\ w[p].pc = "ntdestroy"
  /\ kobj[w[p].i] # "live"
  /\ kobj[w[p].i] = "removing" => Drained(w[p].i)
  /\ corrupt' = IF kobj[w[p].i] = "dangling" THEN "put" ELSE corrupt
  /\ kobj' = [kobj EXCEPT ![w[p].i] = "null"]
  /\ Loop(p, num_threads, "ntdestroy", "ntfree")
  /\ UNCHANGED <<mutex, kio_running, dataVars, failed, landed, seen>>

\* num_threads keeps its value.
NT_Free(p) ==
  /\ w[p].pc = "ntfree"
  /\ threads' = "null"
  /\ Goto(p, "unlock")
  /\ UNCHANGED <<mutex, kio_running, runtime_seconds, num_threads, tconf, kobj,
                 corrupt, failed, landed, seen>>

NumThreadsStore(p) ==
  \/ NT_Check(p) \/ NT_Alloc(p) \/ NT_AllocFails(p)
  \/ NT_Kobj(p) \/ NT_KobjFails(p)
  \/ NT_Files(p) \/ NT_FilesFail(p) \/ NT_FilesPut(p)
  \/ NT_DestroyPut(p) \/ NT_DestroyNext(p) \/ NT_Free(p)

-----------------------------------------------------------------------------
(***************************************************************************)
(* kio_runtime_seconds_store()                                             *)
(***************************************************************************)

RT_Body(p) ==
  /\ w[p].pc = "body" /\ w[p].op = "runtime_seconds"
  /\ runtime_seconds' = IF /\ ~kio_running
                           /\ InRange(w[p].arg, 1, KIO_MAX_RUNTIME_SECONDS)
                        THEN w[p].arg ELSE runtime_seconds
  /\ Goto(p, "unlock")
  /\ UNCHANGED <<mutex, kio_running, num_threads, threads, tconf, kobj, corrupt,
                 failed, landed, seen>>

-----------------------------------------------------------------------------
(***************************************************************************)
(* kio_run_workload_store(): the check goes through the threads one by one *)
(* while their files can be written to, and so does the run.               *)
(***************************************************************************)

\* Mutant: runs although a run is on, or an earlier one has failed.
R_Check_noTest(p) ==
  /\ w[p].pc = "body" /\ w[p].op = "run_workload"
  /\ Goto(p, IF \/ num_threads = 0 \/ threads = "null"
                \/ ~InRange(num_threads, 1, Cpus)
                \/ ~InRange(runtime_seconds, 1, KIO_MAX_RUNTIME_SECONDS)
             THEN "unlock" ELSE "rvalid")
  /\ landed' = NoStores
  /\ UNCHANGED <<mutex, kio_running, dataVars, kobj, corrupt, failed, seen>>

R_Check(p) ==
  /\ w[p].pc = "body" /\ w[p].op = "run_workload"
  /\ Goto(p, IF \/ kio_running
                \/ num_threads = 0 \/ threads = "null"
                \/ ~InRange(num_threads, 1, Cpus)
                \/ ~InRange(runtime_seconds, 1, KIO_MAX_RUNTIME_SECONDS)
             THEN "unlock" ELSE "rvalid")
  /\ landed' = NoStores
  /\ UNCHANGED <<mutex, kio_running, dataVars, kobj, corrupt, failed, seen>>

\* kio_config_is_valid() begins with the next thread.  It reads the fields one
\* by one, some of them again, without a lock: every read may return any of the
\* values the field has from now on.
R_Thread(p) ==
  /\ w[p].pc = "rvalid"
  /\ seen' = {tconf[w[p].i]}
  /\ Goto(p, "rfit")
  /\ UNCHANGED <<mutex, kio_running, dataVars, kobj, corrupt, failed, landed>>

\* Mutant: begins again until the configuration fits.
R_Fit_retries(p) ==
  /\ w[p].pc = "rfit"
  /\ \/ /\ {c \in seen : ~FitsDevice(c, DevSize)} # {}
        /\ seen' = {} /\ Goto(p, "rvalid")
     \/ /\ \A c \in seen : FitsDevice(c, DevSize)
        /\ \/ /\ {c \in seen : NeedsCap(c, DevSize)} # {}
              /\ seen' = {tconf[w[p].i]} /\ Goto(p, "rcap")
           \/ /\ {c \in seen : ~NeedsCap(c, DevSize)} # {}
              /\ seen' = seen /\ Goto(p, "rrest")
  /\ UNCHANGED <<mutex, kio_running, dataVars, kobj, corrupt, failed, landed>>

\* The tests before the cap of offset_high, and the one that asks for it; the
\* message that announces it makes everything be read anew.
R_Fit(p) ==
  /\ w[p].pc = "rfit"
  /\ \/ /\ {c \in seen : ~FitsDevice(c, DevSize)} # {}
        /\ seen' = {} /\ Goto(p, "unlock")
     \/ /\ {c \in seen : VarsInRange(c)} # {}
        /\ {c \in seen : is_power_of_2(c.block_size)} # {}
        /\ {c \in seen : LowFits(c, DevSize)} # {}
        /\ \/ /\ {c \in seen : NeedsCap(c, DevSize)} # {}
              /\ seen' = {tconf[w[p].i]} /\ Goto(p, "rcap")
           \/ /\ {c \in seen : ~NeedsCap(c, DevSize)} # {}
              /\ seen' = seen /\ Goto(p, "rrest")
  /\ UNCHANGED <<mutex, kio_running, dataVars, kobj, corrupt, failed, landed>>

\* Mutant: the cap is not stored.
R_Cap_lost(p) ==
  /\ w[p].pc = "rcap"
  /\ Goto(p, "rrest")
  /\ UNCHANGED <<mutex, kio_running, dataVars, kobj, corrupt, failed, landed, seen>>

\* The cap overwrites whatever was stored since the test.
R_Cap(p) ==
  /\ w[p].pc = "rcap"
  /\ \E high \in {DevSize - c.block_size : c \in seen} :
       /\ tconf' = [tconf EXCEPT ![w[p].i].offset_high = high]
       /\ seen' = {[c EXCEPT !.offset_high = high] : c \in seen}
  /\ Goto(p, "rrest")
  /\ UNCHANGED <<mutex, kio_running, runtime_seconds, num_threads, threads, kobj,
                 corrupt, failed, landed>>

\* The tests after it.
R_Rest(p) ==
  /\ w[p].pc = "rrest"
  /\ seen' = {}
  /\ \/ {c \in seen : ~Consistent(c)} # {} /\ Goto(p, "unlock")
     \/ /\ {c \in seen : LowBelowHigh(c)} # {} /\ {c \in seen : HasBurst(c)} # {}
        /\ {c \in seen : ReadsCan(c)} # {} /\ {c \in seen : WritesCan(c)} # {}
        /\ Loop(p, num_threads, "rvalid", "rsize")
  /\ UNCHANGED <<mutex, kio_running, dataVars, kobj, corrupt, failed, landed>>

\* kio_run() implements one block size only, and looks at one thread after the
\* other.
R_Size(p) ==
  /\ w[p].pc = "rsize"
  /\ IF tconf[w[p].i].block_size = PAGE_SIZE
     THEN Loop(p, num_threads, "rsize", "rstart")
     ELSE Goto(p, "unlock")
  /\ UNCHANGED <<mutex, kio_running, dataVars, kobj, corrupt, failed, landed, seen>>

R_Start(p) ==
  /\ w[p].pc = "rstart"
  /\ kio_running' = TRUE
  /\ Goto(p, "running")
  /\ UNCHANGED <<mutex, dataVars, kobj, corrupt, failed, landed, seen>>

R_End(p) ==
  /\ w[p].pc = "running"
  /\ kio_running' = FALSE
  /\ landed' = NoStores
  /\ Goto(p, "unlock")
  /\ UNCHANGED <<mutex, dataVars, kobj, corrupt, failed, seen>>

\* Without memory or a first thread kio_run() returns with the flag set.
R_SetupFails(p) ==
  /\ w[p].pc = "running"
  /\ "run" \in Faults
  /\ Goto(p, "unlock")
  /\ UNCHANGED <<mutex, kio_running, dataVars, kobj, corrupt, failed, landed, seen>>

RunWorkloadStore(p) ==
  \/ R_Check(p) \/ R_Thread(p) \/ R_Fit(p) \/ R_Cap(p) \/ R_Rest(p)
  \/ R_Size(p) \/ R_Start(p) \/ R_End(p) \/ R_SetupFails(p)

-----------------------------------------------------------------------------
(***************************************************************************)
(* kio_thread_var_store(), which does not take the mutex.                  *)
(***************************************************************************)

\* Mutant: stores during a run as well.
V_Check_noTest(p) ==
  /\ w[p].pc = "vcheck"
  /\ Goto(p, "vlookup")
  /\ UNCHANGED <<mutex, kio_running, dataVars, kobj, corrupt, failed, landed, seen>>

V_Check(p) ==
  /\ w[p].pc = "vcheck"
  /\ IF kio_running THEN Return(p) ELSE Goto(p, "vlookup")
  /\ UNCHANGED <<mutex, kio_running, dataVars, kobj, corrupt, failed, landed, seen>>

\* kio_thread_config_from_kobj() reads the array up to num_threads; what was
\* written may be no number.
V_Lookup(p) ==
  /\ w[p].pc = "vlookup"
  /\ corrupt' = IF threads = "null" /\ num_threads > 0 THEN "array" ELSE corrupt
  /\ \/ w[p].tid < num_threads /\ kobj[w[p].tid] # "null" /\ Goto(p, "vassign")
     \/ /\ \/ w[p].tid >= num_threads \/ kobj[w[p].tid] = "null"
           \/ "number" \in Faults
        /\ Return(p)
  /\ UNCHANGED <<mutex, kio_running, dataVars, kobj, failed, landed, seen>>

\* A check of the thread that is under way may read the new value, or may have
\* read the old one.
V_Assign(p) ==
  /\ w[p].pc = "vassign"
  /\ corrupt' = IF threads = "null" THEN "array" ELSE corrupt
  /\ LET value == Truncate(w[p].var, w[p].arg) IN
     /\ tconf' = [tconf EXCEPT ![w[p].tid][w[p].var] = value]
     /\ seen' = IF \E q \in Writers : w[q].pc \in Checking /\ w[q].i = w[p].tid
                THEN seen \cup {[c EXCEPT ![w[p].var] = value] : c \in seen}
                ELSE seen
  /\ landed' = [ checked |-> landed.checked \/ \E q \in Writers : w[q].pc \in Checked,
                 running |-> IF \E q \in Writers : w[q].pc = "running"
                             THEN landed.running + 1 ELSE landed.running ]
  /\ Return(p)
  /\ UNCHANGED <<mutex, kio_running, runtime_seconds, num_threads, threads, kobj,
                 failed>>

VarStore(p) == V_Check(p) \/ V_Lookup(p) \/ V_Assign(p)

-----------------------------------------------------------------------------

Handler(p) ==
  \/ Unlock(p)
  \/ NumThreadsStore(p) \/ RT_Body(p) \/ RunWorkloadStore(p) \/ VarStore(p)

Write(p) ==
  \/ \E n \in NumThreadsArgs : Call(p, "num_threads", n)
  \/ \E s \in SecondsArgs : Call(p, "runtime_seconds", s)
  \/ Call(p, "run_workload", 1)
  \/ \E t \in Tids, s \in Stores : CallVar(p, t, s)

Next == \E p \in Writers : Write(p) \/ Lock(p) \/ Handler(p)

\* A handler runs on, kio_run() comes to an end, and the kernel's mutex is
\* handed to everybody who waits for it.
Fairness == \A p \in Writers : WF_vars(Handler(p)) /\ SF_vars(Lock(p))

Spec == Init /\ [][Next]_vars

FairSpec == Spec /\ Fairness

-----------------------------------------------------------------------------
(***************************************************************************)
(* Properties                                                              *)
(***************************************************************************)

\* num_threads is set once, even if several processes write it at the same
\* time and even if creating the threads fails.
NumThreadsSetOnce == [][ num_threads # 0 => num_threads' = num_threads ]_vars

\* No handler touches the thread array when it is not there, whatever is
\* written while kio_num_threads_store() takes its threads down again; and a
\* kobject is put twice only if one of its files could not be created.
MemorySafe == corrupt = "no" \/ (corrupt = "put" /\ failed = "file")

\* What kio_run() reads without a lock does not change under it: the number
\* of threads, the array and the runtime.
RunParametersStable ==
  [][ (\E p \in Writers : w[p].pc \in {"rsize", "rstart", "running"}) =>
        UNCHANGED <<num_threads, threads, runtime_seconds>> ]_vars

\* The thread files refuse stores during a run, so that no more of them land
\* in the running configuration than were under way when the run began: one
\* for each other process.
FewStoresLand == landed.running < Cardinality(Writers)

\* Unless a store landed since the check began, every thread of a run has the
\* configuration that was checked: it is valid, its window fits the device and
\* its block size is the one implemented.
RunsCheckedConfig ==
  (\E p \in Writers : w[p].pc = "running") /\ ~landed.checked =>
    \A t \in 0 .. num_threads - 1 :
      /\ kio_config_is_valid(tconf[t], DevSize)
      /\ tconf[t].offset_high + tconf[t].block_size <= DevSize
      /\ tconf[t].block_size = PAGE_SIZE

\* The block size of every thread of a run is the one the driver implements.
RunsSupportedSize ==
  (\E p \in Writers : w[p].pc = "running") =>
    \A t \in 0 .. num_threads - 1 : tconf[t].block_size = PAGE_SIZE

\* Every write to a file returns: nobody waits for ever for the mutex, and
\* taking down a directory while its files are written to does not deadlock.
WritesReturn == \A p \in Writers : w[p].pc # "idle" ~> w[p].pc = "idle"

=============================================================================
