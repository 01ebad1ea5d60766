------------------------------- MODULE KioRun -------------------------------
(***************************************************************************)
(* One call of kio_run() (driver/kio_run.c): the caller that creates the   *)
(* kio threads, waits and stops them; each thread's loop, which issues     *)
(* I/Os and waits for room, for a burst to finish, or for everything to    *)
(* drain; and kio_bio_completion(), the handler the block layer calls for  *)
(* each I/O, concurrently with everything else.                            *)
(*                                                                         *)
(* Time is abstracted: the run may end at any moment, a sleep takes any    *)
(* time, and every latency is one unit, so that clat_total counts the      *)
(* latencies that were added to it.                                        *)
(***************************************************************************)
EXTENDS KioWorkload

CONSTANTS
  NumThreads,     \* kc->num_threads
  ThreadConfigs,  \* the thread configurations to choose kc->threads[] from
  Faults,         \* what the environment may do to the run, see FaultKinds
  MaxIO           \* bound: I/Os one thread may submit

(***************************************************************************)
(* kzalloc() of the thread array, kthread_run(), alloc_pages_node() and    *)
(* kio_io_submit() may fail; a kio thread may have a signal pending.       *)
(***************************************************************************)
FaultKinds == {"ths", "kthread", "page", "submit", "signal"}

ASSUME KioRunAssumption ==
  /\ NumThreads \in Nat \ {0}
  /\ MaxIO \in Nat
  /\ Faults \subseteq FaultKinds
  /\ ThreadConfigs \subseteq [ block_size       : Nat,
                               queue_depth      : Nat,
                               read_mix_percent : Nat,
                               read_burst       : Nat,
                               write_burst      : Nat,
                               burst_finish     : BOOLEAN ]

Threads == 0 .. NumThreads - 1

VARIABLES
  config,          \* kc->threads[], which a run only reads
  kio_running,     \* the driver-wide flag
  run,             \* the frame of kio_run(): where it is, i, result
  ths,             \* the thread array: "none", "live" or "freed"
  emergency_stop,  \* set by a thread that gives up
  st,              \* struct kio_run_stats
  th,              \* ths[t], the struct kio_thread of thread t
  kthread,         \* the kernel's side of thread t
  pc,              \* where kio_thread_fn() of thread t is
  result,          \* its result
  queued,          \* per direction, the bios of t the device holds
  timed,           \* per direction, those whose latency has been added
  late,            \* bios of t no longer counted in dispatched, per stage
  pages,           \* pages allocated by t and not yet freed
  submitted        \* history: bios t handed to the block layer

runVars == <<kio_running, run, ths, emergency_stop, st>>
thVars  == <<th, kthread, pc, result>>
bioVars == <<queued, timed, late, pages, submitted>>
vars    == <<config, runVars, thVars, bioVars>>

(***************************************************************************)
(* The places of kio_thread_fn(), and of kio_bio_completion() once it has  *)
(* decremented th->dispatched.                                             *)
(***************************************************************************)
ThreadPC == {"none", "start", "loop", "qdtest", "qdwait", "alloc",
             "burstwait", "dispatch", "submit", "after", "drain", "unhook",
             "return", "exited"}

Dirs == {"read", "write"}

DirOf(isWrite) == IF isWrite THEN "write" ELSE "read"

LateStage == {"undispatched", "counted", "waking", "releasing"}

RunPC == {"idle", "alloc", "create", "wait", "stop", "join", "clear",
          "stats", "free", "returned", "oops"}

KioThread == [ dispatched : Nat, completed : Nat, clat_total : Nat,
               read_burst : Nat, write_burst : Nat,
               was_write : BOOLEAN, bio_wqh : BOOLEAN ]

KThread == [ task : {"null", "err", "ok"}, should_stop : BOOLEAN,
             signal : BOOLEAN, asleep : BOOLEAN ]

RunFrame == [ pc : RunPC, i : Threads,
              result : {"ok", "ERANGE", "ENOMEM", "EAGAIN", "EINTR"} ]

KioRunStats == [ num_threads : Nat, dispatched : Nat, completed : Nat,
                 clat_total : Nat ]

\* Every variable keeps its type; in particular the counters that the
\* completion handlers decrement never go below zero, and no burst counter
\* wraps around.
TypeOK ==
  /\ config \in [Threads -> ThreadConfigs]
  /\ kio_running \in BOOLEAN
  /\ run \in RunFrame
  /\ ths \in {"none", "live", "freed"}
  /\ emergency_stop \in BOOLEAN
  /\ st \in KioRunStats
  /\ th \in [Threads -> KioThread]
  /\ kthread \in [Threads -> KThread]
  /\ pc \in [Threads -> ThreadPC]
  /\ result \in [Threads -> {"ok", "ENOMEM", "ESUBMIT", "EINTR"}]
  /\ queued \in [Threads -> [Dirs -> Nat]]
  /\ timed \in [Threads -> [Dirs -> Nat]]
  /\ late \in [Threads -> [LateStage -> Nat]]
  /\ pages \in [Threads -> Nat]
  /\ submitted \in [Threads -> Nat]

Init ==
  /\ config \in [Threads -> ThreadConfigs]
  /\ kio_running = FALSE
  /\ run = [pc |-> "idle", i |-> 0, result |-> "ok"]
  /\ ths = "none"
  /\ emergency_stop = FALSE
  /\ st = [num_threads |-> 0, dispatched |-> 0, completed |-> 0,
           clat_total |-> 0]
  /\ th = [t \in Threads |->
            [dispatched |-> 0, completed |-> 0, clat_total |-> 0,
             read_burst |-> 0, write_burst |-> 0,
             was_write |-> FALSE, bio_wqh |-> FALSE]]
  /\ kthread = [t \in Threads |->
                 [task |-> "null", should_stop |-> FALSE,
                  signal |-> FALSE, asleep |-> FALSE]]
  /\ pc = [t \in Threads |-> "none"]
  /\ result = [t \in Threads |-> "ok"]
  /\ queued = [t \in Threads |-> [d \in Dirs |-> 0]]
  /\ timed = [t \in Threads |-> [d \in Dirs |-> 0]]
  /\ late = [t \in Threads |-> [s \in LateStage |-> 0]]
  /\ pages = [t \in Threads |-> 0]
  /\ submitted = [t \in Threads |-> 0]

-----------------------------------------------------------------------------
(***************************************************************************)
(* kio_run()                                                               *)
(***************************************************************************)

RunGoto(label) == run' = [run EXCEPT !.pc = label]

RunReturn(res) == run' = [run EXCEPT !.pc = "returned", !.result = res]

\* The loops over i: go round once more at "again", or leave to "done".
RunLoop(again, done) ==
  run' = IF run.i + 1 < NumThreads
         THEN [run EXCEPT !.pc = again, !.i = @ + 1]
         ELSE [run EXCEPT !.pc = done, !.i = 0]

\* Only the block size the driver implements gets any further.
Run_Reject ==
  /\ run.pc = "idle"
  /\ \E t \in Threads : config[t].block_size # 4096
  /\ RunReturn("ERANGE")
  /\ UNCHANGED <<kio_running, ths, emergency_stop, st, thVars, bioVars>>

Run_Begin ==
  /\ run.pc = "idle"
  /\ \A t \in Threads : config[t].block_size = 4096
  /\ kio_running' = TRUE
  /\ RunGoto("alloc")
  /\ UNCHANGED <<ths, emergency_stop, st, thVars, bioVars>>

Run_Alloc ==
  /\ run.pc = "alloc"
  /\ ths' = "live"
  /\ RunGoto("create")
  /\ UNCHANGED <<kio_running, emergency_stop, st, thVars, bioVars>>

Run_AllocFails ==
  /\ run.pc = "alloc"
  /\ "ths" \in Faults
  /\ RunReturn("ENOMEM")
  /\ UNCHANGED <<kio_running, ths, emergency_stop, st, thVars, bioVars>>

Run_Create ==
  /\ run.pc = "create"
  /\ kthread' = [kthread EXCEPT ![run.i].task = "ok"]
  /\ pc' = [pc EXCEPT ![run.i] = "start"]
  /\ RunLoop("create", "wait")
  /\ UNCHANGED <<kio_running, ths, emergency_stop, st, th, result, bioVars>>

\* An error pointer stays in ths[i].thread; without any thread there is
\* nothing to stop and kio_run() returns at once.
Run_CreateFails ==
  /\ run.pc = "create"
  /\ "kthread" \in Faults
  /\ kthread' = [kthread EXCEPT ![run.i].task = "err"]
  /\ IF run.i = 0
     THEN RunReturn("EAGAIN") /\ ths' = "freed"
     ELSE /\ run' = [run EXCEPT !.pc = "stop", !.i = 0, !.result = "EAGAIN"]
          /\ UNCHANGED ths
  /\ UNCHANGED <<kio_running, emergency_stop, st, th, pc, result, bioVars>>

\* The timeout, emergency_stop or a signal to the caller ends the wait.
Run_WaitEnds ==
  /\ run.pc = "wait"
  /\ run' = [run EXCEPT !.pc = "stop",
                        !.result = IF emergency_stop THEN "EINTR" ELSE "ok"]
  /\ UNCHANGED <<kio_running, ths, emergency_stop, st, thVars, bioVars>>

\* kthread_stop(), first half: ask the thread to stop and wake it up.  A
\* thread that was never attempted has a null pointer and is skipped.
Run_Stop ==
  /\ run.pc = "stop"
  /\ kthread[run.i].task # "err"
  /\ IF kthread[run.i].task = "null"
     THEN RunLoop("stop", "clear") /\ UNCHANGED kthread
     ELSE /\ kthread' = [kthread EXCEPT ![run.i].should_stop = TRUE,
                                        ![run.i].asleep = FALSE]
          /\ RunGoto("join")
  /\ UNCHANGED <<kio_running, ths, emergency_stop, st, th, pc, result, bioVars>>

\* kthread_stop() of an error pointer, or of a task that returned by itself
\* and may be gone: the kernel does not survive the call.
Run_StopOops ==
  /\ run.pc = "stop"
  /\ \/ kthread[run.i].task = "err"
     \/ kthread[run.i].task = "ok" /\ pc[run.i] = "exited"
  /\ RunGoto("oops")
  /\ UNCHANGED <<kio_running, ths, emergency_stop, st, thVars, bioVars>>

\* Mutant: goes on without waiting for the thread to be gone.
Run_Join_noWait ==
  /\ run.pc = "join"
  /\ RunLoop("stop", "clear")
  /\ UNCHANGED <<kio_running, ths, emergency_stop, st, thVars, bioVars>>

\* kthread_stop(), second half: wait for the thread to be gone.
Run_Join ==
  /\ run.pc = "join"
  /\ pc[run.i] = "exited"
  /\ RunLoop("stop", "clear")
  /\ UNCHANGED <<kio_running, ths, emergency_stop, st, thVars, bioVars>>

\* Mutant: clears the flag only after a run without errors.
Run_Clear_onSuccess ==
  /\ run.pc = "clear"
  /\ kio_running' = (run.result # "ok")
  /\ RunGoto(IF run.result = "ok" THEN "stats" ELSE "free")
  /\ UNCHANGED <<ths, emergency_stop, st, thVars, bioVars>>

Run_Clear ==
  /\ run.pc = "clear"
  /\ kio_running' = FALSE
  /\ RunGoto(IF run.result = "ok" THEN "stats" ELSE "free")
  /\ UNCHANGED <<ths, emergency_stop, st, thVars, bioVars>>

\* Mutant: the latencies of a thread replace those of the threads before it.
Run_Stats_assigns ==
  /\ run.pc = "stats"
  /\ st' = [num_threads |-> st.num_threads + 1,
            dispatched  |-> st.dispatched + th[run.i].dispatched,
            completed   |-> st.completed + th[run.i].completed,
            clat_total  |-> th[run.i].clat_total]
  /\ RunLoop("stats", "free")
  /\ UNCHANGED <<kio_running, ths, emergency_stop, thVars, bioVars>>

\* kio_run_stats_thread() for thread i.
Run_Stats ==
  /\ run.pc = "stats"
  /\ st' = [num_threads |-> st.num_threads + 1,
            dispatched  |-> st.dispatched + th[run.i].dispatched,
            completed   |-> st.completed + th[run.i].completed,
            clat_total  |-> st.clat_total + th[run.i].clat_total]
  /\ RunLoop("stats", "free")
  /\ UNCHANGED <<kio_running, ths, emergency_stop, thVars, bioVars>>

Run_Free ==
  /\ run.pc = "free"
  /\ ths' = "freed"
  /\ RunGoto("returned")
  /\ UNCHANGED <<kio_running, emergency_stop, st, thVars, bioVars>>

RunStep ==
  /\ UNCHANGED config
  /\ \/ Run_Reject \/ Run_Begin
     \/ Run_Alloc \/ Run_AllocFails
     \/ Run_Create \/ Run_CreateFails
     \/ Run_WaitEnds
     \/ Run_Stop \/ Run_StopOops \/ Run_Join
     \/ Run_Clear \/ Run_Stats \/ Run_Free

-----------------------------------------------------------------------------
(***************************************************************************)
(* kio_thread_fn()                                                         *)
(***************************************************************************)

Goto(t, label) == pc' = [pc EXCEPT ![t] = label]

\* break out of the loop with a result
GiveUp(t, res) == Goto(t, "drain") /\ result' = [result EXCEPT ![t] = res]

\* Mutant: off by one, the last I/O of a burst is not waited for.
kio_thread_busy_offByOne(t) == th[t].dispatched > 1

kio_thread_busy(t) == th[t].dispatched > 0

\* Mutant: off by one, the queue is full only past its depth.
kio_thread_too_busy_offByOne(t) ==
  /\ config[t].queue_depth > 0
  /\ th[t].dispatched > config[t].queue_depth

kio_thread_too_busy(t) ==
  /\ config[t].queue_depth > 0
  /\ th[t].dispatched >= config[t].queue_depth

(***************************************************************************)
(* wait_event_interruptible(wqh, cond) at the current label: the thread    *)
(* goes on to label once cond holds or a signal is pending, and otherwise  *)
(* sleeps until it is woken up, when it looks again.                       *)
(***************************************************************************)
WaitEvent(t, cond, label) ==
  /\ ~kthread[t].asleep
  /\ IF cond \/ kthread[t].signal
     THEN Goto(t, label) /\ UNCHANGED kthread
     ELSE kthread' = [kthread EXCEPT ![t].asleep = TRUE] /\ UNCHANGED pc

\* The kernel enters kio_thread_fn() only if the thread has not been asked
\* to stop before it was first scheduled.
T_Start(t) ==
  /\ pc[t] = "start"
  /\ IF kthread[t].should_stop
     THEN Goto(t, "exited") /\ UNCHANGED th
     ELSE Goto(t, "loop") /\ th' = [th EXCEPT ![t].bio_wqh = TRUE]
  /\ UNCHANGED <<kthread, result, runVars, bioVars>>

\* MaxIO bounds the loop: past it the thread makes no progress until stopped.
T_Loop(t) ==
  /\ pc[t] = "loop"
  /\ kthread[t].should_stop \/ submitted[t] < MaxIO
  /\ Goto(t, IF kthread[t].should_stop THEN "drain" ELSE "qdtest")
  /\ UNCHANGED <<th, kthread, result, runVars, bioVars>>

T_QdTest(t) ==
  /\ pc[t] = "qdtest"
  /\ Goto(t, IF kio_thread_too_busy(t) THEN "qdwait" ELSE "alloc")
  /\ UNCHANGED <<th, kthread, result, runVars, bioVars>>

\* After the wait the thread looks at kthread_should_stop() once more.
T_QdWait(t) ==
  /\ pc[t] = "qdwait"
  /\ WaitEvent(t, ~kio_thread_too_busy(t),
               IF kthread[t].should_stop THEN "drain" ELSE "alloc")
  /\ UNCHANGED <<th, result, runVars, bioVars>>

WaitsForBurst(t, dir) == config[t].burst_finish /\ dir.new_burst

\* Take a page, then pick the direction (and the offset) of the next I/O.
T_Alloc(t) ==
  /\ pc[t] = "alloc"
  /\ pages' = [pages EXCEPT ![t] = @ + 1]
  /\ \E drawsRead \in BOOLEAN :
       LET dir == kio_thread_next_dir(config[t], th[t], drawsRead)
       IN  /\ th' = [th EXCEPT ![t].read_burst = dir.read_burst,
                               ![t].write_burst = dir.write_burst,
                               ![t].was_write = dir.is_write]
           /\ Goto(t, IF WaitsForBurst(t, dir) THEN "burstwait"
                                               ELSE "dispatch")
  /\ UNCHANGED <<kthread, result, runVars, queued, timed, late, submitted>>

\* Mutant: gives up without an error for the run.
T_AllocFails_noError(t) ==
  /\ pc[t] = "alloc"
  /\ "page" \in Faults
  /\ Goto(t, "drain")
  /\ UNCHANGED <<th, kthread, result, runVars, bioVars>>

\* Mutant: tries again, without a look at kthread_should_stop().
T_AllocFails_retries(t) ==
  /\ pc[t] = "alloc"
  /\ "page" \in Faults
  /\ Goto(t, "qdtest")
  /\ UNCHANGED <<th, kthread, result, runVars, bioVars>>

T_AllocFails(t) ==
  /\ pc[t] = "alloc"
  /\ "page" \in Faults
  /\ GiveUp(t, "ENOMEM")
  /\ UNCHANGED <<th, kthread, runVars, bioVars>>

\* Mutant: told to stop in the burst wait, leaves without freeing the page.
T_BurstWait_keepsPage(t) ==
  /\ pc[t] = "burstwait"
  /\ WaitEvent(t, ~kio_thread_busy(t),
               IF kthread[t].should_stop THEN "drain" ELSE "dispatch")
  /\ UNCHANGED <<th, result, runVars, bioVars>>

\* burst_finish: the burst before this one has to complete first.  Asked to
\* stop meanwhile, the thread frees its page and leaves.
T_BurstWait(t) ==
  /\ pc[t] = "burstwait"
  /\ WaitEvent(t, ~kio_thread_busy(t),
               IF kthread[t].should_stop THEN "drain" ELSE "dispatch")
  /\ pages' = IF pc'[t] = "drain" THEN [pages EXCEPT ![t] = @ - 1] ELSE pages
  /\ UNCHANGED <<th, result, runVars, queued, timed, late, submitted>>

\* Mutant: counts the I/O in completed already when it is dispatched.
T_Dispatch_notCounted(t) ==
  /\ pc[t] = "dispatch"
  /\ th' = [th EXCEPT ![t].completed = @ + 1]
  /\ Goto(t, "submit")
  /\ UNCHANGED <<kthread, result, runVars, bioVars>>

T_Dispatch(t) ==
  /\ pc[t] = "dispatch"
  /\ th' = [th EXCEPT ![t].dispatched = @ + 1]
  /\ Goto(t, "submit")
  /\ UNCHANGED <<kthread, result, runVars, bioVars>>

\* kio_io_submit(): the bio, and the page with it, now belong to the device.
T_Submit(t) ==
  /\ pc[t] = "submit"
  /\ queued' = [queued EXCEPT ![t][DirOf(th[t].was_write)] = @ + 1]
  /\ submitted' = [submitted EXCEPT ![t] = @ + 1]
  /\ Goto(t, "after")
  /\ UNCHANGED <<th, kthread, result, runVars, timed, late, pages>>

\* No bio is left behind, and neither dispatched nor the page is taken back.
T_SubmitFails(t) ==
  /\ pc[t] = "submit"
  /\ "submit" \in Faults
  /\ GiveUp(t, "ESUBMIT")
  /\ UNCHANGED <<th, kthread, runVars, bioVars>>

\* The sleep after an I/O, then the signal check that ends an iteration.
T_After(t) ==
  /\ pc[t] = "after"
  /\ IF kthread[t].signal THEN GiveUp(t, "EINTR")
                          ELSE Goto(t, "loop") /\ UNCHANGED result
  /\ UNCHANGED <<th, kthread, runVars, bioVars>>

\* Mutant: the last wait is only for room in the queue.
T_Drain_tooEarly(t) ==
  /\ pc[t] = "drain"
  /\ WaitEvent(t, ~kio_thread_too_busy(t), "unhook")
  /\ UNCHANGED <<th, result, runVars, bioVars>>

T_Drain(t) ==
  /\ pc[t] = "drain"
  /\ WaitEvent(t, th[t].dispatched = 0, "unhook")
  /\ UNCHANGED <<th, result, runVars, bioVars>>

T_Unhook(t) ==
  /\ pc[t] = "unhook"
  /\ th' = [th EXCEPT ![t].bio_wqh = FALSE]
  /\ Goto(t, "return")
  /\ UNCHANGED <<kthread, result, runVars, bioVars>>

T_Return(t) ==
  /\ pc[t] = "return"
  /\ emergency_stop' = (emergency_stop \/ result[t] # "ok")
  /\ Goto(t, "exited")
  /\ UNCHANGED <<th, kthread, result, kio_running, run, ths, st, bioVars>>

ThreadStep(t) ==
  /\ UNCHANGED config
  /\ \/ T_Start(t) \/ T_Loop(t) \/ T_QdTest(t) \/ T_QdWait(t)
     \/ T_Alloc(t) \/ T_AllocFails(t) \/ T_BurstWait(t)
     \/ T_Dispatch(t) \/ T_Submit(t) \/ T_SubmitFails(t) \/ T_After(t)
     \/ T_Drain(t) \/ T_Unhook(t) \/ T_Return(t)

\* A signal becomes pending for a kio thread; it ends an interruptible sleep.
Signal(t) ==
  /\ "signal" \in Faults
  /\ pc[t] \notin {"none", "exited"}
  /\ ~kthread[t].signal
  /\ kthread' = [kthread EXCEPT ![t].signal = TRUE, ![t].asleep = FALSE]
  /\ UNCHANGED <<config, th, pc, result, runVars, bioVars>>

-----------------------------------------------------------------------------
(***************************************************************************)
(* kio_bio_completion(), one step per access to what it shares with the    *)
(* thread.  Several handlers of one thread may run at the same time, so    *)
(* the model counts how many there are at each stage.  Once the array is   *)
(* freed the updates of th model writes to memory nobody reads any more.   *)
(***************************************************************************)

MoveLate(t, from, to) ==
  /\ late[t][from] > 0
  /\ late' = [late EXCEPT ![t][from] = @ - 1, ![t][to] = @ + 1]

\* Mutant: needs a lock that a waiting thread holds.
C_Account_locked(t, d) ==
  /\ queued[t][d] > 0
  /\ ~kthread[t].asleep
  /\ queued' = [queued EXCEPT ![t][d] = @ - 1]
  /\ timed' = [timed EXCEPT ![t][d] = @ + 1]
  /\ th' = [th EXCEPT ![t].clat_total = @ + 1]
  /\ UNCHANGED <<kthread, pc, result, runVars, late, pages, submitted>>

\* The device is done with a bio: its latency is added to clat_total.
C_Account(t, d) ==
  /\ queued[t][d] > 0
  /\ queued' = [queued EXCEPT ![t][d] = @ - 1]
  /\ timed' = [timed EXCEPT ![t][d] = @ + 1]
  /\ th' = [th EXCEPT ![t].clat_total = @ + 1]
  /\ UNCHANGED <<kthread, pc, result, runVars, late, pages, submitted>>

C_Undispatch(t, d) ==
  /\ timed[t][d] > 0
  /\ timed' = [timed EXCEPT ![t][d] = @ - 1]
  /\ late' = [late EXCEPT ![t]["undispatched"] = @ + 1]
  /\ th' = [th EXCEPT ![t].dispatched = @ - 1]
  /\ UNCHANGED <<kthread, pc, result, runVars, queued, pages, submitted>>

C_Count(t) ==
  /\ MoveLate(t, "undispatched", "counted")
  /\ th' = [th EXCEPT ![t].completed = @ + 1]
  /\ UNCHANGED <<kthread, pc, result, runVars, queued, timed, pages, submitted>>

\* Mutant: wakes the thread only when its last I/O is done.
C_ReadWqh_lastOnly(t) ==
  /\ MoveLate(t, "counted", IF th[t].bio_wqh /\ th[t].dispatched = 0
                            THEN "waking" ELSE "releasing")
  /\ UNCHANGED <<th, kthread, pc, result, runVars, queued, timed, pages,
                 submitted>>

\* if (th->bio_wqh): without a wait queue nobody is woken.
C_ReadWqh(t) ==
  /\ MoveLate(t, "counted", IF th[t].bio_wqh THEN "waking" ELSE "releasing")
  /\ UNCHANGED <<th, kthread, pc, result, runVars, queued, timed, pages,
                 submitted>>

C_Wake(t) ==
  /\ MoveLate(t, "waking", "releasing")
  /\ kthread' = [kthread EXCEPT ![t].asleep = FALSE]
  /\ UNCHANGED <<th, pc, result, runVars, queued, timed, pages, submitted>>

\* __free_page() and bio_put()
C_Release(t) ==
  /\ late[t]["releasing"] > 0
  /\ late' = [late EXCEPT ![t]["releasing"] = @ - 1]
  /\ pages' = [pages EXCEPT ![t] = @ - 1]
  /\ UNCHANGED <<thVars, runVars, queued, timed, submitted>>

Completion(t) ==
  /\ UNCHANGED config
  /\ \/ \E d \in Dirs : C_Account(t, d) \/ C_Undispatch(t, d)
     \/ C_Count(t) \/ C_ReadWqh(t) \/ C_Wake(t) \/ C_Release(t)

-----------------------------------------------------------------------------

\* kio_run() has returned, or its caller was killed by an oops.
Over == run.pc \in {"returned", "oops"} /\ UNCHANGED vars

Next ==
  \/ RunStep
  \/ \E t \in Threads : ThreadStep(t) \/ Signal(t) \/ Completion(t)
  \/ Over

(***************************************************************************)
(* The caller and every thread are scheduled, and the block layer calls    *)
(* back for every bio it was given and runs the handler to its end.        *)
(***************************************************************************)
Fairness ==
  /\ WF_vars(RunStep)
  /\ \A t \in Threads : WF_vars(ThreadStep(t)) /\ WF_vars(Completion(t))

Spec == Init /\ [][Next]_vars

FairSpec == Spec /\ Fairness

-----------------------------------------------------------------------------
(***************************************************************************)
(* Properties                                                              *)
(***************************************************************************)

Count(cond) == IF cond THEN 1 ELSE 0

\* The bios of t in direction d that still count in th->dispatched.
InFlightDir(t, d) == queued[t][d] + timed[t][d]
InFlight(t) == InFlightDir(t, "read") + InFlightDir(t, "write")

Late(t) == late[t]["undispatched"] + late[t]["counted"]
             + late[t]["waking"] + late[t]["releasing"]

\* th->dispatched is exactly the bios the thread has in flight, plus the one
\* it is about to submit, plus the one a failed kio_io_submit() never takes
\* back: incrementing before the submission and decrementing in the handler
\* neither loses nor invents an I/O in any interleaving.
DispatchedCountsInFlight ==
  \A t \in Threads :
    th[t].dispatched = InFlight(t) + Count(pc[t] = "submit")
                                   + Count(result[t] = "ESUBMIT")

\* With a queue_depth the thread never has more I/Os in flight than that
\* (0 is no limit).  A pending signal ends the wait for room early, and lets
\* one I/O too many through before the thread gives up.
QueueDepthRespected ==
  \A t \in Threads :
    config[t].queue_depth > 0 =>
      InFlight(t) <= config[t].queue_depth + Count(kthread[t].signal)

\* With burst_finish the reads and the writes of a thread are never in flight
\* together: only a new burst changes direction, and it waits for the burst
\* before it (unless a signal cuts the wait short).
BurstFinishSeparates ==
  \A t \in Threads :
    config[t].burst_finish /\ ~kthread[t].signal =>
      \E d \in Dirs : InFlightDir(t, d) = 0

\* What thread t waits for where it sleeps.
WaitCondition(t) ==
  \/ pc[t] = "qdwait" /\ ~kio_thread_too_busy(t)
  \/ pc[t] = "burstwait" /\ ~kio_thread_busy(t)
  \/ pc[t] = "drain" /\ th[t].dispatched = 0

\* A sleeping thread is always about to be woken up: if what it waits for has
\* come true, a completion handler is on its way to wake it (no order of the
\* handler's decrement, its test of th->bio_wqh and the thread's going to sleep
\* loses the wakeup), and otherwise one of its I/Os is still to complete.  The
\* one exception is a failed kio_io_submit(), which leaves dispatched too high.
NoLostWakeup ==
  \A t \in Threads :
    kthread[t].asleep =>
      IF WaitCondition(t)
      THEN late[t]["undispatched"] + late[t]["counted"] + late[t]["waking"] > 0
      ELSE InFlight(t) > 0 \/ result[t] = "ESUBMIT"

\* Every page is either held by the thread for its next I/O, or with a bio
\* whose handler will free it, or was leaked by a failed kio_io_submit(); a
\* burst wait that is told to stop gives its page back.
PagesAccounted ==
  \A t \in Threads :
    pages[t] = Count(pc[t] \in {"burstwait", "dispatch", "submit"})
                 + InFlight(t) + Late(t) + Count(result[t] = "ESUBMIT")

\* Past the final wait (and so when kio_run() frees the thread array) no bio
\* of the thread is with the device and the latency of every I/O it submitted
\* is in clat_total, unless a signal cut the wait short.
DrainedAtExit ==
  \A t \in Threads :
    pc[t] \in {"unhook", "return", "exited"} /\ ~kthread[t].signal =>
      InFlight(t) = 0 /\ th[t].clat_total = submitted[t]

\* kio_running covers the life of every kio thread, so that whoever finds it
\* clear may replace the configuration the threads read; and none of them
\* outlives the array it works on.
RunningCoversThreads ==
  \A t \in Threads :
    pc[t] \notin {"none", "exited"} => kio_running /\ ths = "live"

\* When kio_run() returns, kio_running is clear again, except on the two
\* early returns of the setup (no memory for the array, no first thread).
FlagClearedUnlessSetupFails ==
  run.pc = "returned" =>
    (kio_running <=> run.result \in {"ENOMEM", "EAGAIN"})

\* kthread_stop() meets an error pointer only if a kthread could not be
\* created, and a thread that is gone only if that thread failed.
OopsOnlyAfterFailure ==
  run.pc = "oops" =>
    \/ kthread[run.i].task = "err" /\ run.result = "EAGAIN"
    \/ result[run.i] # "ok"

\* What kio_run_stats_thread() adds up: each thread's clat_total is ahead of its
\* completed by exactly the handlers between the two updates, so the summary
\* never divides by more I/Os than it has latencies of; it has every thread,
\* and shows an I/O as still dispatched only after a signal.
SummaryCounts ==
  /\ \A t \in Threads :
       th[t].clat_total = th[t].completed + timed[t]["read"] + timed[t]["write"]
                            + late[t]["undispatched"]
  /\ st.completed <= st.clat_total
  /\ st.dispatched > 0 => \E t \in Threads : kthread[t].signal
  /\ run.pc = "returned" /\ run.result = "ok" => st.num_threads = NumThreads

\* What the summary prints as average completion latency is st.clat_total by
\* st.completed: the latencies added up are those of the completed I/Os.
LatencyIsAverage == run.pc = "returned" => st.clat_total = st.completed

\* kio_run() comes to an end: every thread leaves its waits, drains its I/Os
\* and can be joined, whatever the order of completions and stop requests.
RunEnds == <>(run.pc \in {"returned", "oops"})

\* A thread that waits for room in its queue gets on, as I/Os complete.
QdWaitEnds == \A t \in Threads : pc[t] = "qdwait" ~> pc[t] # "qdwait"

=============================================================================
