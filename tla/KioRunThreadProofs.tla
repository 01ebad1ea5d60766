------------------------- MODULE KioRunThreadProofs -------------------------
(***************************************************************************)
(* What each kio thread guarantees in the runs of KioRun: no wakeup is     *)
(* lost, the queue depth is respected, bursts do not mix, nothing is in    *)
(* flight any more once the thread has drained, and the summary adds up    *)
(* exact books.  Each is an inductive invariant, relative to Accounting.   *)
(* With them, KioRun implements KioBench.                                  *)
(***************************************************************************)
EXTENDS KioRunProofs, KioRunBench

-----------------------------------------------------------------------------
(***************************************************************************)
(* What kio_run() may do to a thread: create it, and ask it to stop.       *)
(***************************************************************************)
LEMMA RunEffectOnThread ==
  ASSUME Accounting, RunStep, NEW t \in Threads
  PROVE  /\ UNCHANGED <<config, th, result, queued, timed, late, submitted>>
         /\ pc'[t] = pc[t] \/ (pc[t] = "none" /\ pc'[t] = "start")
         /\ kthread'[t].signal = kthread[t].signal
         /\ kthread'[t].asleep => kthread[t].asleep
         /\ kthread[t].should_stop => kthread'[t].should_stop
<1>1. /\ TypeOK /\ RunInv
      /\ run.i \in Threads /\ pc \in [Threads -> ThreadPC]
      /\ kthread \in [Threads -> KThread]
  BY Zenon DEF Accounting, TypeOK, RunFrame
<1>2. UNCHANGED <<config, th, result, queued, timed, late, submitted>>
  BY DEF RunStep, Run_Reject, Run_Begin, Run_Alloc, Run_AllocFails, Run_Create,
     Run_CreateFails, Run_WaitEnds, Run_Stop, Run_StopOops, Run_Join, Run_Clear,
     Run_Stats, Run_Free, thVars, bioVars
<1>3. pc'[t] = pc[t] \/ (pc[t] = "none" /\ pc'[t] = "start")
  <2>1. CASE Run_Create
    <3>1. run.i \in Nat BY <1>1, KioRunAssumption DEF Threads
    <3>2. pc[run.i] = "none"
      BY <1>1, <2>1, <3>1 DEF Run_Create, RunInv, RunPhase, Tasks, Created
    <3> QED BY Zenon, <1>1, <2>1, <3>2 DEF Run_Create
  <2>2. CASE ~Run_Create
    BY <2>2 DEF RunStep, Run_Reject, Run_Begin, Run_Alloc, Run_AllocFails,
       Run_CreateFails, Run_WaitEnds, Run_Stop, Run_StopOops, Run_Join,
       Run_Clear, Run_Stats, Run_Free, thVars
  <2> QED BY Zenon, <2>1, <2>2
<1>4. \/ kthread' = kthread
      \/ kthread' = [kthread EXCEPT ![run.i].task = "ok"]
      \/ kthread' = [kthread EXCEPT ![run.i].task = "err"]
      \/ kthread' = [kthread EXCEPT ![run.i].should_stop = TRUE,
                                    ![run.i].asleep = FALSE]
  BY DEF RunStep, Run_Reject, Run_Begin, Run_Alloc, Run_AllocFails, Run_Create,
     Run_CreateFails, Run_WaitEnds, Run_Stop, Run_StopOops, Run_Join, Run_Clear,
     Run_Stats, Run_Free, thVars
<1>5. /\ kthread'[t].signal = kthread[t].signal
      /\ kthread'[t].asleep => kthread[t].asleep
      /\ kthread[t].should_stop => kthread'[t].should_stop
  BY <1>1, <1>4 DEF KThread
<1> QED BY Zenon, <1>2, <1>3, <1>5

\* T_Alloc changes what kio_thread_next_dir() changes, and where t goes on.
LEMMA AllocEffect ==
  ASSUME TypeOK, NEW t \in Threads, T_Alloc(t)
  PROVE  /\ th'[t].dispatched = th[t].dispatched
         /\ th'[t].bio_wqh = th[t].bio_wqh
         /\ \E drawsRead \in BOOLEAN :
              LET dir == kio_thread_next_dir(config[t], th[t], drawsRead)
              IN  /\ th'[t].read_burst = dir.read_burst
                  /\ th'[t].write_burst = dir.write_burst
                  /\ th'[t].was_write = dir.is_write
                  /\ pc'[t] = IF WaitsForBurst(t, dir) THEN "burstwait"
                                                       ELSE "dispatch"
<1>1. th \in [Threads -> KioThread] /\ pc \in [Threads -> ThreadPC]
  BY Zenon DEF TypeOK
<1>2. PICK drawsRead \in BOOLEAN :
        LET dir == kio_thread_next_dir(config[t], th[t], drawsRead)
        IN  /\ th' = [th EXCEPT ![t].read_burst = dir.read_burst,
                                ![t].write_burst = dir.write_burst,
                                ![t].was_write = dir.is_write]
            /\ Goto(t, IF WaitsForBurst(t, dir) THEN "burstwait"
                                                ELSE "dispatch")
  BY Zenon DEF T_Alloc
<1> QED BY Zenon, <1>1, <1>2 DEF Goto, KioThread

-----------------------------------------------------------------------------
(***************************************************************************)
(* Waits and wakeups                                                       *)
(***************************************************************************)

\* The thread has a wait queue for its handlers to wake it on.
Hooked == ThreadPC \ {"none", "start", "return", "exited"}

\* The handlers of t that have yet to wake it.
Wakers(t) == late[t]["undispatched"] + late[t]["counted"] + late[t]["waking"]

Wakeable(t) ==
  /\ pc[t] \in Hooked => th[t].bio_wqh
  /\ kthread[t].asleep => pc[t] \in {"qdwait", "burstwait", "drain"}
  /\ kthread[t].asleep /\ WaitCondition(t) => Wakers(t) > 0

\* A step of the thread or of its handlers loses no wakeup.
LEMMA OwnWakeable ==
  ASSUME Accounting, TypeOK', NEW t \in Threads, Wakeable(t),
         ThreadStep(t) \/ Signal(t) \/ Completion(t)
  PROVE  Wakeable(t)'
<1>1. /\ TypeOK /\ config' = config
      /\ th \in [Threads -> KioThread] /\ pc \in [Threads -> ThreadPC]
      /\ kthread \in [Threads -> KThread]
      /\ late \in [Threads -> [LateStage -> Nat]]
  BY Zenon DEF Accounting, TypeOK, ThreadStep, Signal, Completion
<1>2. /\ late[t]["undispatched"] \in Nat /\ late[t]["counted"] \in Nat
      /\ late[t]["waking"] \in Nat /\ late[t]["releasing"] \in Nat
      /\ th[t].dispatched \in Nat
  BY Zenon, <1>1, CountsAreNat
<1>3. /\ late'[t]["undispatched"] \in Nat /\ late'[t]["counted"] \in Nat
      /\ late'[t]["waking"] \in Nat /\ late'[t]["releasing"] \in Nat
  BY Zenon, CountsStayNat
\* A step that does not sleep, and stays on the hook or leaves it
<1>4. ASSUME ~kthread'[t].asleep, pc'[t] \in Hooked => th'[t].bio_wqh
      PROVE  Wakeable(t)'
  BY Zenon, <1>4 DEF Wakeable
<1>5. ASSUME ~kthread[t].asleep, pc'[t] = pc[t], UNCHANGED <<th, late>>,
             ~WaitCondition(t), pc[t] \in {"qdwait", "burstwait", "drain"}
      PROVE  Wakeable(t)'
  BY Zenon, <1>1, <1>5 DEF Wakeable, WaitCondition, kio_thread_too_busy, kio_thread_busy
<1>6. ASSUME pc[t] \notin {"qdwait", "burstwait", "drain"}
      PROVE  ~kthread[t].asleep
  BY Zenon, <1>6 DEF Wakeable
<1>7. CASE T_Start(t)
  <2>1. ~kthread'[t].asleep BY Zenon, <1>6, <1>7 DEF T_Start
  <2>2. pc'[t] \in Hooked => th'[t].bio_wqh
    BY Zenon, <1>1, <1>7 DEF T_Start, Goto, Hooked, KioThread
  <2> QED BY Zenon, <1>4, <2>1, <2>2
<1>8. CASE T_Loop(t) \/ T_QdTest(t) \/ T_AllocFails(t) \/ T_Submit(t)
           \/ T_SubmitFails(t) \/ T_After(t)
  <2>1. ~kthread'[t].asleep
    BY Zenon, <1>6, <1>8 DEF T_Loop, T_QdTest, T_AllocFails, T_Submit, T_SubmitFails,
       T_After
  <2>2. pc[t] \in Hooked
    BY Zenon, <1>8 DEF T_Loop, T_QdTest, T_AllocFails, T_Submit, T_SubmitFails,
       T_After, Hooked, ThreadPC
  <2>3. th' = th
    BY Zenon, <1>8 DEF T_Loop, T_QdTest, T_AllocFails, T_Submit, T_SubmitFails, T_After
  <2> QED BY Zenon, <1>4, <2>1, <2>2, <2>3 DEF Wakeable
<1>9. CASE T_Dispatch(t) \/ T_Alloc(t)
  <2>1. ~kthread'[t].asleep BY Zenon, <1>6, <1>9 DEF T_Dispatch, T_Alloc
  <2>2. pc[t] \in Hooked BY Zenon, <1>9
                         DEF T_Dispatch, T_Alloc, Hooked, ThreadPC
  <2>3. th'[t].bio_wqh = th[t].bio_wqh
    BY <1>1, <1>9, AllocEffect DEF T_Dispatch, KioThread
  <2> QED BY Zenon, <1>4, <2>1, <2>2, <2>3 DEF Wakeable
<1>10. CASE T_QdWait(t) \/ T_BurstWait(t) \/ T_Drain(t)
  <2>1. /\ ~kthread[t].asleep /\ UNCHANGED <<th, late>>
        /\ pc[t] \in {"qdwait", "burstwait", "drain"}
    BY Zenon, <1>10 DEF T_QdWait, T_BurstWait, T_Drain, WaitEvent, bioVars
  <2>2. CASE pc' = pc
    <3>1. ~WaitCondition(t)
      BY Zenon, <1>1, <1>10, <2>2 DEF T_QdWait, T_BurstWait, T_Drain, WaitEvent,
         WaitCondition, Goto
    <3> QED BY Zenon, <1>5, <2>1, <2>2, <3>1
  <2>3. CASE pc' # pc
    <3>1. kthread' = kthread
      BY Zenon, <1>10, <2>3 DEF T_QdWait, T_BurstWait, T_Drain, WaitEvent
    <3>2. th[t].bio_wqh BY Zenon, <2>1 DEF Wakeable, Hooked, ThreadPC
    <3> QED BY Zenon, <1>4, <2>1, <3>1, <3>2
  <2> QED BY Zenon, <2>2, <2>3
<1>11. CASE T_Unhook(t)
  <2>1. ~kthread'[t].asleep /\ pc'[t] = "return"
    BY Zenon, <1>1, <1>6, <1>11 DEF T_Unhook, Goto
  <2> QED BY Zenon, <1>4, <2>1 DEF Hooked
<1>12. CASE T_Return(t)
  <2>1. ~kthread'[t].asleep /\ pc'[t] = "exited"
    BY Zenon, <1>1, <1>6, <1>12 DEF T_Return, Goto
  <2> QED BY Zenon, <1>4, <2>1 DEF Hooked
<1>13. CASE Signal(t)
  <2>1. ~kthread'[t].asleep BY Zenon, <1>1, <1>13 DEF Signal, KThread
  <2>2. UNCHANGED <<pc, th>> BY Zenon, <1>13 DEF Signal
  <2> QED BY Zenon, <1>4, <2>1, <2>2 DEF Wakeable
\* A handler step that leaves the waking handlers as many as they were
<1>14. ASSUME UNCHANGED <<pc, kthread>>, th'[t].bio_wqh = th[t].bio_wqh,
              \/ Wakers(t)' > 0
              \/ Wakers(t)' = Wakers(t) /\ th'[t].dispatched = th[t].dispatched
       PROVE  Wakeable(t)'
  <2>1. Wakers(t) \in Nat BY <1>2 DEF Wakers
  <2> QED BY Zenon, <1>1, <1>14, <2>1 DEF Wakeable, WaitCondition,
             kio_thread_too_busy, kio_thread_busy
<1>15. ASSUME NEW d \in Dirs, C_Account(t, d) PROVE Wakeable(t)'
  <2>1. /\ th'[t].bio_wqh = th[t].bio_wqh
        /\ th'[t].dispatched = th[t].dispatched
        /\ UNCHANGED <<pc, kthread, late>>
    BY Zenon, <1>1, <1>15 DEF C_Account, KioThread
  <2> QED BY Zenon, <1>14, <2>1 DEF Wakers
<1>16. ASSUME NEW d \in Dirs, C_Undispatch(t, d) PROVE Wakeable(t)'
  <2>1. /\ th'[t].bio_wqh = th[t].bio_wqh
        /\ UNCHANGED <<pc, kthread>>
        /\ late'[t]["undispatched"] = late[t]["undispatched"] + 1
    BY Zenon, <1>1, <1>16 DEF C_Undispatch, KioThread, LateStage
  <2>2. Wakers(t)' > 0 BY <1>2, <1>3, <2>1 DEF Wakers
  <2> QED BY Zenon, <1>14, <2>1, <2>2
<1>17. CASE C_Count(t)
  <2>1. /\ th'[t].bio_wqh = th[t].bio_wqh
        /\ UNCHANGED <<pc, kthread>>
        /\ MoveLate(t, "undispatched", "counted")
    BY Zenon, <1>1, <1>17 DEF C_Count, KioThread
  <2>2. late'[t]["counted"] = late[t]["counted"] + 1
    BY Zenon, <1>1, <2>1, MoveLateEffect DEF LateStage
  <2>3. Wakers(t)' > 0 BY <1>2, <1>3, <2>2 DEF Wakers
  <2> QED BY Zenon, <1>14, <2>1, <2>3
<1>18. CASE C_ReadWqh(t)
  <2>1. UNCHANGED <<th, pc, kthread>> BY Zenon, <1>18 DEF C_ReadWqh
  <2>2. CASE th[t].bio_wqh
    <3>1. late'[t]["waking"] = late[t]["waking"] + 1
      BY Zenon, <1>1, <1>18, <2>2, MoveLateEffect DEF C_ReadWqh, LateStage
    <3>2. Wakers(t)' > 0 BY <1>2, <1>3, <3>1 DEF Wakers
    <3> QED BY Zenon, <1>14, <2>1, <3>2
  <2>3. CASE ~th[t].bio_wqh
    <3>1. pc[t] \notin Hooked BY Zenon, <2>3 DEF Wakeable
    <3>2. ~kthread[t].asleep BY Zenon, <1>6, <3>1 DEF Hooked, ThreadPC
    <3> QED BY Zenon, <1>4, <2>1, <3>1, <3>2
  <2> QED BY Zenon, <2>2, <2>3
<1>19. CASE C_Wake(t)
  <2>1. ~kthread'[t].asleep /\ UNCHANGED <<th, pc>>
    BY Zenon, <1>1, <1>19 DEF C_Wake, KThread
  <2> QED BY Zenon, <1>4, <2>1 DEF Wakeable
<1>20. CASE C_Release(t)
  <2>1. UNCHANGED <<th, pc, kthread>> BY Zenon, <1>20 DEF C_Release, thVars
  <2>2. /\ late'[t]["undispatched"] = late[t]["undispatched"]
        /\ late'[t]["counted"] = late[t]["counted"]
        /\ late'[t]["waking"] = late[t]["waking"]
    BY Zenon, <1>1, <1>20 DEF C_Release, LateStage
  <2> QED BY Zenon, <1>14, <2>1, <2>2 DEF Wakers
<1> QED
  BY Zenon, <1>7, <1>8, <1>9, <1>10, <1>11, <1>12, <1>13, <1>15, <1>16, <1>17,
           <1>18, <1>19, <1>20 DEF ThreadStep, Completion

\* A sleeping thread whose wait is over always has a handler about to wake it
\* up: the thread tests its condition again after it queued itself, and the
\* handler looks for sleepers only after it decremented th->dispatched.  One
\* whose wait is not over has an I/O left that will complete, as th->dispatched
\* counts those I/Os exactly.
THEOREM WakeupsNotLost == Spec => []NoLostWakeup
<1> DEFINE Inv == \A t \in Threads : Wakeable(t)
<1>1. Init => Inv
  BY DEF Init, Wakeable, Hooked
<1>2. Accounting /\ Accounting' /\ Inv /\ [Next]_vars => Inv'
  <2> SUFFICES ASSUME Accounting, Accounting', Inv, [Next]_vars,
                      NEW q \in Threads
               PROVE  Wakeable(q)'
    OBVIOUS
  <2>1. CASE RunStep
    <3>1. /\ UNCHANGED <<config, th, late>>
          /\ pc'[q] = pc[q] \/ (pc[q] = "none" /\ pc'[q] = "start")
          /\ kthread'[q].asleep => kthread[q].asleep
      BY Zenon, <2>1, RunEffectOnThread
    <3>2. Wakeable(q) OBVIOUS
    <3> QED BY Zenon, <3>1, <3>2 DEF Wakeable, Hooked, WaitCondition, Wakers,
               kio_thread_too_busy, kio_thread_busy
  <2>2. ASSUME NEW t \in Threads, ThreadStep(t) \/ Signal(t) \/ Completion(t)
        PROVE  Wakeable(q)'
    <3>1. CASE q = t BY Zenon, <2>2, <3>1, OwnWakeable DEF Accounting
    <3>2. CASE q # t
      <4>1. UNCHANGED ThreadState(q)
        BY Zenon, <2>2, <3>2, OtherThreadsUnchanged DEF Accounting
      <4>2. Wakeable(q) OBVIOUS
      <4> QED
        BY Zenon, <4>1, <4>2 DEF ThreadState, Wakeable, WaitCondition, Wakers,
                 kio_thread_too_busy, kio_thread_busy
    <3> QED BY Zenon, <3>1, <3>2
  <2>3. CASE UNCHANGED vars
    <3>1. Wakeable(q) OBVIOUS
    <3> QED
      BY Zenon, <2>3, <3>1 DEF vars, thVars, bioVars, Wakeable, WaitCondition,
               Wakers, kio_thread_too_busy, kio_thread_busy
  <2> QED BY Zenon, <2>1, <2>2, <2>3 DEF Next, Over
<1>3. Accounting /\ Inv => NoLostWakeup
  <2> SUFFICES ASSUME Accounting, Inv, NEW t \in Threads, kthread[t].asleep,
                      ~WaitCondition(t), result[t] # "ESUBMIT"
               PROVE  InFlight(t) > 0
    BY DEF Wakeable, Wakers, NoLostWakeup
  <2>1. /\ TypeOK /\ Accounted(t) /\ pc[t] \in {"qdwait", "burstwait", "drain"}
    BY Zenon DEF Accounting, Wakeable
  <2>2. th[t].dispatched \in Nat /\ InFlight(t) \in Nat
    BY Zenon, <2>1, CountsAreNat
  <2>3. config[t].queue_depth \in Nat
    BY <2>1, KioRunAssumption DEF TypeOK
  <2>4. th[t].dispatched # 0
    BY <2>1, <2>2, <2>3 DEF WaitCondition, kio_thread_too_busy, kio_thread_busy
  <2>5. th[t].dispatched = InFlight(t) + 0 + 0
    BY Zenon, <2>1 DEF Accounted, Count
  <2> QED BY <2>2, <2>4, <2>5
<1> QED BY <1>1, <1>2, <1>3, AccountingInvariant, PTL DEF Spec

-----------------------------------------------------------------------------
(***************************************************************************)
(* Queue depth                                                             *)
(***************************************************************************)

\* Between the test for room and the increment there is room for one more,
\* since only the thread itself ever adds to th->dispatched.
WithinDepth(t) ==
  config[t].queue_depth > 0 =>
    /\ pc[t] \in {"none", "start", "loop", "qdtest", "qdwait"} =>
         th[t].dispatched <= config[t].queue_depth
    /\ pc[t] \in {"alloc", "burstwait", "dispatch"} =>
         th[t].dispatched < config[t].queue_depth + Count(kthread[t].signal)
    /\ th[t].dispatched <= config[t].queue_depth + Count(kthread[t].signal)

\* A step of the thread or of its handlers keeps within the queue depth.
LEMMA OwnWithinDepth ==
  ASSUME Accounting, TypeOK', NEW t \in Threads, WithinDepth(t),
         ThreadStep(t) \/ Signal(t) \/ Completion(t)
  PROVE  WithinDepth(t)'
<1>1. /\ TypeOK /\ config' = config
      /\ th \in [Threads -> KioThread] /\ pc \in [Threads -> ThreadPC]
      /\ kthread \in [Threads -> KThread]
      /\ config[t].queue_depth \in Nat /\ th[t].dispatched \in Nat
  BY KioRunAssumption
     DEF Accounting, TypeOK, KioThread, ThreadStep, Signal, Completion
\* A step that does not add to dispatched, and either goes no further or
\* goes where more may be in flight
<1>2. ASSUME th'[t].dispatched \in Nat,
             th'[t].dispatched <= th[t].dispatched,
             kthread'[t].signal = kthread[t].signal \/ kthread'[t].signal,
             \/ pc'[t] = pc[t]
             \/ pc[t] = "burstwait" /\ pc'[t] = "dispatch"
             \/ pc[t] = "alloc" /\ pc'[t] \in {"burstwait", "dispatch"}
             \/ /\ pc[t] \in {"none", "start", "loop", "qdtest", "qdwait"}
                /\ pc'[t] \in {"loop", "qdtest", "qdwait"}
             \/ pc'[t] \in Leaving
      PROVE  WithinDepth(t)'
  BY <1>1, <1>2 DEF WithinDepth, Count, Leaving
<1>3. CASE T_Start(t)
  BY <1>1, <1>2, <1>3 DEF T_Start, Goto, KioThread, Leaving
<1>4. CASE T_Loop(t) BY <1>1, <1>2, <1>4 DEF T_Loop, Goto, Leaving
<1>5. CASE T_QdTest(t)
  BY <1>1, <1>5 DEF T_QdTest, Goto, WithinDepth, kio_thread_too_busy, Count
<1>6. CASE T_QdWait(t)
  <2>1. UNCHANGED th /\ pc[t] = "qdwait" BY Zenon, <1>6 DEF T_QdWait
  <2>2. kthread'[t].signal = kthread[t].signal
    BY Zenon, <1>1, <1>6 DEF T_QdWait, WaitEvent, KThread
  <2>3. CASE pc'[t] \in {"qdwait", "drain"}
    BY <1>1, <1>2, <2>1, <2>2, <2>3 DEF Leaving
  <2>4. CASE pc'[t] \notin {"qdwait", "drain"}
    <3>1. /\ pc'[t] = "alloc"
          /\ ~kio_thread_too_busy(t) \/ kthread[t].signal
      BY Zenon, <1>1, <1>6, <2>1, <2>4 DEF T_QdWait, WaitEvent, Goto
    <3> QED BY <1>1, <2>1, <2>2, <3>1
            DEF WithinDepth, kio_thread_too_busy, Count
  <2> QED BY Zenon, <2>3, <2>4
<1>7. CASE T_Alloc(t)
  <2>1. /\ pc[t] = "alloc" /\ pc'[t] \in {"burstwait", "dispatch"}
        /\ th'[t].dispatched = th[t].dispatched /\ UNCHANGED kthread
    BY Zenon, <1>1, <1>7, AllocEffect DEF T_Alloc
  <2> QED BY <1>1, <1>2, <2>1
<1>8. CASE T_AllocFails(t)
  BY <1>1, <1>2, <1>8 DEF T_AllocFails, GiveUp, Goto, Leaving
<1>9. CASE T_BurstWait(t)
  <2>1. UNCHANGED th /\ pc[t] = "burstwait" BY Zenon, <1>9 DEF T_BurstWait
  <2>2. kthread'[t].signal = kthread[t].signal
    BY Zenon, <1>1, <1>9 DEF T_BurstWait, WaitEvent, KThread
  <2>3. pc'[t] \in {"burstwait", "drain", "dispatch"}
    BY Zenon, <1>1, <1>9, <2>1 DEF T_BurstWait, WaitEvent, Goto
  <2> QED BY <1>1, <1>2, <2>1, <2>2, <2>3 DEF Leaving
<1>10. CASE T_Dispatch(t)
  <2>1. /\ pc[t] = "dispatch" /\ pc'[t] = "submit"
        /\ th'[t].dispatched = th[t].dispatched + 1 /\ UNCHANGED kthread
    BY Zenon, <1>1, <1>10 DEF T_Dispatch, Goto, KioThread
  <2> QED BY <1>1, <2>1 DEF WithinDepth, Count
<1>11. CASE T_Submit(t)
  <2>1. pc[t] = "submit" /\ pc'[t] = "after" /\ UNCHANGED <<th, kthread>>
    BY Zenon, <1>1, <1>11 DEF T_Submit, Goto
  <2> QED BY Zenon, <1>1, <2>1 DEF WithinDepth
<1>12. CASE T_SubmitFails(t)
  BY <1>1, <1>2, <1>12 DEF T_SubmitFails, GiveUp, Goto, Leaving
<1>13. CASE T_After(t)
  <2>1. /\ pc[t] = "after" /\ UNCHANGED <<th, kthread>>
        /\ \/ pc'[t] = "drain"
           \/ pc'[t] = "loop" /\ ~kthread[t].signal
    BY Zenon, <1>1, <1>13 DEF T_After, GiveUp, Goto
  <2> QED BY <1>1, <2>1 DEF WithinDepth, Count
<1>14. CASE T_Drain(t)
  <2>1. UNCHANGED th /\ pc[t] = "drain" BY Zenon, <1>14 DEF T_Drain
  <2>2. kthread'[t].signal = kthread[t].signal
    BY Zenon, <1>1, <1>14 DEF T_Drain, WaitEvent, KThread
  <2>3. pc'[t] \in {"drain", "unhook"}
    BY Zenon, <1>1, <1>14, <2>1 DEF T_Drain, WaitEvent, Goto
  <2> QED BY <1>1, <1>2, <2>1, <2>2, <2>3 DEF Leaving
<1>15. CASE T_Unhook(t)
  BY <1>1, <1>2, <1>15 DEF T_Unhook, Goto, KioThread, Leaving
<1>16. CASE T_Return(t) BY <1>1, <1>2, <1>16 DEF T_Return, Goto, Leaving
<1>17. CASE Signal(t)
  <2>1. kthread'[t].signal /\ UNCHANGED <<th, pc>>
    BY Zenon, <1>1, <1>17 DEF Signal, KThread
  <2> QED BY <1>1, <1>2, <2>1
<1>18. CASE Completion(t)
  <2>1. UNCHANGED pc /\ kthread'[t].signal = kthread[t].signal
    BY Zenon, <1>1, <1>18 DEF Completion, C_Account, C_Undispatch, C_Count, C_ReadWqh,
       C_Wake, C_Release, thVars, KThread
  <2>2. \/ th' = th
        \/ th' = [th EXCEPT ![t].clat_total = @ + 1]
        \/ th' = [th EXCEPT ![t].dispatched = @ - 1]
        \/ th' = [th EXCEPT ![t].completed = @ + 1]
    BY Zenon, <1>18 DEF Completion, C_Account, C_Undispatch, C_Count, C_ReadWqh,
       C_Wake, C_Release, thVars
  <2>3. th'[t].dispatched <= th[t].dispatched
    BY <1>1, <2>2 DEF KioThread
  <2>4. th'[t].dispatched \in Nat BY Zenon DEF TypeOK, KioThread
  <2> QED BY Zenon, <1>2, <2>1, <2>3, <2>4
<1> QED BY Zenon, <1>3, <1>4, <1>5, <1>6, <1>7, <1>8, <1>9, <1>10, <1>11, <1>12,
           <1>13, <1>14, <1>15, <1>16, <1>17, <1>18 DEF ThreadStep

\* No thread ever exceeds its queue_depth, but by the one I/O that a signal
\* lets through: the test and the increment are not atomic, yet nobody else
\* increments.
THEOREM DepthRespected == Spec => []QueueDepthRespected
<1> DEFINE Inv == \A t \in Threads : WithinDepth(t)
<1>1. Init => Inv
  <2> SUFFICES ASSUME Init, NEW t \in Threads PROVE WithinDepth(t)
    OBVIOUS
  <2>1. config[t].queue_depth \in Nat BY KioRunAssumption DEF Init
  <2> QED BY <2>1 DEF Init, WithinDepth, Count
<1>2. Accounting /\ Accounting' /\ Inv /\ [Next]_vars => Inv'
  <2> SUFFICES ASSUME Accounting, Accounting', Inv, [Next]_vars,
                      NEW q \in Threads
               PROVE  WithinDepth(q)'
    OBVIOUS
  <2>1. CASE RunStep
    <3>1. /\ UNCHANGED <<config, th>>
          /\ pc'[q] = pc[q] \/ (pc[q] = "none" /\ pc'[q] = "start")
          /\ kthread'[q].signal = kthread[q].signal
      BY Zenon, <2>1, RunEffectOnThread
    <3>2. WithinDepth(q) OBVIOUS
    <3> QED BY Zenon, <3>1, <3>2 DEF WithinDepth
  <2>2. ASSUME NEW t \in Threads, ThreadStep(t) \/ Signal(t) \/ Completion(t)
        PROVE  WithinDepth(q)'
    <3>1. CASE q = t BY Zenon, <2>2, <3>1, OwnWithinDepth DEF Accounting
    <3>2. CASE q # t
      <4>1. UNCHANGED ThreadState(q)
        BY Zenon, <2>2, <3>2, OtherThreadsUnchanged DEF Accounting
      <4>2. WithinDepth(q) OBVIOUS
      <4> QED BY Zenon, <4>1, <4>2 DEF ThreadState, WithinDepth
    <3> QED BY Zenon, <3>1, <3>2
  <2>3. CASE UNCHANGED vars
    <3>1. WithinDepth(q) OBVIOUS
    <3> QED BY Zenon, <2>3, <3>1 DEF vars, thVars, WithinDepth
  <2> QED BY Zenon, <2>1, <2>2, <2>3 DEF Next, Over
<1>3. Accounting /\ Inv => QueueDepthRespected
  <2> SUFFICES ASSUME Accounting, Inv, NEW t \in Threads,
                      config[t].queue_depth > 0
               PROVE  InFlight(t) <= config[t].queue_depth
                                       + Count(kthread[t].signal)
    BY Zenon DEF QueueDepthRespected
  <2>1. /\ InFlight(t) \in Nat /\ th[t].dispatched \in Nat
        /\ config[t].queue_depth \in Nat
    BY CountsAreNat, KioRunAssumption DEF Accounting, TypeOK
  <2>2. Accounted(t) /\ WithinDepth(t) BY Zenon DEF Accounting
  <2> QED BY <2>1, <2>2 DEF Accounted, WithinDepth, Count
<1> QED BY <1>1, <1>2, <1>3, AccountingInvariant, PTL DEF Spec

-----------------------------------------------------------------------------
(***************************************************************************)
(* Leaving                                                                 *)
(***************************************************************************)

\* Nothing is dispatched before the loop, and nothing after the final wait;
\* and a thread leaves the loop because it was told to or with an error.
Settled(t) ==
  /\ pc[t] \in {"none", "start"} => th[t].dispatched = 0
  /\ pc[t] \in {"unhook", "return", "exited"} /\ ~kthread[t].signal =>
       th[t].dispatched = 0
  /\ pc[t] \in Leaving => kthread[t].should_stop \/ result[t] # "ok"

\* A step of the thread or of its handlers keeps what is known past the drain.
LEMMA OwnSettled ==
  ASSUME Accounting, TypeOK', NEW t \in Threads, Settled(t),
         ThreadStep(t) \/ Signal(t) \/ Completion(t)
  PROVE  Settled(t)'
<1>1. /\ th \in [Threads -> KioThread] /\ pc \in [Threads -> ThreadPC]
      /\ kthread \in [Threads -> KThread]
      /\ result \in [Threads -> {"ok", "ENOMEM", "ESUBMIT", "EINTR"}]
  BY Zenon DEF Accounting, TypeOK
<1>2. kthread'[t].should_stop = kthread[t].should_stop
  BY Zenon, ThreadsLeaveRunAlone DEF Accounting
<1> USE DEF Settled, Leaving
<1>3. CASE T_Start(t) BY Zenon, <1>1, <1>2, <1>3 DEF T_Start, Goto, KioThread
<1>4. CASE T_Loop(t) BY Zenon, <1>1, <1>2, <1>4 DEF T_Loop, Goto
<1>5. CASE T_QdTest(t) BY Zenon, <1>1, <1>2, <1>5 DEF T_QdTest, Goto
<1>6. CASE T_QdWait(t)
  <2>1. /\ pc'[t] \in {"qdwait", "alloc", "drain"}
        /\ pc'[t] = "drain" => kthread[t].should_stop
    BY Zenon, <1>1, <1>6 DEF T_QdWait, WaitEvent, Goto
  <2> QED BY Zenon, <1>2, <2>1
<1>7. CASE T_Alloc(t)
  <2>1. pc'[t] \in {"burstwait", "dispatch"}
    BY Zenon, <1>7, AllocEffect DEF Accounting
  <2> QED BY Zenon, <2>1
<1>8. CASE T_AllocFails(t) BY Zenon, <1>1, <1>8 DEF T_AllocFails, GiveUp, Goto
<1>9. CASE T_BurstWait(t)
  <2>1. /\ pc'[t] \in {"burstwait", "dispatch", "drain"}
        /\ pc'[t] = "drain" => kthread[t].should_stop
    BY Zenon, <1>1, <1>9 DEF T_BurstWait, WaitEvent, Goto
  <2> QED BY Zenon, <1>2, <2>1
<1>10. CASE T_Dispatch(t) BY Zenon, <1>1, <1>10 DEF T_Dispatch, Goto
<1>11. CASE T_Submit(t) BY Zenon, <1>1, <1>11 DEF T_Submit, Goto
<1>12. CASE T_SubmitFails(t)
  BY Zenon, <1>1, <1>12 DEF T_SubmitFails, GiveUp, Goto
<1>13. CASE T_After(t) BY Zenon, <1>1, <1>13 DEF T_After, GiveUp, Goto
<1>14. CASE T_Drain(t)
  <2>1. /\ pc[t] = "drain" /\ UNCHANGED <<th, result>>
        /\ kthread'[t].signal = kthread[t].signal
    BY Zenon, <1>1, <1>14 DEF T_Drain, WaitEvent, KThread
  <2>2. \/ pc'[t] = "drain"
        \/ /\ pc'[t] = "unhook"
           /\ th[t].dispatched = 0 \/ kthread[t].signal
    BY Zenon, <1>1, <1>14, <2>1 DEF T_Drain, WaitEvent, Goto
  <2> QED BY Zenon, <1>2, <2>1, <2>2
<1>15. CASE T_Unhook(t)
  <2>1. /\ pc[t] = "unhook" /\ pc'[t] = "return" /\ UNCHANGED <<kthread, result>>
        /\ th'[t].dispatched = th[t].dispatched
    BY Zenon, <1>1, <1>15 DEF T_Unhook, Goto, KioThread
  <2> QED BY Zenon, <2>1
<1>16. CASE T_Return(t)
  <2>1. /\ pc[t] = "return" /\ pc'[t] = "exited"
        /\ UNCHANGED <<th, kthread, result>>
    BY Zenon, <1>1, <1>16 DEF T_Return, Goto
  <2> QED BY Zenon, <2>1
<1>17. CASE Signal(t)
  <2>1. kthread'[t].signal /\ UNCHANGED <<th, pc, result>>
    BY Zenon, <1>1, <1>17 DEF Signal, KThread
  <2> QED BY Zenon, <1>2, <2>1
<1>18. CASE Completion(t)
  <2>1. UNCHANGED <<pc, result>> /\ kthread'[t].signal = kthread[t].signal
    BY Zenon, <1>1, <1>18 DEF Completion, C_Account, C_Undispatch, C_Count, C_ReadWqh,
       C_Wake, C_Release, thVars, KThread
  <2>2. \/ th' = th
        \/ th' = [th EXCEPT ![t].clat_total = @ + 1]
        \/ th' = [th EXCEPT ![t].dispatched = @ - 1]
        \/ th' = [th EXCEPT ![t].completed = @ + 1]
    BY Zenon, <1>18 DEF Completion, C_Account, C_Undispatch, C_Count, C_ReadWqh,
       C_Wake, C_Release, thVars
  <2>3. th'[t].dispatched <= th[t].dispatched
    BY <1>1, <2>2 DEF KioThread
  <2>4. th'[t].dispatched \in Nat /\ th[t].dispatched \in Nat
    BY Zenon, <1>1 DEF TypeOK, KioThread
  <2>5. th[t].dispatched = 0 => th'[t].dispatched = 0 BY <2>3, <2>4
  <2> QED BY Zenon, <1>2, <2>1, <2>5
<1> QED BY Zenon, <1>3, <1>4, <1>5, <1>6, <1>7, <1>8, <1>9, <1>10, <1>11, <1>12,
           <1>13, <1>14, <1>15, <1>16, <1>17, <1>18 DEF ThreadStep

\* Past the last wait of kio_thread_fn() nothing is in flight, and a thread
\* that left its loop was told to stop or has failed.
THEOREM SettledInvariant == Spec => [](\A t \in Threads : Settled(t))
<1> DEFINE Inv == \A t \in Threads : Settled(t)
<1>1. Init => Inv BY DEF Init, Settled, Leaving
<1>2. Accounting /\ Accounting' /\ Inv /\ [Next]_vars => Inv'
  <2> SUFFICES ASSUME Accounting, Accounting', Inv, [Next]_vars,
                      NEW q \in Threads
               PROVE  Settled(q)'
    OBVIOUS
  <2>1. CASE RunStep
    <3>1. /\ UNCHANGED <<th, result>>
          /\ pc'[q] = pc[q] \/ (pc[q] = "none" /\ pc'[q] = "start")
          /\ kthread'[q].signal = kthread[q].signal
          /\ kthread[q].should_stop => kthread'[q].should_stop
      BY Zenon, <2>1, RunEffectOnThread
    <3>2. Settled(q) OBVIOUS
    <3> QED BY Zenon, <3>1, <3>2 DEF Settled, Leaving
  <2>2. ASSUME NEW t \in Threads, ThreadStep(t) \/ Signal(t) \/ Completion(t)
        PROVE  Settled(q)'
    <3>1. CASE q = t BY Zenon, <2>2, <3>1, OwnSettled DEF Accounting
    <3>2. CASE q # t
      <4>1. UNCHANGED ThreadState(q)
        BY Zenon, <2>2, <3>2, OtherThreadsUnchanged DEF Accounting
      <4>2. Settled(q) OBVIOUS
      <4> QED BY Zenon, <4>1, <4>2 DEF ThreadState, Settled
    <3> QED BY Zenon, <3>1, <3>2
  <2>3. CASE UNCHANGED vars
    <3>1. Settled(q) OBVIOUS
    <3> QED BY Zenon, <2>3, <3>1 DEF vars, thVars, Settled
  <2> QED BY Zenon, <2>1, <2>2, <2>3 DEF Next, Over
<1> QED BY <1>1, <1>2, AccountingInvariant, PTL DEF Spec

\* A thread past its final wait, and so every thread kio_run() has joined, has
\* nothing in flight and every latency in clat_total, unless signalled: the
\* block layer holds no pointer to the array kio_run() goes on to free in a
\* bio that is yet to complete.
THEOREM Drained == Spec => []DrainedAtExit
<1>1. Accounting /\ (\A t \in Threads : Settled(t)) => DrainedAtExit
  <2> SUFFICES ASSUME Accounting, \A t \in Threads : Settled(t),
                      NEW t \in Threads,
                      pc[t] \in {"unhook", "return", "exited"},
                      ~kthread[t].signal
               PROVE  InFlight(t) = 0 /\ th[t].clat_total = submitted[t]
    BY Zenon DEF DrainedAtExit
  <2>1. Settled(t) /\ Accounted(t) /\ TypeOK BY Zenon DEF Accounting
  <2>2. /\ queued[t]["write"] \in Nat /\ queued[t]["read"] \in Nat
        /\ timed[t]["write"] \in Nat /\ timed[t]["read"] \in Nat
        /\ submitted[t] \in Nat /\ th[t].clat_total \in Nat
        /\ InFlight(t) \in Nat
    BY Zenon, <2>1, CountsAreNat
  <2>3. InFlight(t) = 0 BY <2>1, <2>2 DEF Settled, Accounted, Count
  <2>4. queued[t]["write"] = 0 /\ queued[t]["read"] = 0
    <3>1. \A a, b, c, d \in Nat : (a + b) + (c + d) = 0 => a = 0 /\ c = 0
      OBVIOUS
    <3> QED BY Zenon, <2>2, <2>3, <3>1 DEF InFlight, InFlightDir
  <2>5. th[t].clat_total = submitted[t] BY <2>1, <2>2, <2>4 DEF Accounted
  <2> QED BY Zenon, <2>3, <2>5
<1> QED BY <1>1, AccountingInvariant, SettledInvariant, PTL

\* kthread_stop() is given a bad pointer only when a kthread could not be
\* created, and a finished task only when that thread had failed.
THEOREM OopsNeedsFailure == Spec => []OopsOnlyAfterFailure
<1>1. Accounting /\ (\A t \in Threads : Settled(t)) => OopsOnlyAfterFailure
  <2> SUFFICES ASSUME Accounting, \A t \in Threads : Settled(t),
                      run.pc = "oops"
               PROVE  \/ kthread[run.i].task = "err" /\ run.result = "EAGAIN"
                      \/ result[run.i] # "ok"
    BY Zenon DEF OopsOnlyAfterFailure
  <2>1. run.i \in Threads /\ RunInv BY Zenon DEF Accounting, TypeOK, RunFrame
  <2>2. \/ kthread[run.i].task = "err"
        \/ pc[run.i] = "exited" /\ ~kthread[run.i].should_stop
    BY Zenon, <2>1 DEF RunInv, RunPhase
  <2>3. Settled(run.i) BY Zenon, <2>1
  <2> QED BY Zenon, <2>1, <2>2, <2>3 DEF Settled, Leaving, RunInv, Tasks
<1> QED BY <1>1, AccountingInvariant, SettledInvariant, PTL

-----------------------------------------------------------------------------
(***************************************************************************)
(* The summary                                                             *)
(***************************************************************************)

\* A latency is in clat_total before its I/O is in completed.
Ledger(t) ==
  th[t].clat_total = th[t].completed + timed[t]["read"] + timed[t]["write"]
                       + late[t]["undispatched"]

\* A step of the thread or of its handlers keeps its ledger.
LEMMA OwnLedger ==
  ASSUME Accounting, TypeOK', NEW t \in Threads, Ledger(t),
         ThreadStep(t) \/ Signal(t) \/ Completion(t)
  PROVE  Ledger(t)'
<1>1. /\ TypeOK /\ th \in [Threads -> KioThread]
      /\ timed \in [Threads -> [Dirs -> Nat]]
      /\ late \in [Threads -> [LateStage -> Nat]]
  BY Zenon DEF Accounting, TypeOK
<1>2. /\ timed[t]["write"] \in Nat /\ timed[t]["read"] \in Nat
      /\ late[t]["undispatched"] \in Nat
      /\ th[t].completed \in Nat /\ th[t].clat_total \in Nat
  BY Zenon, <1>1, CountsAreNat
<1>3. /\ timed'[t]["write"] \in Nat /\ timed'[t]["read"] \in Nat
      /\ late'[t]["undispatched"] \in Nat
  BY Zenon, CountsStayNat
\* A step that adds no latency and counts no I/O
<1>4. ASSUME timed' = timed,
             late'[t]["undispatched"] = late[t]["undispatched"],
             th'[t].completed = th[t].completed,
             th'[t].clat_total = th[t].clat_total
      PROVE  Ledger(t)'
  BY Zenon, <1>4 DEF Ledger
<1>5. CASE Signal(t) \/ T_Loop(t) \/ T_QdTest(t) \/ T_QdWait(t)
           \/ T_AllocFails(t) \/ T_BurstWait(t) \/ T_Submit(t)
           \/ T_SubmitFails(t) \/ T_After(t) \/ T_Drain(t) \/ T_Return(t)
           \/ C_ReadWqh(t) \/ C_Wake(t) \/ C_Release(t)
  <2>1. th' = th /\ timed' = timed
    BY Zenon, <1>5 DEF Signal, T_Loop, T_QdTest, T_QdWait, T_AllocFails,
       T_BurstWait, T_Submit, T_SubmitFails, T_After, T_Drain, T_Return,
       C_ReadWqh, C_Wake, C_Release, thVars, bioVars
  <2>2. \/ late' = late
        \/ MoveLate(t, "counted", "waking")
        \/ MoveLate(t, "counted", "releasing")
        \/ MoveLate(t, "waking", "releasing")
        \/ late' = [late EXCEPT ![t]["releasing"] = @ - 1]
    BY Zenon, <1>5 DEF Signal, T_Loop, T_QdTest, T_QdWait, T_AllocFails,
       T_BurstWait, T_Submit, T_SubmitFails, T_After, T_Drain, T_Return,
       C_ReadWqh, C_Wake, C_Release, bioVars
  <2>3. late'[t]["undispatched"] = late[t]["undispatched"]
    BY <1>1, <2>2 DEF MoveLate, LateStage
  <2> QED BY Zenon, <1>4, <2>1, <2>3
<1>6. CASE T_Start(t) \/ T_Dispatch(t) \/ T_Unhook(t)
  <2>1. /\ UNCHANGED <<timed, late>>
        /\ \/ th' = th
           \/ th' = [th EXCEPT ![t].bio_wqh = TRUE]
           \/ th' = [th EXCEPT ![t].bio_wqh = FALSE]
           \/ th' = [th EXCEPT ![t].dispatched = @ + 1]
    BY Zenon, <1>6 DEF T_Start, T_Dispatch, T_Unhook, bioVars
  <2>2. /\ th'[t].completed = th[t].completed
        /\ th'[t].clat_total = th[t].clat_total
    BY <1>1, <2>1 DEF KioThread
  <2> QED BY Zenon, <1>4, <2>1, <2>2
<1>7. CASE T_Alloc(t)
  <2>1. PICK drawsRead \in BOOLEAN :
          LET dir == kio_thread_next_dir(config[t], th[t], drawsRead)
          IN  /\ th' = [th EXCEPT ![t].read_burst = dir.read_burst,
                                  ![t].write_burst = dir.write_burst,
                                  ![t].was_write = dir.is_write]
              /\ Goto(t, IF WaitsForBurst(t, dir) THEN "burstwait"
                                                  ELSE "dispatch")
    BY Zenon, <1>7 DEF T_Alloc
  <2>2. /\ th'[t].completed = th[t].completed
        /\ th'[t].clat_total = th[t].clat_total
    BY <1>1, <2>1 DEF KioThread
  <2> QED BY Zenon, <1>4, <1>7, <2>2 DEF T_Alloc
<1>8. ASSUME NEW d \in Dirs, C_Account(t, d) PROVE Ledger(t)'
  <2>1. /\ th'[t].clat_total = th[t].clat_total + 1
        /\ th'[t].completed = th[t].completed /\ late' = late
        /\ timed'[t][d] = timed[t][d] + 1
        /\ \A e \in Dirs \ {d} : timed'[t][e] = timed[t][e]
    BY <1>1, <1>8 DEF C_Account, KioThread
  <2>2. CASE d = "read" BY <1>2, <1>3, <2>1, <2>2 DEF Ledger, Dirs
  <2>3. CASE d = "write" BY <1>2, <1>3, <2>1, <2>3 DEF Ledger, Dirs
  <2> QED BY Zenon, <2>2, <2>3 DEF Dirs
<1>9. ASSUME NEW d \in Dirs, C_Undispatch(t, d) PROVE Ledger(t)'
  <2>1. /\ th'[t].clat_total = th[t].clat_total
        /\ th'[t].completed = th[t].completed
        /\ late'[t]["undispatched"] = late[t]["undispatched"] + 1
        /\ timed'[t][d] = timed[t][d] - 1
        /\ \A e \in Dirs \ {d} : timed'[t][e] = timed[t][e]
    BY <1>1, <1>9 DEF C_Undispatch, KioThread, LateStage
  <2>2. CASE d = "read" BY <1>2, <1>3, <2>1, <2>2 DEF Ledger, Dirs
  <2>3. CASE d = "write" BY <1>2, <1>3, <2>1, <2>3 DEF Ledger, Dirs
  <2> QED BY Zenon, <2>2, <2>3 DEF Dirs
<1>10. CASE C_Count(t)
  <2>1. /\ th'[t].clat_total = th[t].clat_total
        /\ th'[t].completed = th[t].completed + 1 /\ timed' = timed
    BY <1>1, <1>10 DEF C_Count, KioThread
  <2>2. late'[t]["undispatched"] = late[t]["undispatched"] - 1
    BY Zenon, <1>1, <1>10, MoveLateEffect DEF C_Count, LateStage
  <2> QED BY <1>2, <1>3, <2>1, <2>2 DEF Ledger
<1>11. CASE ThreadStep(t) BY Zenon, <1>5, <1>6, <1>7, <1>11 DEF ThreadStep
<1>12. CASE Completion(t)
  BY Zenon, <1>5, <1>8, <1>9, <1>10, <1>12 DEF Completion
<1> QED BY Zenon, <1>5, <1>11, <1>12

\* A pending signal stays pending.
LEMMA SignalsStay ==
  ASSUME TypeOK, NEW t \in Threads, NEW q \in Threads,
         ThreadStep(t) \/ Signal(t) \/ Completion(t), kthread[q].signal
  PROVE  kthread'[q].signal
<1>1. \/ kthread' = kthread
      \/ kthread' = [kthread EXCEPT ![t].asleep = TRUE]
      \/ kthread' = [kthread EXCEPT ![t].asleep = FALSE]
      \/ kthread' = [kthread EXCEPT ![t].signal = TRUE, ![t].asleep = FALSE]
  BY Zenon
  DEF ThreadStep, Completion, Signal, T_Start, T_Loop, T_QdTest, T_QdWait,
     T_Alloc, T_AllocFails, T_BurstWait, T_Dispatch, T_Submit, T_SubmitFails,
     T_After, T_Drain, T_Unhook, T_Return, C_Account, C_Undispatch, C_Count,
     C_ReadWqh, C_Wake, C_Release, thVars, WaitEvent
<1>2. kthread \in [Threads -> KThread] BY Zenon DEF TypeOK
<1> QED BY <1>1, <1>2 DEF KThread

\* What kio_run_stats_thread() has added up so far.
Summary ==
  /\ st.completed <= st.clat_total
  /\ st.dispatched > 0 => \E t \in Threads : kthread[t].signal
  /\ run.pc = "clear" => run.i = 0
  /\ run.pc \notin {"stats", "free", "returned"} => st.num_threads = 0
  /\ run.pc = "stats" => st.num_threads = run.i /\ run.result = "ok"
  /\ run.pc \in {"free", "returned"} /\ run.result = "ok" =>
       st.num_threads = NumThreads

\* A step that leaves the statistics alone and keeps the signals pending.
LEMMA SummaryFrame ==
  ASSUME TypeOK, Summary, UNCHANGED st,
         \A t \in Threads : kthread[t].signal => kthread'[t].signal,
         \/ run'.pc = run.pc /\ run'.i = run.i /\ run'.result = run.result
         \/ run'.pc \in RunPC \ {"clear", "stats", "free", "returned"}
            /\ run.pc \notin {"stats", "free", "returned"}
         \/ run'.pc = "clear" /\ run'.i = 0 /\ run.pc \in {"stop", "join"}
         \/ run'.pc \in {"free", "returned"} /\ run'.result # "ok"
         \/ run'.pc = "returned" /\ run.pc = "free" /\ run'.result = run.result
  PROVE  Summary'
  BY Zenon DEF Summary, RunPC

\* Every step of kio_run() keeps what is known of the summary.
LEMMA RunKeepsSummary ==
  ASSUME Accounting, \A t \in Threads : Settled(t),
         \A t \in Threads : Ledger(t), Summary, RunStep
  PROVE  Summary'
<1>1. /\ TypeOK /\ RunInv /\ run \in RunFrame /\ run.i \in Threads
      /\ st \in KioRunStats
  BY Zenon DEF Accounting, TypeOK, RunFrame
<1>2. \A t \in Threads : kthread'[t].signal = kthread[t].signal
  BY Zenon, RunEffectOnThread
<1>3. CASE Run_Reject \/ Run_AllocFails
  <2>1. st' = st /\ (RunReturn("ERANGE") \/ RunReturn("ENOMEM"))
    BY <1>3 DEF Run_Reject, Run_AllocFails
  <2>2. run'.pc = "returned" /\ run'.result # "ok"
    BY Zenon, <1>1, <2>1 DEF RunReturn, RunFrame
  <2> QED BY Zenon, <1>1, <1>2, <2>1, <2>2, SummaryFrame
<1>4. CASE Run_Begin \/ Run_Alloc \/ Run_StopOops
  <2>1. /\ st' = st /\ run.pc \in {"idle", "alloc", "stop"}
        /\ run'.pc \in {"alloc", "create", "oops"}
    BY <1>1, <1>4 DEF Run_Begin, Run_Alloc, Run_StopOops, RunGoto, RunFrame
  <2> QED BY Zenon, <1>1, <1>2, <2>1, SummaryFrame DEF RunPC
<1>5. CASE Run_Create
  <2>1. /\ run.pc = "create" /\ st' = st /\ run'.pc \in {"create", "wait"}
    BY Zenon, <1>1, <1>5, RunLoopEffect DEF Run_Create
  <2> QED BY Zenon, <1>1, <1>2, <2>1, SummaryFrame DEF RunPC
<1>6. CASE Run_CreateFails
  <2>1. /\ run.pc = "create" /\ st' = st /\ run'.result = "EAGAIN"
        /\ run'.pc \in {"returned", "stop"}
    BY Zenon, <1>1, <1>6 DEF Run_CreateFails, RunReturn, RunFrame
  <2> QED BY Zenon, <1>1, <1>2, <2>1, SummaryFrame DEF RunPC
<1>7. CASE Run_WaitEnds
  <2>1. run.pc = "wait" /\ st' = st /\ run'.pc = "stop"
    BY Zenon, <1>1, <1>7 DEF Run_WaitEnds, RunFrame
  <2> QED BY Zenon, <1>1, <1>2, <2>1, SummaryFrame DEF RunPC
<1>8. CASE Run_Stop \/ Run_Join
  <2>1. /\ run.pc \in {"stop", "join"} /\ st' = st
        /\ \/ run'.pc \in {"stop", "join"}
           \/ run'.pc = "clear" /\ run'.i = 0
    BY Zenon, <1>1, <1>8, RunLoopEffect DEF Run_Stop, Run_Join, RunGoto, RunFrame
  <2> QED BY Zenon, <1>1, <1>2, <2>1, SummaryFrame DEF RunPC
<1>9. CASE Run_Clear
  <2>1. /\ run.pc = "clear" /\ st' = st /\ run'.i = run.i
        /\ run'.result = run.result
        /\ run'.pc = IF run.result = "ok" THEN "stats" ELSE "free"
    BY Zenon, <1>1, <1>9 DEF Run_Clear, RunGoto, RunFrame
  <2> QED BY Zenon, <1>2, <2>1 DEF Summary
<1>10. CASE Run_Stats
  <2>1. /\ run.pc = "stats" /\ pc[run.i] = "exited"
        /\ run'.result = run.result /\ run.result = "ok"
        /\ IF run.i + 1 < NumThreads
           THEN run'.pc = "stats" /\ run'.i = run.i + 1
           ELSE run'.pc = "free" /\ run'.i = 0
    BY Zenon, <1>1, <1>10, RunLoopEffect DEF Run_Stats, RunInv, RunPhase, Summary
  <2>2. /\ st'.num_threads = st.num_threads + 1
        /\ st'.dispatched = st.dispatched + th[run.i].dispatched
        /\ st'.completed = st.completed + th[run.i].completed
        /\ st'.clat_total = st.clat_total + th[run.i].clat_total
    BY <1>10 DEF Run_Stats
  <2>3. /\ st.dispatched \in Nat /\ st.completed \in Nat /\ st.clat_total \in Nat
        /\ st.num_threads = run.i /\ run.i \in Nat /\ run.i < NumThreads
        /\ NumThreads \in Nat
    <3>1. st.num_threads = run.i BY Zenon, <2>1 DEF Summary
    <3> QED BY <1>1, <3>1, KioRunAssumption DEF KioRunStats, Threads
  <2>4. /\ th[run.i].dispatched \in Nat /\ th[run.i].completed \in Nat
        /\ th[run.i].clat_total \in Nat
        /\ timed[run.i]["write"] \in Nat /\ timed[run.i]["read"] \in Nat
        /\ late[run.i]["undispatched"] \in Nat
    BY Zenon, <1>1, CountsAreNat
  <2>5. th[run.i].completed <= th[run.i].clat_total
    <3>1. Ledger(run.i) BY Zenon, <1>1
    <3> QED BY <2>4, <3>1 DEF Ledger
  <2>6. st'.completed <= st'.clat_total
    <3>1. st.completed <= st.clat_total BY Zenon DEF Summary
    <3> QED BY <2>2, <2>3, <2>4, <2>5, <3>1
  <2>7. st'.dispatched > 0 => \E t \in Threads : kthread'[t].signal
    <3>1. CASE kthread[run.i].signal BY Zenon, <1>1, <1>2, <3>1
    <3>2. CASE ~kthread[run.i].signal
      <4>1. th[run.i].dispatched = 0 BY Zenon, <1>1, <2>1, <3>2 DEF Settled
      <4>2. st'.dispatched = st.dispatched BY <2>2, <2>3, <4>1
      <4> QED BY Zenon, <1>2, <4>2 DEF Summary
    <3> QED BY Zenon, <3>1, <3>2
  <2>8. IF run.i + 1 < NumThreads THEN st'.num_threads = run.i + 1
                                  ELSE st'.num_threads = NumThreads
    BY <2>2, <2>3
  <2> QED BY Zenon, <2>1, <2>6, <2>7, <2>8 DEF Summary
<1>11. CASE Run_Free
  <2>1. /\ run.pc = "free" /\ st' = st /\ run'.pc = "returned"
        /\ run'.result = run.result
    BY Zenon, <1>1, <1>11 DEF Run_Free, RunGoto, RunFrame
  <2> QED BY Zenon, <1>1, <1>2, <2>1, SummaryFrame
<1> QED BY Zenon, <1>3, <1>4, <1>5, <1>6, <1>7, <1>8, <1>9, <1>10, <1>11
        DEF RunStep

\* kio_run_stats_thread() adds up exact books: for every thread clat_total is
\* ahead of completed by the handlers between the two updates, and the summary
\* takes in every thread, whatever handlers still run while it is printed.
THEOREM SummaryIsExact == Spec => []SummaryCounts
<1> DEFINE Inv == /\ \A t \in Threads : Ledger(t)
                  /\ Summary
           Context == Accounting /\ \A t \in Threads : Settled(t)
<1>1. Init => Inv
  <2> SUFFICES ASSUME Init PROVE Inv OBVIOUS
  <2>1. ASSUME NEW t \in Threads PROVE Ledger(t)
    <3>1. /\ timed[t]["read"] = 0 /\ timed[t]["write"] = 0
          /\ late[t]["undispatched"] = 0
          /\ th[t].clat_total = 0 /\ th[t].completed = 0
      BY Zenon DEF Init, Dirs, LateStage
    <3> QED BY <3>1 DEF Ledger
  <2>2. Summary BY DEF Init, Summary
  <2> QED BY Zenon, <2>1, <2>2
<1>2. Context /\ Context' /\ Inv /\ [Next]_vars => Inv'
  <2> SUFFICES ASSUME Context, Context', Inv, [Next]_vars PROVE Inv'
    OBVIOUS
  <2>1. CASE RunStep
    <3>1. Summary' BY Zenon, <2>1, RunKeepsSummary
    <3>2. ASSUME NEW t \in Threads PROVE Ledger(t)'
      <4>1. UNCHANGED <<th, timed, late>> BY Zenon, <2>1, RunEffectOnThread
      <4>2. Ledger(t) OBVIOUS
      <4> QED BY Zenon, <4>1, <4>2 DEF Ledger
    <3> QED BY Zenon, <3>1, <3>2
  <2>2. ASSUME NEW t \in Threads, ThreadStep(t) \/ Signal(t) \/ Completion(t)
        PROVE  Inv'
    <3>1. ASSUME NEW q \in Threads PROVE Ledger(q)'
      <4>1. CASE q = t BY Zenon, <2>2, <4>1, OwnLedger DEF Accounting
      <4>2. CASE q # t
        <5>1. UNCHANGED ThreadState(q)
          BY Zenon, <2>2, <4>2, OtherThreadsUnchanged DEF Accounting
        <5>2. Ledger(q) OBVIOUS
        <5> QED BY Zenon, <5>1, <5>2 DEF ThreadState, Ledger
      <4> QED BY Zenon, <4>1, <4>2
    <3>2. Summary'
      <4>1. UNCHANGED <<run, st>>
        BY Zenon, <2>2, ThreadsLeaveRunAlone DEF Accounting
      <4>2. \A q \in Threads : kthread[q].signal => kthread'[q].signal
        BY Zenon, <2>2, SignalsStay DEF Accounting
      <4> QED BY Zenon, <4>1, <4>2 DEF Summary
    <3> QED BY Zenon, <3>1, <3>2
  <2>3. CASE UNCHANGED vars
    BY Zenon, <2>3 DEF vars, runVars, thVars, bioVars, Ledger, Summary
  <2> QED BY Zenon, <2>1, <2>2, <2>3 DEF Next, Over
<1>3. Inv => SummaryCounts BY Zenon DEF Ledger, Summary, SummaryCounts
<1> QED BY <1>1, <1>2, <1>3, AccountingInvariant, SettledInvariant, PTL DEF Spec

-----------------------------------------------------------------------------
(***************************************************************************)
(* Bursts                                                                  *)
(***************************************************************************)

Opposite(isWrite) == DirOf(~isWrite)

\* A running burst has the direction of the last I/O; a pure workload opens
\* none; and with burst_finish the thread issues in a direction only once
\* nothing is in flight in the other.
BurstOrder(t) ==
  /\ th[t].read_burst > 0 => ~th[t].was_write
  /\ th[t].write_burst > 0 => th[t].was_write /\ th[t].read_burst = 0
  /\ config[t].read_mix_percent >= 100 =>
       th[t].read_burst = 0 /\ th[t].write_burst = 0 /\ ~th[t].was_write
  /\ config[t].read_mix_percent < 1 =>
       /\ th[t].read_burst = 0 /\ th[t].write_burst = 0
       /\ InFlightDir(t, "read") = 0
       /\ pc[t] \in {"burstwait", "dispatch", "submit"} => th[t].was_write
  /\ config[t].burst_finish /\ ~kthread[t].signal =>
       /\ \E d \in Dirs : InFlightDir(t, d) = 0
       /\ pc[t] \notin Leaving \cup {"burstwait"} =>
            InFlightDir(t, Opposite(th[t].was_write)) = 0

\* A step of the thread or of its handlers keeps the directions apart.
LEMMA OwnBurstOrder ==
  ASSUME Accounting, TypeOK', NEW t \in Threads, BurstOrder(t),
         ThreadStep(t) \/ Signal(t) \/ Completion(t)
  PROVE  BurstOrder(t)'
<1>1. /\ TypeOK /\ Accounted(t) /\ config' = config
      /\ th \in [Threads -> KioThread] /\ pc \in [Threads -> ThreadPC]
      /\ kthread \in [Threads -> KThread]
      /\ queued \in [Threads -> [Dirs -> Nat]]
      /\ timed \in [Threads -> [Dirs -> Nat]]
  BY Zenon DEF Accounting, TypeOK, ThreadStep, Signal, Completion
<1>2. /\ config[t].read_mix_percent \in Nat
      /\ config[t].read_burst \in Nat /\ config[t].write_burst \in Nat
      /\ th[t].read_burst \in Nat /\ th[t].write_burst \in Nat
      /\ th[t].was_write \in BOOLEAN
  BY <1>1, KioRunAssumption DEF TypeOK, KioThread
<1>3. \A d \in Dirs : InFlightDir(t, d) \in Nat BY <1>1 DEF InFlightDir
\* A step that issues nothing: the flight only gets emptier
<1>4. ASSUME th'[t].read_burst = th[t].read_burst,
             th'[t].write_burst = th[t].write_burst,
             th'[t].was_write = th[t].was_write,
             kthread[t].signal => kthread'[t].signal,
             \A d \in Dirs : InFlightDir(t, d) = 0 => InFlightDir(t, d)' = 0,
             \/ pc'[t] = pc[t]
             \/ pc'[t] \in Leaving
             \/ /\ pc[t] \notin Leaving \cup {"burstwait"}
                /\ pc'[t] \notin {"burstwait", "dispatch", "submit"}
             \/ pc[t] = "dispatch" /\ pc'[t] = "submit"
      PROVE  BurstOrder(t)'
  <2>1. Opposite(th[t].was_write) \in Dirs /\ "read" \in Dirs
    BY Zenon DEF Opposite, DirOf, Dirs
  <2>2. Opposite(th[t].was_write)' = Opposite(th[t].was_write)
    BY Zenon, <1>4 DEF Opposite, DirOf
  <2> QED BY Zenon, <1>1, <1>2, <1>4, <2>1, <2>2 DEF BurstOrder, Leaving
<1>5. ASSUME UNCHANGED <<queued, timed>>
      PROVE  \A d \in Dirs : InFlightDir(t, d)' = InFlightDir(t, d)
  BY Zenon, <1>5 DEF InFlightDir
<1>6. CASE T_Start(t) \/ T_Unhook(t)
  <2>1. /\ th'[t].read_burst = th[t].read_burst
        /\ th'[t].write_burst = th[t].write_burst
        /\ th'[t].was_write = th[t].was_write
    BY <1>1, <1>6 DEF T_Start, T_Unhook, KioThread
  <2>2. UNCHANGED <<kthread, queued, timed>>
    BY Zenon, <1>6 DEF T_Start, T_Unhook, bioVars
  <2>3. \/ pc[t] = "start" /\ pc'[t] \in {"loop", "exited"}
        \/ pc'[t] = "return"
    BY Zenon, <1>1, <1>6 DEF T_Start, T_Unhook, Goto
  <2> QED BY Zenon, <1>4, <1>5, <2>1, <2>2, <2>3 DEF Leaving
<1>7. CASE T_Loop(t) \/ T_QdTest(t) \/ T_AllocFails(t) \/ T_SubmitFails(t)
           \/ T_After(t) \/ T_Return(t)
  <2>1. UNCHANGED <<th, kthread, queued, timed>>
    BY Zenon, <1>7 DEF T_Loop, T_QdTest, T_AllocFails, T_SubmitFails, T_After,
       T_Return, bioVars
  <2>2. \/ /\ pc[t] \in {"loop", "qdtest", "after"}
           /\ pc'[t] \in {"loop", "qdtest", "qdwait", "alloc"}
        \/ pc'[t] \in Leaving
    BY Zenon, <1>1, <1>7 DEF T_Loop, T_QdTest, T_AllocFails, T_SubmitFails, T_After,
       T_Return, Goto, GiveUp, Leaving
  <2> QED BY Zenon, <1>4, <1>5, <2>1, <2>2 DEF Leaving
<1>8. CASE T_QdWait(t) \/ T_Drain(t)
  <2>1. UNCHANGED <<th, queued, timed>>
    BY Zenon, <1>8 DEF T_QdWait, T_Drain, bioVars
  <2>2. kthread'[t].signal = kthread[t].signal
    BY Zenon, <1>1, <1>8 DEF T_QdWait, T_Drain, WaitEvent, KThread
  <2>3. \/ pc'[t] = pc[t]
        \/ pc[t] = "qdwait" /\ pc'[t] = "alloc"
        \/ pc'[t] \in Leaving
    BY Zenon, <1>1, <1>8 DEF T_QdWait, T_Drain, WaitEvent, Goto, Leaving
  <2> QED BY Zenon, <1>4, <1>5, <2>1, <2>2, <2>3 DEF Leaving
<1>9. CASE T_Alloc(t)
  <2>1. UNCHANGED <<kthread, queued, timed>> /\ pc[t] = "alloc"
    BY Zenon, <1>9 DEF T_Alloc
  <2>2. PICK drawsRead \in BOOLEAN :
          LET dir == kio_thread_next_dir(config[t], th[t], drawsRead)
          IN  /\ th'[t].read_burst = dir.read_burst
              /\ th'[t].write_burst = dir.write_burst
              /\ th'[t].was_write = dir.is_write
              /\ pc'[t] = IF WaitsForBurst(t, dir) THEN "burstwait"
                                                   ELSE "dispatch"
    BY Zenon, <1>1, <1>9, AllocEffect
  <2> DEFINE dir == kio_thread_next_dir(config[t], th[t], drawsRead)
  \* the five ways out of kio_thread_next_dir()
  <2>3. \/ /\ th[t].read_burst > 0
           /\ dir.read_burst = th[t].read_burst - 1
           /\ dir.write_burst = th[t].write_burst
           /\ dir.is_write = FALSE /\ dir.new_burst = FALSE
        \/ /\ th[t].read_burst = 0 /\ th[t].write_burst > 0
           /\ dir.read_burst = 0 /\ dir.write_burst = th[t].write_burst - 1
           /\ dir.is_write = TRUE /\ dir.new_burst = FALSE
        \/ /\ config[t].read_mix_percent >= 100
           /\ dir.read_burst = 0 /\ dir.write_burst = 0
           /\ dir.is_write = FALSE /\ dir.new_burst = FALSE
        \/ /\ config[t].read_mix_percent < 1
           /\ dir.read_burst = 0 /\ dir.write_burst = 0
           /\ dir.is_write = TRUE /\ dir.new_burst = FALSE
        \/ /\ config[t].read_mix_percent < 100
           /\ config[t].read_mix_percent >= 1
           /\ dir.new_burst = TRUE
           /\ dir.read_burst \in Nat /\ dir.write_burst \in Nat
           /\ \/ dir.is_write = FALSE /\ dir.write_burst = 0
              \/ dir.is_write = TRUE /\ dir.read_burst = 0
    <3>1. CASE th[t].read_burst > 0
      BY Zenon, <1>2, <3>1 DEF kio_thread_next_dir
    <3>2. CASE ~(th[t].read_burst > 0) /\ th[t].write_burst > 0
      <4>1. th[t].read_burst = 0 BY <1>2, <3>2
      <4>2. /\ dir.read_burst = 0 /\ dir.write_burst = th[t].write_burst - 1
            /\ dir.is_write = TRUE /\ dir.new_burst = FALSE
        BY Zenon, <3>2 DEF kio_thread_next_dir
      <4> HIDE DEF dir
      <4> QED BY Zenon, <3>2, <4>1, <4>2
    <3>3. CASE /\ ~(th[t].read_burst > 0) /\ ~(th[t].write_burst > 0)
               /\ config[t].read_mix_percent >= 100
      BY Zenon, <1>2, <3>3 DEF kio_thread_next_dir
    <3>4. CASE /\ ~(th[t].read_burst > 0) /\ ~(th[t].write_burst > 0)
               /\ ~(config[t].read_mix_percent >= 100)
               /\ config[t].read_mix_percent < 1
      BY Zenon, <1>2, <3>4 DEF kio_thread_next_dir
    <3>5. CASE /\ ~(th[t].read_burst > 0) /\ ~(th[t].write_burst > 0)
               /\ ~(config[t].read_mix_percent >= 100)
               /\ ~(config[t].read_mix_percent < 1)
      <4>1. /\ BurstLeft(config[t].read_burst) \in Nat
            /\ BurstLeft(config[t].write_burst) \in Nat
        <5>1. \A n \in Nat : BurstLeft(n) \in Nat BY DEF BurstLeft
        <5> QED BY Zenon, <1>2, <5>1
      <4>2. /\ dir.new_burst = TRUE
            /\ config[t].read_mix_percent < 100
            /\ config[t].read_mix_percent >= 1
        <5>1. dir.new_burst = TRUE BY Zenon, <3>5 DEF kio_thread_next_dir
        <5> HIDE DEF dir
        <5> QED BY <1>2, <3>5, <5>1
      <4>3. CASE drawsRead
        <5>1. /\ dir.is_write = FALSE /\ dir.write_burst = 0
              /\ dir.read_burst = BurstLeft(config[t].read_burst)
          BY Zenon, <3>5, <4>3 DEF kio_thread_next_dir
        <5> HIDE DEF dir
        <5>2. dir.read_burst \in Nat /\ dir.write_burst \in Nat
          BY <4>1, <5>1
        <5> QED BY Zenon, <4>2, <5>1, <5>2
      <4>4. CASE ~drawsRead
        <5>1. /\ dir.is_write = TRUE /\ dir.read_burst = 0
              /\ dir.write_burst = BurstLeft(config[t].write_burst)
          BY Zenon, <3>5, <4>4 DEF kio_thread_next_dir
        <5> HIDE DEF dir
        <5>2. dir.read_burst \in Nat /\ dir.write_burst \in Nat
          BY <4>1, <5>1
        <5> QED BY Zenon, <4>2, <5>1, <5>2
      <4> QED BY Zenon, <4>3, <4>4
    <3> QED BY Zenon, <3>1, <3>2, <3>3, <3>4, <3>5
  <2>4. \A d \in Dirs : InFlightDir(t, d)' = InFlightDir(t, d)
    BY Zenon, <1>5, <2>1
  <2>5. WaitsForBurst(t, dir) = (config[t].burst_finish /\ dir.new_burst)
    BY Zenon DEF WaitsForBurst
  <2>6. /\ th'[t].read_burst = dir.read_burst
        /\ th'[t].write_burst = dir.write_burst
        /\ th'[t].was_write = dir.is_write
        /\ pc'[t] = IF WaitsForBurst(t, dir) THEN "burstwait" ELSE "dispatch"
    BY Zenon, <2>2
  <2> HIDE DEF dir
  <2>7. /\ th'[t].read_burst > 0 => ~th'[t].was_write
        /\ th'[t].write_burst > 0 => th'[t].was_write /\ th'[t].read_burst = 0
    <3>1. /\ dir.read_burst > 0 => dir.is_write = FALSE
          /\ dir.write_burst > 0 => dir.is_write = TRUE /\ dir.read_burst = 0
      <4>1. /\ th[t].read_burst \in Nat /\ th[t].write_burst \in Nat
            /\ ~(0 > 0)
        BY <1>2
      <4>2. th[t].read_burst > 0 => ~(th[t].write_burst > 0)
        BY Zenon DEF BurstOrder
      <4> QED BY Zenon, <2>3, <4>1, <4>2
    <3> QED BY Zenon, <2>6, <3>1
  <2>8. config[t].read_mix_percent >= 100 =>
          /\ th'[t].read_burst = 0 /\ th'[t].write_burst = 0
          /\ ~th'[t].was_write
    <3>1. SUFFICES ASSUME config[t].read_mix_percent >= 100
                   PROVE  /\ dir.read_burst = 0 /\ dir.write_burst = 0
                          /\ dir.is_write = FALSE
      BY Zenon, <2>6
    <3>2. th[t].read_burst = 0 /\ th[t].write_burst = 0
      BY Zenon, <3>1 DEF BurstOrder
    <3>3. /\ ~(th[t].read_burst > 0) /\ ~(th[t].write_burst > 0)
          /\ ~(config[t].read_mix_percent < 1)
          /\ ~(config[t].read_mix_percent < 100)
      BY <1>2, <3>1, <3>2
    <3> QED BY Zenon, <2>3, <3>3
  <2>9. config[t].read_mix_percent < 1 =>
          /\ th'[t].read_burst = 0 /\ th'[t].write_burst = 0
          /\ InFlightDir(t, "read")' = 0
          /\ th'[t].was_write
    <3>1. InFlightDir(t, "read")' = InFlightDir(t, "read")
      BY Zenon, <2>4 DEF Dirs
    <3>2. SUFFICES ASSUME config[t].read_mix_percent < 1
                   PROVE  /\ dir.read_burst = 0 /\ dir.write_burst = 0
                          /\ dir.is_write = TRUE
                          /\ InFlightDir(t, "read") = 0
      BY Zenon, <2>6, <3>1
    <3>3. /\ th[t].read_burst = 0 /\ th[t].write_burst = 0
          /\ InFlightDir(t, "read") = 0
      BY Zenon, <3>2 DEF BurstOrder
    <3>4. /\ ~(th[t].read_burst > 0) /\ ~(th[t].write_burst > 0)
          /\ ~(config[t].read_mix_percent >= 100)
          /\ ~(config[t].read_mix_percent >= 1)
      <4>1. \A n \in Nat : n < 1 => ~(n >= 100) /\ ~(n >= 1) OBVIOUS
      <4>2. ~(0 > 0) OBVIOUS
      <4>3. config[t].read_mix_percent \in Nat BY Zenon, <1>2
      <4> QED BY Zenon, <3>2, <3>3, <4>1, <4>2, <4>3
    <3> QED BY Zenon, <2>3, <3>3, <3>4
  <2>10. ASSUME config[t].burst_finish, ~kthread[t].signal
         PROVE  /\ \E d \in Dirs : InFlightDir(t, d)' = 0
                /\ pc'[t] # "burstwait" =>
                     InFlightDir(t, Opposite(th[t].was_write))' = 0
    <3>1. /\ \E d \in Dirs : InFlightDir(t, d) = 0
          /\ InFlightDir(t, Opposite(th[t].was_write)) = 0
      BY Zenon, <2>1, <2>10 DEF BurstOrder, Leaving
    <3>2. pc'[t] # "burstwait" => dir.new_burst # TRUE
      BY Zenon, <2>5, <2>6, <2>10
    <3>3. \/ dir.new_burst = TRUE
          \/ dir.is_write = th[t].was_write
          \/ /\ config[t].read_mix_percent < 1 /\ dir.is_write = TRUE
      BY Zenon, <1>2, <2>3 DEF BurstOrder
    <3>4. CASE dir.new_burst = TRUE BY Zenon, <2>4, <3>1, <3>2, <3>4
    <3>5. CASE dir.is_write = th[t].was_write
      <4>1. Opposite(th[t].was_write) \in Dirs
        BY Zenon DEF Opposite, DirOf, Dirs
      <4>2. Opposite(th[t].was_write)' = Opposite(th[t].was_write)
        BY Zenon, <2>6, <3>5 DEF Opposite
      <4> QED BY Zenon, <2>4, <3>1, <4>1, <4>2 DEF InFlightDir
    <3>6. CASE config[t].read_mix_percent < 1 /\ dir.is_write = TRUE
      <4>1. Opposite(th[t].was_write)' = "read"
        BY Zenon, <2>6, <3>6 DEF Opposite, DirOf
      <4> QED BY Zenon, <2>4, <2>9, <3>1, <3>6, <4>1 DEF InFlightDir
    <3> QED BY Zenon, <3>3, <3>4, <3>5, <3>6
  <2> QED BY Zenon, <1>1, <2>1, <2>7, <2>8, <2>9, <2>10 DEF BurstOrder
<1>10. CASE T_BurstWait(t)
  <2>1. UNCHANGED <<th, queued, timed>> /\ pc[t] = "burstwait"
    BY Zenon, <1>10 DEF T_BurstWait
  <2>2. kthread'[t].signal = kthread[t].signal
    BY Zenon, <1>1, <1>10 DEF T_BurstWait, WaitEvent, KThread
  <2>3. CASE pc'[t] \in {"burstwait", "drain"}
    BY Zenon, <1>4, <1>5, <2>1, <2>2, <2>3 DEF Leaving
  <2>4. CASE pc'[t] \notin {"burstwait", "drain"}
    <3>1. /\ pc'[t] = "dispatch"
          /\ th[t].dispatched = 0 \/ kthread[t].signal
      <4>1. ~kio_thread_busy(t) \/ kthread[t].signal
        BY Zenon, <1>1, <1>10, <2>1, <2>4 DEF T_BurstWait, WaitEvent, Goto
      <4>2. th[t].dispatched \in Nat BY Zenon, <1>1, CountsAreNat
      <4>3. pc'[t] = "dispatch"
        BY Zenon, <1>1, <1>10, <2>1, <2>4 DEF T_BurstWait, WaitEvent, Goto
      <4> QED BY <4>1, <4>2, <4>3 DEF kio_thread_busy
    <3>2. th[t].dispatched = 0 => \A d \in Dirs : InFlightDir(t, d) = 0
      <4>1. InFlight(t) \in Nat BY Zenon, <1>1, CountsAreNat
      <4>2. th[t].dispatched = 0 => InFlight(t) = 0
        <5>1. th[t].dispatched = InFlight(t) + Count(pc[t] = "submit")
                                             + Count(result[t] = "ESUBMIT")
          BY <1>1, Zenon DEF Accounted
        <5>2. /\ Count(pc[t] = "submit") \in {0, 1}
              /\ Count(result[t] = "ESUBMIT") \in {0, 1}
          BY Zenon DEF Count
        <5>3. \A n \in Nat, a, b \in {0, 1} : n + a + b = 0 => n = 0 OBVIOUS
        <5> QED BY Zenon, <4>1, <5>1, <5>2, <5>3
      <4>3. InFlightDir(t, "read") \in Nat /\ InFlightDir(t, "write") \in Nat
        BY Zenon, <1>3 DEF Dirs
      <4>4. InFlight(t) = 0 =>
              InFlightDir(t, "read") = 0 /\ InFlightDir(t, "write") = 0
        BY <4>3 DEF InFlight
      <4> QED BY Zenon, <4>2, <4>4 DEF Dirs
    <3>3. \A d \in Dirs : InFlightDir(t, d)' = InFlightDir(t, d)
      BY Zenon, <1>5, <2>1
    <3>4. Opposite(th[t].was_write) \in Dirs
      BY Zenon DEF Opposite, DirOf, Dirs
    <3> QED BY Zenon, <1>1, <1>2, <2>1, <2>2, <3>1, <3>2, <3>3, <3>4
            DEF BurstOrder, Dirs, Leaving
  <2> QED BY Zenon, <2>3, <2>4
<1>11. CASE T_Dispatch(t)
  <2>1. /\ th'[t].read_burst = th[t].read_burst
        /\ th'[t].write_burst = th[t].write_burst
        /\ th'[t].was_write = th[t].was_write
        /\ pc[t] = "dispatch" /\ pc'[t] = "submit"
        /\ UNCHANGED <<kthread, queued, timed>>
    BY Zenon, <1>1, <1>11 DEF T_Dispatch, Goto, KioThread, bioVars
  <2> QED BY Zenon, <1>4, <1>5, <2>1
<1>12. CASE T_Submit(t)
  <2>1. /\ pc[t] = "submit" /\ pc'[t] = "after"
        /\ UNCHANGED <<th, kthread, timed>>
    BY Zenon, <1>1, <1>12 DEF T_Submit, Goto
  <2>2. \A d \in Dirs : d # DirOf(th[t].was_write) =>
                          InFlightDir(t, d)' = InFlightDir(t, d)
    BY Zenon, <1>1, <1>12 DEF T_Submit, InFlightDir
  <2>3. /\ Opposite(th[t].was_write) \in Dirs /\ "read" \in Dirs
        /\ Opposite(th[t].was_write) # DirOf(th[t].was_write)
        /\ th[t].was_write => "read" # DirOf(th[t].was_write)
    BY Zenon DEF Opposite, DirOf, Dirs
  <2> QED BY Zenon, <1>1, <1>2, <2>1, <2>2, <2>3 DEF BurstOrder, Leaving
<1>13. CASE Signal(t)
  <2>1. kthread'[t].signal /\ UNCHANGED <<th, pc, queued, timed>>
    BY Zenon, <1>1, <1>13 DEF Signal, KThread, bioVars
  <2> QED BY Zenon, <1>4, <1>5, <2>1
<1>14. CASE Completion(t)
  <2>1. UNCHANGED pc /\ kthread'[t].signal = kthread[t].signal
    BY Zenon, <1>1, <1>14 DEF Completion, C_Account, C_Undispatch, C_Count, C_ReadWqh,
       C_Wake, C_Release, thVars, KThread
  <2>2. \/ th' = th
        \/ th' = [th EXCEPT ![t].clat_total = @ + 1]
        \/ th' = [th EXCEPT ![t].dispatched = @ - 1]
        \/ th' = [th EXCEPT ![t].completed = @ + 1]
    BY Zenon, <1>14 DEF Completion, C_Account, C_Undispatch, C_Count, C_ReadWqh,
       C_Wake, C_Release, thVars
  <2>3. /\ th'[t].read_burst = th[t].read_burst
        /\ th'[t].write_burst = th[t].write_burst
        /\ th'[t].was_write = th[t].was_write
    BY <1>1, <2>2 DEF KioThread
  <2>4. ASSUME NEW d \in Dirs, InFlightDir(t, d) = 0
        PROVE  InFlightDir(t, d)' = 0
    <3>1. queued[t][d] = 0 /\ timed[t][d] = 0
      <4>1. \A a, b \in Nat : a + b = 0 => a = 0 /\ b = 0 OBVIOUS
      <4>2. queued[t][d] \in Nat /\ timed[t][d] \in Nat BY Zenon, <1>1
      <4> QED BY Zenon, <2>4, <4>1, <4>2 DEF InFlightDir
    <3>2. queued'[t][d] = queued[t][d] /\ timed'[t][d] = timed[t][d]
      <4>1. CASE UNCHANGED <<queued, timed>>
        BY Zenon, <4>1
      <4>2. ASSUME NEW e \in Dirs, C_Account(t, e) \/ C_Undispatch(t, e)
            PROVE  queued'[t][d] = queued[t][d] /\ timed'[t][d] = timed[t][d]
        <5>1. e # d BY <3>1, <4>2 DEF C_Account, C_Undispatch
        <5> QED BY <1>1, <4>2, <5>1 DEF C_Account, C_Undispatch
      <4>3. CASE C_Count(t) \/ C_ReadWqh(t) \/ C_Wake(t) \/ C_Release(t)
        BY Zenon, <4>1, <4>3 DEF C_Count, C_ReadWqh, C_Wake, C_Release
      <4> QED BY Zenon, <1>14, <4>2, <4>3 DEF Completion
    <3> QED BY <3>1, <3>2 DEF InFlightDir
  <2> QED BY Zenon, <1>4, <2>1, <2>3, <2>4
<1> QED BY Zenon, <1>6, <1>7, <1>8, <1>9, <1>10, <1>11, <1>12, <1>13, <1>14
        DEF ThreadStep

\* With burst_finish the two directions never overlap, for any mix and any
\* burst lengths (0 included), as long as no signal cuts the wait short.
THEOREM BurstsSeparate == Spec => []BurstFinishSeparates
<1> DEFINE Inv == \A t \in Threads : BurstOrder(t)
<1>1. Init => Inv
  <2> SUFFICES ASSUME Init, NEW t \in Threads PROVE BurstOrder(t)
    OBVIOUS
  <2>0. /\ queued = [q \in Threads |-> [d \in Dirs |-> 0]]
        /\ timed = [q \in Threads |-> [d \in Dirs |-> 0]]
        /\ config \in [Threads -> ThreadConfigs]
    BY Zenon DEF Init
  <2>1. \A d \in Dirs : InFlightDir(t, d) = 0 BY <2>0 DEF InFlightDir
  <2>2. Opposite(th[t].was_write) \in Dirs BY Zenon DEF Opposite, DirOf, Dirs
  <2>3. config[t].read_mix_percent \in Nat BY <2>0, KioRunAssumption
  <2>4. /\ th[t].read_burst = 0 /\ th[t].write_burst = 0 /\ ~th[t].was_write
        /\ pc[t] = "none"
    BY Zenon DEF Init
  <2>5. /\ InFlightDir(t, "read") = 0
        /\ InFlightDir(t, Opposite(th[t].was_write)) = 0
        /\ \E d \in Dirs : InFlightDir(t, d) = 0
    BY Zenon, <2>1, <2>2 DEF Dirs
  <2>6. /\ ~(0 > 0)
        /\ config[t].read_mix_percent < 1 => ~(config[t].read_mix_percent >= 100)
    BY <2>3
  <2> QED BY Zenon, <2>4, <2>5, <2>6 DEF BurstOrder
<1>2. Accounting /\ Accounting' /\ Inv /\ [Next]_vars => Inv'
  <2> SUFFICES ASSUME Accounting, Accounting', Inv, [Next]_vars,
                      NEW q \in Threads
               PROVE  BurstOrder(q)'
    OBVIOUS
  <2>1. CASE RunStep
    <3>1. /\ UNCHANGED <<config, th, queued, timed>>
          /\ pc'[q] = pc[q] \/ (pc[q] = "none" /\ pc'[q] = "start")
          /\ kthread'[q].signal = kthread[q].signal
      BY Zenon, <2>1, RunEffectOnThread
    <3>2. BurstOrder(q) OBVIOUS
    <3> QED BY Zenon, <3>1, <3>2 DEF BurstOrder, InFlightDir, Opposite, Leaving
  <2>2. ASSUME NEW t \in Threads, ThreadStep(t) \/ Signal(t) \/ Completion(t)
        PROVE  BurstOrder(q)'
    <3>1. CASE q = t BY Zenon, <2>2, <3>1, OwnBurstOrder DEF Accounting
    <3>2. CASE q # t
      <4>1. UNCHANGED ThreadState(q)
        BY Zenon, <2>2, <3>2, OtherThreadsUnchanged DEF Accounting
      <4>2. BurstOrder(q) OBVIOUS
      <4> QED
        BY Zenon, <4>1, <4>2 DEF ThreadState, BurstOrder, InFlightDir, Opposite
    <3> QED BY Zenon, <3>1, <3>2
  <2>3. CASE UNCHANGED vars
    <3>1. BurstOrder(q) OBVIOUS
    <3> QED
      BY Zenon, <2>3, <3>1 DEF vars, thVars, bioVars, BurstOrder, InFlightDir,
               Opposite
  <2> QED BY Zenon, <2>1, <2>2, <2>3 DEF Next, Over
<1>3. Inv => BurstFinishSeparates BY Zenon DEF BurstOrder, BurstFinishSeparates
<1> QED BY <1>1, <1>2, <1>3, AccountingInvariant, PTL DEF Spec

-----------------------------------------------------------------------------
(***************************************************************************)
(* KioRun implements KioBench, for any number of threads, configurations   *)
(* and faults.  Most steps change nothing KioBench sees.  The others meet  *)
(* the guards of KioBench because of the invariants of KioRun, which hold  *)
(* after the step as well as before it.                                    *)
(***************************************************************************)
\* What the steps rely on, before and after.
Promises ==
  /\ Accounting
  /\ QueueDepthRespected
  /\ BurstFinishSeparates
  /\ DrainedAtExit

\* All that KioBench sees of thread t.
Seen(t) ==
  <<BenchLife(t), InFlightDir(t, "read"), InFlightDir(t, "write"),
    kthread[t].signal>>

-----------------------------------------------------------------------------
\* A step that changes nothing KioBench sees is a stuttering step of it.
LEMMA UnseenStep ==
  ASSUME config' = config, BenchPhase' = BenchPhase,
         \A q \in Threads : UNCHANGED Seen(q)
  PROVE  UNCHANGED Bench!vars
<1>1. [q \in Threads |-> BenchLife(q)]' = [q \in Threads |-> BenchLife(q)]
  BY Zenon DEF Seen
<1>2. [q \in Threads |-> [d \in Dirs |-> InFlightDir(q, d)]]'
        = [q \in Threads |-> [d \in Dirs |-> InFlightDir(q, d)]]
  <2>1. \A q \in Threads, d \in Dirs : InFlightDir(q, d)' = InFlightDir(q, d)
    BY Zenon DEF Seen, Dirs
  <2> QED BY Zenon, <2>1
<1>3. {q \in Threads : kthread[q].signal}' = {q \in Threads : kthread[q].signal}
  BY Zenon DEF Seen
<1> QED BY Zenon, <1>1, <1>2, <1>3 DEF Bench!vars, Dirs

\* The other threads of a step that changes the life of one of them.
LEMMA LifeStep ==
  ASSUME NEW t \in Threads, NEW new, config' = config, BenchPhase' = BenchPhase,
         \A q \in Threads \ {t} : UNCHANGED Seen(q),
         UNCHANGED <<InFlightDir(t, "read"), InFlightDir(t, "write"),
                     kthread[t].signal>>,
         BenchLife(t)' = new
  PROVE  /\ [q \in Threads |-> BenchLife(q)]'
              = [[q \in Threads |-> BenchLife(q)] EXCEPT ![t] = new]
         /\ UNCHANGED <<config, BenchPhase,
              [q \in Threads |-> [d \in Dirs |-> InFlightDir(q, d)]],
              {q \in Threads : kthread[q].signal}>>
<1>1. \A q \in Threads : BenchLife(q)' = IF q = t THEN new ELSE BenchLife(q)
  BY Zenon DEF Seen
<1>2. \A q \in Threads, d \in Dirs : InFlightDir(q, d)' = InFlightDir(q, d)
  BY Zenon DEF Seen, Dirs
<1>3. \A q \in Threads : kthread'[q].signal = kthread[q].signal
  BY Zenon DEF Seen
<1>4. [q \in Threads |-> BenchLife(q)]'
        = [[q \in Threads |-> BenchLife(q)] EXCEPT ![t] = new]
  BY Zenon, <1>1
<1>5. UNCHANGED [q \in Threads |-> [d \in Dirs |-> InFlightDir(q, d)]]
  BY Zenon, <1>2
<1>6. UNCHANGED {q \in Threads : kthread[q].signal}
  BY Zenon, <1>3
<1> QED BY Zenon, <1>4, <1>5, <1>6

\* A thread that goes past its final wait, or exits without having begun,
\* leaves with nothing outstanding, because it has been drained.
LEMMA LeaveStep ==
  ASSUME TypeOK', DrainedAtExit', NEW t \in Threads,
         config' = config, BenchPhase' = BenchPhase,
         \A q \in Threads \ {t} : UNCHANGED Seen(q),
         UNCHANGED <<InFlightDir(t, "read"), InFlightDir(t, "write"),
                     kthread[t].signal>>,
         BenchLife(t) = "working", pc'[t] \in {"unhook", "return", "exited"}
  PROVE  Bench!Leave(t)
<1>1. BenchLife(t)' = "left"
  BY Zenon DEF BenchLife
<1>2. /\ [q \in Threads |-> BenchLife(q)]'
           = [[q \in Threads |-> BenchLife(q)] EXCEPT ![t] = "left"]
      /\ UNCHANGED <<config, BenchPhase,
           [q \in Threads |-> [d \in Dirs |-> InFlightDir(q, d)]],
           {q \in Threads : kthread[q].signal}>>
  BY Zenon, <1>1, LifeStep
<1>3. ~kthread[t].signal => \A d \in Dirs : InFlightDir(t, d) = 0
  <2> SUFFICES ASSUME ~kthread[t].signal
               PROVE  \A d \in Dirs : InFlightDir(t, d) = 0
    OBVIOUS
  <2>1. InFlight(t)' = 0
    BY Zenon DEF DrainedAtExit
  <2>2. InFlightDir(t, "read")' \in Nat /\ InFlightDir(t, "write")' \in Nat
    BY CountsStayNat DEF InFlightDir
  <2>3. InFlightDir(t, "read")' = 0 /\ InFlightDir(t, "write")' = 0
    BY <2>1, <2>2 DEF InFlight
  <2> QED BY Zenon, <2>3 DEF Dirs
<1>4. t \notin {q \in Threads : kthread[q].signal} =>
        \A d \in Dirs :
          [q \in Threads |-> [e \in Dirs |-> InFlightDir(q, e)]][t][d] = 0
  BY Zenon, <1>3
<1> QED BY Zenon, <1>2, <1>4 DEF Bench!Leave, Bench!Dirs, Dirs

\* Where the I/Os of one direction of one thread change.
LEMMA CountStep ==
  ASSUME NEW t \in Threads, NEW d \in Dirs, NEW new,
         config' = config, BenchPhase' = BenchPhase,
         \A q \in Threads \ {t} : UNCHANGED Seen(q),
         UNCHANGED <<BenchLife(t), kthread[t].signal>>,
         InFlightDir(t, d)' = new,
         \A e \in Dirs \ {d} : InFlightDir(t, e)' = InFlightDir(t, e)
  PROVE  /\ [q \in Threads |-> [e \in Dirs |-> InFlightDir(q, e)]]'
              = [[q \in Threads |-> [e \in Dirs |-> InFlightDir(q, e)]]
                   EXCEPT ![t][d] = new]
         /\ UNCHANGED <<config, BenchPhase, [q \in Threads |-> BenchLife(q)],
                        {q \in Threads : kthread[q].signal}>>
<1>1. \A q \in Threads : BenchLife(q)' = BenchLife(q)
  BY Zenon DEF Seen
<1>2. \A q \in Threads, e \in Dirs :
        InFlightDir(q, e)' = IF q = t /\ e = d THEN new ELSE InFlightDir(q, e)
  BY Zenon DEF Seen, Dirs
<1>3. \A q \in Threads : kthread'[q].signal = kthread[q].signal
  BY Zenon DEF Seen
<1>4. [q \in Threads |-> [e \in Dirs |-> InFlightDir(q, e)]]'
        = [[q \in Threads |-> [e \in Dirs |-> InFlightDir(q, e)]]
             EXCEPT ![t][d] = new]
  <2> DEFINE old == [q \in Threads |-> [e \in Dirs |-> InFlightDir(q, e)]]
             one == [old[t] EXCEPT ![d] = new]
  <2>1. one = [e \in Dirs |-> InFlightDir(t, e)']
    BY Zenon, <1>2
  <2>2. \A q \in Threads \ {t} :
          old[q] = [e \in Dirs |-> InFlightDir(q, e)']
    BY Zenon, <1>2
  <2>3. [old EXCEPT ![t] = one]
          = [q \in Threads |-> [e \in Dirs |-> InFlightDir(q, e)']]
    BY Zenon, <2>1, <2>2
  <2> QED BY Zenon, <2>3
<1>5. UNCHANGED [q \in Threads |-> BenchLife(q)]
  BY Zenon, <1>1
<1>6. UNCHANGED {q \in Threads : kthread[q].signal}
  BY Zenon, <1>3
<1> QED BY Zenon, <1>4, <1>5, <1>6

-----------------------------------------------------------------------------
\* A step of a thread, of its handlers or a signal to it is seen of it alone.
LEMMA OthersUnseen ==
  ASSUME TypeOK, NEW t \in Threads, ThreadStep(t) \/ Signal(t) \/ Completion(t)
  PROVE  /\ config' = config /\ BenchPhase' = BenchPhase
         /\ \A q \in Threads \ {t} : UNCHANGED Seen(q)
<1>1. config' = config
  BY Zenon DEF ThreadStep, Signal, Completion
<1>2. run' = run
  BY Zenon, ThreadsLeaveRunAlone
<1>3. \A q \in Threads \ {t} : UNCHANGED ThreadState(q)
  BY Zenon, OtherThreadsUnchanged
<1>4. \A q \in Threads \ {t} : UNCHANGED Seen(q)
  BY Zenon, <1>3 DEF ThreadState, Seen, BenchLife, InFlightDir
<1> QED BY Zenon, <1>1, <1>2, <1>4 DEF BenchPhase

\* kio_io_submit() finds room in the queue and no I/O of the other direction,
\* since there is no excess after it.
LEMMA SubmitStep ==
  ASSUME Promises, Promises', NEW t \in Threads, ThreadStep(t), T_Submit(t)
  PROVE  \E d \in Dirs : Bench!Issue(t, d)
<1>0. PICK d \in Dirs : d = DirOf(th[t].was_write)
  BY Zenon DEF DirOf, Dirs
<1>1. /\ TypeOK /\ TypeOK'
      /\ pc[t] = "submit" /\ pc'[t] = "after"
      /\ UNCHANGED <<kthread, timed>>
      /\ queued' = [queued EXCEPT ![t][d] = @ + 1]
  BY <1>0 DEF Promises, Accounting, TypeOK, T_Submit, Goto
<1>2. /\ config' = config /\ BenchPhase' = BenchPhase
      /\ \A q \in Threads \ {t} : UNCHANGED Seen(q)
  BY Zenon, <1>1, OthersUnseen
<1>3. \A e \in Dirs : InFlightDir(t, e) \in Nat /\ InFlightDir(t, e)' \in Nat
  BY <1>1, CountsAreNat, CountsStayNat DEF InFlightDir, Dirs
<1>4. /\ InFlightDir(t, d)' = InFlightDir(t, d) + 1
      /\ \A e \in Dirs \ {d} : InFlightDir(t, e)' = InFlightDir(t, e)
  <2>1. /\ queued'[t][d] = queued[t][d] + 1
        /\ \A e \in Dirs \ {d} : queued'[t][e] = queued[t][e]
        /\ queued[t][d] \in Nat /\ timed[t][d] \in Nat
    BY <1>1 DEF TypeOK
  <2> QED BY <1>1, <2>1 DEF InFlightDir
<1>5. BenchLife(t) = "working" /\ BenchLife(t)' = "working"
  BY Zenon, <1>1 DEF BenchLife
<1>6. /\ [q \in Threads |-> [e \in Dirs |-> InFlightDir(q, e)]]'
           = [[q \in Threads |-> [e \in Dirs |-> InFlightDir(q, e)]]
                EXCEPT ![t][d] = InFlightDir(t, d) + 1]
      /\ UNCHANGED <<config, BenchPhase, [q \in Threads |-> BenchLife(q)],
                     {q \in Threads : kthread[q].signal}>>
  BY <1>1, <1>2, <1>4, <1>5, CountStep
<1>7. config[t].queue_depth > 0 =>
        InFlightDir(t, "read") + InFlightDir(t, "write")
          < config[t].queue_depth + (IF kthread[t].signal THEN 1 ELSE 0)
  <2> SUFFICES ASSUME config[t].queue_depth > 0
               PROVE  InFlightDir(t, "read") + InFlightDir(t, "write")
                        < config[t].queue_depth
                            + (IF kthread[t].signal THEN 1 ELSE 0)
    OBVIOUS
  <2>1. InFlight(t)' <= config[t].queue_depth
                          + (IF kthread[t].signal THEN 1 ELSE 0)
    BY Zenon, <1>1, <1>2 DEF Promises, QueueDepthRespected, Count
  <2>2. config[t].queue_depth \in Nat
    BY <1>1, KioRunAssumption DEF TypeOK
  <2>3. InFlight(t)' = InFlightDir(t, "read") + InFlightDir(t, "write") + 1
    BY <1>1, <1>3, <1>4 DEF InFlight, Dirs
  <2> QED BY <1>3, <2>1, <2>2, <2>3 DEF Dirs
<1>8. config[t].burst_finish /\ ~kthread[t].signal =>
        \A e \in Dirs \ {d} : InFlightDir(t, e) = 0
  <2> SUFFICES ASSUME config[t].burst_finish, ~kthread[t].signal
               PROVE  \A e \in Dirs \ {d} : InFlightDir(t, e) = 0
    OBVIOUS
  <2>1. PICK e \in Dirs : InFlightDir(t, e)' = 0
    BY Zenon, <1>1, <1>2 DEF Promises, BurstFinishSeparates
  <2>2. e # d
    BY <1>1, <1>3, <1>4, <2>1
  <2> QED BY Zenon, <1>1, <1>4, <2>1, <2>2 DEF Dirs
<1>9. Bench!Issue(t, d)
  BY Zenon, <1>1, <1>5, <1>6, <1>7, <1>8
     DEF Bench!Issue, Bench!Total, Bench!Dirs, Dirs
<1> QED BY Zenon, <1>9

\* The handler's decrement of th->dispatched completes an I/O.
LEMMA UndispatchStep ==
  ASSUME Promises, Promises', NEW t \in Threads, Completion(t),
         NEW d \in Dirs, C_Undispatch(t, d)
  PROVE  Bench!Complete(t, d)
<1>1. /\ TypeOK /\ TypeOK' /\ timed[t][d] > 0
      /\ UNCHANGED <<kthread, pc, queued>>
      /\ timed' = [timed EXCEPT ![t][d] = @ - 1]
  BY Zenon DEF Promises, Accounting, C_Undispatch
<1>2. /\ config' = config /\ BenchPhase' = BenchPhase
      /\ \A q \in Threads \ {t} : UNCHANGED Seen(q)
  BY Zenon, <1>1, OthersUnseen
<1>3. /\ InFlightDir(t, d)' = InFlightDir(t, d) - 1
      /\ InFlightDir(t, d) > 0
      /\ \A e \in Dirs \ {d} : InFlightDir(t, e)' = InFlightDir(t, e)
  <2>1. /\ timed'[t][d] = timed[t][d] - 1
        /\ \A e \in Dirs \ {d} : timed'[t][e] = timed[t][e]
        /\ queued[t][d] \in Nat /\ timed[t][d] \in Nat
    BY <1>1 DEF TypeOK
  <2> QED BY <1>1, <2>1 DEF InFlightDir
<1>4. UNCHANGED <<BenchLife(t), kthread[t].signal>>
  BY Zenon, <1>1 DEF BenchLife
<1>5. /\ [q \in Threads |-> [e \in Dirs |-> InFlightDir(q, e)]]'
           = [[q \in Threads |-> [e \in Dirs |-> InFlightDir(q, e)]]
                EXCEPT ![t][d] = InFlightDir(t, d) - 1]
      /\ UNCHANGED <<config, BenchPhase, [q \in Threads |-> BenchLife(q)],
                     {q \in Threads : kthread[q].signal}>>
  <2>1. PICK new : new = InFlightDir(t, d) - 1
    OBVIOUS
  <2>2. InFlightDir(t, d)' = new
    BY Zenon, <1>3, <2>1
  <2>3. \A e \in Dirs \ {d} : InFlightDir(t, e)' = InFlightDir(t, e)
    BY Zenon, <1>3
  <2> QED BY <1>2, <1>4, <2>1, <2>2, <2>3, CountStep
<1> QED BY Zenon, <1>3, <1>5 DEF Bench!Complete, Bench!Dirs, Dirs

-----------------------------------------------------------------------------
\* What every step of a thread means: nothing, an I/O, or leaving.
LEMMA ThreadStepBench ==
  ASSUME Promises, Promises', NEW t \in Threads, ThreadStep(t)
  PROVE  [Bench!Next]_(Bench!vars)
<1>1. /\ TypeOK /\ TypeOK' /\ DrainedAtExit'
      /\ pc \in [Threads -> ThreadPC] /\ kthread \in [Threads -> KThread]
  BY Zenon DEF Promises, Accounting, TypeOK
<1>2. /\ config' = config /\ BenchPhase' = BenchPhase
      /\ \A q \in Threads \ {t} : UNCHANGED Seen(q)
  BY Zenon, <1>1, OthersUnseen
<1>3. CASE T_Submit(t)
  <2>1. PICK d \in Dirs : Bench!Issue(t, d)
    BY Zenon, <1>3, SubmitStep
  <2> QED BY Zenon, <2>1 DEF Bench!Next, Bench!Dirs, Dirs
<1>4. CASE ~T_Submit(t)
  <2>1. UNCHANGED <<InFlightDir(t, "read"), InFlightDir(t, "write")>>
    BY Zenon, <1>4 DEF ThreadStep, T_Start, T_Loop, T_QdTest, T_QdWait, T_Alloc,
       T_AllocFails, T_BurstWait, T_Dispatch, T_SubmitFails, T_After, T_Drain,
       T_Unhook, T_Return, bioVars, InFlightDir
  <2>2. kthread'[t].signal = kthread[t].signal
    <3>1. kthread' = kthread \/ kthread' = [kthread EXCEPT ![t].asleep = TRUE]
      BY Zenon, <1>4
      DEF ThreadStep, T_Start, T_Loop, T_QdTest, T_QdWait, T_Alloc,
         T_AllocFails, T_BurstWait, T_Dispatch, T_SubmitFails, T_After, T_Drain,
         T_Unhook, T_Return, WaitEvent
    <3> QED BY Zenon, <1>1, <3>1 DEF KThread
  <2>3. \/ BenchLife(t)' = BenchLife(t)
        \/ BenchLife(t) = "working" /\ pc'[t] \in {"unhook", "return", "exited"}
    <3>1. CASE T_Start(t)
      BY Zenon, <1>1, <3>1 DEF T_Start, Goto, BenchLife
    <3>2. CASE T_Loop(t) \/ T_QdTest(t) \/ T_QdWait(t)
      BY Zenon, <1>1, <3>2 DEF T_Loop, T_QdTest, T_QdWait, WaitEvent, Goto, BenchLife
    <3>3. CASE T_Alloc(t) \/ T_AllocFails(t) \/ T_BurstWait(t) \/ T_Dispatch(t)
      <4>1. pc[t] \in {"alloc", "burstwait", "dispatch"}
        BY Zenon, <3>3 DEF T_Alloc, T_AllocFails, T_BurstWait, T_Dispatch
      <4>2. pc'[t] \in {"burstwait", "dispatch", "drain", "submit"}
        BY Zenon, <1>1, <3>3 DEF T_Alloc, T_AllocFails, T_BurstWait, T_Dispatch,
           WaitEvent, Goto, GiveUp
      <4> QED BY Zenon, <4>1, <4>2 DEF BenchLife
    <3>4. CASE T_SubmitFails(t) \/ T_After(t) \/ T_Drain(t)
      BY Zenon, <1>1, <3>4 DEF T_SubmitFails, T_After, T_Drain, WaitEvent, Goto,
         GiveUp, BenchLife
    <3>5. CASE T_Unhook(t) \/ T_Return(t)
      BY Zenon, <1>1, <3>5 DEF T_Unhook, T_Return, Goto, BenchLife
    <3> QED BY Zenon, <1>4, <3>1, <3>2, <3>3, <3>4, <3>5 DEF ThreadStep
  <2>4. CASE BenchLife(t)' = BenchLife(t)
    <3>1. \A q \in Threads : UNCHANGED Seen(q)
      BY Zenon, <1>2, <2>1, <2>2, <2>4 DEF Seen
    <3> QED BY Zenon, <1>2, <3>1, UnseenStep
  <2>5. CASE /\ BenchLife(t) = "working"
             /\ pc'[t] \in {"unhook", "return", "exited"}
    <3>1. Bench!Leave(t)
      BY Zenon, <1>1, <1>2, <2>1, <2>2, <2>5, LeaveStep
    <3> QED BY Zenon, <3>1 DEF Bench!Next
  <2> QED BY Zenon, <2>3, <2>4, <2>5
<1> QED BY Zenon, <1>3, <1>4

\* A handler completes an I/O or is not seen.
LEMMA CompletionBench ==
  ASSUME Promises, Promises', NEW t \in Threads, Completion(t)
  PROVE  [Bench!Next]_(Bench!vars)
<1>1. /\ TypeOK /\ kthread \in [Threads -> KThread]
      /\ queued \in [Threads -> [Dirs -> Nat]] /\ timed \in [Threads -> [Dirs -> Nat]]
  BY Zenon DEF Promises, Accounting, TypeOK
<1>2. /\ config' = config /\ BenchPhase' = BenchPhase
      /\ \A q \in Threads \ {t} : UNCHANGED Seen(q)
  BY Zenon, <1>1, OthersUnseen
<1>3. ASSUME NEW d \in Dirs, C_Undispatch(t, d) PROVE [Bench!Next]_(Bench!vars)
  <2>1. Bench!Complete(t, d)
    BY Zenon, <1>3, UndispatchStep
  <2> QED BY Zenon, <2>1 DEF Bench!Next, Bench!Dirs, Dirs
<1>4. ASSUME NEW d \in Dirs, C_Account(t, d) PROVE [Bench!Next]_(Bench!vars)
  <2>1. /\ queued'[t][d] = queued[t][d] - 1 /\ timed'[t][d] = timed[t][d] + 1
        /\ \A e \in Dirs \ {d} : /\ queued'[t][e] = queued[t][e]
                                  /\ timed'[t][e] = timed[t][e]
        /\ queued[t][d] \in Nat /\ timed[t][d] \in Nat
        /\ UNCHANGED <<kthread, pc>>
    BY Zenon, <1>1, <1>4 DEF C_Account
  <2>2. \A e \in Dirs : InFlightDir(t, e)' = InFlightDir(t, e)
    BY <2>1 DEF InFlightDir
  <2>3. \A q \in Threads : UNCHANGED Seen(q)
    BY Zenon, <1>2, <2>1, <2>2 DEF Seen, BenchLife, Dirs
  <2> QED BY Zenon, <1>2, <2>3, UnseenStep
<1>5. CASE C_Count(t) \/ C_ReadWqh(t) \/ C_Wake(t) \/ C_Release(t)
  <2>1. /\ UNCHANGED <<pc, queued, timed>>
        /\ kthread' = kthread \/ kthread' = [kthread EXCEPT ![t].asleep = FALSE]
    BY Zenon, <1>5 DEF C_Count, C_ReadWqh, C_Wake, C_Release, thVars
  <2>2. kthread'[t].signal = kthread[t].signal
    BY <1>1, <2>1 DEF KThread
  <2>3. \A q \in Threads : UNCHANGED Seen(q)
    BY Zenon, <1>2, <2>1, <2>2 DEF Seen, BenchLife, InFlightDir
  <2> QED BY Zenon, <1>2, <2>3, UnseenStep
<1> QED BY Zenon, <1>3, <1>4, <1>5 DEF Completion

\* A signal to a thread is an interruption.
LEMMA SignalBench ==
  ASSUME Promises, NEW t \in Threads, Signal(t)
  PROVE  Bench!Interrupt(t)
<1>1. TypeOK /\ kthread \in [Threads -> KThread] /\ pc[t] # "none"
  BY Zenon DEF Promises, Accounting, TypeOK, Signal
<1>2. /\ config' = config /\ BenchPhase' = BenchPhase
      /\ UNCHANGED <<pc, queued, timed>>
      /\ \A q \in Threads \ {t} : UNCHANGED Seen(q)
  BY Zenon, <1>1, OthersUnseen DEF Signal, bioVars
<1>3. \A q \in Threads : kthread'[q].signal <=> (q = t \/ kthread[q].signal)
  <2>1. kthread'[t].signal = TRUE
    BY Zenon, <1>1 DEF Signal, KThread
  <2> QED BY Zenon, <1>2, <2>1 DEF Seen
<1>4. {q \in Threads : kthread[q].signal}'
        = {q \in Threads : kthread[q].signal} \cup {t}
  BY Zenon, <1>3
<1>5. UNCHANGED <<[q \in Threads |-> BenchLife(q)],
                  [q \in Threads |-> [d \in Dirs |-> InFlightDir(q, d)]]>>
  BY Zenon, <1>2 DEF BenchLife, InFlightDir
<1>6. [q \in Threads |-> BenchLife(q)][t] # "none"
  BY Zenon, <1>1 DEF BenchLife
<1> QED BY Zenon, <1>2, <1>4, <1>5, <1>6 DEF Bench!Interrupt

-----------------------------------------------------------------------------
\* A step of kio_run() that creates no thread changes only the phase.
LEMMA PhaseStep ==
  ASSUME Promises, RunStep, ~Run_Create
  PROVE  UNCHANGED <<config, [q \in Threads |-> BenchLife(q)],
                     [q \in Threads |-> [d \in Dirs |-> InFlightDir(q, d)]],
                     {q \in Threads : kthread[q].signal}>>
<1>1. UNCHANGED pc
  BY DEF RunStep, Run_Reject, Run_Begin, Run_Alloc, Run_AllocFails,
     Run_CreateFails, Run_WaitEnds, Run_Stop, Run_StopOops, Run_Join,
     Run_Clear, Run_Stats, Run_Free, thVars
<1>2. \A q \in Threads : /\ UNCHANGED <<config, queued, timed>>
                         /\ kthread'[q].signal = kthread[q].signal
  BY Zenon, RunEffectOnThread DEF Promises
<1>3. config' = config
  BY Zenon DEF RunStep
<1>4. [q \in Threads |-> BenchLife(q)]' = [q \in Threads |-> BenchLife(q)]
  BY Zenon, <1>1 DEF BenchLife
<1>5. \A q \in Threads, d \in Dirs : InFlightDir(q, d)' = InFlightDir(q, d)
  BY Zenon, <1>2 DEF InFlightDir
<1>6. {q \in Threads : kthread[q].signal}' = {q \in Threads : kthread[q].signal}
  BY Zenon, <1>2
<1> QED BY Zenon, <1>3, <1>4, <1>5, <1>6

\* Once the run is over, all its threads were joined or never created.
LEMMA NobodyWorks ==
  ASSUME Accounting', UNCHANGED [q \in Threads |-> BenchLife(q)],
         run'.pc \in {"stats", "free", "returned"}
  PROVE  \A q \in Threads : [p \in Threads |-> BenchLife(p)][q] # "working"
<1> SUFFICES ASSUME NEW q \in Threads
             PROVE  [p \in Threads |-> BenchLife(p)][q] # "working"
  OBVIOUS
<1>1. pc'[q] \in {"none", "exited"}
  BY Zenon DEF Accounting, RunInv, RunPhase
<1>2. BenchLife(q)' # "working"
  BY Zenon, <1>1 DEF BenchLife
<1>3. [p \in Threads |-> BenchLife(p)]'[q] = [p \in Threads |-> BenchLife(p)][q]
  OBVIOUS
<1> QED BY Zenon, <1>2, <1>3

\* What every step of kio_run() means.
LEMMA RunStepBench ==
  ASSUME Promises, Promises', RunStep
  PROVE  [Bench!Next]_(Bench!vars)
<1>1. /\ Accounting /\ Accounting' /\ TypeOK /\ RunInv
      /\ run \in RunFrame /\ run.i \in Threads
      /\ pc \in [Threads -> ThreadPC] /\ config' = config
  BY Zenon DEF Promises, Accounting, TypeOK, RunFrame, RunStep
<1>2. CASE Run_Create
  <2>1. /\ \A q \in Threads : /\ UNCHANGED <<config, queued, timed>>
                             /\ kthread'[q].signal = kthread[q].signal
    BY Zenon, <1>1, RunEffectOnThread
  <2>2. PICK t \in Threads : t = run.i
    BY Zenon, <1>1
  <2>3. pc[t] = "none" /\ run.pc = "create" /\ pc' = [pc EXCEPT ![t] = "start"]
    <3>1. t \in Nat BY KioRunAssumption DEF Threads
    <3> QED BY <1>1, <1>2, <2>2, <3>1 DEF Run_Create, RunInv, RunPhase, Tasks,
               Created
  <2>4. BenchPhase = "running" /\ BenchPhase' = "running"
    <3>1. run'.pc \in {"create", "wait"}
      BY Zenon, <1>1, <1>2 DEF Run_Create, RunLoop, RunFrame
    <3> QED BY Zenon, <2>3, <3>1 DEF BenchPhase
  <2>5. BenchLife(t) = "none" /\ BenchLife(t)' = "working"
    BY Zenon, <1>1, <2>3 DEF BenchLife
  <2>6. \A q \in Threads, d \in Dirs : InFlightDir(q, d)' = InFlightDir(q, d)
    BY Zenon, <2>1 DEF InFlightDir
  <2>7. \A q \in Threads \ {t} : BenchLife(q)' = BenchLife(q)
    BY Zenon, <1>1, <2>3 DEF BenchLife
  <2>8. \A q \in Threads \ {t} : UNCHANGED Seen(q)
    BY Zenon, <2>1, <2>6, <2>7 DEF Seen, Dirs
  <2>9. UNCHANGED <<InFlightDir(t, "read"), InFlightDir(t, "write"),
                    kthread[t].signal>>
    BY Zenon, <2>1, <2>6 DEF Dirs
  <2>10. /\ [q \in Threads |-> BenchLife(q)]'
              = [[q \in Threads |-> BenchLife(q)] EXCEPT ![t] = "working"]
         /\ UNCHANGED <<config, BenchPhase,
              [q \in Threads |-> [d \in Dirs |-> InFlightDir(q, d)]],
              {q \in Threads : kthread[q].signal}>>
    BY Zenon, <1>1, <2>4, <2>5, <2>8, <2>9, LifeStep
  <2>11. [q \in Threads |-> BenchLife(q)][t] = "none"
    BY Zenon, <2>5
  <2>12. Bench!Start(t)
    BY Zenon, <2>4, <2>10, <2>11 DEF Bench!Start
  <2> QED BY Zenon, <2>12 DEF Bench!Next
<1>3. CASE ~Run_Create
  <2>1. UNCHANGED <<config, [q \in Threads |-> BenchLife(q)],
                    [q \in Threads |-> [d \in Dirs |-> InFlightDir(q, d)]],
                    {q \in Threads : kthread[q].signal}>>
    BY Zenon, <1>3, PhaseStep
  <2>2. CASE Run_Reject \/ Run_Begin
    <3>1. run.pc = "idle" /\ run'.pc \in {"alloc", "returned"}
      <4>1. CASE Run_Reject
        BY <1>1, <4>1 DEF Run_Reject, RunReturn, RunFrame
      <4>2. CASE Run_Begin
        BY <1>1, <4>2 DEF Run_Begin, RunGoto, RunFrame
      <4> QED BY Zenon, <2>2, <4>1, <4>2
    <3>2. BenchPhase = "idle" /\ BenchPhase' \in {"running", "over"}
      BY Zenon, <3>1 DEF BenchPhase
    <3>3. Bench!Begin
      BY Zenon, <2>1, <3>2 DEF Bench!Begin
    <3> QED BY Zenon, <3>3 DEF Bench!Next
  <2>3. CASE \/ Run_AllocFails \/ Run_Clear
             \/ Run_CreateFails /\ run.i = 0
    <3>1. /\ run.pc \in {"alloc", "create", "clear"}
          /\ run'.pc \in {"stats", "free", "returned"}
      BY Zenon, <1>1, <2>3
      DEF Run_AllocFails, Run_Clear, Run_CreateFails, RunGoto,
         RunReturn, RunFrame
    <3>2. BenchPhase = "running" /\ BenchPhase' = "over"
      BY Zenon, <3>1 DEF BenchPhase
    <3>3. \A q \in Threads : [p \in Threads |-> BenchLife(p)][q] # "working"
      BY Zenon, <1>1, <2>1, <3>1, NobodyWorks
    <3>4. Bench!End
      BY Zenon, <2>1, <3>2, <3>3 DEF Bench!End
    <3> QED BY Zenon, <3>4 DEF Bench!Next
  <2>4. CASE Run_StopOops
    <3>1. BenchPhase = "running" /\ BenchPhase' = "crashed"
      BY Zenon, <1>1, <2>4 DEF Run_StopOops, RunGoto, RunFrame, BenchPhase
    <3>2. Bench!Crash
      BY Zenon, <2>1, <3>1 DEF Bench!Crash
    <3> QED BY Zenon, <3>2 DEF Bench!Next
  <2>5. CASE \/ Run_Alloc \/ Run_WaitEnds \/ Run_Stop \/ Run_Join
             \/ Run_CreateFails /\ run.i # 0
    <3>1. /\ run.pc \in {"alloc", "create", "wait", "stop", "join"}
          /\ run'.pc \in {"create", "stop", "join", "clear"}
      BY Zenon, <1>1, <2>5 DEF Run_Alloc, Run_WaitEnds, Run_Stop, Run_Join,
         Run_CreateFails, RunGoto, RunLoop, RunFrame
    <3>2. BenchPhase' = BenchPhase
      BY Zenon, <3>1 DEF BenchPhase
    <3> QED BY Zenon, <2>1, <3>2 DEF Bench!vars
  <2>6. CASE Run_Stats \/ Run_Free
    <3>1. /\ run.pc \in {"stats", "free"}
          /\ run'.pc \in {"stats", "free", "returned"}
      BY Zenon, <1>1, <2>6 DEF Run_Stats, Run_Free, RunGoto, RunLoop, RunFrame
    <3>2. BenchPhase' = BenchPhase
      BY Zenon, <3>1 DEF BenchPhase
    <3> QED BY Zenon, <2>1, <3>2 DEF Bench!vars
  <2> QED BY Zenon, <1>3, <2>2, <2>3, <2>4, <2>5, <2>6 DEF RunStep
<1> QED BY Zenon, <1>2, <1>3

-----------------------------------------------------------------------------
\* KioRun implements KioBench: seen from outside, kio_run() and its threads
\* never exceed a queue depth, mix the directions of bursts that must finish,
\* let a thread leave with an I/O outstanding, or end with a thread at work.
THEOREM RunImplementsBench == Spec => ImplementsBench
<1>1. Init => Bench!Init
  <2> SUFFICES ASSUME Init PROVE Bench!Init
    OBVIOUS
  <2>1. BenchPhase = "idle"
    BY Zenon DEF Init, BenchPhase
  <2>2. \A t \in Threads : BenchLife(t) = "none" /\ ~kthread[t].signal
    BY Zenon DEF Init, BenchLife
  <2>3. \A t \in Threads, d \in Dirs : InFlightDir(t, d) = 0
    BY DEF Init, InFlightDir
  <2>4. config \in [Threads -> ThreadConfigs]
    BY Zenon DEF Init
  <2>5. {t \in Threads : kthread[t].signal} = {}
    BY Zenon, <2>2
  <2>6. [t \in Threads |-> BenchLife(t)] = [t \in Threads |-> "none"]
    BY Zenon, <2>2
  <2>7. [t \in Threads |-> [d \in Dirs |-> InFlightDir(t, d)]]
          = [t \in Threads |-> [d \in Dirs |-> 0]]
    BY Zenon, <2>3
  <2> QED
    BY Zenon, <2>1, <2>4, <2>5, <2>6, <2>7 DEF Bench!Init, Bench!Dirs, Dirs
<1>2. Promises /\ Promises' /\ [Next]_vars => [Bench!Next]_(Bench!vars)
  <2> SUFFICES ASSUME Promises, Promises', [Next]_vars
               PROVE  [Bench!Next]_(Bench!vars)
    OBVIOUS
  <2>1. CASE RunStep
    BY Zenon, <2>1, RunStepBench
  <2>2. ASSUME NEW t \in Threads, ThreadStep(t) PROVE [Bench!Next]_(Bench!vars)
    BY Zenon, <2>2, ThreadStepBench
  <2>3. ASSUME NEW t \in Threads, Signal(t) PROVE [Bench!Next]_(Bench!vars)
    <3>1. Bench!Interrupt(t)
      BY Zenon, <2>3, SignalBench
    <3> QED BY Zenon, <3>1 DEF Bench!Next
  <2>4. ASSUME NEW t \in Threads, Completion(t) PROVE [Bench!Next]_(Bench!vars)
    BY Zenon, <2>4, CompletionBench
  <2>5. CASE UNCHANGED vars
    <3>1. UNCHANGED <<config, run, pc, kthread, queued, timed>>
      BY Zenon, <2>5 DEF vars, runVars, thVars, bioVars
    <3>2. BenchPhase' = BenchPhase /\ \A q \in Threads : UNCHANGED Seen(q)
      BY Zenon, <3>1 DEF BenchPhase, Seen, BenchLife, InFlightDir
    <3> QED BY Zenon, <3>1, <3>2, UnseenStep
  <2> QED BY Zenon, <2>1, <2>2, <2>3, <2>4, <2>5 DEF Next, Over
<1>3. Accounting /\ QueueDepthRespected /\ BurstFinishSeparates /\ DrainedAtExit
        => Promises
  BY Zenon DEF Promises
<1>4. Spec => []Promises
  BY <1>3, AccountingInvariant, DepthRespected, BurstsSeparate, Drained, PTL
<1>5. Spec => Bench!Spec
  BY <1>1, <1>2, <1>4, PTL DEF Spec, Bench!Spec
<1> QED BY Zenon, <1>5 DEF ImplementsBench
=============================================================================
