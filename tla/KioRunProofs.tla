---------------------------- MODULE KioRunProofs ----------------------------
(***************************************************************************)
(* The inductive invariant of KioRun, for any number of threads, any       *)
(* configuration and any set of faults: every step keeps the types, the    *)
(* books of the threads and the phases of kio_run() as long as it holds.   *)
(***************************************************************************)
EXTENDS KioRun, TLAPS

Leaving == {"drain", "unhook", "return", "exited"}

(***************************************************************************)
(* The books of one thread: the counters, the pages and the latencies add  *)
(* up, and a result other than 0 is set only by leaving the loop.          *)
(***************************************************************************)
Accounted(t) ==
  /\ pc[t] \notin Leaving => result[t] = "ok"
  /\ th[t].dispatched = InFlight(t) + Count(pc[t] = "submit")
                                    + Count(result[t] = "ESUBMIT")
  /\ pages[t] = Count(pc[t] \in {"burstwait", "dispatch", "submit"})
                  + InFlight(t) + Late(t) + Count(result[t] = "ESUBMIT")
  /\ th[t].clat_total + queued[t]["write"] + queued[t]["read"] = submitted[t]

(***************************************************************************)
(* Where kio_run() is tells which threads have been created, asked to stop *)
(* and joined, and what kio_running and the array are.                     *)
(***************************************************************************)
Created(t) == kthread[t].task = "ok"

\* kthread_run() failed for thread e, which is still to be stopped.
FirstFailure(e) ==
  /\ e >= run.i
  /\ kthread[e].task = "err"
  /\ \A t \in Threads : t < e => Created(t)

RunPhase ==
  /\ run.pc \in {"idle", "alloc"} =>
       /\ run.i = 0
       /\ run.result = "ok"
       /\ \A t \in Threads : kthread[t].task = "null"
  /\ run.pc = "create" =>
       /\ run.result = "ok"
       /\ \A t \in Threads :
            kthread[t].task = IF t < run.i THEN "ok" ELSE "null"
  /\ run.pc = "wait" =>
       run.i = 0 /\ run.result = "ok" /\ \A t \in Threads : Created(t)
  /\ run.pc \in {"stop", "join"} =>
       /\ \A t \in Threads : t < run.i => pc[t] = "exited"
       /\ \/ run.result = "EAGAIN" /\ \E e \in Threads : FirstFailure(e)
          \/ /\ run.result \in {"ok", "EINTR"}
             /\ \A t \in Threads : Created(t)
  /\ run.pc = "join" => Created(run.i)
  /\ run.pc \in {"clear", "stats", "free"} =>
       /\ run.result \in {"ok", "EINTR"}
       /\ \A t \in Threads : pc[t] = "exited"
  /\ run.pc = "returned" => \A t \in Threads : pc[t] \in {"none", "exited"}
  /\ run.pc = "oops" => \/ kthread[run.i].task = "err"
                        \/ pc[run.i] = "exited" /\ ~kthread[run.i].should_stop

StopRequests ==
  /\ run.pc \in {"idle", "alloc", "create", "wait"} =>
       \A t \in Threads : ~kthread[t].should_stop
  /\ run.pc = "stop" =>
       \A t \in Threads : t >= run.i => ~kthread[t].should_stop
  /\ run.pc = "join" =>
       \A t \in Threads : t > run.i => ~kthread[t].should_stop

RunFlags ==
  /\ run.pc \in {"alloc", "create", "wait", "stop", "join", "clear", "oops"} =>
       kio_running
  /\ run.pc \in {"idle", "stats", "free"} => ~kio_running
  /\ run.pc = "returned" =>
       (kio_running <=> run.result \in {"ENOMEM", "EAGAIN"})
  /\ run.pc \in {"create", "wait", "stop", "join", "clear", "stats", "free",
                 "oops"} => ths = "live"

Tasks ==
  \A t \in Threads : /\ Created(t) <=> pc[t] # "none"
                     /\ kthread[t].task = "err" => run.result = "EAGAIN"

RunInv == RunPhase /\ StopRequests /\ RunFlags /\ Tasks

Accounting == TypeOK /\ RunInv /\ \A t \in Threads : Accounted(t)

\* All that a property of thread t alone depends on.
ThreadState(t) ==
  <<config[t], th[t], kthread[t], pc[t], result[t], queued[t], timed[t],
    late[t], pages[t], submitted[t]>>

-----------------------------------------------------------------------------
(***************************************************************************)
(* Typing                                                                  *)
(***************************************************************************)

\* The loops of kio_run() over i stay in range.
LEMMA RunLoopType ==
  ASSUME run \in RunFrame, NEW again \in RunPC, NEW done \in RunPC,
         RunLoop(again, done)
  PROVE  run' \in RunFrame
<1>1. 0 \in Threads BY KioRunAssumption DEF Threads
<1>2. run.i + 1 < NumThreads => run.i + 1 \in Threads
  BY KioRunAssumption DEF RunFrame, Threads
<1>3. ASSUME NEW r \in RunFrame, NEW l \in RunPC, NEW j \in Threads
      PROVE  [r EXCEPT !.pc = l, !.i = j] \in RunFrame
  BY Zenon DEF RunFrame
<1> QED BY Zenon, <1>1, <1>2, <1>3 DEF RunLoop

\* A handler that moves from one stage to the next.
LEMMA MoveLateEffect ==
  ASSUME TypeOK, NEW t \in Threads, NEW a \in LateStage, NEW b \in LateStage,
         a # b, MoveLate(t, a, b)
  PROVE  /\ late' \in [Threads -> [LateStage -> Nat]]
         /\ late'[t][a] = late[t][a] - 1
         /\ late'[t][b] = late[t][b] + 1
         /\ \A s \in LateStage \ {a, b} : late'[t][s] = late[t][s]
         /\ \A q \in Threads \ {t} : late'[q] = late[q]
<1>1. late \in [Threads -> [LateStage -> Nat]] BY Zenon DEF TypeOK
<1>2. /\ late' = [late EXCEPT ![t][a] = @ - 1, ![t][b] = @ + 1]
      /\ late[t][a] > 0
  BY Zenon DEF MoveLate
<1> QED BY <1>1, <1>2

\* What the books of a thread add up are natural numbers.
LEMMA CountsAreNat ==
  ASSUME TypeOK, NEW t \in Threads
  PROVE  /\ queued[t]["write"] \in Nat /\ queued[t]["read"] \in Nat
         /\ timed[t]["write"] \in Nat /\ timed[t]["read"] \in Nat
         /\ late[t]["undispatched"] \in Nat /\ late[t]["counted"] \in Nat
         /\ late[t]["waking"] \in Nat /\ late[t]["releasing"] \in Nat
         /\ InFlight(t) \in Nat /\ Late(t) \in Nat
         /\ pages[t] \in Nat /\ submitted[t] \in Nat
         /\ th[t].dispatched \in Nat /\ th[t].completed \in Nat
         /\ th[t].clat_total \in Nat
<1>1. /\ queued[t]["write"] \in Nat /\ queued[t]["read"] \in Nat
      /\ timed[t]["write"] \in Nat /\ timed[t]["read"] \in Nat
      /\ late[t]["undispatched"] \in Nat /\ late[t]["counted"] \in Nat
      /\ late[t]["waking"] \in Nat /\ late[t]["releasing"] \in Nat
  <2>1. /\ queued[t] \in [Dirs -> Nat] /\ timed[t] \in [Dirs -> Nat]
        /\ late[t] \in [LateStage -> Nat]
    BY Zenon DEF TypeOK
  <2> QED BY Zenon, <2>1 DEF Dirs, LateStage
<1>2. InFlight(t) \in Nat BY <1>1 DEF InFlight, InFlightDir
<1>3. Late(t) \in Nat BY <1>1 DEF Late
<1>4. /\ pages[t] \in Nat /\ submitted[t] \in Nat
      /\ th[t].dispatched \in Nat /\ th[t].completed \in Nat
      /\ th[t].clat_total \in Nat
  BY Zenon DEF TypeOK, KioThread
<1> QED BY Zenon, <1>1, <1>2, <1>3, <1>4

\* The steps of kio_run() keep the types.
LEMMA RunStepType ==
  ASSUME TypeOK, RunStep PROVE TypeOK'
<1>1. /\ run \in RunFrame /\ run.i \in Threads
      /\ kthread \in [Threads -> KThread]
      /\ pc \in [Threads -> ThreadPC]
      /\ config' = config
  BY Zenon DEF TypeOK, RunFrame, RunStep
<1>2. ASSUME NEW l \in RunPC PROVE [run EXCEPT !.pc = l] \in RunFrame
  BY Zenon, <1>1 DEF RunFrame
<1>3. ASSUME NEW l \in RunPC,
             NEW r \in {"ok", "ERANGE", "ENOMEM", "EAGAIN", "EINTR"}
      PROVE [run EXCEPT !.pc = l, !.result = r] \in RunFrame
  BY Zenon, <1>1 DEF RunFrame
<1> USE DEF thVars, bioVars
<1>4. CASE Run_Reject
  <2>1. run' \in RunFrame BY <1>4, <1>3 DEF Run_Reject, RunReturn, RunPC
  <2> QED BY <1>4, <1>1, <2>1 DEF TypeOK, Run_Reject
<1>5. CASE Run_Begin
  <2>1. run' \in RunFrame BY <1>5, <1>2 DEF Run_Begin, RunGoto, RunPC
  <2> QED BY Zenon, <1>5, <1>1, <2>1 DEF TypeOK, Run_Begin
<1>6. CASE Run_Alloc
  <2>1. run' \in RunFrame BY Zenon, <1>6, <1>2 DEF Run_Alloc, RunGoto, RunPC
  <2> QED BY Zenon, <1>6, <1>1, <2>1 DEF TypeOK, Run_Alloc
<1>7. CASE Run_AllocFails
  <2>1. run' \in RunFrame
    BY Zenon, <1>7, <1>3 DEF Run_AllocFails, RunReturn, RunPC
  <2> QED BY Zenon, <1>7, <1>1, <2>1 DEF TypeOK, Run_AllocFails
<1>8. CASE Run_Create
  <2>1. run' \in RunFrame
    BY Zenon, <1>8, <1>1, RunLoopType DEF Run_Create, RunPC
  <2>2. kthread' \in [Threads -> KThread]
    BY <1>8, <1>1 DEF Run_Create, KThread
  <2>3. pc' \in [Threads -> ThreadPC]
    BY Zenon, <1>8, <1>1 DEF Run_Create, ThreadPC
  <2> QED BY Zenon, <1>8, <1>1, <2>1, <2>2, <2>3 DEF TypeOK, Run_Create
<1>9. CASE Run_CreateFails
  <2>1. 0 \in Threads BY KioRunAssumption DEF Threads
  <2>2. [run EXCEPT !.pc = "stop", !.i = 0, !.result = "EAGAIN"] \in RunFrame
    BY Zenon, <1>1, <2>1 DEF RunFrame, RunPC
  <2>3. run' \in RunFrame
    BY Zenon, <1>9, <2>2, <1>3 DEF Run_CreateFails, RunReturn, RunPC
  <2>4. kthread' \in [Threads -> KThread]
    BY <1>9, <1>1 DEF Run_CreateFails, KThread
  <2>5. ths' \in {"none", "live", "freed"}
    BY Zenon, <1>9 DEF Run_CreateFails, TypeOK
  <2> QED BY Zenon, <1>9, <1>1, <2>3, <2>4, <2>5 DEF TypeOK, Run_CreateFails
<1>10. CASE Run_WaitEnds
  <2>1. run' \in RunFrame BY Zenon, <1>10, <1>3 DEF Run_WaitEnds, RunPC
  <2> QED BY Zenon, <1>10, <1>1, <2>1 DEF TypeOK, Run_WaitEnds
<1>11. CASE Run_Stop
  <2>1. kthread' \in [Threads -> KThread] /\ run' \in RunFrame
    <3>1. CASE kthread[run.i].task = "null"
      BY Zenon, <1>11, <3>1, <1>1, RunLoopType DEF Run_Stop, RunPC
    <3>2. CASE kthread[run.i].task # "null"
      <4>1. run' \in RunFrame
        BY Zenon, <1>11, <3>2, <1>2 DEF Run_Stop, RunGoto, RunPC
      <4>2. kthread' = [kthread EXCEPT ![run.i].should_stop = TRUE,
                                       ![run.i].asleep = FALSE]
        BY Zenon, <1>11, <3>2 DEF Run_Stop
      <4>3. kthread' \in [Threads -> KThread]
        <5>1. ASSUME NEW k \in KThread
              PROVE  [k EXCEPT !.should_stop = TRUE, !.asleep = FALSE] \in KThread
          BY Zenon DEF KThread
        <5>2. kthread' = [kthread EXCEPT ![run.i] =
                            [kthread[run.i] EXCEPT !.should_stop = TRUE,
                                                   !.asleep = FALSE]]
          BY Zenon, <4>2, <1>1 DEF KThread
        <5> QED BY Zenon, <5>1, <5>2, <1>1
      <4> QED BY Zenon, <4>1, <4>3
    <3> QED BY Zenon, <3>1, <3>2
  <2> QED BY Zenon, <1>11, <1>1, <2>1 DEF TypeOK, Run_Stop
<1>12. CASE Run_StopOops
  <2>1. run' \in RunFrame BY Zenon, <1>12, <1>2 DEF Run_StopOops, RunGoto, RunPC
  <2> QED BY Zenon, <1>12, <1>1, <2>1 DEF TypeOK, Run_StopOops
<1>13. CASE Run_Join
  <2>1. run' \in RunFrame
    BY Zenon, <1>13, <1>1, RunLoopType DEF Run_Join, RunPC
  <2> QED BY Zenon, <1>13, <1>1, <2>1 DEF TypeOK, Run_Join
<1>14. CASE Run_Clear
  <2>1. run' \in RunFrame BY Zenon, <1>14, <1>2 DEF Run_Clear, RunGoto, RunPC
  <2> QED BY Zenon, <1>14, <1>1, <2>1 DEF TypeOK, Run_Clear
<1>15. CASE Run_Stats
  <2>1. run' \in RunFrame
    BY Zenon, <1>15, <1>1, RunLoopType DEF Run_Stats, RunPC
  <2>2. th[run.i] \in KioThread /\ st \in KioRunStats
    BY Zenon, <1>1 DEF TypeOK
  <2>3. st' \in KioRunStats
    BY <1>15, <2>2 DEF Run_Stats, KioRunStats, KioThread
  <2> QED BY Zenon, <1>15, <1>1, <2>1, <2>3 DEF TypeOK, Run_Stats
<1>16. CASE Run_Free
  <2>1. run' \in RunFrame BY Zenon, <1>16, <1>2 DEF Run_Free, RunGoto, RunPC
  <2> QED BY Zenon, <1>16, <1>1, <2>1 DEF TypeOK, Run_Free
<1> QED
  BY Zenon, <1>4, <1>5, <1>6, <1>7, <1>8, <1>9, <1>10, <1>11, <1>12, <1>13,
           <1>14, <1>15, <1>16 DEF RunStep

\* Whatever is drawn, the burst counters stay natural numbers.
LEMMA NextDirType ==
  ASSUME TypeOK, NEW t \in Threads, NEW drawsRead \in BOOLEAN
  PROVE  LET dir == kio_thread_next_dir(config[t], th[t], drawsRead)
         IN  /\ dir.is_write \in BOOLEAN /\ dir.new_burst \in BOOLEAN
             /\ dir.read_burst \in Nat /\ dir.write_burst \in Nat
<1>1. config[t].read_burst \in Nat /\ config[t].write_burst \in Nat
  BY KioRunAssumption DEF TypeOK
<1>2. th[t].read_burst \in Nat /\ th[t].write_burst \in Nat
  BY Zenon DEF TypeOK, KioThread
<1> QED BY <1>1, <1>2 DEF kio_thread_next_dir, BurstLeft

\* A wait moves the thread on or puts it to sleep.
LEMMA WaitEventType ==
  ASSUME TypeOK, NEW t \in Threads, NEW cond, NEW label \in ThreadPC,
         WaitEvent(t, cond, label)
  PROVE  pc' \in [Threads -> ThreadPC] /\ kthread' \in [Threads -> KThread]
<1>1. pc \in [Threads -> ThreadPC] /\ kthread \in [Threads -> KThread]
  BY Zenon DEF TypeOK
<1>2. CASE cond \/ kthread[t].signal
  BY Zenon, <1>1, <1>2 DEF WaitEvent, Goto
<1>3. CASE ~(cond \/ kthread[t].signal)
  <2>1. kthread' = [kthread EXCEPT ![t].asleep = TRUE] /\ pc' = pc
    BY Zenon, <1>3 DEF WaitEvent
  <2> QED BY Zenon, <1>1, <2>1 DEF KThread
<1> QED BY Zenon, <1>2, <1>3

\* The steps of a thread keep the types.
LEMMA ThreadStepType ==
  ASSUME Accounting, NEW t \in Threads, ThreadStep(t) PROVE TypeOK'
<1>1. /\ TypeOK
      /\ th \in [Threads -> KioThread]
      /\ pc \in [Threads -> ThreadPC]
      /\ config' = config
  BY Zenon DEF Accounting, TypeOK, ThreadStep
<1> USE DEF runVars, bioVars
<1>2. ASSUME NEW l \in ThreadPC, Goto(t, l) PROVE pc' \in [Threads -> ThreadPC]
  BY Zenon, <1>1, <1>2 DEF Goto
<1>3. ASSUME NEW r \in {"ENOMEM", "ESUBMIT", "EINTR"}, GiveUp(t, r)
      PROVE  /\ pc' \in [Threads -> ThreadPC]
             /\ result' \in [Threads -> {"ok", "ENOMEM", "ESUBMIT", "EINTR"}]
  BY Zenon, <1>1, <1>3 DEF GiveUp, Goto, TypeOK, ThreadPC
<1>4. CASE T_Start(t)
  <2>1. pc' \in [Threads -> ThreadPC] BY Zenon, <1>4, <1>2 DEF T_Start, ThreadPC
  <2>2. th' \in [Threads -> KioThread]
    <3>1. th' = th \/ th' = [th EXCEPT ![t].bio_wqh = TRUE]
      BY Zenon, <1>4 DEF T_Start
    <3>2. [th[t] EXCEPT !.bio_wqh = TRUE] \in KioThread
      <4>1. th[t] \in KioThread BY Zenon, <1>1
      <4> QED BY Zenon, <4>1 DEF KioThread
    <3> QED BY Zenon, <1>1, <3>1, <3>2
  <2> QED BY Zenon, <1>4, <1>1, <2>1, <2>2 DEF TypeOK, T_Start
<1>5. CASE T_Loop(t)
  <2>1. pc' \in [Threads -> ThreadPC] BY Zenon, <1>5, <1>2 DEF T_Loop, ThreadPC
  <2> QED BY Zenon, <1>5, <1>1, <2>1 DEF TypeOK, T_Loop
<1>6. CASE T_QdTest(t)
  <2>1. pc' \in [Threads -> ThreadPC]
    BY Zenon, <1>6, <1>2 DEF T_QdTest, ThreadPC
  <2> QED BY Zenon, <1>6, <1>1, <2>1 DEF TypeOK, T_QdTest
<1>7. CASE T_QdWait(t)
  <2>1. (IF kthread[t].should_stop THEN "drain" ELSE "alloc") \in ThreadPC
    BY Zenon DEF ThreadPC
  <2>2. pc' \in [Threads -> ThreadPC] /\ kthread' \in [Threads -> KThread]
    BY Zenon, <1>7, <1>1, <2>1, WaitEventType DEF T_QdWait
  <2> QED BY Zenon, <1>7, <1>1, <2>2 DEF TypeOK, T_QdWait
<1>8. CASE T_Alloc(t)
  <2>1. pages' \in [Threads -> Nat] BY <1>8, <1>1 DEF T_Alloc, TypeOK
  <2>2. PICK drawsRead \in BOOLEAN :
          LET dir == kio_thread_next_dir(config[t], th[t], drawsRead)
          IN  /\ th' = [th EXCEPT ![t].read_burst = dir.read_burst,
                                  ![t].write_burst = dir.write_burst,
                                  ![t].was_write = dir.is_write]
              /\ Goto(t, IF WaitsForBurst(t, dir) THEN "burstwait"
                                                  ELSE "dispatch")
    BY Zenon, <1>8 DEF T_Alloc
  <2> DEFINE dir == kio_thread_next_dir(config[t], th[t], drawsRead)
  <2>3. /\ dir.is_write \in BOOLEAN
        /\ dir.read_burst \in Nat /\ dir.write_burst \in Nat
    BY Zenon, <1>1, NextDirType
  <2>4. th' \in [Threads -> KioThread]
    <3>1. th' = [th EXCEPT ![t].read_burst = dir.read_burst,
                           ![t].write_burst = dir.write_burst,
                           ![t].was_write = dir.is_write]
      BY Zenon, <2>2
    <3> HIDE DEF dir
    <3>2. [th[t] EXCEPT !.read_burst = dir.read_burst,
                        !.write_burst = dir.write_burst,
                        !.was_write = dir.is_write] \in KioThread
      <4>1. th[t] \in KioThread BY Zenon, <1>1
      <4> QED BY Zenon, <2>3, <4>1 DEF KioThread
    <3>3. th' = [th EXCEPT ![t] = [th[t] EXCEPT !.read_burst = dir.read_burst,
                                               !.write_burst = dir.write_burst,
                                               !.was_write = dir.is_write]]
      BY Zenon, <1>1, <3>1
    <3> QED BY Zenon, <1>1, <3>2, <3>3
  <2>5. pc' \in [Threads -> ThreadPC] BY Zenon, <2>2, <1>2 DEF ThreadPC
  <2> QED BY Zenon, <1>8, <1>1, <2>1, <2>4, <2>5 DEF TypeOK, T_Alloc
<1>9. CASE T_AllocFails(t)
  <2>1. /\ pc' \in [Threads -> ThreadPC]
        /\ result' \in [Threads -> {"ok", "ENOMEM", "ESUBMIT", "EINTR"}]
    BY Zenon, <1>9, <1>3 DEF T_AllocFails
  <2> QED BY Zenon, <1>9, <1>1, <2>1 DEF TypeOK, T_AllocFails
<1>10. CASE T_BurstWait(t)
  <2>1. (IF kthread[t].should_stop THEN "drain" ELSE "dispatch") \in ThreadPC
    BY Zenon DEF ThreadPC
  <2>2. pc' \in [Threads -> ThreadPC] /\ kthread' \in [Threads -> KThread]
    BY Zenon, <1>10, <1>1, <2>1, WaitEventType DEF T_BurstWait
  <2>3. pages \in [Threads -> Nat] /\ pages[t] >= 1
    <3>1. Accounted(t) /\ pc[t] = "burstwait"
      BY Zenon, <1>10 DEF Accounting, T_BurstWait
    <3>2. InFlight(t) \in Nat /\ Late(t) \in Nat
      BY Zenon, <1>1, CountsAreNat
    <3> QED BY <1>1, <3>1, <3>2 DEF Accounted, Count, TypeOK
  <2>4. pages' \in [Threads -> Nat]
    BY <1>10, <2>3 DEF T_BurstWait
  <2> QED BY Zenon, <1>10, <1>1, <2>2, <2>4 DEF TypeOK, T_BurstWait
<1>11. CASE T_Dispatch(t)
  <2>1. pc' \in [Threads -> ThreadPC]
    BY Zenon, <1>11, <1>2 DEF T_Dispatch, ThreadPC
  <2>2. th' \in [Threads -> KioThread] BY <1>11, <1>1 DEF T_Dispatch, KioThread
  <2> QED BY Zenon, <1>11, <1>1, <2>1, <2>2 DEF TypeOK, T_Dispatch
<1>12. CASE T_Submit(t)
  <2>1. pc' \in [Threads -> ThreadPC]
    BY Zenon, <1>12, <1>2 DEF T_Submit, ThreadPC
  <2>2. DirOf(th[t].was_write) \in Dirs BY Zenon DEF DirOf, Dirs
  <2>3. queued' \in [Threads -> [Dirs -> Nat]]
    BY <1>12, <1>1, <2>2 DEF T_Submit, TypeOK
  <2>4. submitted' \in [Threads -> Nat] BY <1>12, <1>1 DEF T_Submit, TypeOK
  <2> QED BY Zenon, <1>12, <1>1, <2>1, <2>3, <2>4 DEF TypeOK, T_Submit
<1>13. CASE T_SubmitFails(t)
  <2>1. /\ pc' \in [Threads -> ThreadPC]
        /\ result' \in [Threads -> {"ok", "ENOMEM", "ESUBMIT", "EINTR"}]
    BY Zenon, <1>13, <1>3 DEF T_SubmitFails
  <2> QED BY Zenon, <1>13, <1>1, <2>1 DEF TypeOK, T_SubmitFails
<1>14. CASE T_After(t)
  <2>1. /\ pc' \in [Threads -> ThreadPC]
        /\ result' \in [Threads -> {"ok", "ENOMEM", "ESUBMIT", "EINTR"}]
    <3>1. CASE kthread[t].signal BY Zenon, <1>14, <3>1, <1>3 DEF T_After
    <3>2. CASE ~kthread[t].signal
      BY Zenon, <1>14, <3>2, <1>1, <1>2 DEF T_After, TypeOK, ThreadPC
    <3> QED BY Zenon, <3>1, <3>2
  <2> QED BY Zenon, <1>14, <1>1, <2>1 DEF TypeOK, T_After
<1>15. CASE T_Drain(t)
  <2>1. pc' \in [Threads -> ThreadPC] /\ kthread' \in [Threads -> KThread]
    BY Zenon, <1>15, <1>1, WaitEventType DEF T_Drain, ThreadPC
  <2> QED BY Zenon, <1>15, <1>1, <2>1 DEF TypeOK, T_Drain
<1>16. CASE T_Unhook(t)
  <2>1. pc' \in [Threads -> ThreadPC]
    BY Zenon, <1>16, <1>2 DEF T_Unhook, ThreadPC
  <2>2. th' \in [Threads -> KioThread] BY Zenon, <1>16, <1>1
                                       DEF T_Unhook, KioThread
  <2> QED BY Zenon, <1>16, <1>1, <2>1, <2>2 DEF TypeOK, T_Unhook
<1>17. CASE T_Return(t)
  <2>1. pc' \in [Threads -> ThreadPC]
    BY Zenon, <1>17, <1>2 DEF T_Return, ThreadPC
  <2> QED BY Zenon, <1>17, <1>1, <2>1 DEF TypeOK, T_Return
<1> QED
  BY Zenon, <1>4, <1>5, <1>6, <1>7, <1>8, <1>9, <1>10, <1>11, <1>12, <1>13,
           <1>14, <1>15, <1>16, <1>17 DEF ThreadStep

\* A signal and the steps of a completion handler keep the types.
LEMMA CompletionType ==
  ASSUME Accounting, NEW t \in Threads, Signal(t) \/ Completion(t)
  PROVE  TypeOK'
<1>1. /\ TypeOK
      /\ th \in [Threads -> KioThread]
      /\ kthread \in [Threads -> KThread]
      /\ late \in [Threads -> [LateStage -> Nat]]
      /\ config' = config
  BY Zenon DEF Accounting, TypeOK, Signal, Completion
<1> USE DEF runVars, bioVars, thVars
<1>2. CASE Signal(t)
  <2>1. kthread' = [kthread EXCEPT ![t].signal = TRUE, ![t].asleep = FALSE]
    BY Zenon, <1>2 DEF Signal
  <2>2. [kthread[t] EXCEPT !.signal = TRUE, !.asleep = FALSE] \in KThread
    <3>1. kthread[t] \in KThread BY Zenon, <1>1
    <3> QED BY Zenon, <3>1 DEF KThread
  <2>3. kthread' \in [Threads -> KThread] BY Zenon, <1>1, <2>1, <2>2
  <2> QED BY Zenon, <1>2, <1>1, <2>3 DEF TypeOK, Signal
<1>3. ASSUME NEW d \in Dirs, C_Account(t, d) PROVE TypeOK'
  <2>1. queued' \in [Threads -> [Dirs -> Nat]]
    BY <1>3, <1>1 DEF C_Account, TypeOK
  <2>2. timed' \in [Threads -> [Dirs -> Nat]]
    BY <1>3, <1>1 DEF C_Account, TypeOK
  <2>3. th' \in [Threads -> KioThread]
    <3>1. th' = [th EXCEPT ![t].clat_total = @ + 1] BY Zenon, <1>3 DEF C_Account
    <3>2. [th[t] EXCEPT !.clat_total = th[t].clat_total + 1] \in KioThread
      <4>1. th[t] \in KioThread BY Zenon, <1>1
      <4> QED BY <4>1 DEF KioThread
    <3> QED BY Zenon, <1>1, <3>1, <3>2
  <2> QED BY Zenon, <1>3, <1>1, <2>1, <2>2, <2>3 DEF TypeOK, C_Account
<1>4. ASSUME NEW d \in Dirs, C_Undispatch(t, d) PROVE TypeOK'
  <2>1. timed' \in [Threads -> [Dirs -> Nat]]
    BY <1>4, <1>1 DEF C_Undispatch, TypeOK
  <2>2. late' \in [Threads -> [LateStage -> Nat]]
    BY <1>4, <1>1 DEF C_Undispatch, LateStage
  <2>3. th[t].dispatched \in Nat /\ th[t].dispatched >= 1
    <3>1. timed[t][d] > 0 /\ d \in {"read", "write"}
      BY Zenon, <1>4 DEF C_Undispatch, Dirs
    <3>2. InFlight(t) >= 1
      BY <3>1, <1>1, CountsAreNat DEF InFlight, InFlightDir
    <3>3. Accounted(t) BY Zenon DEF Accounting
    <3> QED BY <3>2, <3>3, <1>1, CountsAreNat DEF Accounted, Count
  <2>4. th' = [th EXCEPT ![t].dispatched = @ - 1]
    BY Zenon, <1>4 DEF C_Undispatch
  <2>5. th' \in [Threads -> KioThread]
    <3>1. th[t].dispatched - 1 \in Nat BY <2>3
    <3>2. [th[t] EXCEPT !.dispatched = th[t].dispatched - 1] \in KioThread
      BY <1>1, <3>1 DEF KioThread
    <3> QED BY Zenon, <1>1, <2>4, <3>2
  <2> QED BY Zenon, <1>4, <1>1, <2>1, <2>2, <2>5 DEF TypeOK, C_Undispatch
<1>5. CASE C_Count(t)
  <2>1. late' \in [Threads -> [LateStage -> Nat]]
    BY Zenon, <1>5, <1>1, MoveLateEffect DEF C_Count, LateStage
  <2>2. th' \in [Threads -> KioThread] BY <1>5, <1>1 DEF C_Count, KioThread
  <2> QED BY Zenon, <1>5, <1>1, <2>1, <2>2 DEF TypeOK, C_Count
<1>6. CASE C_ReadWqh(t)
  <2>1. late' \in [Threads -> [LateStage -> Nat]]
    BY Zenon, <1>6, <1>1, MoveLateEffect DEF C_ReadWqh, LateStage
  <2> QED BY Zenon, <1>6, <1>1, <2>1 DEF TypeOK, C_ReadWqh
<1>7. CASE C_Wake(t)
  <2>1. late' \in [Threads -> [LateStage -> Nat]]
    BY Zenon, <1>7, <1>1, MoveLateEffect DEF C_Wake, LateStage
  <2>2. kthread' \in [Threads -> KThread] BY Zenon, <1>7, <1>1
                                          DEF C_Wake, KThread
  <2> QED BY Zenon, <1>7, <1>1, <2>1, <2>2 DEF TypeOK, C_Wake
<1>8. CASE C_Release(t)
  <2>1. late' \in [Threads -> [LateStage -> Nat]]
    BY <1>8, <1>1 DEF C_Release, LateStage
  <2>2. pages \in [Threads -> Nat] /\ pages[t] >= 1
    <3>1. Late(t) >= 1
      <4>1. /\ late[t]["undispatched"] \in Nat /\ late[t]["counted"] \in Nat
            /\ late[t]["waking"] \in Nat /\ late[t]["releasing"] \in Nat
        BY Zenon, <1>1, CountsAreNat
      <4>2. late[t]["releasing"] > 0 BY Zenon, <1>8 DEF C_Release
      <4> QED BY <4>1, <4>2 DEF Late
    <3>2. Accounted(t) BY Zenon DEF Accounting
    <3>3. pages \in [Threads -> Nat] BY Zenon, <1>1 DEF TypeOK
    <3> QED BY <3>1, <3>2, <3>3, <1>1, CountsAreNat DEF Accounted, Count
  <2>3. pages' \in [Threads -> Nat] BY <1>8, <2>2 DEF C_Release
  <2> QED BY Zenon, <1>8, <1>1, <2>1, <2>3 DEF TypeOK, C_Release
<1> QED BY Zenon, <1>2, <1>3, <1>4, <1>5, <1>6, <1>7, <1>8 DEF Completion


-----------------------------------------------------------------------------
(***************************************************************************)
(* The books of a thread                                                   *)
(***************************************************************************)

\* A thread, its signals and its handlers touch no other thread.
LEMMA OtherThreadsUnchanged ==
  ASSUME TypeOK, NEW t \in Threads, NEW q \in Threads, q # t,
         ThreadStep(t) \/ Signal(t) \/ Completion(t)
  PROVE  UNCHANGED ThreadState(q)
<1>1. config' = config BY Zenon DEF ThreadStep, Signal, Completion
<1> USE DEF TypeOK, ThreadState, runVars, bioVars, thVars, Goto, GiveUp,
            WaitEvent
<1>2. CASE T_Start(t) BY Zenon, <1>1, <1>2 DEF T_Start
<1>3. CASE T_Loop(t) BY Zenon, <1>1, <1>3 DEF T_Loop
<1>4. CASE T_QdTest(t) BY Zenon, <1>1, <1>4 DEF T_QdTest
<1>5. CASE T_QdWait(t) BY Zenon, <1>1, <1>5 DEF T_QdWait
<1>6. CASE T_Alloc(t)
  <2>1. PICK drawsRead \in BOOLEAN :
          LET dir == kio_thread_next_dir(config[t], th[t], drawsRead)
          IN  /\ th' = [th EXCEPT ![t].read_burst = dir.read_burst,
                                  ![t].write_burst = dir.write_burst,
                                  ![t].was_write = dir.is_write]
              /\ Goto(t, IF WaitsForBurst(t, dir) THEN "burstwait"
                                                  ELSE "dispatch")
    BY Zenon, <1>6 DEF T_Alloc
  <2> QED BY Zenon, <1>1, <1>6, <2>1 DEF T_Alloc
<1>7. CASE T_AllocFails(t) BY Zenon, <1>1, <1>7 DEF T_AllocFails
<1>8. CASE T_BurstWait(t) BY Zenon, <1>1, <1>8 DEF T_BurstWait
<1>9. CASE T_Dispatch(t) BY Zenon, <1>1, <1>9 DEF T_Dispatch
<1>10. CASE T_Submit(t) BY Zenon, <1>1, <1>10 DEF T_Submit
<1>11. CASE T_SubmitFails(t) BY Zenon, <1>1, <1>11 DEF T_SubmitFails
<1>12. CASE T_After(t) BY Zenon, <1>1, <1>12 DEF T_After
<1>13. CASE T_Drain(t) BY Zenon, <1>1, <1>13 DEF T_Drain
<1>14. CASE T_Unhook(t) BY Zenon, <1>1, <1>14 DEF T_Unhook
<1>15. CASE T_Return(t) BY Zenon, <1>1, <1>15 DEF T_Return
<1>16. CASE Signal(t) BY Zenon, <1>1, <1>16 DEF Signal
<1>17. ASSUME NEW d \in Dirs, C_Account(t, d) PROVE UNCHANGED ThreadState(q)
  BY Zenon, <1>1, <1>17 DEF C_Account
<1>18. ASSUME NEW d \in Dirs, C_Undispatch(t, d)
       PROVE  UNCHANGED ThreadState(q)
  BY Zenon, <1>1, <1>18 DEF C_Undispatch
<1>19. CASE C_Count(t) BY Zenon, <1>1, <1>19 DEF C_Count, MoveLate
<1>20. CASE C_ReadWqh(t) BY Zenon, <1>1, <1>20 DEF C_ReadWqh, MoveLate
<1>21. CASE C_Wake(t) BY Zenon, <1>1, <1>21 DEF C_Wake, MoveLate
<1>22. CASE C_Release(t) BY Zenon, <1>1, <1>22 DEF C_Release
<1> QED BY Zenon, <1>2, <1>3, <1>4, <1>5, <1>6, <1>7, <1>8, <1>9, <1>10, <1>11,
           <1>12, <1>13, <1>14, <1>15, <1>16, <1>17, <1>18, <1>19, <1>20,
           <1>21, <1>22 DEF ThreadStep, Completion

\* The same after a step that keeps the types.
LEMMA CountsStayNat ==
  ASSUME TypeOK', NEW t \in Threads
  PROVE  /\ queued'[t]["write"] \in Nat /\ queued'[t]["read"] \in Nat
         /\ timed'[t]["write"] \in Nat /\ timed'[t]["read"] \in Nat
         /\ late'[t]["undispatched"] \in Nat /\ late'[t]["counted"] \in Nat
         /\ late'[t]["waking"] \in Nat /\ late'[t]["releasing"] \in Nat
         /\ pages'[t] \in Nat /\ submitted'[t] \in Nat
         /\ th'[t].dispatched \in Nat /\ th'[t].clat_total \in Nat
<1>1. /\ queued'[t] \in [Dirs -> Nat] /\ timed'[t] \in [Dirs -> Nat]
      /\ late'[t] \in [LateStage -> Nat] /\ th'[t] \in KioThread
      /\ pages'[t] \in Nat /\ submitted'[t] \in Nat
  BY Zenon DEF TypeOK
<1> QED BY Zenon, <1>1 DEF Dirs, LateStage, KioThread

\* Every step of a thread or of one of its handlers keeps its books.
LEMMA OwnBooksKept ==
  ASSUME Accounting, TypeOK', NEW t \in Threads,
         ThreadStep(t) \/ Signal(t) \/ Completion(t)
  PROVE  Accounted(t)'
<1>1. TypeOK /\ Accounted(t) BY Zenon DEF Accounting
<1>2. /\ th \in [Threads -> KioThread] /\ pc \in [Threads -> ThreadPC]
      /\ kthread \in [Threads -> KThread]
      /\ result \in [Threads -> {"ok", "ENOMEM", "ESUBMIT", "EINTR"}]
      /\ queued \in [Threads -> [Dirs -> Nat]]
      /\ timed \in [Threads -> [Dirs -> Nat]]
      /\ late \in [Threads -> [LateStage -> Nat]]
      /\ pages \in [Threads -> Nat] /\ submitted \in [Threads -> Nat]
  BY Zenon, <1>1 DEF TypeOK
<1>3. /\ queued[t]["write"] \in Nat /\ queued[t]["read"] \in Nat
      /\ timed[t]["write"] \in Nat /\ timed[t]["read"] \in Nat
      /\ late[t]["undispatched"] \in Nat /\ late[t]["counted"] \in Nat
      /\ late[t]["waking"] \in Nat /\ late[t]["releasing"] \in Nat
      /\ pages[t] \in Nat /\ submitted[t] \in Nat
      /\ th[t].dispatched \in Nat /\ th[t].clat_total \in Nat
      /\ InFlight(t) \in Nat /\ Late(t) \in Nat
  BY Zenon, <1>1, CountsAreNat
<1>4. /\ queued'[t]["write"] \in Nat /\ queued'[t]["read"] \in Nat
      /\ timed'[t]["write"] \in Nat /\ timed'[t]["read"] \in Nat
      /\ late'[t]["undispatched"] \in Nat /\ late'[t]["counted"] \in Nat
      /\ late'[t]["waking"] \in Nat /\ late'[t]["releasing"] \in Nat
  BY Zenon, CountsStayNat
<1> USE DEF Accounted, Count, Leaving
\* A step that leaves the counters and the bios alone
<1>5. ASSUME UNCHANGED <<queued, timed, late, pages, submitted, result>>,
             th'[t].dispatched = th[t].dispatched,
             th'[t].clat_total = th[t].clat_total,
             \/ pc'[t] = pc[t]
             \/ pc[t] \in Leaving /\ pc'[t] \in Leaving
             \/ /\ pc[t] \in {"start", "loop", "qdtest", "qdwait", "after"}
                /\ pc'[t] \in {"loop", "qdtest", "qdwait", "alloc"} \cup Leaving
             \/ pc[t] = "burstwait" /\ pc'[t] = "dispatch"
      PROVE  Accounted(t)'
  <2>1. InFlight(t)' = InFlight(t) /\ Late(t)' = Late(t)
    BY Zenon, <1>5 DEF InFlight, InFlightDir, Late
  <2> QED BY Zenon, <1>1, <1>3, <1>5, <2>1
<1>6. CASE T_Start(t)
  BY <1>2, <1>5, <1>6 DEF T_Start, bioVars, Goto, KioThread
<1>7. CASE T_Loop(t) BY Zenon, <1>2, <1>5, <1>7 DEF T_Loop, bioVars, Goto
<1>8. CASE T_QdTest(t) BY Zenon, <1>2, <1>5, <1>8 DEF T_QdTest, bioVars, Goto
<1>9. CASE T_QdWait(t)
  BY Zenon, <1>2, <1>5, <1>9 DEF T_QdWait, bioVars, WaitEvent, Goto
<1>10. CASE T_Submit(t)
  <2>1. /\ pc[t] = "submit" /\ pc'[t] = "after"
        /\ submitted'[t] = submitted[t] + 1
        /\ UNCHANGED <<th, result, timed, late, pages>>
    BY Zenon, <1>2, <1>10 DEF T_Submit, Goto
  <2>2. \/ /\ queued'[t]["write"] = queued[t]["write"] + 1
           /\ queued'[t]["read"] = queued[t]["read"]
        \/ /\ queued'[t]["read"] = queued[t]["read"] + 1
           /\ queued'[t]["write"] = queued[t]["write"]
    BY <1>2, <1>10 DEF T_Submit, Dirs, DirOf
  <2>3. InFlight(t)' = InFlight(t) + 1
    <3>1. /\ queued[t]["write"] \in Nat /\ queued[t]["read"] \in Nat
          /\ timed[t]["write"] \in Nat /\ timed[t]["read"] \in Nat
      BY Zenon, <1>3
    <3>2. timed'[t] = timed[t] BY Zenon, <2>1
    <3>3. CASE /\ queued'[t]["write"] = queued[t]["write"] + 1
               /\ queued'[t]["read"] = queued[t]["read"]
      BY <3>1, <3>2, <3>3 DEF InFlight, InFlightDir
    <3>4. CASE /\ queued'[t]["read"] = queued[t]["read"] + 1
               /\ queued'[t]["write"] = queued[t]["write"]
      BY <3>1, <3>2, <3>4 DEF InFlight, InFlightDir
    <3> QED BY Zenon, <2>2, <3>3, <3>4
  <2>4. Late(t)' = Late(t) BY Zenon, <2>1 DEF Late
  <2>5. pc'[t] \notin Leaving => result'[t] = "ok" BY Zenon, <1>1, <2>1
  <2>6. th'[t].dispatched = InFlight(t)' + Count(pc'[t] = "submit")
                                        + Count(result'[t] = "ESUBMIT")
    BY <1>1, <1>3, <2>1, <2>3
  <2>7. pages'[t] = Count(pc'[t] \in {"burstwait", "dispatch", "submit"})
                     + InFlight(t)' + Late(t)' + Count(result'[t] = "ESUBMIT")
    BY <1>1, <1>3, <2>1, <2>3, <2>4
  <2>8. th'[t].clat_total + queued'[t]["write"] + queued'[t]["read"]
          = submitted'[t]
    BY <1>1, <1>3, <1>4, <2>1, <2>2
  <2> QED BY Zenon, <2>5, <2>6, <2>7, <2>8
<1>11. CASE T_Alloc(t)
  <2>1. /\ pc[t] = "alloc" /\ pages'[t] = pages[t] + 1
        /\ UNCHANGED <<result, queued, timed, late, submitted>>
    BY Zenon, <1>2, <1>11 DEF T_Alloc
  <2>2. PICK drawsRead \in BOOLEAN :
          LET dir == kio_thread_next_dir(config[t], th[t], drawsRead)
          IN  /\ th' = [th EXCEPT ![t].read_burst = dir.read_burst,
                                  ![t].write_burst = dir.write_burst,
                                  ![t].was_write = dir.is_write]
              /\ Goto(t, IF WaitsForBurst(t, dir) THEN "burstwait"
                                                  ELSE "dispatch")
    BY Zenon, <1>11 DEF T_Alloc
  <2>3. /\ th'[t].dispatched = th[t].dispatched
        /\ th'[t].clat_total = th[t].clat_total
        /\ pc'[t] \in {"burstwait", "dispatch"}
    BY <1>2, <2>2 DEF Goto, KioThread
  <2>4. InFlight(t)' = InFlight(t) /\ Late(t)' = Late(t)
    BY Zenon, <2>1 DEF InFlight, InFlightDir, Late
  <2>5. pc'[t] \notin Leaving => result'[t] = "ok" BY Zenon, <1>1, <2>1
  <2>6. th'[t].dispatched = InFlight(t)' + Count(pc'[t] = "submit")
                                        + Count(result'[t] = "ESUBMIT")
    BY Zenon, <1>1, <1>3, <2>1, <2>3, <2>4
  <2>7. pages'[t] = Count(pc'[t] \in {"burstwait", "dispatch", "submit"})
                     + InFlight(t)' + Late(t)' + Count(result'[t] = "ESUBMIT")
    BY <1>1, <1>3, <2>1, <2>3, <2>4
  <2>8. th'[t].clat_total + queued'[t]["write"] + queued'[t]["read"]
          = submitted'[t]
    BY Zenon, <1>1, <1>3, <2>1, <2>3
  <2> QED BY Zenon, <2>5, <2>6, <2>7, <2>8
<1>12. CASE T_AllocFails(t)
  <2>1. /\ pc[t] = "alloc" /\ pc'[t] = "drain" /\ result'[t] = "ENOMEM"
        /\ UNCHANGED <<th, queued, timed, late, pages, submitted>>
    BY Zenon, <1>2, <1>12 DEF T_AllocFails, GiveUp, Goto, bioVars
  <2>2. InFlight(t)' = InFlight(t) /\ Late(t)' = Late(t)
    BY Zenon, <2>1 DEF InFlight, InFlightDir, Late
  <2> QED BY Zenon, <1>1, <1>3, <2>1, <2>2
<1>13. CASE T_BurstWait(t)
  <2>1. /\ pc[t] = "burstwait"
        /\ UNCHANGED <<th, result, queued, timed, late, submitted>>
    BY Zenon, <1>13 DEF T_BurstWait
  <2>2. pc'[t] \in {"burstwait", "dispatch", "drain"}
    BY Zenon, <1>2, <1>13, <2>1 DEF T_BurstWait, WaitEvent, Goto
  <2>3. pages'[t] = IF pc'[t] = "drain" THEN pages[t] - 1 ELSE pages[t]
    BY Zenon, <1>2, <1>13 DEF T_BurstWait
  <2>4. InFlight(t)' = InFlight(t) /\ Late(t)' = Late(t)
    BY Zenon, <2>1 DEF InFlight, InFlightDir, Late
  <2>5. pc'[t] \notin Leaving => result'[t] = "ok" BY Zenon, <1>1, <2>1
  <2>6. th'[t].dispatched = InFlight(t)' + Count(pc'[t] = "submit")
                                        + Count(result'[t] = "ESUBMIT")
    BY Zenon, <1>1, <1>3, <2>1, <2>2, <2>4
  <2>7. pages'[t] = Count(pc'[t] \in {"burstwait", "dispatch", "submit"})
                     + InFlight(t)' + Late(t)' + Count(result'[t] = "ESUBMIT")
    <3>1. result[t] = "ok" /\ result'[t] = "ok" BY Zenon, <1>1, <2>1
    <3>2. /\ pages[t] = 1 + InFlight(t) + Late(t)
          /\ InFlight(t) \in Nat /\ Late(t) \in Nat
      BY <1>1, <1>3, <2>1, <3>1
    <3>3. CASE pc'[t] = "drain"
      <4>1. pages'[t] = InFlight(t) + Late(t) BY <2>3, <3>2, <3>3
      <4> QED BY <2>4, <3>1, <3>2, <3>3, <4>1
    <3>4. CASE pc'[t] \in {"burstwait", "dispatch"}
      <4>1. pages'[t] = 1 + InFlight(t) + Late(t) BY Zenon, <2>3, <3>2, <3>4
      <4> QED BY <2>4, <3>1, <3>2, <3>4, <4>1
    <3> QED BY Zenon, <2>2, <3>3, <3>4
  <2>8. th'[t].clat_total + queued'[t]["write"] + queued'[t]["read"]
          = submitted'[t]
    BY Zenon, <1>1, <2>1
  <2> QED BY Zenon, <2>5, <2>6, <2>7, <2>8
<1>14. CASE T_Dispatch(t)
  <2>1. /\ th'[t].dispatched = th[t].dispatched + 1
        /\ th'[t].clat_total = th[t].clat_total
        /\ pc[t] = "dispatch" /\ pc'[t] = "submit"
        /\ UNCHANGED <<result, queued, timed, late, pages, submitted>>
    BY Zenon, <1>2, <1>14 DEF T_Dispatch, Goto, KioThread, bioVars
  <2>2. InFlight(t)' = InFlight(t) /\ Late(t)' = Late(t)
    BY Zenon, <2>1 DEF InFlight, InFlightDir, Late
  <2> QED BY <1>1, <1>3, <2>1, <2>2
<1>15. CASE T_SubmitFails(t)
  <2>1. /\ pc[t] = "submit" /\ pc'[t] = "drain" /\ result'[t] = "ESUBMIT"
        /\ UNCHANGED <<th, queued, timed, late, pages, submitted>>
    BY Zenon, <1>2, <1>15 DEF T_SubmitFails, GiveUp, Goto, bioVars
  <2>2. InFlight(t)' = InFlight(t) /\ Late(t)' = Late(t)
    BY Zenon, <2>1 DEF InFlight, InFlightDir, Late
  <2> QED BY <1>1, <1>3, <2>1, <2>2
<1>16. CASE T_After(t)
  <2>1. /\ pc[t] = "after"
        /\ \/ pc'[t] = "drain" /\ result'[t] = "EINTR"
           \/ pc'[t] = "loop" /\ result'[t] = result[t]
        /\ UNCHANGED <<th, queued, timed, late, pages, submitted>>
    BY Zenon, <1>2, <1>16 DEF T_After, GiveUp, Goto, bioVars
  <2>2. InFlight(t)' = InFlight(t) /\ Late(t)' = Late(t)
    BY Zenon, <2>1 DEF InFlight, InFlightDir, Late
  <2> QED BY Zenon, <1>1, <1>3, <2>1, <2>2
<1>17. CASE T_Drain(t)
  BY Zenon, <1>2, <1>5, <1>17 DEF T_Drain, bioVars, WaitEvent, Goto
<1>18. CASE T_Unhook(t)
  BY <1>2, <1>5, <1>18 DEF T_Unhook, bioVars, Goto, KioThread
<1>19. CASE T_Return(t) BY Zenon, <1>2, <1>5, <1>19 DEF T_Return, bioVars, Goto
<1>20. CASE Signal(t) BY Zenon, <1>5, <1>20 DEF Signal, bioVars
<1>21. ASSUME NEW d \in Dirs, C_Account(t, d) PROVE Accounted(t)'
  <2>1. /\ th'[t].dispatched = th[t].dispatched
        /\ th'[t].clat_total = th[t].clat_total + 1
        /\ UNCHANGED <<pc, result, late, pages, submitted>>
    BY Zenon, <1>2, <1>21 DEF C_Account, KioThread
  <2>2. \A e \in Dirs :
          /\ queued'[t][e] = IF e = d THEN queued[t][e] - 1 ELSE queued[t][e]
          /\ timed'[t][e] = IF e = d THEN timed[t][e] + 1 ELSE timed[t][e]
    BY Zenon, <1>2, <1>21 DEF C_Account
  <2>3. queued'[t]["write"] + queued'[t]["read"]
          = queued[t]["write"] + queued[t]["read"] - 1
    BY <1>3, <1>4, <1>21, <2>2 DEF Dirs
  <2>4. InFlight(t)' = InFlight(t)
    BY <1>3, <1>4, <1>21, <2>2 DEF Dirs, InFlight, InFlightDir
  <2>5. Late(t)' = Late(t) BY Zenon, <2>1 DEF Late
  <2>6. pc'[t] \notin Leaving => result'[t] = "ok" BY Zenon, <1>1, <2>1
  <2>7. th'[t].dispatched = InFlight(t)' + Count(pc'[t] = "submit")
                                        + Count(result'[t] = "ESUBMIT")
    BY Zenon, <1>1, <1>3, <2>1, <2>4
  <2>8. pages'[t] = Count(pc'[t] \in {"burstwait", "dispatch", "submit"})
                     + InFlight(t)' + Late(t)' + Count(result'[t] = "ESUBMIT")
    BY Zenon, <1>1, <1>3, <2>1, <2>4, <2>5
  <2>9. th'[t].clat_total + queued'[t]["write"] + queued'[t]["read"]
          = submitted'[t]
    BY <1>1, <1>3, <1>4, <2>1, <2>3
  <2> QED BY Zenon, <2>6, <2>7, <2>8, <2>9
<1>22. ASSUME NEW d \in Dirs, C_Undispatch(t, d) PROVE Accounted(t)'
  <2>1. /\ th'[t].dispatched = th[t].dispatched - 1
        /\ th'[t].clat_total = th[t].clat_total
        /\ UNCHANGED <<pc, result, queued, pages, submitted>>
    BY Zenon, <1>2, <1>22 DEF C_Undispatch, KioThread
  <2>2. \A e \in Dirs :
          timed'[t][e] = IF e = d THEN timed[t][e] - 1 ELSE timed[t][e]
    BY Zenon, <1>2, <1>22 DEF C_Undispatch
  <2>3. /\ late'[t]["undispatched"] = late[t]["undispatched"] + 1
        /\ late'[t]["counted"] = late[t]["counted"]
        /\ late'[t]["waking"] = late[t]["waking"]
        /\ late'[t]["releasing"] = late[t]["releasing"]
    BY Zenon, <1>2, <1>22 DEF C_Undispatch, LateStage
  <2>4. InFlight(t)' = InFlight(t) - 1
    BY <1>3, <1>4, <1>22, <2>1, <2>2 DEF Dirs, InFlight, InFlightDir
  <2>5. Late(t)' = Late(t) + 1
    <3>1. Late(t)' = (late[t]["undispatched"] + 1) + late[t]["counted"]
                       + late[t]["waking"] + late[t]["releasing"]
      BY Zenon, <2>3 DEF Late
    <3> QED BY <1>3, <3>1 DEF Late
  <2> QED BY <1>1, <1>3, <1>4, <2>1, <2>4, <2>5
<1>23. CASE C_Count(t) \/ C_ReadWqh(t) \/ C_Wake(t)
  <2>1. /\ th'[t].dispatched = th[t].dispatched
        /\ th'[t].clat_total = th[t].clat_total
        /\ UNCHANGED <<pc, result, queued, timed, pages, submitted>>
    BY <1>2, <1>23 DEF C_Count, C_ReadWqh, C_Wake, KioThread
  <2>2. \/ MoveLate(t, "undispatched", "counted")
        \/ MoveLate(t, "counted", "waking")
        \/ MoveLate(t, "counted", "releasing")
        \/ MoveLate(t, "waking", "releasing")
    BY Zenon, <1>23 DEF C_Count, C_ReadWqh, C_Wake
  <2>3. ASSUME NEW a \in LateStage, NEW b \in LateStage, a # b,
               MoveLate(t, a, b)
        PROVE  /\ late'[t][a] = late[t][a] - 1
               /\ late'[t][b] = late[t][b] + 1
               /\ \A s \in LateStage \ {a, b} : late'[t][s] = late[t][s]
    BY Zenon, <1>1, <2>3, MoveLateEffect
  <2>4. Late(t)' = Late(t)
    <3>1. CASE MoveLate(t, "undispatched", "counted")
      BY <1>3, <1>4, <2>3, <3>1 DEF Late, LateStage
    <3>2. CASE MoveLate(t, "counted", "waking")
      BY <1>3, <1>4, <2>3, <3>2 DEF Late, LateStage
    <3>3. CASE MoveLate(t, "counted", "releasing")
      BY <1>3, <1>4, <2>3, <3>3 DEF Late, LateStage
    <3>4. CASE MoveLate(t, "waking", "releasing")
      BY <1>3, <1>4, <2>3, <3>4 DEF Late, LateStage
    <3> QED BY Zenon, <2>2, <3>1, <3>2, <3>3, <3>4
  <2>5. InFlight(t)' = InFlight(t) BY Zenon, <2>1 DEF InFlight, InFlightDir
  <2> QED BY Zenon, <1>1, <1>3, <2>1, <2>4, <2>5
<1>24. CASE C_Release(t)
  <2>1. /\ pages'[t] = pages[t] - 1
        /\ UNCHANGED <<th, pc, result, queued, timed, submitted>>
    BY Zenon, <1>2, <1>24 DEF C_Release, thVars
  <2>2. /\ late'[t]["undispatched"] = late[t]["undispatched"]
        /\ late'[t]["counted"] = late[t]["counted"]
        /\ late'[t]["waking"] = late[t]["waking"]
        /\ late'[t]["releasing"] = late[t]["releasing"] - 1
    BY Zenon, <1>2, <1>24 DEF C_Release, LateStage
  <2>3. Late(t)' = Late(t) - 1
    <3>1. /\ late[t]["undispatched"] \in Nat /\ late[t]["counted"] \in Nat
          /\ late[t]["waking"] \in Nat /\ late[t]["releasing"] \in Nat
      BY Zenon, <1>3
    <3> QED BY <2>2, <3>1 DEF Late
  <2>4. InFlight(t)' = InFlight(t) BY Zenon, <2>1 DEF InFlight, InFlightDir
  <2> QED BY <1>1, <1>3, <2>1, <2>3, <2>4
<1> QED BY Zenon, <1>6, <1>7, <1>8, <1>9, <1>10, <1>11, <1>12, <1>13, <1>14,
           <1>15,
           <1>16, <1>17, <1>18, <1>19, <1>20, <1>21, <1>22, <1>23, <1>24
        DEF ThreadStep, Completion

-----------------------------------------------------------------------------
(***************************************************************************)
(* The phases of kio_run()                                                 *)
(***************************************************************************)

\* What the caller relies on when threads and handlers run: they do not
\* touch its frame or the flags it owns, an exited thread stays so, and no
\* thread comes into being.
LEMMA ThreadsLeaveRunAlone ==
  ASSUME TypeOK, NEW t \in Threads,
         ThreadStep(t) \/ Signal(t) \/ Completion(t)
  PROVE  /\ UNCHANGED <<run, kio_running, ths, st>>
         /\ \A q \in Threads :
              /\ kthread'[q].task = kthread[q].task
              /\ kthread'[q].should_stop = kthread[q].should_stop
              /\ pc'[q] = "none" <=> pc[q] = "none"
              /\ pc[q] = "exited" => pc'[q] = "exited"
<1>1. UNCHANGED <<run, kio_running, ths, st>>
  BY Zenon
  DEF ThreadStep, Completion, Signal, T_Start, T_Loop, T_QdTest, T_QdWait,
     T_Alloc, T_AllocFails, T_BurstWait, T_Dispatch, T_Submit, T_SubmitFails,
     T_After, T_Drain, T_Unhook, T_Return, C_Account, C_Undispatch, C_Count,
     C_ReadWqh, C_Wake, C_Release, runVars
<1>2. ASSUME NEW q \in Threads, q # t
      PROVE  /\ kthread'[q].task = kthread[q].task
             /\ kthread'[q].should_stop = kthread[q].should_stop
             /\ pc'[q] = pc[q]
  BY Zenon, <1>2, OtherThreadsUnchanged DEF ThreadState
<1>3. /\ kthread'[t].task = kthread[t].task
      /\ kthread'[t].should_stop = kthread[t].should_stop
  <2>1. \/ kthread' = kthread
        \/ kthread' = [kthread EXCEPT ![t].asleep = TRUE]
        \/ kthread' = [kthread EXCEPT ![t].asleep = FALSE]
        \/ kthread' = [kthread EXCEPT ![t].signal = TRUE, ![t].asleep = FALSE]
    BY Zenon
    DEF ThreadStep, Completion, Signal, T_Start, T_Loop, T_QdTest, T_QdWait,
       T_Alloc, T_AllocFails, T_BurstWait, T_Dispatch, T_Submit, T_SubmitFails,
       T_After, T_Drain, T_Unhook, T_Return, C_Account, C_Undispatch, C_Count,
       C_ReadWqh, C_Wake, C_Release, thVars, WaitEvent
  <2>2. kthread \in [Threads -> KThread] BY Zenon DEF TypeOK
  <2> QED BY <2>1, <2>2 DEF KThread
<1>4. /\ pc'[t] = "none" <=> pc[t] = "none"
      /\ pc[t] = "exited" => pc'[t] = "exited"
  <2>1. \/ pc' = pc
        \/ /\ pc[t] \notin {"none", "exited"}
           /\ \E l \in ThreadPC \ {"none"} : pc' = [pc EXCEPT ![t] = l]
    BY Zenon
    DEF ThreadStep, Completion, Signal, T_Start, T_Loop, T_QdTest, T_QdWait,
       T_Alloc, T_AllocFails, T_BurstWait, T_Dispatch, T_Submit, T_SubmitFails,
       T_After, T_Drain, T_Unhook, T_Return, C_Account, C_Undispatch, C_Count,
       C_ReadWqh, C_Wake, C_Release, thVars, WaitEvent, Goto, GiveUp, ThreadPC
  <2>2. pc \in [Threads -> ThreadPC] BY Zenon DEF TypeOK
  <2> QED BY Zenon, <2>1, <2>2
<1> QED BY Zenon, <1>1, <1>2, <1>3, <1>4

\* Hence a thread and its handlers keep the invariant of kio_run().
LEMMA ThreadsKeepRunInv ==
  ASSUME Accounting, NEW t \in Threads,
         ThreadStep(t) \/ Signal(t) \/ Completion(t)
  PROVE  RunInv'
<1>1. /\ UNCHANGED <<run, kio_running, ths, st>>
      /\ \A q \in Threads :
           /\ kthread'[q].task = kthread[q].task
           /\ kthread'[q].should_stop = kthread[q].should_stop
           /\ pc'[q] = "none" <=> pc[q] = "none"
           /\ pc[q] = "exited" => pc'[q] = "exited"
  BY Zenon, ThreadsLeaveRunAlone DEF Accounting
<1>2. RunInv /\ run.i \in Threads /\ run.pc \in RunPC
  BY Zenon DEF Accounting, TypeOK, RunFrame
<1>3. RunPhase'
  <2>1. \A q \in Threads : /\ Created(q)' <=> Created(q)
                           /\ FirstFailure(q)' <=> FirstFailure(q)
    BY Zenon, <1>1 DEF Created, FirstFailure
  <2>2. CASE run.pc \in {"idle", "alloc", "create", "wait"}
    BY <1>1, <1>2, <2>1, <2>2 DEF RunInv, RunPhase
  <2>3. CASE run.pc \in {"stop", "join"}
    BY Zenon, <1>1, <1>2, <2>1, <2>3 DEF RunInv, RunPhase
  <2>4. CASE run.pc \in {"clear", "stats", "free", "returned", "oops"}
    BY Zenon, <1>1, <1>2, <2>1, <2>4 DEF RunInv, RunPhase
  <2> QED BY Zenon, <1>2, <2>2, <2>3, <2>4 DEF RunPC
<1>4. StopRequests' BY Zenon, <1>1, <1>2 DEF RunInv, StopRequests
<1>5. RunFlags' BY Zenon, <1>1, <1>2 DEF RunInv, RunFlags
<1>6. Tasks' BY Zenon, <1>1, <1>2 DEF RunInv, Tasks, Created
<1> QED BY Zenon, <1>3, <1>4, <1>5, <1>6 DEF RunInv

\* Where the loops of kio_run() over i go.
LEMMA RunLoopEffect ==
  ASSUME run \in RunFrame, NEW again, NEW done, RunLoop(again, done)
  PROVE  /\ run'.result = run.result
         /\ IF run.i + 1 < NumThreads
            THEN run'.pc = again /\ run'.i = run.i + 1
            ELSE run'.pc = done /\ run'.i = 0
  BY Zenon DEF RunLoop, RunFrame

\* Each step of kio_run() keeps its invariant.
LEMMA RunKeepsRunInv ==
  ASSUME Accounting, RunStep PROVE RunInv'
<1>1. /\ run \in RunFrame /\ run.i \in Threads
      /\ kthread \in [Threads -> KThread] /\ pc \in [Threads -> ThreadPC]
  BY Zenon DEF Accounting, TypeOK, RunFrame
<1>2. RunPhase /\ StopRequests /\ RunFlags /\ Tasks
  BY Zenon DEF Accounting, RunInv
<1>3. NumThreads \in Nat \ {0} /\ \A t \in Threads : t \in Nat /\ t < NumThreads
  BY KioRunAssumption DEF Threads
<1>4. ASSUME UNCHANGED <<kthread, pc>>, run'.i = run.i,
             run'.result = run.result,
             \/ run.pc = "idle" /\ run'.pc = "alloc"
             \/ run.pc = "alloc" /\ run'.pc = "create"
      PROVE  RunPhase' /\ StopRequests' /\ Tasks'
  <2>1. RunPhase' BY <1>2, <1>3, <1>4 DEF RunPhase
  <2>2. StopRequests' BY Zenon, <1>2, <1>4 DEF StopRequests
  <2>3. Tasks' BY Zenon, <1>2, <1>4 DEF Tasks, Created
  <2> QED BY Zenon, <2>1, <2>2, <2>3
<1>5. CASE Run_Reject
  <2>1. /\ run.pc = "idle" /\ run'.pc = "returned" /\ run'.result = "ERANGE"
        /\ UNCHANGED <<kio_running, ths, kthread, pc>>
    BY <1>5, <1>1 DEF Run_Reject, RunReturn, RunFrame, thVars
  <2>2. \A t \in Threads : kthread[t].task = "null" /\ pc[t] = "none"
    BY Zenon, <1>2, <2>1 DEF RunPhase, Tasks, Created
  <2> QED BY Zenon, <1>2, <2>1, <2>2
          DEF RunInv, RunPhase, StopRequests, RunFlags, Tasks, Created
<1>6. CASE Run_Begin
  <2>1. /\ run.pc = "idle" /\ run'.pc = "alloc"
        /\ kio_running' = TRUE
        /\ run'.i = run.i /\ run'.result = run.result
        /\ UNCHANGED <<ths, kthread, pc>>
    BY <1>6, <1>1 DEF Run_Begin, RunGoto, RunFrame, thVars
  <2>2. RunFlags' BY Zenon, <2>1 DEF RunFlags
  <2> QED BY Zenon, <1>4, <2>1, <2>2 DEF RunInv
<1>7. CASE Run_Alloc
  <2>1. /\ run.pc = "alloc" /\ run'.pc = "create" /\ ths' = "live"
        /\ run'.i = run.i /\ run'.result = run.result
        /\ UNCHANGED <<kio_running, kthread, pc>>
    BY Zenon, <1>7, <1>1 DEF Run_Alloc, RunGoto, RunFrame, thVars
  <2> QED BY Zenon, <1>2, <1>4, <2>1 DEF RunInv, RunFlags
<1>8. CASE Run_AllocFails
  <2>1. /\ run.pc = "alloc" /\ run'.pc = "returned" /\ run'.result = "ENOMEM"
        /\ UNCHANGED <<kio_running, ths, kthread, pc>>
    BY Zenon, <1>8, <1>1 DEF Run_AllocFails, RunReturn, RunFrame, thVars
  <2>2. \A t \in Threads : kthread[t].task = "null" /\ pc[t] = "none"
    BY Zenon, <1>2, <2>1 DEF RunPhase, Tasks, Created
  <2> QED BY Zenon, <1>2, <2>1, <2>2
          DEF RunInv, RunPhase, StopRequests, RunFlags, Tasks, Created
<1>9. CASE Run_Create
  <2>1. /\ run.pc = "create" /\ run'.result = run.result
        /\ IF run.i + 1 < NumThreads
           THEN run'.pc = "create" /\ run'.i = run.i + 1
           ELSE run'.pc = "wait" /\ run'.i = 0
        /\ UNCHANGED <<kio_running, ths>>
    BY Zenon, <1>9, <1>1, RunLoopEffect DEF Run_Create
  <2>2. \A t \in Threads :
          /\ kthread'[t].task = IF t = run.i THEN "ok" ELSE kthread[t].task
          /\ kthread'[t].should_stop = kthread[t].should_stop
          /\ pc'[t] = IF t = run.i THEN "start" ELSE pc[t]
    BY Zenon, <1>9, <1>1 DEF Run_Create, KThread
  <2>3. RunPhase'
    <3>1. \A t \in Threads :
            kthread[t].task = IF t < run.i THEN "ok" ELSE "null"
      BY Zenon, <1>2, <2>1 DEF RunPhase
    <3>2. \A t \in Threads :
            kthread'[t].task = IF t < run.i + 1 THEN "ok" ELSE "null"
      BY <1>1, <1>3, <2>2, <3>1
    <3>3. run.result = "ok" BY Zenon, <1>2, <2>1 DEF RunPhase
    <3>4. CASE run.i + 1 < NumThreads
      BY Zenon, <2>1, <3>2, <3>3, <3>4 DEF RunPhase
    <3>5. CASE ~(run.i + 1 < NumThreads)
      <4>1. \A t \in Threads : kthread'[t].task = "ok"
        BY <1>1, <1>3, <3>2, <3>5
      <4> QED BY Zenon, <2>1, <3>3, <3>5, <4>1 DEF RunPhase, Created
    <3> QED BY Zenon, <3>4, <3>5
  <2>4. StopRequests' BY Zenon, <1>2, <2>1, <2>2 DEF StopRequests
  <2>5. RunFlags' BY Zenon, <1>2, <2>1 DEF RunFlags
  <2>6. Tasks'
    <3>1. ASSUME NEW t \in Threads
          PROVE  /\ Created(t)' <=> pc'[t] # "none"
                 /\ kthread'[t].task = "err" => run'.result = "EAGAIN"
      <4>1. /\ Created(t) <=> pc[t] # "none"
            /\ kthread[t].task = "err" => run.result = "EAGAIN"
        BY Zenon, <1>2 DEF Tasks
      <4>2. CASE t = run.i BY Zenon, <2>2, <4>2 DEF Created
      <4>3. CASE t # run.i BY Zenon, <2>1, <2>2, <4>1, <4>3 DEF Created
      <4> QED BY Zenon, <4>2, <4>3
    <3> QED BY Zenon, <3>1 DEF Tasks
  <2> QED BY Zenon, <2>3, <2>4, <2>5, <2>6 DEF RunInv
<1>10. CASE Run_CreateFails
  <2>1. /\ run.pc = "create" /\ run'.result = "EAGAIN" /\ run'.i = 0
        /\ \/ run.i = 0 /\ run'.pc = "returned" /\ ths' = "freed"
           \/ run.i # 0 /\ run'.pc = "stop" /\ ths' = ths
        /\ UNCHANGED <<kio_running, pc>>
    BY Zenon, <1>10, <1>1 DEF Run_CreateFails, RunReturn, RunFrame
  <2>2. \A t \in Threads :
          /\ kthread'[t].task = IF t = run.i THEN "err" ELSE kthread[t].task
          /\ kthread'[t].should_stop = kthread[t].should_stop
    BY <1>10, <1>1 DEF Run_CreateFails, KThread
  <2>3. \A t \in Threads : t >= run.i => pc[t] = "none"
    BY <1>1, <1>2, <1>3, <2>1 DEF RunPhase, Tasks, Created
  <2>4. RunPhase'
    <3>1. CASE run.i = 0
      BY <1>1, <1>3, <2>1, <2>3, <3>1 DEF RunPhase
    <3>2. CASE run.i # 0
      <4>1. PICK e \in Threads : e = run.i BY Zenon, <1>1
      <4>2. \A t \in Threads : t < e => kthread[t].task = "ok"
        BY Zenon, <1>2, <2>1, <4>1 DEF RunPhase
      <4>3. FirstFailure(e)'
        BY <1>1, <1>3, <2>1, <2>2, <4>1, <4>2 DEF FirstFailure, Created
      <4>4. \A t \in Threads : ~(t < 0) BY <1>3
      <4> QED BY Zenon, <2>1, <3>2, <4>3, <4>4 DEF RunPhase
    <3> QED BY Zenon, <3>1, <3>2
  <2>5. StopRequests' BY Zenon, <1>2, <2>1, <2>2 DEF StopRequests
  <2>6. RunFlags' BY Zenon, <1>2, <2>1 DEF RunFlags
  <2>7. Tasks' BY <1>1, <1>2, <1>3, <2>1, <2>2, <2>3 DEF Tasks, Created
  <2> QED BY Zenon, <2>4, <2>5, <2>6, <2>7 DEF RunInv
<1>11. CASE Run_WaitEnds
  <2>1. /\ run.pc = "wait" /\ run'.pc = "stop" /\ run'.i = run.i
        /\ run'.result \in {"ok", "EINTR"}
        /\ UNCHANGED <<kio_running, ths, kthread, pc>>
    BY Zenon, <1>11, <1>1 DEF Run_WaitEnds, RunFrame, thVars
  <2>2. RunPhase' BY <1>1, <1>2, <1>3, <2>1 DEF RunPhase, Created
  <2>3. StopRequests' BY Zenon, <1>2, <2>1 DEF StopRequests
  <2>4. RunFlags' BY Zenon, <1>2, <2>1 DEF RunFlags
  <2>5. Tasks' BY Zenon, <1>2, <2>1 DEF RunPhase, Tasks, Created
  <2> QED BY Zenon, <2>2, <2>3, <2>4, <2>5 DEF RunInv
<1>12. CASE Run_Stop
  <2>1. /\ run.pc = "stop" /\ kthread[run.i].task # "err"
        /\ UNCHANGED <<kio_running, ths, pc>>
    BY Zenon, <1>12 DEF Run_Stop
  \* the null pointer the code provides for is never met
  <2>2. CASE kthread[run.i].task = "null"
    <3>1. PICK e \in Threads : FirstFailure(e)
      BY Zenon, <1>1, <1>2, <2>1, <2>2 DEF RunPhase, Created
    <3>2. e > run.i BY <1>1, <1>3, <2>2, <3>1 DEF FirstFailure
    <3> QED BY Zenon, <1>1, <2>2, <3>1, <3>2 DEF FirstFailure, Created
  <2>3. CASE kthread[run.i].task # "null"
    <3>1. kthread' = [kthread EXCEPT ![run.i].should_stop = TRUE,
                                     ![run.i].asleep = FALSE]
      BY Zenon, <1>12, <2>3 DEF Run_Stop
    <3>2. \A t \in Threads :
            /\ kthread'[t].task = kthread[t].task
            /\ t # run.i => kthread'[t].should_stop = kthread[t].should_stop
      BY Zenon, <1>1, <3>1 DEF KThread
    <3>3. run'.pc = "join" /\ run'.i = run.i /\ run'.result = run.result
      BY Zenon, <1>1, <1>12, <2>3 DEF Run_Stop, RunGoto, RunFrame
    <3>4. Created(run.i) BY Zenon, <1>1, <2>1, <2>3 DEF Created, KThread
    <3>5. ASSUME NEW e \in Threads, FirstFailure(e) PROVE FirstFailure(e)'
      BY Zenon, <3>2, <3>3, <3>5 DEF FirstFailure, Created
    <3>a. Created(run.i)' /\ \A t \in Threads : Created(t)' <=> Created(t)
      BY Zenon, <1>1, <3>2, <3>3, <3>4 DEF Created
    <3>b. RunPhase' BY Zenon, <1>2, <2>1, <3>3, <3>5, <3>a DEF RunPhase
    <3>6. StopRequests'
      BY <1>1, <1>2, <1>3, <2>1, <3>2, <3>3 DEF StopRequests
    <3>7. RunFlags' BY Zenon, <1>2, <2>1, <3>3 DEF RunFlags
    <3>8. Tasks' BY Zenon, <1>2, <2>1, <3>2, <3>3 DEF Tasks, Created
    <3> QED BY Zenon, <3>b, <3>6, <3>7, <3>8 DEF RunInv
  <2> QED BY Zenon, <2>2, <2>3
<1>13. CASE Run_StopOops
  <2>1. /\ run.pc = "stop" /\ run'.pc = "oops" /\ run'.i = run.i
        /\ run'.result = run.result
        /\ kthread[run.i].task = "err" \/ pc[run.i] = "exited"
        /\ UNCHANGED <<kio_running, ths, kthread, pc>>
    BY Zenon, <1>13, <1>1 DEF Run_StopOops, RunGoto, RunFrame, thVars
  <2>2. ~kthread[run.i].should_stop
    BY <1>1, <1>2, <1>3, <2>1 DEF StopRequests
  <2>3. RunPhase' BY Zenon, <2>1, <2>2 DEF RunPhase
  <2>4. StopRequests' BY Zenon, <2>1 DEF StopRequests
  <2>5. RunFlags' BY Zenon, <1>2, <2>1 DEF RunFlags
  <2>6. Tasks' BY Zenon, <1>2, <2>1 DEF Tasks, Created
  <2> QED BY Zenon, <2>3, <2>4, <2>5, <2>6 DEF RunInv
<1>14. CASE Run_Join
  <2>1. /\ run.pc = "join" /\ pc[run.i] = "exited"
        /\ run'.result = run.result
        /\ IF run.i + 1 < NumThreads
           THEN run'.pc = "stop" /\ run'.i = run.i + 1
           ELSE run'.pc = "clear" /\ run'.i = 0
        /\ UNCHANGED <<kio_running, ths, kthread, pc>>
    BY Zenon, <1>14, <1>1, RunLoopEffect DEF Run_Join, thVars
  <2>2. \A t \in Threads : t < run.i + 1 => pc[t] = "exited"
    BY <1>1, <1>2, <1>3, <2>1 DEF RunPhase
  <2>3. \/ /\ run.result = "EAGAIN"
           /\ \E e \in Threads : FirstFailure(e) /\ e >= run.i + 1
        \/ /\ run.result \in {"ok", "EINTR"}
           /\ \A t \in Threads : Created(t)
    BY <1>1, <1>2, <1>3, <2>1 DEF RunPhase, Created, FirstFailure
  <2>4. RunPhase'
    <3>1. CASE run.i + 1 < NumThreads
      <4>1. \A e \in Threads : FirstFailure(e) /\ e >= run.i + 1
                                 => FirstFailure(e)'
        BY Zenon, <2>1, <3>1 DEF FirstFailure, Created
      <4> QED BY Zenon, <2>1, <2>2, <2>3, <3>1, <4>1 DEF RunPhase, Created
    <3>2. CASE ~(run.i + 1 < NumThreads)
      <4>1. \A t \in Threads : t < run.i + 1 BY <1>1, <1>3, <3>2
      <4>2. run.result \in {"ok", "EINTR"} BY <1>1, <1>3, <2>3, <4>1
      <4> QED BY Zenon, <2>1, <2>2, <3>2, <4>1, <4>2 DEF RunPhase
    <3> QED BY Zenon, <3>1, <3>2
  <2>5. StopRequests' BY <1>1, <1>2, <1>3, <2>1 DEF StopRequests
  <2>6. RunFlags' BY Zenon, <1>2, <2>1 DEF RunFlags
  <2>7. Tasks' BY Zenon, <1>2, <2>1 DEF Tasks, Created
  <2> QED BY Zenon, <2>4, <2>5, <2>6, <2>7 DEF RunInv
<1>15. CASE Run_Clear
  <2>1. /\ run.pc = "clear" /\ kio_running' = FALSE
        /\ run'.pc \in {"stats", "free"} /\ run'.result = run.result
        /\ UNCHANGED <<ths, kthread, pc>>
    BY Zenon, <1>15, <1>1 DEF Run_Clear, RunGoto, RunFrame, thVars
  <2>2. RunPhase' BY Zenon, <1>2, <2>1 DEF RunPhase
  <2>3. StopRequests' BY Zenon, <2>1 DEF StopRequests
  <2>4. RunFlags' BY Zenon, <1>2, <2>1 DEF RunFlags
  <2>5. Tasks' BY Zenon, <1>2, <2>1 DEF Tasks, Created
  <2> QED BY Zenon, <2>2, <2>3, <2>4, <2>5 DEF RunInv
<1>16. CASE Run_Stats
  <2>1. /\ run.pc = "stats" /\ run'.result = run.result
        /\ run'.pc \in {"stats", "free"}
        /\ UNCHANGED <<kio_running, ths, kthread, pc>>
    BY Zenon, <1>16, <1>1, RunLoopEffect DEF Run_Stats, thVars
  <2>2. RunPhase' BY Zenon, <1>2, <2>1 DEF RunPhase
  <2>3. StopRequests' BY Zenon, <2>1 DEF StopRequests
  <2>4. RunFlags' BY Zenon, <1>2, <2>1 DEF RunFlags
  <2>5. Tasks' BY Zenon, <1>2, <2>1 DEF Tasks, Created
  <2> QED BY Zenon, <2>2, <2>3, <2>4, <2>5 DEF RunInv
<1>17. CASE Run_Free
  <2>1. /\ run.pc = "free" /\ run'.pc = "returned" /\ run'.result = run.result
        /\ UNCHANGED <<kio_running, kthread, pc>>
    BY Zenon, <1>17, <1>1 DEF Run_Free, RunGoto, RunFrame, thVars
  <2>2. RunPhase' BY Zenon, <1>2, <2>1 DEF RunPhase
  <2>3. StopRequests' BY Zenon, <2>1 DEF StopRequests
  <2>4. RunFlags' BY Zenon, <1>2, <2>1 DEF RunFlags, RunPhase
  <2>5. Tasks' BY Zenon, <1>2, <2>1 DEF Tasks, Created
  <2> QED BY Zenon, <2>2, <2>3, <2>4, <2>5 DEF RunInv
<1> QED
  BY Zenon, <1>5, <1>6, <1>7, <1>8, <1>9, <1>10, <1>11, <1>12, <1>13, <1>14,
           <1>15, <1>16, <1>17 DEF RunStep

-----------------------------------------------------------------------------
(***************************************************************************)
(* The inductive invariant and what follows from it                        *)
(***************************************************************************)

\* kio_run() starts and stops threads, but keeps no books.
LEMMA RunKeepsBooks ==
  ASSUME Accounting, RunStep, NEW t \in Threads PROVE Accounted(t)'
<1>1. TypeOK /\ RunInv /\ Accounted(t) BY Zenon DEF Accounting
<1>2. UNCHANGED <<th, result, queued, timed, late, pages, submitted>>
  BY DEF RunStep, Run_Reject, Run_Begin, Run_Alloc, Run_AllocFails, Run_Create,
     Run_CreateFails, Run_WaitEnds, Run_Stop, Run_StopOops, Run_Join, Run_Clear,
     Run_Stats, Run_Free, thVars, bioVars
<1>3. InFlight(t)' = InFlight(t) /\ Late(t)' = Late(t)
  BY Zenon, <1>2 DEF InFlight, InFlightDir, Late
<1>4. pc'[t] = pc[t] \/ (pc[t] = "none" /\ pc'[t] = "start")
  <2>1. CASE Run_Create
    <3>1. /\ pc \in [Threads -> ThreadPC] /\ run.i \in Threads
          /\ run.i \in Nat
      BY <1>1, KioRunAssumption DEF TypeOK, RunFrame, Threads
    <3>2. pc[run.i] = "none"
      BY <1>1, <2>1, <3>1 DEF Run_Create, RunInv, RunPhase, Tasks, Created
    <3> QED BY Zenon, <2>1, <3>1, <3>2 DEF Run_Create
  <2>2. CASE ~Run_Create
    BY <2>2 DEF RunStep, Run_Reject, Run_Begin, Run_Alloc, Run_AllocFails,
       Run_CreateFails, Run_WaitEnds, Run_Stop, Run_StopOops, Run_Join,
       Run_Clear, Run_Stats, Run_Free, thVars
  <2> QED BY Zenon, <2>1, <2>2
<1> QED BY Zenon, <1>1, <1>2, <1>3, <1>4 DEF Accounted, Count, Leaving

\* Before kio_run() begins there is nothing to account for.
LEMMA InitAccounting == Init => Accounting
<1> SUFFICES ASSUME Init PROVE Accounting OBVIOUS
<1>1. 0 \in Threads BY KioRunAssumption DEF Threads
<1>2. TypeOK
  <2>1. run \in RunFrame /\ st \in KioRunStats
    BY Zenon, <1>1 DEF Init, RunFrame, RunPC, KioRunStats
  <2>2. th \in [Threads -> KioThread] BY Zenon DEF Init, KioThread
  <2>3. kthread \in [Threads -> KThread] BY Zenon DEF Init, KThread
  <2>4. pc \in [Threads -> ThreadPC] BY Zenon DEF Init, ThreadPC
  <2> QED BY Zenon, <2>1, <2>2, <2>3, <2>4 DEF Init, TypeOK
<1>3. RunInv
  BY Zenon DEF Init, RunInv, RunPhase, StopRequests, RunFlags, Tasks, Created
<1>4. ASSUME NEW t \in Threads PROVE Accounted(t)
  <2>0. /\ queued = [q \in Threads |-> [d \in Dirs |-> 0]]
        /\ timed = [q \in Threads |-> [d \in Dirs |-> 0]]
    BY Zenon DEF Init
  <2>1. InFlight(t) = 0
    <3>1. /\ queued[t]["read"] = 0 /\ queued[t]["write"] = 0
          /\ timed[t]["read"] = 0 /\ timed[t]["write"] = 0
      BY Zenon, <2>0 DEF Dirs
    <3> QED BY <3>1 DEF InFlight, InFlightDir
  <2>2. Late(t) = 0 BY DEF Init, Late, LateStage
  <2>3. queued[t]["write"] = 0 /\ queued[t]["read"] = 0 BY Zenon, <2>0 DEF Dirs
  <2>4. /\ pc[t] = "none" /\ result[t] = "ok"
        /\ th[t].dispatched = 0 /\ th[t].clat_total = 0
        /\ pages[t] = 0 /\ submitted[t] = 0
    BY Zenon DEF Init
  <2> QED BY <2>1, <2>2, <2>3, <2>4 DEF Accounted, Count
<1> QED BY Zenon, <1>2, <1>3, <1>4 DEF Accounting

\* The invariant is about the variables only.
LEMMA StutterKeepsAccounting ==
  ASSUME Accounting, UNCHANGED vars PROVE Accounting'
<1>1. UNCHANGED <<config, kio_running, run, ths, emergency_stop, st, th, kthread,
                  pc, result, queued, timed, late, pages, submitted>>
  BY Zenon DEF vars, runVars, thVars, bioVars
<1>2. TypeOK' BY Zenon, <1>1 DEF Accounting, TypeOK
<1>3. RunPhase'
  BY Zenon, <1>1 DEF Accounting, RunInv, RunPhase, Created, FirstFailure
<1>4. StopRequests' /\ RunFlags' /\ Tasks'
  BY Zenon, <1>1 DEF Accounting, RunInv, StopRequests, RunFlags, Tasks, Created
<1>5. ASSUME NEW t \in Threads PROVE Accounted(t)'
  <2>1. Accounted(t) BY Zenon DEF Accounting
  <2>2. InFlight(t)' = InFlight(t) /\ Late(t)' = Late(t)
    BY Zenon, <1>1 DEF InFlight, InFlightDir, Late
  <2> QED BY Zenon, <1>1, <2>1, <2>2 DEF Accounted
<1> QED BY Zenon, <1>2, <1>3, <1>4, <1>5 DEF Accounting, RunInv

\* Every step keeps the invariant.
LEMMA NextKeepsAccounting == Accounting /\ [Next]_vars => Accounting'
<1> SUFFICES ASSUME Accounting, [Next]_vars PROVE Accounting' OBVIOUS
<1>1. CASE RunStep
  <2>1. TypeOK' BY Zenon, <1>1, RunStepType DEF Accounting
  <2>2. RunInv' BY Zenon, <1>1, RunKeepsRunInv
  <2>3. \A t \in Threads : Accounted(t)' BY Zenon, <1>1, RunKeepsBooks
  <2> QED BY Zenon, <2>1, <2>2, <2>3 DEF Accounting
<1>2. ASSUME NEW t \in Threads, ThreadStep(t) \/ Signal(t) \/ Completion(t)
      PROVE  Accounting'
  <2>1. TypeOK' BY Zenon, <1>2, ThreadStepType, CompletionType
  <2>2. RunInv' BY Zenon, <1>2, ThreadsKeepRunInv
  <2>3. Accounted(t)' BY Zenon, <1>2, <2>1, OwnBooksKept
  <2>4. ASSUME NEW q \in Threads, q # t PROVE Accounted(q)'
    <3>1. UNCHANGED ThreadState(q)
      BY Zenon, <1>2, <2>4, OtherThreadsUnchanged DEF Accounting
    <3>2. Accounted(q) BY Zenon DEF Accounting
    <3> QED BY Zenon, <3>1, <3>2
            DEF ThreadState, Accounted, InFlight, InFlightDir, Late
  <2> QED BY Zenon, <2>1, <2>2, <2>3, <2>4 DEF Accounting
<1>3. CASE UNCHANGED vars BY Zenon, <1>3, StutterKeepsAccounting
<1> QED BY Zenon, <1>1, <1>2, <1>3 DEF Next, Over

\* The inductive invariant of a run: types, the phases of kio_run() and the
\* books of every thread in kio_thread_fn() and kio_bio_completion().
THEOREM AccountingInvariant == Spec => []Accounting
  BY InitAccounting, NextKeepsAccounting, PTL DEF Spec

\* Every variable keeps its type: in particular kio_bio_completion() never
\* takes th->dispatched below zero and kio_thread_next_dir() never wraps a
\* burst counter.
THEOREM TypeCorrect == Spec => []TypeOK
<1>1. Accounting => TypeOK BY Zenon DEF Accounting
<1> QED BY <1>1, AccountingInvariant, PTL

\* th->dispatched counts the bios in flight exactly, in every interleaving of
\* kio_thread_fn() with any number of running kio_bio_completion()s.
THEOREM DispatchedIsExact == Spec => []DispatchedCountsInFlight
<1>1. Accounting => DispatchedCountsInFlight
  BY Zenon DEF Accounting, Accounted, DispatchedCountsInFlight
<1> QED BY <1>1, AccountingInvariant, PTL

\* kio_thread_fn() and kio_bio_completion() account for every page, but for the
\* one that a failed kio_io_submit() leaks.
THEOREM NoPageLost == Spec => []PagesAccounted
<1>1. Accounting => PagesAccounted
  BY Zenon DEF Accounting, Accounted, PagesAccounted
<1> QED BY <1>1, AccountingInvariant, PTL

\* kio_run() has kio_running set and the array allocated as long as any of its
\* threads runs.
THEOREM FlagCoversThreads == Spec => []RunningCoversThreads
<1>1. Accounting => RunningCoversThreads
  <2> SUFFICES ASSUME Accounting, NEW t \in Threads,
                      pc[t] \notin {"none", "exited"}
               PROVE  kio_running /\ ths = "live"
    BY Zenon DEF RunningCoversThreads
  <2>1. RunInv /\ run.pc \in RunPC
    BY Zenon DEF Accounting, TypeOK, RunFrame
  <2>2. run.pc \in {"create", "wait", "stop", "join", "oops"}
    BY Zenon, <2>1 DEF RunInv, RunPhase, Tasks, Created, RunPC
  <2> QED BY Zenon, <2>1, <2>2 DEF RunInv, RunFlags
<1> QED BY <1>1, AccountingInvariant, PTL

\* kio_run() clears kio_running before it returns, except on its two early
\* returns.
THEOREM FlagCleared == Spec => []FlagClearedUnlessSetupFails
<1>1. Accounting => FlagClearedUnlessSetupFails
  BY Zenon DEF Accounting, RunInv, RunFlags, FlagClearedUnlessSetupFails
<1> QED BY <1>1, AccountingInvariant, PTL
=============================================================================
