-------------------------- MODULE KioConfigProofs --------------------------
(***************************************************************************)
(* What KioConfig promises for any number of writers and processors: the   *)
(* number of threads is set once, a run's parameters stay as they are, and *)
(* no handler touches a thread array that is gone; a run reads values that *)
(* were checked, but for the few stores that land in it.  Then follows,    *)
(* step by step, that KioConfig implements KioSettings, and that the       *)
(* handlers never all wait for each other.                                 *)
(***************************************************************************)
EXTENDS KioConfigSettings, FiniteSetTheorems, TLAPS

\* The types, but for the thread configurations, which do not matter here.
StructType ==
  /\ mutex \in Writers \cup {None}
  /\ kio_running \in BOOLEAN
  /\ num_threads \in 0 .. Cpus
  /\ threads \in {"null", "live"}
  /\ kobj \in [Tids -> KobjState]
  /\ corrupt \in {"no", "put", "array"}
  /\ failed \in {"no", "array", "kobj", "file"}
  /\ w \in [Writers -> Frame]

\* Where a handler is inside its critical section, where it creates or takes
\* down threads, where it runs them, and where it works on one of them.
Building == {"ntkobj", "ntfiles", "ntput", "ntdestroy", "ntfree"}
Running  == {"rvalid", "rfit", "rcap", "rrest", "rsize", "rstart", "running"}
Critical == {"body", "ntalloc", "unlock"} \cup Building \cup Running
Storing  == {"vcheck", "vlookup", "vassign"}

\* What handler q relies on.
HandlerInv(q) ==
  /\ w[q].pc \in Critical => mutex = q
  /\ w[q].pc \in {"idle", "lock", "body", "ntalloc"} => w[q].i = 0
  /\ w[q].pc = "ntalloc" => /\ num_threads = 0 /\ threads = "null"
                            /\ w[q].arg \in 1 .. Cpus
  /\ w[q].pc \in Building => threads = "live" /\ w[q].i < num_threads
  /\ w[q].pc \in {"ntkobj", "ntfiles"} => failed \in {"no", "array"}
  /\ w[q].pc = "ntput" => failed = "file"
  /\ w[q].pc = "ntdestroy" => \A t \in Tids : t < w[q].i => kobj[t] = "null"
  /\ w[q].pc = "ntfree" => \A t \in Tids : kobj[t] = "null"
  /\ w[q].pc \in Running => threads = "live"
  /\ w[q].pc \in Storing => kobj[w[q].tid] \in {"live", "removing"}

\* What holds between the handlers.
SharedInv ==
  /\ \A t \in Tids : kobj[t] # "null" => threads = "live" /\ t < num_threads
  /\ \A t \in Tids : kobj[t] = "dangling" => failed = "file"
  /\ failed \in {"kobj", "file"} => num_threads > 0
  /\ threads = "live" => num_threads > 0
  /\ MemorySafe

ConfigInv == StructType /\ SharedInv /\ \A q \in Writers : HandlerInv(q)

-----------------------------------------------------------------------------
\* num_online_cpus() is positive.
LEMMA CpusPositive == Cpus \in Nat /\ Cpus > 0
BY KioConfigAssumption

\* A handler that goes to a label changes nothing else of its frame, and no
\* other frame.
LEMMA GotoEffect ==
  ASSUME w \in [Writers -> Frame], NEW p \in Writers, NEW label \in PC,
         Goto(p, label)
  PROVE  /\ w' \in [Writers -> Frame]
         /\ w'[p] = [w[p] EXCEPT !.pc = label]
         /\ w'[p].pc = label
         /\ w'[p].i = w[p].i /\ w'[p].arg = w[p].arg /\ w'[p].tid = w[p].tid
         /\ \A q \in Writers : q # p => w'[q] = w[q]
<1>1. w' = [w EXCEPT ![p].pc = label]
  BY Zenon DEF Goto
<1>2. w'[p] = [w[p] EXCEPT !.pc = label] /\ \A q \in Writers : q # p => w'[q] = w[q]
  BY Zenon, <1>1
<1>3. w[p] \in Frame
  OBVIOUS
<1>4. [w[p] EXCEPT !.pc = label] \in Frame
  BY Zenon, <1>3 DEF Frame
<1>5. w' \in [Writers -> Frame]
  BY Zenon, <1>1, <1>2, <1>4
<1>6. /\ w'[p].pc = label
      /\ w'[p].i = w[p].i /\ w'[p].arg = w[p].arg /\ w'[p].tid = w[p].tid
  BY Zenon, <1>2, <1>3 DEF Frame
<1> QED BY Zenon, <1>2, <1>5, <1>6

\* A handler that returns leaves an idle frame.
LEMMA ReturnEffect ==
  ASSUME w \in [Writers -> Frame], NEW p \in Writers, Return(p)
  PROVE  /\ w' \in [Writers -> Frame]
         /\ w'[p].pc = "idle" /\ w'[p].i = 0
         /\ \A q \in Writers : q # p => w'[q] = w[q]
<1>1. w' = [w EXCEPT ![p] = IdleFrame]
  BY Zenon DEF Return
<1>2. IdleFrame \in Frame /\ IdleFrame.pc = "idle" /\ IdleFrame.i = 0
  <2>1. 0 \in Tids /\ 0 \in Int
    BY CpusPositive DEF Tids
  <2>2. "idle" \in PC /\ "block_size" \in ThreadVars
    BY Zenon DEF PC, ThreadVars
  <2> QED BY Zenon, <2>1, <2>2 DEF IdleFrame, Frame
<1> QED BY Zenon, <1>1, <1>2

\* A handler that goes to a label and starts over with i.
LEMMA RestartEffect ==
  ASSUME w \in [Writers -> Frame], NEW p \in Writers, NEW label \in PC,
         w' = [w EXCEPT ![p].pc = label, ![p].i = 0]
  PROVE  /\ w' \in [Writers -> Frame]
         /\ w'[p].pc = label /\ w'[p].i = 0
         /\ \A q \in Writers : q # p => w'[q] = w[q]
<1>1. /\ w'[p] = [w[p] EXCEPT !.pc = label, !.i = 0]
      /\ \A q \in Writers : q # p => w'[q] = w[q]
  OBVIOUS
<1>2. w[p] \in Frame /\ 0 \in Tids
  BY CpusPositive DEF Tids
<1>3. w'[p] \in Frame /\ w'[p].pc = label /\ w'[p].i = 0
  BY Zenon, <1>1, <1>2 DEF Frame
<1> QED BY Zenon, <1>1, <1>3

\* The loops over i stay below their bound.
LEMMA LoopEffect ==
  ASSUME w \in [Writers -> Frame], NEW p \in Writers,
         NEW last \in 0 .. Cpus, NEW again \in PC, NEW done \in PC,
         Loop(p, last, again, done)
  PROVE  /\ w' \in [Writers -> Frame]
         /\ \/ w[p].i + 1 < last /\ w'[p].pc = again /\ w'[p].i = w[p].i + 1
            \/ ~(w[p].i + 1 < last) /\ w'[p].pc = done /\ w'[p].i = 0
         /\ \A q \in Writers : q # p => w'[q] = w[q]
<1>1. CASE w[p].i + 1 < last
  <2>1. w' = [w EXCEPT ![p].pc = again, ![p].i = @ + 1]
    BY Zenon, <1>1 DEF Loop
  <2>2. /\ w'[p] = [w[p] EXCEPT !.pc = again, !.i = w[p].i + 1]
        /\ \A q \in Writers : q # p => w'[q] = w[q]
    BY Zenon, <2>1
  <2>3. w[p] \in Frame /\ w[p].i + 1 \in Tids
    <3>1. w[p] \in Frame
      OBVIOUS
    <3>2. w[p].i \in Tids
      BY Zenon, <3>1 DEF Frame
    <3>3. w[p].i \in Int /\ w[p].i >= 0
      BY <3>2, CpusPositive DEF Tids
    <3>4. last \in Int /\ last <= Cpus
      BY CpusPositive
    <3> QED BY <1>1, <3>1, <3>3, <3>4, CpusPositive DEF Tids
  <2>4. w'[p] \in Frame /\ w'[p].pc = again /\ w'[p].i = w[p].i + 1
    BY Zenon, <2>2, <2>3 DEF Frame
  <2> QED BY Zenon, <1>1, <2>1, <2>2, <2>4
<1>2. CASE ~(w[p].i + 1 < last)
  <2>1. w' = [w EXCEPT ![p].pc = done, ![p].i = 0]
    BY Zenon, <1>2 DEF Loop
  <2> QED BY Zenon, <1>2, <2>1, RestartEffect
<1> QED BY Zenon, <1>1, <1>2

\* While p is in its critical section, everybody else is outside of theirs.
LEMMA OthersOutside ==
  ASSUME ConfigInv, NEW p \in Writers, mutex = p,
         NEW q \in Writers, q # p
  PROVE  w[q].pc \notin Critical
BY Zenon DEF ConfigInv, HandlerInv

\* A handler outside of its critical section relies on its directory only.
LEMMA OutsideKeeps ==
  ASSUME NEW q \in Writers, w[q].pc \notin Critical, w'[q] = w[q], HandlerInv(q),
         w[q].pc \in Storing => kobj'[w[q].tid] \in {"live", "removing"}
  PROVE  HandlerInv(q)'
BY Zenon DEF HandlerInv, Critical, Building, Running

\* A step that changes nothing but where p is.
LEMMA Moves ==
  ASSUME ConfigInv, NEW p \in Writers,
         UNCHANGED <<mutex, num_threads, threads, kobj, corrupt, failed>>,
         kio_running' \in BOOLEAN,
         w' \in [Writers -> Frame],
         \A q \in Writers : q # p => w'[q] = w[q],
         HandlerInv(p)'
  PROVE  ConfigInv'
<1>1. StructType' /\ SharedInv'
  BY Zenon DEF ConfigInv, StructType, SharedInv, MemorySafe
<1>2. ASSUME NEW q \in Writers, q # p PROVE HandlerInv(q)'
  BY <1>2 DEF ConfigInv, HandlerInv
<1> QED BY Zenon, <1>1, <1>2 DEF ConfigInv

\* The initial state.
LEMMA InitConfigInv == Init => ConfigInv
<1> SUFFICES ASSUME Init PROVE ConfigInv
  OBVIOUS
<1>1. IdleFrame \in Frame /\ IdleFrame.pc = "idle" /\ IdleFrame.i = 0
  <2>1. 0 \in Tids /\ 0 \in Int
    BY CpusPositive DEF Tids
  <2>2. "idle" \in PC /\ "block_size" \in ThreadVars
    BY Zenon DEF PC, ThreadVars
  <2> QED BY Zenon, <2>1, <2>2 DEF IdleFrame, Frame
<1>2. w \in [Writers -> Frame] /\ \A q \in Writers : w[q].pc = "idle" /\ w[q].i = 0
  BY Zenon, <1>1 DEF Init
<1>3. kobj \in [Tids -> KobjState] /\ \A t \in Tids : kobj[t] = "null"
  BY Zenon DEF Init, KobjState
<1>4. StructType
  <2>1. /\ mutex = None /\ kio_running = FALSE /\ num_threads = 0
        /\ threads = "null" /\ corrupt = "no" /\ failed = "no"
    BY Zenon DEF Init
  <2>2. num_threads \in 0 .. Cpus
    BY <2>1, CpusPositive
  <2> QED BY Zenon, <1>2, <1>3, <2>1, <2>2 DEF StructType
<1>5. SharedInv
  BY Zenon, <1>3 DEF Init, SharedInv, MemorySafe
<1>6. \A q \in Writers : HandlerInv(q)
  BY Zenon, <1>2 DEF HandlerInv, Critical, Building, Running, Storing
<1> QED BY Zenon, <1>4, <1>5, <1>6 DEF ConfigInv

-----------------------------------------------------------------------------
\* A process writes to num_threads, runtime_seconds or run_workload.
LEMMA CallKeeps ==
  ASSUME ConfigInv, NEW p \in Writers,
         NEW op \in {"num_threads", "runtime_seconds", "run_workload"},
         NEW arg \in Int, Call(p, op, arg)
  PROVE  ConfigInv'
<1>1. w' = [w EXCEPT ![p].pc = "lock", ![p].op = op, ![p].arg = arg]
  BY Zenon DEF Call
<1>2. w \in [Writers -> Frame] /\ w[p] \in Frame
  BY Zenon DEF ConfigInv, StructType
<1>3. /\ w'[p] = [w[p] EXCEPT !.pc = "lock", !.op = op, !.arg = arg]
      /\ \A q \in Writers : q # p => w'[q] = w[q]
  BY Zenon, <1>1, <1>2
<1>4. "lock" \in PC
  BY Zenon DEF PC
<1>5. w'[p] \in Frame /\ w'[p].pc = "lock" /\ w'[p].i = w[p].i
  BY Zenon, <1>2, <1>3, <1>4 DEF Frame
<1>6. w' \in [Writers -> Frame]
  BY Zenon, <1>1, <1>2, <1>3, <1>5
<1>7. HandlerInv(p)'
  BY Zenon, <1>5 DEF Call, ConfigInv, HandlerInv, Critical, Building, Running, Storing
<1>8. kio_running' \in BOOLEAN
  BY Zenon DEF Call, ConfigInv, StructType
<1> QED BY Zenon, <1>3, <1>6, <1>7, <1>8, Moves DEF Call, dataVars

\* A process writes to a file of a thread's directory.
LEMMA CallVarKeeps ==
  ASSUME ConfigInv, NEW p \in Writers, NEW t \in Tids, NEW s \in Stores,
         CallVar(p, t, s)
  PROVE  ConfigInv'
<1> DEFINE f == [pc |-> "vcheck", op |-> "var", arg |-> s.value,
                 tid |-> t, var |-> s.var, i |-> 0]
<1>1. w' = [w EXCEPT ![p] = f] /\ kobj[t] = "live"
  BY Zenon DEF CallVar
<1>2. w \in [Writers -> Frame]
  BY Zenon DEF ConfigInv, StructType
<1>3. f \in Frame
  <2>1. s \in [var : ThreadVars, value : Int]
    BY Zenon, KioConfigAssumption
  <2>2. s.var \in ThreadVars /\ s.value \in Int
    BY <2>1
  <2>3. "vcheck" \in PC /\ 0 \in Tids
    BY CpusPositive DEF PC, Tids
  <2> QED BY Zenon, <2>2, <2>3 DEF Frame
<1>4. f.pc = "vcheck" /\ f.tid = t
  OBVIOUS
<1> HIDE DEF f
<1>5. w'[p] = f /\ \A q \in Writers : q # p => w'[q] = w[q]
  BY Zenon, <1>1, <1>2
<1>6. w' \in [Writers -> Frame]
  BY Zenon, <1>1, <1>2, <1>3
<1>7. kobj' = kobj
  BY Zenon DEF CallVar
<1>8. HandlerInv(p)'
  BY Zenon, <1>1, <1>4, <1>5, <1>7 DEF HandlerInv, Critical, Building, Running, Storing
<1>9. kio_running' \in BOOLEAN
  BY Zenon DEF CallVar, ConfigInv, StructType
<1> QED BY Zenon, <1>5, <1>6, <1>8, <1>9, Moves DEF CallVar, dataVars

\* Next to nothing is to be shown of a handler that enters its critical
\* section, is about to leave it, or has returned.
LEMMA EasyLabels ==
  ASSUME NEW p \in Writers,
         \/ w'[p].pc = "idle" /\ w'[p].i = 0
         \/ w'[p].pc = "body" /\ w'[p].i = 0 /\ mutex' = p
         \/ w'[p].pc = "unlock" /\ mutex' = p
  PROVE  HandlerInv(p)'
BY Zenon DEF HandlerInv, Critical, Building, Running, Storing

\* The mutex is taken when nobody is inside, and given back on the way out.
LEMMA MutexKeeps ==
  ASSUME ConfigInv, NEW p \in Writers, Lock(p) \/ Unlock(p)
  PROVE  ConfigInv'
<1>1. w \in [Writers -> Frame] /\ "body" \in PC
  BY Zenon DEF ConfigInv, StructType, PC
<1>2. /\ w' \in [Writers -> Frame]
      /\ \A q \in Writers : q # p => w'[q] = w[q]
      /\ HandlerInv(p)'
  <2>1. CASE Lock(p)
    <3>1. Goto(p, "body") /\ mutex' = p /\ w[p].i = 0
      BY Zenon, <2>1 DEF Lock, ConfigInv, HandlerInv
    <3> QED BY Zenon, <1>1, <3>1, GotoEffect, EasyLabels
  <2>2. CASE Unlock(p)
    BY Zenon, <1>1, <2>2, ReturnEffect, EasyLabels DEF Unlock
  <2> QED BY Zenon, <2>1, <2>2
<1>3. UNCHANGED <<kio_running, num_threads, threads, kobj, corrupt, failed>>
  BY Zenon DEF Lock, Unlock, dataVars
<1>4. mutex' \in Writers \cup {None}
  BY Zenon DEF Lock, Unlock
<1>5. StructType' /\ SharedInv'
  BY Zenon, <1>2, <1>3, <1>4 DEF ConfigInv, StructType, SharedInv, MemorySafe
<1>6. ASSUME NEW q \in Writers, q # p PROVE HandlerInv(q)'
  <2>1. w[q].pc \notin Critical
    <3>1. CASE Lock(p)
      BY Zenon, <3>1, NoneAssumption DEF Lock, ConfigInv, HandlerInv
    <3>2. CASE Unlock(p)
      <4>1. mutex = p
        BY Zenon, <3>2 DEF Unlock, ConfigInv, HandlerInv, Critical
      <4> QED BY Zenon, <1>6, <4>1, OthersOutside
    <3> QED BY Zenon, <3>1, <3>2
  <2>2. w'[q] = w[q] /\ HandlerInv(q)
    BY Zenon, <1>2, <1>6 DEF ConfigInv
  <2>3. w[q].pc \in Storing => kobj'[w[q].tid] \in {"live", "removing"}
    BY Zenon, <1>3, <2>2 DEF HandlerInv
  <2> QED BY Zenon, <2>1, <2>2, <2>3, OutsideKeeps
<1> QED BY Zenon, <1>2, <1>5, <1>6 DEF ConfigInv

\* The steps that go through the threads before a run.
CheckPass(p) == R_Thread(p) \/ R_Fit(p) \/ R_Cap(p) \/ R_Rest(p) \/ R_Size(p)

CheckLabels == {"rvalid", "rfit", "rcap", "rrest", "rsize"}

\* They move one process, and change nothing but configurations.
LEMMA CheckPassMoves ==
  ASSUME NEW p \in Writers, CheckPass(p)
  PROVE  /\ w[p].pc \in CheckLabels
         /\ UNCHANGED <<mutex, kio_running, runtime_seconds, num_threads, threads,
                        kobj, corrupt, failed, landed>>
         /\ \/ \E label \in {"rfit", "rcap", "rrest", "unlock"} : Goto(p, label)
            \/ Loop(p, num_threads, "rvalid", "rsize")
            \/ Loop(p, num_threads, "rsize", "rstart")
<1>1. CASE R_Thread(p)
  BY Zenon, <1>1 DEF R_Thread, CheckLabels, dataVars
<1>2. CASE R_Fit(p)
  BY Zenon, <1>2 DEF R_Fit, CheckLabels, dataVars
<1>3. CASE R_Cap(p)
  BY Zenon, <1>3 DEF R_Cap, CheckLabels
<1>4. CASE R_Rest(p)
  BY Zenon, <1>4 DEF R_Rest, CheckLabels, dataVars
<1>5. CASE R_Size(p)
  BY Zenon, <1>5 DEF R_Size, CheckLabels, dataVars
<1> QED BY Zenon, <1>1, <1>2, <1>3, <1>4, <1>5 DEF CheckPass

\* They lead on, to a thread that is there, or out.
LEMMA CheckPassLeads ==
  ASSUME w \in [Writers -> Frame], num_threads \in 0 .. Cpus,
         NEW p \in Writers, CheckPass(p)
  PROVE  /\ w' \in [Writers -> Frame]
         /\ \A q \in Writers : q # p => w'[q] = w[q]
         /\ w'[p].pc \in CheckLabels \cup {"rstart", "unlock"}
         /\ w[p].i < num_threads => w'[p].i < num_threads
<1>1. {"rfit", "rcap", "rrest", "unlock", "rvalid", "rsize", "rstart"} \subseteq PC
  BY Zenon DEF PC
<1>2. CASE \E label \in {"rfit", "rcap", "rrest", "unlock"} : Goto(p, label)
  <2>1. PICK label \in {"rfit", "rcap", "rrest", "unlock"} : Goto(p, label)
    BY Zenon, <1>2
  <2>2. /\ w' \in [Writers -> Frame] /\ w'[p].pc = label /\ w'[p].i = w[p].i
        /\ \A q \in Writers : q # p => w'[q] = w[q]
    BY Zenon, <1>1, <2>1, GotoEffect
  <2> QED BY Zenon, <2>1, <2>2 DEF CheckLabels
<1>3. ASSUME NEW again \in CheckLabels, NEW done \in {"rsize", "rstart"},
             Loop(p, num_threads, again, done)
      PROVE  /\ w' \in [Writers -> Frame]
             /\ \A q \in Writers : q # p => w'[q] = w[q]
             /\ w'[p].pc \in CheckLabels \cup {"rstart", "unlock"}
             /\ w[p].i < num_threads => w'[p].i < num_threads
  <2>1. again \in PC /\ done \in PC
    BY Zenon, <1>1, <1>3 DEF CheckLabels
  <2>2. /\ w' \in [Writers -> Frame]
        /\ \/ w[p].i + 1 < num_threads /\ w'[p].pc = again /\ w'[p].i = w[p].i + 1
           \/ ~(w[p].i + 1 < num_threads) /\ w'[p].pc = done /\ w'[p].i = 0
        /\ \A q \in Writers : q # p => w'[q] = w[q]
    BY Zenon, <1>3, <2>1, LoopEffect
  <2>3. w[p].i \in Tids
    <3>1. w[p] \in Frame
      OBVIOUS
    <3> QED BY Zenon, <3>1 DEF Frame
  <2>4. w[p].i < num_threads => w'[p].i < num_threads
    BY <2>2, <2>3, CpusPositive DEF Tids
  <2>5. w'[p].pc \in CheckLabels \cup {"rstart", "unlock"}
    BY Zenon, <2>2 DEF CheckLabels
  <2> QED BY Zenon, <2>2, <2>4, <2>5
<1>4. "rvalid" \in CheckLabels /\ "rsize" \in CheckLabels
  BY Zenon DEF CheckLabels
<1> QED BY Zenon, <1>2, <1>3, <1>4, CheckPassMoves

\* The steps of the handlers that only decide where to go next.
Decisions(p) ==
  \/ NT_Check(p) \/ NT_Files(p) \/ RT_Body(p)
  \/ R_Check(p) \/ CheckPass(p) \/ R_Start(p) \/ R_End(p)
  \/ R_SetupFails(p) \/ V_Check(p)

\* They keep the invariant: a label is reached with what it relies on.
LEMMA DecisionsKeep ==
  ASSUME ConfigInv, NEW p \in Writers, Decisions(p)
  PROVE  ConfigInv'
<1>1. w \in [Writers -> Frame] /\ HandlerInv(p) /\ w[p] \in Frame
  BY Zenon DEF ConfigInv, StructType
<1>2. /\ UNCHANGED <<mutex, num_threads, threads, kobj, corrupt, failed>>
      /\ kio_running' \in BOOLEAN
  <2>1. kio_running \in BOOLEAN
    BY Zenon DEF ConfigInv, StructType
  <2>2. CASE NT_Check(p) \/ NT_Files(p) \/ V_Check(p)
    BY Zenon, <2>1, <2>2 DEF NT_Check, NT_Files, V_Check, dataVars
  <2>3. CASE R_Start(p) \/ R_End(p) \/ R_SetupFails(p)
    BY Zenon, <2>1, <2>3 DEF R_Start, R_End, R_SetupFails, dataVars
  <2>4. CASE RT_Body(p)
    BY Zenon, <2>1, <2>4 DEF RT_Body
  <2>5. CASE R_Check(p)
    BY Zenon, <2>1, <2>5 DEF R_Check, dataVars
  <2>6. CASE CheckPass(p)
    BY Zenon, <2>1, <2>6, CheckPassMoves
  <2> QED BY Zenon, <2>2, <2>3, <2>4, <2>5, <2>6 DEF Decisions
<1>3. {"unlock", "ntalloc", "ntkobj", "rvalid", "running", "vlookup"} \subseteq PC
  BY Zenon DEF PC
<1>4. num_threads \in 0 .. Cpus /\ w[p].i \in Int
  <2>1. w[p].i \in Tids
    BY Zenon, <1>1 DEF Frame
  <2>2. w[p].i \in Int
    BY <2>1, CpusPositive DEF Tids
  <2> QED BY Zenon, <2>2 DEF ConfigInv, StructType
<1>5. SUFFICES /\ w' \in [Writers -> Frame]
               /\ \A q \in Writers : q # p => w'[q] = w[q]
               /\ HandlerInv(p)'
  BY Zenon, <1>2, Moves
<1>6. CASE NT_Check(p)
  <2>1. PICK label \in {"unlock", "ntalloc"} :
           /\ Goto(p, label)
           /\ label = "ntalloc" => /\ ~(num_threads > 0) /\ threads # "live"
                                   /\ w[p].arg \in 1 .. Cpus
    BY Zenon, <1>6 DEF NT_Check
  <2>2. /\ w' \in [Writers -> Frame] /\ w'[p].pc = label /\ w'[p].arg = w[p].arg
        /\ \A q \in Writers : q # p => w'[q] = w[q]
    BY Zenon, <1>1, <1>3, <2>1, GotoEffect
  <2>3. mutex' = p /\ w'[p].i = 0
    <3>1. mutex' = p /\ w[p].i = 0
      BY Zenon, <1>1, <1>2, <1>6 DEF NT_Check, HandlerInv, Critical
    <3> QED BY Zenon, <1>1, <1>3, <2>1, <3>1, GotoEffect
  <2>4. label = "ntalloc" => num_threads' = 0 /\ threads' = "null"
    BY <1>2, <1>4, <2>1 DEF ConfigInv, StructType
  <2>5. CASE label = "ntalloc"
    BY Zenon, <2>1, <2>2, <2>3, <2>4, <2>5
      DEF HandlerInv, Critical, Building, Running, Storing
  <2>6. CASE label = "unlock"
    BY Zenon, <2>2, <2>3, <2>6, EasyLabels
  <2> QED BY Zenon, <2>1, <2>2, <2>5, <2>6
<1>7. CASE NT_Files(p)
  <2>1. Loop(p, num_threads, "ntkobj", "unlock")
    BY Zenon, <1>7 DEF NT_Files
  <2>2. /\ w' \in [Writers -> Frame]
        /\ \/ w[p].i + 1 < num_threads /\ w'[p].pc = "ntkobj" /\ w'[p].i = w[p].i + 1
           \/ w'[p].pc = "unlock"
        /\ \A q \in Writers : q # p => w'[q] = w[q]
    BY <1>1, <1>3, <1>4, <2>1, LoopEffect
  <2>3. mutex' = p /\ threads' = "live" /\ failed' \in {"no", "array"}
    BY Zenon, <1>1, <1>2, <1>7 DEF NT_Files, HandlerInv, Critical, Building
  <2>4. CASE w'[p].pc = "unlock"
    BY Zenon, <2>2, <2>3, <2>4, EasyLabels
  <2>5. CASE w'[p].pc = "ntkobj" /\ w'[p].i < num_threads'
    BY Zenon, <2>2, <2>3, <2>5 DEF HandlerInv, Critical, Building, Running, Storing
  <2> QED BY Zenon, <1>2, <2>2, <2>4, <2>5
<1>8. CASE RT_Body(p) \/ R_End(p) \/ R_SetupFails(p)
  <2>1. Goto(p, "unlock") /\ mutex' = p
    BY Zenon, <1>1, <1>2, <1>8
      DEF RT_Body, R_End, R_SetupFails, HandlerInv, Critical, Running
  <2> QED BY Zenon, <1>1, <1>3, <2>1, GotoEffect, EasyLabels
<1>9. CASE R_Check(p)
  <2>1. PICK label \in {"unlock", "rvalid"} :
           Goto(p, label) /\ (label = "rvalid" => threads # "null")
    BY <1>9 DEF R_Check
  <2>2. /\ w' \in [Writers -> Frame] /\ w'[p].pc = label
        /\ \A q \in Writers : q # p => w'[q] = w[q]
    BY Zenon, <1>1, <1>3, <2>1, GotoEffect
  <2>3. mutex' = p /\ (label = "rvalid" => threads' = "live")
    BY <1>1, <1>2, <1>9, <2>1 DEF R_Check, HandlerInv, Critical, ConfigInv, StructType
  <2> QED
    BY Zenon, <2>2, <2>3 DEF HandlerInv, Critical, Building, Running, Storing
<1>10. CASE CheckPass(p)
  <2>1. mutex' = p /\ threads' = "live"
    BY Zenon, <1>1, <1>2, <1>10, CheckPassMoves
      DEF HandlerInv, Critical, Running, CheckLabels
  <2>2. /\ w' \in [Writers -> Frame]
        /\ w'[p].pc \in CheckLabels \cup {"rstart", "unlock"}
        /\ \A q \in Writers : q # p => w'[q] = w[q]
    BY Zenon, <1>1, <1>4, <1>10, CheckPassLeads
  <2> QED
    BY Zenon, <2>1, <2>2 DEF HandlerInv, Critical, Building, Running, Storing, CheckLabels
<1>11. CASE R_Start(p)
  <2>1. Goto(p, "running") /\ mutex' = p /\ threads' = "live"
    BY Zenon, <1>1, <1>2, <1>11 DEF R_Start, HandlerInv, Critical, Running
  <2>2. /\ w' \in [Writers -> Frame] /\ w'[p].pc = "running"
        /\ \A q \in Writers : q # p => w'[q] = w[q]
    BY Zenon, <1>1, <1>3, <2>1, GotoEffect
  <2> QED
    BY Zenon, <2>1, <2>2 DEF HandlerInv, Critical, Building, Running, Storing
<1>12. CASE V_Check(p)
  <2>1. CASE Return(p)
    BY Zenon, <1>1, <2>1, ReturnEffect, EasyLabels
  <2>2. CASE Goto(p, "vlookup")
    <3>1. /\ w' \in [Writers -> Frame] /\ w'[p].pc = "vlookup"
          /\ w'[p].tid = w[p].tid
          /\ \A q \in Writers : q # p => w'[q] = w[q]
      BY Zenon, <1>1, <1>3, <2>2, GotoEffect
    <3>2. kobj'[w[p].tid] \in {"live", "removing"}
      BY Zenon, <1>1, <1>2, <1>12 DEF V_Check, HandlerInv, Storing
    <3> QED
      BY Zenon, <3>1, <3>2 DEF HandlerInv, Critical, Building, Running, Storing
  <2> QED BY Zenon, <1>12, <2>1, <2>2 DEF V_Check
<1> QED BY Zenon, <1>6, <1>7, <1>8, <1>9, <1>10, <1>11, <1>12 DEF Decisions

\* The holder of the mutex changes the threads: nobody else is inside, and
\* those who work on a thread keep its directory.
LEMMA HolderKeeps ==
  ASSUME ConfigInv, NEW p \in Writers, mutex = p,
         StructType', SharedInv', HandlerInv(p)',
         \A q \in Writers : q # p => w'[q] = w[q],
         \A q \in Writers : q # p /\ w[q].pc \in Storing =>
                              kobj'[w[q].tid] \in {"live", "removing"}
  PROVE  ConfigInv'
<1>1. ASSUME NEW q \in Writers, q # p PROVE HandlerInv(q)'
  <2>1. w[q].pc \notin Critical
    BY Zenon, <1>1, OthersOutside
  <2>2. HandlerInv(q)
    BY Zenon DEF ConfigInv
  <2> QED BY Zenon, <1>1, <2>1, <2>2, OutsideKeeps
<1> QED BY Zenon, <1>1 DEF ConfigInv

\* A handler of a thread's file works on a directory of the present array.
LEMMA StoringNeedsArray ==
  ASSUME ConfigInv, NEW q \in Writers, w[q].pc \in Storing
  PROVE  /\ w[q].tid \in Tids
         /\ kobj[w[q].tid] \in {"live", "removing"}
         /\ threads = "live"
<1>1. w[q] \in Frame
  BY Zenon DEF ConfigInv, StructType
<1>2. w[q].tid \in Tids
  BY Zenon, <1>1 DEF Frame
<1>3. kobj[w[q].tid] \in {"live", "removing"}
  BY Zenon DEF ConfigInv, HandlerInv
<1> QED BY Zenon, <1>2, <1>3 DEF ConfigInv, SharedInv

\* Looking up the thread and storing into it: the array is there.
LEMMA VarKeeps ==
  ASSUME ConfigInv, NEW p \in Writers, V_Lookup(p) \/ V_Assign(p)
  PROVE  ConfigInv'
<1>1. w \in [Writers -> Frame] /\ "vassign" \in PC
  BY Zenon DEF ConfigInv, StructType, PC
<1>2. w[p].pc \in Storing
  BY Zenon DEF V_Lookup, V_Assign, Storing
<1>3. threads = "live" /\ kobj[w[p].tid] \in {"live", "removing"}
  BY Zenon, <1>2, StoringNeedsArray
<1>4. UNCHANGED <<mutex, kio_running, num_threads, threads, kobj, corrupt, failed>>
  BY Zenon, <1>3 DEF V_Lookup, V_Assign, dataVars
<1>5. kio_running' \in BOOLEAN
  BY Zenon, <1>4 DEF ConfigInv, StructType
<1>6. CASE Return(p)
  BY Zenon, <1>1, <1>4, <1>5, <1>6, ReturnEffect, EasyLabels, Moves
<1>7. CASE Goto(p, "vassign")
  <2>1. /\ w' \in [Writers -> Frame] /\ w'[p].pc = "vassign"
        /\ w'[p].tid = w[p].tid
        /\ \A q \in Writers : q # p => w'[q] = w[q]
    BY Zenon, <1>1, <1>7, GotoEffect
  <2>2. HandlerInv(p)'
    BY Zenon, <1>3, <1>4, <2>1 DEF HandlerInv, Critical, Building, Running, Storing
  <2> QED BY Zenon, <1>4, <1>5, <2>1, <2>2, Moves
<1> QED BY Zenon, <1>6, <1>7 DEF V_Lookup, V_Assign

\* The array is allocated, which the mutex and the check before it make the
\* first time; or it is not, and nothing has happened.
LEMMA AllocKeeps ==
  ASSUME ConfigInv, NEW p \in Writers, NT_Alloc(p) \/ NT_AllocFails(p)
  PROVE  ConfigInv'
<1>1. /\ w \in [Writers -> Frame] /\ w[p].pc = "ntalloc"
      /\ {"ntkobj", "unlock"} \subseteq PC
  BY Zenon DEF ConfigInv, StructType, PC, NT_Alloc, NT_AllocFails
<1>2. /\ mutex = p /\ mutex' = mutex /\ kio_running' = kio_running
      /\ num_threads = 0 /\ threads = "null" /\ corrupt' = corrupt
      /\ w[p].arg \in 1 .. Cpus /\ w[p].i = 0
  BY Zenon, <1>1 DEF ConfigInv, HandlerInv, Critical, NT_Alloc, NT_AllocFails
<1>3. \A t \in Tids : kobj[t] = "null"
  BY Zenon, <1>2 DEF ConfigInv, SharedInv
<1>4. failed \in {"no", "array"} /\ corrupt = "no"
  BY <1>2 DEF ConfigInv, SharedInv, StructType, MemorySafe
<1>5. \A q \in Writers : w[q].pc \notin Storing
  BY Zenon, <1>2, StoringNeedsArray
<1>6. CASE NT_Alloc(p)
  <2>1. /\ w' \in [Writers -> Frame] /\ w'[p].pc = "ntkobj" /\ w'[p].i = 0
        /\ \A q \in Writers : q # p => w'[q] = w[q]
    BY Zenon, <1>1, <1>2, <1>6, GotoEffect DEF NT_Alloc
  <2>2. /\ threads' = "live" /\ num_threads' = w[p].arg /\ failed' = failed
        /\ kobj' = [t \in Tids |-> "null"]
    BY Zenon, <1>6 DEF NT_Alloc
  <2>3. num_threads' \in 0 .. Cpus /\ num_threads' > 0
    BY <1>2, <2>2, CpusPositive
  <2>4. kobj' \in [Tids -> KobjState] /\ \A t \in Tids : kobj'[t] = "null"
    BY Zenon, <2>2 DEF KobjState
  <2>5. StructType'
    BY Zenon, <1>2, <1>4, <2>1, <2>2, <2>3, <2>4 DEF ConfigInv, StructType
  <2>6. SharedInv'
    BY Zenon, <1>2, <1>4, <2>2, <2>3, <2>4 DEF SharedInv, MemorySafe
  <2>7. HandlerInv(p)'
    BY Zenon, <1>2, <1>4, <2>1, <2>2, <2>3
      DEF HandlerInv, Critical, Building, Running, Storing
  <2> QED BY Zenon, <1>2, <1>5, <2>1, <2>5, <2>6, <2>7, HolderKeeps
<1>7. CASE NT_AllocFails(p)
  <2>1. /\ w' \in [Writers -> Frame] /\ w'[p].pc = "unlock"
        /\ \A q \in Writers : q # p => w'[q] = w[q]
    BY Zenon, <1>1, <1>7, GotoEffect DEF NT_AllocFails
  <2>2. UNCHANGED <<num_threads, threads, kobj>> /\ failed' = "array"
    BY Zenon, <1>7 DEF NT_AllocFails, dataVars
  <2>3. StructType'
    BY Zenon, <1>2, <2>1, <2>2 DEF ConfigInv, StructType
  <2>4. SharedInv'
    BY Zenon, <1>2, <1>3, <1>4, <2>2 DEF SharedInv, MemorySafe
  <2>5. HandlerInv(p)'
    BY Zenon, <1>2, <2>1, EasyLabels
  <2> QED BY Zenon, <1>2, <1>5, <2>1, <2>3, <2>4, <2>5, HolderKeeps
<1> QED BY Zenon, <1>6, <1>7

\* What the handler that creates or takes down threads knows.
LEMMA BuilderKnows ==
  ASSUME ConfigInv, NEW p \in Writers, w[p].pc \in Building
  PROVE  /\ mutex = p /\ threads = "live"
         /\ w[p].i \in Tids /\ w[p].i \in Nat /\ w[p].i < num_threads
         /\ num_threads \in Nat /\ num_threads <= Cpus
         /\ w \in [Writers -> Frame] /\ kobj \in [Tids -> KobjState]
<1>1. w \in [Writers -> Frame] /\ w[p] \in Frame /\ num_threads \in 0 .. Cpus
  BY Zenon DEF ConfigInv, StructType
<1>2. w[p].i \in Tids
  BY Zenon, <1>1 DEF Frame
<1>3. w[p].i \in Nat /\ num_threads \in Nat /\ num_threads <= Cpus
  BY <1>1, <1>2, CpusPositive DEF Tids
<1>4. mutex = p /\ threads = "live" /\ w[p].i < num_threads
  BY Zenon DEF ConfigInv, HandlerInv, Critical
<1> QED BY Zenon, <1>1, <1>2, <1>3, <1>4 DEF ConfigInv, StructType

\* A directory appears; or kobject_create_and_add() fails.
LEMMA KobjKeeps ==
  ASSUME ConfigInv, NEW p \in Writers, NT_Kobj(p) \/ NT_KobjFails(p)
  PROVE  ConfigInv'
<1>1. /\ w[p].pc = "ntkobj" /\ w[p].pc \in Building
      /\ {"ntfiles", "ntdestroy"} \subseteq PC
  BY Zenon DEF PC, NT_Kobj, NT_KobjFails, Building
<1>2. /\ UNCHANGED <<mutex, kio_running, num_threads, threads, corrupt>>
      /\ failed \in {"no", "array"}
  BY Zenon, <1>1 DEF NT_Kobj, NT_KobjFails, dataVars, ConfigInv, HandlerInv
<1>3. corrupt = "no" /\ \A t \in Tids : kobj[t] # "dangling"
  BY Zenon, <1>2 DEF ConfigInv, SharedInv, MemorySafe
<1>4. /\ mutex = p /\ threads = "live" /\ w[p].i \in Tids /\ w[p].i < num_threads
      /\ w[p].i \in Nat /\ num_threads \in Nat
      /\ w \in [Writers -> Frame] /\ kobj \in [Tids -> KobjState]
  BY Zenon, <1>1, BuilderKnows
<1>5. CASE NT_Kobj(p)
  <2>1. /\ w' \in [Writers -> Frame] /\ w'[p].pc = "ntfiles" /\ w'[p].i = w[p].i
        /\ \A q \in Writers : q # p => w'[q] = w[q]
    BY Zenon, <1>1, <1>4, <1>5, GotoEffect DEF NT_Kobj
  <2>2. kobj' = [kobj EXCEPT ![w[p].i] = "live"] /\ failed' = failed
    BY Zenon, <1>5 DEF NT_Kobj
  <2>3. /\ kobj' \in [Tids -> KobjState]
        /\ \A t \in Tids : kobj'[t] = IF t = w[p].i THEN "live" ELSE kobj[t]
    BY Zenon, <1>4, <2>2 DEF KobjState
  <2>4. StructType'
    BY Zenon, <1>2, <2>1, <2>2, <2>3 DEF ConfigInv, StructType
  <2>5. SharedInv'
    BY Zenon, <1>2, <1>3, <1>4, <2>2, <2>3 DEF ConfigInv, SharedInv, MemorySafe
  <2>6. HandlerInv(p)'
    BY Zenon, <1>2, <1>4, <2>1, <2>2
      DEF HandlerInv, Critical, Building, Running, Storing
  <2>7. \A q \in Writers : w[q].pc \in Storing => kobj'[w[q].tid] \in {"live", "removing"}
    BY Zenon, <2>3, StoringNeedsArray
  <2> QED BY Zenon, <1>4, <2>1, <2>4, <2>5, <2>6, <2>7, HolderKeeps
<1>6. CASE NT_KobjFails(p)
  <2>1. /\ w' \in [Writers -> Frame] /\ w'[p].pc = "ntdestroy" /\ w'[p].i = 0
        /\ \A q \in Writers : q # p => w'[q] = w[q]
    BY Zenon, <1>1, <1>4, <1>6, RestartEffect DEF NT_KobjFails
  <2>2. kobj' = kobj /\ failed' = "kobj"
    BY Zenon, <1>6 DEF NT_KobjFails
  <2>3. StructType'
    BY Zenon, <1>2, <2>1, <2>2 DEF ConfigInv, StructType
  <2>4. SharedInv'
    BY Zenon, <1>2, <1>3, <1>4, <2>2 DEF ConfigInv, SharedInv, MemorySafe
  <2>5. \A t \in Tids : ~(t < 0)
    BY CpusPositive DEF Tids
  <2>6. HandlerInv(p)'
    BY <1>2, <1>4, <2>1, <2>2, <2>5
      DEF HandlerInv, Critical, Building, Running, Storing
  <2>7. \A q \in Writers : w[q].pc \in Storing => kobj'[w[q].tid] \in {"live", "removing"}
    BY Zenon, <2>2, StoringNeedsArray
  <2> QED BY Zenon, <1>4, <2>1, <2>3, <2>4, <2>6, <2>7, HolderKeeps
<1> QED BY Zenon, <1>5, <1>6

\* A file cannot be created, and the directory is removed once the handlers
\* in its other files are out; the pointer to it stays.
LEMMA FilesFailKeeps ==
  ASSUME ConfigInv, NEW p \in Writers, NT_FilesFail(p) \/ NT_FilesPut(p)
  PROVE  ConfigInv'
<1>1. w[p].pc \in Building /\ {"ntput", "ntdestroy"} \subseteq PC
  BY Zenon DEF PC, NT_FilesFail, NT_FilesPut, Building
<1>2. UNCHANGED <<mutex, kio_running, num_threads, threads, corrupt>>
  BY Zenon DEF NT_FilesFail, NT_FilesPut, dataVars
<1>3. /\ mutex = p /\ threads = "live" /\ w[p].i \in Tids /\ w[p].i < num_threads
      /\ w[p].i \in Nat /\ num_threads \in Nat
      /\ w \in [Writers -> Frame] /\ kobj \in [Tids -> KobjState]
  BY Zenon, <1>1, BuilderKnows
<1>4. failed' = "file"
  BY Zenon DEF NT_FilesFail, NT_FilesPut, ConfigInv, HandlerInv
<1>5. PICK k \in {"removing", "dangling"} :
         /\ kobj' = [kobj EXCEPT ![w[p].i] = k]
         /\ k = "dangling" => Drained(w[p].i)
  BY Zenon DEF NT_FilesFail, NT_FilesPut
<1>6. /\ kobj' \in [Tids -> KobjState]
      /\ \A t \in Tids : kobj'[t] = IF t = w[p].i THEN k ELSE kobj[t]
  BY Zenon, <1>3, <1>5 DEF KobjState
<1>7. /\ w' \in [Writers -> Frame]
      /\ \/ w'[p].pc = "ntput" /\ w'[p].i = w[p].i
         \/ w'[p].pc = "ntdestroy" /\ w'[p].i = 0
      /\ \A q \in Writers : q # p => w'[q] = w[q]
  <2>1. CASE NT_FilesFail(p)
    BY Zenon, <1>1, <1>3, <2>1, GotoEffect DEF NT_FilesFail
  <2>2. CASE NT_FilesPut(p)
    BY Zenon, <1>1, <1>3, <2>2, RestartEffect DEF NT_FilesPut
  <2> QED BY Zenon, <2>1, <2>2
<1>8. StructType'
  BY Zenon, <1>2, <1>4, <1>6, <1>7 DEF ConfigInv, StructType
<1>9. SharedInv'
  BY Zenon, <1>2, <1>3, <1>4, <1>6 DEF ConfigInv, SharedInv, MemorySafe
<1>10. \A t \in Tids : ~(t < 0)
  BY CpusPositive DEF Tids
<1>11. HandlerInv(p)'
  BY <1>2, <1>3, <1>4, <1>7, <1>10
    DEF HandlerInv, Critical, Building, Running, Storing
<1>12. \A q \in Writers : w[q].pc \in Storing => kobj'[w[q].tid] \in {"live", "removing"}
  BY Zenon, <1>5, <1>6, StoringNeedsArray DEF Drained, Storing
<1> QED BY Zenon, <1>3, <1>7, <1>8, <1>9, <1>11, <1>12, HolderKeeps

\* kio_config_destroy_all_threads(): one directory after the other, each once
\* the handlers in its files are out.
LEMMA DestroyKeeps ==
  ASSUME ConfigInv, NEW p \in Writers, NT_DestroyPut(p) \/ NT_DestroyNext(p)
  PROVE  ConfigInv'
<1>1. /\ w[p].pc = "ntdestroy" /\ w[p].pc \in Building
      /\ {"ntdestroy", "ntfree"} \subseteq PC
  BY Zenon DEF PC, NT_DestroyPut, NT_DestroyNext, Building
<1>2. UNCHANGED <<mutex, kio_running, num_threads, threads, failed>>
  BY Zenon DEF NT_DestroyPut, NT_DestroyNext, dataVars
<1>3. /\ mutex = p /\ threads = "live" /\ w[p].i \in Tids /\ w[p].i < num_threads
      /\ w[p].i \in Nat /\ num_threads \in Nat /\ num_threads <= Cpus
      /\ w \in [Writers -> Frame] /\ kobj \in [Tids -> KobjState]
  BY Zenon, <1>1, BuilderKnows
<1>4. \A t \in Tids : t < w[p].i => kobj[t] = "null"
  BY Zenon, <1>1 DEF ConfigInv, HandlerInv
<1>5. \A t \in Tids : t \in Nat
  BY CpusPositive DEF Tids
<1>6. CASE NT_DestroyPut(p)
  <2>1. /\ w' = w /\ corrupt' = corrupt /\ kobj[w[p].i] = "live"
        /\ kobj' = [kobj EXCEPT ![w[p].i] = "removing"]
    BY Zenon, <1>6 DEF NT_DestroyPut
  <2>2. /\ kobj' \in [Tids -> KobjState]
        /\ \A t \in Tids : kobj'[t] = IF t = w[p].i THEN "removing" ELSE kobj[t]
    BY Zenon, <1>3, <2>1 DEF KobjState
  <2>3. StructType'
    BY Zenon, <1>2, <2>1, <2>2 DEF ConfigInv, StructType
  <2>4. SharedInv'
    BY Zenon, <1>2, <1>3, <2>1, <2>2 DEF ConfigInv, SharedInv, MemorySafe
  <2>5. \A t \in Tids : t < w[p].i => kobj'[t] = "null"
    BY <1>3, <1>4, <1>5, <2>2
  <2>6. HandlerInv(p)'
    BY Zenon, <1>1, <1>2, <1>3, <2>1, <2>5
      DEF HandlerInv, Critical, Building, Running, Storing
  <2>7. \A q \in Writers : w[q].pc \in Storing => kobj'[w[q].tid] \in {"live", "removing"}
    BY Zenon, <2>2, StoringNeedsArray
  <2> QED BY Zenon, <1>3, <2>1, <2>3, <2>4, <2>6, <2>7, HolderKeeps
<1>7. CASE NT_DestroyNext(p)
  <2>1. /\ kobj[w[p].i] # "live"
        /\ kobj[w[p].i] = "removing" => Drained(w[p].i)
        /\ corrupt' = IF kobj[w[p].i] = "dangling" THEN "put" ELSE corrupt
        /\ kobj' = [kobj EXCEPT ![w[p].i] = "null"]
        /\ Loop(p, num_threads, "ntdestroy", "ntfree")
    BY Zenon, <1>7 DEF NT_DestroyNext
  <2>2. /\ kobj' \in [Tids -> KobjState]
        /\ \A t \in Tids : kobj'[t] = IF t = w[p].i THEN "null" ELSE kobj[t]
    BY Zenon, <1>3, <2>1 DEF KobjState
  <2>3. /\ w' \in [Writers -> Frame]
        /\ \/ w[p].i + 1 < num_threads /\ w'[p].pc = "ntdestroy" /\ w'[p].i = w[p].i + 1
           \/ ~(w[p].i + 1 < num_threads) /\ w'[p].pc = "ntfree" /\ w'[p].i = 0
        /\ \A q \in Writers : q # p => w'[q] = w[q]
    <3>1. num_threads \in 0 .. Cpus
      BY <1>3
    <3> QED BY Zenon, <1>1, <1>3, <2>1, <3>1, LoopEffect
  <2>4. StructType'
    BY Zenon, <1>2, <2>1, <2>2, <2>3 DEF ConfigInv, StructType
  <2>5. SharedInv'
    BY Zenon, <1>2, <1>3, <2>1, <2>2 DEF ConfigInv, SharedInv, MemorySafe
  <2>6. \A t \in Tids : t < w[p].i + 1 => kobj'[t] = "null"
    BY <1>3, <1>4, <1>5, <2>2
  <2>7. \A t \in Tids : t >= num_threads => kobj'[t] = "null"
    BY <1>3, <1>5, <2>2 DEF ConfigInv, SharedInv
  <2>8. w'[p].pc = "ntfree" => \A t \in Tids : kobj'[t] = "null"
    BY <1>3, <1>5, <2>3, <2>6, <2>7
  <2>9. w'[p].pc = "ntdestroy" => \A t \in Tids : t < w'[p].i => kobj'[t] = "null"
    BY Zenon, <2>3, <2>6
  <2>10. w'[p].pc \in {"ntdestroy", "ntfree"} /\ w'[p].i < num_threads'
    BY <1>2, <1>3, <2>3
  <2>11. HandlerInv(p)'
    BY Zenon, <1>2, <1>3, <2>8, <2>9, <2>10
      DEF HandlerInv, Critical, Building, Running, Storing
  <2>12. \A q \in Writers : w[q].pc \in Storing => kobj'[w[q].tid] \in {"live", "removing"}
    BY Zenon, <2>1, <2>2, StoringNeedsArray DEF Drained, Storing
  <2> QED BY Zenon, <1>3, <2>3, <2>4, <2>5, <2>11, <2>12, HolderKeeps
<1> QED BY Zenon, <1>6, <1>7

\* kfree() of the array: no directory is left, so nobody works on a thread.
LEMMA FreeKeeps ==
  ASSUME ConfigInv, NEW p \in Writers, NT_Free(p)
  PROVE  ConfigInv'
<1>1. w[p].pc = "ntfree" /\ w[p].pc \in Building /\ "unlock" \in PC
  BY Zenon DEF PC, NT_Free, Building
<1>2. /\ UNCHANGED <<mutex, kio_running, num_threads, kobj, corrupt, failed>>
      /\ threads' = "null"
  BY Zenon DEF NT_Free
<1>3. mutex = p /\ w \in [Writers -> Frame]
  BY Zenon, <1>1, BuilderKnows
<1>4. \A t \in Tids : kobj[t] = "null"
  BY Zenon, <1>1 DEF ConfigInv, HandlerInv
<1>5. /\ w' \in [Writers -> Frame] /\ w'[p].pc = "unlock"
      /\ \A q \in Writers : q # p => w'[q] = w[q]
  BY Zenon, <1>1, <1>3, GotoEffect DEF NT_Free
<1>6. StructType'
  BY Zenon, <1>2, <1>5 DEF ConfigInv, StructType
<1>7. SharedInv'
  BY Zenon, <1>2, <1>4 DEF ConfigInv, SharedInv, MemorySafe
<1>8. HandlerInv(p)'
  BY Zenon, <1>2, <1>3, <1>5, EasyLabels
<1>9. \A q \in Writers : w[q].pc \notin Storing
  BY Zenon, <1>4, StoringNeedsArray
<1> QED BY Zenon, <1>3, <1>5, <1>6, <1>7, <1>8, <1>9, HolderKeeps

-----------------------------------------------------------------------------
\* Every step of every handler keeps the invariant.
LEMMA NextKeepsConfigInv == ConfigInv /\ [Next]_vars => ConfigInv'
<1> SUFFICES ASSUME ConfigInv, [Next]_vars PROVE ConfigInv'
  OBVIOUS
<1>1. CASE UNCHANGED vars
  BY <1>1 DEF vars, dataVars, ConfigInv, StructType, SharedInv, MemorySafe, HandlerInv
<1>2. CASE Next
  <2>1. PICK p \in Writers : Write(p) \/ Lock(p) \/ Handler(p)
    BY Zenon, <1>2 DEF Next
  <2>2. CASE Write(p)
    <3>1. NumThreadsArgs \subseteq Int /\ SecondsArgs \subseteq Int /\ 1 \in Int
      BY KioConfigAssumption
    <3>2. CASE \E n \in NumThreadsArgs : Call(p, "num_threads", n)
      BY Zenon, <3>1, <3>2, CallKeeps
    <3>3. CASE \E s \in SecondsArgs : Call(p, "runtime_seconds", s)
      BY Zenon, <3>1, <3>3, CallKeeps
    <3>4. CASE Call(p, "run_workload", 1)
      BY Zenon, <3>1, <3>4, CallKeeps
    <3>5. CASE \E t \in Tids, s \in Stores : CallVar(p, t, s)
      BY Zenon, <3>5, CallVarKeeps
    <3> QED BY Zenon, <2>2, <3>2, <3>3, <3>4, <3>5 DEF Write
  <2>3. CASE Lock(p) \/ Unlock(p)
    BY Zenon, <2>3, MutexKeeps
  <2>4. CASE Decisions(p)
    BY Zenon, <2>4, DecisionsKeep
  <2>5. CASE V_Lookup(p) \/ V_Assign(p)
    BY Zenon, <2>5, VarKeeps
  <2>6. CASE NT_Alloc(p) \/ NT_AllocFails(p)
    BY Zenon, <2>6, AllocKeeps
  <2>7. CASE NT_Kobj(p) \/ NT_KobjFails(p)
    BY Zenon, <2>7, KobjKeeps
  <2>8. CASE NT_FilesFail(p) \/ NT_FilesPut(p)
    BY Zenon, <2>8, FilesFailKeeps
  <2>9. CASE NT_DestroyPut(p) \/ NT_DestroyNext(p)
    BY Zenon, <2>9, DestroyKeeps
  <2>10. CASE NT_Free(p)
    BY Zenon, <2>10, FreeKeeps
  <2> QED
    BY Zenon, <2>1, <2>2, <2>3, <2>4, <2>5, <2>6, <2>7, <2>8, <2>9, <2>10
      DEF Handler, NumThreadsStore, RunWorkloadStore, VarStore, Decisions, CheckPass
<1> QED BY Zenon, <1>1, <1>2

\* ConfigInv holds throughout, for any number of writers and processors.
THEOREM ConfigInvariant == Spec => []ConfigInv
BY InitConfigInv, NextKeepsConfigInv, PTL DEF Spec

\* No handler of a sysfs file touches a thread array that is not there, and
\* only a file that could not be created makes a kobject be put twice.
THEOREM MemoryIsSafe == Spec => []MemorySafe
<1>1. ConfigInv => MemorySafe
  BY Zenon DEF ConfigInv, SharedInv
<1> QED BY <1>1, ConfigInvariant, PTL

\* kio_num_threads_store() succeeds once at most, however its calls race.
THEOREM NumThreadsAreSetOnce == Spec => NumThreadsSetOnce
<1>1. ConfigInv /\ [Next]_vars =>
        [num_threads # 0 => num_threads' = num_threads]_vars
  <2> SUFFICES ASSUME ConfigInv, Next, num_threads # 0
               PROVE  num_threads' = num_threads
    OBVIOUS
  <2>1. PICK p \in Writers : Write(p) \/ Lock(p) \/ Handler(p)
    BY Zenon DEF Next
  <2>2. ~NT_Alloc(p)
    BY Zenon DEF NT_Alloc, ConfigInv, HandlerInv
  <2>3. CASE Write(p) \/ Lock(p)
    BY <2>3, Zenon DEF Write, Call, CallVar, Lock, dataVars
  <2>4. CASE NumThreadsStore(p)
    BY <2>2, <2>4, Zenon
      DEF NumThreadsStore, NT_Check, NT_AllocFails, NT_Kobj, NT_KobjFails,
          NT_Files, NT_FilesFail, NT_FilesPut, NT_DestroyPut, NT_DestroyNext,
          NT_Free, dataVars
  <2>5. CASE RunWorkloadStore(p)
    BY <2>5, CheckPassMoves, Zenon DEF RunWorkloadStore, R_Check, CheckPass,
       R_Start, R_End, R_SetupFails, dataVars
  <2>6. CASE VarStore(p)
    BY <2>6, Zenon DEF VarStore, V_Check, V_Lookup, V_Assign, dataVars
  <2>7. CASE RT_Body(p) \/ Unlock(p)
    BY <2>7, Zenon DEF RT_Body, Unlock, dataVars
  <2> QED BY <2>1, <2>3, <2>4, <2>5, <2>6, <2>7, Zenon DEF Handler
<1> QED BY <1>1, ConfigInvariant, PTL DEF Spec, NumThreadsSetOnce

\* From the moment kio_run() is entered until it returns, no process changes
\* the number of threads, the array or the runtime it reads without a lock.
THEOREM RunParametersAreStable == Spec => RunParametersStable
<1>1. ConfigInv /\ [Next]_vars =>
        [(\E p \in Writers : w[p].pc \in {"rsize", "rstart", "running"}) =>
            UNCHANGED <<num_threads, threads, runtime_seconds>>]_vars
  <2> SUFFICES ASSUME ConfigInv, Next, NEW q \in Writers,
                      w[q].pc \in {"rsize", "rstart", "running"}
               PROVE  UNCHANGED <<num_threads, threads, runtime_seconds>>
    OBVIOUS
  <2>1. PICK p \in Writers : Write(p) \/ Lock(p) \/ Handler(p)
    BY Zenon DEF Next
  <2>2. mutex = q
    BY Zenon DEF ConfigInv, HandlerInv, Critical, Running
  <2>3. ~NT_Alloc(p) /\ ~NT_Free(p) /\ ~RT_Body(p)
    BY <2>2 DEF NT_Alloc, NT_Free, RT_Body, ConfigInv, HandlerInv, Critical, Building
  <2> QED
    BY Zenon, <2>1, <2>3, CheckPassMoves
      DEF Write, Call, CallVar, Lock, Handler, Unlock, NumThreadsStore,
          RunWorkloadStore, VarStore, NT_Check, NT_AllocFails, NT_Kobj,
          NT_KobjFails, NT_Files, NT_FilesFail, NT_FilesPut, NT_DestroyPut,
          NT_DestroyNext, R_Check, CheckPass, R_Start, R_End,
          R_SetupFails, V_Check, V_Lookup, V_Assign, dataVars
<1> QED BY <1>1, ConfigInvariant, PTL DEF Spec, RunParametersStable

-----------------------------------------------------------------------------
(***************************************************************************)
(* What is checked is what is run.  The rest of the types, and for each    *)
(* handler of run_workload how far the check has come.                     *)
(***************************************************************************)

\* What runtime_seconds can hold.
Seconds == 0 .. KIO_MAX_RUNTIME_SECONDS

DataType ==
  /\ runtime_seconds \in Seconds
  /\ tconf \in [Tids -> ThreadConfig]
  /\ landed \in Landed
  /\ seen \subseteq ThreadConfig

\* What the check leaves behind in a configuration it accepts.
Passed(c) ==
  FitsDevice(c, DevSize) /\ ~NeedsCap(c, DevSize) /\ Consistent(c)

\* Before the run no store has landed in it; during the run those that may
\* still land are fewer than the processes.  Unless a store landed since the
\* check began, the threads it has gone through are as it left them.
RunnerInv(q) ==
  /\ w[q].pc \in CheckLabels \cup {"rstart"} => landed.running = 0
  /\ w[q].pc = "running" =>
       /\ kio_running
       /\ landed.running + Cardinality(Late) < Cardinality(Writers)
  /\ ~landed.checked =>
       /\ w[q].pc \in Checking => seen = {tconf[w[q].i]}
       /\ w[q].pc \in {"rcap", "rrest"} => FitsDevice(tconf[w[q].i], DevSize)
       /\ w[q].pc = "rcap" => NeedsCap(tconf[w[q].i], DevSize)
       /\ w[q].pc = "rrest" => ~NeedsCap(tconf[w[q].i], DevSize)
       /\ w[q].pc \in Checking \cup {"rvalid"} =>
            \A t \in Tids : t < w[q].i => Passed(tconf[t])
       /\ w[q].pc \in {"rsize", "rstart", "running"} =>
            \A t \in Tids : t < num_threads => Passed(tconf[t])
       /\ w[q].pc = "rsize" =>
            \A t \in Tids : t < w[q].i => tconf[t].block_size = PAGE_SIZE
       /\ w[q].pc \in {"rstart", "running"} =>
            \A t \in Tids : t < num_threads => tconf[t].block_size = PAGE_SIZE

RunInv == DataType /\ FewStoresLand /\ \A q \in Writers : RunnerInv(q)

\* A configuration that has passed is one the check accepts again, and its
\* window fits the device: the correction is made once.
LEMMA PassedIsValid ==
  ASSUME NEW c \in ThreadConfig
  PROVE  /\ Passed(c) <=> /\ kio_config_is_valid(c, DevSize)
                          /\ ~NeedsCap(c, DevSize)
         /\ ~NeedsCap(c, DevSize) <=> c.offset_high + c.block_size <= DevSize
<1>1. ~NeedsCap(c, DevSize) => CapHigh(c, DevSize) = c
  BY Zenon DEF CapHigh
<1>2. DevSize \in Int /\ c.block_size \in Int /\ c.offset_high \in Int
  BY KioConfigAssumption DEF ThreadConfig
<1>3. ~NeedsCap(c, DevSize) <=> c.offset_high + c.block_size <= DevSize
  BY <1>2 DEF NeedsCap
<1> QED BY Zenon, <1>1, <1>3 DEF Passed, kio_config_is_valid

\* The cap makes the window of a configuration fit, and is the correction.
LEMMA CappedFits ==
  ASSUME NEW c \in ThreadConfig, FitsDevice(c, DevSize), NeedsCap(c, DevSize),
         NEW d, d = [c EXCEPT !.offset_high = DevSize - c.block_size]
  PROVE  /\ d = Corrected(c, DevSize)
         /\ FitsDevice(d, DevSize) /\ ~NeedsCap(d, DevSize)
<1>1. d = Corrected(c, DevSize)
  BY Zenon DEF Corrected, CapHigh
<1>2. DevSize \in Int /\ c.block_size \in Int /\ c.offset_low \in Int /\ c.offset_high \in Int
  BY KioConfigAssumption DEF ThreadConfig
<1>3. /\ d.block_size = c.block_size /\ d.offset_stride = c.offset_stride
      /\ d.queue_depth = c.queue_depth /\ d.offset_low = c.offset_low
      /\ d.read_mix_percent = c.read_mix_percent
      /\ d.read_burst = c.read_burst /\ d.write_burst = c.write_burst
      /\ d.read_sleep_usec = c.read_sleep_usec
      /\ d.write_sleep_usec = c.write_sleep_usec
      /\ d.offset_high = DevSize - c.block_size
  BY Zenon DEF ThreadConfig
<1>4. c.offset_low >= 0 /\ c.offset_low + c.block_size <= DevSize
  BY SMT DEF FitsDevice, VarsInRange, LowFits
<1>5. d.offset_high >= 0
  BY <1>2, <1>3, <1>4
<1>6. VarsInRange(d)
  BY SMT, <1>3, <1>5 DEF FitsDevice, VarsInRange
<1>7. FitsDevice(d, DevSize)
  BY Zenon, <1>3, <1>6 DEF FitsDevice, LowFits
<1>8. ~NeedsCap(d, DevSize)
  BY <1>2, <1>3 DEF NeedsCap
<1> QED BY Zenon, <1>1, <1>7, <1>8

\* offset_high can be set to any offset.
LEMMA HighType ==
  ASSUME NEW c \in ThreadConfig, NEW high \in Int
  PROVE  [c EXCEPT !.offset_high = high] \in ThreadConfig
BY Zenon DEF ThreadConfig

\* What is stored is of the type of the field.
LEMMA StoreType ==
  ASSUME NEW c \in ThreadConfig, NEW v \in ThreadVars, NEW x \in Int
  PROVE  [c EXCEPT ![v] = Truncate(v, x)] \in ThreadConfig
<1> SUFFICES ASSUME NEW y, y = Truncate(v, x)
             PROVE  [c EXCEPT ![v] = y] \in ThreadConfig
  BY Zenon
<1>1. Byte(x) \in Int /\ Word(x) \in Int /\ SignedWord(x) \in Int /\ Bit(x) \in BOOLEAN
  BY KioWordsAssumption DEF Byte, Word, SignedWord, Bit
<1>2. CASE v \in {"offset_random", "burst_delay", "burst_finish"}
  <2>1. y \in BOOLEAN
    BY Zenon, <1>1, <1>2 DEF Truncate
  <2>2. CASE v = "offset_random"
    BY Zenon, <2>1, <2>2 DEF ThreadConfig
  <2>3. CASE v = "burst_delay"
    BY Zenon, <2>1, <2>3 DEF ThreadConfig
  <2>4. CASE v = "burst_finish"
    BY Zenon, <2>1, <2>4 DEF ThreadConfig
  <2> QED BY Zenon, <1>2, <2>2, <2>3, <2>4
<1>3. CASE v \notin {"offset_random", "burst_delay", "burst_finish"}
  <2>1. y \in Int
    BY <1>1, <1>3 DEF Truncate
  <2>2. CASE v = "block_size"
    BY Zenon, <2>1, <2>2 DEF ThreadConfig
  <2>3. CASE v = "queue_depth"
    BY Zenon, <2>1, <2>3 DEF ThreadConfig
  <2>4. CASE v = "offset_stride"
    BY Zenon, <2>1, <2>4 DEF ThreadConfig
  <2>5. CASE v = "offset_low"
    BY Zenon, <2>1, <2>5 DEF ThreadConfig
  <2>6. CASE v = "offset_high"
    BY Zenon, <2>1, <2>6 DEF ThreadConfig
  <2>7. CASE v = "read_mix_percent"
    BY Zenon, <2>1, <2>7 DEF ThreadConfig
  <2>8. CASE v = "read_burst"
    BY Zenon, <2>1, <2>8 DEF ThreadConfig
  <2>9. CASE v = "write_burst"
    BY Zenon, <2>1, <2>9 DEF ThreadConfig
  <2>10. CASE v = "read_sleep_usec"
    BY Zenon, <2>1, <2>10 DEF ThreadConfig
  <2>11. CASE v = "write_sleep_usec"
    BY Zenon, <2>1, <2>11 DEF ThreadConfig
  <2> QED
    BY Zenon, <1>3, <2>2, <2>3, <2>4, <2>5, <2>6, <2>7, <2>8, <2>9, <2>10, <2>11
      DEF ThreadVars
<1> QED BY Zenon, <1>2, <1>3

\* The stores past the test are as many as a number, and fewer of them count
\* less.
LEMMA LateIsFinite ==
  /\ IsFiniteSet(Writers) /\ Cardinality(Writers) \in Nat
  /\ Cardinality(Writers) > 0
  /\ IsFiniteSet(Late) /\ Cardinality(Late) \in Nat
<1>1. IsFiniteSet(Writers) /\ Writers # {}
  BY Zenon, KioConfigAssumption
<1>2. Cardinality(Writers) \in Nat /\ Cardinality(Writers) # 0
  BY Zenon, <1>1, FS_CardinalityType, FS_EmptySet
<1>3. Late \in SUBSET Writers
  BY Zenon DEF Late
<1>4. IsFiniteSet(Late)
  BY Zenon, <1>1, <1>3, FS_Subset
<1>5. Cardinality(Late) \in Nat
  BY Zenon, <1>4, FS_CardinalityType
<1>6. Cardinality(Writers) > 0
  BY <1>2
<1> QED BY Zenon, <1>1, <1>2, <1>4, <1>5, <1>6

\* A step that lets no other store past the test leaves at most as many.
LEMMA LateShrinks ==
  ASSUME NEW p \in Writers, \A q \in Writers : q # p => w'[q] = w[q],
         w'[p].pc \in {"vlookup", "vassign"} => w[p].pc \in {"vlookup", "vassign"}
  PROVE  Cardinality(Late') \in Nat /\ Cardinality(Late') <= Cardinality(Late)
<1>1. Late' \in SUBSET Late
  BY Zenon DEF Late
<1>2. IsFiniteSet(Late)
  BY Zenon, LateIsFinite
<1> QED BY Zenon, <1>1, <1>2, FS_Subset, FS_CardinalityType

\* A step of p that has nothing to do with a run: it changes neither the
\* configurations nor the run, and p is not on its way to a run after it.
LEMMA QuietKeeps ==
  ASSUME RunInv, NEW p \in Writers,
         UNCHANGED <<kio_running, num_threads, tconf, landed, seen>>,
         runtime_seconds' \in Seconds,
         \A q \in Writers : q # p => w'[q] = w[q],
         w'[p].pc \notin Running,
         w'[p].pc \in {"vlookup", "vassign"} => w[p].pc \in {"vlookup", "vassign"}
  PROVE  RunInv'
<1>1. DataType' /\ FewStoresLand'
  BY Zenon DEF RunInv, DataType, FewStoresLand
<1>2. RunnerInv(p)'
  BY Zenon DEF RunnerInv, Running, CheckLabels, Checking
<1>3. ASSUME NEW q \in Writers, q # p PROVE RunnerInv(q)'
  <2>1. w'[q] = w[q] /\ RunnerInv(q)
    BY Zenon, <1>3 DEF RunInv
  <2>2. w[q].pc = "running" =>
          landed'.running + Cardinality(Late') < Cardinality(Writers)
    <3>1. w[q].pc = "running" =>
            landed.running + Cardinality(Late) < Cardinality(Writers)
      BY Zenon, <2>1 DEF RunnerInv
    <3>2. landed.running \in Nat /\ landed' = landed
      BY Zenon DEF RunInv, DataType, Landed
    <3>3. Cardinality(Late') \in Nat /\ Cardinality(Late') <= Cardinality(Late)
      BY Zenon, LateShrinks
    <3>4. Cardinality(Late) \in Nat /\ Cardinality(Writers) \in Nat
      BY Zenon, LateIsFinite
    <3> QED BY <3>1, <3>2, <3>3, <3>4
  <2>3. Cardinality(Late)' = Cardinality(Late')
    OBVIOUS
  <2> QED BY Zenon, <2>1, <2>2, <2>3 DEF RunnerInv, Passed
<1> QED BY Zenon, <1>1, <1>2, <1>3 DEF RunInv

\* A step of the holder of the mutex, whatever it does to the run.
LEMMA HolderRuns ==
  ASSUME ConfigInv, NEW p \in Writers, mutex = p,
         \A q \in Writers : q # p => w'[q] = w[q],
         DataType', FewStoresLand', RunnerInv(p)'
  PROVE  RunInv'
<1>1. ASSUME NEW q \in Writers, q # p PROVE RunnerInv(q)'
  <2>1. w'[q].pc \notin Critical
    BY Zenon, <1>1, OthersOutside
  <2> QED BY Zenon, <2>1 DEF RunnerInv, Critical, Running, CheckLabels, Checking
<1> QED BY Zenon, <1>1 DEF RunInv

\* The initial state.
LEMMA InitRunInv == Init => RunInv
<1> SUFFICES ASSUME Init PROVE RunInv
  OBVIOUS
<1>1. ZeroConfig \in ThreadConfig
  BY DEF ZeroConfig, ThreadConfig
<1>2. tconf \in [Tids -> ThreadConfig]
  BY Zenon, <1>1 DEF Init
<1>3. /\ runtime_seconds \in Seconds /\ landed \in Landed /\ landed.running = 0
      /\ seen \subseteq ThreadConfig
  BY DEF Init, Landed, NoStores, Seconds, KIO_MAX_RUNTIME_SECONDS
<1>4. FewStoresLand
  BY <1>3, LateIsFinite DEF FewStoresLand
<1>5. \A q \in Writers : w[q].pc = "idle"
  BY Zenon DEF Init, IdleFrame
<1>6. \A q \in Writers : RunnerInv(q)
  BY Zenon, <1>5 DEF RunnerInv, CheckLabels, Checking
<1> QED BY Zenon, <1>2, <1>3, <1>4, <1>6 DEF RunInv, DataType

\* The steps that have nothing to do with a run.
Quiet(p) ==
  \/ Write(p) \/ Lock(p) \/ Unlock(p) \/ RT_Body(p) \/ V_Lookup(p)
  \/ NT_Check(p) \/ NT_AllocFails(p) \/ NT_Kobj(p) \/ NT_KobjFails(p)
  \/ NT_Files(p) \/ NT_FilesFail(p) \/ NT_FilesPut(p)
  \/ NT_DestroyPut(p) \/ NT_DestroyNext(p) \/ NT_Free(p)

\* Where they lead, and what they leave alone.
LEMMA QuietFrame ==
  ASSUME ConfigInv, NEW p \in Writers, Quiet(p)
  PROVE  /\ UNCHANGED <<kio_running, num_threads, tconf, landed, seen>>
         /\ RT_Body(p) \/ UNCHANGED runtime_seconds
         /\ \A q \in Writers : q # p => w'[q] = w[q]
         /\ w'[p].pc \notin Running
         /\ w'[p].pc \in {"vlookup", "vassign"} => w[p].pc \in {"vlookup", "vassign"}
<1>1. w \in [Writers -> Frame] /\ w[p] \in Frame /\ num_threads \in 0 .. Cpus
  BY Zenon DEF ConfigInv, StructType
<1>2. /\ UNCHANGED <<kio_running, num_threads, tconf, landed, seen>>
      /\ RT_Body(p) \/ UNCHANGED runtime_seconds
  <2>1. CASE Write(p)
    BY Zenon, <2>1 DEF Write, Call, CallVar, dataVars
  <2>2. CASE Lock(p) \/ Unlock(p) \/ V_Lookup(p)
    BY Zenon, <2>2 DEF Lock, Unlock, V_Lookup, dataVars
  <2>3. CASE RT_Body(p)
    BY Zenon, <2>3 DEF RT_Body
  <2>4. CASE NT_Check(p) \/ NT_AllocFails(p) \/ NT_Kobj(p) \/ NT_KobjFails(p) \/ NT_Files(p)
    BY Zenon, <2>4 DEF NT_Check, NT_AllocFails, NT_Kobj, NT_KobjFails, NT_Files, dataVars
  <2>5. CASE \/ NT_FilesFail(p) \/ NT_FilesPut(p) \/ NT_DestroyPut(p)
             \/ NT_DestroyNext(p) \/ NT_Free(p)
    BY Zenon, <2>5
      DEF NT_FilesFail, NT_FilesPut, NT_DestroyPut, NT_DestroyNext, NT_Free, dataVars
  <2> QED BY Zenon, <2>1, <2>2, <2>3, <2>4, <2>5 DEF Quiet
<1>3. SUFFICES /\ \A q \in Writers : q # p => w'[q] = w[q]
               /\ \/ w'[p].pc \in {"idle", "lock", "body", "unlock", "vcheck"} \cup
                                  {"ntalloc"} \cup Building
                  \/ w'[p].pc = "vassign" /\ w[p].pc = "vlookup"
  BY Zenon, <1>2 DEF Running, Building
<1>4. {"body", "unlock", "ntalloc", "ntkobj", "ntfiles", "ntput", "ntdestroy",
       "ntfree", "vassign"} \subseteq PC
  BY Zenon DEF PC
<1>5. CASE Write(p)
  <2>1. CASE \E op \in {"num_threads", "runtime_seconds", "run_workload"}, arg \in Int :
               Call(p, op, arg)
    <3>1. PICK op \in {"num_threads", "runtime_seconds", "run_workload"}, arg \in Int :
             w' = [w EXCEPT ![p].pc = "lock", ![p].op = op, ![p].arg = arg]
      BY Zenon, <2>1 DEF Call
    <3>2. /\ w'[p] = [w[p] EXCEPT !.pc = "lock", !.op = op, !.arg = arg]
          /\ \A q \in Writers : q # p => w'[q] = w[q]
      BY Zenon, <1>1, <3>1
    <3>3. w'[p].pc = "lock"
      BY Zenon, <1>1, <3>2 DEF Frame
    <3> QED BY Zenon, <3>2, <3>3
  <2>2. CASE \E t \in Tids, s \in Stores : CallVar(p, t, s)
    <3>1. PICK t \in Tids, s \in Stores :
            w' = [w EXCEPT ![p] = [pc |-> "vcheck", op |-> "var", arg |-> s.value,
                                   tid |-> t, var |-> s.var, i |-> 0]]
      BY Zenon, <2>2 DEF CallVar
    <3>2. /\ w'[p] = [pc |-> "vcheck", op |-> "var", arg |-> s.value,
                      tid |-> t, var |-> s.var, i |-> 0]
          /\ \A q \in Writers : q # p => w'[q] = w[q]
      BY Zenon, <1>1, <3>1
    <3>3. w'[p].pc = "vcheck"
      BY <3>2
    <3> QED BY Zenon, <3>2, <3>3
  <2>3. NumThreadsArgs \subseteq Int /\ SecondsArgs \subseteq Int /\ 1 \in Int
    BY KioConfigAssumption
  <2> QED BY Zenon, <1>5, <2>1, <2>2, <2>3 DEF Write
<1>6. CASE \E label \in {"body", "unlock", "ntalloc", "ntfiles", "ntput"} : Goto(p, label)
  <2>1. PICK label \in {"body", "unlock", "ntalloc", "ntfiles", "ntput"} : Goto(p, label)
    BY Zenon, <1>6
  <2>2. w'[p].pc = label /\ \A q \in Writers : q # p => w'[q] = w[q]
    BY Zenon, <1>1, <1>4, <2>1, GotoEffect
  <2> QED BY Zenon, <2>2 DEF Building
<1>7. CASE Return(p)
  BY Zenon, <1>1, <1>7, ReturnEffect
<1>8. CASE w' = [w EXCEPT ![p].pc = "ntdestroy", ![p].i = 0]
  BY Zenon, <1>1, <1>4, <1>8, RestartEffect DEF Building
<1>9. CASE NT_DestroyPut(p)
  BY Zenon, <1>9 DEF NT_DestroyPut, Building
<1>10. CASE NT_DestroyNext(p)
  <2>1. Loop(p, num_threads, "ntdestroy", "ntfree")
    BY Zenon, <1>10 DEF NT_DestroyNext
  <2>2. /\ \/ w[p].i + 1 < num_threads /\ w'[p].pc = "ntdestroy" /\ w'[p].i = w[p].i + 1
           \/ ~(w[p].i + 1 < num_threads) /\ w'[p].pc = "ntfree" /\ w'[p].i = 0
        /\ \A q \in Writers : q # p => w'[q] = w[q]
    BY Zenon, <1>1, <1>4, <2>1, LoopEffect
  <2> QED BY Zenon, <2>2 DEF Building
<1>11. CASE NT_Files(p)
  <2>1. Loop(p, num_threads, "ntkobj", "unlock")
    BY Zenon, <1>11 DEF NT_Files
  <2>2. /\ \/ w[p].i + 1 < num_threads /\ w'[p].pc = "ntkobj" /\ w'[p].i = w[p].i + 1
           \/ ~(w[p].i + 1 < num_threads) /\ w'[p].pc = "unlock" /\ w'[p].i = 0
        /\ \A q \in Writers : q # p => w'[q] = w[q]
    BY Zenon, <1>1, <1>4, <2>1, LoopEffect
  <2> QED BY Zenon, <2>2 DEF Building
<1>12. CASE V_Lookup(p)
  <2>1. CASE Goto(p, "vassign")
    BY Zenon, <1>1, <1>4, <1>12, <2>1, GotoEffect DEF V_Lookup
  <2> QED BY Zenon, <1>7, <1>12, <2>1 DEF V_Lookup
<1>13. CASE \/ Lock(p) \/ Unlock(p) \/ RT_Body(p) \/ NT_Check(p) \/ NT_AllocFails(p)
            \/ NT_Kobj(p) \/ NT_KobjFails(p) \/ NT_FilesFail(p) \/ NT_FilesPut(p)
            \/ NT_Free(p)
  BY Zenon, <1>6, <1>7, <1>8, <1>13
    DEF Lock, Unlock, RT_Body, NT_Check, NT_AllocFails, NT_Kobj, NT_KobjFails,
        NT_FilesFail, NT_FilesPut, NT_Free
<1> QED BY Zenon, <1>5, <1>9, <1>10, <1>11, <1>12, <1>13 DEF Quiet

\* What kio_runtime_seconds_store() lets through.
LEMMA SecondsRange ==
  \A x \in Int : InRange(x, 1, KIO_MAX_RUNTIME_SECONDS) =>
    x \in Seconds /\ x \in 1 .. KIO_MAX_RUNTIME_SECONDS
<1>1. KIO_MAX_RUNTIME_SECONDS \in Int
  BY DEF KIO_MAX_RUNTIME_SECONDS
<1> QED BY <1>1 DEF InRange, Seconds

\* They keep the invariant; kio_runtime_seconds_store() checks the range.
LEMMA QuietRuns ==
  ASSUME ConfigInv, RunInv, NEW p \in Writers, Quiet(p)
  PROVE  RunInv'
<1>1. runtime_seconds' \in Seconds
  <2>1. runtime_seconds \in Seconds
    BY Zenon DEF RunInv, DataType
  <2>2. CASE RT_Body(p)
    <3>1. w[p] \in Frame
      BY Zenon DEF ConfigInv, StructType
    <3>2. w[p].arg \in Int
      BY Zenon, <3>1 DEF Frame
    <3>3. \/ runtime_seconds' = runtime_seconds
          \/ /\ runtime_seconds' = w[p].arg
             /\ InRange(w[p].arg, 1, KIO_MAX_RUNTIME_SECONDS)
      BY Zenon, <2>2 DEF RT_Body
    <3> QED BY Zenon, <2>1, <3>2, <3>3, SecondsRange
  <2> QED BY Zenon, <2>1, <2>2, QuietFrame
<1> QED BY Zenon, <1>1, QuietFrame, QuietKeeps

\* The array is filled with zeroes while nobody runs.
LEMMA AllocRuns ==
  ASSUME ConfigInv, RunInv, NEW p \in Writers, NT_Alloc(p)
  PROVE  RunInv'
<1>1. mutex = p /\ w \in [Writers -> Frame] /\ "ntkobj" \in PC
  BY Zenon DEF NT_Alloc, ConfigInv, StructType, HandlerInv, Critical, PC
<1>2. w'[p].pc = "ntkobj" /\ \A q \in Writers : q # p => w'[q] = w[q]
  BY Zenon, <1>1, GotoEffect DEF NT_Alloc
<1>3. ZeroConfig \in ThreadConfig
  BY DEF ZeroConfig, ThreadConfig
<1>4. /\ tconf' = [t \in Tids |-> ZeroConfig]
      /\ UNCHANGED <<runtime_seconds, landed, seen>>
  BY Zenon DEF NT_Alloc
<1>5. DataType' /\ FewStoresLand'
  BY Zenon, <1>3, <1>4 DEF RunInv, DataType, FewStoresLand
<1>6. RunnerInv(p)'
  BY Zenon, <1>2 DEF RunnerInv, CheckLabels, Checking
<1> QED BY Zenon, <1>1, <1>2, <1>5, <1>6, HolderRuns

\* kio_run_workload_store() begins, and so does the record of what lands.
LEMMA CheckRuns ==
  ASSUME ConfigInv, RunInv, NEW p \in Writers, R_Check(p)
  PROVE  RunInv'
<1>1. /\ mutex = p /\ w[p].i = 0
      /\ w \in [Writers -> Frame] /\ {"rvalid", "unlock"} \subseteq PC
  <2>1. w[p].pc = "body"
    BY Zenon DEF R_Check
  <2> QED BY Zenon, <2>1 DEF ConfigInv, StructType, HandlerInv, Critical, PC
<1>2. PICK label \in {"rvalid", "unlock"} : Goto(p, label)
  BY Zenon DEF R_Check
<1>3. /\ w'[p].pc = label /\ w'[p].i = 0
      /\ \A q \in Writers : q # p => w'[q] = w[q]
  BY Zenon, <1>1, <1>2, GotoEffect
<1>4. landed' = NoStores /\ UNCHANGED <<runtime_seconds, tconf, seen>>
  BY Zenon DEF R_Check, dataVars
<1>5. landed' \in Landed /\ landed'.running = 0
  BY <1>4 DEF NoStores, Landed
<1>6. DataType'
  BY Zenon, <1>4, <1>5 DEF RunInv, DataType
<1>7. FewStoresLand'
  BY <1>5, LateIsFinite DEF FewStoresLand
<1>8. \A t \in Tids : ~(t < 0)
  BY CpusPositive DEF Tids
<1>9. \A t \in Tids : ~(t < w'[p].i)
  BY Zenon, <1>3, <1>8
<1>10. RunnerInv(p)'
  BY Zenon, <1>2, <1>3, <1>5, <1>9 DEF RunnerInv, CheckLabels, Checking
<1> QED BY Zenon, <1>1, <1>3, <1>6, <1>7, <1>10, HolderRuns

\* What a step of the check finds, and leaves alone.
LEMMA CheckerKnows ==
  ASSUME ConfigInv, RunInv, NEW p \in Writers, CheckPass(p)
  PROVE  /\ mutex = p /\ w[p].i \in Tids
         /\ w \in [Writers -> Frame] /\ num_threads \in 0 .. Cpus
         /\ tconf \in [Tids -> ThreadConfig] /\ tconf[w[p].i] \in ThreadConfig
         /\ seen \subseteq ThreadConfig
         /\ landed.running = 0 /\ RunnerInv(p)
         /\ UNCHANGED <<num_threads, landed>>
         /\ FewStoresLand'
         /\ tconf' \in [Tids -> ThreadConfig] /\ seen' \subseteq ThreadConfig
              => DataType'
         /\ \A q \in Writers : q # p => w'[q] = w[q]
<1>1. /\ w[p].pc \in CheckLabels
      /\ UNCHANGED <<runtime_seconds, num_threads, landed>>
  BY Zenon, CheckPassMoves
<1>2. /\ mutex = p /\ w[p] \in Frame
      /\ w \in [Writers -> Frame] /\ num_threads \in 0 .. Cpus
  BY Zenon, <1>1 DEF ConfigInv, StructType, HandlerInv, Critical, Running, CheckLabels
<1>3. w[p].i \in Tids
  BY Zenon, <1>2 DEF Frame
<1>4. /\ tconf \in [Tids -> ThreadConfig] /\ tconf[w[p].i] \in ThreadConfig
      /\ seen \subseteq ThreadConfig
      /\ landed.running = 0 /\ RunnerInv(p)
  BY Zenon, <1>1, <1>3 DEF RunInv, DataType, RunnerInv
<1>5. FewStoresLand'
  BY Zenon, <1>1 DEF RunInv, FewStoresLand
<1>6. tconf' \in [Tids -> ThreadConfig] /\ seen' \subseteq ThreadConfig => DataType'
  BY Zenon, <1>1 DEF RunInv, DataType
<1>7. \A q \in Writers : q # p => w'[q] = w[q]
  BY Zenon, <1>2, CheckPassLeads
<1> QED BY Zenon, <1>1, <1>2, <1>3, <1>4, <1>5, <1>6, <1>7

\* A handler that gives up has nothing to keep.
LEMMA GivesUp ==
  ASSUME NEW p \in Writers, w'[p].pc = "unlock"
  PROVE  RunnerInv(p)'
BY Zenon DEF RunnerInv, CheckLabels, Checking

\* The check of a thread begins: it reads what the thread has.
LEMMA ThreadRuns ==
  ASSUME ConfigInv, RunInv, NEW p \in Writers, R_Thread(p)
  PROVE  RunInv'
<1>1. CheckPass(p)
  BY Zenon DEF CheckPass
<1>2. /\ w[p].pc = "rvalid" /\ Goto(p, "rfit") /\ "rfit" \in PC
      /\ seen' = {tconf[w[p].i]} /\ tconf' = tconf
  BY Zenon DEF R_Thread, dataVars, PC
<1>3. w'[p].pc = "rfit" /\ w'[p].i = w[p].i
  BY Zenon, <1>1, <1>2, CheckerKnows, GotoEffect
<1>4. DataType' /\ FewStoresLand'
  BY Zenon, <1>1, <1>2, CheckerKnows
<1>5. /\ landed'.running = 0 /\ landed' = landed
      /\ ~landed.checked => \A t \in Tids : t < w[p].i => Passed(tconf[t])
  BY Zenon, <1>1, <1>2, CheckerKnows DEF RunnerInv
<1>6. RunnerInv(p)'
  BY Zenon, <1>2, <1>3, <1>5 DEF RunnerInv, CheckLabels, Checking, Passed
<1> QED BY Zenon, <1>1, <1>4, <1>6, CheckerKnows, HolderRuns

\* The tests before the cap: without a store the reads are of one value.
LEMMA FitRuns ==
  ASSUME ConfigInv, RunInv, NEW p \in Writers, R_Fit(p)
  PROVE  RunInv'
<1>1. CheckPass(p)
  BY Zenon DEF CheckPass
<1>2. w[p].pc = "rfit" /\ tconf' = tconf /\ {"rcap", "rrest", "unlock"} \subseteq PC
  BY Zenon DEF R_Fit, dataVars, PC
<1>3. /\ landed'.running = 0 /\ landed' = landed
      /\ ~landed.checked => /\ seen = {tconf[w[p].i]}
                            /\ \A t \in Tids : t < w[p].i => Passed(tconf[t])
  BY Zenon, <1>1, <1>2, CheckerKnows DEF RunnerInv, Checking
<1>4. CASE Goto(p, "unlock") /\ seen' = {}
  <2>1. w'[p].pc = "unlock"
    BY Zenon, <1>1, <1>2, <1>4, CheckerKnows, GotoEffect
  <2>2. DataType' /\ FewStoresLand'
    BY Zenon, <1>1, <1>2, <1>4, CheckerKnows
  <2> QED BY Zenon, <1>1, <2>1, <2>2, CheckerKnows, GivesUp, HolderRuns
<1>5. ASSUME {c \in seen : VarsInRange(c)} # {},
             {c \in seen : is_power_of_2(c.block_size)} # {},
             {c \in seen : LowFits(c, DevSize)} # {}, ~landed.checked
      PROVE  FitsDevice(tconf[w[p].i], DevSize)
  BY Zenon, <1>3, <1>5 DEF FitsDevice
<1>6. CASE /\ {c \in seen : VarsInRange(c)} # {}
           /\ {c \in seen : is_power_of_2(c.block_size)} # {}
           /\ {c \in seen : LowFits(c, DevSize)} # {}
           /\ {c \in seen : NeedsCap(c, DevSize)} # {}
           /\ seen' = {tconf[w[p].i]} /\ Goto(p, "rcap")
  <2>1. w'[p].pc = "rcap" /\ w'[p].i = w[p].i
    BY Zenon, <1>1, <1>2, <1>6, CheckerKnows, GotoEffect
  <2>2. DataType' /\ FewStoresLand'
    BY Zenon, <1>1, <1>2, <1>6, CheckerKnows
  <2>3. ~landed.checked => NeedsCap(tconf[w[p].i], DevSize)
    BY Zenon, <1>3, <1>6
  <2>4. RunnerInv(p)'
    BY Zenon, <1>2, <1>3, <1>5, <1>6, <2>1, <2>3
      DEF RunnerInv, CheckLabels, Checking, Passed
  <2> QED BY Zenon, <1>1, <2>2, <2>4, CheckerKnows, HolderRuns
<1>7. CASE /\ {c \in seen : VarsInRange(c)} # {}
           /\ {c \in seen : is_power_of_2(c.block_size)} # {}
           /\ {c \in seen : LowFits(c, DevSize)} # {}
           /\ {c \in seen : ~NeedsCap(c, DevSize)} # {}
           /\ seen' = seen /\ Goto(p, "rrest")
  <2>1. w'[p].pc = "rrest" /\ w'[p].i = w[p].i
    BY Zenon, <1>1, <1>2, <1>7, CheckerKnows, GotoEffect
  <2>2. DataType' /\ FewStoresLand'
    BY Zenon, <1>1, <1>2, <1>7, CheckerKnows
  <2>3. ~landed.checked => ~NeedsCap(tconf[w[p].i], DevSize)
    BY Zenon, <1>3, <1>7
  <2>4. RunnerInv(p)'
    BY Zenon, <1>2, <1>3, <1>5, <1>7, <2>1, <2>3
      DEF RunnerInv, CheckLabels, Checking, Passed
  <2> QED BY Zenon, <1>1, <2>2, <2>4, CheckerKnows, HolderRuns
<1> QED BY Zenon, <1>4, <1>6, <1>7 DEF R_Fit

\* What R_Cap makes of the thread.
LEMMA CapEffect ==
  ASSUME ConfigInv, RunInv, NEW p \in Writers, R_Cap(p)
  PROVE  /\ tconf' \in [Tids -> ThreadConfig] /\ seen' \subseteq ThreadConfig
         /\ tconf' = [tconf EXCEPT ![w[p].i].offset_high = tconf'[w[p].i].offset_high]
         /\ \A t \in Tids : t # w[p].i => tconf'[t] = tconf[t]
         /\ ~landed.checked =>
              /\ tconf'[w[p].i] = Corrected(tconf[w[p].i], DevSize)
              /\ FitsDevice(tconf'[w[p].i], DevSize)
              /\ ~NeedsCap(tconf'[w[p].i], DevSize)
              /\ seen' = {tconf'[w[p].i]}
<1>1. CheckPass(p) /\ w[p].pc = "rcap"
  BY Zenon DEF CheckPass, R_Cap
<1>2. /\ w[p].i \in Tids /\ tconf \in [Tids -> ThreadConfig]
      /\ tconf[w[p].i] \in ThreadConfig /\ seen \subseteq ThreadConfig
  BY Zenon, <1>1, CheckerKnows
<1>3. PICK high \in {DevSize - c.block_size : c \in seen} :
        /\ tconf' = [tconf EXCEPT ![w[p].i].offset_high = high]
        /\ seen' = {[c EXCEPT !.offset_high = high] : c \in seen}
  BY Zenon DEF R_Cap
<1>4. PICK c \in seen : high = DevSize - c.block_size
  BY Zenon, <1>3
<1>5. high \in Int
  <2>1. c \in ThreadConfig
    BY Zenon, <1>2, <1>4
  <2>2. c.block_size \in Int /\ DevSize \in Int
    BY <2>1, KioConfigAssumption DEF ThreadConfig
  <2> QED BY <1>4, <2>2
<1>6. /\ tconf'[w[p].i] = [tconf[w[p].i] EXCEPT !.offset_high = high]
      /\ \A t \in Tids : t # w[p].i => tconf'[t] = tconf[t]
  BY Zenon, <1>2, <1>3
<1>7. tconf' \in [Tids -> ThreadConfig]
  BY Zenon, <1>2, <1>3, <1>5, <1>6, HighType
<1>8. seen' \subseteq ThreadConfig
  <2> SUFFICES ASSUME NEW d \in seen' PROVE d \in ThreadConfig
    BY Zenon
  <2>1. PICK e \in seen : d = [e EXCEPT !.offset_high = high]
    BY Zenon, <1>3
  <2> QED BY Zenon, <1>2, <1>5, <2>1, HighType
<1>9. tconf' = [tconf EXCEPT ![w[p].i].offset_high = tconf'[w[p].i].offset_high]
  <2>1. tconf'[w[p].i].offset_high = high
    BY Zenon, <1>2, <1>6 DEF ThreadConfig
  <2> QED BY Zenon, <1>3, <2>1
<1>10. ASSUME ~landed.checked
       PROVE  /\ tconf'[w[p].i] = Corrected(tconf[w[p].i], DevSize)
              /\ FitsDevice(tconf'[w[p].i], DevSize)
              /\ ~NeedsCap(tconf'[w[p].i], DevSize)
              /\ seen' = {tconf'[w[p].i]}
  <2>1. /\ seen = {tconf[w[p].i]} /\ FitsDevice(tconf[w[p].i], DevSize)
        /\ NeedsCap(tconf[w[p].i], DevSize)
    BY Zenon, <1>1, <1>10, CheckerKnows DEF RunnerInv, Checking
  <2>2. c = tconf[w[p].i]
    BY Zenon, <1>4, <2>1
  <2>3. seen' = {tconf'[w[p].i]}
    BY Zenon, <1>3, <1>6, <2>1
  <2>4. tconf'[w[p].i] =
          [tconf[w[p].i] EXCEPT !.offset_high = DevSize - tconf[w[p].i].block_size]
    BY Zenon, <1>4, <1>6, <2>2
  <2> QED BY Zenon, <1>2, <2>1, <2>3, <2>4, CappedFits
<1> QED BY Zenon, <1>6, <1>7, <1>8, <1>9, <1>10

LEMMA CapRuns ==
  ASSUME ConfigInv, RunInv, NEW p \in Writers, R_Cap(p)
  PROVE  RunInv'
<1>1. CheckPass(p) /\ w[p].pc = "rcap" /\ Goto(p, "rrest") /\ "rrest" \in PC
  BY Zenon DEF CheckPass, R_Cap, PC
<1>2. w'[p].pc = "rrest" /\ w'[p].i = w[p].i
  BY Zenon, <1>1, CheckerKnows, GotoEffect
<1>3. DataType' /\ FewStoresLand'
  BY Zenon, <1>1, CheckerKnows, CapEffect
<1>4. /\ landed'.running = 0 /\ landed' = landed
      /\ ~landed.checked => \A t \in Tids : t < w[p].i => Passed(tconf[t])
  BY Zenon, <1>1, CheckerKnows DEF RunnerInv, Checking
<1>5. ASSUME ~landed.checked, NEW t \in Tids, t < w[p].i
      PROVE  Passed(tconf'[t])
  <2>1. t # w[p].i
    BY <1>1, <1>5, CheckerKnows, CpusPositive DEF Tids
  <2> QED BY Zenon, <1>4, <1>5, <2>1, CapEffect
<1>6. RunnerInv(p)'
  BY Zenon, <1>2, <1>4, <1>5, CapEffect DEF RunnerInv, CheckLabels, Checking, Passed
<1> QED BY Zenon, <1>1, <1>3, <1>6, CheckerKnows, HolderRuns

\* A loop over the threads: what holds of those before the next one.
LEMMA LoopCovers ==
  ASSUME w \in [Writers -> Frame], NEW p \in Writers, num_threads \in 0 .. Cpus,
         w[p].i \in Tids, NEW again \in PC, NEW done \in PC, again # done,
         Loop(p, num_threads, again, done)
  PROVE  /\ w'[p].pc \in {again, done}
         /\ w'[p].pc = again =>
              \A t \in Tids : t < w'[p].i => t < w[p].i \/ t = w[p].i
         /\ w'[p].pc = done =>
              \A t \in Tids : /\ t < num_threads => t < w[p].i \/ t = w[p].i
                              /\ ~(t < w'[p].i)
<1>1. \/ w[p].i + 1 < num_threads /\ w'[p].pc = again /\ w'[p].i = w[p].i + 1
      \/ ~(w[p].i + 1 < num_threads) /\ w'[p].pc = done /\ w'[p].i = 0
  BY Zenon, LoopEffect
<1>2. w[p].i \in Int /\ num_threads \in Int /\ \A t \in Tids : t \in Int /\ t >= 0
  BY CpusPositive DEF Tids
<1> QED BY <1>1, <1>2

\* The tests after the cap: one more thread has passed.
LEMMA RestRuns ==
  ASSUME ConfigInv, RunInv, NEW p \in Writers, R_Rest(p)
  PROVE  RunInv'
<1>1. CheckPass(p)
  BY Zenon DEF CheckPass
<1>2. /\ w[p].pc = "rrest" /\ tconf' = tconf /\ seen' = {}
      /\ {"rvalid", "rsize", "unlock"} \subseteq PC /\ "rvalid" # "rsize"
  BY Zenon DEF R_Rest, dataVars, PC
<1>3. /\ landed'.running = 0 /\ landed' = landed /\ num_threads' = num_threads
      /\ ~landed.checked => /\ seen = {tconf[w[p].i]}
                            /\ FitsDevice(tconf[w[p].i], DevSize)
                            /\ ~NeedsCap(tconf[w[p].i], DevSize)
                            /\ \A t \in Tids : t < w[p].i => Passed(tconf[t])
  BY Zenon, <1>1, <1>2, CheckerKnows DEF RunnerInv, Checking
<1>4. DataType' /\ FewStoresLand'
  BY Zenon, <1>1, <1>2, CheckerKnows
<1>5. CASE Goto(p, "unlock")
  <2>1. w'[p].pc = "unlock"
    BY Zenon, <1>1, <1>2, <1>5, CheckerKnows, GotoEffect
  <2> QED BY Zenon, <1>1, <1>4, <2>1, CheckerKnows, GivesUp, HolderRuns
<1>6. CASE /\ {c \in seen : LowBelowHigh(c)} # {} /\ {c \in seen : HasBurst(c)} # {}
           /\ {c \in seen : ReadsCan(c)} # {} /\ {c \in seen : WritesCan(c)} # {}
           /\ Loop(p, num_threads, "rvalid", "rsize")
  <2>1. ~landed.checked => Consistent(tconf[w[p].i])
    BY Zenon, <1>3, <1>6 DEF Consistent
  <2>2. ~landed.checked => Passed(tconf[w[p].i])
    BY Zenon, <1>3, <2>1 DEF Passed
  <2>3. /\ w'[p].pc \in {"rvalid", "rsize"}
        /\ w'[p].pc = "rvalid" =>
              \A t \in Tids : t < w'[p].i => t < w[p].i \/ t = w[p].i
        /\ w'[p].pc = "rsize" =>
              \A t \in Tids : /\ t < num_threads => t < w[p].i \/ t = w[p].i
                              /\ ~(t < w'[p].i)
    BY Zenon, <1>1, <1>2, <1>6, CheckerKnows, LoopCovers
  <2>4. ASSUME w'[p].pc = "rvalid" PROVE RunnerInv(p)'
    BY Zenon, <1>2, <1>3, <2>2, <2>3, <2>4
      DEF RunnerInv, CheckLabels, Checking, Passed
  <2>5. ASSUME w'[p].pc = "rsize" PROVE RunnerInv(p)'
    BY Zenon, <1>2, <1>3, <2>2, <2>3, <2>5
      DEF RunnerInv, CheckLabels, Checking, Passed
  <2> QED BY Zenon, <1>1, <1>4, <2>3, <2>4, <2>5, CheckerKnows, HolderRuns
<1> QED BY Zenon, <1>5, <1>6 DEF R_Rest

\* kio_run() looks at the block size of one thread after the other.
LEMMA SizeRuns ==
  ASSUME ConfigInv, RunInv, NEW p \in Writers, R_Size(p)
  PROVE  RunInv'
<1>1. CheckPass(p)
  BY Zenon DEF CheckPass
<1>2. /\ w[p].pc = "rsize" /\ tconf' = tconf /\ seen' = seen
      /\ {"rstart", "rsize", "unlock"} \subseteq PC /\ "rstart" # "rsize"
  BY Zenon DEF R_Size, dataVars, PC
<1>3. /\ landed'.running = 0 /\ landed' = landed /\ num_threads' = num_threads
      /\ ~landed.checked =>
           /\ \A t \in Tids : t < num_threads => Passed(tconf[t])
           /\ \A t \in Tids : t < w[p].i => tconf[t].block_size = PAGE_SIZE
  BY Zenon, <1>1, <1>2, CheckerKnows DEF RunnerInv
<1>4. DataType' /\ FewStoresLand'
  BY Zenon, <1>1, <1>2, CheckerKnows
<1>5. CASE Goto(p, "unlock")
  <2>1. w'[p].pc = "unlock"
    BY Zenon, <1>1, <1>2, <1>5, CheckerKnows, GotoEffect
  <2> QED BY Zenon, <1>1, <1>4, <2>1, CheckerKnows, GivesUp, HolderRuns
<1>6. CASE /\ tconf[w[p].i].block_size = PAGE_SIZE
           /\ Loop(p, num_threads, "rsize", "rstart")
  <2>1. /\ w'[p].pc \in {"rsize", "rstart"}
        /\ w'[p].pc = "rsize" =>
              \A t \in Tids : t < w'[p].i => t < w[p].i \/ t = w[p].i
        /\ w'[p].pc = "rstart" =>
              \A t \in Tids : /\ t < num_threads => t < w[p].i \/ t = w[p].i
                              /\ ~(t < w'[p].i)
    BY Zenon, <1>1, <1>2, <1>6, CheckerKnows, LoopCovers
  <2>2. ASSUME w'[p].pc = "rsize" PROVE RunnerInv(p)'
    BY Zenon, <1>2, <1>3, <1>6, <2>1, <2>2
      DEF RunnerInv, CheckLabels, Checking, Passed
  <2>3. ASSUME w'[p].pc = "rstart" PROVE RunnerInv(p)'
    BY Zenon, <1>2, <1>3, <1>6, <2>1, <2>3
      DEF RunnerInv, CheckLabels, Checking, Passed
  <2> QED BY Zenon, <1>1, <1>4, <2>1, <2>2, <2>3, CheckerKnows, HolderRuns
<1> QED BY Zenon, <1>5, <1>6 DEF R_Size

\* kio_run() sets the flag: the stores that are past the test by then are
\* those of other processes.
LEMMA StartRuns ==
  ASSUME ConfigInv, RunInv, NEW p \in Writers, R_Start(p)
  PROVE  RunInv'
<1>1. /\ mutex = p /\ w[p].pc = "rstart" /\ kio_running' = TRUE
      /\ Goto(p, "running") /\ w \in [Writers -> Frame] /\ "running" \in PC
  BY Zenon DEF R_Start, ConfigInv, StructType, HandlerInv, Critical, Running, PC
<1>2. UNCHANGED <<runtime_seconds, num_threads, tconf, landed, seen>>
  BY Zenon DEF R_Start, dataVars
<1>3. DataType' /\ FewStoresLand'
  BY Zenon, <1>2 DEF RunInv, DataType, FewStoresLand
<1>4. /\ landed'.running = 0
      /\ ~landed.checked =>
           \A t \in Tids : t < num_threads =>
             Passed(tconf[t]) /\ tconf[t].block_size = PAGE_SIZE
  BY Zenon, <1>1, <1>2 DEF RunInv, RunnerInv
<1>5. w'[p].pc = "running" /\ \A q \in Writers : q # p => w'[q] = w[q]
  BY Zenon, <1>1, GotoEffect
<1>6. Late' \in SUBSET Writers /\ p \notin Late'
  BY Zenon, <1>5 DEF Late
<1>7. Late' # Writers
  BY Zenon, <1>6
<1>8. /\ Cardinality(Late') \in Nat /\ Cardinality(Late') <= Cardinality(Writers)
      /\ Cardinality(Late') # Cardinality(Writers)
  BY Zenon, <1>6, <1>7, LateIsFinite, FS_Subset, FS_CardinalityType
<1>9. landed'.running + Cardinality(Late)' < Cardinality(Writers)
  <2>1. Cardinality(Writers) \in Nat
    BY Zenon, LateIsFinite
  <2> QED BY <1>4, <1>8, <2>1
<1>10. RunnerInv(p)'
  BY Zenon, <1>1, <1>2, <1>4, <1>5, <1>9 DEF RunnerInv, CheckLabels, Checking, Passed
<1> QED BY Zenon, <1>1, <1>3, <1>5, <1>10, HolderRuns

\* kio_run() returns, with the flag reset or not.
LEMMA EndRuns ==
  ASSUME ConfigInv, RunInv, NEW p \in Writers, R_End(p) \/ R_SetupFails(p)
  PROVE  RunInv'
<1>1. /\ mutex = p /\ w \in [Writers -> Frame] /\ "unlock" \in PC
  BY Zenon DEF R_End, R_SetupFails, ConfigInv, StructType, HandlerInv, Critical,
               Running, PC
<1>2. /\ UNCHANGED <<runtime_seconds, tconf, seen>>
      /\ landed' \in {landed, NoStores} /\ Goto(p, "unlock")
  BY Zenon DEF R_End, R_SetupFails, dataVars
<1>3. w'[p].pc = "unlock" /\ \A q \in Writers : q # p => w'[q] = w[q]
  BY Zenon, <1>1, <1>2, GotoEffect
<1>4. NoStores \in Landed /\ NoStores.running = 0
  BY DEF NoStores, Landed
<1>5. 0 < Cardinality(Writers)
  BY LateIsFinite
<1>6. DataType' /\ FewStoresLand'
  BY Zenon, <1>2, <1>4, <1>5 DEF RunInv, DataType, FewStoresLand
<1>7. RunnerInv(p)'
  BY Zenon, <1>3, GivesUp
<1> QED BY Zenon, <1>1, <1>3, <1>6, <1>7, HolderRuns

\* A store comes to the test of the flag: during a run it returns, and when it
\* goes on nobody runs.
LEMMA VarCheckRuns ==
  ASSUME ConfigInv, RunInv, NEW p \in Writers, V_Check(p)
  PROVE  RunInv'
<1>1. w \in [Writers -> Frame] /\ "vlookup" \in PC
  BY Zenon DEF ConfigInv, StructType, PC
<1>2. UNCHANGED <<kio_running, runtime_seconds, num_threads, tconf, landed, seen>>
  BY Zenon DEF V_Check, dataVars
<1>3. DataType' /\ FewStoresLand'
  BY Zenon, <1>2 DEF RunInv, DataType, FewStoresLand
<1>4. CASE Return(p)
  <2>1. w'[p].pc = "idle" /\ \A q \in Writers : q # p => w'[q] = w[q]
    BY Zenon, <1>1, <1>4, ReturnEffect
  <2>2. runtime_seconds' \in Seconds
    BY Zenon, <1>3 DEF DataType
  <2> QED BY Zenon, <1>2, <2>1, <2>2, QuietKeeps DEF Running
<1>5. CASE ~kio_running /\ Goto(p, "vlookup")
  <2>1. w'[p].pc = "vlookup" /\ \A q \in Writers : q # p => w'[q] = w[q]
    BY Zenon, <1>1, <1>5, GotoEffect
  <2>2. ASSUME NEW q \in Writers PROVE RunnerInv(q)'
    <3>1. CASE q = p
      BY Zenon, <2>1, <3>1 DEF RunnerInv, CheckLabels, Checking
    <3>2. CASE q # p
      <4>1. w'[q] = w[q] /\ RunnerInv(q)
        BY Zenon, <2>1, <3>2 DEF RunInv
      <4>2. w[q].pc # "running"
        BY Zenon, <1>5, <4>1 DEF RunnerInv
      <4> QED BY Zenon, <1>2, <4>1, <4>2 DEF RunnerInv, Passed
    <3> QED BY Zenon, <3>1, <3>2
  <2> QED BY Zenon, <1>3, <2>2 DEF RunInv
<1> QED BY Zenon, <1>4, <1>5 DEF V_Check

\* A store lands.  In a run it is one of those that were past the test, of
\* which there is one less now.
LEMMA AssignRuns ==
  ASSUME ConfigInv, RunInv, NEW p \in Writers, V_Assign(p)
  PROVE  RunInv'
<1> DEFINE InRun == \E q \in Writers : w[q].pc = "running"
           OnTheWay == \E q \in Writers : w[q].pc \in Checked
           value == Truncate(w[p].var, w[p].arg)
<1>1. w \in [Writers -> Frame] /\ w[p] \in Frame /\ w[p].pc = "vassign"
  BY Zenon DEF V_Assign, ConfigInv, StructType
<1>2. w'[p].pc = "idle" /\ \A q \in Writers : q # p => w'[q] = w[q]
  BY Zenon, <1>1, ReturnEffect DEF V_Assign
<1>3. w[p].tid \in Tids /\ w[p].var \in ThreadVars /\ w[p].arg \in Int
  BY Zenon, <1>1 DEF Frame
<1>4. landed.running \in Nat /\ landed.checked \in BOOLEAN
  BY Zenon DEF RunInv, DataType, Landed
<1>5. landed' = [ checked |-> landed.checked \/ OnTheWay,
                  running |-> IF InRun THEN landed.running + 1 ELSE landed.running ]
  BY Zenon DEF V_Assign
<1>6. /\ landed'.checked = (landed.checked \/ OnTheWay)
      /\ InRun => landed'.running = landed.running + 1
      /\ ~InRun => landed'.running = landed.running
  BY Zenon, <1>5
<1>7. landed' \in Landed
  <2>1. (landed.checked \/ OnTheWay) \in BOOLEAN
    OBVIOUS
  <2>2. (IF InRun THEN landed.running + 1 ELSE landed.running) \in Nat
    BY <1>4
  <2> HIDE DEF InRun, OnTheWay
  <2> QED BY Zenon, <1>5, <2>1, <2>2 DEF Landed
<1>8. DataType'
  <2>1. /\ tconf' = [tconf EXCEPT ![w[p].tid][w[p].var] = value]
        /\ UNCHANGED runtime_seconds
    BY Zenon DEF V_Assign
  <2>2. seen' = seen \/ seen' = seen \cup {[c EXCEPT ![w[p].var] = value] : c \in seen}
    BY Zenon DEF V_Assign
  <2>3. tconf \in [Tids -> ThreadConfig] /\ seen \subseteq ThreadConfig
    BY Zenon DEF RunInv, DataType
  <2>4. \A c \in ThreadConfig : [c EXCEPT ![w[p].var] = value] \in ThreadConfig
    BY Zenon, <1>3, StoreType
  <2> HIDE DEF value
  <2>5. tconf' \in [Tids -> ThreadConfig]
    BY Zenon, <1>3, <2>1, <2>3, <2>4
  <2>6. seen' \subseteq ThreadConfig
    <3> SUFFICES ASSUME NEW d \in seen', d \notin seen PROVE d \in ThreadConfig
      BY Zenon, <2>3
    <3>1. PICK c \in seen : d = [c EXCEPT ![w[p].var] = value]
      BY Zenon, <2>2
    <3> QED BY Zenon, <2>3, <2>4, <3>1
  <2> QED BY Zenon, <1>7, <2>1, <2>5, <2>6 DEF RunInv, DataType
<1>9. Cardinality(Late') \in Nat /\ Cardinality(Late') = Cardinality(Late) - 1
  <2>1. Late' = Late \ {p} /\ p \in Late
    BY Zenon, <1>1, <1>2 DEF Late
  <2>2. IsFiniteSet(Late)
    BY Zenon, LateIsFinite
  <2> QED BY Zenon, <2>1, <2>2, FS_RemoveElement, FS_CardinalityType
<1>10. InRun => /\ landed'.running + Cardinality(Late') < Cardinality(Writers)
                /\ landed'.running < Cardinality(Writers)
  <2>1. InRun => landed.running + Cardinality(Late) < Cardinality(Writers)
    BY Zenon DEF RunInv, RunnerInv
  <2>2. Cardinality(Late) \in Nat /\ Cardinality(Writers) \in Nat
    BY Zenon, LateIsFinite
  <2> HIDE DEF InRun
  <2> QED BY <1>4, <1>6, <1>9, <2>1, <2>2
<1>11. FewStoresLand'
  BY Zenon, <1>6, <1>10 DEF RunInv, FewStoresLand
<1>12. ASSUME NEW q \in Writers PROVE RunnerInv(q)'
  <2>1. CASE q = p
    BY Zenon, <1>2, <2>1 DEF RunnerInv, CheckLabels, Checking
  <2>2. CASE q # p
    <3>1. w'[q] = w[q] /\ RunnerInv(q)
      BY Zenon, <1>2, <2>2 DEF RunInv
    <3>2. w[q].pc \in Checked => landed'.checked
      BY Zenon, <1>6
    <3>3. w[q].pc \in CheckLabels \cup {"rstart"} => ~InRun
      BY Zenon DEF ConfigInv, HandlerInv, Critical, Running, CheckLabels
    <3>4. w[q].pc \in CheckLabels \cup {"rstart"} => landed'.running = 0
      BY Zenon, <1>6, <3>1, <3>3 DEF RunnerInv
    <3>5. w[q].pc = "running" =>
            kio_running' /\ landed'.running + Cardinality(Late)' < Cardinality(Writers)
      <4>1. kio_running' = kio_running
        BY Zenon DEF V_Assign
      <4> QED BY Zenon, <1>10, <3>1, <4>1 DEF RunnerInv
    <3> QED BY Zenon, <3>1, <3>2, <3>4, <3>5 DEF RunnerInv, Checked, Checking
  <2> QED BY Zenon, <2>1, <2>2
<1> QED BY Zenon, <1>8, <1>11, <1>12 DEF RunInv

\* Every step keeps it.
LEMMA NextKeepsRunInv == ConfigInv /\ RunInv /\ [Next]_vars => RunInv'
<1> SUFFICES ASSUME ConfigInv, RunInv, [Next]_vars PROVE RunInv'
  OBVIOUS
<1>1. CASE UNCHANGED vars
  <2>1. UNCHANGED <<kio_running, runtime_seconds, num_threads, tconf, landed, seen, w>>
    BY Zenon, <1>1 DEF vars, dataVars
  <2>2. Late' = Late
    BY Zenon, <2>1 DEF Late
  <2> QED
    BY Zenon, <2>1, <2>2 DEF RunInv, DataType, FewStoresLand, RunnerInv, Passed
<1>2. CASE Next
  <2>1. PICK p \in Writers : Write(p) \/ Lock(p) \/ Handler(p)
    BY Zenon, <1>2 DEF Next
  <2>2. \/ Quiet(p) \/ NT_Alloc(p) \/ R_Check(p) \/ R_Thread(p) \/ R_Fit(p)
        \/ R_Cap(p) \/ R_Rest(p) \/ R_Size(p) \/ R_Start(p) \/ R_End(p)
        \/ R_SetupFails(p) \/ V_Check(p) \/ V_Assign(p)
    BY Zenon, <2>1 DEF Handler, NumThreadsStore, RunWorkloadStore, VarStore, Quiet
  <2> QED
    BY Zenon, <2>2, QuietRuns, AllocRuns, CheckRuns, ThreadRuns, FitRuns, CapRuns,
       RestRuns, SizeRuns, StartRuns, EndRuns, VarCheckRuns, AssignRuns
<1> QED BY Zenon, <1>1, <1>2

\* What is checked is what is run, up to the stores that were under way: the
\* inductive invariant of a run.
THEOREM RunInvariant == Spec => []RunInv
BY InitRunInv, NextKeepsRunInv, ConfigInvariant, PTL DEF Spec

\* Every variable of the configuration keeps its type, whatever is written by
\* however many processes.
THEOREM ConfigTypes == Spec => []TypeOK
<1>1. ConfigInv /\ RunInv => TypeOK
  <2> SUFFICES ASSUME ConfigInv, RunInv PROVE TypeOK
    OBVIOUS
  <2>1. runtime_seconds \in 0 .. KIO_MAX_RUNTIME_SECONDS
    BY Zenon DEF RunInv, DataType, Seconds
  <2>2. /\ tconf \in [Tids -> ThreadConfig] /\ landed \in Landed
        /\ seen \subseteq ThreadConfig
    BY Zenon DEF RunInv, DataType
  <2>3. StructType
    BY Zenon DEF ConfigInv
  <2> QED BY Zenon, <2>1, <2>2, <2>3 DEF StructType, TypeOK
<1> QED BY <1>1, ConfigInvariant, RunInvariant, PTL

\* The flag that kio_run() sets keeps all stores out of the running
\* configuration but those that were under way: one per other process.
THEOREM FewStoresLandInARun == Spec => []FewStoresLand
<1>1. RunInv => FewStoresLand
  BY Zenon DEF RunInv
<1> QED BY <1>1, RunInvariant, PTL

\* Unless a store landed since the check began, the threads run with what
\* kio_config_is_valid() accepted and corrected: a window that fits the
\* device, and the block size that is implemented.
THEOREM RunsAreChecked == Spec => []RunsCheckedConfig
<1>1. ConfigInv /\ RunInv => RunsCheckedConfig
  <2> SUFFICES ASSUME ConfigInv, RunInv, NEW p \in Writers, w[p].pc = "running",
                      ~landed.checked, NEW t \in 0 .. num_threads - 1
               PROVE  /\ kio_config_is_valid(tconf[t], DevSize)
                      /\ tconf[t].offset_high + tconf[t].block_size <= DevSize
                      /\ tconf[t].block_size = PAGE_SIZE
    BY Zenon DEF RunsCheckedConfig
  <2>1. num_threads \in 0 .. Cpus
    BY Zenon DEF ConfigInv, StructType
  <2>2. t \in Tids /\ t < num_threads
    BY <2>1, CpusPositive DEF Tids
  <2>3. Passed(tconf[t]) /\ tconf[t].block_size = PAGE_SIZE
    BY Zenon, <2>2 DEF RunInv, RunnerInv
  <2>4. tconf[t] \in ThreadConfig
    BY Zenon, <2>2 DEF RunInv, DataType
  <2> QED BY Zenon, <2>3, <2>4, PassedIsValid
<1> QED BY <1>1, ConfigInvariant, RunInvariant, PTL

-----------------------------------------------------------------------------
(***************************************************************************)
(* KioConfig implements KioSettings.                                       *)
(***************************************************************************)

\* The number of threads is set, and the threads are taken down again, while
\* the flag is clear; and the check looks at threads that are there.
SettingInv(q) ==
  /\ w[q].pc \in {"ntalloc"} \cup Building => ~kio_running
  /\ w[q].pc \in CheckLabels => w[q].i < num_threads

SettingsInv == \A q \in Writers : SettingInv(q)

\* A step changes the frame of one process, and only the holder of the mutex
\* changes the flag, the number of threads or the array.
LEMMA StepFrame ==
  ASSUME ConfigInv, NEW p \in Writers, Write(p) \/ Lock(p) \/ Handler(p)
  PROVE  /\ \A q \in Writers : q # p => w'[q] = w[q]
         /\ mutex = p \/ UNCHANGED <<kio_running, num_threads, threads>>
<1>1. w \in [Writers -> Frame] /\ HandlerInv(p) /\ num_threads \in 0 .. Cpus
  BY Zenon DEF ConfigInv, StructType
<1>2. CASE Quiet(p)
  <2>1. UNCHANGED threads \/ NT_Free(p)
    BY Zenon, <1>2 DEF Quiet, Write, Call, CallVar, Lock, Unlock, RT_Body,
       V_Lookup, NT_Check, NT_AllocFails, NT_Kobj, NT_KobjFails, NT_Files,
       NT_FilesFail, NT_FilesPut, NT_DestroyPut, NT_DestroyNext, dataVars
  <2>2. NT_Free(p) => mutex = p
    BY Zenon, <1>1 DEF NT_Free, HandlerInv, Critical, Building
  <2> QED BY Zenon, <1>2, <2>1, <2>2, QuietFrame
<1>3. CASE V_Check(p) \/ V_Assign(p)
  <2>1. UNCHANGED <<kio_running, num_threads, threads>>
    BY Zenon, <1>3 DEF V_Check, V_Assign, dataVars
  <2>2. Return(p) \/ Goto(p, "vlookup") BY Zenon, <1>3 DEF V_Check, V_Assign
  <2>3. "vlookup" \in PC BY Zenon DEF PC
  <2> QED BY Zenon, <1>1, <2>1, <2>2, <2>3, ReturnEffect, GotoEffect
<1>4. CASE NT_Alloc(p) \/ R_Check(p) \/ R_Start(p) \/ R_End(p) \/ R_SetupFails(p)
  <2>1. mutex = p
    BY Zenon, <1>1, <1>4 DEF NT_Alloc, R_Check, R_Start, R_End, R_SetupFails,
       HandlerInv, Critical, Running
  <2>2. \E l \in {"ntkobj", "unlock", "rvalid", "running"} : Goto(p, l)
    BY Zenon, <1>4 DEF NT_Alloc, R_Check, R_Start, R_End, R_SetupFails
  <2>3. {"ntkobj", "unlock", "rvalid", "running"} \subseteq PC
    BY Zenon DEF PC
  <2>4. ASSUME NEW l \in PC, Goto(p, l)
        PROVE  \A q \in Writers : q # p => w'[q] = w[q]
    BY Zenon, <1>1, <2>4, GotoEffect
  <2> QED BY Zenon, <2>1, <2>2, <2>3, <2>4
<1>5. CASE CheckPass(p)
  BY Zenon, <1>1, <1>5, CheckPassMoves, CheckPassLeads
<1> QED
  BY Zenon, <1>2, <1>3, <1>4, <1>5
     DEF Handler, NumThreadsStore, RunWorkloadStore, VarStore, Quiet, CheckPass

\* Where the steps lead that neither build threads nor run them.
LEMMA PlainSteps ==
  ASSUME ConfigInv, NEW p \in Writers,
         Write(p) \/ Lock(p) \/ Unlock(p) \/ RT_Body(p) \/ V_Lookup(p)
  PROVE  w'[p].pc \in {"idle", "lock", "body", "unlock", "vcheck", "vassign"}
<1>1. w \in [Writers -> Frame] /\ w[p] \in Frame
  BY Zenon DEF ConfigInv, StructType
<1>2. {"body", "unlock", "vassign"} \subseteq PC BY Zenon DEF PC
<1>3. CASE Write(p)
  <2>1. CASE \E op, arg : Call(p, op, arg)
    <3>1. PICK op, arg : w' = [w EXCEPT ![p].pc = "lock", ![p].op = op, ![p].arg = arg]
      BY Zenon, <2>1 DEF Call
    <3>2. w'[p] = [w[p] EXCEPT !.pc = "lock", !.op = op, !.arg = arg]
      BY Zenon, <1>1, <3>1
    <3> QED BY Zenon, <1>1, <3>2 DEF Frame
  <2>2. CASE \E t \in Tids, s \in Stores : CallVar(p, t, s)
    <3>1. PICK t \in Tids, s \in Stores :
            w'[p] = [pc |-> "vcheck", op |-> "var", arg |-> s.value,
                     tid |-> t, var |-> s.var, i |-> 0]
      BY Zenon, <1>1, <2>2 DEF CallVar
    <3> QED BY <3>1
  <2> QED BY Zenon, <1>3, <2>1, <2>2 DEF Write
<1>4. CASE Lock(p) \/ Unlock(p) \/ RT_Body(p) \/ V_Lookup(p)
  <2>1. Return(p) \/ \E l \in {"body", "unlock", "vassign"} : Goto(p, l)
    BY Zenon, <1>4 DEF Lock, Unlock, RT_Body, V_Lookup
  <2> QED BY Zenon, <1>1, <1>2, <2>1, ReturnEffect, GotoEffect
<1> QED BY Zenon, <1>3, <1>4

\* The process that takes the step keeps its part of the invariant.
LEMMA OwnSetting ==
  ASSUME ConfigInv, NEW p \in Writers, SettingInv(p),
         Write(p) \/ Lock(p) \/ Handler(p)
  PROVE  SettingInv(p)'
<1>1. /\ w \in [Writers -> Frame] /\ HandlerInv(p) /\ num_threads \in 0 .. Cpus
      /\ w[p] \in Frame
  BY Zenon DEF ConfigInv, StructType
<1>2. {"ntkobj", "unlock", "rvalid", "rstart", "running", "rsize", "vlookup",
       "ntalloc"} \subseteq PC
  BY Zenon DEF PC
<1>3. CASE w'[p].pc \notin {"ntalloc"} \cup Building \cup CheckLabels
  BY Zenon, <1>3 DEF SettingInv
<1>4. CASE Quiet(p)
  <2>1. /\ UNCHANGED <<kio_running, num_threads>> /\ w'[p].pc \notin Running
    BY Zenon, <1>4, QuietFrame
  <2>2. CASE NT_Check(p)
    <3>1. \/ Goto(p, "unlock")
          \/ Goto(p, "ntalloc") /\ ~kio_running
      BY Zenon, <2>2 DEF NT_Check
    <3>2. w'[p].pc = "unlock" \/ ~kio_running
      BY Zenon, <1>1, <1>2, <3>1, GotoEffect
    <3> QED BY Zenon, <2>1, <3>2 DEF SettingInv, Building, Running, CheckLabels
  <2>3. CASE w[p].pc \in {"ntalloc"} \cup Building
    BY Zenon, <2>1, <2>3 DEF SettingInv, Running, CheckLabels
  <2>4. CASE ~NT_Check(p) /\ w[p].pc \notin {"ntalloc"} \cup Building
    <3>1. Write(p) \/ Lock(p) \/ Unlock(p) \/ RT_Body(p) \/ V_Lookup(p)
      BY Zenon, <1>4, <2>4 DEF Quiet, NT_AllocFails, NT_Kobj, NT_KobjFails,
         NT_Files, NT_FilesFail, NT_FilesPut, NT_DestroyPut, NT_DestroyNext,
         NT_Free, Building
    <3>2. w'[p].pc \in {"idle", "lock", "body", "unlock", "vcheck", "vassign"}
      BY Zenon, <3>1, PlainSteps
    <3> QED BY Zenon, <1>3, <3>2 DEF Building, CheckLabels
  <2> QED BY Zenon, <2>2, <2>3, <2>4
<1>5. CASE V_Check(p) \/ V_Assign(p)
  <2>1. Return(p) \/ Goto(p, "vlookup") BY Zenon, <1>5 DEF V_Check, V_Assign
  <2>2. w'[p].pc \in {"idle", "vlookup"}
    BY Zenon, <1>1, <1>2, <2>1, ReturnEffect, GotoEffect
  <2> QED BY Zenon, <1>3, <2>2 DEF Building, CheckLabels
<1>6. CASE NT_Alloc(p)
  <2>1. w'[p].pc = "ntkobj" /\ kio_running' = kio_running /\ w[p].pc = "ntalloc"
    BY Zenon, <1>1, <1>2, <1>6, GotoEffect DEF NT_Alloc
  <2> QED BY Zenon, <2>1 DEF SettingInv, CheckLabels
<1>7. CASE R_Check(p)
  <2>1. /\ num_threads' = num_threads /\ w[p].pc = "body"
        /\ \/ Goto(p, "unlock")
           \/ Goto(p, "rvalid") /\ InRange(num_threads, 1, Cpus)
    BY Zenon, <1>7 DEF R_Check, dataVars
  <2>2. /\ w[p].i = 0 /\ w'[p].i = w[p].i
        /\ \/ w'[p].pc = "unlock"
           \/ w'[p].pc = "rvalid" /\ InRange(num_threads, 1, Cpus)
    BY Zenon, <1>1, <1>2, <2>1, GotoEffect DEF HandlerInv
  <2>3. InRange(num_threads, 1, Cpus) => 0 < num_threads
    BY <1>1, CpusPositive DEF InRange
  <2> QED BY Zenon, <2>1, <2>2, <2>3 DEF SettingInv, Building, CheckLabels
<1>8. CASE CheckPass(p)
  <2>1. num_threads' = num_threads /\ w[p].i < num_threads
    BY Zenon, <1>8, CheckPassMoves DEF SettingInv
  <2>2. /\ w'[p].pc \in CheckLabels \cup {"rstart", "unlock"}
        /\ w'[p].i < num_threads
    BY Zenon, <1>1, <1>8, <2>1, CheckPassLeads
  <2> QED BY Zenon, <2>1, <2>2 DEF SettingInv, Building, CheckLabels
<1>9. CASE R_Start(p) \/ R_End(p) \/ R_SetupFails(p)
  <2>1. Goto(p, "running") \/ Goto(p, "unlock")
    BY Zenon, <1>9 DEF R_Start, R_End, R_SetupFails
  <2>2. w'[p].pc \in {"unlock", "running"}
    BY Zenon, <1>1, <1>2, <2>1, GotoEffect
  <2> QED BY Zenon, <1>3, <2>2 DEF Building, CheckLabels
<1> QED
  BY Zenon, <1>4, <1>5, <1>6, <1>7, <1>8, <1>9
     DEF Handler, NumThreadsStore, RunWorkloadStore, VarStore, Quiet, CheckPass

\* The invariant that the refinement needs on top of the two above.
THEOREM SettingsInvariant == Spec => []SettingsInv
<1>1. Init => SettingsInv
  <2> SUFFICES ASSUME Init, NEW q \in Writers PROVE SettingInv(q)
    BY Zenon DEF SettingsInv
  <2>1. w[q].pc = "idle" BY Zenon DEF Init, IdleFrame
  <2> QED BY Zenon, <2>1 DEF SettingInv, Building, CheckLabels
<1>2. ConfigInv /\ SettingsInv /\ [Next]_vars => SettingsInv'
  <2> SUFFICES ASSUME ConfigInv, SettingsInv, [Next]_vars, NEW q \in Writers
               PROVE  SettingInv(q)'
    BY Zenon DEF SettingsInv
  <2>1. SettingInv(q) BY Zenon DEF SettingsInv
  <2>2. CASE UNCHANGED vars
    BY Zenon, <2>1, <2>2 DEF vars, dataVars, SettingInv
  <2>3. ASSUME NEW p \in Writers, Write(p) \/ Lock(p) \/ Handler(p)
        PROVE  SettingInv(q)'
    <3>1. CASE q = p BY Zenon, <2>1, <2>3, <3>1, OwnSetting
    <3>2. CASE q # p
      <4>1. /\ w'[q] = w[q]
            /\ mutex = p \/ UNCHANGED <<kio_running, num_threads>>
        BY Zenon, <2>3, <3>2, StepFrame
      <4>2. CASE mutex = p
        <5>1. w[q].pc \notin Critical BY Zenon, <3>2, <4>2, OthersOutside
        <5> QED
          BY Zenon, <4>1, <5>1 DEF SettingInv, Critical, Building, Running, CheckLabels
      <4>3. CASE mutex # p
        <5>1. kio_running' = kio_running /\ num_threads' = num_threads
          BY Zenon, <4>1, <4>3
        <5> QED BY <2>1, <4>1, <5>1 DEF SettingInv
      <4> QED BY Zenon, <4>2, <4>3
    <3> QED BY Zenon, <3>1, <3>2
  <2> QED BY Zenon, <2>2, <2>3 DEF Next
<1> QED BY <1>1, <1>2, ConfigInvariant, PTL DEF Spec

\* How far the handler at a label is with a run.
PhaseAt(label) ==
  IF label = "running" THEN "running"
  ELSE IF label \in Running THEN "checking" ELSE "ready"

\* The labels of the specification are those of the invariant.
LEMMA RunningIsChecked == Checked = Running
BY Zenon DEF Checked, Checking, Running

\* The holder of the mutex tells the phase, before its step and after it.
LEMMA HolderPhase ==
  ASSUME ConfigInv, NEW p \in Writers, mutex = p,
         \A q \in Writers : q # p => w'[q] = w[q]
  PROVE  /\ SettingsPhase = PhaseAt(w[p].pc)
         /\ SettingsPhase' = PhaseAt(w'[p].pc)
<1>1. \A q \in Writers : q # p => /\ w[q].pc \notin Running
                                  /\ w'[q].pc \notin Running
  <2> SUFFICES ASSUME NEW q \in Writers, q # p
               PROVE  w[q].pc \notin Running /\ w'[q] = w[q]
    BY Zenon
  <2>1. w[q].pc \notin Critical BY Zenon, OthersOutside
  <2> QED BY Zenon, <2>1 DEF Critical
<1>2. /\ (\E q \in Writers : w[q].pc = "running") <=> w[p].pc = "running"
      /\ (\E q \in Writers : w'[q].pc = "running") <=> w'[p].pc = "running"
  BY Zenon, <1>1 DEF Running
<1>3. /\ (\E q \in Writers : w[q].pc \in Running) <=> w[p].pc \in Running
      /\ (\E q \in Writers : w'[q].pc \in Running) <=> w'[p].pc \in Running
  BY Zenon, <1>1
<1> QED BY Zenon, <1>2, <1>3, RunningIsChecked DEF SettingsPhase, PhaseAt

\* A process that is not on its way to a run leaves the phase as it is.
LEMMA OutsidePhase ==
  ASSUME NEW p \in Writers, \A q \in Writers : q # p => w'[q] = w[q],
         w[p].pc \notin Running, w'[p].pc \notin Running
  PROVE  SettingsPhase' = SettingsPhase
<1>1. (\E q \in Writers : w'[q].pc = "running")
        <=> (\E q \in Writers : w[q].pc = "running")
  BY Zenon DEF Running
<1>2. (\E q \in Writers : w'[q].pc \in Running)
        <=> (\E q \in Writers : w[q].pc \in Running)
  BY Zenon
<1> QED BY Zenon, <1>1, <1>2, RunningIsChecked DEF SettingsPhase

\* The admitted stores change only with a process that becomes one, or lands.
LEMMA LateChange ==
  ASSUME NEW p \in Writers, \A q \in Writers : q # p => w'[q] = w[q]
  PROVE  /\ (w'[p].pc \in {"vlookup", "vassign"} <=> w[p].pc \in {"vlookup", "vassign"})
              => Late' = Late
         /\ w'[p].pc \in {"vlookup", "vassign"} => Late' = Late \cup {p}
         /\ w'[p].pc \notin {"vlookup", "vassign"} => Late' = Late \ {p}
<1>1. \A q : q \in Late <=> q \in Writers /\ w[q].pc \in {"vlookup", "vassign"}
  BY Zenon DEF Late
<1>2. \A q : q \in Late' <=> q \in Writers /\ w'[q].pc \in {"vlookup", "vassign"}
  BY Zenon DEF Late
<1>3. (w'[p].pc \in {"vlookup", "vassign"} <=> w[p].pc \in {"vlookup", "vassign"})
        => \A q : q \in Late' <=> q \in Late
  BY Zenon, <1>1, <1>2
<1>4. w'[p].pc \in {"vlookup", "vassign"} =>
        \A q : q \in Late' <=> q \in Late \cup {p}
  BY Zenon, <1>1, <1>2
<1>5. w'[p].pc \notin {"vlookup", "vassign"} =>
        \A q : q \in Late' <=> q \in Late \ {p}
  BY Zenon, <1>1, <1>2
<1> QED BY Zenon, <1>3, <1>4, <1>5

\* All the variables of KioSettings.
SettingsState ==
  <<runtime_seconds, num_threads, threads, tconf, kio_running, SettingsPhase,
    Late, Undisturbed>>

\* The steps that KioSettings does not see.
LEMMA QuietUnseen ==
  ASSUME ConfigInv, NEW p \in Writers, Quiet(p), ~RT_Body(p), ~NT_Free(p),
         ~V_Lookup(p)
  PROVE  UNCHANGED SettingsState
<1>1. /\ UNCHANGED <<kio_running, num_threads, tconf, landed, runtime_seconds>>
      /\ \A q \in Writers : q # p => w'[q] = w[q]
      /\ w'[p].pc \notin Running
      /\ w'[p].pc \in {"vlookup", "vassign"} => w[p].pc \in {"vlookup", "vassign"}
  BY Zenon, QuietFrame
<1>2. UNCHANGED threads
  BY Zenon DEF Quiet, Write, Call, CallVar, Lock, Unlock, NT_Check,
     NT_AllocFails, NT_Kobj, NT_KobjFails, NT_Files, NT_FilesFail, NT_FilesPut,
     NT_DestroyPut, NT_DestroyNext, dataVars
<1>3. w[p].pc \notin Running /\ w[p].pc \notin {"vlookup", "vassign"}
  BY Zenon DEF Quiet, Write, Call, CallVar, Lock, Unlock, NT_Check,
     NT_AllocFails, NT_Kobj, NT_KobjFails, NT_Files, NT_FilesFail, NT_FilesPut,
     NT_DestroyPut, NT_DestroyNext, Running
<1>4. Late' = Late BY Zenon, <1>1, <1>3, LateChange
<1>5. SettingsPhase' = SettingsPhase BY Zenon, <1>1, <1>3, OutsidePhase
<1>6. Undisturbed' = Undisturbed BY Zenon, <1>1, <1>5 DEF Undisturbed
<1> QED BY Zenon, <1>1, <1>2, <1>4, <1>5, <1>6 DEF SettingsState

\* An admitted store finds its thread, or returns without having landed.
LEMMA LookupStep ==
  ASSUME ConfigInv, NEW p \in Writers, V_Lookup(p)
  PROVE  Settings!Next \/ UNCHANGED SettingsState
<1>1. w[p].pc = "vlookup" /\ w \in [Writers -> Frame] /\ "vassign" \in PC
  BY Zenon DEF V_Lookup, ConfigInv, StructType, PC
<1>2. UNCHANGED <<kio_running, num_threads, threads, tconf, landed, runtime_seconds>>
  BY Zenon DEF V_Lookup, dataVars
<1>3. /\ \A q \in Writers : q # p => w'[q] = w[q]
      /\ w'[p].pc = "vassign" \/ w'[p].pc = "idle"
  <2>1. Return(p) \/ Goto(p, "vassign") BY Zenon DEF V_Lookup
  <2> QED BY Zenon, <1>1, <2>1, ReturnEffect, GotoEffect
<1>4. SettingsPhase' = SettingsPhase
  BY Zenon, <1>1, <1>3, OutsidePhase DEF Running
<1>5. Undisturbed' = Undisturbed BY Zenon, <1>2, <1>4 DEF Undisturbed
<1>6. CASE w'[p].pc = "vassign"
  <2>1. Late' = Late BY Zenon, <1>1, <1>3, <1>6, LateChange
  <2> QED BY Zenon, <1>2, <1>4, <1>5, <2>1 DEF SettingsState
<1>7. CASE w'[p].pc = "idle"
  <2>1. p \in Late /\ Late' = Late \ {p}
    BY Zenon, <1>1, <1>3, <1>7, LateChange DEF Late
  <2>2. Settings!Drop(p)
    BY Zenon, <1>2, <1>4, <1>5, <2>1 DEF Settings!Drop
  <2> QED BY Zenon, <2>2 DEF Settings!Next
<1> QED BY Zenon, <1>3, <1>6, <1>7

\* A step of the holder of the mutex that lets no store in or out.
LEMMA HolderStep ==
  ASSUME ConfigInv, NEW p \in Writers, w[p].pc \in Critical,
         \A q \in Writers : q # p => w'[q] = w[q],
         w'[p].pc \in Critical
  PROVE  /\ Late' = Late
         /\ SettingsPhase = PhaseAt(w[p].pc)
         /\ SettingsPhase' = PhaseAt(w'[p].pc)
         /\ PhaseAt(w[p].pc) = "ready" => Undisturbed = TRUE
         /\ PhaseAt(w'[p].pc) = "ready" => Undisturbed' = TRUE
         /\ PhaseAt(w[p].pc) # "ready" => Undisturbed = ~landed.checked
         /\ PhaseAt(w'[p].pc) # "ready" => Undisturbed' = ~landed'.checked
<1>1. mutex = p BY Zenon DEF ConfigInv, HandlerInv
<1>2. /\ SettingsPhase = PhaseAt(w[p].pc)
      /\ SettingsPhase' = PhaseAt(w'[p].pc)
  BY Zenon, <1>1, HolderPhase
<1>3. Late' = Late
  BY Zenon, LateChange DEF Critical, Building, Running
<1> QED BY Zenon, <1>2, <1>3 DEF Undisturbed

\* kio_num_threads_store() sets the threads up, and may lose them again.
LEMMA ThreadsStep ==
  ASSUME ConfigInv, SettingsInv, NEW p \in Writers, NT_Alloc(p) \/ NT_Free(p)
  PROVE  Settings!Next
<1>1. /\ w \in [Writers -> Frame] /\ HandlerInv(p) /\ SettingInv(p)
      /\ {"ntkobj", "unlock"} \subseteq PC
  BY Zenon DEF ConfigInv, StructType, SettingsInv, PC
<1>2. CASE NT_Alloc(p)
  <2>1. /\ w[p].pc = "ntalloc" /\ num_threads = 0 /\ threads = "null"
        /\ w[p].arg \in 1 .. Cpus /\ ~kio_running
    BY Zenon, <1>1, <1>2 DEF NT_Alloc, HandlerInv, SettingInv
  <2>2. w'[p].pc = "ntkobj" /\ \A q \in Writers : q # p => w'[q] = w[q]
    BY Zenon, <1>1, <1>2, GotoEffect DEF NT_Alloc
  <2>3. w[p].pc \in Critical /\ w'[p].pc \in Critical
    BY Zenon, <2>1, <2>2 DEF Critical, Building
  <2>4. /\ Late' = Late /\ SettingsPhase = "ready" /\ SettingsPhase' = "ready"
        /\ Undisturbed' = Undisturbed
    BY Zenon, <2>1, <2>2, <2>3, HolderStep DEF PhaseAt, Running
  <2>5. Late = {}
    <3>1. ASSUME NEW q \in Writers, w[q].pc \in {"vlookup", "vassign"} PROVE FALSE
      <4>1. kobj[w[q].tid] \in {"live", "removing"} /\ w[q] \in Frame
        BY Zenon, <3>1 DEF ConfigInv, StructType, HandlerInv, Storing
      <4>2. w[q].tid \in Tids BY Zenon, <4>1 DEF Frame
      <4> QED BY Zenon, <2>1, <4>1, <4>2 DEF ConfigInv, SharedInv
    <3> QED BY Zenon, <3>1 DEF Late
  <2>6. /\ threads' = "live" /\ num_threads' = w[p].arg
        /\ tconf' = [t \in 0 .. Cpus - 1 |-> ZeroConfig]
        /\ UNCHANGED <<runtime_seconds, kio_running>>
    BY Zenon, <1>2 DEF NT_Alloc, Tids
  <2>7. Settings!SetThreads(w[p].arg)
    BY Zenon, <2>1, <2>4, <2>5, <2>6 DEF Settings!SetThreads
  <2> QED BY Zenon, <2>1, <2>7 DEF Settings!Next
<1>3. CASE NT_Free(p)
  <2>1. /\ w[p].pc = "ntfree" /\ threads = "live" /\ ~kio_running
        /\ \A t \in Tids : kobj[t] = "null"
    BY Zenon, <1>1, <1>3 DEF NT_Free, HandlerInv, SettingInv, Building
  <2>2. w'[p].pc = "unlock" /\ \A q \in Writers : q # p => w'[q] = w[q]
    BY Zenon, <1>1, <1>3, GotoEffect DEF NT_Free
  <2>3. w[p].pc \in Critical /\ w'[p].pc \in Critical
    BY Zenon, <2>1, <2>2 DEF Critical, Building
  <2>4. /\ Late' = Late /\ SettingsPhase = "ready" /\ SettingsPhase' = "ready"
        /\ Undisturbed' = Undisturbed
    BY Zenon, <2>1, <2>2, <2>3, HolderStep DEF PhaseAt, Running
  <2>5. Late = {}
    <3>1. ASSUME NEW q \in Writers, w[q].pc \in {"vlookup", "vassign"} PROVE FALSE
      <4>1. kobj[w[q].tid] \in {"live", "removing"} /\ w[q] \in Frame
        BY Zenon, <3>1 DEF ConfigInv, StructType, HandlerInv, Storing
      <4>2. w[q].tid \in Tids BY Zenon, <4>1 DEF Frame
      <4> QED BY Zenon, <2>1, <4>1, <4>2
    <3> QED BY Zenon, <3>1 DEF Late
  <2>6. /\ threads' = "null"
        /\ UNCHANGED <<runtime_seconds, num_threads, tconf, kio_running>>
    BY Zenon, <1>3 DEF NT_Free
  <2>7. Settings!LoseThreads
    BY Zenon, <2>1, <2>4, <2>5, <2>6 DEF Settings!LoseThreads
  <2> QED BY Zenon, <2>7 DEF Settings!Next
<1> QED BY Zenon, <1>2, <1>3

\* kio_runtime_seconds_store() sets the runtime, or leaves all as it is.
LEMMA RuntimeStep ==
  ASSUME ConfigInv, NEW p \in Writers, RT_Body(p)
  PROVE  Settings!Next \/ UNCHANGED SettingsState
<1>1. /\ w \in [Writers -> Frame] /\ w[p] \in Frame /\ "unlock" \in PC
      /\ w[p].pc = "body"
  BY Zenon DEF RT_Body, ConfigInv, StructType, PC
<1>2. w'[p].pc = "unlock" /\ \A q \in Writers : q # p => w'[q] = w[q]
  BY Zenon, <1>1, GotoEffect DEF RT_Body
<1>3. w[p].pc \in Critical /\ w'[p].pc \in Critical
  BY Zenon, <1>1, <1>2 DEF Critical
<1>4. /\ Late' = Late /\ SettingsPhase = "ready" /\ SettingsPhase' = "ready"
      /\ Undisturbed' = Undisturbed
  BY Zenon, <1>1, <1>2, <1>3, HolderStep DEF PhaseAt, Running
<1>5. UNCHANGED <<num_threads, threads, tconf, kio_running>>
  BY Zenon DEF RT_Body
<1>6. CASE runtime_seconds' = runtime_seconds
  BY Zenon, <1>4, <1>5, <1>6 DEF SettingsState
<1>7. CASE runtime_seconds' # runtime_seconds
  <2>1. /\ ~kio_running /\ runtime_seconds' = w[p].arg
        /\ InRange(w[p].arg, 1, KIO_MAX_RUNTIME_SECONDS)
    BY Zenon, <1>7 DEF RT_Body
  <2>2. w[p].arg \in Int BY Zenon, <1>1 DEF Frame
  <2>3. w[p].arg \in 1 .. KIO_MAX_RUNTIME_SECONDS
    BY Zenon, <2>1, <2>2, SecondsRange
  <2>4. Settings!SetRuntime
    BY Zenon, <1>4, <1>5, <2>1, <2>3 DEF Settings!SetRuntime
  <2> QED BY Zenon, <2>4 DEF Settings!Next
<1> QED BY Zenon, <1>6, <1>7

\* kio_run_workload_store() refuses, or begins to check.
LEMMA BeginStep ==
  ASSUME ConfigInv, RunInv, NEW p \in Writers, R_Check(p)
  PROVE  Settings!Next \/ UNCHANGED SettingsState
<1>1. /\ w \in [Writers -> Frame] /\ {"unlock", "rvalid"} \subseteq PC
      /\ w[p].pc = "body" /\ num_threads \in 0 .. Cpus
      /\ threads \in {"null", "live"}
  BY Zenon DEF R_Check, ConfigInv, StructType, PC
<1>2. \/ Goto(p, "unlock")
      \/ /\ Goto(p, "rvalid")
         /\ ~kio_running /\ threads # "null"
         /\ InRange(num_threads, 1, Cpus)
         /\ InRange(runtime_seconds, 1, KIO_MAX_RUNTIME_SECONDS)
  BY Zenon DEF R_Check
<1>3. /\ landed' = NoStores
      /\ UNCHANGED <<runtime_seconds, num_threads, threads, tconf, kio_running>>
  BY Zenon DEF R_Check, dataVars
<1>4. CASE Goto(p, "unlock")
  <2>1. w'[p].pc = "unlock" /\ \A q \in Writers : q # p => w'[q] = w[q]
    BY Zenon, <1>1, <1>4, GotoEffect
  <2>2. w[p].pc \in Critical /\ w'[p].pc \in Critical
    BY Zenon, <1>1, <2>1 DEF Critical
  <2>3. /\ Late' = Late /\ SettingsPhase' = SettingsPhase
        /\ Undisturbed' = Undisturbed
    BY Zenon, <1>1, <2>1, <2>2, HolderStep DEF PhaseAt, Running
  <2> QED BY Zenon, <1>3, <2>3 DEF SettingsState
<1>5. CASE /\ Goto(p, "rvalid")
           /\ ~kio_running /\ threads # "null"
           /\ InRange(num_threads, 1, Cpus)
           /\ InRange(runtime_seconds, 1, KIO_MAX_RUNTIME_SECONDS)
  <2>1. w'[p].pc = "rvalid" /\ \A q \in Writers : q # p => w'[q] = w[q]
    BY Zenon, <1>1, <1>5, GotoEffect
  <2>2. w[p].pc \in Critical /\ w'[p].pc \in Critical
    BY Zenon, <1>1, <2>1 DEF Critical, Running
  <2>3. landed'.checked = FALSE BY <1>3 DEF NoStores
  <2>4. /\ Late' = Late /\ SettingsPhase = "ready" /\ SettingsPhase' = "checking"
        /\ Undisturbed' = ~landed'.checked
    BY Zenon, <1>1, <2>1, <2>2, HolderStep DEF PhaseAt, Running
  <2>5. Undisturbed' = TRUE BY Zenon, <2>3, <2>4
  <2>6. num_threads > 0 /\ runtime_seconds > 0
    <3>1. /\ InRange(num_threads, 1, Cpus)
          /\ InRange(runtime_seconds, 1, KIO_MAX_RUNTIME_SECONDS)
      BY Zenon, <1>5
    <3>2. num_threads \in 0 .. Cpus /\ runtime_seconds \in Seconds
      BY Zenon DEF ConfigInv, StructType, RunInv, DataType
    <3>3. num_threads > 0 BY <3>1, <3>2, CpusPositive DEF InRange
    <3>4. 1 <= runtime_seconds BY Zenon, <3>1 DEF InRange
    <3>5. runtime_seconds > 0 BY <3>2, <3>4 DEF Seconds
    <3> QED BY <3>3, <3>5
  <2>7. Settings!BeginCheck
    BY Zenon, <1>1, <1>3, <1>5, <2>4, <2>5, <2>6 DEF Settings!BeginCheck
  <2> QED BY Zenon, <2>7 DEF Settings!Next
<1> QED BY Zenon, <1>2, <1>4, <1>5

\* Where a step of the check is seen: when it corrects, or gives up.
LEMMA CheckPassStep ==
  ASSUME ConfigInv, SettingsInv, RunInv, NEW p \in Writers, CheckPass(p)
  PROVE  /\ w[p].i \in 0 .. num_threads - 1
         /\ UNCHANGED <<runtime_seconds, num_threads, threads, kio_running>>
         /\ Late' = Late /\ SettingsPhase = "checking"
         /\ Undisturbed = ~landed.checked
         /\ w'[p].pc # "unlock" =>
              SettingsPhase' = SettingsPhase /\ Undisturbed' = Undisturbed
         /\ w'[p].pc = "unlock" => SettingsPhase' = "ready" /\ Undisturbed' = TRUE
<1>1. /\ w[p].pc \in CheckLabels
      /\ UNCHANGED <<runtime_seconds, num_threads, threads, kio_running, landed>>
  BY Zenon, CheckPassMoves
<1>2. /\ w \in [Writers -> Frame] /\ num_threads \in 0 .. Cpus /\ w[p].i \in Tids
  BY Zenon, CheckerKnows
<1>3. w[p].i < num_threads
  BY Zenon, <1>1 DEF SettingsInv, SettingInv
<1>4. w[p].i \in 0 .. num_threads - 1
  BY <1>2, <1>3, CpusPositive DEF Tids
<1>5. /\ w'[p].pc \in CheckLabels \cup {"rstart", "unlock"}
      /\ \A q \in Writers : q # p => w'[q] = w[q]
  BY Zenon, <1>2, CheckPassLeads
<1>6. w[p].pc \in Critical /\ w'[p].pc \in Critical
  BY Zenon, <1>1, <1>5 DEF Critical, Running, CheckLabels
<1>7. /\ Late' = Late
      /\ SettingsPhase = PhaseAt(w[p].pc) /\ SettingsPhase' = PhaseAt(w'[p].pc)
      /\ PhaseAt(w'[p].pc) = "ready" => Undisturbed' = TRUE
      /\ PhaseAt(w[p].pc) # "ready" => Undisturbed = ~landed.checked
      /\ PhaseAt(w'[p].pc) # "ready" => Undisturbed' = ~landed'.checked
  BY Zenon, <1>5, <1>6, HolderStep
<1>8. /\ PhaseAt(w[p].pc) = "checking"
      /\ w'[p].pc # "unlock" => PhaseAt(w'[p].pc) = "checking"
      /\ w'[p].pc = "unlock" => PhaseAt(w'[p].pc) = "ready"
  BY Zenon, <1>1, <1>5 DEF PhaseAt, Running, CheckLabels
<1> QED BY Zenon, <1>1, <1>4, <1>7, <1>8

\* The check goes on without a change, ...
LEMMA GoesOn ==
  ASSUME ConfigInv, SettingsInv, RunInv, NEW p \in Writers, CheckPass(p),
         tconf' = tconf, w'[p].pc # "unlock"
  PROVE  UNCHANGED SettingsState
BY Zenon, CheckPassStep DEF SettingsState

\* ... corrects a thread, ...
LEMMA CorrectStep ==
  ASSUME ConfigInv, SettingsInv, RunInv, NEW p \in Writers, R_Cap(p)
  PROVE  Settings!Next
<1>1. CheckPass(p) /\ Goto(p, "rrest") /\ "rrest" \in PC
  BY Zenon DEF CheckPass, R_Cap, PC
<1>2. w'[p].pc = "rrest"
  BY Zenon, <1>1, CheckerKnows, GotoEffect
<1>3. Settings!Correct(w[p].i)
  BY Zenon, <1>1, <1>2, CheckPassStep, CapEffect DEF Settings!Correct, CorrectedConfig
<1>4. w[p].i \in Settings!Active
  BY Zenon, <1>1, CheckPassStep DEF Settings!Active
<1> QED BY Zenon, <1>3, <1>4 DEF Settings!Next

\* ... or gives up, because of the thread it is at unless a store landed.
LEMMA GivesUpStep ==
  ASSUME ConfigInv, SettingsInv, RunInv, NEW p \in Writers, CheckPass(p),
         tconf' = tconf, w'[p].pc = "unlock",
         ~landed.checked => ~RunnableConfig(tconf[w[p].i])
  PROVE  Settings!Next
<1>1. Settings!Refuse
  BY Zenon, CheckPassStep DEF Settings!Refuse, Settings!Active
<1> QED BY Zenon, <1>1 DEF Settings!Next

\* The steps of the check, one by one.
LEMMA CheckStep ==
  ASSUME ConfigInv, SettingsInv, RunInv, NEW p \in Writers, CheckPass(p)
  PROVE  Settings!Next \/ UNCHANGED SettingsState
<1>1. /\ w \in [Writers -> Frame] /\ tconf[w[p].i] \in ThreadConfig
      /\ RunnerInv(p)
  BY Zenon, CheckerKnows
<1>2. CASE R_Cap(p)
  BY Zenon, <1>2, CorrectStep
<1>3. CASE R_Thread(p)
  <2>1. tconf' = tconf /\ Goto(p, "rfit") /\ "rfit" \in PC
    BY Zenon, <1>3 DEF R_Thread, dataVars, PC
  <2>2. w'[p].pc = "rfit"
    BY Zenon, <1>1, <2>1, GotoEffect
  <2> QED BY Zenon, <2>1, <2>2, GoesOn
<1>4. CASE R_Fit(p)
  <2>1. tconf' = tconf /\ w[p].pc = "rfit" /\ {"unlock", "rcap", "rrest"} \subseteq PC
    BY Zenon, <1>4 DEF R_Fit, dataVars, PC
  <2>2. CASE Goto(p, "unlock") /\ {c \in seen : ~FitsDevice(c, DevSize)} # {}
    <3>1. w'[p].pc = "unlock"
      BY Zenon, <1>1, <2>1, <2>2, GotoEffect
    <3>2. ~landed.checked => seen = {tconf[w[p].i]}
      BY Zenon, <1>1, <2>1 DEF RunnerInv, Checking
    <3>3. ~landed.checked => ~RunnableConfig(tconf[w[p].i])
      BY Zenon, <2>2, <3>2 DEF RunnableConfig, kio_config_is_valid
    <3> QED BY Zenon, <2>1, <3>1, <3>3, GivesUpStep
  <2>3. CASE Goto(p, "rcap") \/ Goto(p, "rrest")
    <3>1. w'[p].pc # "unlock"
      BY Zenon, <1>1, <2>1, <2>3, GotoEffect
    <3> QED BY Zenon, <2>1, <3>1, GoesOn
  <2> QED BY Zenon, <1>4, <2>2, <2>3 DEF R_Fit
<1>5. CASE R_Rest(p)
  <2>1. tconf' = tconf /\ w[p].pc = "rrest" /\ {"unlock", "rvalid", "rsize"} \subseteq PC
    BY Zenon, <1>5 DEF R_Rest, dataVars, PC
  <2>2. CASE Goto(p, "unlock") /\ {c \in seen : ~Consistent(c)} # {}
    <3>1. w'[p].pc = "unlock"
      BY Zenon, <1>1, <2>1, <2>2, GotoEffect
    <3>2. ~landed.checked => /\ seen = {tconf[w[p].i]}
                             /\ ~NeedsCap(tconf[w[p].i], DevSize)
      BY Zenon, <1>1, <2>1 DEF RunnerInv, Checking
    <3>3. ~landed.checked => ~Consistent(tconf[w[p].i])
      BY Zenon, <2>2, <3>2
    <3>4. ~landed.checked => ~RunnableConfig(tconf[w[p].i])
      BY Zenon, <1>1, <3>2, <3>3, PassedIsValid DEF RunnableConfig, Passed
    <3> QED BY Zenon, <2>1, <3>1, <3>4, GivesUpStep
  <2>3. CASE Loop(p, num_threads, "rvalid", "rsize")
    <3>1. w'[p].pc # "unlock"
      BY Zenon, <1>1, <2>1, <2>3, CheckerKnows, LoopEffect
    <3> QED BY Zenon, <2>1, <3>1, GoesOn
  <2> QED BY Zenon, <1>5, <2>2, <2>3 DEF R_Rest
<1>6. CASE R_Size(p)
  <2>1. tconf' = tconf /\ w[p].pc = "rsize" /\ {"unlock", "rstart", "rsize"} \subseteq PC
    BY Zenon, <1>6 DEF R_Size, dataVars, PC
  <2>2. CASE Goto(p, "unlock") /\ tconf[w[p].i].block_size # PAGE_SIZE
    <3>1. w'[p].pc = "unlock"
      BY Zenon, <1>1, <2>1, <2>2, GotoEffect
    <3>2. ~RunnableConfig(tconf[w[p].i])
      BY Zenon, <2>2 DEF RunnableConfig
    <3> QED BY Zenon, <2>1, <3>1, <3>2, GivesUpStep
  <2>3. CASE Loop(p, num_threads, "rsize", "rstart")
    <3>1. w'[p].pc # "unlock"
      BY Zenon, <1>1, <2>1, <2>3, CheckerKnows, LoopEffect
    <3> QED BY Zenon, <2>1, <3>1, GoesOn
  <2>4. \/ Goto(p, "unlock") /\ tconf[w[p].i].block_size # PAGE_SIZE
        \/ Loop(p, num_threads, "rsize", "rstart")
    <3> HIDE DEF PAGE_SIZE
    <3> QED BY Zenon, <1>6 DEF R_Size
  <2> QED BY Zenon, <2>2, <2>3, <2>4
<1> QED BY Zenon, <1>2, <1>3, <1>4, <1>5, <1>6 DEF CheckPass

\* A run begins, with the threads as they were checked unless a store has
\* landed since.
LEMMA StartStep ==
  ASSUME ConfigInv, RunInv, NEW p \in Writers, R_Start(p)
  PROVE  Settings!Next
<1>1. /\ w \in [Writers -> Frame] /\ "running" \in PC /\ w[p].pc = "rstart"
      /\ num_threads \in 0 .. Cpus
  BY Zenon DEF R_Start, ConfigInv, StructType, PC
<1>2. /\ kio_running' = TRUE
      /\ UNCHANGED <<runtime_seconds, num_threads, threads, tconf, landed>>
  BY Zenon DEF R_Start, dataVars
<1>3. w'[p].pc = "running" /\ \A q \in Writers : q # p => w'[q] = w[q]
  BY Zenon, <1>1, GotoEffect DEF R_Start
<1>4. w[p].pc \in Critical /\ w'[p].pc \in Critical
  BY Zenon, <1>1, <1>3 DEF Critical, Running
<1>5. /\ Late' = Late /\ SettingsPhase = "checking" /\ SettingsPhase' = "running"
      /\ Undisturbed = ~landed.checked /\ Undisturbed' = ~landed.checked
  BY Zenon, <1>1, <1>2, <1>3, <1>4, HolderStep DEF PhaseAt, Running
<1>6. ASSUME ~landed.checked, NEW t \in 0 .. num_threads - 1
      PROVE  RunnableConfig(tconf[t])
  <2>1. t \in Tids /\ t < num_threads BY <1>1, CpusPositive DEF Tids
  <2>2. Passed(tconf[t]) /\ tconf[t].block_size = PAGE_SIZE
    BY Zenon, <1>1, <1>6, <2>1 DEF RunInv, RunnerInv
  <2>3. tconf[t] \in ThreadConfig
    BY Zenon, <2>1 DEF RunInv, DataType
  <2> QED BY Zenon, <2>2, <2>3, PassedIsValid DEF RunnableConfig
<1>7. Settings!Start
  BY Zenon, <1>2, <1>5, <1>6 DEF Settings!Start, Settings!Active
<1> QED BY Zenon, <1>7 DEF Settings!Next

\* A run comes to its end, or could not be set up.
LEMMA EndStep ==
  ASSUME ConfigInv, NEW p \in Writers, R_End(p) \/ R_SetupFails(p)
  PROVE  Settings!Next
<1>1. /\ w \in [Writers -> Frame] /\ "unlock" \in PC /\ w[p].pc = "running"
  BY Zenon DEF R_End, R_SetupFails, ConfigInv, StructType, PC
<1>2. /\ kio_running' = FALSE \/ kio_running' = kio_running
      /\ UNCHANGED <<runtime_seconds, num_threads, threads, tconf>>
  BY Zenon DEF R_End, R_SetupFails, dataVars
<1>3. w'[p].pc = "unlock" /\ \A q \in Writers : q # p => w'[q] = w[q]
  BY Zenon, <1>1, GotoEffect DEF R_End, R_SetupFails
<1>4. w[p].pc \in Critical /\ w'[p].pc \in Critical
  BY Zenon, <1>1, <1>3 DEF Critical, Running
<1>5. /\ Late' = Late /\ SettingsPhase = "running" /\ SettingsPhase' = "ready"
      /\ Undisturbed' = TRUE
  BY Zenon, <1>1, <1>3, <1>4, HolderStep DEF PhaseAt, Running
<1>6. Settings!End
  BY Zenon, <1>2, <1>5 DEF Settings!End
<1> QED BY Zenon, <1>6 DEF Settings!Next

\* kio_thread_var_store() is turned away, or is past the test.
LEMMA AdmitStep ==
  ASSUME ConfigInv, NEW p \in Writers, V_Check(p)
  PROVE  Settings!Next \/ UNCHANGED SettingsState
<1>1. /\ w \in [Writers -> Frame] /\ w[p] \in Frame /\ "vlookup" \in PC
      /\ w[p].pc = "vcheck"
  BY Zenon DEF V_Check, ConfigInv, StructType, PC
<1>2. /\ UNCHANGED <<runtime_seconds, num_threads, threads, tconf, kio_running, landed>>
      /\ Return(p) \/ (~kio_running /\ Goto(p, "vlookup"))
  BY Zenon DEF V_Check, dataVars
<1>3. /\ \A q \in Writers : q # p => w'[q] = w[q]
      /\ \/ w'[p].pc = "idle"
         \/ w'[p].pc = "vlookup" /\ ~kio_running
  <2>1. CASE Return(p) BY Zenon, <1>1, <2>1, ReturnEffect
  <2>2. CASE ~kio_running /\ Goto(p, "vlookup") BY Zenon, <1>1, <2>2, GotoEffect
  <2> QED BY Zenon, <1>2, <2>1, <2>2
<1>4. w[p].pc \notin Running /\ w'[p].pc \notin Running
  BY Zenon, <1>1, <1>3 DEF Running
<1>5. SettingsPhase' = SettingsPhase BY Zenon, <1>3, <1>4, OutsidePhase
<1>6. Undisturbed' = Undisturbed BY Zenon, <1>2, <1>5 DEF Undisturbed
<1>7. CASE w'[p].pc = "idle"
  <2>1. Late' = Late BY Zenon, <1>1, <1>3, <1>7, LateChange
  <2> QED BY Zenon, <1>2, <1>5, <1>6, <2>1 DEF SettingsState
<1>8. CASE w'[p].pc = "vlookup" /\ ~kio_running
  <2>1. Late' = Late \cup {p} BY Zenon, <1>3, <1>8, LateChange
  <2>2. p \notin Late BY Zenon, <1>1 DEF Late
  <2>3. threads = "live"
    <3>1. kobj[w[p].tid] \in {"live", "removing"}
      BY Zenon, <1>1 DEF ConfigInv, HandlerInv, Storing
    <3>2. w[p].tid \in Tids BY Zenon, <1>1 DEF Frame
    <3> QED BY Zenon, <3>1, <3>2 DEF ConfigInv, SharedInv
  <2>4. Settings!Admit(p)
    BY Zenon, <1>2, <1>5, <1>6, <1>8, <2>1, <2>2, <2>3 DEF Settings!Admit
  <2> QED BY Zenon, <2>4 DEF Settings!Next
<1> QED BY Zenon, <1>3, <1>7, <1>8

\* The variables of a thread are the fields of its configuration.
LEMMA FieldsAreVars ==
  ASSUME NEW c \in ThreadConfig
  PROVE  DOMAIN c = ThreadVars
BY DEF ThreadConfig, ThreadVars

\* A store lands in a thread that is there.
LEMMA LandStep ==
  ASSUME ConfigInv, RunInv, NEW p \in Writers, V_Assign(p)
  PROVE  Settings!Next
<1> DEFINE OnTheWay == \E q \in Writers : w[q].pc \in Checked
           value == Truncate(w[p].var, w[p].arg)
<1>1. /\ w \in [Writers -> Frame] /\ w[p] \in Frame /\ w[p].pc = "vassign"
      /\ num_threads \in 0 .. Cpus
  BY Zenon DEF V_Assign, ConfigInv, StructType
<1>2. w'[p].pc = "idle" /\ \A q \in Writers : q # p => w'[q] = w[q]
  BY Zenon, <1>1, ReturnEffect DEF V_Assign
<1>3. w[p].tid \in Tids /\ w[p].var \in ThreadVars
  BY Zenon, <1>1 DEF Frame
<1>4. /\ tconf' = [tconf EXCEPT ![w[p].tid][w[p].var] = value]
      /\ UNCHANGED <<runtime_seconds, num_threads, threads, kio_running>>
  BY Zenon DEF V_Assign
<1>5. landed'.checked = (landed.checked \/ OnTheWay)
  BY Zenon DEF V_Assign
<1>6. kobj[w[p].tid] \in {"live", "removing"}
  BY Zenon, <1>1 DEF ConfigInv, HandlerInv, Storing
<1>7. threads = "live" /\ w[p].tid < num_threads
  BY Zenon, <1>3, <1>6 DEF ConfigInv, SharedInv
<1>8. w[p].tid \in 0 .. num_threads - 1
  BY <1>1, <1>3, <1>7, CpusPositive DEF Tids
<1>9. SettingsPhase' = SettingsPhase
  BY Zenon, <1>1, <1>2, OutsidePhase DEF Running
<1>10. p \in Late /\ Late' = Late \ {p}
  BY Zenon, <1>1, <1>2, LateChange DEF Late
<1>11. Undisturbed' = (SettingsPhase = "ready")
  <2>1. SettingsPhase # "ready" => OnTheWay
    BY Zenon DEF SettingsPhase, Checked
  <2> HIDE DEF OnTheWay
  <2> QED BY Zenon, <1>5, <1>9, <2>1 DEF Undisturbed
<1>12. tconf' = [tconf EXCEPT ![w[p].tid][w[p].var] = tconf'[w[p].tid][w[p].var]]
  <2>1. tconf \in [Tids -> ThreadConfig] BY Zenon DEF RunInv, DataType
  <2>2. w[p].var \in DOMAIN tconf[w[p].tid]
    BY Zenon, <1>3, <2>1, FieldsAreVars
  <2> HIDE DEF value
  <2>3. tconf'[w[p].tid] = [tconf[w[p].tid] EXCEPT ![w[p].var] = value]
    BY Zenon, <1>3, <1>4, <2>1
  <2>4. tconf'[w[p].tid][w[p].var] = value
    BY Zenon, <2>2, <2>3
  <2> QED BY Zenon, <1>4, <2>4
<1>13. Settings!Land(p)
  BY Zenon, <1>3, <1>4, <1>7, <1>8, <1>9, <1>10, <1>11, <1>12
     DEF Settings!Land, Settings!Active
<1> QED BY Zenon, <1>13 DEF Settings!Next

\* Every write to a sysfs file does what KioSettings allows, step by step.
THEOREM ConfigImplementsSettings == Spec => ImplementsSettings
<1>1. Init => Settings!Init
  <2> SUFFICES ASSUME Init PROVE Settings!Init
    OBVIOUS
  <2>1. \A q \in Writers : w[q].pc = "idle" BY Zenon DEF Init, IdleFrame
  <2>2. SettingsPhase = "ready" BY Zenon, <2>1 DEF SettingsPhase, Checked, Checking
  <2>3. Late = {} BY Zenon, <2>1 DEF Late
  <2>4. Undisturbed = TRUE BY Zenon, <2>2 DEF Undisturbed
  <2> QED BY Zenon, <2>2, <2>3, <2>4 DEF Init, Settings!Init, Tids
<1>2. ConfigInv /\ RunInv /\ SettingsInv /\ [Next]_vars
        => [Settings!Next]_(Settings!vars)
  <2> SUFFICES ASSUME ConfigInv, RunInv, SettingsInv, [Next]_vars
               PROVE  Settings!Next \/ UNCHANGED SettingsState
    BY Zenon DEF SettingsState, Settings!vars
  <2>1. CASE UNCHANGED vars
    <3>1. UNCHANGED <<w, landed, runtime_seconds, num_threads, threads, tconf,
                      kio_running>>
      BY Zenon, <2>1 DEF vars, dataVars
    <3>2. SettingsPhase' = SettingsPhase /\ Late' = Late
      BY Zenon, <3>1 DEF SettingsPhase, Late
    <3>3. Undisturbed' = Undisturbed BY Zenon, <3>1, <3>2 DEF Undisturbed
    <3> QED BY Zenon, <3>1, <3>2, <3>3 DEF SettingsState
  <2>2. ASSUME NEW p \in Writers, Write(p) \/ Lock(p) \/ Handler(p)
        PROVE  Settings!Next \/ UNCHANGED SettingsState
    <3>1. CASE Quiet(p)
      BY Zenon, <3>1, QuietUnseen, RuntimeStep, ThreadsStep, LookupStep
    <3>2. CASE V_Check(p) \/ V_Assign(p)
      BY Zenon, <3>2, AdmitStep, LandStep
    <3>3. CASE \/ NT_Alloc(p) \/ R_Check(p) \/ CheckPass(p) \/ R_Start(p)
               \/ R_End(p) \/ R_SetupFails(p)
      BY Zenon, <3>3, ThreadsStep, BeginStep, CheckStep, StartStep, EndStep
    <3> QED
      BY Zenon, <2>2, <3>1, <3>2, <3>3
         DEF Handler, NumThreadsStore, RunWorkloadStore, VarStore, Quiet, CheckPass
  <2> QED BY Zenon, <2>1, <2>2 DEF Next
<1> QED
  BY <1>1, <1>2, ConfigInvariant, RunInvariant, SettingsInvariant, PTL
     DEF Spec, ImplementsSettings, Settings!Spec

-----------------------------------------------------------------------------
(***************************************************************************)
(* The writes never all wait for each other.                               *)
(***************************************************************************)
\* The mutex is held only by a handler that will unlock it.
LockInv == mutex = None \/ (mutex \in Writers /\ w[mutex].pc \in Critical)

\* When a write can go on: it waits for the mutex and, where it removes a
\* directory, for the handlers in the files of it.
WriteCanStep(p) ==
  /\ w[p].pc # "idle"
  /\ w[p].pc = "lock" => mutex = None
  /\ \/ w[p].pc = "ntput"
     \/ w[p].pc = "ntdestroy" /\ kobj[w[p].i] = "removing"
     => Drained(w[p].i)

\* While processes write to the files, one of the writes can go on.
WritesNotStuck ==
  (\E p \in Writers : w[p].pc # "idle") => \E p \in Writers : WriteCanStep(p)

\* A handler leaves its critical section only by unlocking the mutex.
LEMMA InsideStays ==
  ASSUME ConfigInv, NEW p \in Writers, w[p].pc \in Critical,
         Write(p) \/ Lock(p) \/ Handler(p), ~Unlock(p)
  PROVE  w'[p].pc \in Critical /\ mutex' = mutex
<1>1. /\ w \in [Writers -> Frame] /\ w[p] \in Frame
  BY Zenon DEF ConfigInv, StructType
<1>2. NumThreadsStore(p) \/ RT_Body(p) \/ RunWorkloadStore(p)
  BY Zenon DEF Handler, VarStore, V_Check, V_Lookup, V_Assign, Write, Call,
     CallVar, Lock, Critical, Building, Running
<1>3. mutex' = mutex
  BY Zenon, <1>2, CheckPassMoves DEF NumThreadsStore, RunWorkloadStore, NT_Check,
     NT_Alloc, NT_AllocFails, NT_Kobj, NT_KobjFails, NT_Files, NT_FilesFail,
     NT_FilesPut, NT_DestroyPut, NT_DestroyNext, NT_Free, RT_Body, R_Check,
     CheckPass, R_Start, R_End, R_SetupFails
<1>4. {"unlock", "ntalloc", "ntkobj", "ntfiles", "ntput", "ntdestroy", "ntfree",
       "rvalid", "running"} \subseteq PC \cap Critical
  BY Zenon DEF PC, Critical, Building, Running
<1>5. CASE \/ NT_Check(p) \/ NT_Alloc(p) \/ NT_AllocFails(p) \/ NT_Kobj(p)
           \/ NT_FilesFail(p) \/ NT_Free(p) \/ RT_Body(p) \/ R_Check(p)
           \/ R_Start(p) \/ R_End(p) \/ R_SetupFails(p)
  <2>1. ASSUME NEW l \in PC \cap Critical, Goto(p, l) PROVE w'[p].pc \in Critical
    BY Zenon, <1>1, <2>1, GotoEffect
  <2>2. CASE NT_Check(p)
    <3>1. Goto(p, "unlock") \/ Goto(p, "ntalloc")
      BY Zenon, <2>2 DEF NT_Check
    <3> QED BY Zenon, <1>3, <1>4, <2>1, <3>1
  <2>3. CASE R_Check(p)
    <3>1. Goto(p, "unlock") \/ Goto(p, "rvalid")
      BY Zenon, <2>3 DEF R_Check
    <3> QED BY Zenon, <1>3, <1>4, <2>1, <3>1
  <2>4. CASE ~NT_Check(p) /\ ~R_Check(p)
    <3>1. \/ Goto(p, "unlock") \/ Goto(p, "ntkobj") \/ Goto(p, "ntfiles")
          \/ Goto(p, "ntput") \/ Goto(p, "running")
      BY Zenon, <1>5, <2>4 DEF NT_Alloc, NT_AllocFails, NT_Kobj, NT_FilesFail,
         NT_Free, RT_Body, R_Start, R_End, R_SetupFails
    <3> QED BY Zenon, <1>3, <1>4, <2>1, <3>1
  <2> QED BY Zenon, <2>2, <2>3, <2>4
<1>6. CASE NT_KobjFails(p) \/ NT_FilesPut(p)
  <2>1. w' = [w EXCEPT ![p].pc = "ntdestroy", ![p].i = 0]
    BY Zenon, <1>6 DEF NT_KobjFails, NT_FilesPut
  <2>2. w'[p] = [w[p] EXCEPT !.pc = "ntdestroy", !.i = 0]
    BY Zenon, <1>1, <2>1
  <2>3. w'[p].pc = "ntdestroy"
    BY Zenon, <1>1, <2>2 DEF Frame
  <2> QED BY Zenon, <1>3, <1>4, <2>3
<1>7. CASE NT_DestroyPut(p)
  BY Zenon, <1>3, <1>7 DEF NT_DestroyPut
<1>8. CASE NT_Files(p) \/ NT_DestroyNext(p)
  <2>1. \/ Loop(p, num_threads, "ntkobj", "unlock")
        \/ Loop(p, num_threads, "ntdestroy", "ntfree")
    BY Zenon, <1>8 DEF NT_Files, NT_DestroyNext
  <2>2. num_threads \in 0 .. Cpus BY Zenon DEF ConfigInv, StructType
  <2>3. ASSUME NEW again \in PC \cap Critical, NEW done \in PC \cap Critical,
               Loop(p, num_threads, again, done)
        PROVE  w'[p].pc \in Critical
    BY Zenon, <1>1, <2>2, <2>3, LoopEffect
  <2> QED BY Zenon, <1>3, <1>4, <2>1, <2>3
<1>9. CASE CheckPass(p)
  <2>1. num_threads \in 0 .. Cpus BY Zenon DEF ConfigInv, StructType
  <2>2. w'[p].pc \in CheckLabels \cup {"rstart", "unlock"}
    BY Zenon, <1>1, <1>9, <2>1, CheckPassLeads
  <2> QED BY Zenon, <1>3, <2>2 DEF Critical, Running, CheckLabels
<1> QED BY Zenon, <1>2, <1>5, <1>6, <1>7, <1>8, <1>9
        DEF NumThreadsStore, RunWorkloadStore, CheckPass

\* No path through a handler leaves the mutex locked.
THEOREM MutexIsReleased == Spec => []LockInv
<1>1. Init => LockInv
  BY Zenon DEF Init, LockInv
<1>2. ConfigInv /\ LockInv /\ [Next]_vars => LockInv'
  <2> SUFFICES ASSUME ConfigInv, LockInv, [Next]_vars PROVE LockInv'
    OBVIOUS
  <2>1. CASE UNCHANGED vars
    BY Zenon, <2>1 DEF vars, LockInv
  <2>2. ASSUME NEW p \in Writers, Write(p) \/ Lock(p) \/ Handler(p) PROVE LockInv'
    <3>1. CASE Unlock(p)
      BY Zenon, <3>1 DEF Unlock, LockInv
    <3>2. CASE Lock(p)
      <4>1. w \in [Writers -> Frame] /\ "body" \in PC
        BY Zenon DEF ConfigInv, StructType, PC
      <4>2. mutex' = p /\ w'[p].pc = "body"
        BY Zenon, <3>2, <4>1, GotoEffect DEF Lock
      <4> QED BY Zenon, <4>2 DEF LockInv, Critical
    <3>3. CASE ~Unlock(p) /\ ~Lock(p)
      <4>1. mutex' = mutex
        <5>1. CASE w[p].pc \in Critical
          BY Zenon, <2>2, <3>3, <5>1, InsideStays
        <5>2. CASE w[p].pc \notin Critical
          <6>1. Write(p) \/ VarStore(p)
            BY Zenon, <2>2, <3>3, <5>2, CheckPassMoves DEF Handler, NumThreadsStore,
               RunWorkloadStore, NT_Check, NT_Alloc, NT_AllocFails, NT_Kobj,
               NT_KobjFails, NT_Files, NT_FilesFail, NT_FilesPut, NT_DestroyPut,
               NT_DestroyNext, NT_Free, RT_Body, R_Check, CheckPass, CheckLabels,
               R_Start, R_End, R_SetupFails, Critical, Building, Running
          <6> QED BY Zenon, <6>1 DEF Write, Call, CallVar, VarStore, V_Check,
                  V_Lookup, V_Assign
        <5> QED BY Zenon, <5>1, <5>2
      <4>2. CASE mutex = p /\ mutex \in Writers /\ w[mutex].pc \in Critical
        <5>1. w'[p].pc \in Critical
          BY Zenon, <2>2, <3>3, <4>2, InsideStays
        <5> QED BY Zenon, <4>1, <4>2, <5>1 DEF LockInv
      <4>3. CASE mutex # p /\ mutex \in Writers /\ w[mutex].pc \in Critical
        <5>1. w'[mutex] = w[mutex]
          BY Zenon, <2>2, <4>3, StepFrame
        <5> QED BY Zenon, <4>1, <4>3, <5>1 DEF LockInv
      <4>4. CASE mutex = None
        BY Zenon, <4>1, <4>4 DEF LockInv
      <4> QED BY Zenon, <4>2, <4>3, <4>4 DEF LockInv
    <3> QED BY Zenon, <3>1, <3>2, <3>3
  <2> QED BY Zenon, <2>1, <2>2 DEF Next
<1> QED BY <1>1, <1>2, ConfigInvariant, PTL DEF Spec

\* While a process writes to a file one of them can go on: a store into a thread
\* file waits for nobody, who removes a directory only for such stores, and who
\* waits for the mutex for a handler that is in its critical section.
THEOREM WritesNeverAllWait == Spec => []WritesNotStuck
<1>1. LockInv => WritesNotStuck
  <2> SUFFICES ASSUME LockInv, NEW p \in Writers, w[p].pc # "idle"
               PROVE  \E q \in Writers : WriteCanStep(q)
    BY Zenon DEF WritesNotStuck
  <2>1. CASE \E q \in Writers : w[q].pc \in Storing
    <3>1. PICK q \in Writers : w[q].pc \in Storing
      BY Zenon, <2>1
    <3>2. WriteCanStep(q)
      BY Zenon, <3>1 DEF WriteCanStep, Storing
    <3> QED BY Zenon, <3>2
  <2>2. CASE ~\E q \in Writers : w[q].pc \in Storing
    <3>1. \A t : Drained(t)
      BY Zenon, <2>2 DEF Drained, Storing
    <3>2. CASE mutex = None
      BY Zenon, <3>1, <3>2 DEF WriteCanStep
    <3>3. CASE mutex \in Writers /\ w[mutex].pc \in Critical
      <4>1. WriteCanStep(mutex)
        BY Zenon, <3>1, <3>3 DEF WriteCanStep, Critical, Building, Running
      <4> QED BY Zenon, <3>3, <4>1
    <3> QED BY Zenon, <3>2, <3>3 DEF LockInv
  <2> QED BY Zenon, <2>1, <2>2
<1> QED BY <1>1, MutexIsReleased, PTL
=============================================================================
