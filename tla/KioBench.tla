------------------------------ MODULE KioBench ------------------------------
(***************************************************************************)
(* What a run promises to whoever writes run_workload, without counters,   *)
(* waits, wakeups or handlers: threads that work while the run goes on,    *)
(* each with a number of I/Os outstanding per direction.  The limits a     *)
(* thread was configured with are never exceeded, a thread leaves only     *)
(* when all its I/Os are done, and a run is over only when every thread    *)
(* has left; but a signal to a thread ends its waits early.                *)
(***************************************************************************)
EXTENDS Naturals

CONSTANTS
  Threads,
  ThreadConfigs   \* records with a queue_depth and a burst_finish at least

VARIABLES
  config,        \* the configuration of each thread
  phase,         \* "idle", "running", "over", or "crashed"
  life,          \* of each thread: "none", "working" or "left"
  outstanding,   \* the I/Os of each thread and direction
  interrupted    \* the threads that have been sent a signal

vars == <<config, phase, life, outstanding, interrupted>>

Dirs == {"read", "write"}

Total(t) == outstanding[t]["read"] + outstanding[t]["write"]

Init ==
  /\ config \in [Threads -> ThreadConfigs]
  /\ phase = "idle"
  /\ life = [t \in Threads |-> "none"]
  /\ outstanding = [t \in Threads |-> [d \in Dirs |-> 0]]
  /\ interrupted = {}

\* The run begins, or is refused.
Begin ==
  /\ phase = "idle"
  /\ phase' \in {"running", "over"}
  /\ UNCHANGED <<config, life, outstanding, interrupted>>

Start(t) ==
  /\ phase = "running"
  /\ life[t] = "none"
  /\ life' = [life EXCEPT ![t] = "working"]
  /\ UNCHANGED <<config, phase, outstanding, interrupted>>

\* There is room in the queue, and with burst_finish no I/O of the other
\* direction.  A thread that was sent a signal gives up after one I/O too many.
Issue(t, d) ==
  /\ life[t] = "working"
  /\ config[t].queue_depth > 0 =>
       Total(t) < config[t].queue_depth + (IF t \in interrupted THEN 1 ELSE 0)
  /\ config[t].burst_finish /\ t \notin interrupted =>
       \A other \in Dirs \ {d} : outstanding[t][other] = 0
  /\ outstanding' = [outstanding EXCEPT ![t][d] = @ + 1]
  /\ UNCHANGED <<config, phase, life, interrupted>>

Complete(t, d) ==
  /\ outstanding[t][d] > 0
  /\ outstanding' = [outstanding EXCEPT ![t][d] = @ - 1]
  /\ UNCHANGED <<config, phase, life, interrupted>>

Leave(t) ==
  /\ life[t] = "working"
  /\ t \notin interrupted => \A d \in Dirs : outstanding[t][d] = 0
  /\ life' = [life EXCEPT ![t] = "left"]
  /\ UNCHANGED <<config, phase, outstanding, interrupted>>

Interrupt(t) ==
  /\ life[t] # "none"
  /\ interrupted' = interrupted \cup {t}
  /\ UNCHANGED <<config, phase, life, outstanding>>

End ==
  /\ phase = "running"
  /\ \A t \in Threads : life[t] # "working"
  /\ phase' = "over"
  /\ UNCHANGED <<config, life, outstanding, interrupted>>

\* The caller does not survive the stop of a thread that failed.
Crash ==
  /\ phase = "running"
  /\ phase' = "crashed"
  /\ UNCHANGED <<config, life, outstanding, interrupted>>

Next ==
  \/ Begin \/ End \/ Crash
  \/ \E t \in Threads :
       \/ Start(t) \/ Leave(t) \/ Interrupt(t)
       \/ \E d \in Dirs : Issue(t, d) \/ Complete(t, d)

Spec == Init /\ [][Next]_vars
=============================================================================
