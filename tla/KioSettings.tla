---------------------------- MODULE KioSettings ----------------------------
(***************************************************************************)
(* What the sysfs files promise to the processes that write to them,       *)
(* without a mutex, handlers or directories: a number of threads that is   *)
(* set once, stores that are admitted while nothing runs and land some     *)
(* time later or not at all, and one run at a time, of threads that were   *)
(* checked and corrected.  Only a store that lands after the check began   *)
(* lets a thread run with values nobody checked, be corrected wrongly, or  *)
(* be refused for values it does not have.                                 *)
(***************************************************************************)
EXTENDS Naturals

CONSTANTS
  Writers, Cpus, KIO_MAX_RUNTIME_SECONDS, ThreadVars, ZeroConfig,
  Correction(_),  \* what the check makes of a configuration
  Runnable(_)     \* the configurations the driver can run

VARIABLES
  runtime_seconds, num_threads, threads, tconf, kio_running,
  phase,          \* "ready", "checking" or "running"
  admitted,       \* the processes whose store is yet to land
  clean           \* no store has landed since the check began

vars == <<runtime_seconds, num_threads, threads, tconf, kio_running, phase,
          admitted, clean>>

Active == 0 .. num_threads - 1

Init ==
  /\ runtime_seconds = 0
  /\ num_threads = 0
  /\ threads = "null"
  /\ tconf = [t \in 0 .. Cpus - 1 |-> ZeroConfig]
  /\ kio_running = FALSE
  /\ phase = "ready"
  /\ admitted = {}
  /\ clean = TRUE

\* No store that was admitted earlier can land in the new array.
SetThreads(n) ==
  /\ phase = "ready" /\ ~kio_running
  /\ num_threads = 0 /\ threads = "null" /\ admitted = {}
  /\ num_threads' = n
  /\ threads' = "live"
  /\ tconf' = [t \in 0 .. Cpus - 1 |-> ZeroConfig]
  /\ UNCHANGED <<runtime_seconds, kio_running, phase, admitted, clean>>

\* Setting up the threads failed: they are gone, and num_threads stays.
LoseThreads ==
  /\ phase = "ready" /\ ~kio_running
  /\ threads = "live" /\ admitted = {}
  /\ threads' = "null"
  /\ UNCHANGED <<runtime_seconds, num_threads, tconf, kio_running, phase,
                 admitted, clean>>

SetRuntime ==
  /\ phase = "ready" /\ ~kio_running
  /\ runtime_seconds' \in 1 .. KIO_MAX_RUNTIME_SECONDS
  /\ UNCHANGED <<num_threads, threads, tconf, kio_running, phase, admitted, clean>>

Admit(p) ==
  /\ ~kio_running
  /\ threads = "live" /\ p \notin admitted
  /\ admitted' = admitted \cup {p}
  /\ UNCHANGED <<runtime_seconds, num_threads, threads, tconf, kio_running, phase,
                 clean>>

\* An admitted store lands in one variable of a thread that is there, ...
Land(p) ==
  /\ threads = "live" /\ p \in admitted
  /\ \E t \in Active, var \in ThreadVars :
       tconf' = [tconf EXCEPT ![t][var] = tconf'[t][var]]
  /\ admitted' = admitted \ {p}
  /\ clean' = (phase = "ready")
  /\ UNCHANGED <<runtime_seconds, num_threads, threads, kio_running, phase>>

\* ... or what was written is no number.
Drop(p) ==
  /\ p \in admitted
  /\ admitted' = admitted \ {p}
  /\ UNCHANGED <<runtime_seconds, num_threads, threads, tconf, kio_running, phase,
                 clean>>

BeginCheck ==
  /\ phase = "ready" /\ ~kio_running
  /\ threads = "live" /\ num_threads > 0 /\ runtime_seconds > 0
  /\ phase' = "checking"
  /\ clean' = TRUE
  /\ UNCHANGED <<runtime_seconds, num_threads, threads, tconf, kio_running,
                 admitted>>

\* A thread is corrected, in its offset_high only.
Correct(t) ==
  /\ phase = "checking"
  /\ tconf' = [tconf EXCEPT ![t].offset_high = tconf'[t].offset_high]
  /\ clean => tconf'[t] = Correction(tconf[t])
  /\ UNCHANGED <<runtime_seconds, num_threads, threads, kio_running, phase, admitted,
                 clean>>

Refuse ==
  /\ phase = "checking"
  /\ clean => \E t \in Active : ~Runnable(tconf[t])
  /\ phase' = "ready"
  /\ clean' = TRUE
  /\ UNCHANGED <<runtime_seconds, num_threads, threads, tconf, kio_running,
                 admitted>>

Start ==
  /\ phase = "checking"
  /\ clean => \A t \in Active : Runnable(tconf[t])
  /\ phase' = "running"
  /\ kio_running' = TRUE
  /\ UNCHANGED <<runtime_seconds, num_threads, threads, tconf, admitted, clean>>

\* The run comes to its end, or could not be set up: nothing is admitted, set
\* or run any more then.
End ==
  /\ phase = "running"
  /\ phase' = "ready"
  /\ kio_running' \in {FALSE, kio_running}
  /\ clean' = TRUE
  /\ UNCHANGED <<runtime_seconds, num_threads, threads, tconf, admitted>>

Next ==
  \/ \E n \in 1 .. Cpus : SetThreads(n)
  \/ LoseThreads \/ SetRuntime
  \/ \E p \in Writers : Admit(p) \/ Land(p) \/ Drop(p)
  \/ BeginCheck \/ Refuse \/ Start \/ End
  \/ \E t \in Active : Correct(t)

Spec == Init /\ [][Next]_vars
=============================================================================
