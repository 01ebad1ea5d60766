---------------------------- MODULE KioRunBench ----------------------------
(***************************************************************************)
(* KioRun implements KioBench: an I/O is outstanding from its submission   *)
(* to the decrement of th->dispatched in its handler, a thread works until *)
(* it is past its final wait, and the run is over once kio_running is      *)
(* cleared or kio_run() has returned.                                      *)
(***************************************************************************)
EXTENDS KioRun

BenchPhase ==
  CASE run.pc = "idle" -> "idle"
    [] run.pc = "oops" -> "crashed"
    [] run.pc \in {"stats", "free", "returned"} -> "over"
    [] OTHER -> "running"

BenchLife(t) ==
  CASE pc[t] = "none" -> "none"
    [] pc[t] \in {"unhook", "return", "exited"} -> "left"
    [] OTHER -> "working"

Bench == INSTANCE KioBench WITH
  phase <- BenchPhase,
  life <- [t \in Threads |-> BenchLife(t)],
  outstanding <- [t \in Threads |-> [d \in Dirs |-> InFlightDir(t, d)]],
  interrupted <- {t \in Threads : kthread[t].signal}

\* Whatever the threads, their handlers and the caller do, a run is one that
\* KioBench allows: no I/O beyond the limits, none left when its thread leaves,
\* and no thread at work when the run is over.
ImplementsBench == Bench!Spec
=============================================================================
