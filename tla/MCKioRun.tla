------------------------------ MODULE MCKioRun ------------------------------
(***************************************************************************)
(* Instances of KioRun for TLC.                                            *)
(***************************************************************************)
EXTENDS KioRunBench

Cfg(qd, mix, rb, wb, fin) ==
  [ block_size |-> 4096, queue_depth |-> qd, read_mix_percent |-> mix,
    read_burst |-> rb, write_burst |-> wb, burst_finish |-> fin ]

\* Mixed workloads with short bursts that have to finish (one of length 0),
\* the two pure ones, queue depths at which the thread fills its queue, no
\* limit, and a block size that is refused.
MCOneThread == { Cfg(2, 50, 2, 1, TRUE), Cfg(0, 50, 0, 2, TRUE),
                 Cfg(1, 100, 0, 0, FALSE), Cfg(2, 0, 1, 1, TRUE),
                 [Cfg(1, 50, 1, 1, FALSE) EXCEPT !.block_size = 512] }

\* Two threads, one that fills its queue and one with bursts that finish.
MCTwoThreads == { Cfg(1, 100, 0, 0, FALSE), Cfg(0, 50, 1, 1, TRUE) }

\* The workloads of one thread that sleep in all three waits.
MCWaits == { Cfg(2, 50, 2, 1, TRUE), Cfg(1, 50, 0, 0, FALSE) }
=============================================================================
