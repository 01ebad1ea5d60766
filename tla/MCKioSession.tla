---------------------------- MODULE MCKioSession ----------------------------
(***************************************************************************)
(* Instances of KioSession for TLC: two users, two processors, a small     *)
(* log, and words and seconds small enough for TLC to count with.          *)
(***************************************************************************)
EXTENDS KioSession, TLC

CONSTANTS u1, u2

MCDevSize == 1073741824

\* What is written to the files of a thread: nothing, all that a run needs, with
\* numbers that are cut to their fields and an offset_high that is corrected, a
\* single file, a block size that is valid but not supported, and no number.
None == [set |-> <<>>, number |-> TRUE]
All  == [set |-> [block_size |-> 65536 + 4096, queue_depth |-> 1,
                  offset_stride |-> 4096, offset_low |-> 0,
                  offset_high |-> 2000000000, read_mix_percent |-> 256 + 50,
                  read_burst |-> 1, write_burst |-> 65537, burst_finish |-> 3],
         number |-> TRUE]
High  == [set |-> [offset_high |-> 8192], number |-> TRUE]
Small == [set |-> [All.set EXCEPT !.block_size = 512], number |-> TRUE]
Word5 == [set |-> [queue_depth |-> 5], number |-> FALSE]

MCValues == {None, All, High, Small, Word5}

Call(n, secs, first, second) ==
  [n |-> n, secs |-> secs, vals |-> [t \in Tids |-> IF t = 0 THEN first ELSE second]]

\* Calls that succeed after any other; calls that do or not, depending on what an
\* earlier one left; and calls that are refused.
MCCalls ==
  { Call(1, 5, All, None), Call(2, 3600, High, All), Call(2, 5, All, High),
    Call(2, 5, Small, All), Call(1, 5, Word5, None), Call(3, 5, All, All),
    Call(1, 0, None, None) }

MCTwoThreads == { Call(2, 5, All, All) }

Thread(completed, slat_total, clat_total, runtime) ==
  [ completed |-> completed, slat_total |-> slat_total,
    clat_total |-> clat_total, block_size |-> 4096, runtime |-> runtime ]

\* Two threads of about the same speed, with latencies that differ.
MCMeasured ==
  { [t \in Tids |-> IF t = 0 THEN Thread(100, 2050, 50050, 5000)
                             ELSE Thread(40, 1000, 90000, 5007)] }

MCSymmetry == Permutations(Users)
=============================================================================
