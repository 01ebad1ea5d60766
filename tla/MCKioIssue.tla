----------------------------- MODULE MCKioIssue -----------------------------
(***************************************************************************)
(* Instances of KioIssue for TLC: a device of 1 GiB and a page, with the   *)
(* numbers the code has, and windows that hold a few I/Os.                 *)
(***************************************************************************)
EXTENDS KioIssue

MCDevSize == 1073741824 + 4096

\* Draws at the ends of any window that is smaller.
MCDraws == {0, 4095, 12287, 1073741823}

Zero ==
  [ block_size |-> 0, queue_depth |-> 0, offset_stride |-> 0,
    offset_low |-> 0, offset_high |-> 0, offset_random |-> FALSE,
    burst_delay |-> FALSE, burst_finish |-> FALSE, read_mix_percent |-> 0,
    read_burst |-> 0, write_burst |-> 0, read_sleep_usec |-> 0,
    write_sleep_usec |-> 0 ]

\* Windows at the start, in the middle and at the end of the device, one that
\* has to be corrected, one that is smaller than an I/O and two that are
\* refused; strides that fit, that do not divide the window or a block, and
\* that are longer than the window.
MCOffsets ==
  { [Zero EXCEPT !.block_size = bs, !.queue_depth = 1, !.offset_stride = stride,
                 !.offset_low = w[1], !.offset_high = w[2],
                 !.offset_random = random, !.write_burst = 1] :
      bs \in {512, 4096}, stride \in {0, 512, 4096, 5000, 1048576},
      w \in { <<0, 20480>>, <<8192, 28672>>, <<6000, 20000>>, <<4096, 5000>>,
              <<1073725440, 1073741824>>, <<1073729000, 2000000000>>,
              <<1073741824, 1073745920>>, <<8192, 8192>> },
      random \in BOOLEAN }

\* Workloads of every mix, with bursts of length 0 to 3.
MCBursts ==
  { [Zero EXCEPT !.block_size = 4096, !.queue_depth = 1, !.offset_stride = 4096,
                 !.offset_high = 16384, !.burst_delay = delay,
                 !.read_mix_percent = mix, !.read_burst = rb,
                 !.write_burst = wb, !.read_sleep_usec = 10,
                 !.write_sleep_usec = ws] :
      delay \in BOOLEAN, mix \in {0, 50, 100}, rb \in {0, 1, 3},
      wb \in 0 .. 2, ws \in {0, 10} }

\* Both kinds.
MCWorkloads == MCOffsets \cup MCBursts

=============================================================================
