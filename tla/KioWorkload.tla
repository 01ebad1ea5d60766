---------------------------- MODULE KioWorkload ----------------------------
(***************************************************************************)
(* What one kio thread issues next (driver/kio_run.c): the direction of    *)
(* the next I/O, chosen burst by burst, and its offset on the device.      *)
(* Both C functions touch only the thread's own struct kio_thread, so they *)
(* are operators here: they take the thread's configuration (struct        *)
(* kio_thread_config) and the fields they read, and return the new fields  *)
(* together with the result.                                               *)
(***************************************************************************)
EXTENDS Integers

\* Mutant: a burst length of 0, allowed by the configuration, underflows.
BurstLeft_noTest(burst) == burst - 1

\* Mutant: the I/O that opens the burst is not counted.
BurstLeft_whole(burst) == burst

(***************************************************************************)
(* The I/Os of a burst still to come once its first one is issued.         *)
(***************************************************************************)
BurstLeft(burst) == IF burst > 0 THEN burst - 1 ELSE 0

(***************************************************************************)
(* The direction of the next I/O.  A running burst goes on; a pure         *)
(* workload (read_mix_percent of 100 or 0) never opens a burst; otherwise  *)
(* a burst is opened in the direction drawn, drawsRead being the outcome   *)
(* of  prandom_u32() % 100 < read_mix_percent.                             *)
(***************************************************************************)
kio_thread_next_dir(ktc, th, drawsRead) ==
  LET dir(isWrite, readBurst, writeBurst, newBurst) ==
        [ is_write    |-> isWrite,
          dir_changed |-> th.was_write # isWrite,
          new_burst   |-> newBurst,
          read_burst  |-> readBurst,
          write_burst |-> writeBurst ]
  IN  IF th.read_burst > 0
        THEN dir(FALSE, th.read_burst - 1, th.write_burst, FALSE)
      ELSE IF th.write_burst > 0
        THEN dir(TRUE, 0, th.write_burst - 1, FALSE)
      ELSE IF ktc.read_mix_percent >= 100 THEN dir(FALSE, 0, 0, FALSE)
      ELSE IF ktc.read_mix_percent < 1    THEN dir(TRUE, 0, 0, FALSE)
      ELSE IF drawsRead THEN dir(FALSE, BurstLeft(ktc.read_burst), 0, TRUE)
      ELSE dir(TRUE, 0, BurstLeft(ktc.write_burst), TRUE)

\* C integer division of a non-negative offset, and back.
RoundDown(x, size) == (x \div size) * size

\* Mutant: wraps only when the next I/O starts past the window.
AdvanceOffset_startOnly(ktc, next) ==
  IF next > ktc.offset_high THEN ktc.offset_low ELSE next

(***************************************************************************)
(* Where a strided workload goes on: next is th->next_offset plus the      *)
(* stride.  Leaving the window forwards, or being short of it, a positive  *)
(* stride goes (back) to offset_low.                                       *)
(***************************************************************************)
AdvanceOffset(ktc, next) ==
  LET r_end == next + ktc.block_size
  IN  IF r_end > ktc.offset_high
        THEN IF ktc.offset_stride > 0 THEN ktc.offset_low ELSE r_end
      ELSE IF r_end < ktc.offset_low
        THEN IF ktc.offset_stride < 0 THEN r_end ELSE ktc.offset_low
      ELSE next

(***************************************************************************)
(* The offset of the next I/O, rounded down to the device's blocks, and    *)
(* the new th->next_offset; rnd is the 64-bit random number.               *)
(***************************************************************************)
kio_thread_next_offset(ktc, next_offset, dev_block_size, rnd) ==
  LET range == ktc.offset_high - ktc.offset_low
      result(off, next) == [ offset |-> RoundDown(off, dev_block_size),
                             next_offset |-> next ]
  IN  IF dev_block_size = 0
        THEN [offset |-> 0, next_offset |-> next_offset]
      ELSE IF range = 0
        THEN [offset |-> ktc.offset_low, next_offset |-> next_offset]
      ELSE IF ktc.offset_random
        THEN result(ktc.offset_low + (rnd % range), next_offset)
      ELSE result(next_offset,
                  AdvanceOffset(ktc, next_offset + ktc.offset_stride))

\* Mutant: ignores burst_delay.
Sleeps_everyIO(ktc, dir) ==
  (IF dir.is_write THEN ktc.write_sleep_usec ELSE ktc.read_sleep_usec) > 0

\* Whether the thread delays after an I/O: always, or with burst_delay only
\* after the I/O that changed direction.
Sleeps(ktc, dir) ==
  /\ (IF dir.is_write THEN ktc.write_sleep_usec ELSE ktc.read_sleep_usec) > 0
  /\ ktc.burst_delay => dir.dir_changed

=============================================================================
