------------------------------ MODULE KioIssue ------------------------------
(***************************************************************************)
(* The I/Os one kio thread issues, in order (driver/kio_run.c): the        *)
(* configuration is checked and corrected, then each turn of the loop of   *)
(* kio_thread_fn() picks a direction and an offset and perhaps sleeps.     *)
(* When the I/Os complete does not matter here, see KioRun for that.       *)
(***************************************************************************)
EXTENDS KioWorkload, KioValid, KioSubmit

CONSTANTS
  Configs,        \* thread configurations that may have been stored
  DevSize,        \* kio_io.dev_byte_size
  DevBlockSize,   \* kio_io.dev_block_size, the logical block size
  Draws           \* the 64-bit random numbers to choose from

\* kio_io_init() refuses a device below 1 GiB; a logical block is a power of
\* two between a sector and a page.
ASSUME KioIssueAssumption ==
  /\ Configs \subseteq ThreadConfig
  /\ DevSize \in Nat /\ DevSize >= 1073741824
  /\ DevBlockSize \in {512, 1024, 2048, 4096}
  /\ Draws \subseteq Nat

VARIABLES
  ktc,    \* struct kio_thread_config of the thread
  phase,  \* "stored", then "refused" or "running"
  th,     \* the fields of struct kio_thread that choose the next I/O
  io,     \* the last I/O issued
  burst   \* history: what has been issued in the current burst

vars == <<ktc, phase, th, io, burst>>

NextFields == [ read_burst : Nat, write_burst : Nat,
                was_write : BOOLEAN, next_offset : Int ]

\* nth is 0 before the first I/O, 1 for the first one and 2 for any other.
IO == [ nth : 0 .. 2, offset : Int, is_write : BOOLEAN, new_burst : BOOLEAN ]

\* A burst that was opened by a draw; the two pure workloads open none.
Burst == [ open : BOOLEAN, ios : Nat, sleeps : Nat ]

\* Every variable keeps its type; in particular no burst counter, unsigned in
\* the code, goes below zero.
TypeOK ==
  /\ ktc \in ThreadConfig
  /\ phase \in {"stored", "refused", "running"}
  /\ th \in NextFields
  /\ io \in IO
  /\ burst \in Burst

Init ==
  /\ ktc \in Configs
  /\ phase = "stored"
  /\ th = [read_burst |-> 0, write_burst |-> 0, was_write |-> FALSE,
           next_offset |-> 0]
  /\ io = [nth |-> 0, offset |-> 0, is_write |-> FALSE, new_burst |-> FALSE]
  /\ burst = [open |-> FALSE, ios |-> 0, sleeps |-> 0]

\* kio_run_workload_store() checks the configuration, kio_run() refuses all
\* block sizes but one.
Validate ==
  /\ phase = "stored"
  /\ ktc' = Corrected(ktc, DevSize)
  /\ phase' = IF /\ kio_config_is_valid(ktc, DevSize)
                 /\ ktc.block_size = PAGE_SIZE
              THEN "running" ELSE "refused"
  /\ UNCHANGED <<th, io, burst>>

\* An I/O goes to the device, and the thread sleeps after it or not.
IssueIO(dir, off) ==
  LET slept == IF Sleeps(ktc, dir) THEN 1 ELSE 0
  IN  /\ th' = [read_burst |-> dir.read_burst, write_burst |-> dir.write_burst,
                was_write |-> dir.is_write, next_offset |-> off.next_offset]
      /\ io' = [nth |-> IF io.nth = 0 THEN 1 ELSE 2, offset |-> off.offset,
                is_write |-> dir.is_write, new_burst |-> dir.new_burst]
      /\ burst' = IF dir.new_burst
                  THEN [open |-> TRUE, ios |-> 1, sleeps |-> slept]
                  ELSE IF burst.open
                  THEN [open |-> TRUE, ios |-> burst.ios + 1,
                        sleeps |-> burst.sleeps + slept]
                  ELSE burst

\* One turn of the loop.
Issue ==
  /\ phase = "running"
  /\ \E drawsRead \in BOOLEAN, rnd \in Draws :
       IssueIO(kio_thread_next_dir(ktc, th, drawsRead),
               kio_thread_next_offset(ktc, th.next_offset, DevBlockSize, rnd))
  /\ UNCHANGED <<ktc, phase>>

\* A refused configuration runs nothing.
Refused == phase = "refused" /\ UNCHANGED vars

Next == Validate \/ Issue \/ Refused

Spec == Init /\ [][Next]_vars

-----------------------------------------------------------------------------
(***************************************************************************)
(* Properties                                                              *)
(***************************************************************************)

\* Every I/O of an accepted configuration lies within the device and starts
\* at one of its blocks: kio_io_submit() never has to refuse one of them,
\* which matters since kio_thread_fn() does not recover from that.
OffsetsAccepted ==
  io.nth > 0 =>
    /\ io.offset >= 0
    /\ kio_io_offset_is_valid(io.offset, PAGE_SIZE, DevSize, DevBlockSize)

\* In each of the ways to submit it an I/O lands on the disk where its offset
\* says, counted from the start of the partition, and ends within the partition.
\* Left out is the direct call of make_request_fn() for a partition in a build
\* with BDEV_HAS_BD_PART, where blk_partition_remap() changes nothing.
StaysInPartition ==
  io.nth > 0 =>
    \A mode \in SubmitModes :
      ~(mode = 2 /\ PartStart > 0 /\ BdevHasBdPart) =>
        LET start == SECTOR_SIZE * PartStart
            at == SECTOR_SIZE * SectorOnDisk(mode, io.offset)
        IN  at = start + io.offset /\ at + PAGE_SIZE <= start + DevSize

\* No I/O starts past offset_high ("highest offset for IOs"), however the
\* stride, the block size and the window relate.
OffsetsBelowHigh == io.nth > 0 => io.offset < ktc.offset_high

\* Only the first I/O, at offset 0, may be far below offset_low: any other
\* one is less than a block and the rounding away from the window.
OffsetsNearWindow ==
  io.nth = 2 => io.offset + ktc.block_size + DevBlockSize > ktc.offset_low

\* The I/Os of a drawn burst that is over: as many as configured, and one
\* for a length of 0.
BurstLength(isWrite) ==
  LET n == IF isWrite THEN ktc.write_burst ELSE ktc.read_burst
  IN  IF n > 0 THEN n ELSE 1

\* A drawn burst has exactly the configured number of I/Os, all in its
\* direction, before the next one is drawn.
BurstsComplete ==
  [][ burst.open => IF io'.new_burst
                    THEN burst.ios = BurstLength(io.is_write)
                    ELSE io'.is_write = io.is_write ]_vars

\* With burst_delay no burst is delayed more than once, whatever directions
\* are drawn one after the other.
OneDelayPerBurst == ktc.burst_delay => burst.sleeps <= 1

\* Every I/O starts at offset_low or above.
OffsetsAboveLow == io.nth > 0 => io.offset >= ktc.offset_low

\* With burst_delay and a delay configured for both directions, there has
\* been a delay in a burst once the next one is drawn.
DelayPerBurst ==
  [][ /\ ktc.burst_delay
      /\ ktc.read_sleep_usec > 0 /\ ktc.write_sleep_usec > 0
      /\ burst.open /\ io'.new_burst
      => burst.sleeps > 0 ]_vars

=============================================================================
