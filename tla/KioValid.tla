------------------------------ MODULE KioValid ------------------------------
(***************************************************************************)
(* kio_config_is_valid() (driver/kio_config.c), for one thread at a time:  *)
(* which thread configurations a run accepts, and the correction of        *)
(* offset_high it makes on the way.  The 64-bit sums of the code wrap to   *)
(* huge unsigned values that fail the comparison with the device's size,   *)
(* as the unbounded sums do here.                                          *)
(***************************************************************************)
EXTENDS Integers

PAGE_SIZE == 4096

\* off_t offset_low, offset_high; the other integers are 32 bits wide or less.
ThreadConfig ==
  [ block_size : Int, queue_depth : Int, offset_stride : Int,
    offset_low : Int, offset_high : Int,
    offset_random : BOOLEAN, burst_delay : BOOLEAN, burst_finish : BOOLEAN,
    read_mix_percent : Int, read_burst : Int, write_burst : Int,
    read_sleep_usec : Int, write_sleep_usec : Int ]

is_power_of_2(x) == \E k \in 0 .. 20 : x = 2 ^ k

\* CHECK_THRD_VAR()
InRange(val, min, max) == min <= val /\ val <= max

\* The range checks; LONG_MAX is the largest value of an off_t.
VarsInRange(ktc) ==
  /\ InRange(ktc.block_size, 512, 1048576)
  /\ InRange(ktc.offset_stride, 512, 1048576)
  /\ InRange(ktc.queue_depth, 1, 1024)
  /\ ktc.offset_low >= 0
  /\ ktc.offset_high >= 0
  /\ InRange(ktc.read_mix_percent, 0, 100)
  /\ InRange(ktc.read_burst, 0, 1024)
  /\ InRange(ktc.write_burst, 0, 1024)
  /\ InRange(ktc.read_sleep_usec, 0, 100000)
  /\ InRange(ktc.write_sleep_usec, 0, 100000)

LowFits(ktc, dev_size) == ktc.offset_low + ktc.block_size <= dev_size

\* Everything that is checked before offset_high is corrected.
FitsDevice(ktc, dev_size) ==
  VarsInRange(ktc) /\ is_power_of_2(ktc.block_size) /\ LowFits(ktc, dev_size)

\* What is checked after it: the window is not empty, and there are bursts of
\* each kind the mix asks for.
LowBelowHigh(ktc) == ktc.offset_low < ktc.offset_high
HasBurst(ktc) == ktc.read_burst > 0 \/ ktc.write_burst > 0
ReadsCan(ktc) == ktc.read_mix_percent = 100 => ktc.read_burst > 0
WritesCan(ktc) == ktc.read_mix_percent = 0 => ktc.write_burst > 0

Consistent(ktc) ==
  LowBelowHigh(ktc) /\ HasBurst(ktc) /\ ReadsCan(ktc) /\ WritesCan(ktc)

NeedsCap(ktc, dev_size) == ktc.offset_high + ktc.block_size > dev_size

\* Mutant: corrects offset_high to the end of the device.
CapHigh_wholeDevice(ktc, dev_size) ==
  IF ktc.offset_high > dev_size
  THEN [ktc EXCEPT !.offset_high = dev_size] ELSE ktc

CapHigh(ktc, dev_size) ==
  IF NeedsCap(ktc, dev_size)
  THEN [ktc EXCEPT !.offset_high = dev_size - ktc.block_size] ELSE ktc

\* The configuration the check leaves behind, whether it passes or not.
Corrected(ktc, dev_size) ==
  IF FitsDevice(ktc, dev_size) THEN CapHigh(ktc, dev_size) ELSE ktc

kio_config_is_valid(ktc, dev_size) ==
  FitsDevice(ktc, dev_size) /\ Consistent(CapHigh(ktc, dev_size))

\* kio_io.h: what kio_io_submit() accepts.
kio_io_offset_is_valid(off, size, dev_size, dev_block_size) ==
  off + size <= dev_size /\ off % dev_block_size = 0

=============================================================================
