----------------------------- MODULE KioFields -----------------------------
(***************************************************************************)
(* The files of a thread (driver/kio_config.c): the field each of them     *)
(* stores to, and what of the written number arrives in it.                *)
(***************************************************************************)
EXTENDS KioValid, KioWords

KIO_MAX_RUNTIME_SECONDS == 3600

ThreadVars == { "block_size", "queue_depth", "offset_stride", "offset_low",
                "offset_high", "offset_random", "burst_delay", "burst_finish",
                "read_mix_percent", "read_burst", "write_burst",
                "read_sleep_usec", "write_sleep_usec" }

\* What kzalloc() makes of the array's elements.
ZeroConfig ==
  [ block_size |-> 0, queue_depth |-> 0, offset_stride |-> 0,
    offset_low |-> 0, offset_high |-> 0, offset_random |-> FALSE,
    burst_delay |-> FALSE, burst_finish |-> FALSE, read_mix_percent |-> 0,
    read_burst |-> 0, write_burst |-> 0, read_sleep_usec |-> 0,
    write_sleep_usec |-> 0 ]

\* The assignment of a long to the field of struct kio_thread_config.
Truncate(var, value) ==
  CASE var \in {"offset_random", "burst_delay", "burst_finish"} -> Bit(value)
    [] var = "read_mix_percent" -> Byte(value)
    [] var \in {"offset_low", "offset_high"} -> value
    [] var = "offset_stride" -> SignedWord(value)
    [] OTHER -> Word(value)
=============================================================================
