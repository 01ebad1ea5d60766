---------------------------- MODULE MCKioConfig ----------------------------
(***************************************************************************)
(* Instances of KioConfig for TLC.                                         *)
(***************************************************************************)
EXTENDS KioConfigSettings

MCDevSize == 1073741824

St(v, x) == [var |-> v, value |-> x]

\* The stores that make a configuration valid, one with an offset_high that
\* has to be corrected, and one that makes it invalid again.
MCValidStores ==
  { St("block_size", 4096), St("offset_stride", 4096), St("queue_depth", 1),
    St("offset_high", 2000000000), St("write_burst", 1) }
MCRunStores == MCValidStores \cup { St("block_size", 512) }

\* Setting up and taking down the threads, whatever is stored meanwhile.
MCAnyStore == { St("burst_finish", 3) }
=============================================================================
