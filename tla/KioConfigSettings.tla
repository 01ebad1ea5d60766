------------------------- MODULE KioConfigSettings -------------------------
(***************************************************************************)
(* KioConfig implements KioSettings: a store is admitted once it is past   *)
(* the test of kio_running, until it returns, and the handler of           *)
(* run_workload that holds the mutex tells how far a run is.               *)
(***************************************************************************)
EXTENDS KioConfig

SettingsPhase ==
  IF \E p \in Writers : w[p].pc = "running" THEN "running"
  ELSE IF \E p \in Writers : w[p].pc \in Checked
       THEN "checking" ELSE "ready"

\* The stores that are past the test of the flag.
Late == {q \in Writers : w[q].pc \in {"vlookup", "vassign"}}

Undisturbed == SettingsPhase = "ready" \/ ~landed.checked

CorrectedConfig(ktc) == Corrected(ktc, DevSize)

\* Valid as it stands, with a window that fits the device and the block size
\* that is implemented.
RunnableConfig(ktc) ==
  /\ kio_config_is_valid(ktc, DevSize)
  /\ ktc.offset_high + ktc.block_size <= DevSize
  /\ ktc.block_size = PAGE_SIZE

Settings == INSTANCE KioSettings WITH
  Correction <- CorrectedConfig,
  Runnable <- RunnableConfig,
  phase <- SettingsPhase,
  admitted <- Late,
  clean <- Undisturbed

\* However the writes to the sysfs files interleave, they do what KioSettings
\* allows: the number of threads is set once, a store that was admitted lands in
\* an array that is there, no run begins before the one before it is over, and
\* without a store in between the check changes nothing but an offset_high that
\* is too large, refuses only what cannot be run, and the run has the threads as
\* they were checked.
ImplementsSettings == Settings!Spec
=============================================================================
