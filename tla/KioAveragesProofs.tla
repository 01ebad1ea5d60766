------------------------- MODULE KioAveragesProofs -------------------------
(***************************************************************************)
(* The lines that the runs of KioSession print show what they should: the  *)
(* theorems of KioStatsProofs apply to what their threads measured.        *)
(***************************************************************************)
EXTENDS KioSessionProofs, KioStatsProofs, FiniteSetTheorems

\* The line of each thread of a run shows its averages, and the summary's numbers
\* lie between theirs, whatever the threads measured, as long as it fits.
THEOREM ReportsShowAverages == SessionSpec => []ReportShowsAverages
<1>1. CountedInv => ReportShowsAverages
  <2> SUFFICES ASSUME CountedInv, NEW u \in Users, py[u].own # 0
               PROVE  <<py[u].measured, Cardinality(DOMAIN py[u].ran)>> \in ShownRight
    BY Zenon DEF ReportShowsAverages
  <2>1. PICK n \in 1 .. Cpus : DOMAIN py[u].ran = 0 .. n - 1
    BY Zenon DEF CountedInv, Counted, HasThreads
  <2> DEFINE m == py[u].measured
  <2>2. m \in Measured /\ m \in [Tids -> Counters]
    BY Zenon, KioSessionAssumption DEF CountedInv, Counted
  <2> HIDE DEF m
  <2>3. n \in Nat \ {0} /\ 0 .. n - 1 \subseteq Tids
    BY KioModuleAssumption DEF Tids
  <2>4. DOMAIN m = Tids /\ \A t \in 0 .. n - 1 : m[t] \in Counters
    BY Zenon, <2>2, <2>3
  <2>5. Cardinality(0 .. n - 1) = n
    BY <2>3, FS_Interval
  <2>6. ShowsAverages(m, n)
    BY Zenon, <2>3, <2>4, LinesShowAverages
  <2>7. <<m, n>> \in ShownRight
    BY <2>2, <2>6 DEF ShownRight
  <2> QED BY Zenon, <2>1, <2>5, <2>7 DEF m
<1> QED BY <1>1, CountedInvariant, PTL
=============================================================================
