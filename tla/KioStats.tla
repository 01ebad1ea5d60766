------------------------------ MODULE KioStats ------------------------------
(***************************************************************************)
(* The numbers kio_run() reports: kio_run_stats_thread(), its sums and     *)
(* kio_run_stats_total() of driver/kio_run.c at the widths of their        *)
(* variables, and what parse_results() of kio.py makes of the printed      *)
(* lines.  The sizes of the words and of a second are constants, so that   *)
(* TLC can count with small ones.                                          *)
(***************************************************************************)
EXTENDS KioWords

CONSTANTS
  U64,           \* how many values a u64 has
  NSEC_PER_SEC

ASSUME KioStatsAssumption ==
  /\ U64 \in Nat \ {0} /\ U32 <= U64
  /\ NSEC_PER_SEC \in Nat \ {0}

\* What the statistics read of a thread.
Counters == [completed : Nat, slat_total : Nat, clat_total : Nat,
             block_size : Nat, runtime : Nat]

\* Every quotient of the code is guarded by a test of its divisor.
Quotient(a, b) == IF b = 0 THEN 0 ELSE a \div b

\* A number as printed and parsed, in thousandths: "%llu.%03llu".
Decimal(whole, thousandths) == 1000 * whole + thousandths

\* The fields of a line.  Latencies are nanoseconds printed as microseconds,
\* bps is bytes per second printed as megabytes.
Line(cnt, slat, clat, iops, bps) ==
  LET lat == (slat + clat) % U64 IN
  [completed |-> cnt,
   lat  |-> Decimal(lat \div 1000, lat % 1000),
   slat |-> Decimal(slat \div 1000, slat % 1000),
   clat |-> Decimal(clat \div 1000, clat % 1000),
   iops |-> iops,
   bw   |-> Decimal(bps \div 1000000, (bps \div 1000) % 1000)]

\* Mutant: the product is computed in 32 bits.
ThreadBps_noCast(m) ==
  Quotient((m.completed * m.block_size) % U32 * NSEC_PER_SEC, m.runtime)

ThreadBps(m) ==
  Quotient((m.completed * m.block_size * NSEC_PER_SEC) % U64, m.runtime)

ThreadLine(m) ==
  Line(m.completed,
       Quotient(m.slat_total, m.completed),
       Quotient(m.clat_total, m.completed),
       Quotient((m.completed * NSEC_PER_SEC) % U64, m.runtime) % U32,
       ThreadBps(m))

\* struct kio_run_stats; dispatched is not printed.
ZeroStats == [num_threads |-> 0, completed |-> 0, slat_total |-> 0,
              clat_total |-> 0, bps_total |-> 0, runtime_total |-> 0]

AddThread(st, m) ==
  [num_threads   |-> (st.num_threads + 1) % U32,
   completed     |-> (st.completed + m.completed) % U64,
   slat_total    |-> (st.slat_total + m.slat_total) % U64,
   clat_total    |-> (st.clat_total + m.clat_total) % U64,
   bps_total     |-> (st.bps_total + ThreadBps(m)) % U64,
   runtime_total |-> (st.runtime_total + m.runtime) % U64]

\* What the summary of a run of n threads is computed from.
Totals(m, n) ==
  LET total[k \in 0 .. n] ==
        IF k = 0 THEN ZeroStats ELSE AddThread(total[k - 1], m[k - 1])
  IN  total[n]

SummaryLine(st) ==
  LET cnt == st.completed % U32
      timed == st.runtime_total > 0 /\ st.num_threads > 0
  IN Line(cnt,
          Quotient(st.slat_total, cnt),
          Quotient(st.clat_total, cnt),
          IF timed
            THEN Quotient((cnt * NSEC_PER_SEC) % U64,
                          (st.runtime_total * st.num_threads) % U64) % U32
            ELSE 0,
          IF timed THEN Quotient(st.bps_total, st.num_threads) ELSE 0)

(***************************************************************************)
(* What the numbers should be.                                             *)
(***************************************************************************)
\* x is total / n, rounded down.
IsAverage(x, total, n) == x * n <= total /\ total < (x + 1) * n

\* The bytes and the I/Os per second of a thread are within the words.
Fits(m) ==
  /\ m.completed * m.block_size * NSEC_PER_SEC < U64
  /\ m.completed * NSEC_PER_SEC < U64
  /\ m.completed * NSEC_PER_SEC < U32 * m.runtime
  /\ m.slat_total + m.clat_total < U64

\* A thread's line shows what README.md:123 promises: its average latencies, its
\* I/Os per second, and its bytes per second to the kilobyte.
LineIsAverage(l, m) ==
  /\ l.completed = m.completed
  /\ m.completed > 0 =>
       /\ IsAverage(l.slat, m.slat_total, m.completed)
       /\ IsAverage(l.clat, m.clat_total, m.completed)
       /\ l.lat = l.slat + l.clat
  /\ m.runtime > 0 =>
       /\ IsAverage(l.iops, m.completed * NSEC_PER_SEC, m.runtime)
       /\ IsAverage(l.bw, m.completed * m.block_size * NSEC_PER_SEC,
                    1000 * m.runtime)

\* x[0] + ... + x[n - 1].
SumOf(x, n) ==
  LET sum[k \in 0 .. n] == IF k = 0 THEN 0 ELSE sum[k - 1] + x[k - 1]
  IN  sum[n]

\* What the n threads measured adds up within the words, and a thread none of whose
\* I/Os is counted has no latencies (an I/O may be timed and not counted:
\* LatencyIsAverage of KioRun).
FitTogether(m, n) ==
  /\ n < U32
  /\ SumOf([t \in DOMAIN m |-> m[t].completed], n) < U32
  /\ SumOf([t \in DOMAIN m |-> m[t].slat_total], n) < U64
  /\ SumOf([t \in DOMAIN m |-> m[t].clat_total], n) < U64
  /\ SumOf([t \in DOMAIN m |-> ThreadBps(m[t])], n) < U64
  /\ SumOf([t \in DOMAIN m |-> m[t].runtime], n) < U64
  /\ \A t \in 0 .. n - 1 :
       m[t].completed = 0 => m[t].slat_total = 0 /\ m[t].clat_total = 0

Between(x, S) == (\E a \in S : a <= x) /\ (\E b \in S : x <= b)

\* The summary's bandwidth and latencies lie between those of the n threads.
SummaryIsBetween(m, n) ==
  LET l == [t \in 0 .. n - 1 |-> ThreadLine(m[t])]
      sum == SummaryLine(Totals(m, n))
  IN /\ Between(sum.bw, {l[t].bw : t \in 0 .. n - 1})
     /\ Between(sum.slat, {l[t].slat : t \in 0 .. n - 1})
     /\ Between(sum.clat, {l[t].clat : t \in 0 .. n - 1})

\* The products behind the summary's I/Os per second are within their words.
FitSummary(m, n) ==
  /\ SumOf([t \in DOMAIN m |-> m[t].completed], n) * NSEC_PER_SEC < U64
  /\ SumOf([t \in DOMAIN m |-> m[t].runtime], n) * n < U64

\* The summary's I/Os per second are the n-th part of a number that lies between
\* those of the n threads: the sum of their runtimes, which already is n times
\* that of the run, is multiplied by their number once more.
SummaryIopsDivided(m, n) ==
  LET mean == Quotient(
        SumOf([t \in DOMAIN m |-> m[t].completed], n) * NSEC_PER_SEC,
        SumOf([t \in DOMAIN m |-> m[t].runtime], n))
  IN /\ Between(mean, {ThreadLine(m[t]).iops : t \in 0 .. n - 1})
     /\ SummaryLine(Totals(m, n)).iops = mean \div n

\* What the lines of a run of n threads show of what these measured.
ShowsAverages(m, n) ==
  (\A t \in 0 .. n - 1 : Fits(m[t])) =>
    /\ \A t \in 0 .. n - 1 : LineIsAverage(ThreadLine(m[t]), m[t])
    /\ FitTogether(m, n) => SummaryIsBetween(m, n)
    /\ FitTogether(m, n) /\ FitSummary(m, n) => SummaryIopsDivided(m, n)
=============================================================================
