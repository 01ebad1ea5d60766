-------------------------- MODULE KioReportProofs ---------------------------
(***************************************************************************)
(* What the calls of kio.py read from the kernel log: a call that is alone *)
(* shows the results of its own run, for any size of the log and any lines *)
(* of others, and fails only for a reason.                                 *)
(***************************************************************************)
EXTENDS KioSessionProofs

(***************************************************************************)
(* What a call that is alone reads.                                        *)
(***************************************************************************)
\* The lines ever printed are counted; the log holds the last of them.
Kept == printed - Len(log) + 1 .. printed
LineAt(i) == log[i - (printed - Len(log))]

LogLine == [stamp : Nat, run : Nat, kind : {"other", "thread", "summary"},
            tid : Nat]

LogInv ==
  /\ printed \in Nat /\ log \in Seq(LogLine)
  /\ Len(log) <= LogSize /\ Len(log) <= printed
  /\ printed > 0 => Len(log) > 0
  /\ \A i \in Kept : /\ LineAt(i).stamp \in {0, i}
                     /\ LineAt(i).kind = "thread" => LineAt(i).run # 0
  /\ \A u \in Users : py[u].start \in 0 .. printed /\ py[u].own \in 0 .. printed

\* The lines since the run of a call began to print its results.
First(f) == f.own - f.n

ResultLine(f, i) ==
  CASE i < f.own -> LineOf(i, f.own, "thread", i - First(f))
    [] i = f.own -> LineOf(i, f.own, "summary", 0)

\* A call that is alone finds its mark, unless the log dropped it; after the mark
\* there are no results but its own; and they are the last in the log.
Reads(u) ==
  LET f == py[u] IN
  /\ f.marked /\ f.start \in Kept => LineAt(f.start).stamp = f.start
  /\ ~f.marked => f.start = 0
  /\ f.own # 0 => First(f) > f.start
  /\ \A i \in Kept :
       /\ f.marked /\ i > f.start /\ (f.own = 0 \/ i < First(f)) =>
            LineAt(i).kind = "other"
       /\ f.own # 0 /\ i \in First(f) .. f.own => LineAt(i) = ResultLine(f, i)
       /\ f.own # 0 /\ i > f.own => LineAt(i).kind = "other"

ReadsInv ==
  \A u \in Users : Lone(u) /\ py[u].pc \in {"run_workload", "wait", "read"} =>
                     Reads(u)

\* Two sequences put together, without the first elements.
LEMMA TailOfConcat ==
  ASSUME NEW S, NEW s \in Seq(S), NEW t \in Seq(S), NEW m \in Nat,
         m >= 1, m <= Len(s) + Len(t) + 1
  PROVE  LET r == SubSeq(s \o t, m, Len(s \o t)) IN
         /\ r \in Seq(S) /\ Len(r) = Len(s) + Len(t) - m + 1
         /\ \A k \in 1 .. Len(s) + Len(t) - m + 1 :
              r[k] = IF m + k - 1 <= Len(s) THEN s[m + k - 1]
                     ELSE t[(m + k - 1) - Len(s)]
<1> DEFINE a == s \o t
<1>1. /\ a \in Seq(S) /\ Len(a) = Len(s) + Len(t)
      /\ Len(s) \in Nat /\ Len(t) \in Nat
      /\ \A i \in 1 .. Len(s) + Len(t) :
           a[i] = IF i <= Len(s) THEN s[i] ELSE t[i - Len(s)]
  OBVIOUS
<1> HIDE DEF a
<1>2. ASSUME NEW b \in Seq(S), m <= Len(b) + 1
      PROVE  /\ SubSeq(b, m, Len(b)) \in Seq(S)
             /\ Len(SubSeq(b, m, Len(b))) = Len(b) - m + 1
             /\ \A k \in 1 .. Len(b) - m + 1 :
                  SubSeq(b, m, Len(b))[k] = b[m + k - 1]
  BY <1>2
<1>3. /\ SubSeq(a, m, Len(a)) \in Seq(S)
      /\ Len(SubSeq(a, m, Len(a))) = Len(s) + Len(t) - m + 1
      /\ \A k \in 1 .. Len(s) + Len(t) - m + 1 :
           SubSeq(a, m, Len(a))[k] = a[m + k - 1]
  BY <1>1, <1>2
<1>4. \A k \in 1 .. Len(s) + Len(t) - m + 1 :
        m + k - 1 \in 1 .. Len(s) + Len(t)
  BY <1>1
<1> QED BY Zenon, <1>1, <1>3, <1>4 DEF a

\* Printing keeps the last lines, and their numbers.
LEMMA PrintsEffect ==
  ASSUME LogInv, NEW lines \in Seq(LogLine), Prints(lines)
  PROVE  /\ printed' \in Nat /\ printed' = printed + Len(lines)
         /\ Len(lines) \in Nat
         /\ log' \in Seq(LogLine)
         /\ Len(log') <= LogSize /\ Len(log') <= printed'
         /\ printed' > 0 => Len(log') > 0
         /\ \A i \in Kept' :
              \/ /\ i <= printed /\ i \in Kept
                 /\ LineAt(i)' = LineAt(i)
              \/ /\ i > printed /\ i - printed \in 1 .. Len(lines)
                 /\ LineAt(i)' = lines[i - printed]
<1> DEFINE all == log \o lines
           m == IF Len(all) > LogSize THEN Len(all) - LogSize + 1 ELSE 1
<1>1. /\ printed \in Nat /\ log \in Seq(LogLine) /\ Len(log) <= printed
      /\ Len(log) <= LogSize /\ printed > 0 => Len(log) > 0
      /\ printed' = printed + Len(lines)
  BY Zenon DEF LogInv, Prints
<1>2. /\ LogSize \in Nat \ {0} /\ Len(log) \in Nat /\ Len(lines) \in Nat
      /\ Len(all) = Len(log) + Len(lines)
  BY <1>1, KioSessionAssumption
<1> HIDE DEF all
<1>3. /\ m \in Nat /\ m >= 1 /\ m <= Len(log) + Len(lines) + 1
      /\ Len(log) + Len(lines) - m + 1 <= LogSize
      /\ Len(log) + Len(lines) > 0 => Len(log) + Len(lines) - m + 1 > 0
  <2>1. LogSize \in Nat /\ LogSize > 0 /\ Len(all) \in Nat
    BY <1>2
  <2>2. CASE Len(all) > LogSize
    <3>1. m = Len(all) - LogSize + 1
      BY Zenon, <2>2
    <3> HIDE DEF m
    <3> QED BY <1>2, <2>1, <2>2, <3>1
  <2>3. CASE ~(Len(all) > LogSize)
    <3>1. m = 1
      BY Zenon, <2>3
    <3> HIDE DEF m
    <3> QED BY <1>2, <2>1, <2>3, <3>1
  <2> QED BY Zenon, <2>2, <2>3
<1>4. log' = SubSeq(all, m, Len(all))
  BY Zenon DEF Prints, Logged, all
<1> HIDE DEF m
<1>5. /\ log' \in Seq(LogLine)
      /\ Len(log') = Len(log) + Len(lines) - m + 1
      /\ \A k \in 1 .. Len(log) + Len(lines) - m + 1 :
           log'[k] = IF m + k - 1 <= Len(log) THEN log[m + k - 1]
                     ELSE lines[m + k - 1 - Len(log)]
  BY <1>1, <1>3, <1>4, TailOfConcat DEF all
<1>6. ASSUME NEW i \in Kept'
      PROVE  \/ i <= printed /\ i \in Kept /\ LineAt(i)' = LineAt(i)
             \/ /\ i > printed /\ i - printed \in 1 .. Len(lines)
                /\ LineAt(i)' = lines[i - printed]
  <2> DEFINE k == i - (printed' - Len(log'))
  <2>1. /\ i \in Int /\ k \in 1 .. Len(log) + Len(lines) - m + 1
        /\ m + k - 1 = i - (printed - Len(log))
        /\ i <= printed + Len(lines) /\ i >= printed - Len(log) + m
    BY <1>1, <1>2, <1>3, <1>5 DEF Kept
  <2>2. LineAt(i)' = log'[k]
    BY Zenon DEF LineAt
  <2> HIDE DEF k
  <2>3. CASE i <= printed
    <3>1. m + k - 1 <= Len(log) /\ i \in printed - Len(log) + 1 .. printed
      <4>1. /\ printed \in Int /\ Len(log) \in Int /\ m \in Int /\ k \in Int /\ i \in Int
            /\ m >= 1 /\ m + k - 1 = i - (printed - Len(log))
            /\ i >= printed - Len(log) + m
        BY <1>1, <1>2, <1>3, <2>1
      <4> QED BY <2>3, <4>1
    <3> QED BY Zenon, <1>5, <2>1, <2>2, <2>3, <3>1 DEF LineAt, Kept
  <2>4. CASE ~(i <= printed)
    <3>1. /\ ~(m + k - 1 <= Len(log)) /\ i > printed
          /\ i - printed \in 1 .. Len(lines)
          /\ m + k - 1 - Len(log) = i - printed
      BY <1>1, <1>2, <1>3, <2>1, <2>4
    <3> QED BY Zenon, <1>5, <2>1, <2>2, <3>1
  <2> QED BY Zenon, <2>3, <2>4
<1>7. /\ printed' \in Nat /\ Len(log') <= LogSize /\ Len(log') <= printed'
      /\ printed' > 0 => Len(log') > 0
  BY <1>1, <1>2, <1>3, <1>5
<1> QED BY Zenon, <1>1, <1>2, <1>5, <1>6, <1>7

\* A line of somebody else, and what a run prints at its end.
LEMMA OtherLineEffect ==
  ASSUME NEW stamp \in Nat
  PROVE  /\ OtherLine(stamp) \in LogLine /\ OtherLine(stamp).stamp = stamp
         /\ OtherLine(stamp).kind = "other"
  BY Zenon DEF OtherLine, LineOf, LogLine

\* One line of somebody else.
LEMMA OneLineEffect ==
  ASSUME printed \in Nat
  PROVE  LET lines == <<OtherLine(printed + 1)>> IN
         /\ lines \in Seq(LogLine) /\ Len(lines) = 1
         /\ \A k \in 1 .. Len(lines) : /\ lines[k].stamp = printed + k
                                       /\ lines[k].kind = "other"
<1>1. printed + 1 \in Nat
  OBVIOUS
<1>2. /\ OtherLine(printed + 1) \in LogLine
      /\ OtherLine(printed + 1).stamp = printed + 1
      /\ OtherLine(printed + 1).kind = "other"
  BY Zenon, <1>1, OtherLineEffect
<1> QED BY <1>2

\* The lines of a run of n threads: one for each, and the summary.
LEMMA StatsLinesEffect ==
  ASSUME printed \in Nat, NEW n \in Nat
  PROVE  LET lines == StatsLines(n) run == printed + n + 1 IN
         /\ lines \in Seq(LogLine) /\ Len(lines) = n + 1
         /\ \A k \in 1 .. n : lines[k] = LineOf(printed + k, run, "thread", k - 1)
         /\ lines[n + 1] = LineOf(run, run, "summary", 0)
<1> DEFINE run == printed + n + 1
           ths == [k \in 1 .. n |-> LineOf(printed + k, run, "thread", k - 1)]
           last == LineOf(run, run, "summary", 0)
<1>1. \A k \in 1 .. n : LineOf(printed + k, run, "thread", k - 1) \in LogLine
  BY DEF LineOf, LogLine
<1>2. last \in LogLine
  BY DEF LineOf, LogLine
<1>3. ASSUME NEW f \in [1 .. n -> LogLine] PROVE f \in Seq(LogLine) /\ Len(f) = n
  BY <1>3
<1>4. StatsLines(n) = ths \o <<last>>
  BY Zenon DEF StatsLines
<1>5. \A k \in 1 .. n : ths[k] = LineOf(printed + k, run, "thread", k - 1)
  BY Zenon
<1>6. ths \in [1 .. n -> LogLine]
  BY Zenon, <1>1
<1> HIDE DEF ths, last
<1>7. ths \in Seq(LogLine) /\ Len(ths) = n
  BY Zenon, <1>3, <1>6
<1>8. /\ StatsLines(n) \in Seq(LogLine) /\ Len(StatsLines(n)) = n + 1
      /\ \A k \in 1 .. n : StatsLines(n)[k] = ths[k]
      /\ StatsLines(n)[n + 1] = last
  BY <1>2, <1>4, <1>7
<1> QED BY Zenon, <1>5, <1>8 DEF last

\* The log stays, or grows by well-formed lines.
LEMMA LogSame ==
  ASSUME LogInv, UNCHANGED <<log, printed>>,
         \A v \in Users : py'[v].start \in 0 .. printed /\ py'[v].own \in 0 .. printed
  PROVE  LogInv'
  BY Zenon DEF LogInv, Kept, LineAt

\* The log grows by well-formed lines.
LEMMA LogGrows ==
  ASSUME LogInv, NEW lines \in Seq(LogLine), Prints(lines),
         \A k \in 1 .. Len(lines) : /\ lines[k].stamp \in {0, printed + k}
                                    /\ lines[k].kind = "thread" => lines[k].run # 0,
         \A v \in Users : /\ py'[v].start = py[v].start
                          /\ py'[v].own = py[v].own \/ py'[v].own = printed'
  PROVE  LogInv'
<1>1. /\ printed \in Nat /\ printed' \in Nat /\ printed' = printed + Len(lines)
      /\ log' \in Seq(LogLine) /\ Len(lines) \in Nat
      /\ Len(log') <= LogSize /\ Len(log') <= printed'
      /\ printed' > 0 => Len(log') > 0
      /\ \A i \in Kept' :
           \/ i <= printed /\ i \in Kept /\ LineAt(i)' = LineAt(i)
           \/ /\ i > printed /\ i - printed \in 1 .. Len(lines)
              /\ LineAt(i)' = lines[i - printed]
  BY Zenon, PrintsEffect DEF LogInv
<1>2. ASSUME NEW i \in Kept'
      PROVE  /\ LineAt(i)'.stamp \in {0, i}
             /\ LineAt(i)'.kind = "thread" => LineAt(i)'.run # 0
  <2>1. CASE i \in Kept /\ LineAt(i)' = LineAt(i)
    BY Zenon, <2>1 DEF LogInv
  <2>2. CASE i - printed \in 1 .. Len(lines) /\ LineAt(i)' = lines[i - printed]
    <3>1. printed + (i - printed) = i
      BY <1>1 DEF Kept
    <3> QED BY Zenon, <2>2, <3>1
  <2> QED BY Zenon, <1>1, <2>1, <2>2
<1>3. ASSUME NEW v \in Users
      PROVE  py'[v].start \in 0 .. printed' /\ py'[v].own \in 0 .. printed'
  <2>1. py[v].start \in 0 .. printed /\ py[v].own \in 0 .. printed
    BY Zenon DEF LogInv
  <2>2. \A x \in 0 .. printed : x \in 0 .. printed'
    BY <1>1
  <2>3. printed' \in 0 .. printed'
    BY <1>1
  <2> QED BY Zenon, <2>1, <2>2, <2>3
<1> QED BY Zenon, <1>1, <1>2, <1>3 DEF LogInv

\* The last line of the log has the number of the lines printed.
LEMMA LastLine ==
  ASSUME LogInv, log # <<>>
  PROVE  /\ printed \in Kept /\ LineAt(printed) = log[Len(log)]
         /\ log[Len(log)].stamp \in {0, printed}
<1>1. /\ printed \in Nat /\ log \in Seq(LogLine) /\ Len(log) <= printed
  BY Zenon DEF LogInv
<1>2. Len(log) \in Nat /\ Len(log) > 0
  BY <1>1
<1>3. printed \in Kept /\ printed - (printed - Len(log)) = Len(log)
  BY <1>1, <1>2 DEF Kept
<1> QED BY Zenon, <1>3 DEF LogInv, LineAt

\* The places between the mark and the results, and what a call reads them with.
Reading == {"run_workload", "wait", "read"}

SameMark(u) ==
  /\ py'[u].n = py[u].n /\ py'[u].start = py[u].start
  /\ py'[u].marked = py[u].marked /\ py'[u].own = py[u].own

\* A step of the script prints nothing and keeps its mark, or takes the mark, or
\* starts its run, or ends it.
LEMMA ScriptPrints ==
  ASSUME ModInv, CallsInv, PlacesInv, NEW u \in Users, ScriptStep(u)
  PROVE  \/ /\ UNCHANGED <<log, printed>> /\ SameMark(u)
            /\ py'[u].pc \in Reading => py[u].pc \in Reading
         \/ LastTimestamp(u)
         \/ At(u, "run_workload") /\ RunStarted(u)
         \/ RunReturns(u)
<1>1. TypeOK /\ py[u].n \in Nat
  BY Zenon DEF ModInv, PlacesInv, FrameOK
<1> DEFINE Goal == /\ UNCHANGED <<log, printed>> /\ SameMark(u)
                   /\ py'[u].pc \in Reading => py[u].pc \in Reading
<1>2. ASSUME OwnFrame(u), SameRun(u), Quiet,
             py'[u].pc \in Reading => py[u].pc \in Reading
      PROVE  Goal
  BY Zenon, <1>2 DEF OwnFrame, SameRun, SameMark, Quiet
<1>3. ASSUME NEW e, NEW f, Open(u, e, f) PROVE Goal
  <2>1. /\ OwnFrame(u) /\ SameRun(u) /\ Quiet
        /\ py'[u].pc = "failed" \/ py' = py
    BY Zenon, <1>1, <1>3, OpenEffect DEF SameData
  <2> QED BY Zenon, <1>2, <2>1 DEF Reading
<1>4. CASE ReadCur(u) \/ Unload(u) \/ Load(u)
  BY Zenon, <1>1, <1>2, <1>4, ReadCurEffect, UnloadEffect, LoadEffect
     DEF SameData, Reading
<1>5. CASE WriteNumThreads(u)
  BY Zenon, <1>1, <1>2, <1>3, <1>5, WriteNumThreadsEffect
     DEF NumStored, SameData, Reading
<1>6. CASE WriteRuntimeSeconds(u)
  <2>1. CASE RuntimeStored(u)
    <3>1. py'[u].pc = "failed" \/ py'[u].pc = "var"
      BY Zenon, <2>1 DEF RuntimeStored
    <3> QED BY Zenon, <1>2, <2>1, <3>1 DEF RuntimeStored, SameData, Reading
  <2> QED BY Zenon, <1>1, <1>3, <1>6, <2>1, WriteRuntimeSecondsEffect
<1>7. CASE WriteThreadVar(u)
  <2>1. ASSUME NEW error, NextVar(u, error), Quiet PROVE Goal
    <3>1. py'[u].pc = "failed" \/ py'[u].pc = "var"
      BY Zenon, <2>1 DEF NextVar
    <3> QED BY Zenon, <1>2, <2>1, <3>1 DEF NextVar, Reading
  <2> QED BY Zenon, <1>1, <1>3, <1>7, <2>1, WriteThreadVarEffect DEF VarStored
<1>8. CASE GetConfig(u)
  BY Zenon, <1>2, <1>8, GetConfigEffect DEF Reading
<1>9. CASE WriteRunWorkload(u)
  BY Zenon, <1>1, <1>2, <1>3, <1>9, WriteRunWorkloadEffect
     DEF RunRefused, SameData, Reading
<1>10. CASE ParseResults(u)
  <2>1. /\ At(u, "read") /\ OwnFrame(u) /\ Quiet /\ SameMark(u)
    BY Zenon, <1>10, ParseResultsEffect DEF SameMark, OwnFrame
  <2> QED BY Zenon, <2>1 DEF Reading, At, Quiet
<1>11. CASE Dies(u)
  BY Zenon, <1>1, <1>2, <1>11, DiesEffect DEF SameData, Reading
<1> HIDE DEF Goal
<1> QED BY Zenon, <1>4, <1>5, <1>6, <1>7, <1>8, <1>9, <1>10, <1>11
        DEF ScriptStep, Goal

\* Noise is of other lines only.
LEMMA NoiseEffect ==
  ASSUME printed \in Nat, Noise
  PROVE  /\ UNCHANGED <<py, modVars>>
         /\ \E lines \in Seq(LogLine) :
              /\ Prints(lines)
              /\ \A k \in 1 .. Len(lines) : /\ lines[k].stamp \in {0, printed + k}
                                            /\ lines[k].kind = "other"
<1>1. PICK n \in NoiseLines :
        Prints([k \in 1 .. n |-> OtherLine(IF k = 1 THEN printed + 1 ELSE 0)])
  BY Zenon DEF Noise
<1> DEFINE stamp(k) == IF k = 1 THEN printed + 1 ELSE 0
           lines == [k \in 1 .. n |-> OtherLine(stamp(k))]
<1>2. n \in Nat
  BY Zenon, KioSessionAssumption
<1>3. \A k \in 1 .. n : stamp(k) \in Nat /\ stamp(k) \in {0, printed + k}
  BY <1>2
<1> HIDE DEF stamp
<1>4. \A k \in 1 .. n : /\ OtherLine(stamp(k)) \in LogLine
                        /\ OtherLine(stamp(k)).stamp = stamp(k)
                        /\ OtherLine(stamp(k)).kind = "other"
  BY Zenon, <1>3, OtherLineEffect
<1>5. ASSUME NEW f \in [1 .. n -> LogLine] PROVE f \in Seq(LogLine) /\ Len(f) = n
  BY <1>2, <1>5
<1>6. /\ lines \in [1 .. n -> LogLine]
      /\ \A k \in 1 .. n : lines[k] = OtherLine(stamp(k))
  BY Zenon, <1>4
<1>7. Prints(lines)
  BY Zenon, <1>1 DEF stamp
<1> HIDE DEF lines
<1>8. lines \in Seq(LogLine) /\ Len(lines) = n
  BY Zenon, <1>5, <1>6
<1>9. \A k \in 1 .. Len(lines) : /\ lines[k].stamp \in {0, printed + k}
                                 /\ lines[k].kind = "other"
  BY Zenon, <1>3, <1>4, <1>6, <1>8
<1> QED BY Zenon, <1>7, <1>8, <1>9 DEF Noise

\* What a run prints at its end is well formed.
LEMMA StatsAreLines ==
  ASSUME printed \in Nat, NEW n \in Nat
  PROVE  LET lines == StatsLines(n) IN
         \A k \in 1 .. Len(lines) : /\ lines[k].stamp \in {0, printed + k}
                                    /\ lines[k].kind = "thread" => lines[k].run # 0
<1> DEFINE lines == StatsLines(n)
           run == printed + n + 1
<1>1. /\ Len(lines) = n + 1
      /\ \A k \in 1 .. n : lines[k] = LineOf(printed + k, run, "thread", k - 1)
      /\ lines[n + 1] = LineOf(run, run, "summary", 0)
  BY Zenon, StatsLinesEffect
<1> HIDE DEF lines
<1>2. ASSUME NEW k \in 1 .. n
      PROVE  lines[k].stamp = printed + k /\ lines[k].run = run
  <2>1. lines[k] = LineOf(printed + k, run, "thread", k - 1)
    BY Zenon, <1>1
  <2> QED BY <2>1 DEF LineOf
<1>3. lines[n + 1].stamp = printed + (n + 1) /\ lines[n + 1].kind = "summary"
  BY <1>1 DEF LineOf
<1>4. run # 0 /\ \A k \in 1 .. n + 1 : k \in 1 .. n \/ k = n + 1
  OBVIOUS
<1>5. "summary" # "thread"
  OBVIOUS
<1> QED BY Zenon, <1>1, <1>2, <1>3, <1>4, <1>5 DEF lines

\* Every step keeps the log well formed.
LEMMA LogStep ==
  ASSUME ModInv, CallsInv, PlacesInv, LogInv, SessionNext
  PROVE  LogInv'
<1>1. /\ TypeOK /\ printed \in Nat /\ log \in Seq(LogLine)
      /\ \A v \in Users : py[v].start \in 0 .. printed /\ py[v].own \in 0 .. printed
      /\ 0 \in 0 .. printed /\ printed \in 0 .. printed
  BY DEF ModInv, LogInv
<1>2. ASSUME NEW u \in Users, NEW call \in Calls, Begin(u, call)
      PROVE  LogInv'
  <2>1. /\ UNCHANGED <<log, printed>> /\ py'[u].own = 0 /\ py'[u].start = 0
        /\ \A w \in Users : w # u => SameData(w)
    <3>1. UNCHANGED <<log, printed>> /\ py'[u].own = 0 /\ py'[u].start = 0
      BY Zenon, <1>2, BeginEffect
    <3>2. ASSUME NEW w \in Users, w # u PROVE SameData(w)
      BY Zenon, <1>2, <3>2, BeginOthers
    <3> QED BY Zenon, <3>1, <3>2
  <2> QED BY Zenon, <1>1, <2>1, LogSame DEF SameData, SameRun
<1>3. ASSUME NEW lines \in Seq(LogLine), Prints(lines),
             \A k \in 1 .. Len(lines) : /\ lines[k].stamp \in {0, printed + k}
                                        /\ lines[k].kind = "other",
             \A v \in Users : /\ py'[v].start = py[v].start
                              /\ py'[v].own = py[v].own
      PROVE  LogInv'
  <2>1. "other" # "thread"
    OBVIOUS
  <2> QED BY Zenon, <1>3, <2>1, LogGrows
<1>4. ASSUME Prints(<<OtherLine(printed + 1)>>),
             \A v \in Users : /\ py'[v].start = py[v].start
                              /\ py'[v].own = py[v].own
      PROVE  LogInv'
  BY Zenon, <1>1, <1>3, <1>4, OneLineEffect
<1>5. ASSUME NEW u \in Users, ScriptStep(u) PROVE LogInv'
  <2>1. \A w \in Users : w # u => py'[w] = py[w]
    BY Zenon, <1>5, ScriptPlace DEF OwnPlace, OwnFrame
  <2>2. CASE UNCHANGED <<log, printed>> /\ SameMark(u)
    BY Zenon, <1>1, <2>1, <2>2, LogSame DEF SameMark
  <2>3. CASE LastTimestamp(u)
    <3>1. /\ UNCHANGED <<log, printed>> /\ py'[u].own = py[u].own
          /\ py'[u].start = IF log = <<>> THEN 0 ELSE log[Len(log)].stamp
      BY Zenon, <2>3, LastTimestampEffect DEF Quiet
    <3>2. py'[u].start \in 0 .. printed
      BY Zenon, <1>1, <3>1, LastLine
    <3> QED BY Zenon, <1>1, <2>1, <3>1, <3>2, LogSame
  <2>4. CASE RunStarted(u)
    BY Zenon, <1>4, <2>1, <2>4 DEF RunStarted
  <2>5. CASE RunReturns(u)
    <3>1. /\ py'[u].start = py[u].start
          /\ \/ Prints(StatsLines(num_threads)) /\ py'[u].own = printed'
             \/ Prints(<<OtherLine(printed + 1)>>) /\ py'[u].own = py[u].own
      BY Zenon, <1>1, <2>5, RunReturnsEffect
    <3>2. num_threads \in Nat
      BY <1>1, KioModuleAssumption DEF TypeOK
    <3>3. CASE Prints(StatsLines(num_threads)) /\ py'[u].own = printed'
      BY Zenon, <1>1, <2>1, <3>1, <3>2, <3>3, StatsLinesEffect, StatsAreLines,
         LogGrows
    <3> QED BY Zenon, <1>4, <2>1, <3>1, <3>3
  <2> QED BY Zenon, <1>5, <2>2, <2>3, <2>4, <2>5, ScriptPrints
<1>6. ASSUME NEW u \in Users, RunStep(u) PROVE LogInv'
  BY Zenon, <1>1, <1>6, RunStepEffect, LogSame DEF Quiet
<1>7. CASE ModuleStep
  BY Zenon, <1>1, <1>7, ModuleStepEffect, LogSame DEF SameData, SameRun, Quiet
<1>8. CASE Noise
  BY Zenon, <1>1, <1>3, <1>8, NoiseEffect
<1> QED BY Zenon, <1>2, <1>5, <1>6, <1>7, <1>8 DEF SessionNext

\* What a call can read of the log does not change with it.
LEMMA ReadsSame ==
  ASSUME NEW u \in Users, Reads(u), SameMark(u), UNCHANGED <<log, printed>>
  PROVE  Reads(u)'
  BY ZenonT(30) DEF Reads, SameMark, Kept, LineAt, First, ResultLine

\* Lines of others go after everything that counts.
LEMMA ReadsOther ==
  ASSUME LogInv, NEW u \in Users, Reads(u), SameMark(u), py[u].n \in Nat,
         NEW lines \in Seq(LogLine), Prints(lines),
         \A k \in 1 .. Len(lines) : lines[k].kind = "other"
  PROVE  Reads(u)'
<1> DEFINE f == py[u]
<1>1. /\ py'[u].n = f.n /\ py'[u].start = f.start /\ py'[u].marked = f.marked
      /\ py'[u].own = f.own
  BY Zenon DEF SameMark
<1>2. /\ printed \in Nat /\ f.start \in 0 .. printed /\ f.own \in 0 .. printed
  BY Zenon DEF LogInv
<1>3. \A i \in Kept' : \/ i <= printed /\ i \in Kept /\ LineAt(i)' = LineAt(i)
                       \/ i > printed /\ LineAt(i)'.kind = "other"
  BY Zenon, PrintsEffect
<1>4. /\ \A i : ResultLine(py'[u], i) = ResultLine(f, i)
      /\ First(py'[u]) = First(f)
  BY Zenon, <1>1 DEF ResultLine, First
<1>5. /\ f.marked /\ f.start \in Kept => LineAt(f.start).stamp = f.start
      /\ ~f.marked => f.start = 0
      /\ f.own # 0 => First(f) > f.start
      /\ \A i \in Kept :
           /\ f.marked /\ i > f.start /\ (f.own = 0 \/ i < First(f)) =>
                LineAt(i).kind = "other"
           /\ f.own # 0 /\ i \in First(f) .. f.own => LineAt(i) = ResultLine(f, i)
           /\ f.own # 0 /\ i > f.own => LineAt(i).kind = "other"
  BY Zenon DEF Reads
<1>6. /\ ~(f.start > printed)
      /\ \A i : i \in First(f) .. f.own => ~(i > printed)
  BY <1>2 DEF First
<1>7. ASSUME NEW s \in Kept', s = f.start, f.marked PROVE LineAt(s)'.stamp = s
  BY Zenon, <1>3, <1>5, <1>6, <1>7
<1>8. ASSUME NEW i \in Kept'
      PROVE  /\ f.marked /\ i > f.start /\ (f.own = 0 \/ i < First(f)) =>
                  LineAt(i)'.kind = "other"
             /\ f.own # 0 /\ i \in First(f) .. f.own => LineAt(i)' = ResultLine(f, i)
             /\ f.own # 0 /\ i > f.own => LineAt(i)'.kind = "other"
  BY Zenon, <1>3, <1>5, <1>6, <1>8
<1>9. (py[u].marked /\ py[u].start \in Kept =>
         LineAt(py[u].start).stamp = py[u].start)'
  BY Zenon, <1>1, <1>7 DEF LineAt
<1> QED BY Zenon, <1>1, <1>4, <1>5, <1>8, <1>9 DEF Reads

\* The mark is the last line, if that line shows its time.
LEMMA ReadsMark ==
  ASSUME CallsInv, PlacesInv, LogInv, NEW u \in Users, LastTimestamp(u)
  PROVE  Reads(u)'
<1>1. /\ At(u, "mark") /\ py'[u].own = py[u].own /\ UNCHANGED <<log, printed>>
      /\ py'[u].start = IF log = <<>> THEN 0 ELSE log[Len(log)].stamp
      /\ py'[u].marked = (log = <<>> \/ log[Len(log)].stamp # 0)
  BY Zenon, LastTimestampEffect DEF Quiet
<1>2. py'[u].own = 0
  BY Zenon, <1>1 DEF PlacesInv, FrameOK, At
<1>3. printed \in Nat /\ log \in Seq(LogLine)
  BY Zenon DEF LogInv
<1>4. CASE log = <<>>
  <2>1. Kept' = {}
    BY <1>1, <1>3, <1>4 DEF Kept
  <2> QED BY Zenon, <1>1, <1>2, <1>4, <2>1 DEF Reads
<1>5. CASE log # <<>>
  <2>1. LineAt(printed).stamp = log[Len(log)].stamp /\ log[Len(log)].stamp \in {0, printed}
    BY Zenon, <1>5, LastLine
  <2>2. \A i \in Kept' : ~(i > printed)
    BY <1>1, <1>3 DEF Kept
  <2>3. CASE log[Len(log)].stamp = 0
    BY Zenon, <1>1, <1>2, <1>5, <2>3 DEF Reads
  <2>4. CASE log[Len(log)].stamp = printed /\ printed # 0
    <3>1. py'[u].start = printed /\ LineAt(printed)'.stamp = printed
      BY Zenon, <1>1, <1>5, <2>1, <2>4 DEF LineAt
    <3>2. LineAt(py[u].start)'.stamp = py'[u].start
      BY Zenon, <1>1, <3>1 DEF LineAt
    <3> QED BY Zenon, <1>1, <1>2, <2>2, <2>4, <3>1, <3>2 DEF Reads
  <2> QED BY Zenon, <2>1, <2>3, <2>4
<1> QED BY Zenon, <1>4, <1>5

\* The results of the run come after the mark, one line after the other.
LEMMA ReadsStats ==
  ASSUME LogInv, NEW u \in Users, Reads(u), py[u].n \in Nat, py[u].own = 0,
         py'[u].n = py[u].n, py'[u].start = py[u].start,
         py'[u].marked = py[u].marked, py'[u].own = printed',
         Prints(StatsLines(py[u].n))
  PROVE  Reads(u)'
<1> DEFINE n == py[u].n
           run == printed + n + 1
           lines == StatsLines(n)
<1>1. /\ printed \in Nat /\ py[u].start \in 0 .. printed
      /\ py[u].marked /\ py[u].start \in Kept => LineAt(py[u].start).stamp = py[u].start
      /\ ~py[u].marked => py[u].start = 0
      /\ \A i \in Kept : py[u].marked /\ i > py[u].start => LineAt(i).kind = "other"
  BY Zenon DEF Reads, LogInv
<1>2. /\ lines \in Seq(LogLine) /\ Len(lines) = n + 1
      /\ \A k \in 1 .. n : lines[k] = LineOf(printed + k, run, "thread", k - 1)
      /\ lines[n + 1] = LineOf(run, run, "summary", 0)
  BY Zenon, <1>1, StatsLinesEffect
<1>3. Prints(lines)
  OBVIOUS
<1> HIDE DEF lines
<1>4. /\ printed' = printed + Len(lines)
      /\ \A i \in Kept' : \/ i <= printed /\ i \in Kept /\ LineAt(i)' = LineAt(i)
                          \/ /\ i > printed /\ i - printed \in 1 .. Len(lines)
                             /\ LineAt(i)' = lines[i - printed]
  BY Zenon, <1>2, <1>3, PrintsEffect
<1>5. /\ printed' = run /\ py'[u].own = run /\ run # 0
      /\ First(py'[u]) = printed + 1 /\ First(py'[u]) > py'[u].start
  <2>1. printed \in Nat /\ py[u].start \in 0 .. printed /\ Len(lines) = n + 1
    BY Zenon, <1>1, <1>2
  <2>2. printed' = run
    <3>1. printed' = printed + (n + 1)
      BY Zenon, <1>4, <2>1
    <3> QED BY <2>1, <3>1
  <2>3. First(py'[u]) = run - n
    BY Zenon, <2>2 DEF First
  <2> QED BY <2>1, <2>2, <2>3
<1>6. ASSUME NEW i \in Kept', i > printed
      PROVE  LineAt(i)' = ResultLine(py'[u], i)
  <2> DEFINE k == i - printed
  <2>1. i \in Int /\ k \in 1 .. n + 1 /\ LineAt(i)' = lines[k]
    <3>1. i \in Int
      BY <1>1, <1>4, <1>2 DEF Kept
    <3>2. ~(i <= printed)
      BY <1>1, <1>6, <3>1
    <3> QED BY Zenon, <1>2, <1>4, <3>1, <3>2
  <2>2. CASE k \in 1 .. n
    <3>1. /\ printed + k = i /\ k - 1 = i - First(py'[u]) /\ i < run
      BY <1>1, <1>5, <2>1, <2>2
    <3>2. LineAt(i)' = LineOf(i, run, "thread", i - First(py'[u]))
      BY Zenon, <1>2, <2>1, <2>2, <3>1
    <3>3. ResultLine(py'[u], i) = LineOf(i, run, "thread", i - First(py'[u]))
      BY <1>1, <1>5, <2>1, <3>1 DEF ResultLine
    <3> QED BY Zenon, <3>2, <3>3
  <2>3. CASE k = n + 1
    <3>1. i = run /\ ~(i < run)
      BY <1>1, <2>1, <2>3
    <3>2. LineAt(i)' = LineOf(i, run, "summary", 0)
      BY Zenon, <1>2, <2>1, <2>3, <3>1
    <3>3. ResultLine(py'[u], i) = LineOf(i, run, "summary", 0)
      BY Zenon, <1>5, <3>1 DEF ResultLine
    <3> QED BY Zenon, <3>2, <3>3
  <2> HIDE DEF k
  <2>4. k \in 1 .. n \/ k = n + 1
    BY <2>1
  <2> QED BY Zenon, <2>2, <2>3, <2>4
<1>7. \A i \in Kept' : /\ i < printed + 1 => ~(i > printed)
                       /\ i \in printed + 1 .. run => i > printed
                       /\ ~(i > run)
  BY <1>1, <1>5 DEF Kept
<1>8. ASSUME NEW i \in Kept'
      PROVE  /\ py[u].marked /\ i > py[u].start /\ i < printed + 1 =>
                  LineAt(i)'.kind = "other"
             /\ i \in printed + 1 .. run => LineAt(i)' = ResultLine(py'[u], i)
  BY Zenon, <1>1, <1>4, <1>6, <1>7, <1>8
<1>9. ASSUME NEW s \in Kept', s = py[u].start, py[u].marked PROVE LineAt(s)'.stamp = s
  <2>1. ~(s > printed)
    BY <1>1, <1>9
  <2> QED BY Zenon, <1>1, <1>4, <1>9, <2>1
<1>10. (py[u].marked /\ py[u].start \in Kept =>
          LineAt(py[u].start).stamp = py[u].start)'
  BY Zenon, <1>9 DEF LineAt
<1> QED BY Zenon, <1>1, <1>5, <1>7, <1>8, <1>10 DEF Reads

\* What a call that is alone reads stays, for nobody else prints results.
LEMMA ReadsStep ==
  ASSUME ModInv, CallsInv, AloneInv, LogInv, ReadsInv, SessionNext
  PROVE  ReadsInv'
<1> SUFFICES ASSUME NEW v \in Users, Lone(v)', py'[v].pc \in Reading
             PROVE  Reads(v)'
  BY Zenon DEF ReadsInv, Reading
<1>1. /\ TypeOK /\ PlacesInv /\ LoneInv /\ printed \in Nat /\ py[v].n \in Nat
      /\ Lone(v) /\ py[v].pc \in Reading => Reads(v)
      /\ Lone(v) => Stage(v)
  BY Zenon DEF ModInv, AloneInv, PlacesInv, StagesInv, FrameOK, LogInv, ReadsInv,
               Reading
<1>2. ASSUME NEW u \in Users, NEW call \in Calls, Begin(u, call)
      PROVE  FALSE
  <2>1. /\ py'[u].pc = "cur"
        /\ v # u => /\ py'[v].pc = py[v].pc
                    /\ py'[v].alone = (py[v].alone /\ ~Active(v))
    <3>1. py'[u].pc = "cur"
      BY Zenon, <1>2, BeginEffect
    <3>2. ASSUME v # u
          PROVE  py'[v].pc = py[v].pc /\ py'[v].alone = (py[v].alone /\ ~Active(v))
      BY Zenon, <1>2, <3>2, BeginOthers
    <3> QED BY Zenon, <3>1, <3>2
  <2> QED BY Zenon, <2>1 DEF Lone, Active, Reading
<1>3. ASSUME Lone(v), py[v].pc \in Reading, SameMark(v),
             Prints(<<OtherLine(printed + 1)>>)
      PROVE  Reads(v)'
  BY Zenon, <1>1, <1>3, OneLineEffect, ReadsOther
<1>4. ASSUME NEW u \in Users, ScriptStep(u) PROVE Reads(v)'
  <2>1. OwnFrame(u) /\ Active(u)
    BY Zenon, <1>1, <1>4, ScriptPlace, ActorIsActive DEF OwnPlace
  <2>2. v = u /\ Lone(v)
    BY Zenon, <1>1, <2>1 DEF LoneInv, Lone, OwnFrame, Active
  <2>3. CASE /\ UNCHANGED <<log, printed>> /\ SameMark(u)
             /\ py'[u].pc \in Reading => py[u].pc \in Reading
    BY Zenon, <1>1, <2>2, <2>3, ReadsSame
  <2>4. CASE LastTimestamp(u)
    BY Zenon, <1>1, <2>2, <2>4, ReadsMark
  <2>5. CASE At(u, "run_workload") /\ RunStarted(u)
    <3>1. SameMark(u) /\ Prints(<<OtherLine(printed + 1)>>)
      BY Zenon, <2>5 DEF RunStarted, OwnFrame, SameMark
    <3> QED BY Zenon, <1>3, <2>2, <2>5, <3>1 DEF Reading, At
  <2>6. CASE RunReturns(u)
    <3>1. /\ At(u, "wait") /\ OwnFrame(u)
          /\ py'[u].start = py[u].start /\ py'[u].marked = py[u].marked
          /\ \/ Prints(StatsLines(num_threads)) /\ py'[u].own = printed'
             \/ Prints(<<OtherLine(printed + 1)>>) /\ py'[u].own = py[u].own
      BY Zenon, <1>1, <2>6, RunReturnsEffect
    <3>2. /\ num_threads = py[u].n /\ py[u].own = 0 /\ Reads(u)
          /\ py'[u].n = py[u].n
      BY Zenon, <1>1, <2>2, <3>1
         DEF Stage, Late, PlacesInv, FrameOK, At, Reading, OwnFrame
    <3>3. CASE Prints(StatsLines(num_threads)) /\ py'[u].own = printed'
      BY Zenon, <1>1, <2>2, <3>1, <3>2, <3>3, ReadsStats
    <3>4. CASE Prints(<<OtherLine(printed + 1)>>) /\ py'[u].own = py[u].own
      BY Zenon, <1>3, <2>2, <3>1, <3>2, <3>4 DEF SameMark, Reading, At
    <3> QED BY Zenon, <3>1, <3>3, <3>4
  <2> QED BY Zenon, <1>1, <1>4, <2>3, <2>4, <2>5, <2>6, ScriptPrints
<1>5. ASSUME UNCHANGED <<log, printed>>, SameData(v), py'[v].n = py[v].n,
             py'[v].alone = py[v].alone, py'[v].pc = py[v].pc
      PROVE  Reads(v)'
  <2>1. SameMark(v) /\ Lone(v)
    BY Zenon, <1>5 DEF SameMark, SameData, SameRun, Lone, Active
  <2> QED BY Zenon, <1>1, <1>5, <2>1, ReadsSame
<1>6. ASSUME NEW u \in Users, RunStep(u) PROVE Reads(v)'
  BY Zenon, <1>1, <1>5, <1>6, RunStepEffect DEF Quiet, SameData, SameRun
<1>7. CASE ModuleStep
  <2>1. /\ UNCHANGED <<log, printed>> /\ SameData(v) /\ py'[v].n = py[v].n
        /\ py'[v].alone = py[v].alone
        /\ ~Reloading(v) => py'[v].pc = py[v].pc
        /\ Reloading(v) => \/ py'[v].pc = py[v].pc
                           \/ py'[v].pc \in {"load", "num_threads", "failed"}
    BY Zenon, <1>7, ModuleStepEffect DEF Quiet
  <2> QED BY Zenon, <1>5, <2>1 DEF Reading
<1>8. CASE Noise
  <2>1. /\ UNCHANGED py /\ SameMark(v) /\ Lone(v) /\ py[v].pc \in Reading
        /\ \E lines \in Seq(LogLine) :
             /\ Prints(lines)
             /\ \A k \in 1 .. Len(lines) : lines[k].kind = "other"
    BY Zenon, <1>1, <1>8, NoiseEffect DEF SameMark, Lone, Active
  <2> QED BY Zenon, <1>1, <2>1, ReadsOther
<1> QED BY Zenon, <1>2, <1>4, <1>6, <1>7, <1>8 DEF SessionNext

\* The lines of the log by their place and by their number.
Dropped == printed - Len(log)

\* Every line of the log has a number, and every number that was kept a line.
LEMMA PlaceOfLine ==
  ASSUME LogInv
  PROVE  /\ Dropped \in Nat /\ DOMAIN log = 1 .. Len(log) /\ Len(log) \in Nat
         /\ printed = Dropped + Len(log)
         /\ \A k \in DOMAIN log : /\ k \in Nat /\ k + Dropped \in Kept
                                  /\ k + Dropped \in Nat
                                  /\ LineAt(k + Dropped) = log[k]
                                  /\ log[k] \in LogLine
         /\ \A i \in Kept : /\ i \in Nat /\ i - Dropped \in DOMAIN log
                            /\ log[i - Dropped] = LineAt(i)
<1>1. /\ printed \in Nat /\ log \in Seq(LogLine) /\ Len(log) <= printed
  BY Zenon DEF LogInv
<1>2. /\ Dropped \in Nat /\ DOMAIN log = 1 .. Len(log) /\ Len(log) \in Nat
      /\ printed = Dropped + Len(log)
  BY <1>1 DEF Dropped
<1>3. ASSUME NEW k \in DOMAIN log
      PROVE  /\ k \in Nat /\ k + Dropped \in Kept /\ k + Dropped \in Nat
             /\ (k + Dropped) - Dropped = k /\ log[k] \in LogLine
  BY <1>1, <1>2, <1>3 DEF Kept, Dropped
<1>4. ASSUME NEW i \in Kept
      PROVE  i \in Nat /\ i - Dropped \in DOMAIN log
  BY <1>1, <1>2, <1>4 DEF Kept, Dropped
<1> QED BY Zenon, <1>2, <1>3, <1>4 DEF LineAt, Dropped

\* The newest of a set of lines is the one no other comes after.
LEMMA NewestIs ==
  ASSUME NEW S \in SUBSET Nat, NEW k \in S, \A j \in S : j <= k
  PROVE  Newest(S) = log[k].run
<1> DEFINE c == CHOOSE x \in S : \A j \in S : j <= x
<1>1. c \in S /\ \A j \in S : j <= c
  BY Zenon
<1> HIDE DEF c
<1>2. c = k
  <2>1. c \in Nat /\ k \in Nat /\ c <= k /\ k <= c
    BY Zenon, <1>1
  <2> QED BY <2>1
<1> QED BY Zenon, <1>2 DEF Newest, c

\* A call reads the lines after its mark; all of them if there is none.
LEMMA LinesAfterMark ==
  ASSUME LogInv, NEW u \in Users, Reads(u)
  PROVE  LET start == py[u].start IN
         /\ \A k \in DOMAIN log : k + Dropped > start => k \in LinesSince(start)
         /\ ~py[u].marked => \A k \in DOMAIN log : k \in LinesSince(start)
         /\ py[u].marked => \A k \in LinesSince(start) : k + Dropped > start
<1> DEFINE start == py[u].start
<1>1. /\ start \in 0 .. printed /\ printed \in Nat
      /\ py[u].marked /\ start \in Kept => LineAt(start).stamp = start
      /\ ~py[u].marked => start = 0
      /\ \A i \in Kept : LineAt(i).stamp \in {0, i}
  BY Zenon DEF Reads, LogInv
<1>2. /\ Dropped \in Nat /\ DOMAIN log = 1 .. Len(log) /\ Len(log) \in Nat
      /\ printed = Dropped + Len(log)
      /\ \A k \in DOMAIN log : /\ k \in Nat /\ k + Dropped \in Kept
                               /\ k + Dropped \in Nat
                               /\ LineAt(k + Dropped) = log[k]
      /\ \A i \in Kept : i - Dropped \in DOMAIN log /\ log[i - Dropped] = LineAt(i)
  BY Zenon, PlaceOfLine
<1> HIDE DEF start
<1>3. \A j \in Matches(start) : j \in DOMAIN log /\ j + Dropped = start /\ start # 0
  BY Zenon, <1>1, <1>2 DEF Matches
<1>4. ASSUME NEW k \in DOMAIN log, k + Dropped > start
      PROVE  k \in LinesSince(start)
  <2>1. ASSUME NEW j \in Matches(start) PROVE j < k
    <3>1. j \in Nat /\ k \in Nat /\ j + Dropped = start /\ Dropped \in Nat
      BY Zenon, <1>2, <1>3, <1>4, <2>1
    <3> QED BY <1>4, <3>1
  <2> QED BY Zenon, <1>4, <2>1 DEF LinesSince
<1>5. ASSUME ~py[u].marked, NEW k \in DOMAIN log PROVE k \in LinesSince(start)
  BY Zenon, <1>1, <1>3, <1>5 DEF LinesSince
<1>6. ASSUME py[u].marked, NEW k \in LinesSince(start) PROVE k + Dropped > start
  <2>1. /\ k \in DOMAIN log /\ k \in Nat /\ Dropped \in Nat /\ k >= 1
        /\ \A j \in Matches(start) : j < k
    BY <1>2, <1>6 DEF LinesSince
  <2>2. CASE start # 0 /\ start \in Kept
    <3>1. start - Dropped \in Matches(start)
      BY Zenon, <1>1, <1>2, <1>6, <2>2 DEF Matches
    <3>2. start - Dropped < k
      BY Zenon, <2>1, <3>1
    <3> QED BY <1>1, <2>1, <3>2
  <2>3. CASE start = 0 \/ start \notin Kept
    <3>1. start <= Dropped
      BY <1>1, <1>2, <2>3 DEF Kept, Dropped
    <3> QED BY <1>1, <2>1, <3>1
  <2> QED BY Zenon, <2>2, <2>3
<1> QED BY Zenon, <1>4, <1>5, <1>6 DEF start

\* If the log holds any result, then the last line for its thread, and the last
\* summary, are those of the call's own run, which it reads.
LEMMA OwnLinesAreLast ==
  ASSUME LogInv, NEW u \in Users, Reads(u), py[u].own # 0, py[u].n \in Nat
  PROVE  LET f == py[u] IN
         /\ \A k \in DOMAIN log : \A t \in 0 .. f.n - 1 :
              log[k].kind = "thread" /\ log[k].tid = t =>
                LET m == (First(f) + t) - Dropped IN
                /\ m \in LinesSince(f.start) /\ m \in DOMAIN log /\ k <= m
                /\ log[m] = LineOf(First(f) + t, f.own, "thread", t)
         /\ \A k \in DOMAIN log : log[k].kind # "other" =>
              LET m == f.own - Dropped IN
              /\ m \in LinesSince(f.start) /\ m \in DOMAIN log /\ k <= m
              /\ log[m] = LineOf(f.own, f.own, "summary", 0)
<1> DEFINE f == py[u]
           own == f.own
           n == f.n
           first == First(f)
<1>1. /\ own \in 0 .. printed /\ f.start \in 0 .. printed /\ first > f.start
      /\ \A i \in Kept : /\ i \in first .. own => LineAt(i) = ResultLine(f, i)
                         /\ i > own => LineAt(i).kind = "other"
  BY Zenon DEF Reads, LogInv
<1>2. /\ Dropped \in Nat /\ DOMAIN log = 1 .. Len(log) /\ Len(log) \in Nat
      /\ printed = Dropped + Len(log)
      /\ \A k \in DOMAIN log : /\ k \in Nat /\ k + Dropped \in Kept
                               /\ k + Dropped \in Nat
                               /\ LineAt(k + Dropped) = log[k]
      /\ \A i \in Kept : i - Dropped \in DOMAIN log /\ log[i - Dropped] = LineAt(i)
  BY Zenon, PlaceOfLine
<1>3. \A k \in DOMAIN log : k + Dropped > f.start => k \in LinesSince(f.start)
  BY Zenon, LinesAfterMark
<1>4. /\ own \in Nat /\ n \in Nat /\ first \in Int /\ first = own - n
      /\ f.start \in Nat
  BY <1>1, <1>2 DEF First
<1>5. ASSUME NEW i \in Int, i < own
      PROVE  ResultLine(f, i) = LineOf(i, own, "thread", i - first)
  BY <1>4, <1>5 DEF ResultLine
<1>6. ResultLine(f, own) = LineOf(own, own, "summary", 0)
  BY <1>4 DEF ResultLine
<1> HIDE DEF first
<1>7. ASSUME NEW k \in DOMAIN log, log[k].kind # "other"
      PROVE  k + Dropped <= own
  <2>1. ~(k + Dropped > own) /\ k + Dropped \in Nat
    BY Zenon, <1>1, <1>2, <1>7
  <2> QED BY <1>4, <2>1
<1>8. ASSUME NEW i \in first .. own, NEW k \in DOMAIN log, k + Dropped <= i
      PROVE  /\ i - Dropped \in LinesSince(f.start) /\ i - Dropped \in DOMAIN log
             /\ k <= i - Dropped /\ log[i - Dropped] = ResultLine(f, i)
  <2>1. k \in 1 .. Len(log) /\ i \in Int /\ i > f.start /\ i <= own /\ own <= printed
    BY <1>1, <1>2, <1>4, <1>8
  <2>2. /\ Dropped \in Nat /\ Len(log) \in Nat /\ printed = Dropped + Len(log)
        /\ Kept = Dropped + 1 .. printed
    BY Zenon, <1>2 DEF Kept, Dropped
  <2>3. i \in Kept /\ k <= i - Dropped /\ (i - Dropped) + Dropped = i
    <3>1. ASSUME NEW d \in Nat, NEW len \in Nat, NEW p \in Nat, NEW j \in 1 .. len,
                 p = d + len, j + d <= i, i <= p
          PROVE  i \in d + 1 .. p /\ j <= i - d /\ (i - d) + d = i
      BY <2>1, <3>1
    <3>2. printed \in Nat /\ i <= printed
      BY <1>4, <2>1, <2>2
    <3> QED BY Zenon, <1>8, <2>1, <2>2, <3>1, <3>2
  <2> QED BY Zenon, <1>1, <1>2, <1>3, <1>8, <2>1, <2>3
<1>9. ASSUME NEW k \in DOMAIN log, NEW t \in 0 .. n - 1,
             log[k].kind = "thread", log[k].tid = t
      PROVE  LET m == (first + t) - Dropped IN
             /\ m \in LinesSince(f.start) /\ m \in DOMAIN log /\ k <= m
             /\ log[m] = LineOf(first + t, own, "thread", t)
  <2> DEFINE i == k + Dropped
  <2>1. i \in Nat /\ i \in Kept /\ LineAt(i) = log[k]
    BY Zenon, <1>2, <1>9
  <2>2. i <= own
    <3>1. "thread" # "other"
      OBVIOUS
    <3> QED BY Zenon, <1>7, <1>9, <3>1
  <2> HIDE DEF i
  <2>3. i <= first + t
    <3>1. CASE i < first
      BY <1>4, <1>9, <2>1, <3>1
    <3>2. CASE i >= first
      <4>1. i \in first .. own
        BY <1>4, <2>1, <2>2, <3>2
      <4>2. log[k] = ResultLine(f, i)
        BY Zenon, <1>1, <2>1, <4>1
      <4>3. i # own
        <5>1. LineOf(own, own, "summary", 0).kind = "summary"
          BY Zenon DEF LineOf
        <5>2. "summary" # "thread"
          OBVIOUS
        <5> QED BY Zenon, <1>6, <1>9, <4>2, <5>1, <5>2
      <4>4. i < own
        BY <1>4, <2>1, <2>2, <4>3
      <4>5. log[k] = LineOf(i, own, "thread", i - first)
        <5>1. i \in Int
          BY <2>1
        <5> QED BY Zenon, <1>5, <4>2, <4>4, <5>1
      <4>6. t = i - first
        BY <1>9, <4>5 DEF LineOf
      <4> QED BY <1>4, <2>1, <4>6
    <3> QED BY <1>4, <2>1, <3>1, <3>2
  <2>4. first + t \in first .. own /\ first + t < own /\ (first + t) - first = t
    BY <1>4, <1>9
  <2> DEFINE l == first + t
  <2>5. l \in Int
    BY <1>4, <1>9
  <2>6. l \in first .. own /\ l < own /\ l - first = t
    BY Zenon, <2>4
  <2>7. k + Dropped <= l
    BY Zenon, <2>3 DEF i
  <2> HIDE DEF l
  <2>8. ResultLine(f, l) = LineOf(l, own, "thread", t)
    BY Zenon, <1>5, <2>5, <2>6
  <2>9. /\ l - Dropped \in LinesSince(f.start) /\ l - Dropped \in DOMAIN log
        /\ k <= l - Dropped /\ log[l - Dropped] = LineOf(l, own, "thread", t)
    BY Zenon, <1>8, <1>9, <2>6, <2>7, <2>8
  <2> QED BY Zenon, <2>9 DEF l
<1>10. ASSUME NEW k \in DOMAIN log, log[k].kind # "other"
       PROVE  LET m == own - Dropped IN
              /\ m \in LinesSince(f.start) /\ m \in DOMAIN log /\ k <= m
              /\ log[m] = LineOf(own, own, "summary", 0)
  <2>1. k + Dropped <= own
    BY Zenon, <1>7, <1>10
  <2>2. own \in first .. own
    BY <1>4
  <2> QED BY Zenon, <1>6, <1>8, <1>10, <2>1, <2>2
<1> QED BY Zenon, <1>9, <1>10 DEF first

\* After its mark a call reads no results but those of its own run.
LEMMA OnlyOwnAfterMark ==
  ASSUME LogInv, NEW u \in Users, Reads(u), py[u].n \in Nat, py[u].marked,
         NEW k \in LinesSince(py[u].start), log[k].kind = "thread"
  PROVE  py[u].own # 0 /\ log[k].tid \in 0 .. py[u].n - 1
<1> DEFINE f == py[u]
           i == k + Dropped
<1>1. k \in DOMAIN log /\ i > f.start
  BY Zenon, LinesAfterMark DEF LinesSince
<1>2. i \in Nat /\ i \in Kept /\ LineAt(i) = log[k]
  BY Zenon, <1>1, PlaceOfLine
<1>3. "thread" # "other" /\ "thread" # "summary"
  OBVIOUS
<1> HIDE DEF i
<1>4. f.own # 0 /\ ~(i < First(f)) /\ ~(i > f.own)
  BY Zenon, <1>1, <1>2, <1>3 DEF Reads
<1>5. f.own \in Nat /\ First(f) \in Int /\ First(f) = f.own - f.n
  BY DEF LogInv, First
<1>6. i \in First(f) .. f.own
  BY <1>2, <1>4, <1>5
<1>7. log[k] = ResultLine(f, i)
  BY Zenon, <1>2, <1>4, <1>6 DEF Reads
<1>8. i # f.own
  <2>1. ResultLine(f, f.own).kind = "summary"
    BY <1>5 DEF ResultLine, LineOf
  <2> QED BY Zenon, <1>3, <1>7, <2>1
<1>9. i < f.own
  BY <1>5, <1>6, <1>8
<1>10. log[k].tid = i - First(f)
  BY <1>7, <1>9 DEF ResultLine, LineOf
<1> QED BY <1>4, <1>5, <1>6, <1>9, <1>10

\* What the report of a call that was alone holds.
Shown(f) ==
  /\ f.marked => f.own # 0 /\ DOMAIN f.report.threads \subseteq 0 .. f.n - 1
  /\ f.kept => 0 .. f.n - 1 \subseteq DOMAIN f.report.threads
  /\ f.own # 0 => /\ f.report.summary = f.own
                  /\ \A t \in DOMAIN f.report.threads :
                       t < f.n => f.report.threads[t] = f.own

\* The lines parsed are those of the call's own run, where it has any.
LEMMA ParseShows ==
  ASSUME LogInv, CallsInv, NEW u \in Users, Reads(u), Asked(py[u]),
         py[u].n \in Nat, ParseResults(u), py'[u].pc = "done"
  PROVE  Shown(py'[u])
<1> DEFINE f == py[u]
           L == LinesSince(f.start)
           T == OfKind(L, "thread")
           S == OfKind(L, "summary")
           Of(t) == {k \in T : log[k].tid = t}
<1>1. /\ py'[u].n = f.n /\ py'[u].start = f.start /\ py'[u].marked = f.marked
      /\ py'[u].own = f.own /\ py'[u].kept = KeptLines(u)
      /\ T # {} /\ S # {} /\ py'[u].report = Parsed(L)
  <2>1. py'[u].pc = IF Found(u) THEN "done" ELSE "failed"
    BY Zenon, ParseResultsEffect
  <2>2. Found(u)
    BY Zenon, <2>1
  <2> QED BY Zenon, <2>2, ParseResultsEffect DEF OwnFrame, Found
<1>2. /\ DOMAIN py'[u].report.threads = {log[k].tid : k \in T}
      /\ \A t \in {log[k].tid : k \in T} : py'[u].report.threads[t] = Newest(Of(t))
      /\ py'[u].report.summary = Newest(S)
  <2> DEFINE ths == [t \in {log[k].tid : k \in T} |-> Newest(Of(t))]
             sum == Newest(S)
  <2>1. Parsed(L) = [summary |-> sum, threads |-> ths]
    BY Zenon DEF Parsed
  <2> HIDE DEF sum, ths
  <2>2. Parsed(L).summary = sum /\ Parsed(L).threads = ths
    BY <2>1
  <2> HIDE DEF T, S, Of
  <2> QED BY Zenon, <1>1, <2>2 DEF sum, ths
<1>3. /\ DOMAIN log \subseteq Nat /\ \A k \in DOMAIN log : log[k].tid \in Nat
  BY Zenon, PlaceOfLine DEF LogLine
<1>4. /\ \A k \in T : k \in L /\ k \in DOMAIN log /\ log[k].kind = "thread"
      /\ \A k \in S : k \in L /\ k \in DOMAIN log /\ log[k].kind = "summary"
      /\ \A k \in L : /\ log[k].kind = "thread" => k \in T
                      /\ log[k].kind = "summary" => k \in S
  BY Zenon DEF OfKind, LinesSince
<1> HIDE DEF T, S, L
<1>5. ASSUME f.marked PROVE f.own # 0 /\ {log[k].tid : k \in T} \subseteq 0 .. f.n - 1
  <2>1. \A k \in T : f.own # 0 /\ log[k].tid \in 0 .. f.n - 1
    BY Zenon, <1>4, <1>5, OnlyOwnAfterMark DEF L
  <2> QED BY Zenon, <1>1, <2>1
<1>6. ASSUME f.own # 0, NEW k \in DOMAIN log, NEW t \in 0 .. f.n - 1,
             log[k].kind = "thread", log[k].tid = t
      PROVE  LET m == (First(f) + t) - Dropped IN
             m \in Of(t) /\ k <= m /\ log[m].run = f.own
  <2> DEFINE m == (First(f) + t) - Dropped
             line == LineOf(First(f) + t, f.own, "thread", t)
  <2>1. m \in L /\ m \in DOMAIN log /\ k <= m /\ log[m] = line
    BY Zenon, <1>6, OwnLinesAreLast DEF L
  <2>2. line.kind = "thread" /\ line.tid = t /\ line.run = f.own
    BY Zenon DEF LineOf
  <2> HIDE DEF m, line
  <2>3. m \in Of(t) /\ k <= m /\ log[m].run = f.own
    BY Zenon, <1>4, <2>1, <2>2
  <2> QED BY Zenon, <2>3 DEF m
<1>7. ASSUME KeptLines(u), NEW t \in 0 .. f.n - 1
      PROVE  t \in {log[k].tid : k \in T}
  <2>1. PICK k \in DOMAIN log :
          log[k].tid = t /\ log[k].kind = "thread" /\ log[k].run = f.own
    BY Zenon, <1>7 DEF KeptLines, Asked
  <2>2. f.own # 0
    BY Zenon, <2>1, PlaceOfLine DEF LogInv
  <2> QED BY Zenon, <1>6, <1>7, <2>1, <2>2
<1>8. ASSUME f.own # 0 PROVE Newest(S) = f.own
  <2> DEFINE m == f.own - Dropped
             line == LineOf(f.own, f.own, "summary", 0)
  <2>1. \A k \in S : m \in L /\ m \in DOMAIN log /\ k <= m /\ log[m] = line
    <3>1. "summary" # "other"
      OBVIOUS
    <3> QED BY Zenon, <1>4, <1>8, <3>1, OwnLinesAreLast DEF L
  <2>2. line.kind = "summary" /\ line.run = f.own
    BY Zenon DEF LineOf
  <2> HIDE DEF m, line
  <2>3. m \in S /\ log[m].run = f.own /\ \A k \in S : k <= m
    BY Zenon, <1>1, <1>4, <2>1, <2>2
  <2>4. S \in SUBSET Nat
    BY Zenon, <1>3, <1>4
  <2> QED BY Zenon, <2>3, <2>4, NewestIs
<1>9. ASSUME f.own # 0, NEW t \in {log[k].tid : k \in T}, t < f.n
      PROVE  Newest(Of(t)) = f.own
  <2>1. t \in Nat
    BY Zenon, <1>3, <1>4, <1>9
  <2>2. t \in 0 .. f.n - 1
    BY <1>9, <2>1
  <2> DEFINE m == (First(f) + t) - Dropped
  <2>3. \A k \in Of(t) : m \in Of(t) /\ k <= m /\ log[m].run = f.own
    BY ZenonT(30), <1>4, <1>6, <1>9, <2>2
  <2>4. Of(t) # {}
    BY Zenon, <1>9
  <2>5. Of(t) \in SUBSET Nat
    BY Zenon, <1>3, <1>4
  <2> HIDE DEF m, Of
  <2>6. m \in Of(t) /\ log[m].run = f.own /\ \A k \in Of(t) : k <= m
    BY Zenon, <2>3, <2>4
  <2> QED BY Zenon, <2>5, <2>6, NewestIs
<1> QED BY Zenon, <1>1, <1>2, <1>5, <1>7, <1>8, <1>9 DEF Shown

\* Only a call that has parsed its results is done.
LEMMA DoneIsParsed ==
  ASSUME ModInv, CallsInv, PlacesInv, NEW u \in Users, ScriptStep(u),
         py'[u].pc = "done", Active(u)
  PROVE  ParseResults(u)
<1>1. TypeOK /\ py[u].n \in Nat
  BY Zenon DEF ModInv, PlacesInv, FrameOK
<1>2. \A e, f : ~Open(u, e, f)
  BY Zenon, <1>1, OpenEffect DEF Active
<1>3. ~(ReadCur(u) \/ Unload(u) \/ Load(u) \/ GetConfig(u) \/ LastTimestamp(u)
        \/ RunReturns(u))
  BY Zenon, <1>1, ReadCurEffect, UnloadEffect, LoadEffect, GetConfigEffect,
     LastTimestampEffect, RunReturnsEffect
<1>4. ~WriteNumThreads(u) /\ ~WriteRunWorkload(u)
  BY Zenon, <1>1, <1>2, WriteNumThreadsEffect, WriteRunWorkloadEffect
     DEF NumStored, RunRefused, RunStarted
<1>5. ~RuntimeStored(u) /\ \A error : ~NextVar(u, error)
  BY Zenon DEF RuntimeStored, NextVar
<1>6. ~WriteRuntimeSeconds(u) /\ ~WriteThreadVar(u)
  BY Zenon, <1>1, <1>2, <1>5, WriteRuntimeSecondsEffect, WriteThreadVarEffect
     DEF VarStored
<1>7. ~Dies(u)
  BY Zenon, <1>1, DiesEffect
<1> QED BY Zenon, <1>3, <1>4, <1>6, <1>7 DEF ScriptStep

\* A report that is shown stays as it is.
LEMMA ReportStep ==
  ASSUME ModInv, CallsInv, AloneInv, LogInv, ReadsInv, ReportIsOwn, SessionNext
  PROVE  ReportIsOwn'
<1> SUFFICES ASSUME NEW v \in Users, py'[v].pc = "done", py'[v].alone
             PROVE  Shown(py'[v])
  BY Zenon DEF ReportIsOwn, Shown, At
<1>1. /\ TypeOK /\ PlacesInv /\ LoneInv /\ py[v].n \in Nat
      /\ At(v, "done") /\ py[v].alone => Shown(py[v])
      /\ Lone(v) /\ At(v, "read") => Reads(v) /\ Asked(py[v])
  <2>1. At(v, "done") /\ py[v].alone => Shown(py[v])
    BY Zenon DEF ReportIsOwn, Shown
  <2> QED BY Zenon, <2>1 DEF ModInv, AloneInv, PlacesInv, FrameOK, StagesInv, Stage,
                             ReadsInv, At
<1>2. ASSUME py'[v].pc = py[v].pc, py'[v].report = py[v].report,
             py'[v].n = py[v].n, py'[v].alone => py[v].alone, SameData(v)
      PROVE  Shown(py'[v])
  <2>1. Shown(py[v])
    BY Zenon, <1>1, <1>2 DEF At
  <2> QED BY Zenon, <1>2, <2>1 DEF Shown, SameData, SameRun
<1>3. ASSUME py'[v] = py[v] PROVE Shown(py'[v])
  BY Zenon, <1>1, <1>3 DEF At
<1>4. ASSUME NEW u \in Users, NEW call \in Calls, Begin(u, call)
      PROVE  Shown(py'[v])
  <2>1. v # u
    <3>1. py'[u].pc = "cur"
      BY Zenon, <1>4, BeginEffect
    <3> QED BY Zenon, <3>1
  <2>2. /\ py'[v].pc = py[v].pc /\ py'[v].report = py[v].report
        /\ py'[v].n = py[v].n /\ SameData(v) /\ (py'[v].alone => py[v].alone)
    BY Zenon, <1>4, <2>1, BeginOthers
  <2> QED BY Zenon, <1>2, <2>2
<1>5. ASSUME NEW u \in Users, ScriptStep(u) PROVE Shown(py'[v])
  <2>1. OwnFrame(u) /\ Active(u)
    BY Zenon, <1>1, <1>5, ScriptPlace, ActorIsActive DEF OwnPlace
  <2>2. CASE v # u
    BY Zenon, <1>3, <2>1, <2>2 DEF OwnFrame
  <2>3. CASE v = u
    <3>1. Lone(u)
      BY Zenon, <2>1, <2>3 DEF Lone, OwnFrame
    <3>2. ParseResults(u)
      BY Zenon, <1>1, <1>5, <2>1, <2>3, DoneIsParsed DEF At
    <3>3. At(u, "read")
      BY Zenon, <3>2 DEF ParseResults
    <3> QED BY Zenon, <1>1, <2>3, <3>1, <3>2, <3>3, ParseShows
  <2> QED BY Zenon, <2>2, <2>3
<1>6. ASSUME NEW u \in Users, RunStep(u) PROVE Shown(py'[v])
  BY Zenon, <1>1, <1>3, <1>6, RunStepEffect
<1>7. CASE ModuleStep
  <2>1. /\ py'[v].n = py[v].n /\ py'[v].alone = py[v].alone
        /\ py'[v].report = py[v].report /\ SameData(v)
        /\ ~Reloading(v) => py'[v].pc = py[v].pc
        /\ Reloading(v) => \/ py'[v].pc = py[v].pc
                           \/ py'[v].pc \in {"load", "num_threads", "failed"}
    BY Zenon, <1>7, ModuleStepEffect
  <2> QED BY Zenon, <1>2, <2>1
<1>8. CASE Noise
  BY Zenon, <1>3, <1>8 DEF Noise
<1> QED BY Zenon, <1>4, <1>5, <1>6, <1>7, <1>8 DEF SessionNext

\* The invariant of what calls read.
ReadInv == LogInv /\ ReadsInv /\ ReportIsOwn

\* The log is well formed, a call that is alone finds its own results in it, and
\* what it shows is theirs.
THEOREM ReadInvariant == SessionSpec => []ReadInv
<1>1. SessionInit => ReadInv
  <2> SUFFICES ASSUME SessionInit PROVE ReadInv
    OBVIOUS
  <2>1. (\A u \in Users : py[u] = Idle) /\ log = <<>> /\ printed = 0
    BY Zenon DEF SessionInit
  <2>2. Idle.pc = "idle" /\ Idle.own = 0 /\ Idle.start = 0
    BY Zenon DEF Idle
  <2>3. /\ printed \in Nat /\ log \in Seq(LogLine) /\ Len(log) = 0 /\ Kept = {}
        /\ Len(log) <= LogSize /\ Len(log) <= printed /\ ~(printed > 0)
        /\ 0 \in 0 .. printed
    BY <2>1, KioSessionAssumption DEF Kept
  <2>4. LogInv
    BY Zenon, <2>1, <2>2, <2>3 DEF LogInv
  <2>5. \A u \in Users : ~Active(u) /\ ~At(u, "done")
    BY Zenon, <2>1, <2>2 DEF Active, At
  <2> QED BY Zenon, <2>4, <2>5 DEF ReadInv, ReadsInv, ReportIsOwn, Lone
<1>2. ModInv /\ CallsInv /\ AloneInv /\ ReadInv /\ [SessionNext]_allVars => ReadInv'
  <2> SUFFICES ASSUME ModInv, CallsInv, AloneInv, ReadInv, [SessionNext]_allVars
               PROVE  ReadInv'
    OBVIOUS
  <2>1. CASE SessionNext
    BY Zenon, <2>1, LogStep, ReadsStep, ReportStep DEF ReadInv, AloneInv
  <2>2. CASE UNCHANGED allVars
    <3>1. UNCHANGED <<py, log, printed>>
      BY Zenon, <2>2 DEF allVars, pyVars
    <3>2. LogInv'
      BY Zenon, <3>1, LogSame DEF ReadInv, LogInv
    <3>3. \A u \in Users : (Lone(u)' => Lone(u)) /\ SameMark(u)
      BY Zenon, <3>1 DEF Lone, Active, SameMark
    <3>4. ReadsInv'
      BY Zenon, <3>1, <3>3, ReadsSame DEF ReadInv, ReadsInv
    <3>5. ReportIsOwn'
      BY Zenon, <3>1 DEF ReadInv, ReportIsOwn, At
    <3> QED BY Zenon, <3>2, <3>4, <3>5 DEF ReadInv
  <2> QED BY Zenon, <2>1, <2>2
<1> QED BY <1>1, <1>2, SessionInvariant, AloneInvariant, PTL DEF SessionSpec

\* The results a call shows that was alone are those of its own run, whatever
\* the log holds of earlier runs and however much of it was dropped.
THEOREM ReportsAreOwn == SessionSpec => []ReportIsOwn
<1>1. ReadInv => ReportIsOwn
  BY Zenon DEF ReadInv
<1> QED BY <1>1, ReadInvariant, PTL

\* Every variable of the script keeps its type, and the log its size.
THEOREM SessionTypes == SessionSpec => []SessionTypeOK
<1>1. ModInv /\ CallsInv /\ AloneInv /\ ReadInv => SessionTypeOK
  <2> SUFFICES ASSUME ModInv, CallsInv, AloneInv, ReadInv PROVE SessionTypeOK
    OBVIOUS
  <2>1. printed >= Len(log)
    BY Zenon DEF ReadInv, LogInv
  <2>2. \A u \in Users : py[u].n \in NumThreadsArgs \cup {0}
    BY Zenon DEF CallsInv, Given, HasArgs, AloneInv, PlacesInv, FrameOK
  <2> QED BY Zenon, <2>1, <2>2
          DEF SessionTypeOK, ModInv, AloneInv, PlacesInv, FrameOK, ReadInv, LogInv
<1> QED BY <1>1, SessionInvariant, AloneInvariant, ReadInvariant, PTL

-----------------------------------------------------------------------------
(***************************************************************************)
(* Why a call that is alone fails.                                         *)
(***************************************************************************)
\* The files of a module that is loaded are there.
LEMMA FileIsThere ==
  ASSUME ModInv, mod = "loaded",
         NEW f \in {"num_threads", "runtime_seconds", "run_workload"}
  PROVE  FileExists(f)
<1>1. files = 3
  BY Zenon DEF ModInv, FilesInv
<1>2. /\ TopFiles[1] = "num_threads" /\ TopFiles[2] = "runtime_seconds"
      /\ TopFiles[3] = "run_workload"
  BY Zenon DEF TopFiles
<1>3. 1 \in 1 .. files /\ 2 \in 1 .. files /\ 3 \in 1 .. files
  BY <1>1
<1>4. f # "var"
  OBVIOUS
<1> QED BY Zenon, <1>2, <1>3, <1>4 DEF FileExists

\* A call finds the results of its own run if the log kept them.
LEMMA ParseFinds ==
  ASSUME LogInv, NEW u \in Users, Reads(u), Asked(py[u]), py[u].n \in Nat,
         py[u].own # 0, KeptLines(u)
  PROVE  Found(u)
<1> DEFINE f == py[u]
<1>1. 0 \in DOMAIN f.ran /\ 0 \in 0 .. f.n - 1
  BY DEF Asked
<1>2. PICK k \in DOMAIN log : log[k].tid = 0 /\ log[k].kind = "thread"
  BY Zenon, <1>1 DEF KeptLines
<1>3. "thread" # "other"
  OBVIOUS
<1> DEFINE m1 == (First(f) + 0) - Dropped
           m2 == f.own - Dropped
<1>4. /\ m1 \in LinesSince(f.start)
      /\ log[m1] = LineOf(First(f) + 0, f.own, "thread", 0)
  BY Zenon, <1>1, <1>2, OwnLinesAreLast
<1>5. /\ m2 \in LinesSince(f.start)
      /\ log[m2] = LineOf(f.own, f.own, "summary", 0)
  BY Zenon, <1>2, <1>3, OwnLinesAreLast
<1> HIDE DEF m1, m2
<1>6. log[m1].kind = "thread" /\ log[m2].kind = "summary"
  BY <1>4, <1>5 DEF LineOf
<1> QED BY Zenon, <1>4, <1>5, <1>6 DEF Found, OfKind

\* The reasons for which a step of a call fails.
Reason(u) ==
  \/ mod' # "loaded"
  \/ py[u].n \notin 1 .. Cpus
  \/ py[u].secs \notin 1 .. KIO_MAX_RUNTIME_SECONDS
  \/ At(u, "num_threads") /\ NumThreadsAccepted(py[u].n) /\ "array" \in Faults
  \/ At(u, "var") /\ \E t \in 0 .. py[u].n - 1 : ~py[u].vals[t].number
  \/ At(u, "run_workload") /\ \E t \in 0 .. py[u].n - 1 :
                                ~kio_config_is_valid(tconf[t], DevSize)
  \/ kio_running /\ py[u].pc \notin {"wait", "read"}
  \/ num_threads' > 0 /\ threads' = "null"
  \/ At(u, "wait") /\ in'[u] = "dead"
  \/ At(u, "read") /\ (py[u].own = 0 \/ ~py'[u].kept)

\* A step of the script fails for a reason.
LEMMA ScriptFails ==
  ASSUME ModInv, CallsInv, PlacesInv, LogInv, NEW u \in Users, Active(u), Stage(u),
         At(u, "read") => Reads(u),
         ScriptStep(u), py'[u].pc = "failed"
  PROVE  Reason(u)
<1>1. /\ TypeOK /\ py[u].n \in Nat /\ py[u].i \in Nat
      /\ HeldInv /\ ThreadsInv
  BY Zenon DEF ModInv, PlacesInv, FrameOK
<1>2. ASSUME NEW f \in {"num_threads", "runtime_seconds", "run_workload"},
             Open(u, TRUE, f)
      PROVE  Reason(u)
  <2>1. SameModule /\ ~FileExists(f)
    BY Zenon, <1>1, <1>2, OpenEffect DEF Active
  <2> QED BY Zenon, <1>2, <2>1, FileIsThere DEF SameModule, Reason
<1>3. CASE ReadCur(u)
  BY Zenon, <1>1, <1>3, ReadCurEffect
<1>4. CASE Unload(u)
  BY Zenon, <1>4, UnloadEffect DEF Reason
<1>5. CASE Load(u)
  BY Zenon, <1>5, LoadEffect DEF Reason, Stage, At
<1>6. CASE WriteNumThreads(u)
  <2>1. CASE NumStored(u)
    <3>1. num_threads = 0
      BY Zenon, <1>6 DEF WriteNumThreads, At, Stage
    <3>2. threads = "null"
      BY <1>1, <3>1 DEF ThreadsInv, TypeOK
    <3>3. ~NumThreadsAccepted(py[u].n) => kio_running \/ py[u].n \notin 1 .. Cpus
      BY Zenon, <3>1, <3>2 DEF NumThreadsAccepted
    <3>4. At(u, "num_threads")
      BY Zenon, <1>6 DEF WriteNumThreads
    <3> QED BY Zenon, <2>1, <3>3, <3>4 DEF NumStored, May, At, Reason
  <2> QED BY Zenon, <1>1, <1>2, <1>6, <2>1, WriteNumThreadsEffect
<1>7. CASE WriteRuntimeSeconds(u)
  <2>1. CASE RuntimeStored(u)
    <3>1. ~SecondsAccepted(py[u].secs) /\ At(u, "runtime_seconds")
      BY Zenon, <1>7, <2>1 DEF RuntimeStored, WriteRuntimeSeconds
    <3>2. kio_running \/ py[u].secs \notin 1 .. KIO_MAX_RUNTIME_SECONDS
      BY <3>1 DEF SecondsAccepted, InRange
    <3> QED BY Zenon, <3>1, <3>2 DEF At, Reason
  <2> QED BY Zenon, <1>1, <1>2, <1>7, <2>1, WriteRuntimeSecondsEffect
<1>8. CASE WriteThreadVar(u)
  <2>1. /\ At(u, "var") /\ py[u].i < py[u].n
        /\ \/ HasValue(u) /\ Open(u, py[u].i < num_threads, "var")
           \/ VarStored(u)
           \/ NextVar(u, FALSE)
    BY Zenon, <1>1, <1>8, WriteThreadVarEffect
  <2>2. ASSUME Open(u, py[u].i < num_threads, "var") PROVE Reason(u)
    <3>1. SameModule /\ ~(py[u].i < num_threads /\ FileExists("var"))
      BY Zenon, <1>1, <2>2, OpenEffect DEF Active
    <3>2. num_threads = py[u].n
      BY Zenon, <2>1 DEF Stage, At, Late
    <3>3. threads # "live"
      BY Zenon, <2>1, <3>1, <3>2 DEF FileExists
    <3>4. num_threads' > 0
      <4>1. num_threads > 0
        BY <1>1, <2>1, <3>2
      <4> QED BY Zenon, <3>1, <4>1 DEF SameModule
    <3> QED BY Zenon, <1>1, <3>1, <3>3, <3>4 DEF TypeOK, SameModule, Reason
  <2>3. ASSUME NEW error, NextVar(u, error) PROVE error
    BY Zenon, <2>3 DEF NextVar
  <2>4. VarStored(u) => kio_running \/ ~py[u].vals[py[u].i].number
    BY Zenon DEF VarStored, NextVar
  <2>5. ~NextVar(u, FALSE)
    BY Zenon, <2>3
  <2>6. py[u].i \in 0 .. py[u].n - 1
    BY <1>1, <2>1
  <2> QED BY Zenon, <2>1, <2>2, <2>4, <2>5, <2>6 DEF At, Reason
<1>9. CASE GetConfig(u)
  BY Zenon, <1>9, GetConfigEffect, FileIsThere DEF SameModule, Reason
<1>10. CASE LastTimestamp(u) \/ RunReturns(u)
  BY Zenon, <1>1, <1>10, LastTimestampEffect, RunReturnsEffect
<1>11. CASE WriteRunWorkload(u)
  <2>1. CASE RunRefused(u)
    <3>1. /\ UNCHANGED <<mod, num_threads, threads>> /\ ~RunAccepted
          /\ At(u, "run_workload")
      BY Zenon, <1>11, <2>1 DEF RunRefused, WriteRunWorkload
    <3>2. num_threads = py[u].n /\ runtime_seconds = py[u].secs
      BY Zenon, <3>1 DEF Stage, At, Late
    <3>3. DevByteSize = DevSize \/ mod # "loaded"
      BY Zenon, <1>1 DEF HeldInv, Sized, DevByteSize
    <3>4. num_threads > 0 \/ py[u].n \notin 1 .. Cpus
      BY <1>1, <3>2
    <3>5. threads = "live" \/ threads' = "null"
      BY Zenon, <1>1, <3>1 DEF TypeOK
    <3>6. num_threads' > 0 \/ py[u].n \notin 1 .. Cpus
      BY Zenon, <3>1, <3>4
    <3>7. \/ InRange(runtime_seconds, 1, KIO_MAX_RUNTIME_SECONDS)
          \/ py[u].secs \notin 1 .. KIO_MAX_RUNTIME_SECONDS
      BY <3>2 DEF InRange
    <3>8. ~RunChecked => Reason(u)
      BY Zenon, <3>1, <3>4, <3>5, <3>6, <3>7 DEF RunChecked, Reason, At
    <3>9. ~ValidBefore(num_threads) => Reason(u)
      BY Zenon, <3>1, <3>2, <3>3 DEF ValidBefore, Reason
    <3> QED BY Zenon, <3>1, <3>8, <3>9 DEF RunAccepted
  <2>2. ~RunStarted(u)
    BY Zenon DEF RunStarted
  <2> QED BY Zenon, <1>1, <1>2, <1>11, <2>1, <2>2, WriteRunWorkloadEffect
<1>12. CASE ParseResults(u)
  <2>1. /\ At(u, "read") /\ py'[u].kept = KeptLines(u)
        /\ py'[u].pc = IF Found(u) THEN "done" ELSE "failed"
    BY Zenon, <1>12, ParseResultsEffect
  <2>2. ~Found(u)
    BY Zenon, <2>1
  <2>3. Asked(py[u]) /\ Reads(u)
    BY Zenon, <2>1 DEF Stage, At
  <2> QED BY Zenon, <1>1, <2>1, <2>2, <2>3, ParseFinds DEF Reason
<1>13. CASE Dies(u)
  <2>1. /\ in[u] = "running" \/ (Orphaned /\ in[u] # "dead")
        /\ in'[u] = "dead" /\ mod' = mod /\ InPlace(u)
    BY Zenon, <1>1, <1>13, DiesEffect DEF PlacesInv
  <2> QED BY Zenon, <2>1 DEF InPlace, Orphaned, Reason
<1> QED BY Zenon, <1>3, <1>4, <1>5, <1>6, <1>7, <1>8, <1>9, <1>10, <1>11, <1>12, <1>13
        DEF ScriptStep

\* A call that is alone fails only for a reason it can name: its arguments, the
\* values an earlier call left, a fault of its own or an earlier failure, of which
\* the driver or the log still shows the traces.
THEOREM FailuresHaveReasons == SessionSpec => FailsForAReason
<1> DEFINE Explained ==
             \A u \in Users : Active(u) /\ py'[u].pc = "failed" /\ py[u].alone =>
               Reason(u)
<1>1. ModInv /\ CallsInv /\ AloneInv /\ ReadInv /\ [SessionNext]_allVars =>
        [Explained]_allVars
  <2> SUFFICES ASSUME ModInv, CallsInv, AloneInv, ReadInv, SessionNext,
                      NEW u \in Users, Active(u), py'[u].pc = "failed", py[u].alone
               PROVE  Reason(u)
    BY Zenon
  <2>1. /\ TypeOK /\ PlacesInv /\ LoneInv /\ LogInv /\ Lone(u) /\ Stage(u)
        /\ At(u, "read") => Reads(u)
    BY Zenon DEF ModInv, AloneInv, StagesInv, ReadInv, ReadsInv, Lone, At
  <2>2. py'[u].pc # py[u].pc
    BY Zenon DEF Active
  <2>3. ASSUME NEW v \in Users, NEW call \in Calls, Begin(v, call)
        PROVE  FALSE
    <3>1. v = u
      BY Zenon, <2>2, <2>3, BeginOthers
    <3> QED BY Zenon, <2>3, <3>1, BeginEffect
  <2>4. ASSUME NEW v \in Users, ScriptStep(v) PROVE Reason(u)
    <3>1. OwnFrame(v)
      BY Zenon, <2>1, <2>4, ScriptPlace DEF OwnPlace
    <3>2. v = u
      BY Zenon, <2>2, <3>1 DEF OwnFrame
    <3> QED BY Zenon, <2>1, <2>4, <3>2, ScriptFails
  <2>5. ASSUME NEW v \in Users, RunStep(v) PROVE FALSE
    BY Zenon, <2>1, <2>2, <2>5, RunStepEffect
  <2>6. CASE ModuleStep
    <3>1. Reloading(u) /\ mod' \in {"unloaded", "oops"}
      BY Zenon, <2>2, <2>6, ModuleStepEffect
    <3> QED BY Zenon, <3>1 DEF Reason
  <2>7. CASE Noise
    BY Zenon, <2>2, <2>7 DEF Noise
  <2> QED BY Zenon, <2>3, <2>4, <2>5, <2>6, <2>7 DEF SessionNext
<1> QED BY <1>1, SessionInvariant, AloneInvariant, ReadInvariant, PTL
        DEF SessionSpec, FailsForAReason, Reason
=============================================================================
