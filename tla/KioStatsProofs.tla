-------------------------- MODULE KioStatsProofs ---------------------------
(***************************************************************************)
(* The numbers shown, for words and seconds of any size and for any number *)
(* of threads: the line of a thread shows its averages, the bandwidth and  *)
(* latencies of the summary lie between those of the threads, and its I/Os *)
(* per second are too small by the number of threads.                      *)
(***************************************************************************)
EXTENDS KioStats, Integers, WellFoundedInduction, TLAPS

-----------------------------------------------------------------------------
(***************************************************************************)
(* Quotients.                                                              *)
(***************************************************************************)
\* The quotient rounded down, and the remainder.
LEMMA DivDef ==
  ASSUME NEW a \in Nat, NEW b \in Nat, b > 0
  PROVE  /\ a \div b \in Nat
         /\ (a \div b) * b <= a
         /\ a < (a \div b + 1) * b
  BY Z3

\* What is printed as two numbers, the whole and the thousandths, is the number.
LEMMA ThousandsRoundTrip ==
  ASSUME NEW x \in Nat
  PROVE  Decimal(x \div 1000, x % 1000) = x
  BY Z3 DEF Decimal

\* A number printed in megabytes with the kilobytes behind the point.
LEMMA MegabytesRoundTrip ==
  ASSUME NEW x \in Nat
  PROVE  Decimal(x \div 1000000, (x \div 1000) % 1000) = x \div 1000
  BY Z3 DEF Decimal

\* Dividing by b and then by 1000 is dividing by 1000 * b.
LEMMA DivTwice ==
  ASSUME NEW a \in Nat, NEW b \in Nat, b > 0
  PROVE  IsAverage((a \div b) \div 1000, a, 1000 * b)
  BY DivDef, Z3 DEF IsAverage

\* A word that is wide enough does not change a number.
LEMMA FitsWord ==
  ASSUME NEW a \in Nat, NEW w \in Nat, a < w
  PROVE  a % w = a
  BY Z3

\* A quotient is small if the dividend is.
LEMMA DivBound ==
  ASSUME NEW a \in Nat, NEW b \in Nat, b > 0, NEW w \in Nat, a < w * b
  PROVE  a \div b < w
  BY DivDef, Z3

\* Products of natural numbers are natural numbers.
LEMMA ProductNat ==
  ASSUME NEW a \in Nat, NEW b \in Nat
  PROVE  a * b \in Nat
  BY Z3

\* The line of a thread whose products fit their words shows what README.md
\* promises, for words and seconds of the real sizes as for the small ones.
THEOREM ThreadLineIsAverage ==
  \A m \in Counters : Fits(m) => LineIsAverage(ThreadLine(m), m)
<1> SUFFICES ASSUME NEW m \in Counters, Fits(m)
             PROVE  LineIsAverage(ThreadLine(m), m)
  OBVIOUS
<1> DEFINE slat == Quotient(m.slat_total, m.completed)
           clat == Quotient(m.clat_total, m.completed)
           ios == m.completed * NSEC_PER_SEC
           bytes == m.completed * m.block_size * NSEC_PER_SEC
           l == ThreadLine(m)
<1>1. /\ m.completed \in Nat /\ m.slat_total \in Nat /\ m.clat_total \in Nat
      /\ m.block_size \in Nat /\ m.runtime \in Nat
      /\ U32 \in Nat /\ U64 \in Nat /\ NSEC_PER_SEC \in Nat
  BY Zenon, KioStatsAssumption, KioWordsAssumption DEF Counters
<1>2. ios \in Nat /\ bytes \in Nat
  BY Zenon, <1>1, ProductNat
<1>3. /\ bytes < U64 /\ ios < U64 /\ ios < U32 * m.runtime
      /\ m.slat_total + m.clat_total < U64
  BY Zenon DEF Fits
<1>4. ios % U64 = ios /\ bytes % U64 = bytes
  BY Zenon, <1>1, <1>2, <1>3, FitsWord
<1>5. /\ l.completed = m.completed
      /\ l.slat = Decimal(slat \div 1000, slat % 1000)
      /\ l.clat = Decimal(clat \div 1000, clat % 1000)
      /\ l.lat = Decimal(((slat + clat) % U64) \div 1000,
                         ((slat + clat) % U64) % 1000)
      /\ l.iops = Quotient(ios % U64, m.runtime) % U32
      /\ l.bw = Decimal(Quotient(bytes % U64, m.runtime) \div 1000000,
                        (Quotient(bytes % U64, m.runtime) \div 1000) % 1000)
  BY DEF ThreadLine, ThreadBps, Line
<1> HIDE DEF ios, bytes, l
<1>6. m.completed > 0 =>
        /\ IsAverage(l.slat, m.slat_total, m.completed)
        /\ IsAverage(l.clat, m.clat_total, m.completed)
        /\ l.lat = l.slat + l.clat
  <2> SUFFICES ASSUME m.completed > 0
               PROVE  /\ IsAverage(l.slat, m.slat_total, m.completed)
                      /\ IsAverage(l.clat, m.clat_total, m.completed)
                      /\ l.lat = l.slat + l.clat
    OBVIOUS
  <2>1. /\ slat = m.slat_total \div m.completed
        /\ clat = m.clat_total \div m.completed
    BY <1>1 DEF Quotient
  <2> HIDE DEF slat, clat
  <2>2. /\ slat \in Nat /\ clat \in Nat
        /\ IsAverage(slat, m.slat_total, m.completed)
        /\ IsAverage(clat, m.clat_total, m.completed)
    BY Zenon, <1>1, <2>1, DivDef DEF IsAverage
  <2>3. slat <= m.slat_total /\ clat <= m.clat_total
    <3>1. ASSUME NEW a \in Nat, NEW b \in Nat, NEW q \in Nat, b > 0, q * b <= a
          PROVE  q <= a
      BY <3>1, Z3
    <3> QED BY Zenon, <1>1, <2>2, <3>1 DEF IsAverage
  <2>4. slat + clat \in Nat /\ slat + clat < U64
    BY <1>1, <1>3, <2>2, <2>3
  <2>5. (slat + clat) % U64 = slat + clat
    BY Zenon, <1>1, <2>4, FitsWord
  <2>6. l.slat = slat /\ l.clat = clat /\ l.lat = slat + clat
    BY <1>5, <2>2, <2>4, <2>5, ThousandsRoundTrip
  <2> QED BY Zenon, <2>2, <2>6
<1>7. m.runtime > 0 => IsAverage(l.iops, ios, m.runtime)
  <2> SUFFICES ASSUME m.runtime > 0 PROVE IsAverage(l.iops, ios, m.runtime)
    OBVIOUS
  <2>1. l.iops = (ios \div m.runtime) % U32
    BY <1>1, <1>4, <1>5 DEF Quotient
  <2>2. ios \div m.runtime \in Nat /\ ios \div m.runtime < U32
    BY Zenon, <1>1, <1>2, <1>3, DivDef, DivBound
  <2>3. l.iops = ios \div m.runtime
    BY Zenon, <1>1, <2>1, <2>2, FitsWord
  <2> QED BY Zenon, <1>1, <1>2, <2>3, DivDef DEF IsAverage
<1>8. m.runtime > 0 => IsAverage(l.bw, bytes, 1000 * m.runtime)
  <2> SUFFICES ASSUME m.runtime > 0
               PROVE  IsAverage(l.bw, bytes, 1000 * m.runtime)
    OBVIOUS
  <2>1. bytes \div m.runtime \in Nat
    BY Zenon, <1>1, <1>2, DivDef
  <2>2. Quotient(bytes % U64, m.runtime) = bytes \div m.runtime
    BY <1>1, <1>4 DEF Quotient
  <2>3. l.bw = (bytes \div m.runtime) \div 1000
    BY <1>5, <2>1, <2>2, MegabytesRoundTrip
  <2> QED BY <1>1, <1>2, <2>3, DivTwice
<1> QED BY <1>5, <1>6, <1>7, <1>8 DEF LineIsAverage, l, ios, bytes

-----------------------------------------------------------------------------
(***************************************************************************)
(* Sums over the threads.                                                  *)
(***************************************************************************)
\* A set of natural numbers that is not empty has a smallest one.
LEMMA Smallest ==
  ASSUME NEW T, T \subseteq Nat, T # {}
  PROVE  \E x \in T : \A y \in T : x <= y
<1> DEFINE R == {ss \in Nat \X Nat : ss[1] < ss[2]}
<1>1. OpToRel(<, Nat) = R
  BY DEF OpToRel
<1>2. IsWellFoundedOn(R, Nat)
  BY Zenon, <1>1, NatLessThanWellFounded
<1> HIDE DEF R
<1>3. \E x \in T : \A y \in T : ~ (<<y, x>> \in R)
  BY Zenon, <1>2, WFMin
<1>4. ASSUME NEW x \in T, NEW y \in T, ~ (<<y, x>> \in R)
      PROVE  x <= y
  BY <1>4 DEF R
<1> QED BY Zenon, <1>3, <1>4

\* Induction up to n, for a set in place of a predicate.
LEMMA UpTo ==
  ASSUME NEW n \in Nat, NEW G, 0 \in G,
         \A k \in 0 .. n - 1 : k \in G => k + 1 \in G
  PROVE  \A k \in 0 .. n : k \in G
<1> DEFINE T == {k \in 0 .. n : k \notin G}
<1> SUFFICES ASSUME T # {} PROVE FALSE
  OBVIOUS
<1>1. T \subseteq Nat
  OBVIOUS
<1> HIDE DEF T
<1>2. PICK x \in T : \A y \in T : x <= y
  BY Zenon, <1>1, Smallest
<1>3. x \in 0 .. n /\ x \notin G
  BY Zenon, <1>2 DEF T
<1>4. x # 0
  BY Zenon, <1>3
<1>5. x - 1 \in 0 .. n - 1 /\ x - 1 \in 0 .. n /\ ~ (x <= x - 1)
      /\ (x - 1) + 1 = x
  BY <1>3, <1>4
<1>6. x - 1 \in G
  BY Zenon, <1>2, <1>5 DEF T
<1> QED BY Zenon, <1>3, <1>5, <1>6

\* The function sum of SumOf, and total of Totals.
IsSum(s, x, n) ==
  s = [k \in 0 .. n |-> IF k = 0 THEN 0 ELSE s[k - 1] + x[k - 1]]

IsTotal(s, m, n) ==
  s = [k \in 0 .. n |->
         IF k = 0 THEN ZeroStats ELSE AddThread(s[k - 1], m[k - 1])]

\* There is such a function: one for k and its next value make one for k + 1.
LEMMA SumExists ==
  ASSUME NEW n \in Nat, NEW x
  PROVE  \E s : IsSum(s, x, n) /\ SumOf(x, n) = s[n]
<1> DEFINE G == {k \in 0 .. n : \E s : IsSum(s, x, k)}
<1>1. 0 \in G
  <2> DEFINE s == [k \in 0 .. 0 |-> 0]
  <2>1. IsSum(s, x, 0)
    BY DEF IsSum
  <2> HIDE DEF s
  <2> QED BY <2>1
<1>2. ASSUME NEW k \in 0 .. n - 1, k \in G
      PROVE  k + 1 \in G
  <2>1. PICK s : IsSum(s, x, k)
    BY Zenon, <1>2
  <2> DEFINE t == [j \in 0 .. k + 1 |-> IF j = k + 1 THEN s[k] + x[k] ELSE s[j]]
  <2>2. ASSUME NEW j \in 0 .. k + 1
        PROVE  t[j] = IF j = 0 THEN 0 ELSE t[j - 1] + x[j - 1]
    BY <2>1 DEF IsSum
  <2>3. IsSum(t, x, k + 1)
    BY <2>2 DEF IsSum
  <2> HIDE DEF t
  <2>4. k + 1 \in 0 .. n
    OBVIOUS
  <2> QED BY Zenon, <2>3, <2>4
<1> HIDE DEF G
<1>3. n \in G
  <2>1. \A k \in 0 .. n : k \in G
    BY Zenon, <1>1, <1>2, UpTo
  <2>2. n \in 0 .. n
    OBVIOUS
  <2> QED BY Zenon, <2>1, <2>2
<1>4. \E s : IsSum(s, x, n)
  BY Zenon, <1>3 DEF G
<1> DEFINE c == CHOOSE s : IsSum(s, x, n)
<1>5. SumOf(x, n) = c[n]
  BY Zenon DEF SumOf, IsSum
<1>6. IsSum(c, x, n)
  BY Zenon, <1>4
<1> QED BY Zenon, <1>5, <1>6

\* The same for the totals of the statistics.
LEMMA TotalExists ==
  ASSUME NEW n \in Nat, NEW m
  PROVE  \E s : IsTotal(s, m, n) /\ Totals(m, n) = s[n]
<1> DEFINE G == {k \in 0 .. n : \E s : IsTotal(s, m, k)}
<1>1. 0 \in G
  <2> DEFINE s == [k \in 0 .. 0 |-> ZeroStats]
  <2>1. IsTotal(s, m, 0)
    BY DEF IsTotal
  <2> HIDE DEF s
  <2> QED BY <2>1
<1>2. ASSUME NEW k \in 0 .. n - 1, k \in G
      PROVE  k + 1 \in G
  <2>1. PICK s : IsTotal(s, m, k)
    BY Zenon, <1>2
  <2> DEFINE t == [j \in 0 .. k + 1 |->
                     IF j = k + 1 THEN AddThread(s[k], m[k]) ELSE s[j]]
  <2>2. ASSUME NEW j \in 0 .. k + 1
        PROVE  t[j] = IF j = 0 THEN ZeroStats ELSE AddThread(t[j - 1], m[j - 1])
    BY <2>1 DEF IsTotal
  <2>3. IsTotal(t, m, k + 1)
    BY <2>2 DEF IsTotal
  <2> HIDE DEF t
  <2>4. k + 1 \in 0 .. n
    OBVIOUS
  <2> QED BY Zenon, <2>3, <2>4
<1> HIDE DEF G
<1>3. n \in G
  <2>1. \A k \in 0 .. n : k \in G
    BY Zenon, <1>1, <1>2, UpTo
  <2>2. n \in 0 .. n
    OBVIOUS
  <2> QED BY Zenon, <2>1, <2>2
<1>4. \E s : IsTotal(s, m, n)
  BY Zenon, <1>3 DEF G
<1> DEFINE c == CHOOSE s : IsTotal(s, m, n)
<1>5. Totals(m, n) = c[n]
  BY Zenon DEF Totals, IsTotal
<1>6. IsTotal(c, m, n)
  BY Zenon, <1>4
<1> QED BY Zenon, <1>5, <1>6

\* The partial sums of natural numbers are natural numbers and do not decrease.
LEMMA SumGrows ==
  ASSUME NEW n \in Nat, NEW x, \A k \in 0 .. n - 1 : x[k] \in Nat,
         NEW s, IsSum(s, x, n)
  PROVE  /\ s[0] = 0
         /\ \A k \in 0 .. n - 1 : s[k + 1] = s[k] + x[k]
         /\ \A k \in 0 .. n : s[k] \in Nat /\ s[k] <= s[n]
         /\ \A k \in 0 .. n - 1 : x[k] <= s[n]
<1>1. s[0] = 0
  BY DEF IsSum
<1>2. ASSUME NEW k \in 0 .. n - 1
      PROVE  s[k + 1] = s[k] + x[k]
  BY DEF IsSum
<1> DEFINE G == {k \in 0 .. n : \A j \in 0 .. k : s[j] \in Nat /\ s[j] <= s[k]}
<1>3. 0 \in G
  BY <1>1
<1>4. ASSUME NEW k \in 0 .. n - 1, k \in G
      PROVE  k + 1 \in G
  <2>1. s[k] \in Nat /\ x[k] \in Nat
    BY <1>4
  <2>2. ASSUME NEW j \in 0 .. k + 1
        PROVE  s[j] \in Nat /\ s[j] <= s[k + 1]
    BY <1>2, <1>4, <2>1
  <2>3. k + 1 \in 0 .. n
    OBVIOUS
  <2> QED BY Zenon, <2>2, <2>3
<1>5. n \in 0 .. n
  OBVIOUS
<1>6. n \in G
  <2> HIDE DEF G
  <2>1. \A k \in 0 .. n : k \in G
    BY Zenon, <1>3, <1>4, UpTo
  <2> QED BY Zenon, <1>5, <2>1
<1>7. \A k \in 0 .. n : s[k] \in Nat /\ s[k] <= s[n]
  BY Zenon, <1>6
<1>8. ASSUME NEW k \in 0 .. n - 1
      PROVE  x[k] <= s[n]
  <2>1. s[k] \in Nat /\ s[k + 1] <= s[n] /\ s[n] \in Nat /\ x[k] \in Nat
    BY <1>7
  <2> QED BY <1>2, <2>1
<1> QED BY Zenon, <1>1, <1>2, <1>7, <1>8

\* A sum of natural numbers is one, and is at least each of them.
LEMMA SumType ==
  ASSUME NEW n \in Nat, NEW x, \A k \in 0 .. n - 1 : x[k] \in Nat
  PROVE  /\ SumOf(x, n) \in Nat
         /\ \A k \in 0 .. n - 1 : x[k] <= SumOf(x, n)
<1>1. PICK s : IsSum(s, x, n) /\ SumOf(x, n) = s[n]
  BY Zenon, SumExists
<1>2. n \in 0 .. n
  OBVIOUS
<1> QED BY <1>1, <1>2, SumGrows

\* If every y[t] is at least a times x[t], so is the sum.
LEMMA SumAtLeast ==
  ASSUME NEW n \in Nat, NEW x, NEW y, NEW a \in Nat,
         \A k \in 0 .. n - 1 : x[k] \in Nat /\ y[k] \in Nat /\ a * x[k] <= y[k]
  PROVE  a * SumOf(x, n) <= SumOf(y, n)
<1>1. PICK s : IsSum(s, x, n) /\ SumOf(x, n) = s[n]
  BY Zenon, SumExists
<1>2. PICK r : IsSum(r, y, n) /\ SumOf(y, n) = r[n]
  BY Zenon, SumExists
<1>3. /\ s[0] = 0 /\ r[0] = 0
      /\ \A k \in 0 .. n - 1 : s[k + 1] = s[k] + x[k] /\ r[k + 1] = r[k] + y[k]
      /\ \A k \in 0 .. n : s[k] \in Nat /\ r[k] \in Nat
  BY <1>1, <1>2, SumGrows
<1> DEFINE G == {k \in 0 .. n : a * s[k] <= r[k]}
<1>4. 0 \in G
  BY <1>3
<1>5. ASSUME NEW k \in 0 .. n - 1, k \in G
      PROVE  k + 1 \in G
  <2>1. /\ s[k] \in Nat /\ r[k] \in Nat /\ x[k] \in Nat /\ y[k] \in Nat
        /\ a * s[k] <= r[k] /\ a * x[k] <= y[k] /\ k + 1 \in 0 .. n
    BY <1>3, <1>5
  <2>2. ASSUME NEW b \in Nat, NEW c \in Nat, NEW d \in Nat, NEW e \in Nat,
               a * b <= d, a * c <= e
        PROVE  a * (b + c) <= d + e
    BY <2>2, Z3
  <2>3. a * (s[k] + x[k]) <= r[k] + y[k]
    BY Zenon, <2>1, <2>2
  <2> QED BY Zenon, <1>3, <2>1, <2>3
<1>6. n \in 0 .. n
  OBVIOUS
<1> HIDE DEF G
<1>7. \A k \in 0 .. n : k \in G
  BY Zenon, <1>4, <1>5, UpTo
<1> QED BY Zenon, <1>1, <1>2, <1>6, <1>7 DEF G

\* If every y[t] is less than a times x[t], or both are 0, the same is true of
\* the sums.
LEMMA SumLessThan ==
  ASSUME NEW n \in Nat, NEW x, NEW y, NEW a \in Nat,
         \A k \in 0 .. n - 1 : /\ x[k] \in Nat /\ y[k] \in Nat
                               /\ y[k] < a * x[k] \/ (x[k] = 0 /\ y[k] = 0)
  PROVE  SumOf(y, n) < a * SumOf(x, n) \/ (SumOf(x, n) = 0 /\ SumOf(y, n) = 0)
<1>1. PICK s : IsSum(s, x, n) /\ SumOf(x, n) = s[n]
  BY Zenon, SumExists
<1>2. PICK r : IsSum(r, y, n) /\ SumOf(y, n) = r[n]
  BY Zenon, SumExists
<1>3. \A k \in 0 .. n - 1 : x[k] \in Nat /\ y[k] \in Nat
  BY Zenon
<1>4. /\ s[0] = 0 /\ r[0] = 0
      /\ \A k \in 0 .. n - 1 : s[k + 1] = s[k] + x[k] /\ r[k + 1] = r[k] + y[k]
      /\ \A k \in 0 .. n : s[k] \in Nat /\ r[k] \in Nat
  BY ONLY n \in Nat, <1>3, <1>1, <1>2, SumGrows
<1> DEFINE G == {k \in 0 .. n : r[k] < a * s[k] \/ (s[k] = 0 /\ r[k] = 0)}
<1>5. 0 \in G
  BY <1>4
<1>6. ASSUME NEW k \in 0 .. n - 1, k \in G
      PROVE  k + 1 \in G
  <2>1. /\ s[k] \in Nat /\ r[k] \in Nat /\ x[k] \in Nat /\ y[k] \in Nat
        /\ r[k] < a * s[k] \/ (s[k] = 0 /\ r[k] = 0)
        /\ y[k] < a * x[k] \/ (x[k] = 0 /\ y[k] = 0)
        /\ k + 1 \in 0 .. n
    BY <1>4, <1>6
  <2> DEFINE Less(d, b) == d < a * b \/ (b = 0 /\ d = 0)
  <2>2. ASSUME NEW b \in Nat, NEW c \in Nat, NEW d \in Nat, NEW e \in Nat,
               Less(d, b), Less(e, c)
        PROVE  Less(d + e, b + c)
    BY <2>2, Z3
  <2>3. Less(r[k], s[k]) /\ Less(y[k], x[k])
    BY Zenon, <2>1
  <2>4. Less(r[k] + y[k], s[k] + x[k])
    <3> HIDE DEF Less
    <3> QED BY Zenon, <2>1, <2>2, <2>3
  <2> QED BY Zenon, <1>4, <2>1, <2>4
<1>7. n \in 0 .. n
  OBVIOUS
<1> HIDE DEF G
<1>8. \A k \in 0 .. n : k \in G
  BY Zenon, <1>5, <1>6, UpTo
<1> QED BY Zenon, <1>1, <1>2, <1>7, <1>8 DEF G

\* The quotient of the sums lies between the quotients: were all of them less, the
\* sum of the y[t] would be too small for it, and were all greater, too large.
LEMMA QuotientBetween ==
  ASSUME NEW n \in Nat, n # 0, NEW x, NEW y,
         \A k \in 0 .. n - 1 : /\ x[k] \in Nat /\ y[k] \in Nat
                               /\ x[k] = 0 => y[k] = 0
  PROVE  LET q == Quotient(SumOf(y, n), SumOf(x, n))
         IN /\ q \in Nat
            /\ \E k \in 0 .. n - 1 : Quotient(y[k], x[k]) <= q
            /\ \E k \in 0 .. n - 1 : q <= Quotient(y[k], x[k])
<1> DEFINE X == SumOf(x, n)
           Y == SumOf(y, n)
           q == Quotient(Y, X)
<1>1. /\ X \in Nat /\ Y \in Nat
      /\ \A k \in 0 .. n - 1 : x[k] <= X
  BY Zenon, SumType
<1>2. 0 \in 0 .. n - 1
  OBVIOUS
<1>3. ASSUME NEW k \in 0 .. n - 1
      PROVE  /\ Quotient(y[k], x[k]) \in Nat
             /\ Quotient(y[k], x[k]) * x[k] <= y[k]
             /\ y[k] < (Quotient(y[k], x[k]) + 1) * x[k]
                \/ (x[k] = 0 /\ y[k] = 0)
             /\ x[k] = 0 => Quotient(y[k], x[k]) = 0
  <2>1. x[k] \in Nat /\ y[k] \in Nat /\ (x[k] = 0 => y[k] = 0)
    BY Zenon
  <2>2. CASE x[k] = 0
    BY <2>1, <2>2 DEF Quotient
  <2>3. CASE x[k] # 0
    <3>1. Quotient(y[k], x[k]) = y[k] \div x[k]
      BY Zenon, <2>3 DEF Quotient
    <3>2. x[k] > 0
      BY <2>1, <2>3
    <3> QED BY Zenon, <2>1, <2>3, <3>1, <3>2, DivDef
  <2> QED BY Zenon, <2>2, <2>3
<1>4. CASE X = 0
  <2>1. x[0] = 0
    BY <1>1, <1>2, <1>4
  <2>2. q = 0 /\ Quotient(y[0], x[0]) = 0
    BY Zenon, <1>2, <1>3, <1>4, <2>1 DEF Quotient
  <2> QED BY <1>2, <2>2
<1>5. CASE X # 0
  <2>1. q = Y \div X /\ X > 0
    BY <1>1, <1>5 DEF Quotient
  <2>2. q \in Nat /\ q * X <= Y /\ Y < (q + 1) * X
    BY Zenon, <1>1, <2>1, DivDef
  <2> HIDE DEF X, Y, q
  <2>3. ASSUME \A k \in 0 .. n - 1 : ~ (Quotient(y[k], x[k]) <= q)
        PROVE  FALSE
    <3>1. ASSUME NEW k \in 0 .. n - 1
          PROVE  (q + 1) * x[k] <= y[k]
      <4>1. ASSUME NEW a \in Nat, NEW b \in Nat, NEW c \in Nat,
                   ~ (c <= q), c * b <= a
            PROVE  (q + 1) * b <= a
        BY <2>2, <4>1, Z3
      <4> QED BY Zenon, <1>3, <2>3, <4>1
    <3>2. q + 1 \in Nat
      BY <2>2
    <3>3. (q + 1) * X <= Y
      BY Zenon, <3>1, <3>2, SumAtLeast DEF X, Y
    <3>4. (q + 1) * X \in Nat
      BY Zenon, <1>1, <3>2, ProductNat
    <3> QED BY <1>1, <2>2, <3>3, <3>4
  <2>4. ASSUME \A k \in 0 .. n - 1 : ~ (q <= Quotient(y[k], x[k]))
        PROVE  FALSE
    <3>1. ASSUME NEW k \in 0 .. n - 1
          PROVE  y[k] < q * x[k] \/ (x[k] = 0 /\ y[k] = 0)
      <4>1. ASSUME NEW a \in Nat, NEW b \in Nat, NEW c \in Nat,
                   ~ (q <= c), a < (c + 1) * b
            PROVE  a < q * b
        BY <2>2, <4>1, Z3
      <4> QED BY Zenon, <1>3, <2>4, <4>1
    <3>2. Y < q * X \/ (X = 0 /\ Y = 0)
      BY Zenon, <2>2, <3>1, SumLessThan DEF X, Y
    <3>3. q * X \in Nat
      BY Zenon, <1>1, <2>2, ProductNat
    <3> QED BY <1>1, <1>5, <2>2, <3>2, <3>3
  <2> QED BY Zenon, <2>2, <2>3, <2>4 DEF X, Y, q
<1> QED BY Zenon, <1>4, <1>5

-----------------------------------------------------------------------------
(***************************************************************************)
(* The summary.                                                            *)
(***************************************************************************)
\* One for each thread makes the number of threads.
LEMMA SumOfOnes ==
  ASSUME NEW n \in Nat, NEW x, \A k \in 0 .. n - 1 : x[k] = 1
  PROVE  SumOf(x, n) = n
<1>1. PICK s : IsSum(s, x, n) /\ SumOf(x, n) = s[n]
  BY Zenon, SumExists
<1>2. \A k \in 0 .. n - 1 : x[k] \in Nat
  OBVIOUS
<1>3. s[0] = 0 /\ \A k \in 0 .. n - 1 : s[k + 1] = s[k] + x[k]
  BY <1>1, <1>2, SumGrows
<1> DEFINE G == {k \in 0 .. n : s[k] = k}
<1>4. 0 \in G
  BY <1>3
<1>5. ASSUME NEW k \in 0 .. n - 1, k \in G
      PROVE  k + 1 \in G
  BY <1>3, <1>5
<1>6. n \in 0 .. n
  OBVIOUS
<1> HIDE DEF G
<1>7. \A k \in 0 .. n : k \in G
  BY Zenon, <1>4, <1>5, UpTo
<1> QED BY Zenon, <1>1, <1>6, <1>7 DEF G

\* Adding up in a word that holds the sum is adding up: the partial sums are
\* smaller still.
LEMMA NoWrap ==
  ASSUME NEW n \in Nat, NEW x, \A k \in 0 .. n - 1 : x[k] \in Nat,
         NEW w \in Nat, SumOf(x, n) < w,
         NEW f, f[0] = 0, \A k \in 0 .. n - 1 : f[k + 1] = (f[k] + x[k]) % w
  PROVE  f[n] = SumOf(x, n)
<1>1. PICK s : IsSum(s, x, n) /\ SumOf(x, n) = s[n]
  BY Zenon, SumExists
<1>2. /\ s[0] = 0
      /\ \A k \in 0 .. n - 1 : s[k + 1] = s[k] + x[k]
      /\ \A k \in 0 .. n : s[k] \in Nat /\ s[k] <= s[n]
  BY <1>1, SumGrows
<1> DEFINE G == {k \in 0 .. n : f[k] = s[k]}
<1>3. 0 \in G
  BY <1>2
<1>4. ASSUME NEW k \in 0 .. n - 1, k \in G
      PROVE  k + 1 \in G
  <2>1. k + 1 \in 0 .. n /\ n \in 0 .. n
    OBVIOUS
  <2>2. f[k + 1] = s[k + 1] % w
    BY Zenon, <1>2, <1>4
  <2>3. s[k + 1] \in Nat /\ s[k + 1] < w
    BY <1>1, <1>2, <2>1
  <2> QED BY Zenon, <2>1, <2>2, <2>3, FitsWord
<1>5. n \in 0 .. n
  OBVIOUS
<1> HIDE DEF G
<1>6. \A k \in 0 .. n : k \in G
  BY Zenon, <1>3, <1>4, UpTo
<1> QED BY Zenon, <1>1, <1>5, <1>6 DEF G

\* The bandwidth of a thread is a number.
LEMMA BpsType ==
  ASSUME NEW m \in Counters
  PROVE  ThreadBps(m) \in Nat /\ (m.runtime = 0 => ThreadBps(m) = 0)
<1> DEFINE bytes == m.completed * m.block_size * NSEC_PER_SEC
<1>1. /\ m.completed \in Nat /\ m.block_size \in Nat /\ m.runtime \in Nat
      /\ U64 \in Nat /\ U64 > 0 /\ NSEC_PER_SEC \in Nat
  BY KioStatsAssumption, KioWordsAssumption DEF Counters
<1>2. bytes \in Nat
  BY Zenon, <1>1, ProductNat
<1>3. ThreadBps(m) = Quotient(bytes % U64, m.runtime)
  BY Zenon DEF ThreadBps
<1> HIDE DEF bytes
<1>4. bytes % U64 \in Nat
  BY <1>1, <1>2
<1>5. CASE m.runtime = 0
  BY <1>3, <1>5 DEF Quotient
<1>6. CASE m.runtime # 0
  <2>1. ThreadBps(m) = (bytes % U64) \div m.runtime /\ m.runtime > 0
    BY <1>1, <1>3, <1>6 DEF Quotient
  <2> QED BY Zenon, <1>1, <1>4, <1>6, <2>1, DivDef
<1> QED BY Zenon, <1>5, <1>6

\* The totals are the sums, as long as these fit their words.
LEMMA TotalsAreSums ==
  ASSUME NEW n \in Nat, NEW m, 0 .. n - 1 \subseteq DOMAIN m,
         \A t \in 0 .. n - 1 : m[t] \in Counters, FitTogether(m, n)
  PROVE  LET st == Totals(m, n) IN
         /\ st.num_threads = n
         /\ st.completed = SumOf([t \in DOMAIN m |-> m[t].completed], n)
         /\ st.slat_total = SumOf([t \in DOMAIN m |-> m[t].slat_total], n)
         /\ st.clat_total = SumOf([t \in DOMAIN m |-> m[t].clat_total], n)
         /\ st.bps_total = SumOf([t \in DOMAIN m |-> ThreadBps(m[t])], n)
         /\ st.runtime_total = SumOf([t \in DOMAIN m |-> m[t].runtime], n)
<1>1. PICK s : IsTotal(s, m, n) /\ Totals(m, n) = s[n]
  BY Zenon, TotalExists
<1>2. s[0] = ZeroStats /\ n \in 0 .. n
  BY <1>1 DEF IsTotal
<1>3. ASSUME NEW k \in 0 .. n - 1
      PROVE  /\ k + 1 \in 0 .. n /\ k \in 0 .. n
             /\ s[k + 1].num_threads = (s[k].num_threads + 1) % U32
             /\ s[k + 1].completed = (s[k].completed + m[k].completed) % U64
             /\ s[k + 1].slat_total = (s[k].slat_total + m[k].slat_total) % U64
             /\ s[k + 1].clat_total = (s[k].clat_total + m[k].clat_total) % U64
             /\ s[k + 1].bps_total = (s[k].bps_total + ThreadBps(m[k])) % U64
             /\ s[k + 1].runtime_total = (s[k].runtime_total + m[k].runtime) % U64
  <2>1. k + 1 \in 0 .. n /\ k \in 0 .. n
    OBVIOUS
  <2>2. s[k + 1] = AddThread(s[k], m[k])
    BY <1>1 DEF IsTotal
  <2> QED BY <2>1, <2>2 DEF AddThread
<1>4. U32 \in Nat /\ U64 \in Nat /\ U32 <= U64
  BY Zenon, KioStatsAssumption, KioWordsAssumption
<1> DEFINE ones == [t \in DOMAIN m |-> 1]
           cnt == [t \in DOMAIN m |-> m[t].completed]
           slat == [t \in DOMAIN m |-> m[t].slat_total]
           clat == [t \in DOMAIN m |-> m[t].clat_total]
           bps == [t \in DOMAIN m |-> ThreadBps(m[t])]
           rt == [t \in DOMAIN m |-> m[t].runtime]
<1>5. ASSUME NEW k \in 0 .. n - 1
      PROVE  /\ k \in DOMAIN m /\ ones[k] = 1 /\ ones[k] \in Nat
             /\ cnt[k] = m[k].completed /\ cnt[k] \in Nat
             /\ slat[k] = m[k].slat_total /\ slat[k] \in Nat
             /\ clat[k] = m[k].clat_total /\ clat[k] \in Nat
             /\ bps[k] = ThreadBps(m[k]) /\ bps[k] \in Nat
             /\ rt[k] = m[k].runtime /\ rt[k] \in Nat
  <2>1. m[k] \in Counters /\ k \in DOMAIN m
    BY Zenon
  <2>2. ThreadBps(m[k]) \in Nat
    BY Zenon, <2>1, BpsType
  <2> QED BY <2>1, <2>2 DEF Counters
<1>6. /\ SumOf(cnt, n) < U32 /\ SumOf(slat, n) < U64 /\ SumOf(clat, n) < U64
      /\ SumOf(bps, n) < U64 /\ SumOf(rt, n) < U64 /\ n < U32
  BY Zenon DEF FitTogether
<1> HIDE DEF ones, cnt, slat, clat, bps, rt
<1>7. SumOf(cnt, n) \in Nat /\ SumOf(cnt, n) < U64
  <2>1. SumOf(cnt, n) \in Nat
    BY Zenon, <1>5, SumType
  <2> QED BY <1>4, <1>6, <2>1
<1>8. s[n].num_threads = n
  <2> DEFINE f == [k \in 0 .. n |-> s[k].num_threads]
  <2>1. f[0] = 0 /\ f[n] = s[n].num_threads
    BY <1>2 DEF ZeroStats
  <2>2. ASSUME NEW k \in 0 .. n - 1
        PROVE  f[k + 1] = (f[k] + ones[k]) % U32
    BY Zenon, <1>3, <1>5
  <2>3. SumOf(ones, n) = n
    BY Zenon, <1>5, SumOfOnes
  <2> HIDE DEF f
  <2> QED BY <1>4, <1>5, <1>6, <2>1, <2>2, <2>3, NoWrap
<1>9. s[n].completed = SumOf(cnt, n)
  <2> DEFINE f == [k \in 0 .. n |-> s[k].completed]
  <2>1. f[0] = 0 /\ f[n] = s[n].completed
    BY <1>2 DEF ZeroStats
  <2>2. ASSUME NEW k \in 0 .. n - 1
        PROVE  f[k + 1] = (f[k] + cnt[k]) % U64
    BY Zenon, <1>3, <1>5
  <2> HIDE DEF f
  <2> QED BY <1>4, <1>5, <1>7, <2>1, <2>2, NoWrap
<1>10. s[n].slat_total = SumOf(slat, n)
  <2> DEFINE f == [k \in 0 .. n |-> s[k].slat_total]
  <2>1. f[0] = 0 /\ f[n] = s[n].slat_total
    BY <1>2 DEF ZeroStats
  <2>2. ASSUME NEW k \in 0 .. n - 1
        PROVE  f[k + 1] = (f[k] + slat[k]) % U64
    BY Zenon, <1>3, <1>5
  <2> HIDE DEF f
  <2> QED BY <1>4, <1>5, <1>6, <2>1, <2>2, NoWrap
<1>11. s[n].clat_total = SumOf(clat, n)
  <2> DEFINE f == [k \in 0 .. n |-> s[k].clat_total]
  <2>1. f[0] = 0 /\ f[n] = s[n].clat_total
    BY <1>2 DEF ZeroStats
  <2>2. ASSUME NEW k \in 0 .. n - 1
        PROVE  f[k + 1] = (f[k] + clat[k]) % U64
    BY Zenon, <1>3, <1>5
  <2> HIDE DEF f
  <2> QED BY <1>4, <1>5, <1>6, <2>1, <2>2, NoWrap
<1>12. s[n].bps_total = SumOf(bps, n)
  <2> DEFINE f == [k \in 0 .. n |-> s[k].bps_total]
  <2>1. f[0] = 0 /\ f[n] = s[n].bps_total
    BY <1>2 DEF ZeroStats
  <2>2. ASSUME NEW k \in 0 .. n - 1
        PROVE  f[k + 1] = (f[k] + bps[k]) % U64
    BY Zenon, <1>3, <1>5
  <2> HIDE DEF f
  <2> QED BY <1>4, <1>5, <1>6, <2>1, <2>2, NoWrap
<1>13. s[n].runtime_total = SumOf(rt, n)
  <2> DEFINE f == [k \in 0 .. n |-> s[k].runtime_total]
  <2>1. f[0] = 0 /\ f[n] = s[n].runtime_total
    BY <1>2 DEF ZeroStats
  <2>2. ASSUME NEW k \in 0 .. n - 1
        PROVE  f[k + 1] = (f[k] + rt[k]) % U64
    BY Zenon, <1>3, <1>5
  <2> HIDE DEF f
  <2> QED BY <1>4, <1>5, <1>6, <2>1, <2>2, NoWrap
<1> QED BY Zenon, <1>1, <1>8, <1>9, <1>10, <1>11, <1>12, <1>13
        DEF cnt, slat, clat, bps, rt

\* The latencies and the bandwidth of a line are the numbers it is printed from.
LEMMA LineShows ==
  ASSUME NEW cnt, NEW slat \in Nat, NEW clat \in Nat, NEW iops, NEW bps \in Nat
  PROVE  /\ Line(cnt, slat, clat, iops, bps).slat = slat
         /\ Line(cnt, slat, clat, iops, bps).clat = clat
         /\ Line(cnt, slat, clat, iops, bps).bw = bps \div 1000
<1> DEFINE l == Line(cnt, slat, clat, iops, bps)
<1>1. /\ l.slat = Decimal(slat \div 1000, slat % 1000)
      /\ l.clat = Decimal(clat \div 1000, clat % 1000)
      /\ l.bw = Decimal(bps \div 1000000, (bps \div 1000) % 1000)
  BY DEF Line
<1> QED BY <1>1, ThousandsRoundTrip, MegabytesRoundTrip

\* The summary's bandwidth and latencies lie between those of the threads, for any
\* number of threads and whatever they measured, as long as the sums that
\* kio_run_stats_thread() computes fit their words.
THEOREM SummaryLiesBetween ==
  ASSUME NEW n \in Nat \ {0}, NEW m, 0 .. n - 1 \subseteq DOMAIN m,
         \A t \in 0 .. n - 1 : m[t] \in Counters, FitTogether(m, n)
  PROVE  SummaryIsBetween(m, n)
<1> DEFINE tids == 0 .. n - 1
           ones == [t \in DOMAIN m |-> 1]
           cnt == [t \in DOMAIN m |-> m[t].completed]
           slat == [t \in DOMAIN m |-> m[t].slat_total]
           clat == [t \in DOMAIN m |-> m[t].clat_total]
           bps == [t \in DOMAIN m |-> ThreadBps(m[t])]
           rt == [t \in DOMAIN m |-> m[t].runtime]
           st == Totals(m, n)
           l == [t \in tids |-> ThreadLine(m[t])]
           sum == SummaryLine(st)
           qs == Quotient(SumOf(slat, n), SumOf(cnt, n))
           qc == Quotient(SumOf(clat, n), SumOf(cnt, n))
           qb == Quotient(SumOf(bps, n), n)
<1>1. n \in Nat /\ n # 0 /\ n > 0 /\ 0 \in tids
  OBVIOUS
<1>2. U32 \in Nat /\ U64 \in Nat /\ U32 <= U64
  BY Zenon, KioStatsAssumption, KioWordsAssumption
<1>3. ASSUME NEW k \in tids
      PROVE  /\ ones[k] = 1 /\ ones[k] \in Nat
             /\ cnt[k] = m[k].completed /\ cnt[k] \in Nat
             /\ slat[k] = m[k].slat_total /\ slat[k] \in Nat
             /\ clat[k] = m[k].clat_total /\ clat[k] \in Nat
             /\ bps[k] = ThreadBps(m[k]) /\ bps[k] \in Nat
             /\ rt[k] = m[k].runtime /\ rt[k] \in Nat
             /\ cnt[k] = 0 => slat[k] = 0 /\ clat[k] = 0
             /\ rt[k] = 0 => bps[k] = 0
  <2>1. m[k] \in Counters /\ k \in DOMAIN m
    BY Zenon
  <2>2. ThreadBps(m[k]) \in Nat /\ (m[k].runtime = 0 => ThreadBps(m[k]) = 0)
    BY Zenon, <2>1, BpsType
  <2>3. m[k].completed = 0 => m[k].slat_total = 0 /\ m[k].clat_total = 0
    BY Zenon DEF FitTogether
  <2> QED BY <2>1, <2>2, <2>3 DEF Counters
<1>4. SumOf(cnt, n) < U32
  BY Zenon DEF FitTogether
<1>5. /\ st.num_threads = n /\ st.completed = SumOf(cnt, n)
      /\ st.slat_total = SumOf(slat, n) /\ st.clat_total = SumOf(clat, n)
      /\ st.bps_total = SumOf(bps, n) /\ st.runtime_total = SumOf(rt, n)
  BY Zenon, <1>1, TotalsAreSums
<1>6. SumOf(ones, n) = n
  <2> HIDE DEF ones
  <2> QED BY Zenon, <1>1, <1>3, SumOfOnes
<1> HIDE DEF ones, cnt, slat, clat, bps, rt, st
\* The quotients of the sums lie between those of the threads.
<1>7. /\ qs \in Nat
      /\ \E k \in tids : Quotient(slat[k], cnt[k]) <= qs
      /\ \E k \in tids : qs <= Quotient(slat[k], cnt[k])
  <2>1. \A k \in tids : /\ cnt[k] \in Nat /\ slat[k] \in Nat
                        /\ cnt[k] = 0 => slat[k] = 0
    BY Zenon, <1>3
  <2> QED BY Zenon, <1>1, <2>1, QuotientBetween
<1>8. /\ qc \in Nat
      /\ \E k \in tids : Quotient(clat[k], cnt[k]) <= qc
      /\ \E k \in tids : qc <= Quotient(clat[k], cnt[k])
  <2>1. \A k \in tids : /\ cnt[k] \in Nat /\ clat[k] \in Nat
                        /\ cnt[k] = 0 => clat[k] = 0
    BY Zenon, <1>3
  <2> QED BY Zenon, <1>1, <2>1, QuotientBetween
<1>9. /\ qb \in Nat
      /\ \E k \in tids : bps[k] <= qb
      /\ \E k \in tids : qb <= bps[k]
  <2>1. ASSUME NEW k \in tids
        PROVE  /\ ones[k] \in Nat /\ bps[k] \in Nat /\ (ones[k] = 0 => bps[k] = 0)
               /\ Quotient(bps[k], ones[k]) = bps[k]
    BY <1>3 DEF Quotient
  <2>2. /\ qb \in Nat
        /\ \E k \in tids : Quotient(bps[k], ones[k]) <= qb
        /\ \E k \in tids : qb <= Quotient(bps[k], ones[k])
    BY Zenon, <1>1, <1>6, <2>1, QuotientBetween
  <2> QED BY Zenon, <2>1, <2>2
\* The lines show these quotients.
<1>10. ASSUME NEW k \in tids
       PROVE  /\ l[k].slat = Quotient(slat[k], cnt[k])
              /\ l[k].clat = Quotient(clat[k], cnt[k])
              /\ l[k].bw = bps[k] \div 1000
  <2>1. ASSUME NEW a \in Nat, NEW b \in Nat
        PROVE  Quotient(a, b) \in Nat
    <3>1. b # 0 => b > 0
      BY <2>1
    <3> QED BY Zenon, <2>1, <3>1, DivDef DEF Quotient
  <2>2. /\ Quotient(slat[k], cnt[k]) \in Nat /\ Quotient(clat[k], cnt[k]) \in Nat
        /\ bps[k] \in Nat
    BY Zenon, <1>3, <2>1
  <2>3. l[k] = ThreadLine(m[k])
    BY Zenon
  <2> HIDE DEF l
  <2>4. \E i : l[k] = Line(cnt[k], Quotient(slat[k], cnt[k]),
                           Quotient(clat[k], cnt[k]), i, bps[k])
    BY Zenon, <1>3, <2>3 DEF ThreadLine
  <2> QED BY <2>2, <2>4, LineShows
<1>11. sum.slat = qs /\ sum.clat = qc /\ sum.bw = qb \div 1000
  <2>1. /\ SumOf(cnt, n) \in Nat /\ SumOf(rt, n) \in Nat /\ SumOf(bps, n) \in Nat
        /\ \A k \in tids : rt[k] <= SumOf(rt, n)
    BY Zenon, <1>1, <1>3, SumType
  <2>2. SumOf(cnt, n) % U32 = SumOf(cnt, n)
    BY Zenon, <1>2, <1>4, <2>1, FitsWord
  <2>3. qb = IF st.runtime_total > 0 /\ st.num_threads > 0
               THEN Quotient(st.bps_total, st.num_threads) ELSE 0
    <3>1. CASE SumOf(rt, n) > 0
      BY Zenon, <1>1, <1>5, <3>1
    <3>2. CASE ~ (SumOf(rt, n) > 0)
      <4>1. ASSUME NEW k \in tids PROVE bps[k] = 0
        <5>1. rt[k] = 0
          BY <1>3, <2>1, <3>2
        <5> QED BY Zenon, <1>3, <5>1
      <4>2. qb = 0
        BY <1>9, <4>1
      <4> QED BY Zenon, <1>5, <3>2, <4>2
    <3> QED BY Zenon, <3>1, <3>2
  <2>4. \E i : sum = Line(SumOf(cnt, n), qs, qc, i, qb)
    BY Zenon, <1>5, <2>2, <2>3 DEF SummaryLine
  <2> HIDE DEF sum
  <2> QED BY <1>7, <1>8, <1>9, <2>4, LineShows
<1> HIDE DEF l, sum, qs, qc, qb
<1>12. Between(sum.slat, {l[t].slat : t \in tids})
  BY <1>7, <1>10, <1>11 DEF Between
<1>13. Between(sum.clat, {l[t].clat : t \in tids})
  BY <1>8, <1>10, <1>11 DEF Between
<1>14. Between(sum.bw, {l[t].bw : t \in tids})
  <2>1. ASSUME NEW a \in Nat, NEW b \in Nat, a <= b
        PROVE  a \div 1000 <= b \div 1000
    BY <2>1, Z3
  <2>2. /\ \E k \in tids : bps[k] \div 1000 <= qb \div 1000
        /\ \E k \in tids : qb \div 1000 <= bps[k] \div 1000
    BY <1>3, <1>9, <2>1
  <2> QED BY <1>10, <1>11, <2>2 DEF Between
<1> QED BY Zenon, <1>12, <1>13, <1>14 DEF SummaryIsBetween, l, sum, st

-----------------------------------------------------------------------------
(***************************************************************************)
(* The summary's I/Os per second.                                          *)
(***************************************************************************)
\* Dividing by b and then by c is dividing by b * c.
LEMMA DivProduct ==
  ASSUME NEW a \in Nat, NEW b \in Nat, NEW c \in Nat, b > 0, c > 0
  PROVE  a \div (b * c) = (a \div b) \div c
<1> DEFINE q == a \div b
           r == q \div c
           d == a \div (b * c)
<1>1. b * c \in Nat /\ b * c > 0
  BY Z3
<1>2. q \in Nat /\ q * b <= a /\ a < (q + 1) * b
  BY Zenon, DivDef
<1>3. r \in Nat /\ r * c <= q /\ q < (r + 1) * c
  BY Zenon, <1>2, DivDef
<1>4. d \in Nat /\ d * (b * c) <= a /\ a < (d + 1) * (b * c)
  BY Zenon, <1>1, DivDef
<1> HIDE DEF q, r, d
<1>5. r * (b * c) <= a
  <2>1. (r * c) * b <= q * b
    BY <1>2, <1>3, Z3
  <2>2. (r * c) * b = r * (b * c)
    BY <1>3, Z3
  <2>3. r * (b * c) \in Nat /\ q * b \in Nat
    BY Zenon, <1>1, <1>2, <1>3, ProductNat
  <2> QED BY <1>2, <2>1, <2>2, <2>3
<1>6. a < (r + 1) * (b * c)
  <2>1. q + 1 <= (r + 1) * c
    <3>1. (r + 1) * c \in Nat
      BY <1>3, Z3
    <3> QED BY <1>2, <1>3, <3>1
  <2>2. (q + 1) * b <= ((r + 1) * c) * b
    <3>1. ASSUME NEW x \in Nat, NEW y \in Nat, x <= y
          PROVE  x * b <= y * b
      BY <3>1, Z3
    <3>2. q + 1 \in Nat /\ (r + 1) * c \in Nat
      BY <1>2, <1>3, Z3
    <3> QED BY Zenon, <2>1, <3>1, <3>2
  <2>3. ((r + 1) * c) * b = (r + 1) * (b * c)
    BY <1>3, Z3
  <2>4. (r + 1) * (b * c) \in Nat /\ (q + 1) * b \in Nat
    BY <1>2, <1>3, Z3
  <2> QED BY <1>2, <2>2, <2>3, <2>4
<1>7. ASSUME NEW e \in Nat, NEW x \in Nat, NEW y \in Nat,
             x * e <= a, a < (y + 1) * e
      PROVE  x <= y
  BY <1>7, Z3
<1>8. d <= r /\ r <= d
  BY Zenon, <1>1, <1>3, <1>4, <1>5, <1>6, <1>7
<1> QED BY <1>3, <1>4, <1>8 DEF q, r, d

\* A factor of every number is one of the sum.
LEMMA SumTimes ==
  ASSUME NEW n \in Nat, NEW x, NEW y, NEW a \in Nat,
         \A k \in 0 .. n - 1 : x[k] \in Nat /\ y[k] = x[k] * a
  PROVE  SumOf(y, n) = SumOf(x, n) * a
<1>1. PICK s : IsSum(s, x, n) /\ SumOf(x, n) = s[n]
  BY Zenon, SumExists
<1>2. PICK r : IsSum(r, y, n) /\ SumOf(y, n) = r[n]
  BY Zenon, SumExists
<1>3. \A k \in 0 .. n - 1 : x[k] \in Nat /\ y[k] \in Nat
  BY Zenon, ProductNat
<1>4. /\ s[0] = 0 /\ r[0] = 0
      /\ \A k \in 0 .. n - 1 : s[k + 1] = s[k] + x[k] /\ r[k + 1] = r[k] + y[k]
      /\ \A k \in 0 .. n : s[k] \in Nat /\ r[k] \in Nat
  BY <1>1, <1>2, <1>3, SumGrows
<1> DEFINE G == {k \in 0 .. n : r[k] = s[k] * a}
<1>5. 0 \in G
  BY <1>4
<1>6. ASSUME NEW k \in 0 .. n - 1, k \in G
      PROVE  k + 1 \in G
  <2>1. s[k] \in Nat /\ x[k] \in Nat /\ r[k] = s[k] * a /\ y[k] = x[k] * a
        /\ k + 1 \in 0 .. n
    BY <1>3, <1>4, <1>6
  <2>2. ASSUME NEW b \in Nat, NEW c \in Nat
        PROVE  b * a + c * a = (b + c) * a
    BY Z3
  <2>3. r[k] + y[k] = (s[k] + x[k]) * a
    BY Zenon, <2>1, <2>2
  <2> QED BY Zenon, <1>4, <2>1, <2>3
<1>7. n \in 0 .. n
  OBVIOUS
<1> HIDE DEF G
<1>8. \A k \in 0 .. n : k \in G
  BY Zenon, <1>5, <1>6, UpTo
<1> QED BY Zenon, <1>1, <1>2, <1>7, <1>8 DEF G

\* The summary's I/Os per second are the n-th part of a number that lies between
\* those of the n threads, for any number of threads and whatever they measured, as
\* long as the words hold it: kio_run_stats_total() divides by the threads' summed
\* runtime and by their number.
THEOREM SummaryIopsAreDivided ==
  ASSUME NEW n \in Nat \ {0}, NEW m, 0 .. n - 1 \subseteq DOMAIN m,
         \A t \in 0 .. n - 1 : m[t] \in Counters /\ Fits(m[t]),
         FitTogether(m, n), FitSummary(m, n)
  PROVE  SummaryIopsDivided(m, n)
<1> DEFINE tids == 0 .. n - 1
           cnt == [t \in DOMAIN m |-> m[t].completed]
           rt == [t \in DOMAIN m |-> m[t].runtime]
           ios == [t \in DOMAIN m |-> m[t].completed * NSEC_PER_SEC]
           iops == [t \in tids |-> ThreadLine(m[t]).iops]
           C == SumOf(cnt, n)
           R == SumOf(rt, n)
           mean == Quotient(C * NSEC_PER_SEC, R)
           st == Totals(m, n)
<1>1. /\ n \in Nat /\ n # 0 /\ n > 0 /\ 0 \in tids
      /\ U32 \in Nat /\ U64 \in Nat /\ NSEC_PER_SEC \in Nat
  BY KioStatsAssumption, KioWordsAssumption
<1>2. ASSUME NEW k \in tids
      PROVE  /\ cnt[k] = m[k].completed /\ cnt[k] \in Nat
             /\ rt[k] = m[k].runtime /\ rt[k] \in Nat
             /\ ios[k] = cnt[k] * NSEC_PER_SEC
             /\ m[k] \in Counters /\ Fits(m[k])
  <2>1. m[k] \in Counters /\ Fits(m[k]) /\ k \in DOMAIN m
    BY Zenon
  <2>2. m[k].completed \in Nat /\ m[k].runtime \in Nat
    BY <2>1 DEF Counters
  <2> QED BY Zenon, <2>1, <2>2
<1>3. /\ C < U32 /\ C * NSEC_PER_SEC < U64 /\ R * n < U64
  BY Zenon DEF FitTogether, FitSummary
<1>4. st.num_threads = n /\ st.completed = C /\ st.runtime_total = R
  BY Zenon, <1>1, <1>2, TotalsAreSums
<1> HIDE DEF cnt, rt, ios, st
\* A thread that fits has run for some time.
<1>5. ASSUME NEW k \in tids
      PROVE  /\ ios[k] \in Nat /\ rt[k] > 0
             /\ iops[k] = Quotient(ios[k], rt[k]) /\ iops[k] < U32
  <2>1. ios[k] \in Nat /\ ios[k] < U64 /\ ios[k] < U32 * rt[k]
    BY Zenon, <1>1, <1>2, ProductNat DEF Fits
  <2>2. rt[k] > 0
    BY <1>1, <1>2, <2>1
  <2>3. ios[k] % U64 = ios[k]
    BY Zenon, <1>1, <2>1, FitsWord
  <2>4. ThreadLine(m[k]).iops = Quotient(ios[k] % U64, rt[k]) % U32
    <3>1. ThreadLine(m[k]).iops
            = Quotient((m[k].completed * NSEC_PER_SEC) % U64, m[k].runtime) % U32
      BY DEF ThreadLine, Line
    <3> QED BY Zenon, <1>2, <3>1
  <2>5. Quotient(ios[k], rt[k]) = ios[k] \div rt[k]
    BY <1>2, <2>2 DEF Quotient
  <2>6. ios[k] \div rt[k] \in Nat /\ ios[k] \div rt[k] < U32
    BY Zenon, <1>1, <1>2, <2>1, <2>2, DivDef, DivBound
  <2>7. (ios[k] \div rt[k]) % U32 = ios[k] \div rt[k]
    BY Zenon, <1>1, <2>6, FitsWord
  <2> QED BY Zenon, <2>1, <2>2, <2>3, <2>4, <2>5, <2>6, <2>7
<1> HIDE DEF iops
\* Their mean lies between what they did.
<1>6. SumOf(ios, n) = C * NSEC_PER_SEC
  <2>1. \A k \in tids : cnt[k] \in Nat /\ ios[k] = cnt[k] * NSEC_PER_SEC
    BY Zenon, <1>2
  <2> QED BY <1>1, <2>1, SumTimes
<1>7. /\ C \in Nat /\ R \in Nat /\ R > 0
  <2>1. C \in Nat /\ R \in Nat /\ \A k \in tids : rt[k] <= R
    BY Zenon, <1>1, <1>2, SumType
  <2>2. rt[0] \in Nat /\ rt[0] > 0 /\ rt[0] <= R
    BY Zenon, <1>1, <1>2, <1>5, <2>1
  <2> QED BY <2>1, <2>2
<1>8. /\ mean \in Nat
      /\ \E k \in tids : iops[k] <= mean
      /\ \E k \in tids : mean <= iops[k]
  <2>1. \A k \in tids : /\ rt[k] \in Nat /\ ios[k] \in Nat
                        /\ rt[k] = 0 => ios[k] = 0
    <3>1. ASSUME NEW k \in tids PROVE rt[k] # 0
      BY <1>2, <1>5
    <3> QED BY Zenon, <1>2, <1>5, <3>1
  <2>2. /\ Quotient(SumOf(ios, n), SumOf(rt, n)) \in Nat
        /\ \E k \in tids :
              Quotient(ios[k], rt[k]) <= Quotient(SumOf(ios, n), SumOf(rt, n))
        /\ \E k \in tids :
              Quotient(SumOf(ios, n), SumOf(rt, n)) <= Quotient(ios[k], rt[k])
    BY Zenon, <1>1, <2>1, QuotientBetween
  <2> QED BY Zenon, <1>5, <1>6, <2>2
\* The summary divides it by n.
<1>9. SummaryLine(st).iops = mean \div n
  <2>1. C % U32 = C
    BY Zenon, <1>1, <1>3, <1>7, FitsWord
  <2>2. /\ C * NSEC_PER_SEC \in Nat /\ R * n \in Nat
        /\ (C * NSEC_PER_SEC) % U64 = C * NSEC_PER_SEC
        /\ (R * n) % U64 = R * n
    BY Zenon, <1>1, <1>3, <1>7, ProductNat, FitsWord
  <2>3. R * n # 0
    <3>1. ASSUME NEW a \in Nat, NEW b \in Nat, a > 0, b > 0 PROVE a * b # 0
      BY <3>1, Z3
    <3> QED BY Zenon, <1>1, <1>7, <3>1
  <2>4. SummaryLine(st).iops
          = Quotient((C * NSEC_PER_SEC) % U64, (R * n) % U64) % U32
    <3> HIDE DEF C, R
    <3>1. SummaryLine(st).iops =
            IF st.runtime_total > 0 /\ st.num_threads > 0
            THEN Quotient(((st.completed % U32) * NSEC_PER_SEC) % U64,
                          (st.runtime_total * st.num_threads) % U64) % U32
            ELSE 0
      BY DEF SummaryLine, Line
    <3> QED BY Zenon, <1>1, <1>4, <1>7, <2>1, <3>1
  <2>5. mean = (C * NSEC_PER_SEC) \div R
    <3>1. R # 0
      BY <1>7
    <3> QED BY Zenon, <3>1 DEF Quotient
  <2>6. Quotient(C * NSEC_PER_SEC, R * n) = mean \div n
    <3>1. (C * NSEC_PER_SEC) \div (R * n) = ((C * NSEC_PER_SEC) \div R) \div n
      <4> HIDE DEF C, R
      <4>1. n \in Nat /\ n > 0 /\ R \in Nat /\ R > 0 /\ C * NSEC_PER_SEC \in Nat
        BY Zenon, <1>1, <1>7, <2>2
      <4> QED BY Zenon, <4>1, DivProduct
    <3>2. Quotient(C * NSEC_PER_SEC, R * n) = (C * NSEC_PER_SEC) \div (R * n)
      BY Zenon, <2>3 DEF Quotient
    <3> HIDE DEF mean
    <3> QED BY Zenon, <2>5, <3>1, <3>2
  <2>7. mean \div n \in Nat /\ mean \div n < U32
    <3> HIDE DEF mean
    <3>1. PICK k \in tids : mean <= iops[k] /\ iops[k] < U32
      BY Zenon, <1>5, <1>8
    <3>2. iops[k] \in Nat
      <4>1. rt[k] \in Nat /\ rt[k] > 0 /\ rt[k] # 0
        BY <1>2, <1>5
      <4> QED BY Zenon, <1>5, <4>1, DivDef DEF Quotient
    <3>3. mean < U32
      BY <1>1, <1>8, <3>1, <3>2
    <3>4. ASSUME NEW a \in Nat, NEW b \in Nat, b > 0 PROVE a \div b <= a
      BY <3>4, Z3
    <3>5. mean \div n \in Nat /\ mean \div n <= mean
      BY Zenon, <1>1, <1>8, <3>4, DivDef
    <3> QED BY <1>1, <1>8, <3>3, <3>5
  <2>8. (mean \div n) % U32 = mean \div n
    BY Zenon, <1>1, <2>7, FitsWord
  <2> QED BY Zenon, <2>2, <2>4, <2>6, <2>8
<1> HIDE DEF mean
<1>10. Between(mean, {ThreadLine(m[t]).iops : t \in tids})
  BY <1>8 DEF Between, iops
<1> QED BY Zenon, <1>9, <1>10 DEF SummaryIopsDivided, mean, cnt, rt, st

\* The lines of a run show what its threads measured, for any number of threads.
THEOREM LinesShowAverages ==
  ASSUME NEW n \in Nat \ {0}, NEW m, 0 .. n - 1 \subseteq DOMAIN m,
         \A t \in 0 .. n - 1 : m[t] \in Counters
  PROVE  ShowsAverages(m, n)
BY Zenon, ThreadLineIsAverage, SummaryLiesBetween, SummaryIopsAreDivided
   DEF ShowsAverages
=============================================================================
