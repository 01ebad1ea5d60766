--------------------------- MODULE KioIssueProofs ---------------------------
(***************************************************************************)
(* What KioIssue promises, for every device size and logical block size,   *)
(* every configuration and every random number.                            *)
(***************************************************************************)
EXTENDS KioIssue, TLAPS

\* The window of an accepted configuration.
Window ==
  /\ ktc.block_size = PAGE_SIZE
  /\ ktc.offset_stride > 0
  /\ 0 <= ktc.offset_low
  /\ ktc.offset_low < ktc.offset_high
  /\ ktc.offset_high + ktc.block_size <= DevSize

\* Where the strided workload stands.
Standing ==
  /\ 0 <= th.next_offset
  /\ th.next_offset < ktc.offset_high
  /\ io.nth > 0 /\ ~ktc.offset_random =>
       th.next_offset + ktc.block_size >= ktc.offset_low

\* What the last offset is known to be.
LastOffset == OffsetsAccepted /\ OffsetsBelowHigh /\ OffsetsNearWindow

\* Only a mixed workload draws its bursts.
Mixed == 0 < ktc.read_mix_percent /\ ktc.read_mix_percent < 100

\* The counters of the burst: what was issued and what is left make up its
\* length, and the counter of the other direction is zero.
BurstBooks ==
  /\ th.read_burst >= 0 /\ th.write_burst >= 0
  /\ th.was_write => th.read_burst = 0
  /\ ~th.was_write => th.write_burst = 0
  /\ burst.open =>
       /\ Mixed
       /\ io.is_write = th.was_write
       /\ burst.ios + th.read_burst + th.write_burst = BurstLength(io.is_write)
  /\ ~burst.open => th.read_burst = 0 /\ th.write_burst = 0

OffsetInv ==
  /\ TypeOK
  /\ phase = "running" => Window /\ Standing
  /\ phase # "running" => io.nth = 0 /\ th.next_offset = 0
  /\ LastOffset

BurstInv ==
  /\ phase # "running" => ~burst.open
  /\ ~burst.open => burst.sleeps = 0
  /\ BurstBooks
  /\ OneDelayPerBurst

IssueInv == OffsetInv /\ BurstInv

-----------------------------------------------------------------------------
\* Rounding down to a logical block gives a block at most one block lower.
LEMMA RoundDownBlock ==
  ASSUME NEW x \in Nat
  PROVE  /\ RoundDown(x, DevBlockSize) \in Nat
         /\ RoundDown(x, DevBlockSize) <= x
         /\ RoundDown(x, DevBlockSize) + DevBlockSize > x
         /\ RoundDown(x, DevBlockSize) % DevBlockSize = 0
<1>1. CASE DevBlockSize = 512
  BY <1>1 DEF RoundDown
<1>2. CASE DevBlockSize = 1024
  BY <1>2 DEF RoundDown
<1>3. CASE DevBlockSize = 2048
  BY <1>3 DEF RoundDown
<1>4. CASE DevBlockSize = 4096
  BY <1>4 DEF RoundDown
<1> QED BY <1>1, <1>2, <1>3, <1>4, KioIssueAssumption

\* A random offset lies within the window.
LEMMA DrawWithinRange ==
  ASSUME NEW rnd \in Nat, NEW range \in Nat, range > 0
  PROVE  rnd % range \in Nat /\ rnd % range < range
OBVIOUS

\* From inside the window, or from before it, the stride leads to where the
\* next I/O ends within the window, or back to its start.
LEMMA AdvanceWithinWindow ==
  ASSUME TypeOK, Window, NEW next \in Nat
  PROVE  LET to == AdvanceOffset(ktc, next)
         IN  /\ to \in Nat
             /\ to < ktc.offset_high
             /\ to + ktc.block_size >= ktc.offset_low
BY DEF TypeOK, ThreadConfig, Window, AdvanceOffset, PAGE_SIZE

\* What kio_thread_next_dir() returns.
DirIs(dir, w, rb, wb, nb) ==
  /\ dir.is_write = w
  /\ dir.dir_changed = (th.was_write # w)
  /\ dir.new_burst = nb
  /\ dir.read_burst = rb
  /\ dir.write_burst = wb

\* The six ways kio_thread_next_dir() ends: a burst goes on, the workload is
\* pure, or a burst is drawn.
NextDirIs(dir) ==
  \/ /\ th.read_burst > 0
     /\ DirIs(dir, FALSE, th.read_burst - 1, th.write_burst, FALSE)
  \/ /\ th.read_burst = 0 /\ th.write_burst > 0
     /\ DirIs(dir, TRUE, 0, th.write_burst - 1, FALSE)
  \/ /\ th.read_burst = 0 /\ th.write_burst = 0 /\ ~Mixed
     /\ DirIs(dir, FALSE, 0, 0, FALSE) \/ DirIs(dir, TRUE, 0, 0, FALSE)
  \/ /\ th.read_burst = 0 /\ th.write_burst = 0 /\ Mixed
     /\ \/ DirIs(dir, FALSE, BurstLeft(ktc.read_burst), 0, TRUE)
        \/ DirIs(dir, TRUE, 0, BurstLeft(ktc.write_burst), TRUE)

\* kio_thread_next_dir() ends in one of these ways.
LEMMA NextDirCases ==
  ASSUME TypeOK, th.read_burst >= 0, th.write_burst >= 0,
         NEW drawsRead \in BOOLEAN
  PROVE  NextDirIs(kio_thread_next_dir(ktc, th, drawsRead))
<1> DEFINE dir == kio_thread_next_dir(ktc, th, drawsRead)
<1>1. th.read_burst \in Int /\ th.write_burst \in Int
  BY DEF TypeOK, NextFields
<1>2. ktc.read_mix_percent \in Int
  BY Zenon DEF TypeOK, ThreadConfig
<1>3. CASE th.read_burst > 0
  <2>1. DirIs(dir, FALSE, th.read_burst - 1, th.write_burst, FALSE)
    <3>1. dir = [is_write |-> FALSE, dir_changed |-> th.was_write # FALSE,
                 new_burst |-> FALSE, read_burst |-> th.read_burst - 1,
                 write_burst |-> th.write_burst]
      BY Zenon, <1>1, <1>3 DEF kio_thread_next_dir
    <3> HIDE DEF dir
    <3> QED BY Zenon, <3>1 DEF DirIs
  <2> QED BY Zenon, <1>3, <2>1 DEF NextDirIs
<1>4. CASE th.read_burst = 0 /\ th.write_burst > 0
  <2>1. DirIs(dir, TRUE, 0, th.write_burst - 1, FALSE)
    <3>1. dir = [is_write |-> TRUE, dir_changed |-> th.was_write # TRUE,
                 new_burst |-> FALSE, read_burst |-> 0,
                 write_burst |-> th.write_burst - 1]
      BY <1>1, <1>4 DEF kio_thread_next_dir
    <3> HIDE DEF dir
    <3> QED BY Zenon, <3>1 DEF DirIs
  <2> QED BY Zenon, <1>4, <2>1 DEF NextDirIs
<1>5. CASE th.read_burst = 0 /\ th.write_burst = 0
  <2>1. CASE ktc.read_mix_percent >= 100
    <3>1. DirIs(dir, FALSE, 0, 0, FALSE)
      <4>1. dir = [is_write |-> FALSE, dir_changed |-> th.was_write # FALSE,
                   new_burst |-> FALSE, read_burst |-> 0,
                   write_burst |-> 0]
        BY <1>1, <1>2, <1>5, <2>1 DEF kio_thread_next_dir
      <4> HIDE DEF dir
      <4> QED BY Zenon, <4>1 DEF DirIs
    <3>2. ~Mixed
      BY <1>2, <2>1 DEF Mixed
    <3> QED BY Zenon, <1>5, <3>1, <3>2 DEF NextDirIs
  <2>2. CASE ktc.read_mix_percent < 1
    <3>1. DirIs(dir, TRUE, 0, 0, FALSE)
      <4>1. dir = [is_write |-> TRUE, dir_changed |-> th.was_write # TRUE,
                   new_burst |-> FALSE, read_burst |-> 0,
                   write_burst |-> 0]
        BY <1>1, <1>2, <1>5, <2>2 DEF kio_thread_next_dir
      <4> HIDE DEF dir
      <4> QED BY Zenon, <4>1 DEF DirIs
    <3>2. ~Mixed
      BY <1>2, <2>2 DEF Mixed
    <3> QED BY Zenon, <1>5, <3>1, <3>2 DEF NextDirIs
  <2>3. CASE Mixed /\ drawsRead
    <3>1. DirIs(dir, FALSE, BurstLeft(ktc.read_burst), 0, TRUE)
      <4>1. dir = [is_write |-> FALSE, dir_changed |-> th.was_write # FALSE,
                   new_burst |-> TRUE, read_burst |-> BurstLeft(ktc.read_burst),
                   write_burst |-> 0]
        BY <1>1, <1>2, <1>5, <2>3 DEF kio_thread_next_dir, Mixed
      <4> HIDE DEF dir
      <4> QED BY Zenon, <4>1 DEF DirIs
    <3> QED BY Zenon, <1>5, <2>3, <3>1 DEF NextDirIs
  <2>4. CASE Mixed /\ ~drawsRead
    <3>1. DirIs(dir, TRUE, 0, BurstLeft(ktc.write_burst), TRUE)
      <4>1. dir = [is_write |-> TRUE, dir_changed |-> th.was_write # TRUE,
                   new_burst |-> TRUE, read_burst |-> 0,
                   write_burst |-> BurstLeft(ktc.write_burst)]
        BY <1>1, <1>2, <1>5, <2>4 DEF kio_thread_next_dir, Mixed
      <4> HIDE DEF dir
      <4> QED BY Zenon, <4>1 DEF DirIs
    <3> QED BY Zenon, <1>5, <2>4, <3>1 DEF NextDirIs
  <2>5. \/ ktc.read_mix_percent >= 100 \/ ktc.read_mix_percent < 1 \/ Mixed
    BY <1>2 DEF Mixed
  <2> QED BY Zenon, <2>1, <2>2, <2>3, <2>4, <2>5
<1>6. \/ th.read_burst > 0
      \/ th.read_burst = 0 /\ th.write_burst > 0
      \/ th.read_burst = 0 /\ th.write_burst = 0
  BY <1>1
<1> QED BY Zenon, <1>3, <1>4, <1>5, <1>6

\* The next offset, and where the workload goes on from there.
LEMMA NextOffsetGood ==
  ASSUME TypeOK, Window, Standing, NEW rnd \in Nat
  PROVE  LET off == kio_thread_next_offset(ktc, th.next_offset, DevBlockSize, rnd)
         IN  /\ off.next_offset \in Nat
             /\ off.next_offset < ktc.offset_high
             /\ ~ktc.offset_random =>
                  off.next_offset + ktc.block_size >= ktc.offset_low
             /\ off.offset \in Nat
             /\ off.offset < ktc.offset_high
             /\ off.offset % DevBlockSize = 0
             /\ io.nth > 0 =>
                  off.offset + ktc.block_size + DevBlockSize > ktc.offset_low
<1> DEFINE off == kio_thread_next_offset(ktc, th.next_offset, DevBlockSize, rnd)
           range == ktc.offset_high - ktc.offset_low
<1>1. /\ th.next_offset \in Nat /\ ktc.offset_low \in Nat
      /\ ktc.offset_high \in Nat /\ range \in Nat /\ range > 0
      /\ ktc.offset_stride \in Nat /\ ktc.block_size \in Nat
      /\ ktc.offset_random \in BOOLEAN
  BY DEF TypeOK, ThreadConfig, NextFields, Window, Standing, PAGE_SIZE
<1>2. DevBlockSize \in Nat /\ DevBlockSize > 0
  BY KioIssueAssumption
<1>3. CASE ktc.offset_random
  <2>1. rnd % range \in Nat /\ rnd % range < range
    BY Zenon, <1>1, DrawWithinRange
  <2> DEFINE at == ktc.offset_low + (rnd % range)
  <2>2. at \in Nat /\ ktc.offset_low <= at /\ at < ktc.offset_high
    <3> HIDE DEF range
    <3>1. \A r \in Nat : r < range =>
            /\ ktc.offset_low + r \in Nat /\ ktc.offset_low <= ktc.offset_low + r
            /\ ktc.offset_low + r < ktc.offset_high
      BY <1>1 DEF range
    <3> QED BY Zenon, <2>1, <3>1
  <2>3. off = [offset |-> RoundDown(at, DevBlockSize),
               next_offset |-> th.next_offset]
    BY <1>1, <1>2, <1>3 DEF kio_thread_next_offset
  <2> HIDE DEF at
  <2>4. /\ RoundDown(at, DevBlockSize) \in Nat
        /\ RoundDown(at, DevBlockSize) <= at
        /\ RoundDown(at, DevBlockSize) + DevBlockSize > at
        /\ RoundDown(at, DevBlockSize) % DevBlockSize = 0
    BY Zenon, <2>2, RoundDownBlock
  <2> HIDE DEF off
  <2> QED BY <1>1, <1>2, <1>3, <2>2, <2>3, <2>4 DEF Standing, off
<1>4. CASE ~ktc.offset_random
  <2> DEFINE next == th.next_offset + ktc.offset_stride
  <2>1. off = [offset |-> RoundDown(th.next_offset, DevBlockSize),
               next_offset |-> AdvanceOffset(ktc, next)]
    BY <1>1, <1>2, <1>4 DEF kio_thread_next_offset
  <2>2. next \in Nat
    BY <1>1
  <2> HIDE DEF next
  <2>3. /\ AdvanceOffset(ktc, next) \in Nat
        /\ AdvanceOffset(ktc, next) < ktc.offset_high
        /\ AdvanceOffset(ktc, next) + ktc.block_size >= ktc.offset_low
    BY Zenon, <2>2, AdvanceWithinWindow
  <2>4. /\ RoundDown(th.next_offset, DevBlockSize) \in Nat
        /\ RoundDown(th.next_offset, DevBlockSize) <= th.next_offset
        /\ RoundDown(th.next_offset, DevBlockSize) + DevBlockSize
             > th.next_offset
        /\ RoundDown(th.next_offset, DevBlockSize) % DevBlockSize = 0
    BY Zenon, <1>1, RoundDownBlock
  <2> HIDE DEF off
  <2> QED BY <1>1, <1>2, <1>4, <2>1, <2>3, <2>4 DEF Standing, off
<1> QED BY Zenon, <1>1, <1>3, <1>4

\* Before anything is issued, everything is at zero.
LEMMA InitIssueInv == Init => IssueInv
BY KioIssueAssumption
   DEF Init, IssueInv, OffsetInv, BurstInv, TypeOK, NextFields, IO, Burst,
       LastOffset, OffsetsAccepted, OffsetsBelowHigh, OffsetsNearWindow,
       BurstBooks, OneDelayPerBurst

\* The check lets only a window pass that lies within the device, which is
\* what its correction of offset_high is for.
LEMMA ValidateKeepsIssueInv == IssueInv /\ Validate => IssueInv'
<1> SUFFICES ASSUME IssueInv, Validate PROVE IssueInv'
  OBVIOUS
<1>1. ktc \in ThreadConfig /\ DevSize \in Int
  BY KioIssueAssumption DEF IssueInv, OffsetInv, TypeOK
<1>2. ktc' = Corrected(ktc, DevSize) /\ UNCHANGED <<th, io, burst>>
  BY Zenon DEF Validate
<1>3. \/ ktc' = ktc
      \/ ktc' = [ktc EXCEPT !.offset_high = DevSize - ktc.block_size]
  BY Zenon, <1>2 DEF Corrected, CapHigh
<1>4. ktc' \in ThreadConfig
  BY <1>1, <1>3 DEF ThreadConfig
<1>5. TypeOK'
  BY Zenon, <1>2, <1>4 DEF Validate, IssueInv, OffsetInv, TypeOK
<1>6. io.nth = 0 /\ th.next_offset = 0 /\ ~burst.open
  BY Zenon DEF Validate, IssueInv, OffsetInv, BurstInv
<1>7. ASSUME phase' = "running" PROVE Window' /\ Standing'
  <2>1. /\ kio_config_is_valid(ktc, DevSize) /\ ktc.block_size = PAGE_SIZE
        /\ FitsDevice(ktc, DevSize) /\ ktc' = CapHigh(ktc, DevSize)
    BY Zenon, <1>2, <1>7 DEF Validate, kio_config_is_valid, Corrected
  <2>2. /\ ktc'.block_size = ktc.block_size
        /\ ktc'.offset_low = ktc.offset_low
        /\ ktc'.offset_stride = ktc.offset_stride
        /\ ktc'.offset_high = IF ktc.offset_high + ktc.block_size > DevSize
                              THEN DevSize - ktc.block_size
                              ELSE ktc.offset_high
    BY Zenon, <1>1, <2>1 DEF CapHigh, NeedsCap, ThreadConfig
  <2>3. ktc.offset_low < ktc'.offset_high
    BY Zenon, <2>1, <2>2 DEF kio_config_is_valid, Consistent, LowBelowHigh
  <2>4. 0 <= ktc.offset_low /\ ktc.offset_stride > 0
    BY <1>1, <2>1 DEF FitsDevice, VarsInRange, InRange, ThreadConfig
  <2>5. Window'
    BY <1>1, <2>1, <2>2, <2>3, <2>4 DEF Window, ThreadConfig, PAGE_SIZE
  <2>6. Standing'
    BY <1>1, <1>2, <1>4, <1>6, <2>2, <2>3, <2>4 DEF Standing, ThreadConfig
  <2> QED BY Zenon, <2>5, <2>6
<1>8. OffsetInv'
  BY <1>2, <1>5, <1>6, <1>7
     DEF OffsetInv, LastOffset, OffsetsAccepted, OffsetsBelowHigh,
         OffsetsNearWindow
<1>9. BurstInv'
  BY <1>2, <1>6
     DEF IssueInv, BurstInv, BurstBooks, OneDelayPerBurst
<1> QED BY Zenon, <1>8, <1>9 DEF IssueInv

\* One turn of the loop keeps the offsets within the window.
LEMMA IssueKeepsOffsetInv == IssueInv /\ Issue => OffsetInv'
<1> SUFFICES ASSUME IssueInv, Issue PROVE OffsetInv'
  OBVIOUS
<1>1. TypeOK /\ Window /\ Standing /\ BurstBooks
  BY Zenon DEF IssueInv, OffsetInv, BurstInv, Issue
<1>2. PICK drawsRead \in BOOLEAN, rnd \in Draws :
        IssueIO(kio_thread_next_dir(ktc, th, drawsRead),
                kio_thread_next_offset(ktc, th.next_offset, DevBlockSize, rnd))
  BY Zenon DEF Issue
<1> DEFINE dir == kio_thread_next_dir(ktc, th, drawsRead)
           off == kio_thread_next_offset(ktc, th.next_offset, DevBlockSize, rnd)
           slept == IF Sleeps(ktc, dir) THEN 1 ELSE 0
<1>3. /\ th.read_burst >= 0 /\ th.write_burst >= 0
      /\ th.read_burst \in Int /\ th.write_burst \in Int
      /\ ktc.read_burst \in Int /\ ktc.write_burst \in Int
  BY <1>1 DEF BurstBooks, TypeOK, NextFields, ThreadConfig
<1>4. /\ dir.is_write \in BOOLEAN /\ dir.new_burst \in BOOLEAN
      /\ dir.read_burst \in Nat /\ dir.write_burst \in Nat
  <2>1. BurstLeft(ktc.read_burst) \in Nat /\ BurstLeft(ktc.write_burst) \in Nat
    BY <1>3 DEF BurstLeft
  <2>2. NextDirIs(dir)
    BY Zenon, <1>1, <1>3, NextDirCases
  <2> HIDE DEF dir
  <2>3. dir.is_write \in BOOLEAN /\ dir.new_burst \in BOOLEAN
    <3>1. /\ dir.is_write = TRUE \/ dir.is_write = FALSE
          /\ dir.new_burst = TRUE \/ dir.new_burst = FALSE
      BY <2>2, Zenon DEF NextDirIs, DirIs
    <3> QED BY <3>1, Zenon
  <2>4. dir.read_burst \in Nat /\ dir.write_burst \in Nat
    <3>1. /\ \/ dir.read_burst \in {0, BurstLeft(ktc.read_burst)}
             \/ th.read_burst > 0 /\ dir.read_burst = th.read_burst - 1
          /\ \/ dir.write_burst \in {0, th.write_burst, BurstLeft(ktc.write_burst)}
             \/ th.write_burst > 0 /\ dir.write_burst = th.write_burst - 1
      BY <2>2, Zenon DEF NextDirIs, DirIs
    <3> QED BY <1>3, <2>1, <3>1
  <2> QED BY Zenon, <2>3, <2>4
<1>5. rnd \in Nat
  BY KioIssueAssumption
<1>6. /\ off.next_offset \in Nat
      /\ off.next_offset < ktc.offset_high
      /\ ~ktc.offset_random =>
           off.next_offset + ktc.block_size >= ktc.offset_low
      /\ off.offset \in Nat
      /\ off.offset < ktc.offset_high
      /\ off.offset % DevBlockSize = 0
      /\ io.nth > 0 =>
           off.offset + ktc.block_size + DevBlockSize > ktc.offset_low
  BY Zenon, <1>1, <1>5, NextOffsetGood
<1>7. slept \in Nat
  OBVIOUS
<1> HIDE DEF dir, off, slept
<1>8. /\ th' = [read_burst |-> dir.read_burst, write_burst |-> dir.write_burst,
                was_write |-> dir.is_write, next_offset |-> off.next_offset]
      /\ io' = [nth |-> IF io.nth = 0 THEN 1 ELSE 2, offset |-> off.offset,
                is_write |-> dir.is_write, new_burst |-> dir.new_burst]
      /\ \/ burst' = [open |-> TRUE, ios |-> 1, sleeps |-> slept]
         \/ burst' = [open |-> TRUE, ios |-> burst.ios + 1,
                     sleeps |-> burst.sleeps + slept]
         \/ burst' = burst
  BY Zenon, <1>2 DEF IssueIO, dir, off, slept
<1>17. ktc' = ktc /\ phase' = phase /\ phase = "running"
  BY Zenon DEF Issue
<1>9. th' \in NextFields
  BY <1>4, <1>6, <1>8 DEF NextFields
<1>10. io' \in IO
  BY <1>4, <1>6, <1>8 DEF IO
<1>11. burst' \in Burst
  <2>1. burst \in Burst
    BY Zenon, <1>1 DEF TypeOK
  <2>2. [open |-> TRUE, ios |-> 1, sleeps |-> slept] \in Burst
    BY Zenon, <1>7 DEF Burst
  <2>3. [open |-> TRUE, ios |-> burst.ios + 1,
                     sleeps |-> burst.sleeps + slept] \in Burst
    BY <1>7, <2>1 DEF Burst
  <2> QED BY Zenon, <1>8, <2>1, <2>2, <2>3
<1>12. TypeOK'
  BY Zenon, <1>1, <1>17, <1>9, <1>10, <1>11 DEF TypeOK
<1>13. Window'
  BY Zenon, <1>1, <1>17 DEF Window
<1>14. /\ th'.next_offset = off.next_offset /\ io'.offset = off.offset
       /\ io'.nth = IF io.nth = 0 THEN 1 ELSE 2
  BY Zenon, <1>8
<1>15. Standing'
  BY <1>1, <1>6, <1>17, <1>14 DEF Standing
<1>16. LastOffset'
  <2>1. OffsetsAccepted'
    <3>1. /\ ktc.offset_high \in Int /\ ktc.block_size = 4096 /\ DevSize \in Int
          /\ ktc.offset_high + ktc.block_size <= DevSize
      BY <1>1, KioIssueAssumption DEF Window, PAGE_SIZE, TypeOK, ThreadConfig
    <3>2. off.offset + 4096 <= DevSize
      BY <3>1, <1>6
    <3> QED BY <1>6, <1>14, <3>2
          DEF OffsetsAccepted, kio_io_offset_is_valid, PAGE_SIZE
  <2>2. OffsetsBelowHigh'
    BY Zenon, <1>6, <1>17, <1>14 DEF OffsetsBelowHigh
  <2>3. OffsetsNearWindow'
    <3>1. io.nth \in 0 .. 2
      BY Zenon, <1>1 DEF TypeOK, IO
    <3> QED BY <1>6, <1>17, <1>14, <3>1 DEF OffsetsNearWindow
  <2> QED BY Zenon, <2>1, <2>2, <2>3 DEF LastOffset
<1> QED BY Zenon, <1>17, <1>12, <1>13, <1>15, <1>16 DEF OffsetInv

\* One turn of the loop keeps the books of the burst: a burst that goes on
\* issues one I/O more and has one less left, and does not change direction,
\* so that it does not sleep again.
LEMMA IssueKeepsBurstInv == IssueInv /\ Issue => BurstInv'
<1> SUFFICES ASSUME IssueInv, Issue PROVE BurstInv'
  OBVIOUS
<1>1. TypeOK /\ BurstInv
  BY Zenon DEF IssueInv, OffsetInv
<1>2. PICK drawsRead \in BOOLEAN, rnd \in Draws :
        IssueIO(kio_thread_next_dir(ktc, th, drawsRead),
                kio_thread_next_offset(ktc, th.next_offset, DevBlockSize, rnd))
  BY Zenon DEF Issue
<1> DEFINE dir == kio_thread_next_dir(ktc, th, drawsRead)
           off == kio_thread_next_offset(ktc, th.next_offset, DevBlockSize, rnd)
           slept == IF Sleeps(ktc, dir) THEN 1 ELSE 0
<1>3. /\ th.read_burst \in Nat /\ th.write_burst \in Nat
      /\ ktc.read_burst \in Int /\ ktc.write_burst \in Int
      /\ th.was_write \in BOOLEAN /\ burst.open \in BOOLEAN
      /\ burst.ios \in Nat /\ burst.sleeps \in Nat
  BY Zenon, <1>1 DEF BurstInv, BurstBooks, TypeOK, NextFields, ThreadConfig, Burst
<1>4. NextDirIs(dir)
  BY <1>1, <1>3, NextDirCases
<1>5. slept \in {0, 1} /\ (ktc.burst_delay /\ ~dir.dir_changed => slept = 0)
  BY Zenon DEF Sleeps
<1>6. ktc' = ktc /\ phase' = phase /\ phase = "running"
  BY Zenon DEF Issue
<1> HIDE DEF dir, off, slept
<1>7. /\ th'.read_burst = dir.read_burst /\ th'.write_burst = dir.write_burst
      /\ th'.was_write = dir.is_write /\ io'.is_write = dir.is_write
      /\ burst' = IF dir.new_burst
                  THEN [open |-> TRUE, ios |-> 1, sleeps |-> slept]
                  ELSE IF burst.open
                  THEN [open |-> TRUE, ios |-> burst.ios + 1,
                        sleeps |-> burst.sleeps + slept]
                  ELSE burst
  BY Zenon, <1>2 DEF IssueIO, dir, off, slept
<1>8. CASE th.read_burst > 0
  <2>1. ~th.was_write /\ th.write_burst = 0 /\ burst.open
    BY <1>1, <1>3, <1>8 DEF BurstInv, BurstBooks
  <2>2. DirIs(dir, FALSE, th.read_burst - 1, th.write_burst, FALSE)
    <3>1. ~(th.read_burst = 0)
      BY <1>3, <1>8
    <3> QED BY <1>4, <1>8, <3>1, Zenon DEF NextDirIs
  <2>3. /\ dir.is_write = FALSE /\ ~dir.dir_changed /\ ~dir.new_burst
        /\ dir.read_burst = th.read_burst - 1 /\ dir.write_burst = th.write_burst
    <3>1. th.was_write = FALSE
      BY <1>3, <2>1, Zenon
    <3>2. dir.dir_changed = FALSE
      BY Zenon, <2>2, <3>1 DEF DirIs
    <3> QED BY Zenon, <2>2, <3>2 DEF DirIs
  <2>4. burst' = [open |-> TRUE, ios |-> burst.ios + 1,
                  sleeps |-> burst.sleeps + slept]
    BY Zenon, <1>7, <2>1, <2>3
  <2>5. io.is_write = th.was_write /\ Mixed
    BY Zenon, <1>1, <2>1 DEF BurstInv, BurstBooks
  <2>6. BurstLength(io.is_write)' = BurstLength(io.is_write)
    BY Zenon, <1>3, <1>6, <1>7, <2>1, <2>3, <2>5 DEF BurstLength
  <2>7. burst'.ios + th'.read_burst + th'.write_burst = BurstLength(io.is_write)
    <3>1. burst.ios + th.read_burst + th.write_burst = BurstLength(io.is_write)
      BY Zenon, <1>1, <2>1 DEF BurstInv, BurstBooks
    <3>2. burst'.ios = burst.ios + 1
      BY Zenon, <2>4
    <3> QED BY <1>3, <1>7, <1>8, <2>1, <2>3, <3>1, <3>2
  <2>8. BurstBooks'
    BY <1>3, <1>6, <1>7, <1>8, <2>1, <2>3, <2>4, <2>5, <2>6, <2>7
       DEF BurstBooks, Mixed
  <2>9. OneDelayPerBurst'
    BY <1>1, <1>3, <1>5, <1>6, <2>3, <2>4 DEF BurstInv, OneDelayPerBurst
  <2> QED BY Zenon, <1>6, <2>4, <2>8, <2>9 DEF BurstInv
<1>9. CASE th.read_burst = 0 /\ th.write_burst > 0
  <2>1. th.was_write /\ th.read_burst = 0 /\ burst.open
    BY <1>1, <1>3, <1>9 DEF BurstInv, BurstBooks
  <2>2. DirIs(dir, TRUE, 0, th.write_burst - 1, FALSE)
    <3>1. ~(th.read_burst > 0) /\ ~(th.write_burst = 0)
      BY <1>3, <1>9
    <3> QED BY <1>4, <1>9, <3>1, Zenon DEF NextDirIs
  <2>3. /\ dir.is_write = TRUE /\ ~dir.dir_changed /\ ~dir.new_burst
        /\ dir.read_burst = 0 /\ dir.write_burst = th.write_burst - 1
    <3>1. th.was_write = TRUE
      BY <1>3, <2>1, Zenon
    <3>2. dir.dir_changed = FALSE
      BY Zenon, <2>2, <3>1 DEF DirIs
    <3> QED BY Zenon, <2>2, <3>2 DEF DirIs
  <2>4. burst' = [open |-> TRUE, ios |-> burst.ios + 1,
                  sleeps |-> burst.sleeps + slept]
    BY Zenon, <1>7, <2>1, <2>3
  <2>5. io.is_write = th.was_write /\ Mixed
    BY Zenon, <1>1, <2>1 DEF BurstInv, BurstBooks
  <2>6. BurstLength(io.is_write)' = BurstLength(io.is_write)
    BY Zenon, <1>3, <1>6, <1>7, <2>1, <2>3, <2>5 DEF BurstLength
  <2>7. burst'.ios + th'.read_burst + th'.write_burst = BurstLength(io.is_write)
    <3>1. burst.ios + th.read_burst + th.write_burst = BurstLength(io.is_write)
      BY Zenon, <1>1, <2>1 DEF BurstInv, BurstBooks
    <3>2. burst'.ios = burst.ios + 1
      BY Zenon, <2>4
    <3> QED BY <1>3, <1>7, <1>9, <2>1, <2>3, <3>1, <3>2
  <2>8. BurstBooks'
    <3>1. th'.read_burst = 0 /\ th'.write_burst >= 0
      BY <1>3, <1>7, <1>9, <2>3
    <3>2. th'.was_write /\ io'.is_write = th'.was_write /\ burst'.open
      BY <1>7, <2>3, <2>4
    <3>3. Mixed'
      BY Zenon, <1>6, <2>5 DEF Mixed
    <3> QED BY <2>6, <2>7, <3>1, <3>2, <3>3 DEF BurstBooks
  <2>9. OneDelayPerBurst'
    BY <1>1, <1>3, <1>5, <1>6, <2>3, <2>4 DEF BurstInv, OneDelayPerBurst
  <2> QED BY Zenon, <1>6, <2>4, <2>8, <2>9 DEF BurstInv
<1>10. CASE th.read_burst = 0 /\ th.write_burst = 0 /\ ~Mixed
  <2>1. ~burst.open
    BY Zenon, <1>1, <1>10 DEF BurstInv, BurstBooks
  <2>2. DirIs(dir, FALSE, 0, 0, FALSE) \/ DirIs(dir, TRUE, 0, 0, FALSE)
    <3>1. ~(th.read_burst > 0) /\ ~(th.write_burst > 0)
      BY <1>3, <1>10
    <3> QED BY <1>4, <1>10, <3>1, Zenon DEF NextDirIs
  <2>3. ~dir.new_burst /\ dir.read_burst = 0 /\ dir.write_burst = 0
    BY Zenon, <2>2 DEF DirIs
  <2>4. burst' = burst
    BY Zenon, <1>7, <2>1, <2>3
  <2>5. BurstBooks'
    BY <1>7, <2>1, <2>3, <2>4 DEF BurstBooks
  <2> QED BY Zenon, <1>1, <1>6, <2>1, <2>4, <2>5 DEF BurstInv, OneDelayPerBurst
<1>11. CASE th.read_burst = 0 /\ th.write_burst = 0 /\ Mixed
  <2>1. \/ DirIs(dir, FALSE, BurstLeft(ktc.read_burst), 0, TRUE)
        \/ DirIs(dir, TRUE, 0, BurstLeft(ktc.write_burst), TRUE)
    <3>1. ~(th.read_burst > 0) /\ ~(th.write_burst > 0)
      BY <1>3, <1>11
    <3> QED BY <1>4, <1>11, <3>1, Zenon DEF NextDirIs
  <2>2. /\ dir.new_burst
        /\ \/ /\ ~dir.is_write /\ dir.write_burst = 0
              /\ dir.read_burst = BurstLeft(ktc.read_burst)
           \/ /\ dir.is_write /\ dir.read_burst = 0
              /\ dir.write_burst = BurstLeft(ktc.write_burst)
    BY Zenon, <2>1 DEF DirIs
  <2>3. burst' = [open |-> TRUE, ios |-> 1, sleeps |-> slept]
    BY Zenon, <1>7, <2>2
  <2>4. burst'.open /\ burst'.ios = 1 /\ burst'.sleeps = slept
    BY Zenon, <2>3
  <2>5. \A n \in Int : /\ BurstLeft(n) >= 0
                       /\ BurstLeft(n) \in Int
                       /\ 1 + BurstLeft(n) = IF n > 0 THEN n ELSE 1
    BY DEF BurstLeft
  <2>6. 1 + th'.read_burst + th'.write_burst = BurstLength(io.is_write)'
    BY <1>3, <1>6, <1>7, <2>2, <2>5 DEF BurstLength
  <2>7. BurstBooks'
    BY <1>3, <1>6, <1>7, <1>11, <2>2, <2>4, <2>5, <2>6 DEF BurstBooks, Mixed
  <2>8. OneDelayPerBurst'
    BY <1>5, <2>4 DEF OneDelayPerBurst
  <2> QED BY Zenon, <1>6, <2>4, <2>7, <2>8 DEF BurstInv
<1> QED BY <1>3, <1>8, <1>9, <1>10, <1>11

\* A step of the thread keeps the invariant.
LEMMA NextKeepsIssueInv == IssueInv /\ [Next]_vars => IssueInv'
<1> SUFFICES ASSUME IssueInv, [Next]_vars PROVE IssueInv'
  OBVIOUS
<1>1. CASE Validate
  BY Zenon, <1>1, ValidateKeepsIssueInv
<1>2. CASE Issue
  BY Zenon, <1>2, IssueKeepsOffsetInv, IssueKeepsBurstInv DEF IssueInv
<1>3. CASE UNCHANGED vars
  <2>1. OffsetInv'
    BY Zenon, <1>3 DEF vars, IssueInv, OffsetInv, TypeOK, Window, Standing, LastOffset,
                OffsetsAccepted, OffsetsBelowHigh, OffsetsNearWindow
  <2>2. BurstInv'
    BY Zenon, <1>3 DEF vars, IssueInv, BurstInv, BurstBooks, Mixed, BurstLength,
                OneDelayPerBurst
  <2> QED BY Zenon, <2>1, <2>2 DEF IssueInv
<1> QED BY Zenon, <1>1, <1>2, <1>3 DEF Next, Refused

\* The invariant holds whatever is issued.
THEOREM IssueInvariant == Spec => []IssueInv
BY InitIssueInv, NextKeepsIssueInv, PTL DEF Spec

\* In particular the burst counters of struct kio_thread, unsigned in the code,
\* never go below zero.
THEOREM IssueTypeCorrect == Spec => []TypeOK
<1>1. IssueInv => TypeOK
  BY Zenon DEF IssueInv, OffsetInv
<1> QED BY <1>1, IssueInvariant, PTL

\* kio_io_submit() never refuses an offset of kio_thread_next_offset(): for
\* every configuration kio_config_is_valid() lets pass, every device and
\* every draw, the I/O lies within the device and is aligned to its blocks.
THEOREM OffsetsNeverRefused == Spec => []OffsetsAccepted
<1>1. IssueInv => OffsetsAccepted
  BY Zenon DEF IssueInv, OffsetInv, LastOffset
<1> QED BY <1>1, IssueInvariant, PTL

\* A multiple of a logical block is a whole number of sectors.
LEMMA BlockIsSectors ==
  ASSUME NEW off \in Nat, off % DevBlockSize = 0
  PROVE  SECTOR_SIZE * Sector(off) = off
<1>1. CASE DevBlockSize = 512
  BY <1>1 DEF SECTOR_SIZE, Sector
<1>2. CASE DevBlockSize = 1024
  BY <1>2 DEF SECTOR_SIZE, Sector
<1>3. CASE DevBlockSize = 2048
  BY <1>3 DEF SECTOR_SIZE, Sector
<1>4. CASE DevBlockSize = 4096
  BY <1>4 DEF SECTOR_SIZE, Sector
<1> QED BY <1>1, <1>2, <1>3, <1>4, KioIssueAssumption

\* Every I/O that kio_io_submit() hands over lands in its partition, at its
\* offset, but in the mode and the build that StaysInPartition leaves out.
THEOREM PartitionRespected == Spec => []StaysInPartition
<1>1. IssueInv => StaysInPartition
  <2> SUFFICES ASSUME IssueInv, io.nth > 0,
                      NEW mode \in SubmitModes,
                      ~(mode = 2 /\ PartStart > 0 /\ BdevHasBdPart)
               PROVE  LET start == SECTOR_SIZE * PartStart
                          at == SECTOR_SIZE * SectorOnDisk(mode, io.offset)
                      IN  at = start + io.offset
                          /\ at + PAGE_SIZE <= start + DevSize
    BY Zenon DEF StaysInPartition
  <2>1. /\ io.offset \in Nat
        /\ io.offset + PAGE_SIZE <= DevSize
        /\ io.offset % DevBlockSize = 0
    BY DEF IssueInv, OffsetInv, LastOffset, OffsetsAccepted, TypeOK, IO,
           kio_io_offset_is_valid
  <2>2. SECTOR_SIZE * Sector(io.offset) = io.offset
    BY Zenon, <2>1, BlockIsSectors
  <2>3. Sector(io.offset) \in Nat
    BY <2>1 DEF Sector, SECTOR_SIZE
  <2>4. SectorOnDisk(mode, io.offset) = Sector(io.offset) + PartStart
    BY <2>3, KioSubmitAssumption
       DEF SectorOnDisk, NewBio, bio_set_dev, PartNo, BlockLayerRemap,
           blk_partition_remap, kio_disk_get_part
  <2>5. SECTOR_SIZE * SectorOnDisk(mode, io.offset)
          = SECTOR_SIZE * PartStart + io.offset
    BY <2>2, <2>3, <2>4, KioSubmitAssumption DEF SECTOR_SIZE
  <2> QED BY <2>1, <2>5, KioSubmitAssumption, KioIssueAssumption
             DEF SECTOR_SIZE, PAGE_SIZE
<1> QED BY <1>1, IssueInvariant, PTL

\* The offsets kio_thread_next_offset() picks stay below offset_high.
THEOREM HighRespected == Spec => []OffsetsBelowHigh
<1>1. IssueInv => OffsetsBelowHigh
  BY Zenon DEF IssueInv, OffsetInv, LastOffset
<1> QED BY <1>1, IssueInvariant, PTL

\* After the first I/O, kio_thread_next_offset() stays near the window.
THEOREM WindowReached == Spec => []OffsetsNearWindow
<1>1. IssueInv => OffsetsNearWindow
  BY Zenon DEF IssueInv, OffsetInv, LastOffset
<1> QED BY <1>1, IssueInvariant, PTL

\* kio_thread_fn() delays at most once in a burst with burst_delay.
THEOREM DelayedOnce == Spec => []OneDelayPerBurst
<1>1. IssueInv => OneDelayPerBurst
  BY Zenon DEF IssueInv, BurstInv
<1> QED BY <1>1, IssueInvariant, PTL

\* kio_thread_next_dir() opens a burst only when the last one is complete, and
\* keeps to its direction until then.
THEOREM BurstsAreComplete == Spec => BurstsComplete
<1>1. IssueInv /\ [Next]_vars =>
        [burst.open => IF io'.new_burst
                       THEN burst.ios = BurstLength(io.is_write)
                       ELSE io'.is_write = io.is_write]_vars
  <2> SUFFICES ASSUME IssueInv, Next, burst.open
               PROVE  IF io'.new_burst
                      THEN burst.ios = BurstLength(io.is_write)
                      ELSE io'.is_write = io.is_write
    OBVIOUS
  <2>1. Issue
    BY Zenon DEF Next, Validate, Refused, IssueInv, OffsetInv, BurstInv
  <2>2. PICK drawsRead \in BOOLEAN, rnd \in Draws :
          IssueIO(kio_thread_next_dir(ktc, th, drawsRead),
                  kio_thread_next_offset(ktc, th.next_offset, DevBlockSize, rnd))
    BY Zenon, <2>1 DEF Issue
  <2> DEFINE dir == kio_thread_next_dir(ktc, th, drawsRead)
  <2>3. TypeOK /\ BurstBooks
    BY Zenon DEF IssueInv, OffsetInv, BurstInv
  <2>4. th.read_burst \in Nat /\ th.write_burst \in Nat /\ burst.ios \in Nat
    BY Zenon, <2>3 DEF BurstBooks, TypeOK, NextFields, Burst
  <2>5. NextDirIs(dir)
    BY <2>3, <2>4, NextDirCases
  <2>6. io'.new_burst = dir.new_burst /\ io'.is_write = dir.is_write
    BY Zenon, <2>2 DEF IssueIO
  <2> HIDE DEF dir
  <2>7. CASE io'.new_burst
    <3>1. th.read_burst = 0 /\ th.write_burst = 0
      BY <2>5, <2>6, <2>7, Zenon DEF NextDirIs, DirIs
    <3>2. burst.ios + th.read_burst + th.write_burst = BurstLength(io.is_write)
      BY Zenon, <2>3 DEF BurstBooks
    <3> QED BY <2>4, <2>7, <3>1, <3>2
  <2>8. CASE ~io'.new_burst
    <3>1. /\ Mixed /\ io.is_write = th.was_write /\ th.was_write \in BOOLEAN
          /\ th.was_write => th.read_burst = 0
          /\ ~th.was_write => th.write_burst = 0
      BY Zenon, <2>3 DEF BurstBooks, TypeOK, NextFields
    <3>2. \/ th.read_burst > 0 /\ dir.is_write = FALSE
          \/ th.write_burst > 0 /\ dir.is_write = TRUE
      BY <2>5, <2>6, <2>8, <3>1, Zenon DEF NextDirIs, DirIs
    <3>3. CASE th.read_burst > 0 /\ dir.is_write = FALSE
      <4>1. ~(th.read_burst = 0) BY <2>4, <3>3
      <4>2. th.was_write = FALSE BY <3>1, <4>1, Zenon
      <4> QED BY Zenon, <2>6, <2>8, <3>1, <3>3, <4>2
    <3>4. CASE th.write_burst > 0 /\ dir.is_write = TRUE
      <4>1. ~(th.write_burst = 0) BY <2>4, <3>4
      <4>2. th.was_write = TRUE BY <3>1, <4>1, Zenon
      <4> QED BY Zenon, <2>6, <2>8, <3>1, <3>4, <4>2
    <3> QED BY Zenon, <3>2, <3>3, <3>4
  <2> QED BY Zenon, <2>7, <2>8
<1> QED BY <1>1, IssueInvariant, PTL DEF Spec, BurstsComplete

=============================================================================
