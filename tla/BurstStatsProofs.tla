--------------------------- MODULE BurstStatsProofs ---------------------------
(***************************************************************************)
(* Proofs about BurstStats, for any finite set of workers and any sizes.   *)
(*                                                                         *)
(* The histogram: a burst is counted in the bucket of its size, and in     *)
(* none if it is larger than the last bucket (StatsIn), so a bucket keeps  *)
(* its range (Ranged), and the cells of a worker with the bursts outside   *)
(* them add up to its traffic (Accounts).                                  *)
(*                                                                         *)
(* The subsets: the groups below the selector have had one operation more  *)
(* than the others, accepted or rejected (Dealt).                          *)
(*                                                                         *)
(* The report: sums over workers of sums over buckets are sums over        *)
(* buckets of sums over workers (SumSwapped).                              *)
(***************************************************************************)
EXTENDS BurstStats, DataTheorems

LEMMA Sizes ==
    /\ BurstSize \in Nat \ {0} /\ BucketSize \in Nat \ {0} /\ BucketCnt \in Nat \ {0}
BY SizeAssumption DEF BucketCnt

\* What adding a burst of n to c bursts of p packets does to bounds of p.
LEMMA AddBurst ==
    ASSUME NEW K \in Nat, NEW c \in Nat, NEW p \in Nat, NEW n \in Nat
    PROVE  /\ p <= K * c /\ n <= K => p + n <= K * (c + 1)
           /\ p >= K * c /\ n >= K => p + n >= K * (c + 1)
<1>1. K * (c + 1) = K * c + K /\ K * c \in Nat
  OBVIOUS
<1> QED
  BY <1>1

\* A burst of n belongs in bucket i, counted from 1.
Fits(n, i) == n <= i * BucketSize /\ (i > 1 => n >= (i - 1) * BucketSize + 1)

LEMMA StatsIn ==
    ASSUME NEW n \in 0 .. BurstSize
    PROVE  /\ StatsI(n) \in 1 .. BucketCnt + 1
           /\ StatsI(n) <= BucketCnt => Fits(n, StatsI(n))
           /\ Beyond(n) = IF StatsI(n) <= BucketCnt THEN 0 ELSE n
<1> DEFINE T == {i \in 1 .. BucketCnt : n <= i * BucketSize} \cup {BucketCnt + 1}
           m == StatsI(n)
<1>1. T \subseteq Nat /\ T # {} /\ T \subseteq 1 .. BucketCnt + 1
  BY Sizes
<1>2. m \in T /\ \A i \in T : m <= i
  <2>1. m = CHOOSE x \in T : \A y \in T : x <= y
    BY DEF StatsI, Min
  <2> HIDE DEF T, m
  <2>2. \E x \in T : \A y \in T : x <= y
    BY <1>1, Least
  <2> QED
    BY <2>1, <2>2
<1>3. m <= BucketCnt => n <= m * BucketSize
  BY <1>2, Sizes
<1>4. ASSUME m <= BucketCnt, m > 1
      PROVE  n >= (m - 1) * BucketSize + 1
  <2>1. m \in Nat /\ m - 1 \in 1 .. BucketCnt
    BY <1>1, <1>2, <1>4, Sizes
  <2>2. m - 1 \notin T
    BY <1>2, <2>1
  <2>3. ~(n <= (m - 1) * BucketSize)
    BY <2>1, <2>2
  <2>4. (m - 1) * BucketSize \in Nat
    BY <2>1, Sizes
  <2> QED
    BY <2>3, <2>4
<1>5. m <= BucketCnt <=> n <= BucketCnt * BucketSize
  <2>1. n <= BucketCnt * BucketSize => BucketCnt \in T
    BY Sizes
  <2>2. n <= BucketCnt * BucketSize => m <= BucketCnt
    BY <1>2, <2>1
  <2>3. ASSUME m <= BucketCnt
        PROVE  n <= BucketCnt * BucketSize
    <3>1. m \in 1 .. BucketCnt /\ n <= m * BucketSize
      BY <1>1, <1>2, <1>3, <2>3, Sizes
    <3> HIDE DEF T, m
    <3>2. PICK k \in Nat : BucketCnt = m + k
      <4>1. BucketCnt - m \in Nat /\ BucketCnt = m + (BucketCnt - m)
        BY <3>1, Sizes
      <4> QED
        BY <4>1
    <3>3. BucketCnt * BucketSize = m * BucketSize + k * BucketSize
      BY <3>1, <3>2, Sizes
    <3>4. m * BucketSize \in Nat /\ k * BucketSize \in Nat
      BY <3>1, <3>2, Sizes
    <3> QED
      BY <3>1, <3>3, <3>4
  <2> QED
    BY <2>2, <2>3
<1>6. Beyond(n) = IF m <= BucketCnt THEN 0 ELSE n
  <2>1. BucketCnt * BucketSize \in Nat /\ n \in Nat
    BY Sizes
  <2>2. n > BucketCnt * BucketSize <=> ~(n <= BucketCnt * BucketSize)
    BY <2>1
  <2> HIDE DEF T, m
  <2> QED
    BY <1>5, <2>2 DEF Beyond
<1> QED
  BY <1>1, <1>2, <1>3, <1>4, <1>6 DEF Fits

-----------------------------------------------------------------------------
(* A histogram s of one worker.                                            *)

CellType == [enq_cnt : Nat, enq_pkts : Nat, deq_cnt : Nat, deq_pkts : Nat, matches : Nat]

\* The part of BucketRange about one histogram.
Ranged(s) ==
    \A b \in Buckets :
        /\ s[b].enq_pkts <= (b + 1) * BucketSize * s[b].enq_cnt
        /\ s[b].deq_pkts <= (b + 1) * BucketSize * s[b].deq_cnt
        /\ b > 0 => s[b].enq_pkts >= (b * BucketSize + 1) * s[b].enq_cnt
        /\ s[b].deq_pkts >= (b * BucketSize + 1) * s[b].deq_cnt

EnqOf(s) == [b \in Buckets |-> s[b]["enq_pkts"]]
DeqOf(s) == [b \in Buckets |-> s[b]["deq_pkts"]]

\* The counters of one cell after each of the updates.
LEMMA CellUpdates ==
    ASSUME NEW z \in CellType, NEW n \in Nat
    PROVE  /\ CountEnq(z, n) \in CellType /\ CountDeq(z, n) \in CellType
           /\ CountMatches(z, n) \in CellType
           /\ CountEnq(z, n).enq_cnt = z.enq_cnt + 1 /\ CountEnq(z, n).enq_pkts = z.enq_pkts + n
           /\ CountEnq(z, n).deq_cnt = z.deq_cnt /\ CountEnq(z, n).deq_pkts = z.deq_pkts
           /\ CountDeq(z, n).enq_cnt = z.enq_cnt /\ CountDeq(z, n).enq_pkts = z.enq_pkts
           /\ CountDeq(z, n).deq_cnt = z.deq_cnt + 1 /\ CountDeq(z, n).deq_pkts = z.deq_pkts + n
           /\ CountMatches(z, n).enq_cnt = z.enq_cnt /\ CountMatches(z, n).enq_pkts = z.enq_pkts
           /\ CountMatches(z, n).deq_cnt = z.deq_cnt /\ CountMatches(z, n).deq_pkts = z.deq_pkts
<1>1. CountEnq(z, n) = [enq_cnt |-> z.enq_cnt + 1, enq_pkts |-> z.enq_pkts + n,
                        deq_cnt |-> z.deq_cnt, deq_pkts |-> z.deq_pkts, matches |-> z.matches]
  <2> DEFINE y == [enq_cnt |-> z.enq_cnt + 1, enq_pkts |-> z.enq_pkts, deq_cnt |-> z.deq_cnt,
                   deq_pkts |-> z.deq_pkts, matches |-> z.matches]
  <2>1. [z EXCEPT !.enq_cnt = @ + 1] = y
    BY DEF CellType
  <2>2. CountEnq(z, n) = [y EXCEPT !.enq_pkts = z.enq_pkts + n]
    BY <2>1 DEF CountEnq
  <2> QED
    BY <2>2
<1>2. CountDeq(z, n) = [enq_cnt |-> z.enq_cnt, enq_pkts |-> z.enq_pkts,
                        deq_cnt |-> z.deq_cnt + 1, deq_pkts |-> z.deq_pkts + n, matches |-> z.matches]
  <2> DEFINE y == [enq_cnt |-> z.enq_cnt, enq_pkts |-> z.enq_pkts, deq_cnt |-> z.deq_cnt + 1,
                   deq_pkts |-> z.deq_pkts, matches |-> z.matches]
  <2>1. [z EXCEPT !.deq_cnt = @ + 1] = y
    BY DEF CellType
  <2>2. CountDeq(z, n) = [y EXCEPT !.deq_pkts = z.deq_pkts + n]
    BY <2>1 DEF CountDeq
  <2> QED
    BY <2>2
<1>3. CountMatches(z, n) = [enq_cnt |-> z.enq_cnt, enq_pkts |-> z.enq_pkts, deq_cnt |-> z.deq_cnt,
                            deq_pkts |-> z.deq_pkts, matches |-> z.matches + n]
  BY DEF CellType, CountMatches
<1> QED
  BY <1>1, <1>2, <1>3 DEF CellType

LEMMA AddEnqCells ==
    ASSUME NEW s \in [Cells -> CellType], NEW n \in 0 .. BurstSize
    PROVE  /\ AddEnq(s, n) \in [Cells -> CellType]
           /\ \A i \in Cells : /\ AddEnq(s, n)[i].deq_cnt = s[i].deq_cnt
                               /\ AddEnq(s, n)[i].deq_pkts = s[i].deq_pkts
           /\ \A i \in Cells : i # StatsI(n) - 1 =>
                  /\ AddEnq(s, n)[i].enq_cnt = s[i].enq_cnt
                  /\ AddEnq(s, n)[i].enq_pkts = s[i].enq_pkts
           /\ StatsI(n) <= BucketCnt =>
                  /\ AddEnq(s, n)[StatsI(n) - 1].enq_cnt = s[StatsI(n) - 1].enq_cnt + 1
                  /\ AddEnq(s, n)[StatsI(n) - 1].enq_pkts = s[StatsI(n) - 1].enq_pkts + n
<1> DEFINE m == StatsI(n)
<1>1. m \in 1 .. BucketCnt + 1 /\ BucketCnt \in Nat /\ n \in Nat
  BY StatsIn, Sizes
<1>2. CASE m > BucketCnt
  <2>1. AddEnq(s, n) = s
    BY <1>2 DEF AddEnq
  <2> QED
    BY <1>1, <1>2, <2>1 DEF Cells
<1>3. CASE m <= BucketCnt
  <2> DEFINE k == m - 1
             c == CountEnq(s[k], n)
  <2>1. k \in Cells
    BY <1>1, <1>3 DEF Cells
  <2>2. AddEnq(s, n) = [s EXCEPT ![k] = c]
    BY <1>1, <1>3, <2>1 DEF AddEnq
  <2>3. /\ c \in CellType /\ c.enq_cnt = s[k].enq_cnt + 1 /\ c.enq_pkts = s[k].enq_pkts + n
        /\ c.deq_cnt = s[k].deq_cnt /\ c.deq_pkts = s[k].deq_pkts
    BY <1>1, <2>1, CellUpdates
  <2> HIDE DEF c, k
  <2>4. /\ AddEnq(s, n) \in [Cells -> CellType] /\ AddEnq(s, n)[k] = c
        /\ \A i \in Cells : i # k => AddEnq(s, n)[i] = s[i]
    BY <2>1, <2>2, <2>3
  <2> QED
    BY <2>1, <2>3, <2>4 DEF k
<1> QED
  BY <1>1, <1>2, <1>3

LEMMA AddDeqCells ==
    ASSUME NEW s \in [Cells -> CellType], NEW n \in 0 .. BurstSize
    PROVE  /\ AddDeq(s, n) \in [Cells -> CellType]
           /\ \A i \in Cells : /\ AddDeq(s, n)[i].enq_cnt = s[i].enq_cnt
                               /\ AddDeq(s, n)[i].enq_pkts = s[i].enq_pkts
           /\ \A i \in Cells : i # StatsI(n) - 1 =>
                  /\ AddDeq(s, n)[i].deq_cnt = s[i].deq_cnt
                  /\ AddDeq(s, n)[i].deq_pkts = s[i].deq_pkts
           /\ StatsI(n) <= BucketCnt =>
                  /\ AddDeq(s, n)[StatsI(n) - 1].deq_cnt = s[StatsI(n) - 1].deq_cnt + 1
                  /\ AddDeq(s, n)[StatsI(n) - 1].deq_pkts = s[StatsI(n) - 1].deq_pkts + n
<1> DEFINE m == StatsI(n)
           k == m - 1
           c == CountDeq(s[k], n)
           t == IF m > BucketCnt THEN s ELSE [s EXCEPT ![k] = c]
           d == CountMatches(t[m], n * Matches)
<1>1. m \in 1 .. BucketCnt + 1 /\ BucketCnt \in Nat /\ n \in Nat /\ n * Matches \in Nat
  BY StatsIn, Sizes, MoreAssumption
<1>2. m \in Cells /\ k \in Cells
  BY <1>1 DEF Cells
<1>3. AddDeq(s, n) = [t EXCEPT ![m] = d]
  BY <1>1, <1>2 DEF AddDeq
<1>4. /\ c \in CellType /\ c.deq_cnt = s[k].deq_cnt + 1 /\ c.deq_pkts = s[k].deq_pkts + n
      /\ c.enq_cnt = s[k].enq_cnt /\ c.enq_pkts = s[k].enq_pkts
  BY <1>1, <1>2, CellUpdates
<1> HIDE DEF c
<1>5. /\ t \in [Cells -> CellType]
      /\ \A i \in Cells : i # k => t[i] = s[i]
      /\ m <= BucketCnt => t[k] = c
      /\ m > BucketCnt => t[k] = s[k]
  BY <1>1, <1>2, <1>4
<1> HIDE DEF t
<1>6. /\ d \in CellType /\ d.deq_cnt = t[m].deq_cnt /\ d.deq_pkts = t[m].deq_pkts
      /\ d.enq_cnt = t[m].enq_cnt /\ d.enq_pkts = t[m].enq_pkts
  BY <1>1, <1>2, <1>5, CellUpdates
<1> HIDE DEF d
<1>7. /\ AddDeq(s, n) \in [Cells -> CellType] /\ AddDeq(s, n)[m] = d
      /\ \A i \in Cells : i # m => AddDeq(s, n)[i] = t[i]
  BY <1>2, <1>3, <1>5, <1>6
<1>8. k # m
  BY <1>1
<1> HIDE DEF k, m
<1>9. \A i \in Cells : /\ AddDeq(s, n)[i].enq_cnt = t[i].enq_cnt
                       /\ AddDeq(s, n)[i].enq_pkts = t[i].enq_pkts
                       /\ AddDeq(s, n)[i].deq_cnt = t[i].deq_cnt
                       /\ AddDeq(s, n)[i].deq_pkts = t[i].deq_pkts
  BY <1>6, <1>7
<1>10. \A i \in Cells : t[i].enq_cnt = s[i].enq_cnt /\ t[i].enq_pkts = s[i].enq_pkts
  <2>1. m <= BucketCnt \/ m > BucketCnt
    BY <1>1 DEF m
  <2> QED
    BY <1>2, <1>4, <1>5, <2>1
<1> QED
  BY <1>2, <1>4, <1>5, <1>7, <1>9, <1>10 DEF k, m

LEMMA BucketCells == Buckets \subseteq Cells /\ IsFiniteSet(Buckets) /\ Buckets \subseteq Nat
<1>1. Buckets \subseteq Cells /\ Buckets \subseteq Nat
  BY Sizes DEF Buckets, Cells
<1>2. IsFiniteSet(Buckets)
  BY Sizes, FS_Interval DEF Buckets
<1> QED
  BY <1>1, <1>2

\* The bounds of bucket b, which a burst that fits in it keeps.
LEMMA BucketBounds ==
    ASSUME NEW b \in Buckets, NEW n \in 0 .. BurstSize, b = StatsI(n) - 1
    PROVE  /\ (b + 1) * BucketSize \in Nat /\ b * BucketSize + 1 \in Nat
           /\ n <= (b + 1) * BucketSize
           /\ b > 0 \/ n > 0 => n >= b * BucketSize + 1
<1>1. StatsI(n) = b + 1 /\ StatsI(n) <= BucketCnt /\ b \in Nat
  BY StatsIn, Sizes DEF Buckets
<1>2. n <= (b + 1) * BucketSize /\ (b + 1 > 1 => n >= (b + 1 - 1) * BucketSize + 1)
  BY <1>1, StatsIn DEF Fits
<1>3. b + 1 - 1 = b
  BY <1>1
<1>4. (b + 1) * BucketSize \in Nat /\ b * BucketSize + 1 \in Nat
  BY <1>1, Sizes
<1>5. b = 0 => b * BucketSize = 0
  BY Sizes
<1> QED
  BY <1>1, <1>2, <1>3, <1>4, <1>5

LEMMA EnqRanged ==
    ASSUME NEW s \in [Cells -> CellType], NEW n \in 0 .. BurstSize, Ranged(s)
    PROVE  Ranged(AddEnq(s, n))
<1> DEFINE t == AddEnq(s, n)
<1> SUFFICES ASSUME NEW b \in Buckets
             PROVE  /\ t[b].enq_pkts <= (b + 1) * BucketSize * t[b].enq_cnt
                    /\ t[b].deq_pkts <= (b + 1) * BucketSize * t[b].deq_cnt
                    /\ b > 0 => t[b].enq_pkts >= (b * BucketSize + 1) * t[b].enq_cnt
                    /\ t[b].deq_pkts >= (b * BucketSize + 1) * t[b].deq_cnt
  BY DEF Ranged
<1>1. b \in Cells /\ s[b] \in CellType
  BY BucketCells
<1>2. t[b].deq_cnt = s[b].deq_cnt /\ t[b].deq_pkts = s[b].deq_pkts
  BY <1>1, AddEnqCells
<1>3. CASE b # StatsI(n) - 1
  <2>1. t[b].enq_cnt = s[b].enq_cnt /\ t[b].enq_pkts = s[b].enq_pkts
    BY <1>1, <1>3, AddEnqCells
  <2> HIDE DEF t
  <2> QED
    BY <1>2, <2>1 DEF Ranged
<1>4. CASE b = StatsI(n) - 1
  <2>1. t[b].enq_cnt = s[b].enq_cnt + 1 /\ t[b].enq_pkts = s[b].enq_pkts + n
    <3>1. StatsI(n) <= BucketCnt
      BY <1>4, StatsIn, Sizes DEF Buckets
    <3> QED
      BY <1>1, <1>4, <3>1, AddEnqCells
  <2> DEFINE K == (b + 1) * BucketSize
             L == b * BucketSize + 1
             c == s[b].enq_cnt
             p == s[b].enq_pkts
  <2>2. K \in Nat /\ L \in Nat /\ n <= K /\ (b > 0 => n >= L) /\ n \in Nat
    BY <1>4, BucketBounds
  <2>3. c \in Nat /\ p \in Nat
    BY <1>1 DEF CellType
  <2>4. p <= K * c /\ (b > 0 => p >= L * c)
    BY DEF Ranged
  <2> HIDE DEF K, L, c, p, t
  <2>5. p + n <= K * (c + 1)
    BY <2>2, <2>3, <2>4, AddBurst
  <2>6. b > 0 => p + n >= L * (c + 1)
    BY <2>2, <2>3, <2>4, AddBurst
  <2>7. t[b].enq_pkts <= (b + 1) * BucketSize * t[b].enq_cnt
    BY <2>1, <2>5 DEF K, c, p
  <2>8. b > 0 => t[b].enq_pkts >= (b * BucketSize + 1) * t[b].enq_cnt
    BY <2>1, <2>6 DEF L, c, p
  <2> QED
    BY <1>2, <2>7, <2>8 DEF Ranged
<1> QED
  BY <1>3, <1>4

LEMMA DeqRanged ==
    ASSUME NEW s \in [Cells -> CellType], NEW n \in 1 .. BurstSize, Ranged(s)
    PROVE  Ranged(AddDeq(s, n))
<1> DEFINE t == AddDeq(s, n)
<1> SUFFICES ASSUME NEW b \in Buckets
             PROVE  /\ t[b].enq_pkts <= (b + 1) * BucketSize * t[b].enq_cnt
                    /\ t[b].deq_pkts <= (b + 1) * BucketSize * t[b].deq_cnt
                    /\ b > 0 => t[b].enq_pkts >= (b * BucketSize + 1) * t[b].enq_cnt
                    /\ t[b].deq_pkts >= (b * BucketSize + 1) * t[b].deq_cnt
  BY DEF Ranged
<1>0. n \in 0 .. BurstSize /\ n > 0 /\ n \in Nat
  OBVIOUS
<1>1. b \in Cells /\ s[b] \in CellType
  BY BucketCells
<1>2. t[b].enq_cnt = s[b].enq_cnt /\ t[b].enq_pkts = s[b].enq_pkts
  BY <1>0, <1>1, AddDeqCells
<1>3. CASE b # StatsI(n) - 1
  <2>1. t[b].deq_cnt = s[b].deq_cnt /\ t[b].deq_pkts = s[b].deq_pkts
    BY <1>0, <1>1, <1>3, AddDeqCells
  <2> HIDE DEF t
  <2> QED
    BY <1>2, <2>1 DEF Ranged
<1>4. CASE b = StatsI(n) - 1
  <2>1. t[b].deq_cnt = s[b].deq_cnt + 1 /\ t[b].deq_pkts = s[b].deq_pkts + n
    <3>1. StatsI(n) <= BucketCnt
      BY <1>0, <1>4, StatsIn, Sizes DEF Buckets
    <3> QED
      BY <1>0, <1>1, <1>4, <3>1, AddDeqCells
  <2> DEFINE K == (b + 1) * BucketSize
             L == b * BucketSize + 1
             c == s[b].deq_cnt
             p == s[b].deq_pkts
  <2>2. K \in Nat /\ L \in Nat /\ n <= K /\ n >= L
    BY <1>0, <1>4, BucketBounds
  <2>3. c \in Nat /\ p \in Nat
    BY <1>1 DEF CellType
  <2>4. p <= K * c /\ p >= L * c
    BY DEF Ranged
  <2> HIDE DEF K, L, c, p, t
  <2>5. p + n <= K * (c + 1)
    BY <1>0, <2>2, <2>3, <2>4, AddBurst
  <2>6. p + n >= L * (c + 1)
    BY <1>0, <2>2, <2>3, <2>4, AddBurst
  <2>7. t[b].deq_pkts <= (b + 1) * BucketSize * t[b].deq_cnt
    BY <2>1, <2>5 DEF K, c, p
  <2>8. t[b].deq_pkts >= (b * BucketSize + 1) * t[b].deq_cnt
    BY <2>1, <2>6 DEF L, c, p
  <2> QED
    BY <1>2, <2>7, <2>8 DEF Ranged
<1> QED
  BY <1>3, <1>4

-----------------------------------------------------------------------------
(* What the buckets of a histogram add up to.                              *)

LEMMA CellSums ==
    ASSUME NEW s \in [Cells -> CellType]
    PROVE  /\ Numbers(EnqOf(s), Buckets) /\ Numbers(DeqOf(s), Buckets)
           /\ SumFunction(EnqOf(s)) = SumFunctionOnSet(EnqOf(s), Buckets)
           /\ SumFunction(DeqOf(s)) = SumFunctionOnSet(DeqOf(s), Buckets)
           /\ SumFunction(EnqOf(s)) \in Nat /\ SumFunction(DeqOf(s)) \in Nat
<1>1. \A b \in Buckets : s[b].enq_pkts \in Nat /\ s[b].deq_pkts \in Nat
  BY BucketCells DEF CellType
<1>2. Numbers(EnqOf(s), Buckets) /\ Numbers(DeqOf(s), Buckets)
  BY <1>1 DEF Numbers, EnqOf, DeqOf
<1>3. DOMAIN EnqOf(s) = Buckets /\ DOMAIN DeqOf(s) = Buckets
  BY DEF EnqOf, DeqOf
<1>4. /\ SumFunction(EnqOf(s)) = SumFunctionOnSet(EnqOf(s), Buckets)
      /\ SumFunction(DeqOf(s)) = SumFunctionOnSet(DeqOf(s), Buckets)
  BY <1>3 DEF SumFunction
<1>5. SumFunctionOnSet(EnqOf(s), Buckets) \in Nat
  BY <1>2, BucketCells, SumType
<1>6. SumFunctionOnSet(DeqOf(s), Buckets) \in Nat
  BY <1>2, BucketCells, SumType
<1> QED
  BY <1>2, <1>4, <1>5, <1>6

\* A burst is in one bucket, or outside all of them.
LEMMA EnqSums ==
    ASSUME NEW s \in [Cells -> CellType], NEW n \in 0 .. BurstSize
    PROVE  /\ SumFunction(DeqOf(AddEnq(s, n))) = SumFunction(DeqOf(s))
           /\ SumFunction(EnqOf(AddEnq(s, n))) + Beyond(n) = SumFunction(EnqOf(s)) + n
<1> DEFINE t == AddEnq(s, n)
           k == StatsI(n) - 1
<1>1. t \in [Cells -> CellType]
  BY AddEnqCells
<1>2. DeqOf(t) = DeqOf(s)
  BY BucketCells, AddEnqCells DEF DeqOf
<1>3. ASSUME StatsI(n) <= BucketCnt
      PROVE  SumFunction(EnqOf(t)) + Beyond(n) = SumFunction(EnqOf(s)) + n
  <2>1. k \in Buckets /\ StatsI(n) <= BucketCnt /\ Beyond(n) = 0
    BY <1>3, StatsIn, Sizes DEF Buckets
  <2>2. EnqOf(t)[k] = EnqOf(s)[k] + n /\ \A b \in Buckets \ {k} : EnqOf(t)[b] = EnqOf(s)[b]
    BY <2>1, BucketCells, AddEnqCells DEF EnqOf
  <2> HIDE DEF t, k
  <2>3. SumFunctionOnSet(EnqOf(t), Buckets) + EnqOf(s)[k]
            = SumFunctionOnSet(EnqOf(s), Buckets) + EnqOf(t)[k]
    <3>1. Numbers(EnqOf(t), Buckets) /\ Numbers(EnqOf(s), Buckets) /\ IsFiniteSet(Buckets)
      BY <1>1, CellSums, BucketCells
    <3> DEFINE f == EnqOf(s)
               g == EnqOf(t)
    <3> HIDE DEF f, g
    <3>2. \A b \in Buckets \ {k} : g[b] = f[b]
      BY <2>2 DEF f, g
    <3>3. SumFunctionOnSet(g, Buckets) + f[k] = SumFunctionOnSet(f, Buckets) + g[k]
      BY <2>1, <3>1, <3>2, SumChange DEF f, g
    <3> QED
      BY <3>3 DEF f, g
  <2>4. SumFunction(EnqOf(t)) \in Nat /\ SumFunction(EnqOf(s)) \in Nat /\ EnqOf(s)[k] \in Nat
    BY <1>1, <2>1, CellSums DEF Numbers
  <2>5. Beyond(n) = 0 /\ n \in Nat
    BY <2>1
  <2> QED
    BY <1>1, <2>2, <2>3, <2>4, <2>5, CellSums
<1>4. ASSUME ~(StatsI(n) <= BucketCnt)
      PROVE  SumFunction(EnqOf(t)) + Beyond(n) = SumFunction(EnqOf(s)) + n
  <2>1. Beyond(n) = n
    BY <1>4, StatsIn
  <2>2. EnqOf(t) = EnqOf(s)
    <3>1. \A b \in Buckets : b # StatsI(n) - 1
      BY <1>4, StatsIn, Sizes DEF Buckets
    <3>2. \A b \in Buckets : t[b].enq_pkts = s[b].enq_pkts
      BY <3>1, BucketCells, AddEnqCells
    <3> HIDE DEF t
    <3> QED
      BY <3>2 DEF EnqOf
  <2> QED
    BY <2>1, <2>2
<1> QED
  BY <1>2, <1>3, <1>4

LEMMA DeqSums ==
    ASSUME NEW s \in [Cells -> CellType], NEW n \in 0 .. BurstSize
    PROVE  /\ SumFunction(EnqOf(AddDeq(s, n))) = SumFunction(EnqOf(s))
           /\ SumFunction(DeqOf(AddDeq(s, n))) + Beyond(n) = SumFunction(DeqOf(s)) + n
<1> DEFINE t == AddDeq(s, n)
           k == StatsI(n) - 1
<1>1. t \in [Cells -> CellType]
  BY AddDeqCells
<1>2. EnqOf(t) = EnqOf(s)
  BY BucketCells, AddDeqCells DEF EnqOf
<1>3. ASSUME StatsI(n) <= BucketCnt
      PROVE  SumFunction(DeqOf(t)) + Beyond(n) = SumFunction(DeqOf(s)) + n
  <2>1. k \in Buckets /\ StatsI(n) <= BucketCnt /\ Beyond(n) = 0
    BY <1>3, StatsIn, Sizes DEF Buckets
  <2>2. DeqOf(t)[k] = DeqOf(s)[k] + n /\ \A b \in Buckets \ {k} : DeqOf(t)[b] = DeqOf(s)[b]
    BY <2>1, BucketCells, AddDeqCells DEF DeqOf
  <2> HIDE DEF t, k
  <2>3. SumFunctionOnSet(DeqOf(t), Buckets) + DeqOf(s)[k]
            = SumFunctionOnSet(DeqOf(s), Buckets) + DeqOf(t)[k]
    <3>1. Numbers(DeqOf(t), Buckets) /\ Numbers(DeqOf(s), Buckets) /\ IsFiniteSet(Buckets)
      BY <1>1, CellSums, BucketCells
    <3> DEFINE f == DeqOf(s)
               g == DeqOf(t)
    <3> HIDE DEF f, g
    <3>2. \A b \in Buckets \ {k} : g[b] = f[b]
      BY <2>2 DEF f, g
    <3>3. SumFunctionOnSet(g, Buckets) + f[k] = SumFunctionOnSet(f, Buckets) + g[k]
      BY <2>1, <3>1, <3>2, SumChange DEF f, g
    <3> QED
      BY <3>3 DEF f, g
  <2>4. SumFunction(DeqOf(t)) \in Nat /\ SumFunction(DeqOf(s)) \in Nat /\ DeqOf(s)[k] \in Nat
    BY <1>1, <2>1, CellSums DEF Numbers
  <2>5. Beyond(n) = 0 /\ n \in Nat
    BY <2>1
  <2> QED
    BY <1>1, <2>2, <2>3, <2>4, <2>5, CellSums
<1>4. ASSUME ~(StatsI(n) <= BucketCnt)
      PROVE  SumFunction(DeqOf(t)) + Beyond(n) = SumFunction(DeqOf(s)) + n
  <2>1. Beyond(n) = n
    BY <1>4, StatsIn
  <2>2. DeqOf(t) = DeqOf(s)
    <3>1. \A b \in Buckets : b # StatsI(n) - 1
      BY <1>4, StatsIn, Sizes DEF Buckets
    <3>2. \A b \in Buckets : t[b].deq_pkts = s[b].deq_pkts
      BY <3>1, BucketCells, AddDeqCells
    <3> HIDE DEF t
    <3> QED
      BY <3>2 DEF DeqOf
  <2> QED
    BY <2>1, <2>2
<1> QED
  BY <1>2, <1>3, <1>4

-----------------------------------------------------------------------------
(* The round robin over the rule subsets.                                  *)

\* f tabulates the selector for up to m packets.
IsSelector(f, m) ==
    f = [n \in 0 .. m |->
            [g \in 1 .. SubsetCnt + 1 |-> IF n = 0 THEN g ELSE NextGroup(f[n - 1][g])]]

LEMMA SelectorDefined == IsSelector(SelectorAfter, BurstSize)
<1> DEFINE C == {m \in Nat : \E f : IsSelector(f, m)}
<1>1. 0 \in C
  <2>1. IsSelector([n \in 0 .. 0 |-> [g \in 1 .. SubsetCnt + 1 |-> g]], 0)
    BY DEF IsSelector
  <2> QED
    BY <2>1
<1>2. ASSUME NEW m \in Nat, m \in C
      PROVE  m + 1 \in C
  <2>1. PICK f : IsSelector(f, m)
    BY <1>2
  <2> DEFINE h == [n \in 0 .. m + 1 |->
                      IF n = 0 THEN f[0]
                      ELSE [g \in 1 .. SubsetCnt + 1 |-> NextGroup(f[n - 1][g])]]
  <2>2. \A n \in 0 .. m : f[n] = [g \in 1 .. SubsetCnt + 1 |-> IF n = 0 THEN g ELSE NextGroup(f[n - 1][g])]
    BY <2>1 DEF IsSelector
  <2>3. \A n \in 0 .. m : h[n] = f[n]
    <3>1. h[0] = f[0]
      OBVIOUS
    <3>2. ASSUME NEW n \in 0 .. m, n # 0
          PROVE  h[n] = f[n]
      <4>1. f[n] = [g \in 1 .. SubsetCnt + 1 |-> NextGroup(f[n - 1][g])]
        BY <2>2, <3>2
      <4>2. n \in 0 .. m + 1
        OBVIOUS
      <4> QED
        BY <3>2, <4>1, <4>2
    <3> HIDE DEF h
    <3> QED
      BY <3>1, <3>2
  <2>4. ASSUME NEW n \in 0 .. m + 1
        PROVE  h[n] = [g \in 1 .. SubsetCnt + 1 |-> IF n = 0 THEN g ELSE NextGroup(h[n - 1][g])]
    <3>1. CASE n = 0
      BY <2>2, <3>1
    <3>2. CASE n # 0
      <4>1. h[n] = [g \in 1 .. SubsetCnt + 1 |-> NextGroup(f[n - 1][g])]
        BY <3>2
      <4>2. n - 1 \in 0 .. m
        BY <3>2
      <4> HIDE DEF h
      <4>3. h[n - 1] = f[n - 1]
        BY <2>3, <4>2
      <4> QED
        BY <3>2, <4>1, <4>3
    <3> QED
      BY <3>1, <3>2
  <2>5. IsSelector(h, m + 1)
    BY <2>4 DEF IsSelector
  <2> QED
    BY <2>5
<1>3. BurstSize \in C
  <2> HIDE DEF C
  <2>1. Nat \subseteq C
    BY <1>1, <1>2, SetOfNumbers
  <2> QED
    BY <2>1, Sizes
<1>4. SelectorAfter = CHOOSE f : IsSelector(f, BurstSize)
  BY DEF SelectorAfter, IsSelector
<1> QED
  BY <1>3, <1>4

LEMMA SelectorSteps ==
    ASSUME NEW g \in Groups
    PROVE  /\ SelectorAfter[0][g] = g
           /\ \A n \in Nat : n < BurstSize =>
                  SelectorAfter[n + 1][g] = NextGroup(SelectorAfter[n][g])
           /\ \A n \in Nat : n <= BurstSize => SelectorAfter[n][g] \in Groups
<1>1. \A n \in 0 .. BurstSize :
          SelectorAfter[n] = [h \in 1 .. SubsetCnt + 1 |->
                                 IF n = 0 THEN h ELSE NextGroup(SelectorAfter[n - 1][h])]
  BY SelectorDefined DEF IsSelector
<1>2. g \in 1 .. SubsetCnt + 1 /\ 0 \in 0 .. BurstSize
  BY MoreAssumption, Sizes DEF Groups
<1>3. SelectorAfter[0][g] = g
  BY <1>1, <1>2
<1>4. ASSUME NEW n \in Nat, n < BurstSize
      PROVE  SelectorAfter[n + 1][g] = NextGroup(SelectorAfter[n][g])
  <2> DEFINE k == n + 1
  <2>1. k \in 0 .. BurstSize /\ k # 0 /\ k - 1 = n
    BY <1>4, Sizes
  <2> HIDE DEF k
  <2>2. SelectorAfter[k] = [h \in 1 .. SubsetCnt + 1 |-> NextGroup(SelectorAfter[n][h])]
    BY <1>1, <2>1
  <2>3. SelectorAfter[k][g] = NextGroup(SelectorAfter[n][g])
    BY <1>2, <2>2
  <2> QED
    BY <2>3 DEF k
<1>5. \A n \in Nat : n <= BurstSize => SelectorAfter[n][g] \in Groups
  <2> DEFINE C == {n \in Nat : n <= BurstSize => SelectorAfter[n][g] \in Groups}
  <2>1. 0 \in C
    BY <1>3
  <2>2. ASSUME NEW n \in Nat, n \in C
        PROVE  n + 1 \in C
    <3> SUFFICES ASSUME n + 1 <= BurstSize
                 PROVE  SelectorAfter[n + 1][g] \in Groups
      OBVIOUS
    <3>1. n < BurstSize /\ SelectorAfter[n][g] \in Groups
      BY <2>2, Sizes
    <3>2. NextGroup(SelectorAfter[n][g]) \in Groups
      BY <3>1, MoreAssumption DEF NextGroup, Groups
    <3> QED
      BY <1>4, <3>1, <3>2
  <2> HIDE DEF C
  <2>3. Nat \subseteq C
    BY <2>1, <2>2, SetOfNumbers
  <2> QED
    BY <2>3 DEF C
<1> QED
  BY <1>3, <1>4, <1>5

\* The groups below the selector are one operation ahead of the others.
Dealt(a, sel) == \E q \in Nat : \A g \in Groups : a[g] = IF g < sel THEN q + 1 ELSE q

LEMMA DealOne ==
    ASSUME NEW a, NEW c, NEW sel \in Groups, Dealt(a, sel),
           \A g \in Groups : c[g] = a[g] + (IF g = sel THEN 1 ELSE 0)
    PROVE  Dealt(c, NextGroup(sel))
<1>1. PICK q \in Nat : \A g \in Groups : a[g] = IF g < sel THEN q + 1 ELSE q
  BY DEF Dealt
<1>2. CASE sel + 1 > SubsetCnt
  <2>1. \A g \in Groups : c[g] = IF g < 1 THEN q + 1 + 1 ELSE q + 1
    BY <1>1, <1>2, MoreAssumption DEF Groups
  <2>2. NextGroup(sel) = 1 /\ q + 1 \in Nat
    BY <1>2 DEF NextGroup
  <2> QED
    BY <2>1, <2>2 DEF Dealt
<1>3. CASE ~(sel + 1 > SubsetCnt)
  <2>1. \A g \in Groups : c[g] = IF g < sel + 1 THEN q + 1 ELSE q
    BY <1>1, <1>3, MoreAssumption DEF Groups
  <2>2. NextGroup(sel) = sel + 1
    BY <1>3 DEF NextGroup
  <2> QED
    BY <2>1, <2>2 DEF Dealt
<1> QED
  BY <1>2, <1>3

\* The operations of I that get group g when the selector is sel.
Turns(I, sel, g) == {i \in I : SelectorAfter[i - 1][sel] = g}

LEMMA TurnsSize ==
    ASSUME NEW n \in Nat, NEW sel, NEW g
    PROVE  /\ Cardinality(Turns(1 .. n, sel, g)) \in Nat
           /\ Cardinality(Turns(1 .. n + 1, sel, g))
                 = Cardinality(Turns(1 .. n, sel, g)) + (IF g = SelectorAfter[n][sel] THEN 1 ELSE 0)
<1> DEFINE I == Turns(1 .. n, sel, g)
<1>1. I \subseteq 1 .. n /\ n + 1 \notin I
  BY DEF Turns
<1>2. IsFiniteSet(1 .. n)
  BY FS_Interval
<1>3. IsFiniteSet(I)
  BY <1>1, <1>2, FS_Subset
<1>4. Cardinality(I) \in Nat
  BY <1>3, FS_CardinalityType
<1>5. 1 .. n + 1 = (1 .. n) \cup {n + 1} /\ n + 1 - 1 = n
  OBVIOUS
<1>6. CASE g = SelectorAfter[n][sel]
  <2>1. Turns(1 .. n + 1, sel, g) = I \cup {n + 1}
    BY <1>5, <1>6 DEF Turns
  <2>2. Cardinality(I \cup {n + 1}) = Cardinality(I) + 1
    <3> HIDE DEF I
    <3> QED
      BY <1>1, <1>3, FS_AddElement
  <2> QED
    BY <1>4, <1>6, <2>1, <2>2
<1>7. CASE g # SelectorAfter[n][sel]
  <2>1. Turns(1 .. n + 1, sel, g) = I
    BY <1>5, <1>7 DEF Turns
  <2> HIDE DEF I
  <2>2. Cardinality(Turns(1 .. n + 1, sel, g)) = Cardinality(I) + 0
    BY <1>4, <2>1
  <2> QED
    BY <1>4, <1>7, <2>2 DEF I
<1> QED
  BY <1>4, <1>6, <1>7

\* The operations of a burst are those the device accepted and the others.
LEMMA TurnsSplit ==
    ASSUME NEW n \in Nat, NEW e \in 0 .. n, NEW sel, NEW g
    PROVE  /\ Cardinality(Turns(1 .. e, sel, g)) \in Nat
           /\ Cardinality(Turns(e + 1 .. n, sel, g)) \in Nat
           /\ Cardinality(Turns(1 .. n, sel, g))
                 = Cardinality(Turns(1 .. e, sel, g)) + Cardinality(Turns(e + 1 .. n, sel, g))
<1> DEFINE A == Turns(1 .. e, sel, g)
           B == Turns(e + 1 .. n, sel, g)
<1>1. 1 .. n = (1 .. e) \cup (e + 1 .. n) /\ (1 .. e) \cap (e + 1 .. n) = {}
  OBVIOUS
<1>2. A \subseteq 1 .. n /\ B \subseteq 1 .. n /\ A \cap B = {} /\ Turns(1 .. n, sel, g) = A \cup B
  BY <1>1 DEF Turns
<1> HIDE DEF A, B
<1>3. IsFiniteSet(A) /\ IsFiniteSet(B)
  BY <1>2, UptoFinite, FS_Subset
<1>4. Cardinality(A) \in Nat /\ Cardinality(B) \in Nat
  BY <1>3, FS_CardinalityType
<1>5. Cardinality(A \cup B) = Cardinality(A) + Cardinality(B) - 0
  BY <1>2, <1>3, FS_Union, FS_EmptySet
<1>6. Cardinality(A \cup B) = Cardinality(A) + Cardinality(B)
  BY <1>4, <1>5
<1> QED
  BY <1>2, <1>4, <1>6 DEF A, B

LEMMA DealBurst ==
    ASSUME NEW a \in [Groups -> Nat], NEW sel \in Groups, Dealt(a, sel), NEW nb \in 0 .. BurstSize
    PROVE  LET c == [g \in Groups |-> a[g] + Cardinality(Turns(1 .. nb, sel, g))]
           IN  c \in [Groups -> Nat] /\ Dealt(c, SelectorAfter[nb][sel])
<1> DEFINE after(n) == [g \in Groups |-> a[g] + Cardinality(Turns(1 .. n, sel, g))]
           C == {n \in Nat : n <= BurstSize =>
                    after(n) \in [Groups -> Nat] /\ Dealt(after(n), SelectorAfter[n][sel])}
<1>1. 0 \in C
  <2>1. \A g \in Groups : Turns(1 .. 0, sel, g) = {}
    BY DEF Turns
  <2>2. after(0) = a
    BY <2>1, FS_EmptySet
  <2>3. SelectorAfter[0][sel] = sel
    BY SelectorSteps
  <2> HIDE DEF after
  <2> QED
    BY <2>2, <2>3
<1>2. ASSUME NEW n \in Nat, n \in C
      PROVE  n + 1 \in C
  <2> SUFFICES ASSUME n + 1 <= BurstSize
               PROVE  after(n + 1) \in [Groups -> Nat] /\ Dealt(after(n + 1), SelectorAfter[n + 1][sel])
    OBVIOUS
  <2> DEFINE s == SelectorAfter[n][sel]
  <2>1. n < BurstSize /\ after(n) \in [Groups -> Nat] /\ Dealt(after(n), s)
    BY <1>2, Sizes
  <2>2. s \in Groups /\ SelectorAfter[n + 1][sel] = NextGroup(s)
    <3> HIDE DEF after, C
    <3>1. n < BurstSize /\ n <= BurstSize
      BY <2>1, Sizes
    <3> QED
      BY <3>1, SelectorSteps
  <2>3. \A g \in Groups : /\ Cardinality(Turns(1 .. n, sel, g)) \in Nat
                          /\ Cardinality(Turns(1 .. n + 1, sel, g))
                                = Cardinality(Turns(1 .. n, sel, g)) + (IF g = s THEN 1 ELSE 0)
    BY TurnsSize
  <2>4. \A g \in Groups : after(n + 1)[g] = after(n)[g] + (IF g = s THEN 1 ELSE 0)
    <3> HIDE DEF s
    <3> QED
      BY <2>3
  <2>5. after(n + 1) \in [Groups -> Nat]
    <3>1. \A g \in Groups : after(n + 1)[g] \in Nat
      <4> HIDE DEF after, s
      <4> QED
        BY <2>1, <2>4
    <3> QED
      BY <3>1
  <2> HIDE DEF after, s
  <2>6. Dealt(after(n + 1), NextGroup(s))
    BY <2>1, <2>2, <2>4, DealOne
  <2> QED
    BY <2>2, <2>5, <2>6
<1>3. nb \in C
  <2> HIDE DEF C
  <2>1. Nat \subseteq C
    BY <1>1, <1>2, SetOfNumbers
  <2> QED
    BY <2>1, Sizes
<1> QED
  BY <1>3

-----------------------------------------------------------------------------
(* The invariant.                                                          *)

TotalType == [enqd : Nat, dqd : Nat, drained : Nat]
OutsideType == [enq : Nat, deq : Nat]

Typed ==
    /\ stats \in [Workers -> [Cells -> CellType]]
    /\ selector \in [Workers -> Groups]
    /\ served \in [Workers -> [Groups -> Nat]]
    /\ rejected \in [Workers -> [Groups -> Nat]]
    /\ inflight \in [Workers -> 0 .. NbDesc]
    /\ total \in [Workers -> TotalType]
    /\ outside \in [Workers -> OutsideType]
    /\ pc \in [Workers -> {"loop", "drain", "done"}]

\* The histogram s and the larger bursts o say what happened to the packets
\* counted in t of which k are in flight.
Accounts(s, t, k, o) ==
    /\ t.enqd = t.dqd + k + t.drained
    /\ SumFunction(EnqOf(s)) + o.enq = t.enqd
    /\ SumFunction(DeqOf(s)) + o.deq = t.dqd

\* The operations of worker w by subset, accepted or not.
Prepared(w) == [g \in Groups |-> served[w][g] + rejected[w][g]]

WorkersOK ==
    \A w \in Workers : /\ Ranged(stats[w])
                       /\ Accounts(stats[w], total[w], inflight[w], outside[w])
                       /\ Dealt(Prepared(w), selector[w])

Reported ==
    report # NoReport =>
        /\ \A w \in Workers : pc[w] = "done"
        /\ \A b \in Buckets : /\ report[b].enq_pkts = Sum(b, "enq_pkts")
                              /\ report[b].deq_pkts = Sum(b, "deq_pkts")

BurstInv == Typed /\ WorkersOK /\ Reported

LEMMA BurstInit == Init => BurstInv
<1> SUFFICES ASSUME Init
             PROVE  BurstInv
  OBVIOUS
<1> DEFINE s == [i \in Cells |-> ZeroCell]
<1>1. ZeroCell \in CellType /\ s \in [Cells -> CellType]
  BY DEF ZeroCell, CellType
<1>2. 1 \in Groups /\ 0 \in 0 .. NbDesc
  BY MoreAssumption DEF Groups
<1>3. [enqd |-> 0, dqd |-> 0, drained |-> 0] \in TotalType /\ [enq |-> 0, deq |-> 0] \in OutsideType
  BY DEF TotalType, OutsideType
<1>4. Typed
  BY <1>1, <1>2, <1>3 DEF Init, Typed
<1>5. Ranged(s)
  <2>1. \A b \in Buckets : s[b] = ZeroCell /\ b \in Nat
    BY BucketCells
  <2>2. \A b \in Nat : (b + 1) * BucketSize * 0 = 0 /\ (b * BucketSize + 1) * 0 = 0
    <3> SUFFICES ASSUME NEW b \in Nat
                 PROVE  (b + 1) * BucketSize * 0 = 0 /\ (b * BucketSize + 1) * 0 = 0
      OBVIOUS
    <3>1. (b + 1) * BucketSize \in Nat /\ b * BucketSize + 1 \in Nat
      BY Sizes
    <3> QED
      BY <3>1
  <2> HIDE DEF s
  <2> QED
    BY <2>1, <2>2 DEF Ranged, ZeroCell
<1>6. SumFunction(EnqOf(s)) = 0 /\ SumFunction(DeqOf(s)) = 0
  <2>1. \A b \in Buckets : EnqOf(s)[b] = 0 /\ DeqOf(s)[b] = 0
    BY BucketCells DEF EnqOf, DeqOf, ZeroCell
  <2> HIDE DEF s
  <2>2. SumFunctionOnSet(EnqOf(s), Buckets) = 0
    BY <2>1, BucketCells, SumZero
  <2>3. SumFunctionOnSet(DeqOf(s), Buckets) = 0
    BY <2>1, BucketCells, SumZero
  <2> QED
    BY <1>1, <2>2, <2>3, CellSums
<1>7. Dealt([g \in Groups |-> 0], 1)
  <2>1. \A g \in Groups : [h \in Groups |-> 0][g] = IF g < 1 THEN 0 + 1 ELSE 0
    BY MoreAssumption DEF Groups
  <2> QED
    BY <2>1 DEF Dealt
<1>8. ASSUME NEW w \in Workers
      PROVE  /\ stats[w] = s /\ total[w] = [enqd |-> 0, dqd |-> 0, drained |-> 0]
             /\ inflight[w] = 0 /\ outside[w] = [enq |-> 0, deq |-> 0]
             /\ Prepared(w) = [g \in Groups |-> 0] /\ selector[w] = 1
  BY DEF Init, Prepared
<1>9. WorkersOK
  <2> HIDE DEF s
  <2> QED
    BY <1>5, <1>6, <1>7, <1>8 DEF WorkersOK, Accounts
<1>10. Reported
  BY DEF Init, Reported
<1> QED
  BY <1>4, <1>9, <1>10 DEF BurstInv

\* The histogram after an iteration that had e packets accepted and collected d.
HistAfter(s, nb, e, d) ==
    LET enq == IF nb > 0 THEN AddEnq(s, e) ELSE s
    IN  IF d > 0 THEN AddDeq(enq, d) ELSE enq

LEMMA HistStep ==
    ASSUME NEW s \in [Cells -> CellType], Ranged(s),
           NEW nb \in 0 .. BurstSize, NEW e \in 0 .. nb, NEW d \in 0 .. BurstSize
    PROVE  LET t == HistAfter(s, nb, e, d)
           IN  /\ t \in [Cells -> CellType] /\ Ranged(t)
               /\ SumFunction(EnqOf(t)) + Beyond(e) = SumFunction(EnqOf(s)) + e
               /\ SumFunction(DeqOf(t)) + Beyond(d) = SumFunction(DeqOf(s)) + d
<1> DEFINE enq == IF nb > 0 THEN AddEnq(s, e) ELSE s
           t   == IF d > 0 THEN AddDeq(enq, d) ELSE enq
<1>1. e \in 0 .. BurstSize /\ (nb = 0 => e = 0) /\ Beyond(0) = 0
  BY Sizes DEF Beyond
<1>2. enq \in [Cells -> CellType] /\ Ranged(enq)
  BY <1>1, AddEnqCells, EnqRanged
<1>3. SumFunction(EnqOf(s)) \in Nat /\ SumFunction(DeqOf(s)) \in Nat
  BY CellSums
<1>4. /\ SumFunction(DeqOf(enq)) = SumFunction(DeqOf(s))
      /\ SumFunction(EnqOf(enq)) + Beyond(e) = SumFunction(EnqOf(s)) + e
  <2>1. CASE nb > 0
    BY <1>1, <2>1, EnqSums
  <2>2. CASE ~(nb > 0)
    <3>1. e = 0 /\ enq = s /\ Beyond(e) = 0
      BY <1>1, <2>2
    <3> HIDE DEF enq
    <3> QED
      BY <1>3, <3>1
  <2> QED
    BY <2>1, <2>2
<1> HIDE DEF enq
<1>5. t \in [Cells -> CellType] /\ Ranged(t)
  <2>1. d > 0 => d \in 1 .. BurstSize
    OBVIOUS
  <2> QED
    BY <1>2, <2>1, AddDeqCells, DeqRanged
<1>6. /\ SumFunction(EnqOf(t)) = SumFunction(EnqOf(enq))
      /\ SumFunction(DeqOf(t)) + Beyond(d) = SumFunction(DeqOf(enq)) + d
  <2>1. CASE d > 0
    BY <1>2, <2>1, DeqSums
  <2>2. CASE ~(d > 0)
    <3>1. d = 0 /\ t = enq /\ SumFunction(DeqOf(enq)) \in Nat /\ Beyond(d) = 0
      BY <1>1, <1>2, <2>2, CellSums
    <3> HIDE DEF t
    <3> QED
      BY <3>1
  <2> QED
    BY <2>1, <2>2
<1>7. HistAfter(s, nb, e, d) = t
  BY DEF HistAfter, enq
<1> HIDE DEF t
<1> QED
  BY <1>4, <1>5, <1>6, <1>7

LEMMA IterateInv ==
    ASSUME BurstInv, NEW w \in Workers, NEW nb \in 0 .. BurstSize, NEW e \in 0 .. BurstSize,
           NEW d \in 0 .. BurstSize, Iterate(w, nb, e, d)
    PROVE  BurstInv'
<1> DEFINE t == HistAfter(stats[w], nb, e, d)
           a == [g \in Groups |-> served[w][g] + InGroup(1 .. e, selector[w], g)]
           r == [g \in Groups |-> rejected[w][g] + InGroup(e + 1 .. nb, selector[w], g)]
           v == SelectorAfter[nb][selector[w]]
           k == inflight[w] + e - d
<1>1. Typed /\ WorkersOK /\ Reported
  BY DEF BurstInv
<1>2. /\ stats[w] \in [Cells -> CellType] /\ Ranged(stats[w])
      /\ Accounts(stats[w], total[w], inflight[w], outside[w]) /\ Dealt(Prepared(w), selector[w])
      /\ inflight[w] \in 0 .. NbDesc /\ total[w] \in TotalType /\ outside[w] \in OutsideType
      /\ served[w] \in [Groups -> Nat] /\ rejected[w] \in [Groups -> Nat] /\ selector[w] \in Groups
  BY <1>1 DEF Typed, WorkersOK
<1>3. e \in 0 .. nb /\ k \in 0 .. NbDesc /\ pc[w] = "loop"
  BY <1>2, MoreAssumption DEF Iterate
<1>4. stats' = [stats EXCEPT ![w] = t]
  BY <1>1 DEF Iterate, HistAfter, Typed
<1>5. /\ served' = [served EXCEPT ![w] = a] /\ rejected' = [rejected EXCEPT ![w] = r]
      /\ selector' = [selector EXCEPT ![w] = v]
  BY <1>1 DEF Iterate, Prepare, Typed
<1>6. inflight' = [inflight EXCEPT ![w] = k]
  BY <1>1 DEF Iterate, Typed
<1>7. PICK u \in TotalType : /\ total' = [total EXCEPT ![w] = u]
                             /\ u.enqd = total[w].enqd + e /\ u.dqd = total[w].dqd + d
                             /\ u.drained = total[w].drained
  <2> DEFINE u == [enqd |-> total[w].enqd + e, dqd |-> total[w].dqd + d,
                   drained |-> total[w].drained]
  <2>1. u \in TotalType
    BY <1>2 DEF TotalType
  <2>2. total' = [total EXCEPT ![w] = u]
    BY DEF Iterate
  <2> QED
    BY <2>1, <2>2
<1>8. PICK o \in OutsideType : /\ outside' = [outside EXCEPT ![w] = o]
                               /\ o.enq = outside[w].enq + Beyond(e)
                               /\ o.deq = outside[w].deq + Beyond(d)
  <2> DEFINE o == [enq |-> outside[w].enq + Beyond(e), deq |-> outside[w].deq + Beyond(d)]
  <2>1. Beyond(e) \in Nat /\ Beyond(d) \in Nat
    BY Sizes DEF Beyond
  <2>2. o \in OutsideType
    BY <1>2, <2>1 DEF OutsideType
  <2>3. outside' = [outside EXCEPT ![w] = o]
    BY DEF Iterate
  <2> QED
    BY <2>2, <2>3
<1>9. UNCHANGED <<pc, report>>
  BY DEF Iterate
<1>10. /\ t \in [Cells -> CellType] /\ Ranged(t)
       /\ SumFunction(EnqOf(t)) + Beyond(e) = SumFunction(EnqOf(stats[w])) + e
       /\ SumFunction(DeqOf(t)) + Beyond(d) = SumFunction(DeqOf(stats[w])) + d
  BY <1>2, <1>3, HistStep
<1>11. /\ a \in [Groups -> Nat] /\ r \in [Groups -> Nat] /\ v \in Groups
       /\ Dealt([g \in Groups |-> a[g] + r[g]], v)
  <2>1. nb \in Nat /\ nb <= BurstSize
    BY Sizes
  <2>2. v \in Groups
    BY <1>2, <2>1, SelectorSteps
  <2> DEFINE c == [g \in Groups |-> Prepared(w)[g] + Cardinality(Turns(1 .. nb, selector[w], g))]
  <2>3. Prepared(w) \in [Groups -> Nat]
    BY <1>2 DEF Prepared
  <2>4. Dealt(c, v)
    BY <1>2, <2>3, DealBurst
  <2>5. ASSUME NEW g \in Groups
        PROVE  /\ a[g] \in Nat /\ r[g] \in Nat
               /\ a[g] + r[g] = c[g]
    <3> DEFINE x == Cardinality(Turns(1 .. e, selector[w], g))
               y == Cardinality(Turns(e + 1 .. nb, selector[w], g))
               z == Cardinality(Turns(1 .. nb, selector[w], g))
    <3>1. x \in Nat /\ y \in Nat /\ z = x + y
      <4>1. e \in 0 .. nb /\ selector[w] \in Groups
        BY <1>2, <1>3
      <4> HIDE DEF a, r, c, v, k, t
      <4> QED
        BY <4>1, <2>1, TurnsSplit
    <3>2. a[g] = served[w][g] + x /\ r[g] = rejected[w][g] + y
      BY DEF InGroup, Turns
    <3>3. c[g] = served[w][g] + rejected[w][g] + z
      <4>1. c[g] = Prepared(w)[g] + z
        OBVIOUS
      <4>2. Prepared(w)[g] = served[w][g] + rejected[w][g]
        BY DEF Prepared
      <4> QED
        BY <4>1, <4>2
    <3>4. served[w][g] \in Nat /\ rejected[w][g] \in Nat
      BY <1>2
    <3> HIDE DEF a, r, c, x, y, z
    <3> QED
      BY <3>1, <3>2, <3>3, <3>4
  <2>6. [g \in Groups |-> a[g] + r[g]] = c
    <3> HIDE DEF a, r
    <3> QED
      BY <2>5
  <2>7. a \in [Groups -> Nat] /\ r \in [Groups -> Nat]
    BY <2>5
  <2> HIDE DEF a, r, c, v
  <2> QED
    BY <2>2, <2>4, <2>6, <2>7
<1> HIDE DEF t, a, r, v, k
<1>12. Accounts(t, u, k, o)
  <2>1. total[w].enqd \in Nat /\ total[w].dqd \in Nat /\ total[w].drained \in Nat
    BY <1>2 DEF TotalType
  <2>2. u.enqd = u.dqd + k + u.drained
    BY <1>2, <1>7, <2>1 DEF Accounts, k
  <2>3. SumFunction(EnqOf(t)) \in Nat /\ SumFunction(DeqOf(t)) \in Nat
    BY <1>10, CellSums
  <2>4. SumFunction(EnqOf(stats[w])) \in Nat /\ SumFunction(DeqOf(stats[w])) \in Nat
    BY <1>2, CellSums
  <2>5. outside[w].enq \in Nat /\ outside[w].deq \in Nat /\ Beyond(e) \in Nat /\ Beyond(d) \in Nat
    BY <1>2, Sizes DEF OutsideType, Beyond
  <2>6. SumFunction(EnqOf(t)) + o.enq = u.enqd
    BY <1>2, <1>7, <1>8, <1>10, <2>1, <2>3, <2>4, <2>5 DEF Accounts
  <2>7. SumFunction(DeqOf(t)) + o.deq = u.dqd
    BY <1>2, <1>7, <1>8, <1>10, <2>1, <2>3, <2>4, <2>5 DEF Accounts
  <2> QED
    BY <2>2, <2>6, <2>7 DEF Accounts
<1>13. Typed'
  BY <1>1, <1>3, <1>4, <1>5, <1>6, <1>7, <1>8, <1>9, <1>10, <1>11 DEF Typed
<1>14. WorkersOK'
  <2>1. ASSUME NEW x \in Workers
        PROVE  /\ x = w => /\ stats'[x] = t /\ total'[x] = u /\ inflight'[x] = k /\ outside'[x] = o
                           /\ served'[x] = a /\ rejected'[x] = r /\ selector'[x] = v
               /\ x # w => /\ stats'[x] = stats[x] /\ total'[x] = total[x]
                           /\ inflight'[x] = inflight[x] /\ outside'[x] = outside[x]
                           /\ served'[x] = served[x] /\ rejected'[x] = rejected[x]
                           /\ selector'[x] = selector[x]
    BY <1>1, <1>4, <1>5, <1>6, <1>7, <1>8 DEF Typed
  <2>2. ASSUME NEW x \in Workers
        PROVE  /\ Ranged(stats'[x])
               /\ Accounts(stats'[x], total'[x], inflight'[x], outside'[x])
    BY <1>1, <1>10, <1>12, <2>1 DEF WorkersOK
  <2>3. ASSUME NEW x \in Workers
        PROVE  Dealt(Prepared(x)', selector'[x])
    <3>1. x = w => Prepared(x)' = [g \in Groups |-> a[g] + r[g]]
      BY <2>1 DEF Prepared
    <3>2. x # w => Prepared(x)' = Prepared(x)
      BY <2>1 DEF Prepared
    <3> QED
      BY <1>1, <1>11, <2>1, <3>1, <3>2 DEF WorkersOK
  <2> QED
    BY <2>2, <2>3 DEF WorkersOK
<1>15. Reported'
  <2>1. report' = NoReport
    BY <1>1, <1>3, <1>9 DEF Reported
  <2> QED
    BY <2>1 DEF Reported, NoReport
<1> QED
  BY <1>13, <1>14, <1>15 DEF BurstInv

LEMMA DrainInv ==
    ASSUME BurstInv, NEW w \in Workers, NEW d \in Nat, DrainSome(w, d)
    PROVE  BurstInv'
<1>1. Typed /\ WorkersOK /\ Reported /\ pc[w] = "drain"
  BY DEF BurstInv, DrainSome
<1>2. inflight[w] \in 0 .. NbDesc /\ total[w] \in TotalType
  BY <1>1 DEF Typed
<1>3. inflight[w] - d \in 0 .. NbDesc
  BY <1>2, MoreAssumption DEF DrainSome
<1>4. PICK u \in TotalType : /\ total' = [total EXCEPT ![w] = u]
                             /\ u.enqd = total[w].enqd /\ u.dqd = total[w].dqd
                             /\ u.drained = total[w].drained + d
  <2> DEFINE u == [enqd |-> total[w].enqd, dqd |-> total[w].dqd,
                   drained |-> total[w].drained + d]
  <2>1. u \in TotalType
    BY <1>2 DEF TotalType
  <2>2. total' = [total EXCEPT ![w] = u]
    <3>1. [total[w] EXCEPT !.drained = @ + d] = u
      BY <1>2 DEF TotalType
    <3>2. total' = [total EXCEPT ![w] = [total[w] EXCEPT !.drained = @ + d]]
      BY DEF DrainSome
    <3> QED
      BY <3>1, <3>2
  <2> QED
    BY <2>1, <2>2
<1>5. inflight' = [inflight EXCEPT ![w] = inflight[w] - d]
  BY DEF DrainSome
<1>6. UNCHANGED <<stats, selector, served, rejected, outside, pc, report>>
  BY DEF DrainSome
<1>7. Typed'
  BY <1>1, <1>3, <1>4, <1>5, <1>6 DEF Typed
<1>8. Accounts(stats[w], u, inflight[w] - d, outside[w])
  <2>1. total[w].enqd \in Nat /\ total[w].dqd \in Nat /\ total[w].drained \in Nat
    BY <1>2 DEF TotalType
  <2> QED
    BY <1>1, <1>2, <1>4, <2>1 DEF WorkersOK, Accounts
<1>9. WorkersOK'
  <2>1. ASSUME NEW x \in Workers
        PROVE  /\ x = w => total'[x] = u /\ inflight'[x] = inflight[w] - d
               /\ x # w => total'[x] = total[x] /\ inflight'[x] = inflight[x]
    BY <1>1, <1>4, <1>5 DEF Typed
  <2> QED
    BY <1>1, <1>6, <1>8, <2>1 DEF WorkersOK, Prepared
<1>10. Reported'
  <2>1. report' = NoReport
    BY <1>1, <1>6 DEF Reported
  <2> QED
    BY <2>1 DEF Reported, NoReport
<1> QED
  BY <1>7, <1>9, <1>10 DEF BurstInv

LEMMA BurstStep == BurstInv /\ [Next]_vars => BurstInv'
<1> SUFFICES ASSUME BurstInv, [Next]_vars
             PROVE  BurstInv'
  OBVIOUS
<1>1. CASE \E w \in Workers : \E nb, e, d \in 0 .. BurstSize : Iterate(w, nb, e, d)
  BY <1>1, IterateInv
<1>2. CASE \E w \in Workers : Quit(w) \/ DrainEnd(w)
  <2>1. PICK w \in Workers : Quit(w) \/ DrainEnd(w)
    BY <1>2
  <2>2. report = NoReport
    BY <2>1 DEF Quit, DrainEnd, BurstInv, Reported
  <2>3. UNCHANGED <<stats, selector, served, rejected, inflight, total, outside, report>>
    BY <2>1 DEF Quit, DrainEnd
  <2>4. pc' \in [Workers -> {"loop", "drain", "done"}]
    BY <2>1 DEF Quit, DrainEnd, BurstInv, Typed
  <2>5. Typed' /\ WorkersOK'
    BY <2>3, <2>4 DEF BurstInv, Typed, WorkersOK, Prepared
  <2>6. Reported'
    BY <2>2, <2>3 DEF Reported, NoReport
  <2> QED
    BY <2>5, <2>6 DEF BurstInv
<1>3. CASE \E w \in Workers : \E d \in 1 .. BurstSize : DrainSome(w, d)
  <2>1. 1 .. BurstSize \subseteq Nat
    BY Sizes
  <2> QED
    BY <1>3, <2>1, DrainInv
<1>4. CASE Dump
  <2>1. UNCHANGED <<stats, selector, served, rejected, inflight, total, outside, pc>>
    BY <1>4 DEF Dump
  <2>2. Typed' /\ WorkersOK'
    BY <2>1 DEF BurstInv, Typed, WorkersOK, Prepared
  <2>3. \A b \in Buckets : Sum(b, "enq_pkts")' = Sum(b, "enq_pkts")
                           /\ Sum(b, "deq_pkts")' = Sum(b, "deq_pkts")
    BY <2>1 DEF Sum
  <2>4. \A b \in Buckets : /\ report'[b].enq_pkts = Sum(b, "enq_pkts")
                           /\ report'[b].deq_pkts = Sum(b, "deq_pkts")
    BY <1>4 DEF Dump
  <2>5. \A w \in Workers : pc'[w] = "done"
    BY <1>4, <2>1 DEF Dump
  <2>6. Reported'
    BY <2>3, <2>4, <2>5 DEF Reported
  <2> QED
    BY <2>2, <2>6 DEF BurstInv
<1>5. CASE Printed \/ UNCHANGED vars
  BY <1>5 DEF Printed, vars, BurstInv, Typed, WorkersOK, Prepared, Reported, Sum, NoReport
<1> QED
  BY <1>1, <1>2, <1>3, <1>4, <1>5 DEF Next

LEMMA BurstInvariant == Spec => []BurstInv
BY BurstInit, BurstStep, PTL DEF Spec

\* The types of the statistics; the selector is always a configured subset.
THEOREM TypeCorrect == Spec => []TypeOK
<1>1. CellType = [DOMAIN ZeroCell -> Nat]
  BY DEF CellType, ZeroCell
<1>2. BurstInv => TypeOK
  BY <1>1 DEF BurstInv, Typed, TypeOK
<1> QED
  BY <1>2, BurstInvariant, PTL

\* Every burst is in the bucket of its size, only those larger than the last
\* bucket are in none, and nothing else is lost (regex-test.c:744-752, 763-770).
THEOREM HistogramIsRight == Spec => []HistogramRight
<1>1. BurstInv => BucketRange
  BY DEF BurstInv, WorkersOK, Ranged, BucketRange
<1>2. BurstInv => Balance
  <2> SUFFICES ASSUME BurstInv, NEW w \in Workers
               PROVE  /\ Recorded(w, "enq_pkts") + outside[w].enq = total[w].enqd
                      /\ Recorded(w, "deq_pkts") + outside[w].deq + inflight[w]
                            + total[w].drained = total[w].enqd
    BY DEF Balance
  <2>1. Recorded(w, "enq_pkts") = SumFunction(EnqOf(stats[w]))
    BY DEF Recorded, EnqOf
  <2>2. Recorded(w, "deq_pkts") = SumFunction(DeqOf(stats[w]))
    BY DEF Recorded, DeqOf
  <2>3. Accounts(stats[w], total[w], inflight[w], outside[w])
    BY DEF BurstInv, WorkersOK
  <2> QED
    BY <2>1, <2>2, <2>3 DEF Accounts
<1> QED
  BY <1>1, <1>2, BurstInvariant, PTL DEF HistogramRight

\* The device has served the subsets evenly but for the operations it rejected,
\* whatever the sizes of the bursts and of what it accepted of them.
THEOREM GroupsAreEven == Spec => []EvenGroups
<1>1. BurstInv => EvenGroups
  <2> SUFFICES ASSUME BurstInv, NEW w \in Workers, NEW g \in Groups, NEW h \in Groups
               PROVE  served[w][g] <= served[w][h] + rejected[w][h] + 1
    BY DEF EvenGroups
  <2>1. /\ served[w][g] \in Nat /\ rejected[w][g] \in Nat
        /\ served[w][h] \in Nat /\ rejected[w][h] \in Nat
    BY DEF BurstInv, Typed
  <2>2. PICK q \in Nat : \A i \in Groups : Prepared(w)[i] = IF i < selector[w] THEN q + 1 ELSE q
    BY DEF BurstInv, WorkersOK, Dealt
  <2>3. Prepared(w)[g] \in {q, q + 1} /\ Prepared(w)[h] \in {q, q + 1}
    BY <2>2
  <2>4. Prepared(w)[g] = served[w][g] + rejected[w][g] /\ Prepared(w)[h] = served[w][h] + rejected[w][h]
    BY DEF Prepared
  <2> QED
    BY <2>1, <2>3, <2>4
<1> QED
  BY <1>1, BurstInvariant, PTL

\* Row w of F, a table of counts, adds up to T[w].
RowsAre(F, T) ==
    /\ \A w \in Workers, b \in Buckets : F[w][b] \in Nat
    /\ T = [w \in Workers |-> SumFunction([b \in Buckets |-> F[w][b]])]

ColumnsOf(F) == [b \in Buckets |-> SumFunction([w \in Workers |-> F[w][b]])]

LEMMA ColumnsAddUp ==
    ASSUME NEW F, NEW T, RowsAre(F, T)
    PROVE  SumFunction(ColumnsOf(F)) = SumFunction(T)
<1>1. IsFiniteSet(Workers) /\ IsFiniteSet(Buckets)
  BY BucketCells, MoreAssumption
<1>2. ColumnsOf(F) = [b \in Buckets |-> SumFunctionOnSet([w \in Workers |-> F[w][b]], Workers)]
  BY DEF ColumnsOf, SumFunction
<1>3. T = [w \in Workers |-> SumFunctionOnSet([b \in Buckets |-> F[w][b]], Buckets)]
  BY DEF RowsAre, SumFunction
<1>4. SumFunction(ColumnsOf(F)) = SumFunctionOnSet(ColumnsOf(F), Buckets)
  BY DEF ColumnsOf, SumFunction
<1>5. SumFunction(T) = SumFunctionOnSet(T, Workers)
  BY <1>3 DEF SumFunction
<1>6. \A w \in Workers, b \in Buckets : F[w][b] \in Nat
  BY DEF RowsAre
<1>7. SumFunctionOnSet([w \in Workers |-> SumFunctionOnSet([b \in Buckets |-> F[w][b]], Buckets)],
                       Workers)
        = SumFunctionOnSet([b \in Buckets |->
                               SumFunctionOnSet([w \in Workers |-> F[w][b]], Workers)],
                           Buckets)
  BY <1>1, <1>6, SumSwapped
<1> QED
  BY <1>2, <1>3, <1>4, <1>5, <1>7

\* The rows of F, with what o adds to each, are the traffic t.
RowsAndRest(F, o, t) ==
    /\ \A w \in Workers, b \in Buckets : F[w][b] \in Nat
    /\ \A w \in Workers : o[w] \in Nat
    /\ \A w \in Workers : SumFunction([b \in Buckets |-> F[w][b]]) + o[w] = t[w]

\* Then the columns of F add up to it in the same way.
LEMMA ColumnsAndRest ==
    ASSUME NEW F, NEW o, NEW t, RowsAndRest(F, o, t)
    PROVE  SumFunction(ColumnsOf(F)) + SumFunction([w \in Workers |-> o[w]])
             = SumFunction([w \in Workers |-> t[w]])
<1> DEFINE T == [w \in Workers |-> SumFunction([b \in Buckets |-> F[w][b]])]
           O == [w \in Workers |-> o[w]]
           S == [w \in Workers |-> t[w]]
<1>1. IsFiniteSet(Workers) /\ IsFiniteSet(Buckets)
  BY BucketCells, MoreAssumption
<1>2. SumFunction(ColumnsOf(F)) = SumFunction(T)
  <2>1. RowsAre(F, T)
    BY DEF RowsAre, RowsAndRest
  <2> HIDE DEF T
  <2> QED
    BY <2>1, ColumnsAddUp
<1>3. ASSUME NEW w \in Workers
      PROVE  T[w] \in Nat
  <2> DEFINE f == [b \in Buckets |-> F[w][b]]
  <2>1. Numbers(f, Buckets)
    BY DEF Numbers, RowsAndRest
  <2>2. T[w] = SumFunctionOnSet(f, Buckets)
    BY DEF SumFunction
  <2> HIDE DEF f, T
  <2> QED
    BY <1>1, <2>1, <2>2, SumType
<1>4. Numbers(T, Workers) /\ Numbers(O, Workers) /\ \A w \in Workers : S[w] = T[w] + O[w]
  <2>1. \A w \in Workers : O[w] = o[w] /\ S[w] = t[w] /\ T[w] = SumFunction([b \in Buckets |-> F[w][b]])
    OBVIOUS
  <2> HIDE DEF T, O, S
  <2> QED
    BY <1>3, <2>1 DEF Numbers, RowsAndRest
<1>5. /\ SumFunction(T) = SumFunctionOnSet(T, Workers)
      /\ SumFunction(O) = SumFunctionOnSet(O, Workers)
      /\ SumFunction(S) = SumFunctionOnSet(S, Workers)
  BY DEF SumFunction
<1> HIDE DEF T, O, S
<1>6. SumFunctionOnSet(S, Workers) = SumFunctionOnSet(T, Workers) + SumFunctionOnSet(O, Workers)
  BY <1>1, <1>4, SumPlus
<1> QED
  BY <1>2, <1>5, <1>6 DEF O, S

\* What app_stats_dump prints adds up to the packets all workers had accepted
\* and had collected, but for the bursts larger than the last bucket.
THEOREM ReportIsTheTraffic == Spec => []ReportAddsUp
<1>1. BurstInv => ReportAddsUp
  <2> SUFFICES ASSUME BurstInv, report # NoReport
               PROVE  /\ SumFunction([b \in Buckets |-> report[b].enq_pkts])
                              + SumFunction([w \in Workers |-> outside[w].enq])
                            = SumFunction([w \in Workers |-> total[w].enqd])
                      /\ SumFunction([b \in Buckets |-> report[b].deq_pkts])
                              + SumFunction([w \in Workers |-> outside[w].deq])
                            = SumFunction([w \in Workers |-> total[w].dqd])
    BY DEF ReportAddsUp
  <2>1. Typed /\ WorkersOK /\ Reported
    BY DEF BurstInv
  <2>2. \A w \in Workers, b \in Buckets :
            stats[w][b]["enq_pkts"] \in Nat /\ stats[w][b]["deq_pkts"] \in Nat
    BY <2>1, BucketCells DEF Typed, CellType
  <2>3. \A w \in Workers : outside[w].enq \in Nat /\ outside[w].deq \in Nat
    BY <2>1 DEF Typed, OutsideType
  <2>4. SumFunction([b \in Buckets |-> report[b].enq_pkts])
               + SumFunction([w \in Workers |-> outside[w].enq])
             = SumFunction([w \in Workers |-> total[w].enqd])
    <3> DEFINE F == [w \in Workers |-> EnqOf(stats[w])]
               o == [w \in Workers |-> outside[w].enq]
               t == [w \in Workers |-> total[w].enqd]
    <3>1. \A w \in Workers, b \in Buckets : F[w][b] = stats[w][b]["enq_pkts"]
      BY DEF EnqOf
    <3>2. \A w \in Workers : [b \in Buckets |-> F[w][b]] = EnqOf(stats[w])
      BY DEF EnqOf
    <3>3. \A w \in Workers : SumFunction(EnqOf(stats[w])) + o[w] = t[w]
      BY <2>1 DEF WorkersOK, Accounts
    <3>4. ColumnsOf(F) = [b \in Buckets |-> report[b].enq_pkts]
      <4>1. \A b \in Buckets : [w \in Workers |-> F[w][b]] = [w \in Workers |-> stats[w][b]["enq_pkts"]]
        BY <3>1
      <4> HIDE DEF F
      <4> QED
        BY <2>1, <4>1 DEF Reported, Sum, ColumnsOf
    <3>5. \A w \in Workers : o[w] \in Nat
      BY <2>3
    <3>6. /\ [w \in Workers |-> o[w]] = [w \in Workers |-> outside[w].enq]
          /\ [w \in Workers |-> t[w]] = [w \in Workers |-> total[w].enqd]
      OBVIOUS
    <3> HIDE DEF F, o, t
    <3>7. RowsAndRest(F, o, t)
      BY <2>2, <3>1, <3>2, <3>3, <3>5 DEF RowsAndRest
    <3>8. SumFunction(ColumnsOf(F)) + SumFunction([w \in Workers |-> o[w]])
            = SumFunction([w \in Workers |-> t[w]])
      BY <3>7, ColumnsAndRest
    <3> QED
      BY <3>4, <3>6, <3>8
  <2>5. SumFunction([b \in Buckets |-> report[b].deq_pkts])
               + SumFunction([w \in Workers |-> outside[w].deq])
             = SumFunction([w \in Workers |-> total[w].dqd])
    <3> DEFINE F == [w \in Workers |-> DeqOf(stats[w])]
               o == [w \in Workers |-> outside[w].deq]
               t == [w \in Workers |-> total[w].dqd]
    <3>1. \A w \in Workers, b \in Buckets : F[w][b] = stats[w][b]["deq_pkts"]
      BY DEF DeqOf
    <3>2. \A w \in Workers : [b \in Buckets |-> F[w][b]] = DeqOf(stats[w])
      BY DEF DeqOf
    <3>3. \A w \in Workers : SumFunction(DeqOf(stats[w])) + o[w] = t[w]
      BY <2>1 DEF WorkersOK, Accounts
    <3>4. ColumnsOf(F) = [b \in Buckets |-> report[b].deq_pkts]
      <4>1. \A b \in Buckets : [w \in Workers |-> F[w][b]] = [w \in Workers |-> stats[w][b]["deq_pkts"]]
        BY <3>1
      <4> HIDE DEF F
      <4> QED
        BY <2>1, <4>1 DEF Reported, Sum, ColumnsOf
    <3>5. \A w \in Workers : o[w] \in Nat
      BY <2>3
    <3>6. /\ [w \in Workers |-> o[w]] = [w \in Workers |-> outside[w].deq]
          /\ [w \in Workers |-> t[w]] = [w \in Workers |-> total[w].dqd]
      OBVIOUS
    <3> HIDE DEF F, o, t
    <3>7. RowsAndRest(F, o, t)
      BY <2>2, <3>1, <3>2, <3>3, <3>5 DEF RowsAndRest
    <3>8. SumFunction(ColumnsOf(F)) + SumFunction([w \in Workers |-> o[w]])
            = SumFunction([w \in Workers |-> t[w]])
      BY <3>7, ColumnsAndRest
    <3> QED
      BY <3>4, <3>6, <3>8
  <2> QED
    BY <2>4, <2>5
<1> QED
  BY <1>1, BurstInvariant, PTL
=============================================================================
