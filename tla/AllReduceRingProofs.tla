------------------------- MODULE AllReduceRingProofs -------------------------
(***************************************************************************)
(* Proofs about the ring all-reduce, for every setting: any number of      *)
(* ranks, elements, chunks, blocks and partitions.                         *)
(*                                                                         *)
(* The hosts, the blocks of their kernels and the network run at their own *)
(* pace; what ties them together are round counters. The invariant states  *)
(* the rounds of a partition in closed form (Start, Elem, Numel), relates  *)
(* the counters of a host, of a host and its blocks, and of a rank and its *)
(* right neighbour, and says of every buffer which round's data it holds.  *)
(* The chunks in use at any time belong to at most numChunks rounds in a  *)
(* row, so that no two of them share one.                                  *)
(***************************************************************************)
EXTENDS AllReduceRing, TLAPS

-----------------------------------------------------------------------------
(* Arithmetic.                                                             *)

\* Division rounds down.
LEMMA DivFacts ==
    ASSUME NEW x \in Nat, NEW c \in Nat \ {0}
    PROVE  /\ x \div c \in Nat
           /\ c * (x \div c) <= x
           /\ x < c * (x \div c) + c
OBVIOUS

\* Multiplication is monotonic.
LEMMA MulMono ==
    ASSUME NEW a \in Nat, NEW b \in Nat, NEW c \in Nat, a <= b
    PROVE  a * c <= b * c
OBVIOUS

\* A product of naturals is a natural.
LEMMA MulNat == ASSUME NEW a \in Nat, NEW b \in Nat PROVE a * b \in Nat
OBVIOUS

\* The quotient rounded up: how many chunks of c elements hold x.
LEMMA CeilFacts ==
    ASSUME NEW x \in Nat \ {0}, NEW c \in Nat \ {0}, NEW k, k = (x + c - 1) \div c
    PROVE  /\ k \in Nat \ {0}
           /\ c * (k - 1) < x
           /\ x <= c * k
<1>1. k \in Nat /\ c * k <= x + c - 1 /\ x + c - 1 < c * k + c
  <2>1. x + c - 1 \in Nat  OBVIOUS
  <2> QED BY <2>1, DivFacts
<1>2. c * (k - 1) = c * k - c  BY <1>1
<1>3. k # 0  BY <1>1
<1> QED BY <1>1, <1>2, <1>3

\* c numbers in a row have different remainders.
LEMMA ModDistinct ==
    ASSUME NEW K \in Nat \ {0}, NEW x \in Nat, NEW y \in Nat, x < y, y < x + K
    PROVE  x % K # y % K
<1>1. /\ x = (K * (x \div K)) + (x % K) /\ x % K \in 0 .. K - 1 /\ x \div K \in Nat
  OBVIOUS
<1>2. /\ y = (K * (y \div K)) + (y % K) /\ y % K \in 0 .. K - 1 /\ y \div K \in Nat
  OBVIOUS
<1>3. ASSUME NEW a \in Nat, NEW b \in Nat, K * b - K * a > 0, K * b - K * a < K PROVE FALSE
  <2>1. CASE b <= a  BY <2>1, <1>3, MulMono
  <2>2. CASE b >= a + 1
    <3>1. (a + 1) * K <= b * K  BY <2>2, MulMono
    <3> QED BY <3>1, <1>3
  <2> QED BY <2>1, <2>2
<1>4. SUFFICES ASSUME x % K = y % K PROVE FALSE  OBVIOUS
<1>5. y - x = K * (y \div K) - K * (x \div K)  BY <1>1, <1>2, <1>4
<1> DEFINE a == x \div K
<1> DEFINE b == y \div K
<1>6. a \in Nat /\ b \in Nat /\ y - x = K * b - K * a  BY <1>1, <1>2, <1>5
<1> HIDE DEF a, b
<1>7. K * b - K * a > 0 /\ K * b - K * a < K  BY <1>6
<1> QED BY <1>3, <1>6, <1>7, Zenon

\* A remainder is a chunk of the temporary buffer.
LEMMA ModRange == ASSUME NEW K \in Nat \ {0}, NEW x \in Nat PROVE x % K \in 0 .. K - 1
OBVIOUS

\* The remainder of a number below the divisor.
LEMMA ModSmall == ASSUME NEW n \in Nat \ {0}, NEW x \in 0 .. n - 1 PROVE x % n = x
OBVIOUS

\* The remainder of a number one turn further.
LEMMA ModNext == ASSUME NEW n \in Nat \ {0}, NEW x \in n .. 2 * n - 1 PROVE x % n = x - n
OBVIOUS

-----------------------------------------------------------------------------
(* The rounds of a partition in closed form.                               *)

\* The operators of the algorithm for the setting m. A partition at p has a shard of
\* LenOf elements for every rank h, sent in ChunksOf rounds.
RanksOf(m) == 0 .. m.nRanks - 1
PartLen(m, p) ==
    LET remain == m.numElements - p
        total == m.chunkNumel * m.numChunks * m.nRanks
        min == m.minShardNumel * m.nRanks
    IN CASE remain < total -> remain
         [] remain >= total /\ remain < total + min -> remain - min
         [] OTHER -> total
ShardLen(m, p) == PartLen(m, p) \div m.nRanks
LenOf(m, p, h) ==
    IF h = m.nRanks - 1 THEN PartLen(m, p) - ShardLen(m, p) * (m.nRanks - 1) ELSE ShardLen(m, p)
ChunksOf(m, p, h) == (LenOf(m, p, h) + m.chunkNumel - 1) \div m.chunkNumel

\* The steps of a partition, the neighbours, and the shard that the rank o sends in step s.
Steps(m) == 2 * m.nRanks - 2
LeftOf(m, r) == (r - 1 + m.nRanks) % m.nRanks
RightOf(m, r) == (r + 1) % m.nRanks
ShardAt(m, o, s) == (o + (m.nRanks - (s % m.nRanks))) % m.nRanks

\* How often the last shard, which may be longer than the others, was sent before step s.
Passed(m, o, s) ==
    LET f == (o + 1) % m.nRanks
    IN IF s <= f THEN 0 ELSE IF s <= f + m.nRanks THEN 1 ELSE 2

\* The round in which step s of the rank o starts (AlgoContext's round counters in closed
\* form), all rounds of a partition, and those of the first step.
Start(m, o, p, s) ==
    s * ChunksOf(m, p, 0) + Passed(m, o, s) * (ChunksOf(m, p, m.nRanks - 1) - ChunksOf(m, p, 0))
Total(m, o, p) == Start(m, o, p, Steps(m))
First(m, o, p) == Start(m, o, p, 1)

\* The rounds of step s. The round R of it works on Numel elements, from the element Elem
\* on, of which Before precede it in the shard.
RoundsOf(m, o, p, s) == Start(m, o, p, s) .. Start(m, o, p, s + 1) - 1
Before(m, o, p, s, R) == (R - Start(m, o, p, s)) * m.chunkNumel
Numel(m, o, p, s, R) ==
    LET rest == LenOf(m, p, ShardAt(m, o, s)) - Before(m, o, p, s, R)
    IN IF rest < m.chunkNumel THEN rest ELSE m.chunkNumel
Elem(m, o, p, s, R) == p + ShardAt(m, o, s) * ShardLen(m, p) + Before(m, o, p, s, R)

\* A partition starts where an element for every rank is left.
Good(m, p) == p \in Nat /\ p < m.numElements /\ m.numElements - p >= m.nRanks

\* What RingAssumption says of a setting.
LEMMA ModeFacts ==
    ASSUME NEW m \in Modes
    PROVE  /\ m.nRanks \in Nat /\ m.nRanks >= 2
           /\ m.numElements \in Nat /\ m.numElements >= m.nRanks
           /\ m.chunkNumel \in Nat \ {0} /\ m.numChunks \in Nat \ {0}
           /\ m.minShardNumel \in Nat \ {0} /\ m.numBlocks \in Nat \ {0}
           /\ m.chunkNumel * m.numChunks > m.minShardNumel
           /\ Steps(m) \in Nat /\ Steps(m) >= 2 /\ Steps(m) = 2 * m.nRanks - 2
<1>1. /\ m.nRanks \in Nat \ {0, 1} /\ m.numElements \in Nat /\ m.numElements >= m.nRanks
      /\ {m.chunkNumel, m.numChunks, m.minShardNumel, m.numBlocks} \subseteq Nat \ {0}
      /\ m.chunkNumel * m.numChunks > m.minShardNumel
  BY RingAssumption
<1>2. m.nRanks \in Nat /\ m.nRanks >= 2  BY <1>1
<1>3. /\ m.chunkNumel \in Nat \ {0} /\ m.numChunks \in Nat \ {0}
      /\ m.minShardNumel \in Nat \ {0} /\ m.numBlocks \in Nat \ {0}
  BY <1>1
<1>4. Steps(m) \in Nat /\ Steps(m) >= 2 /\ Steps(m) = 2 * m.nRanks - 2
  BY <1>2 DEF Steps
<1> QED BY <1>1, <1>2, <1>3, <1>4

\* A multiple is not less.
LEMMA AtLeast ==
    ASSUME NEW a \in Nat \ {0}, NEW n \in Nat
    PROVE  a * n \in Nat /\ a * n >= n
OBVIOUS

\* A partition has an element for every rank, lies in the buffer, and ends it or leaves an
\* element for every rank to the next (updatePartitionCtx).
LEMMA PartFacts ==
    ASSUME NEW m \in Modes, NEW p, Good(m, p)
    PROVE  /\ PartLen(m, p) \in Nat /\ PartLen(m, p) >= m.nRanks
           /\ p + PartLen(m, p) <= m.numElements
           /\ p + PartLen(m, p) # m.numElements => Good(m, p + PartLen(m, p))
<1> DEFINE total == m.chunkNumel * m.numChunks * m.nRanks
<1> DEFINE min == m.minShardNumel * m.nRanks
<1> DEFINE a == m.chunkNumel * m.numChunks
<1>1. a \in Nat \ {0} /\ a >= m.minShardNumel + 1
  BY ModeFacts, MulNat
<1>2. min \in Nat /\ min >= m.nRanks  BY ModeFacts, AtLeast
<1>3. total \in Nat /\ total >= min + m.nRanks
  <2>1. (a - m.minShardNumel) * m.nRanks >= m.nRanks
    <3>1. a - m.minShardNumel \in Nat \ {0}  BY <1>1, ModeFacts
    <3> QED BY <3>1, AtLeast, ModeFacts
  <2>2. (a - m.minShardNumel) * m.nRanks = a * m.nRanks - min  BY <1>1, ModeFacts
  <2>3. total = a * m.nRanks  OBVIOUS
  <2>4. a * m.nRanks \in Nat  BY <1>1, ModeFacts, MulNat
  <2> HIDE DEF total, a, min
  <2> QED BY <2>1, <2>2, <2>3, <2>4, <1>2, ModeFacts
<1>4. PartLen(m, p) = LET remain == m.numElements - p
        IN IF remain < total THEN remain
           ELSE IF remain < total + min THEN remain - min ELSE total
  <2> HIDE DEF total, min
  <2>1. PartLen(m, p) = LET remain == m.numElements - p
          IN CASE remain < total -> remain
               [] remain >= total /\ remain < total + min -> remain - min
               [] OTHER -> total
    BY DEF PartLen, total, min
  <2> QED BY <2>1, <1>2, <1>3, ModeFacts DEF Good
<1> HIDE DEF total, min, a
<1>5. /\ m.nRanks \in Nat /\ m.numElements \in Nat /\ p \in Nat
      /\ m.numElements - p \in Nat /\ m.numElements - p >= m.nRanks /\ m.nRanks >= 2
  BY ModeFacts DEF Good
<1>6. /\ PartLen(m, p) \in Nat /\ PartLen(m, p) >= m.nRanks
      /\ p + PartLen(m, p) <= m.numElements
      /\ p + PartLen(m, p) # m.numElements =>
            /\ p + PartLen(m, p) < m.numElements
            /\ m.numElements - (p + PartLen(m, p)) >= m.nRanks
  BY <1>2, <1>3, <1>4, <1>5
<1> QED BY <1>5, <1>6 DEF Good

\* A shard is not empty, lies in the partition, and is sent in as many rounds as it takes.
LEMMA ShardFacts ==
    ASSUME NEW m \in Modes, NEW p, Good(m, p), NEW h \in RanksOf(m)
    PROVE  /\ ShardLen(m, p) \in Nat \ {0}
           /\ LenOf(m, p, h) \in Nat \ {0}
           /\ h * ShardLen(m, p) \in Nat
           /\ h * ShardLen(m, p) + LenOf(m, p, h) <= PartLen(m, p)
           /\ h = m.nRanks - 1 => h * ShardLen(m, p) + LenOf(m, p, h) = PartLen(m, p)
           /\ h # m.nRanks - 1 => LenOf(m, p, h) = ShardLen(m, p)
           /\ ChunksOf(m, p, h) \in Nat \ {0}
           /\ m.chunkNumel * (ChunksOf(m, p, h) - 1) < LenOf(m, p, h)
           /\ LenOf(m, p, h) <= m.chunkNumel * ChunksOf(m, p, h)
<1> DEFINE n == m.nRanks
<1> DEFINE S == ShardLen(m, p)
<1> DEFINE P == PartLen(m, p)
<1>1. n \in Nat /\ n >= 2 /\ P \in Nat /\ P >= n  BY ModeFacts, PartFacts
<1>2. S \in Nat /\ n * S <= P /\ P < n * S + n
  <2>1. n \in Nat \ {0}  BY <1>1
  <2>2. S = P \div n  BY DEF ShardLen
  <2> HIDE DEF n, P, S
  <2> QED BY <2>1, <2>2, <1>1, DivFacts
<1>3. S # 0  BY <1>1, <1>2
<1>4. h \in 0 .. n - 1  BY DEF RanksOf
<1>5. LenOf(m, p, h) = IF h = n - 1 THEN P - S * (n - 1) ELSE S  BY DEF LenOf
<1>6. m.chunkNumel \in Nat \ {0}  BY ModeFacts
<1> HIDE DEF n, S, P
<1>7. S * (n - 1) = n * S - S  BY <1>1, <1>2
<1>8. LenOf(m, p, h) \in Nat \ {0}  BY <1>1, <1>2, <1>3, <1>4, <1>5, <1>7
<1>9. h * S \in Nat  BY <1>2, <1>4, MulNat
<1>10. h * S + LenOf(m, p, h) <= P /\ (h = n - 1 => h * S + LenOf(m, p, h) = P)
  <2>1. CASE h = n - 1
    <3>1. h * S = n * S - S  BY <2>1, <1>7, <1>1, <1>2
    <3> QED BY <2>1, <3>1, <1>1, <1>2, <1>5, <1>7
  <2>2. CASE h # n - 1
    <3>1. (h + 1) * S <= n * S  BY <2>2, <1>1, <1>2, <1>4, MulMono
    <3>2. (h + 1) * S = h * S + S  BY <1>2, <1>4
    <3>3. h * S \in Nat /\ n * S \in Nat  BY <1>1, <1>2, <1>4, MulNat
    <3> QED BY <2>2, <3>1, <3>2, <3>3, <1>1, <1>2, <1>5
  <2> QED BY <2>1, <2>2
<1>11. /\ ChunksOf(m, p, h) \in Nat \ {0}
       /\ m.chunkNumel * (ChunksOf(m, p, h) - 1) < LenOf(m, p, h)
       /\ LenOf(m, p, h) <= m.chunkNumel * ChunksOf(m, p, h)
  BY <1>6, <1>8, CeilFacts DEF ChunksOf
<1>12. h # n - 1 => LenOf(m, p, h) = S  BY <1>5
<1> QED BY <1>2, <1>3, <1>8, <1>9, <1>10, <1>11, <1>12 DEF n, S, P

\* Shards do not overlap.
LEMMA ShardsApart ==
    ASSUME NEW m \in Modes, NEW p, Good(m, p), NEW h \in RanksOf(m), NEW g \in RanksOf(m), h < g
    PROVE  h * ShardLen(m, p) + LenOf(m, p, h) <= g * ShardLen(m, p)
<1> DEFINE S == ShardLen(m, p)
<1>1. S \in Nat /\ LenOf(m, p, h) = S /\ h \in Nat /\ g \in Nat
  BY ShardFacts, ModeFacts DEF RanksOf
<1> HIDE DEF S
<1>2. (h + 1) * S <= g * S  BY <1>1, MulMono
<1>3. (h + 1) * S = h * S + S  BY <1>1
<1> QED BY <1>1, <1>2, <1>3 DEF S

-----------------------------------------------------------------------------

\* The neighbours in the ring.
LEMMA Neighbours ==
    ASSUME NEW m \in Modes, NEW r \in RanksOf(m)
    PROVE  /\ LeftOf(m, r) = (IF r = 0 THEN m.nRanks - 1 ELSE r - 1)
           /\ RightOf(m, r) = (IF r = m.nRanks - 1 THEN 0 ELSE r + 1)
<1> DEFINE n == m.nRanks
<1>1. n \in Nat \ {0} /\ n >= 2 /\ r \in 0 .. n - 1  BY ModeFacts DEF RanksOf
<1>2. LeftOf(m, r) = (r - 1 + n) % n /\ RightOf(m, r) = (r + 1) % n  BY DEF LeftOf, RightOf
<1> HIDE DEF n
<1>3. (r - 1 + n) % n = IF r = 0 THEN n - 1 ELSE r - 1
  <2>1. CASE r = 0
    <3>1. r - 1 + n \in 0 .. n - 1 /\ r - 1 + n = n - 1  BY <1>1, <2>1
    <3> QED BY <3>1, <1>1, <2>1, ModSmall
  <2>2. CASE r # 0
    <3>1. r - 1 + n \in n .. 2 * n - 1 /\ r - 1 + n - n = r - 1  BY <1>1, <2>2
    <3> QED BY <3>1, <1>1, <2>2, ModNext
  <2> QED BY <2>1, <2>2
<1>4. (r + 1) % n = IF r = n - 1 THEN 0 ELSE r + 1
  <2>1. CASE r = n - 1
    <3>1. r + 1 \in n .. 2 * n - 1 /\ r + 1 - n = 0  BY <1>1, <2>1
    <3> QED BY <3>1, <1>1, <2>1, ModNext
  <2>2. CASE r # n - 1
    <3>1. r + 1 \in 0 .. n - 1  BY <1>1, <2>2
    <3> QED BY <3>1, <1>1, <2>2, ModSmall
  <2> QED BY <2>1, <2>2
<1> QED BY <1>2, <1>3, <1>4 DEF n

\* Left and right are inverse, and nobody is its own neighbour.
LEMMA NeighbourFacts ==
    ASSUME NEW m \in Modes, NEW r \in RanksOf(m)
    PROVE  /\ LeftOf(m, r) \in RanksOf(m) /\ RightOf(m, r) \in RanksOf(m)
           /\ LeftOf(m, r) # r /\ RightOf(m, r) # r
           /\ RightOf(m, LeftOf(m, r)) = r
           /\ LeftOf(m, RightOf(m, r)) = r
<1>1. LeftOf(m, r) \in RanksOf(m) /\ RightOf(m, r) \in RanksOf(m)
  BY Neighbours, ModeFacts DEF RanksOf
<1> QED BY <1>1, Neighbours, ModeFacts DEF RanksOf

\* The shard of a step: they are sent in descending order, starting with the own one.
LEMMA ShardAtIs ==
    ASSUME NEW m \in Modes, NEW o \in RanksOf(m), NEW s \in 0 .. Steps(m)
    PROVE  ShardAt(m, o, s) = LET u == IF s < m.nRanks THEN s ELSE s - m.nRanks
                              IN IF u <= o THEN o - u ELSE o - u + m.nRanks
<1> DEFINE n == m.nRanks
<1> DEFINE u == IF s < n THEN s ELSE s - n
<1>1. n \in Nat \ {0} /\ n >= 2 /\ o \in 0 .. n - 1 /\ s \in 0 .. 2 * n - 1
  BY ModeFacts DEF RanksOf
<1>2. ShardAt(m, o, s) = (o + (n - (s % n))) % n  BY DEF ShardAt
<1>3. u \in 0 .. n - 1  BY <1>1
<1>4. s % n = u
  <2> HIDE DEF n
  <2>1. CASE s < n
    <3>1. s \in 0 .. n - 1  BY <2>1, <1>1
    <3> QED BY <3>1, <1>1, <2>1, ModSmall
  <2>2. CASE ~ (s < n)
    <3>1. s \in n .. 2 * n - 1  BY <2>2, <1>1
    <3> QED BY <3>1, <1>1, <2>2, ModNext
  <2> QED BY <2>1, <2>2
<1> HIDE DEF n, u
<1>5. (o + (n - u)) % n = IF u <= o THEN o - u ELSE o - u + n
  <2>1. CASE u <= o
    <3> DEFINE x == o + (n - u)
    <3>1. x \in n .. 2 * n - 1 /\ x - n = o - u  BY <2>1, <1>1, <1>3
    <3> HIDE DEF x
    <3>2. x % n = x - n  BY <3>1, <1>1, ModNext
    <3> QED BY <3>1, <3>2, <2>1 DEF x
  <2>2. CASE ~ (u <= o)
    <3>1. o + (n - u) \in 0 .. n - 1 /\ o + (n - u) = o - u + n  BY <2>2, <1>1, <1>3
    <3> QED BY <3>1, <1>1, <2>2, ModSmall
  <2> QED BY <2>1, <2>2
<1> QED BY <1>2, <1>4, <1>5 DEF n, u

\* A shard comes back after a turn and not before, and what a rank sends it was sent by
\* its left neighbour one step earlier.
LEMMA ShardAtFacts ==
    ASSUME NEW m \in Modes, NEW o \in RanksOf(m), NEW s \in 0 .. Steps(m)
    PROVE  /\ ShardAt(m, o, s) \in RanksOf(m)
           /\ ShardAt(m, o, 0) = o
           /\ s + m.nRanks \in 0 .. Steps(m) => ShardAt(m, o, s + m.nRanks) = ShardAt(m, o, s)
           /\ s < Steps(m) => ShardAt(m, o, s + 1) = ShardAt(m, LeftOf(m, o), s)
           /\ \A t \in 0 .. Steps(m) : s < t /\ t < s + m.nRanks => ShardAt(m, o, s) # ShardAt(m, o, t)
<1> DEFINE n == m.nRanks
<1>1. n \in Nat \ {0} /\ n >= 2 /\ o \in 0 .. n - 1 /\ s \in 0 .. Steps(m) /\ Steps(m) = 2 * n - 2
  BY ModeFacts DEF RanksOf
<1>2. ShardAt(m, o, s) \in RanksOf(m) /\ ShardAt(m, o, 0) = o
  BY <1>1, ShardAtIs DEF RanksOf
<1>3. s + n \in 0 .. Steps(m) => ShardAt(m, o, s + n) = ShardAt(m, o, s)
  BY <1>1, ShardAtIs DEF RanksOf
<1>4. ASSUME s < Steps(m) PROVE ShardAt(m, o, s + 1) = ShardAt(m, LeftOf(m, o), s)
  <2>1. LeftOf(m, o) \in RanksOf(m) /\ LeftOf(m, o) = IF o = 0 THEN n - 1 ELSE o - 1
    BY NeighbourFacts, Neighbours
  <2>2. s + 1 \in 0 .. Steps(m)  BY <1>1, <1>4
  <2> QED BY <1>1, <1>4, <2>1, <2>2, ShardAtIs DEF RanksOf
<1>5. ASSUME NEW t \in 0 .. Steps(m), s < t, t < s + n PROVE ShardAt(m, o, s) # ShardAt(m, o, t)
  <2>1. ShardAt(m, o, s) = LET u == IF s < n THEN s ELSE s - n
                           IN IF u <= o THEN o - u ELSE o - u + n
    BY ShardAtIs
  <2>2. ShardAt(m, o, t) = LET u == IF t < n THEN t ELSE t - n
                           IN IF u <= o THEN o - u ELSE o - u + n
    BY ShardAtIs
  <2> HIDE DEF n
  <2> QED BY <1>1, <1>5, <2>1, <2>2
<1> QED BY <1>2, <1>3, <1>4, <1>5

\* How the passes of the last shard add up along the steps, and between neighbours.
LEMMA PassedFacts ==
    ASSUME NEW m \in Modes, NEW o \in RanksOf(m), NEW s \in 0 .. Steps(m)
    PROVE  /\ Passed(m, o, s) \in {0, 1, 2} /\ Passed(m, o, s) <= s
           /\ Passed(m, o, 0) = 0
           /\ s < Steps(m) =>
                Passed(m, o, s + 1) = Passed(m, o, s) + (IF ShardAt(m, o, s) = m.nRanks - 1 THEN 1 ELSE 0)
           /\ s < Steps(m) =>
                Passed(m, o, s + 1) = Passed(m, LeftOf(m, o), s) + Passed(m, o, 1)
           /\ \A t \in 0 .. Steps(m) :
                s < t => /\ Passed(m, o, s) <= Passed(m, o, t)
                         /\ Passed(m, o, t) - Passed(m, o, s) <= t - s
<1> DEFINE n == m.nRanks
<1> DEFINE f == RightOf(m, o)
<1> DEFINE l == LeftOf(m, o)
<1>1. n \in Nat \ {0} /\ n >= 2 /\ o \in 0 .. n - 1 /\ s \in 0 .. Steps(m) /\ Steps(m) = 2 * n - 2
  BY ModeFacts DEF RanksOf
<1>2. f = IF o = n - 1 THEN 0 ELSE o + 1  BY Neighbours
<1>3. \A t : Passed(m, o, t) = IF t <= f THEN 0 ELSE IF t <= f + n THEN 1 ELSE 2
  BY DEF Passed, RightOf
<1>4. \A t : Passed(m, l, t) = IF t <= o THEN 0 ELSE IF t <= o + n THEN 1 ELSE 2
  BY NeighbourFacts DEF Passed, RightOf
<1>5. ShardAt(m, o, s) = LET u == IF s < n THEN s ELSE s - n
                         IN IF u <= o THEN o - u ELSE o - u + n
  BY ShardAtIs
<1> HIDE DEF n, f, l
<1>6. Passed(m, o, s) \in {0, 1, 2} /\ Passed(m, o, s) <= s /\ Passed(m, o, 0) = 0
  BY <1>1, <1>2, <1>3
<1>7. s < Steps(m) =>
        Passed(m, o, s + 1) = Passed(m, o, s) + (IF ShardAt(m, o, s) = n - 1 THEN 1 ELSE 0)
  BY <1>1, <1>2, <1>3, <1>5
<1>8. s < Steps(m) => Passed(m, o, s + 1) = Passed(m, l, s) + Passed(m, o, 1)
  BY <1>1, <1>2, <1>3, <1>4
<1>9. ASSUME NEW t \in 0 .. Steps(m), s < t
      PROVE  /\ Passed(m, o, s) <= Passed(m, o, t)
             /\ Passed(m, o, t) - Passed(m, o, s) <= t - s
  BY <1>1, <1>2, <1>3, <1>9
<1> QED BY <1>6, <1>7, <1>8, <1>9 DEF n, l

\* A step starts where the previous one ends; a rank starts a step when it has sent its own
\* shard and what its left neighbour sent before.
LEMMA StartFacts ==
    ASSUME NEW m \in Modes, NEW o \in RanksOf(m), NEW p, Good(m, p), NEW s \in 0 .. Steps(m)
    PROVE  /\ Start(m, o, p, s) \in Nat
           /\ Start(m, o, p, 0) = 0
           /\ s < Steps(m) =>
                Start(m, o, p, s + 1) = Start(m, o, p, s) + ChunksOf(m, p, ShardAt(m, o, s))
           /\ s < Steps(m) =>
                Start(m, o, p, s + 1) = Start(m, LeftOf(m, o), p, s) + First(m, o, p)
           /\ \A t \in 0 .. Steps(m) : s < t => Start(m, o, p, s) < Start(m, o, p, t)
<1> DEFINE a == ChunksOf(m, p, 0)
<1> DEFINE z == ChunksOf(m, p, m.nRanks - 1)
<1>1. a \in Nat \ {0} /\ z \in Nat \ {0}
  BY ModeFacts, ShardFacts DEF RanksOf
<1>2. \A h \in RanksOf(m) : ChunksOf(m, p, h) = IF h = m.nRanks - 1 THEN z ELSE a
  <2>1. TAKE h \in RanksOf(m)
  <2>2. CASE h = m.nRanks - 1  BY <2>2
  <2>3. CASE h # m.nRanks - 1
    <3>1. 0 \in RanksOf(m) /\ 0 # m.nRanks - 1  BY ModeFacts DEF RanksOf
    <3>2. LenOf(m, p, h) = LenOf(m, p, 0)  BY <2>3, <3>1 DEF LenOf
    <3> QED BY <2>3, <3>2 DEF ChunksOf
  <2> QED BY <2>2, <2>3
<1>3. \A q, t : Start(m, q, p, t) = t * a + Passed(m, q, t) * (z - a)
  BY DEF Start
<1>4. ShardAt(m, o, s) \in RanksOf(m)  BY ShardAtFacts
<1>5. Steps(m) \in Nat /\ Steps(m) >= 2  BY ModeFacts
<1>6. LeftOf(m, o) \in RanksOf(m)  BY NeighbourFacts
<1> HIDE DEF a, z
<1>7. ASSUME NEW x \in Nat, NEW y \in {0, 1, 2}, y <= x
      PROVE  x * a + y * (z - a) \in Nat /\ (x > 0 => x * a + y * (z - a) > 0)
  <2>1. (x - y) * a \in Nat /\ (x - y > 0 => (x - y) * a > 0)
    <3>1. x - y \in Nat  BY <1>7
    <3> HIDE DEF a
    <3>2. ASSUME NEW u \in Nat PROVE u * a \in Nat /\ (u > 0 => u * a > 0)  BY <1>1
    <3> QED BY <3>1, <3>2
  <2>2. (x - y) * a = x * a - y * a  BY <1>1, <1>7
  <2>3. x * a \in Nat  BY <1>1, MulNat
  <2>4. CASE y = 0  BY <2>1, <2>2, <2>3, <2>4, <1>1
  <2>5. CASE y = 1  BY <2>1, <2>2, <2>3, <2>5, <1>1
  <2>6. CASE y = 2  BY <2>1, <2>2, <2>3, <2>6, <1>1
  <2> QED BY <2>4, <2>5, <2>6
<1>8. Start(m, o, p, s) \in Nat  BY <1>3, <1>7, PassedFacts
<1>9. Start(m, o, p, 0) = 0
  <2>1. Passed(m, o, 0) = 0  BY PassedFacts
  <2> QED BY <2>1, <1>3, <1>1
<1>10. ASSUME s < Steps(m)
       PROVE  Start(m, o, p, s + 1) = Start(m, o, p, s) + ChunksOf(m, p, ShardAt(m, o, s))
  <2>1. Passed(m, o, s) \in {0, 1, 2} /\ Passed(m, o, s + 1) \in {0, 1, 2}
    <3>1. s + 1 \in 0 .. Steps(m)  BY <1>5, <1>10
    <3> QED BY <3>1, PassedFacts
  <2>2. Passed(m, o, s + 1) = Passed(m, o, s) + (IF ShardAt(m, o, s) = m.nRanks - 1 THEN 1 ELSE 0)
    BY <1>10, PassedFacts
  <2>3. (s + 1) * a = s * a + a /\ s * a \in Nat  BY <1>1, <1>5
  <2>4. ChunksOf(m, p, ShardAt(m, o, s)) = IF ShardAt(m, o, s) = m.nRanks - 1 THEN z ELSE a
    BY <1>2, <1>4
  <2>5. Start(m, o, p, s + 1) = (s + 1) * a + Passed(m, o, s + 1) * (z - a)  BY <1>3
  <2>6. Start(m, o, p, s) = s * a + Passed(m, o, s) * (z - a)  BY <1>3
  <2> QED BY <2>1, <2>2, <2>3, <2>4, <2>5, <2>6, <1>1
<1>11. ASSUME s < Steps(m)
       PROVE  Start(m, o, p, s + 1) = Start(m, LeftOf(m, o), p, s) + First(m, o, p)
  <2>1. /\ Passed(m, LeftOf(m, o), s) \in {0, 1, 2}
        /\ Passed(m, o, 1) \in {0, 1, 2} /\ Passed(m, o, s + 1) \in {0, 1, 2}
    <3>1. s + 1 \in 0 .. Steps(m) /\ 1 \in 0 .. Steps(m)  BY <1>5, <1>11
    <3> QED BY <3>1, <1>6, PassedFacts
  <2>2. Passed(m, o, s + 1) = Passed(m, LeftOf(m, o), s) + Passed(m, o, 1)
    BY <1>11, PassedFacts
  <2>3. (s + 1) * a = s * a + a /\ s * a \in Nat  BY <1>1, <1>5
  <2>4. Start(m, o, p, s + 1) = (s + 1) * a + Passed(m, o, s + 1) * (z - a)  BY <1>3
  <2>5. Start(m, LeftOf(m, o), p, s) = s * a + Passed(m, LeftOf(m, o), s) * (z - a)  BY <1>3
  <2>6. First(m, o, p) = a + Passed(m, o, 1) * (z - a)  BY <1>3, <1>1 DEF First
  <2> QED BY <2>1, <2>2, <2>3, <2>4, <2>5, <2>6, <1>1
<1>12. ASSUME NEW t \in 0 .. Steps(m), s < t PROVE Start(m, o, p, s) < Start(m, o, p, t)
  <2> DEFINE y == Passed(m, o, t) - Passed(m, o, s)
  <2>1. /\ Passed(m, o, s) \in {0, 1, 2} /\ Passed(m, o, t) \in {0, 1, 2}
        /\ Passed(m, o, s) <= Passed(m, o, t) /\ y <= t - s
    BY <1>12, PassedFacts
  <2>2. y \in {0, 1, 2} /\ t - s \in Nat /\ t - s > 0  BY <2>1, <1>5, <1>12
  <2>3. (t - s) * a + y * (z - a) > 0  BY <2>1, <2>2, <1>7
  <2>4. (t - s) * a = t * a - s * a /\ t * a \in Nat /\ s * a \in Nat  BY <1>1, <1>5
  <2>5. Start(m, o, p, s) = s * a + Passed(m, o, s) * (z - a)  BY <1>3
  <2>6. Start(m, o, p, t) = t * a + Passed(m, o, t) * (z - a)  BY <1>3
  <2> HIDE DEF y
  <2>7. y * (z - a) = Passed(m, o, t) * (z - a) - Passed(m, o, s) * (z - a)
    BY <2>1, <1>1 DEF y
  <2>8. Passed(m, o, t) * (z - a) \in Int /\ Passed(m, o, s) * (z - a) \in Int
    BY <2>1, <1>1
  <2> QED BY <2>3, <2>4, <2>5, <2>6, <2>7, <2>8
<1> QED BY <1>8, <1>9, <1>10, <1>11, <1>12

\* The first step of a rank sends its own shard.
LEMMA FirstIs ==
    ASSUME NEW m \in Modes, NEW o \in RanksOf(m), NEW p, Good(m, p)
    PROVE  First(m, o, p) = ChunksOf(m, p, o) /\ First(m, o, p) \in Nat \ {0}
           /\ Total(m, o, p) \in Nat /\ First(m, o, p) < Total(m, o, p)
<1>1. 0 \in 0 .. Steps(m) /\ 0 < Steps(m) /\ 1 \in 0 .. Steps(m) /\ Steps(m) \in 0 .. Steps(m)
      /\ (Steps(m) = 2 \/ 1 < Steps(m))
  BY ModeFacts
<1>2. First(m, o, p) = Start(m, o, p, 0) + ChunksOf(m, p, ShardAt(m, o, 0))
  <2>1. 0 + 1 = 1  OBVIOUS
  <2> QED BY <1>1, <2>1, StartFacts DEF First
<1>3. ChunksOf(m, p, o) \in Nat \ {0}  BY ShardFacts
<1>4. First(m, o, p) = ChunksOf(m, p, o)  BY <1>1, <1>2, <1>3, StartFacts, ShardAtFacts
<1>5. Total(m, o, p) \in Nat  BY <1>1, StartFacts DEF Total
<1>6. First(m, o, p) < Total(m, o, p)
  <2>1. 1 < Steps(m)  BY ModeFacts
  <2> QED BY <2>1, <1>1, StartFacts DEF Total, First
<1> QED BY <1>3, <1>4, <1>5, <1>6

-----------------------------------------------------------------------------

\* A round of a step: a chunk of the step's shard.
LEMMA ChunkFacts ==
    ASSUME NEW m \in Modes, NEW o \in RanksOf(m), NEW p, Good(m, p),
           NEW s \in 0 .. Steps(m) - 1, NEW R \in RoundsOf(m, o, p, s)
    PROVE  /\ R \in Nat /\ Start(m, o, p, s) <= R /\ R < Start(m, o, p, s + 1)
           /\ Before(m, o, p, s, R) \in Nat
           /\ Numel(m, o, p, s, R) \in 1 .. m.chunkNumel
           /\ Before(m, o, p, s, R) + Numel(m, o, p, s, R) <= LenOf(m, p, ShardAt(m, o, s))
           /\ Elem(m, o, p, s, R) \in Nat /\ p <= Elem(m, o, p, s, R)
           /\ Elem(m, o, p, s, R) + Numel(m, o, p, s, R) <= p + PartLen(m, p)
<1> DEFINE h == ShardAt(m, o, s)
<1> DEFINE L == LenOf(m, p, h)
<1> DEFINE C == ChunksOf(m, p, h)
<1> DEFINE c == m.chunkNumel
<1> DEFINE x == R - Start(m, o, p, s)
<1>1. s \in 0 .. Steps(m) /\ s < Steps(m) /\ s + 1 \in 0 .. Steps(m)  BY ModeFacts
<1>2. Start(m, o, p, s) \in Nat /\ Start(m, o, p, s + 1) = Start(m, o, p, s) + C
  BY <1>1, StartFacts
<1>3. h \in RanksOf(m)  BY <1>1, ShardAtFacts
<1>4. L \in Nat \ {0} /\ C \in Nat \ {0} /\ c * (C - 1) < L  BY <1>3, ShardFacts
<1>5. R \in Nat /\ Start(m, o, p, s) <= R /\ R < Start(m, o, p, s + 1)
  BY <1>2, <1>4 DEF RoundsOf
<1>6. c \in Nat \ {0}  BY ModeFacts
<1>7. x \in Nat /\ x <= C - 1  BY <1>2, <1>4, <1>5
<1>8. Before(m, o, p, s, R) = x * c  BY DEF Before
<1>9. Numel(m, o, p, s, R) = IF L - x * c < c THEN L - x * c ELSE c
  BY <1>8 DEF Numel
<1>10. h * ShardLen(m, p) \in Nat /\ h * ShardLen(m, p) + L <= PartLen(m, p) /\ PartLen(m, p) \in Nat
  BY <1>3, ShardFacts, PartFacts
<1>11. Elem(m, o, p, s, R) = p + h * ShardLen(m, p) + x * c  BY <1>8 DEF Elem
<1>12. p \in Nat  BY DEF Good
<1> HIDE DEF h, L, C, c, x
<1>13. x * c <= (C - 1) * c /\ x * c \in Nat /\ c * (C - 1) = (C - 1) * c
  <2>1. C - 1 \in Nat  BY <1>4
  <2> QED BY <2>1, <1>6, <1>7, MulMono, MulNat
<1>14. x * c < L  
  <2>1. (C - 1) * c \in Int BY <1>4, <1>6
  <2> QED BY <2>1, <1>4, <1>13
<1>15. Numel(m, o, p, s, R) \in 1 .. c /\ x * c + Numel(m, o, p, s, R) <= L
  BY <1>4, <1>6, <1>9, <1>13, <1>14
<1> DEFINE y == h * ShardLen(m, p)
<1>16. y \in Nat /\ y + L <= PartLen(m, p) /\ PartLen(m, p) \in Nat /\ Elem(m, o, p, s, R) = p + y + x * c
  BY <1>10, <1>11
<1> HIDE DEF y
<1>17. Elem(m, o, p, s, R) \in Nat /\ p <= Elem(m, o, p, s, R)
  BY <1>12, <1>13, <1>16
<1>18. Elem(m, o, p, s, R) + Numel(m, o, p, s, R) <= p + PartLen(m, p)
  BY <1>4, <1>6, <1>12, <1>13, <1>15, <1>16
<1>19. LenOf(m, p, ShardAt(m, o, s)) = L /\ m.chunkNumel = c  BY DEF L, h, c
<1> QED BY <1>5, <1>8, <1>13, <1>15, <1>17, <1>18, <1>19

\* Two steps with the same shard have the same chunks, in the same order.
LEMMA SameShard ==
    ASSUME NEW m \in Modes, NEW o \in RanksOf(m), NEW q \in RanksOf(m), NEW p, Good(m, p),
           NEW s \in 0 .. Steps(m) - 1, NEW t \in 0 .. Steps(m) - 1,
           ShardAt(m, o, s) = ShardAt(m, q, t),
           NEW R \in RoundsOf(m, o, p, s),
           NEW T, T = Start(m, q, p, t) + (R - Start(m, o, p, s))
    PROVE  /\ T \in RoundsOf(m, q, p, t)
           /\ Numel(m, q, p, t, T) = Numel(m, o, p, s, R)
           /\ Elem(m, q, p, t, T) = Elem(m, o, p, s, R)
<1>1. /\ s \in 0 .. Steps(m) /\ s < Steps(m) /\ s + 1 \in 0 .. Steps(m)
      /\ t \in 0 .. Steps(m) /\ t < Steps(m) /\ t + 1 \in 0 .. Steps(m)
  BY ModeFacts
<1> DEFINE C == ChunksOf(m, p, ShardAt(m, o, s))
<1>2. /\ Start(m, o, p, s) \in Nat /\ Start(m, o, p, s + 1) = Start(m, o, p, s) + C
      /\ Start(m, q, p, t) \in Nat /\ Start(m, q, p, t + 1) = Start(m, q, p, t) + C
  BY <1>1, StartFacts
<1>3. C \in Nat \ {0}  BY <1>1, ShardAtFacts, ShardFacts
<1> HIDE DEF C
<1>4. R \in Nat /\ Start(m, o, p, s) <= R /\ R <= Start(m, o, p, s + 1) - 1
  BY ChunkFacts, <1>2, <1>3
<1>5. T \in RoundsOf(m, q, p, t)  BY <1>2, <1>3, <1>4 DEF RoundsOf
<1>6. T - Start(m, q, p, t) = R - Start(m, o, p, s)  BY <1>2, <1>4
<1> QED BY <1>5, <1>6 DEF Numel, Elem, Before

\* The chunks that the last steps, from the one that completes a sum on, write to the data
\* do not overlap.
LEMMA ChunksApart ==
    ASSUME NEW m \in Modes, NEW o \in RanksOf(m), NEW p, Good(m, p),
           NEW s \in m.nRanks - 2 .. Steps(m) - 1, NEW t \in m.nRanks - 2 .. Steps(m) - 1,
           NEW R \in RoundsOf(m, o, p, s), NEW T \in RoundsOf(m, o, p, t),
           NEW k \in 0 .. Numel(m, o, p, s, R) - 1, NEW j \in 0 .. Numel(m, o, p, t, T) - 1,
           Elem(m, o, p, s, R) + k = Elem(m, o, p, t, T) + j
    PROVE  s = t /\ R = T /\ k = j
<1>1. /\ s \in 0 .. Steps(m) - 1 /\ s \in 0 .. Steps(m) /\ t \in 0 .. Steps(m) - 1
      /\ t \in 0 .. Steps(m) /\ s - t < m.nRanks /\ t - s < m.nRanks
  BY ModeFacts
<1> DEFINE S == ShardLen(m, p)
<1> DEFINE h == ShardAt(m, o, s)
<1> DEFINE g == ShardAt(m, o, t)
<1> DEFINE A == Before(m, o, p, s, R)
<1> DEFINE B == Before(m, o, p, t, T)
<1> DEFINE Na == Numel(m, o, p, s, R)
<1> DEFINE Nb == Numel(m, o, p, t, T)
<1>2. h \in RanksOf(m) /\ g \in RanksOf(m)  BY <1>1, ShardAtFacts
<1>3. h * S \in Nat /\ g * S \in Nat  BY <1>2, ShardFacts
<1>4. /\ A \in Nat /\ Na \in 1 .. m.chunkNumel /\ A + Na <= LenOf(m, p, h)
      /\ B \in Nat /\ Nb \in 1 .. m.chunkNumel /\ B + Nb <= LenOf(m, p, g)
      /\ R \in Nat /\ T \in Nat
  BY <1>1, ChunkFacts
<1>5. LenOf(m, p, h) \in Nat /\ LenOf(m, p, g) \in Nat  BY <1>2, ShardFacts
<1>6. h < g => h * S + LenOf(m, p, h) <= g * S  BY <1>2, ShardsApart
<1>7. g < h => g * S + LenOf(m, p, g) <= h * S  BY <1>2, ShardsApart
<1>8. (h * S) + A + k = (g * S) + B + j
  <2>1. Elem(m, o, p, s, R) = p + h * S + A /\ Elem(m, o, p, t, T) = p + g * S + B
    BY DEF Elem
  <2>2. p \in Nat  BY DEF Good
  <2> DEFINE x == h * S
  <2> DEFINE y == g * S
  <2> HIDE DEF x, y, A, B
  <2>3. x \in Nat /\ y \in Nat /\ A \in Nat /\ B \in Nat /\ k \in Int /\ j \in Int
    BY <1>3, <1>4 DEF x, y, A, B
  <2>4. p + x + A + k = p + y + B + j  BY <2>1 DEF x, y, A, B
  <2>5. x + A + k = y + B + j  BY <2>2, <2>3, <2>4
  <2> QED BY <2>5 DEF x, y, A, B
<1>9. h = g
  <2> DEFINE x == h * S
  <2> DEFINE y == g * S
  <2>0. k \in 0 .. Na - 1 /\ j \in 0 .. Nb - 1  OBVIOUS
  <2>1. h \in Int /\ g \in Int  BY <1>2 DEF RanksOf
  <2>2. x \in Nat /\ y \in Nat /\ x + A + k = y + B + j
        /\ (h < g => x + LenOf(m, p, h) <= y) /\ (g < h => y + LenOf(m, p, g) <= x)
    BY <1>3, <1>6, <1>7, <1>8
  <2> HIDE DEF x, y, h, g, A, B, Na, Nb, S
  <2>3. ~ (h < g)  BY <2>0, <2>1, <2>2, <1>4, <1>5
  <2>4. ~ (g < h)  BY <2>0, <2>1, <2>2, <1>4, <1>5
  <2> QED BY <2>1, <2>3, <2>4
<1>10. s = t
  <2>1. ~ (s < t)  BY <1>1, <1>9, ShardAtFacts, ModeFacts
  <2>2. ~ (t < s)  BY <1>1, <1>9, ShardAtFacts, ModeFacts
  <2> QED BY <1>1, <2>1, <2>2
<1>11. A + k = B + j
  <2> DEFINE x == h * S
  <2>1. x \in Nat /\ x + A + k = x + B + j  BY <1>3, <1>8, <1>9
  <2> HIDE DEF x, A, B
  <2>2. k \in Int /\ j \in Int /\ A \in Nat /\ B \in Nat  BY <1>4 DEF A, B
  <2> QED BY <2>1, <2>2
<1> DEFINE u == R - Start(m, o, p, s)
<1> DEFINE v == T - Start(m, o, p, s)
<1>12. A = u * m.chunkNumel /\ B = v * m.chunkNumel /\ Start(m, o, p, s) \in Nat
  BY <1>1, <1>10, StartFacts DEF Before
<1>13. u \in Int /\ v \in Int /\ m.chunkNumel \in Nat \ {0}  BY <1>4, <1>12, ModeFacts
<1>14. k \in 0 .. m.chunkNumel - 1 /\ j \in 0 .. m.chunkNumel - 1  BY <1>4, <1>13
<1> HIDE DEF u, v, A, B
<1>15. ASSUME NEW a \in Int, NEW b \in Int, NEW c \in Nat \ {0}, NEW y \in 0 .. c - 1,
              NEW z \in 0 .. c - 1, a * c + y = b * c + z
       PROVE  a = b
  <2>1. ASSUME NEW d \in Nat PROVE (d + 1) * c >= c  BY AtLeast
  <2>2. ~ (a < b)
    <3>1. SUFFICES ASSUME a < b PROVE FALSE  OBVIOUS
    <3>2. (b - a - 1 + 1) * c >= c  BY <3>1, <2>1
    <3>3. (b - a - 1 + 1) * c = b * c - a * c  OBVIOUS
    <3> QED BY <3>2, <3>3, <1>15
  <2>3. ~ (b < a)
    <3>1. SUFFICES ASSUME b < a PROVE FALSE  OBVIOUS
    <3>2. (a - b - 1 + 1) * c >= c  BY <3>1, <2>1
    <3>3. (a - b - 1 + 1) * c = a * c - b * c  OBVIOUS
    <3> QED BY <3>2, <3>3, <1>15
  <2> QED BY <2>2, <2>3
<1>16. u = v  BY <1>11, <1>12, <1>13, <1>14, <1>15
<1>17. R = T  BY <1>4, <1>12, <1>16 DEF u, v
<1>18. k = j  BY <1>11, <1>12, <1>13, <1>14, <1>16
<1> QED BY <1>10, <1>17, <1>18

\* Those chunks make up the partition.
LEMMA ChunksCover ==
    ASSUME NEW m \in Modes, NEW o \in RanksOf(m), NEW p, Good(m, p),
           NEW e \in Nat, p <= e, e < p + PartLen(m, p)
    PROVE  \E s \in m.nRanks - 2 .. Steps(m) - 1 : \E R \in RoundsOf(m, o, p, s) :
              \E k \in 0 .. Numel(m, o, p, s, R) - 1 : e = Elem(m, o, p, s, R) + k
<1> DEFINE n == m.nRanks
<1> DEFINE S == ShardLen(m, p)
<1> DEFINE c == m.chunkNumel
<1>1. /\ n \in Nat /\ n >= 2 /\ c \in Nat \ {0} /\ Steps(m) = 2 * n - 2 /\ p \in Nat
      /\ PartLen(m, p) \in Nat
  BY ModeFacts, PartFacts DEF Good
<1>2. S \in Nat \ {0}
  <2>1. 0 \in RanksOf(m)  BY ModeFacts DEF RanksOf
  <2> QED BY <2>1, ShardFacts
<1>3. \E h \in RanksOf(m) : h * S <= e - p /\ e - p < h * S + LenOf(m, p, h)
  <2> DEFINE x == e - p
  <2> DEFINE d == x \div S
  <2>0. x \in Nat /\ x < PartLen(m, p)  BY <1>1
  <2>1. d \in Nat /\ S * d <= x /\ x < S * d + S  BY <1>2, <2>0, DivFacts
  <2> HIDE DEF d, S, x
  <2>2. CASE d < n - 1
    <3>1. d \in RanksOf(m) /\ d # n - 1  BY <2>1, <2>2, <1>1 DEF RanksOf
    <3>2. LenOf(m, p, d) = S  BY <3>1 DEF LenOf, S
    <3>3. d * S = S * d  BY <2>1, <1>2
    <3> QED BY <3>1, <3>2, <3>3, <2>1 DEF x
  <2>3. CASE d >= n - 1
    <3>1. n - 1 \in RanksOf(m)  BY <1>1 DEF RanksOf
    <3>2. (n - 1) * S + LenOf(m, p, n - 1) = PartLen(m, p)
      <4>1. n - 1 = m.nRanks - 1  OBVIOUS
      <4> QED BY <3>1, <4>1, ShardFacts DEF S
    <3>3. (n - 1) * S <= d * S  BY <2>1, <2>3, <1>1, <1>2, MulMono
    <3>4. d * S = S * d /\ d * S \in Nat /\ (n - 1) * S \in Int  BY <2>1, <1>1, <1>2
    <3>5. (n - 1) * S <= x  BY <3>3, <3>4, <2>1, <2>0
    <3> QED BY <3>1, <3>2, <3>5, <2>0 DEF x
  <2> QED BY <2>1, <2>2, <2>3, <1>1
<1>4. PICK h \in RanksOf(m) : h * S <= e - p /\ e - p < h * S + LenOf(m, p, h)
  BY <1>3
<1>5. \E s \in n - 2 .. Steps(m) - 1 : ShardAt(m, o, s) = h
  <2> DEFINE u == IF h <= o THEN o - h ELSE o - h + n
  <2> DEFINE s == IF u >= n - 2 THEN u ELSE u + n
  <2>1. h \in 0 .. n - 1 /\ o \in 0 .. n - 1  BY DEF RanksOf
  <2>2. u \in 0 .. n - 1  BY <1>1, <2>1
  <2>3. s \in n - 2 .. Steps(m) - 1 /\ s \in 0 .. Steps(m)
    <3> HIDE DEF u
    <3> QED BY <1>1, <2>2
  <2>4. ShardAt(m, o, s) = LET v == IF s < n THEN s ELSE s - n
                           IN IF v <= o THEN o - v ELSE o - v + n
    <3> HIDE DEF s
    <3> QED BY <2>3, ShardAtIs
  <2>5. (IF s < n THEN s ELSE s - n) = u
    <3> HIDE DEF u, n
    <3> QED BY <1>1, <2>2
  <2>6. (IF u <= o THEN o - u ELSE o - u + n) = h  BY <1>1, <2>1
  <2> HIDE DEF s, u
  <2> QED BY <2>3, <2>4, <2>5, <2>6
<1>6. PICK s \in n - 2 .. Steps(m) - 1 : ShardAt(m, o, s) = h  BY <1>5
<1> DEFINE L == LenOf(m, p, h)
<1> DEFINE C == ChunksOf(m, p, h)
<1> DEFINE y == h * S
<1> DEFINE x == e - p - y
<1> DEFINE d == x \div c
<1>7. y \in Nat /\ L \in Nat \ {0} /\ C \in Nat \ {0} /\ L <= c * C  BY ShardFacts
<1>8. x \in Nat /\ x < L
  <2>1. e - p \in Nat /\ y <= e - p /\ e - p < y + L  BY <1>1, <1>4
  <2> HIDE DEF y, L
  <2> QED BY <2>1, <1>7
<1>9. d \in Nat /\ c * d <= x /\ x < c * d + c
  <2> HIDE DEF x
  <2> QED BY <1>1, <1>8, DivFacts
<1>10. s \in 0 .. Steps(m) - 1 /\ s \in 0 .. Steps(m) /\ s < Steps(m)  BY <1>1
<1>11. Start(m, o, p, s) \in Nat /\ Start(m, o, p, s + 1) = Start(m, o, p, s) + C
  BY <1>6, <1>10, StartFacts
<1> DEFINE R == Start(m, o, p, s) + d
<1> HIDE DEF d, C, L, c, y
<1>12. d < C
  <2>1. SUFFICES ASSUME C <= d PROVE FALSE  BY <1>7, <1>9
  <2>2. C * c <= d * c  BY <2>1, <1>1, <1>7, <1>9, MulMono DEF c
  <2>3. C * c = c * C /\ d * c = c * d /\ c * C \in Nat /\ c * d \in Nat
    BY <1>1, <1>7, <1>9 DEF c
  <2> QED BY <2>2, <2>3, <1>7, <1>8, <1>9
<1>13. R \in RoundsOf(m, o, p, s)  BY <1>7, <1>9, <1>11, <1>12 DEF RoundsOf
<1>14. Before(m, o, p, s, R) = d * c /\ d * c \in Nat /\ d * c = c * d
  <2>1. R - Start(m, o, p, s) = d  BY <1>9, <1>11
  <2> QED BY <2>1, <1>1, <1>9 DEF Before, c
<1> HIDE DEF R
<1>15. Numel(m, o, p, s, R) = IF L - d * c < c THEN L - d * c ELSE c
  BY <1>6, <1>14 DEF Numel, L, c
<1>16. x - d * c \in 0 .. Numel(m, o, p, s, R) - 1
  <2>1. c \in Nat \ {0}  BY <1>1 DEF c
  <2> HIDE DEF x
  <2> QED BY <2>1, <1>7, <1>8, <1>9, <1>14, <1>15
<1>17. e = Elem(m, o, p, s, R) + (x - d * c)
  <2>1. Elem(m, o, p, s, R) = p + y + d * c  BY <1>6, <1>14 DEF Elem, y
  <2> QED BY <2>1, <1>1, <1>7, <1>14
<1> HIDE DEF n
<1>18. s \in m.nRanks - 2 .. Steps(m) - 1  BY DEF n
<1> QED BY <1>13, <1>16, <1>17, <1>18

-----------------------------------------------------------------------------
(* The counters, and what is sent.                                         *)

\* A round counter (OpRound) of the partition at p: its step is the one its round is of.
Counter == [round : Nat, step : Nat, start : Nat]
Valid(m, o, p, x) ==
    /\ x \in Counter
    /\ x.step <= Steps(m)
    /\ x.start = Start(m, o, p, x.step)
    /\ x.start <= x.round
    /\ x.step < Steps(m) => x.round < Start(m, o, p, x.step + 1)
    /\ x.step = Steps(m) => x.round = x.start

\* The rank whose sends an operation of rank r counts: its own, or those of its left
\* neighbour, which it receives.
Origin(m, r, op) == IF op \in {"SendCopy", "SendTrans"} THEN r ELSE LeftOf(m, r)

\* The sum of element e, and the part of it that the rank o sends in step s.
AllOf(m, e) == {<<r, e>> : r \in RanksOf(m)}
Value(m, o, s, e) ==
    IF s < m.nRanks - 1 THEN {<<(o - i + m.nRanks) % m.nRanks, e>> : i \in 0 .. s} ELSE AllOf(m, e)

\* The step of a counter in terms of its round.
LEMMA CounterFacts ==
    ASSUME NEW m \in Modes, NEW o \in RanksOf(m), NEW p, Good(m, p), NEW x, Valid(m, o, p, x)
    PROVE  /\ x.round \in Nat /\ x.round <= Total(m, o, p)
           /\ x.step \in 0 .. Steps(m)
           /\ \A s \in 0 .. Steps(m) : x.step >= s <=> x.round >= Start(m, o, p, s)
           /\ x.step = Steps(m) <=> x.round = Total(m, o, p)
           /\ x.step >= 1 <=> x.round >= First(m, o, p)
           /\ x.step # Steps(m) => /\ x.step \in 0 .. Steps(m) - 1
                                   /\ x.round \in RoundsOf(m, o, p, x.step)
                                   /\ x.start = Start(m, o, p, x.step)
<1>1. /\ Steps(m) \in Nat /\ x.round \in Nat /\ x.step \in Nat /\ x.step <= Steps(m)
      /\ Steps(m) >= 2
  BY ModeFacts DEF Valid, Counter
<1>2. x.step \in 0 .. Steps(m) /\ Steps(m) \in 0 .. Steps(m) /\ 1 \in 0 .. Steps(m)  BY <1>1
<1>3. \A s, t \in 0 .. Steps(m) : s < t => Start(m, o, p, s) < Start(m, o, p, t)
  BY StartFacts
<1>4. \A s \in 0 .. Steps(m) : Start(m, o, p, s) \in Nat  BY StartFacts
<1>5. x.step < Steps(m) => x.step + 1 \in 0 .. Steps(m)  BY <1>1
<1>6. Start(m, o, p, x.step) <= x.round  BY DEF Valid
<1>7. x.step < Steps(m) => x.round < Start(m, o, p, x.step + 1)  BY DEF Valid
<1>8. x.step = Steps(m) => x.round = Start(m, o, p, Steps(m))  BY DEF Valid
<1>9. ASSUME NEW s \in 0 .. Steps(m) PROVE x.step >= s <=> x.round >= Start(m, o, p, s)
  <2>1. CASE x.step >= s
    <3>1. Start(m, o, p, s) <= Start(m, o, p, x.step)
      <4>1. x.step = s \/ s < x.step  BY <2>1, <1>1
      <4> QED BY <4>1, <1>2, <1>3, <1>4
    <3> QED BY <2>1, <3>1, <1>1, <1>2, <1>4, <1>6
  <2>2. CASE x.step < s
    <3>1. x.step < Steps(m) /\ (x.step + 1 = s \/ x.step + 1 < s)  BY <2>2, <1>1
    <3>2. Start(m, o, p, x.step + 1) <= Start(m, o, p, s)
      BY <3>1, <1>3, <1>4, <1>5
    <3> QED BY <2>2, <3>1, <3>2, <1>1, <1>4, <1>5, <1>7
  <2> QED BY <2>1, <2>2, <1>1
<1>10. x.round <= Total(m, o, p) /\ (x.step = Steps(m) <=> x.round = Total(m, o, p))
  <2>1. CASE x.step = Steps(m)  BY <2>1, <1>1, <1>8 DEF Total
  <2>2. CASE x.step < Steps(m)
    <3>1. x.round < Start(m, o, p, Steps(m))
      <4>1. ~ (x.step >= Steps(m))  BY <2>2, <1>1
      <4>2. ~ (x.round >= Start(m, o, p, Steps(m)))  BY <4>1, <1>2, <1>9
      <4> QED BY <4>2, <1>1, <1>2, <1>4
    <3> QED BY <2>2, <3>1, <1>1, <1>2, <1>4 DEF Total
  <2> QED BY <2>1, <2>2, <1>1
<1>11. x.step >= 1 <=> x.round >= First(m, o, p)  BY <1>2, <1>9 DEF First
<1>12. x.step # Steps(m) => /\ x.step \in 0 .. Steps(m) - 1
                            /\ x.round \in RoundsOf(m, o, p, x.step)
                            /\ x.start = Start(m, o, p, x.step)
  BY <1>1, <1>2, <1>4, <1>5, <1>6, <1>7 DEF RoundsOf, Valid
<1> QED BY <1>1, <1>2, <1>9, <1>10, <1>11, <1>12

\* A reset counter is one of every partition.
LEMMA ZeroValid ==
    ASSUME NEW m \in Modes, NEW o \in RanksOf(m), NEW p, Good(m, p)
    PROVE  Valid(m, o, p, RoundZero) /\ RoundZero.round = 0 /\ RoundZero.step = 0
<1>1. Start(m, o, p, 0) = 0 /\ 0 < Start(m, o, p, 1) /\ 0 < Steps(m) /\ Steps(m) \in Nat
  BY FirstIs, StartFacts, ModeFacts DEF First
<1> QED BY <1>1 DEF Valid, Counter, RoundZero

\* The operators of the module, for the setting m.
LEMMA ModeIs ==
    ASSUME NEW m \in Modes, mode = m
    PROVE  /\ Ranks = RanksOf(m)
           /\ \A r : Left(r) = LeftOf(m, r) /\ Right(r) = RightOf(m, r)
           /\ NumSteps = Steps(m)
           /\ \A p : PartitionNumel(p) = PartLen(m, p)
           /\ \A p, h : NumelOf(p, h) = LenOf(m, p, h)
           /\ \A p, h : CountChunks(p, h) = ChunksOf(m, p, h)
           /\ \A r, op, s : StepShard(r, op, s) = ShardAt(m, Origin(m, r, op), s)
           /\ Blocks = 0 .. m.numBlocks - 1 /\ Elements = 0 .. m.numElements - 1
           /\ Chunks = 0 .. m.numChunks - 1 /\ Positions = 0 .. m.chunkNumel - 1
           /\ \A e : Sum(e) = AllOf(m, e)
<1>1. Ranks = RanksOf(m)  BY DEF Ranks, RanksOf
<1>2. \A r : Left(r) = LeftOf(m, r) /\ Right(r) = RightOf(m, r)  BY DEF Left, Right, LeftOf, RightOf
<1>3. NumSteps = Steps(m)  BY DEF NumSteps, Steps
<1>4. \A p : PartitionNumel(p) = PartLen(m, p)  BY DEF PartitionNumel, PartLen
<1>5. \A p : ShardNumel(p) = ShardLen(m, p)  BY <1>4 DEF ShardNumel, ShardLen
<1>6. \A p, h : NumelOf(p, h) = LenOf(m, p, h)  BY <1>4, <1>5 DEF NumelOf, LenOf
<1>7. \A p, h : CountChunks(p, h) = ChunksOf(m, p, h)  BY <1>6 DEF CountChunks, ChunksOf
<1>8. \A r, op, s : StepShard(r, op, s) = ShardAt(m, Origin(m, r, op), s)
  BY <1>2 DEF StepShard, ShardAt, Origin
<1>9. /\ Blocks = 0 .. m.numBlocks - 1 /\ Elements = 0 .. m.numElements - 1
      /\ Chunks = 0 .. m.numChunks - 1 /\ Positions = 0 .. m.chunkNumel - 1
  BY DEF Blocks, Elements, Chunks, Positions
<1>10. \A e : Sum(e) = AllOf(m, e)  BY <1>1 DEF Sum, AllOf
<1> QED BY <1>1, <1>2, <1>3, <1>4, <1>6, <1>7, <1>8, <1>9, <1>10

\* The rank whose sends an operation counts, per operation.
LEMMA OriginFacts ==
    ASSUME NEW m \in Modes, NEW r \in RanksOf(m)
    PROVE  /\ \A op : Origin(m, r, op) \in RanksOf(m)
           /\ Origin(m, r, "SendCopy") = r /\ Origin(m, r, "SendTrans") = r
           /\ Origin(m, r, "RecvTrans") = LeftOf(m, r) /\ Origin(m, r, "RecvFlush") = LeftOf(m, r)
           /\ Origin(m, r, "RecvRedCopy") = LeftOf(m, r)
BY NeighbourFacts DEF Origin

\* updateOpRound keeps a counter one of its partition and adds a round.
LEMMA AdvanceFacts ==
    ASSUME NEW m \in Modes, mode = m, NEW r \in RanksOf(m), NEW op, NEW p, Good(m, p),
           NEW x, Valid(m, Origin(m, r, op), p, x), x.step # Steps(m)
    PROVE  /\ Valid(m, Origin(m, r, op), p, Advance(r, op, p, x))
           /\ Advance(r, op, p, x).round = x.round + 1
<1> DEFINE o == Origin(m, r, op)
<1> DEFINE y == Advance(r, op, p, x)
<1>1. o \in RanksOf(m)  BY OriginFacts
<1>2. /\ x.step \in 0 .. Steps(m) - 1 /\ x.round \in Nat /\ x \in Counter
      /\ x.start = Start(m, o, p, x.step) /\ x.start <= x.round
      /\ x.round < Start(m, o, p, x.step + 1)
  <2> HIDE DEF o
  <2> QED BY <1>1, CounterFacts, ModeFacts DEF Valid, o
<1>3. x.step \in 0 .. Steps(m) /\ x.step + 1 \in 0 .. Steps(m) /\ x.step < Steps(m) /\ Steps(m) \in Nat
  BY <1>2, ModeFacts
<1>4. Start(m, o, p, x.step + 1) = x.start + CountChunks(p, StepShard(r, op, x.step))
  <2>1. CountChunks(p, StepShard(r, op, x.step)) = ChunksOf(m, p, ShardAt(m, o, x.step))
    BY ModeIs
  <2> HIDE DEF o
  <2> QED BY <1>1, <1>2, <1>3, <2>1, StartFacts
<1> DEFINE E == Start(m, o, p, x.step + 1)
<1>5. y = IF x.round + 1 = E THEN [round |-> E, step |-> x.step + 1, start |-> E]
          ELSE [x EXCEPT !.round = x.round + 1]
  BY <1>4 DEF Advance
<1>6. E \in Nat  BY <1>1, <1>3, StartFacts
<1>7. x.step + 1 < Steps(m) => E < Start(m, o, p, x.step + 2) 
  <2>1. SUFFICES ASSUME x.step + 1 < Steps(m) PROVE E < Start(m, o, p, x.step + 2)  OBVIOUS
  <2>2. x.step + 2 \in 0 .. Steps(m)  BY <2>1, <1>3
  <2> HIDE DEF o
  <2> QED BY <2>2, <1>1, <1>3, StartFacts
<1> HIDE DEF y, o, E
<1>8. CASE x.round + 1 = E
  <2>1. y = [round |-> E, step |-> x.step + 1, start |-> E]  BY <1>5, <1>8
  <2>2. y \in Counter /\ y.round = E /\ y.step = x.step + 1 /\ y.start = E
    BY <2>1, <1>2, <1>3, <1>6 DEF Counter
  <2>3. Valid(m, o, p, y)
    <3>1. x.step + 1 + 1 = x.step + 2  BY <1>3
    <3> QED BY <2>2, <3>1, <1>3, <1>6, <1>7 DEF Valid, E
  <2> QED BY <2>2, <2>3, <1>8 DEF y, o
<1>9. CASE x.round + 1 # E
  <2>1. y = [x EXCEPT !.round = x.round + 1]  BY <1>5, <1>9
  <2>2. y \in Counter /\ y.round = x.round + 1 /\ y.step = x.step /\ y.start = x.start
    BY <2>1, <1>2 DEF Counter
  <2>3. x.start <= x.round + 1 /\ x.round + 1 < E
    <3>1. x.start \in Nat /\ x.round \in Nat  BY <1>2 DEF Counter
    <3> QED BY <1>2, <1>6, <1>9, <3>1 DEF E
  <2>4. Valid(m, o, p, y)
    BY <2>2, <2>3, <1>2, <1>3, <1>6 DEF Valid, E
  <2> QED BY <2>2, <2>4 DEF y, o
<1> QED BY <1>8, <1>9

\* What a round works on.
LEMMA RoundArgsIs ==
    ASSUME NEW m \in Modes, mode = m, NEW r, NEW op, NEW p, NEW x,
           x.start = Start(m, Origin(m, r, op), p, x.step)
    PROVE  /\ RoundArgs(r, op, p, x).first = Elem(m, Origin(m, r, op), p, x.step, x.round)
           /\ RoundArgs(r, op, p, x).numel = Numel(m, Origin(m, r, op), p, x.step, x.round)
<1>1. /\ StepShard(r, op, x.step) = ShardAt(m, Origin(m, r, op), x.step)
      /\ ShardNumel(p) = ShardLen(m, p)
      /\ \A h : NumelOf(p, h) = LenOf(m, p, h)
  BY ModeIs DEF ShardNumel, ShardLen
<1> QED BY <1>1 DEF RoundArgs, Elem, Numel, Before

-----------------------------------------------------------------------------

\* What a rank received in a step it sends in the next.
LEMMA Forward ==
    ASSUME NEW m \in Modes, NEW r \in RanksOf(m), NEW p, Good(m, p),
           NEW s \in 0 .. Steps(m) - 1, s # Steps(m) - 1, NEW R \in RoundsOf(m, LeftOf(m, r), p, s)
    PROVE  /\ s + 1 \in 0 .. Steps(m) - 1
           /\ First(m, r, p) + R \in RoundsOf(m, r, p, s + 1)
           /\ Numel(m, r, p, s + 1, First(m, r, p) + R) = Numel(m, LeftOf(m, r), p, s, R)
           /\ Elem(m, r, p, s + 1, First(m, r, p) + R) = Elem(m, LeftOf(m, r), p, s, R)
<1> DEFINE l == LeftOf(m, r)
<1> DEFINE T == First(m, r, p) + R
<1>1. l \in RanksOf(m) /\ s \in 0 .. Steps(m) /\ s + 1 \in 0 .. Steps(m) - 1 /\ s < Steps(m)
  <2>1. l \in RanksOf(m)  BY NeighbourFacts
  <2>2. s \in 0 .. Steps(m) /\ s + 1 \in 0 .. Steps(m) - 1 /\ s < Steps(m)  BY ModeFacts
  <2> QED BY <2>1, <2>2
<1>2. ShardAt(m, l, s) = ShardAt(m, r, s + 1)  BY <1>1, ShardAtFacts
<1>3. Start(m, r, p, s + 1) = Start(m, l, p, s) + First(m, r, p)  BY <1>1, StartFacts
<1>4. Start(m, l, p, s) \in Nat /\ First(m, r, p) \in Nat /\ R \in Nat
  BY <1>1, StartFacts, FirstIs, ChunkFacts
<1>5. T = Start(m, r, p, s + 1) + (R - Start(m, l, p, s))  BY <1>3, <1>4
<1> HIDE DEF l, T
<1>6. R \in RoundsOf(m, l, p, s)  BY DEF l
<1>7. /\ T \in RoundsOf(m, r, p, s + 1)
      /\ Numel(m, r, p, s + 1, T) = Numel(m, l, p, s, R)
      /\ Elem(m, r, p, s + 1, T) = Elem(m, l, p, s, R)
  BY <1>1, <1>2, <1>5, <1>6, SameShard
<1> QED BY <1>1, <1>7 DEF l, T

\* The own shard is received when it is complete.
LEMMA OwnShard ==
    ASSUME NEW m \in Modes, NEW r \in RanksOf(m), NEW p, Good(m, p), NEW R \in RoundsOf(m, r, p, 0)
    PROVE  \E T \in RoundsOf(m, LeftOf(m, r), p, m.nRanks - 1) :
              /\ Numel(m, LeftOf(m, r), p, m.nRanks - 1, T) = Numel(m, r, p, 0, R)
              /\ Elem(m, LeftOf(m, r), p, m.nRanks - 1, T) = Elem(m, r, p, 0, R)
<1> DEFINE l == LeftOf(m, r)
<1> DEFINE n == m.nRanks
<1> DEFINE T == Start(m, l, p, n - 1) + (R - Start(m, r, p, 0))
<1>1. /\ l \in RanksOf(m) /\ n - 1 \in 0 .. Steps(m) - 1 /\ 0 \in 0 .. Steps(m) - 1
      /\ n - 1 \in 0 .. Steps(m) /\ 0 \in 0 .. Steps(m) /\ n - 1 + 1 = n /\ n - 1 < Steps(m)
      /\ 0 + n = n /\ n \in 0 .. Steps(m)
  <2>1. l \in RanksOf(m)  BY NeighbourFacts
  <2>2. n \in Nat /\ n >= 2 /\ Steps(m) = 2 * n - 2  BY ModeFacts
  <2> HIDE DEF n
  <2> QED BY <2>1, <2>2
<1>2. ShardAt(m, r, n) = ShardAt(m, r, 0)  BY <1>1, ShardAtFacts
<1>3. ShardAt(m, r, n - 1 + 1) = ShardAt(m, l, n - 1)  BY <1>1, ShardAtFacts
<1>4. ShardAt(m, r, 0) = ShardAt(m, l, n - 1)  BY <1>1, <1>2, <1>3
<1> HIDE DEF l, n, T
<1>5. /\ T \in RoundsOf(m, l, p, n - 1)
      /\ Numel(m, l, p, n - 1, T) = Numel(m, r, p, 0, R)
      /\ Elem(m, l, p, n - 1, T) = Elem(m, r, p, 0, R)
  BY <1>1, <1>4, SameShard DEF T
<1> QED BY <1>5 DEF l, n

\* What is received to be reduced is complete a turn later, if not now.
LEMMA LaterTurn ==
    ASSUME NEW m \in Modes, NEW o \in RanksOf(m), NEW p, Good(m, p),
           NEW s \in 0 .. Steps(m) - 1, s < m.nRanks - 2, NEW R \in RoundsOf(m, o, p, s)
    PROVE  /\ s + m.nRanks \in m.nRanks - 2 .. Steps(m) - 1
           /\ \E T \in RoundsOf(m, o, p, s + m.nRanks) :
              /\ R < T
              /\ Numel(m, o, p, s + m.nRanks, T) = Numel(m, o, p, s, R)
              /\ Elem(m, o, p, s + m.nRanks, T) = Elem(m, o, p, s, R)
<1> DEFINE t == s + m.nRanks
<1> DEFINE T == Start(m, o, p, t) + (R - Start(m, o, p, s))
<1>1. /\ t \in 0 .. Steps(m) - 1 /\ t \in m.nRanks - 2 .. Steps(m) - 1 /\ t \in 0 .. Steps(m)
      /\ s \in 0 .. Steps(m) /\ s + 1 \in 0 .. Steps(m) /\ s < t
  BY ModeFacts
<1>2. ShardAt(m, o, t) = ShardAt(m, o, s)  BY <1>1, ShardAtFacts
<1>3. /\ Start(m, o, p, s) < Start(m, o, p, t) /\ Start(m, o, p, s) \in Nat
      /\ Start(m, o, p, t) \in Nat /\ R \in Nat
  BY <1>1, StartFacts, ChunkFacts
<1> HIDE DEF t
<1>4. R < T  BY <1>3
<1> HIDE DEF T
<1>5. /\ T \in RoundsOf(m, o, p, t)
      /\ Numel(m, o, p, t, T) = Numel(m, o, p, s, R)
      /\ Elem(m, o, p, t, T) = Elem(m, o, p, s, R)
  BY <1>1, <1>2, SameShard DEF T
<1> QED BY <1>1, <1>4, <1>5 DEF t

-----------------------------------------------------------------------------

\* The rank i places to the left.
LEMMA BackIs ==
    ASSUME NEW m \in Modes, NEW o \in RanksOf(m), NEW i \in RanksOf(m)
    PROVE  (o - i + m.nRanks) % m.nRanks = IF i <= o THEN o - i ELSE o - i + m.nRanks
<1> DEFINE n == m.nRanks
<1> DEFINE x == o - i + n
<1>1. n \in Nat \ {0} /\ o \in 0 .. n - 1 /\ i \in 0 .. n - 1  BY ModeFacts DEF RanksOf
<1> HIDE DEF n
<1>2. CASE i <= o
  <2>1. x \in n .. 2 * n - 1 /\ x - n = o - i  BY <1>1, <1>2
  <2> HIDE DEF x
  <2>2. x % n = x - n  BY <2>1, <1>1, ModNext
  <2> QED BY <1>2, <2>1, <2>2 DEF n, x
<1>3. CASE ~ (i <= o)
  <2>1. x \in 0 .. n - 1  BY <1>1, <1>3
  <2> HIDE DEF x
  <2>2. x % n = x  BY <2>1, <1>1, ModSmall
  <2> QED BY <1>3, <2>2 DEF n, x
<1> QED BY <1>2, <1>3

\* In the first step a rank sends its own contribution.
LEMMA ValueFirst ==
    ASSUME NEW m \in Modes, NEW o \in RanksOf(m), NEW e
    PROVE  Value(m, o, 0, e) = {<<o, e>>}
<1>1. 0 < m.nRanks - 1 /\ 0 \in RanksOf(m) /\ 0 <= o  BY ModeFacts DEF RanksOf
<1>2. (o - 0 + m.nRanks) % m.nRanks = o  BY <1>1, BackIs, ModeFacts DEF RanksOf
<1>3. 0 .. 0 = {0}  OBVIOUS
<1>4. Value(m, o, 0, e) = {<<(o - i + m.nRanks) % m.nRanks, e>> : i \in {0}}
  BY <1>1, <1>3 DEF Value
<1> QED BY <1>2, <1>4

\* From the end of the reduce-scatter on a rank sends the sum.
LEMMA ValueLast ==
    ASSUME NEW m \in Modes, NEW o, NEW e, NEW s \in Nat, ~ (s < m.nRanks - 1)
    PROVE  Value(m, o, s, e) = AllOf(m, e)
BY DEF Value

\* A rank adds its own contribution, which is not in what it received.
LEMMA ValueNext ==
    ASSUME NEW m \in Modes, NEW r \in RanksOf(m), NEW e, NEW s \in Nat, s < m.nRanks - 1
    PROVE  /\ {<<r, e>>} \cap Value(m, LeftOf(m, r), s, e) = {}
           /\ {<<r, e>>} \cup Value(m, LeftOf(m, r), s, e) = Value(m, r, s + 1, e)
<1> DEFINE n == m.nRanks
<1> DEFINE l == LeftOf(m, r)
<1> DEFINE B(o, i) == IF i <= o THEN o - i ELSE o - i + n
<1>1. n \in Nat /\ n >= 2 /\ r \in 0 .. n - 1 /\ l \in 0 .. n - 1
      /\ l = IF r = 0 THEN n - 1 ELSE r - 1
  BY ModeFacts, Neighbours, NeighbourFacts DEF RanksOf
<1>2. Value(m, l, s, e) = {<<B(l, i), e>> : i \in 0 .. s}
  <2>1. \A i \in 0 .. s : i \in RanksOf(m) /\ l \in RanksOf(m)  BY <1>1 DEF RanksOf
  <2>2. \A i \in 0 .. s : (l - i + n) % n = B(l, i)  BY <2>1, BackIs
  <2>3. Value(m, l, s, e) = {<<(l - i + n) % n, e>> : i \in 0 .. s}  BY DEF Value
  <2> HIDE DEF B
  <2> QED BY <2>2, <2>3
<1>3. Value(m, r, s + 1, e) = {<<B(r, i), e>> : i \in 0 .. s + 1}
  <2>1. CASE s + 1 < n - 1
    <3>1. \A i \in 0 .. s + 1 : i \in RanksOf(m)  BY <2>1, <1>1 DEF RanksOf
    <3>2. \A i \in 0 .. s + 1 : (r - i + n) % n = B(r, i)  BY <3>1, BackIs
    <3>3. Value(m, r, s + 1, e) = {<<(r - i + n) % n, e>> : i \in 0 .. s + 1}  BY <2>1 DEF Value
    <3> HIDE DEF B
    <3> QED BY <3>2, <3>3
  <2>2. CASE ~ (s + 1 < n - 1)
    <3>1. s + 1 = n - 1  BY <2>2, <1>1
    <3>2. Value(m, r, s + 1, e) = {<<q, e>> : q \in 0 .. n - 1}  BY <2>2 DEF Value, AllOf, RanksOf
    <3>3. \A i \in 0 .. n - 1 : B(r, i) \in 0 .. n - 1  BY <1>1
    <3>4. \A q \in 0 .. n - 1 : \E i \in 0 .. n - 1 : B(r, i) = q
      <4>1. TAKE q \in 0 .. n - 1
      <4>2. CASE q <= r  
        <5>1. r - q \in 0 .. n - 1 /\ B(r, r - q) = q  BY <4>2, <1>1
        <5> QED BY <5>1
      <4>3. CASE ~ (q <= r)
        <5>1. r - q + n \in 0 .. n - 1 /\ B(r, r - q + n) = q  BY <4>3, <1>1
        <5> QED BY <5>1
      <4> QED BY <4>2, <4>3
    <3> HIDE DEF B
    <3> QED BY <3>1, <3>2, <3>3, <3>4
  <2> QED BY <2>1, <2>2
<1>4. \A i \in 0 .. s : B(l, i) # r  BY <1>1
<1>5. \A i \in 0 .. s : i + 1 \in 0 .. s + 1 /\ B(r, i + 1) = B(l, i)  BY <1>1
<1>6. \A i \in 0 .. s + 1 : i = 0 \/ (i - 1 \in 0 .. s /\ B(r, i) = B(l, i - 1))  BY <1>1
<1>7. B(r, 0) = r /\ 0 \in 0 .. s + 1  BY <1>1
<1> HIDE DEF B, l
<1>8. {<<r, e>>} \cap Value(m, l, s, e) = {}  BY <1>2, <1>4
<1>9. {<<r, e>>} \cup Value(m, l, s, e) \subseteq Value(m, r, s + 1, e)
  BY <1>2, <1>3, <1>5, <1>7
<1>10. Value(m, r, s + 1, e) \subseteq {<<r, e>>} \cup Value(m, l, s, e)
  BY <1>2, <1>3, <1>6, <1>7
<1> QED BY <1>8, <1>9, <1>10 DEF l

-----------------------------------------------------------------------------
(* The invariant.                                                          *)

\* The sets the variables range over.
BlocksOf(m) == 0 .. m.numBlocks - 1
ElementsOf(m) == 0 .. m.numElements - 1
Vals(m) == SUBSET (RanksOf(m) \X ElementsOf(m))
Buf(m) == [0 .. m.numChunks - 1 -> [0 .. m.chunkNumel - 1 -> Vals(m)]]
BlockRec == [partition : Nat, offset : Nat, SendCopy : Counter, RecvRedCopy : Counter, exited : BOOLEAN]
Put(m) == [chunk : 0 .. m.numChunks - 1, numel : Nat]
Arrival(m) == [chunk : 0 .. m.numChunks - 1, numel : Nat, vals : [0 .. m.chunkNumel - 1 -> Vals(m)]]

\* The variables of the host, the flags, the blocks, the buffers and the network have their
\* types.
HostTypes(m) ==
    /\ host \in [RanksOf(m) -> {"running", "done", "aborted"}]
    /\ partition \in [RanksOf(m) -> Nat]
    /\ offset \in [RanksOf(m) -> Nat]
    /\ post \in [RanksOf(m) -> [Ops -> Counter]]
    /\ done \in [RanksOf(m) -> [Ops -> Counter]]
FlagTypes(m) ==
    /\ posted \in [RanksOf(m) -> [KernelOps -> Int]]
    /\ started \in [RanksOf(m) -> Int]
    /\ completed \in [RanksOf(m) -> [KernelOps -> [BlocksOf(m) -> Int]]]
BlockTypes(m) == block \in [RanksOf(m) -> [BlocksOf(m) -> BlockRec]]
DataTypes(m) ==
    /\ data \in [RanksOf(m) -> [ElementsOf(m) -> Vals(m)]]
    /\ tmpSend \in [RanksOf(m) -> Buf(m)]
    /\ tmpRecv \in [RanksOf(m) -> Buf(m)]
NetTypes(m) ==
    /\ wire \in [RanksOf(m) -> Seq(Put(m))]
    /\ arrived \in [RanksOf(m) -> Seq(Arrival(m))]
    /\ landed \in [RanksOf(m) -> Nat]
    /\ notify \in [RanksOf(m) -> Nat]
    /\ sync \in [RanksOf(m) -> Nat]
Types(m) == HostTypes(m) /\ FlagTypes(m) /\ BlockTypes(m) /\ DataTypes(m) /\ NetTypes(m)

\* A counter counts the rounds of its own operation: copies to tmpSendBuf are those of the
\* first step, the others go on to the end.
Bound(m, r, p, op) == IF op = "SendCopy" THEN First(m, r, p) ELSE Total(m, Origin(m, r, op), p)
Counters(m, r, p, c) ==
    \A op \in Ops : Valid(m, Origin(m, r, op), p, c[op]) /\ c[op].round <= Bound(m, r, p, op)

\* What the host has posted to be reduced and forwarded (n rounds) is not more than the
\* chunks of tmpSendBuf ahead of the puts it knows to be done (y).
Window(m, r, p, n, y) ==
    \A R \in Nat : R < n /\ R < Start(m, LeftOf(m, r), p, Steps(m) - 1) =>
        First(m, r, p) + R < y + m.numChunks

\* How the counters of a host follow each other: posts ps, completions dn, puts of the host
\* that arrived la, sync flags received sy. A done host ended the last partition.
HostRounds(m, r, h, p, ps, dn, la, sy) ==
    /\ dn.SendCopy.round <= ps.SendCopy.round
    /\ dn.SendTrans.round <= ps.SendTrans.round
    /\ ps.RecvTrans.round = dn.RecvTrans.round
    /\ dn.RecvFlush.round <= ps.RecvFlush.round
    /\ dn.RecvRedCopy.round <= ps.RecvRedCopy.round
    /\ ps.SendTrans.round <= dn.SendCopy.round + dn.RecvRedCopy.round
    /\ ps.RecvFlush.round <= dn.RecvTrans.round
    /\ ps.RecvRedCopy.round <= dn.RecvFlush.round
    /\ ps.RecvRedCopy.round > 0 => dn.SendCopy.round = First(m, r, p)
    /\ ps.SendCopy.round <= dn.SendTrans.round + m.numChunks
    /\ Window(m, r, p, ps.RecvRedCopy.round, dn.SendTrans.round)
    /\ h # "done" => ps.SendTrans.round <= sy + m.numChunks /\ dn.SendTrans.round <= la
    /\ h = "done" =>
         /\ p + PartLen(m, p) = m.numElements
         /\ la = 0 /\ sy = 0
         /\ dn.SendCopy.round = First(m, r, p) /\ dn.SendTrans.round = Total(m, r, p)
         /\ dn.RecvRedCopy.round = Total(m, LeftOf(m, r), p)

\* A host: its counters are those of the partition at p.
HostOK(m, r, h, p, ps, dn, la, sy) ==
    /\ Good(m, p)
    /\ Counters(m, r, p, ps)
    /\ Counters(m, r, p, dn)
    /\ HostRounds(m, r, h, p, ps, dn, la, sy)

\* A rank and its right neighbour in the same partition: of the la puts that arrived the
\* neighbour's host has seen rt notifications, no are pending, and those it has flushed (rf)
\* are not among the ones the GPU may not see yet (ar). It has synced what it reduced (rr).
Same(h, pr, pq, or, oq, sy, la, ar, no, rt, rf, rr) ==
    /\ h # "done" /\ pr = pq /\ or = oq
    /\ sy = rr
    /\ la = rt + no
    /\ rf <= la - Len(ar)

\* A rank one partition ahead of its right neighbour, which has reduced all of the old one
\* (rr): the puts of the new one wait there unnoticed. A done rank is ahead of one that is not.
Ahead(m, r, h, pr, pq, or, oq, sy, la, wi, ar, no, rr) ==
    /\ h # "done" => pr = pq + 1 /\ or = oq + PartLen(m, oq)
    /\ h = "done" => pr = pq /\ or = oq /\ wi = << >> /\ ar = << >>
    /\ rr = Total(m, r, oq)
    /\ sy = 0 /\ no = la

\* A rank that still waits for the last syncs of a partition that its right neighbour left.
Behind(m, r, h, pr, pq, or, oq, sy, la, ar, no, sr, rt) ==
    /\ h # "done" /\ pq = pr + 1 /\ oq = or + PartLen(m, or)
    /\ rt = 0
    /\ la = Total(m, r, or) /\ sr = la /\ sy = la
    /\ ar = << >> /\ no = 0

\* A rank and its right neighbour: what was put (sr) has arrived or is on the wire, and they
\* are at most one partition apart.
PairOK(m, r, h, pr, pq, or, oq, sy, la, wi, ar, no, sr, rt, rf, rr) ==
    /\ h # "done" => la + Len(wi) = sr
    /\ Len(ar) <= la
    /\ \/ Same(h, pr, pq, or, oq, sy, la, ar, no, rt, rf, rr)
       \/ Ahead(m, r, h, pr, pq, or, oq, sy, la, wi, ar, no, rr)
       \/ Behind(m, r, h, pr, pq, or, oq, sy, la, ar, no, sr, rt)

\* A block in the host's partition: its rounds lie between what the host knows to be
\* complete and what it has posted, and its complete flags show the last one.
SameBlock(m, r, h, pr, p, bk, cS, cR, pS, pR, dS, dR) ==
    /\ bk.partition = pr /\ bk.offset = p
    /\ Valid(m, r, p, bk.SendCopy) /\ bk.SendCopy.round <= First(m, r, p)
    /\ Valid(m, LeftOf(m, r), p, bk.RecvRedCopy)
    /\ dS <= bk.SendCopy.round /\ bk.SendCopy.round <= pS
    /\ dR <= bk.RecvRedCopy.round /\ bk.RecvRedCopy.round <= pR
    /\ h # "done" => cS = bk.SendCopy.round - 1 /\ cR = bk.RecvRedCopy.round - 1

\* A block that is through with the previous partition and has not seen that the host began
\* another.
BehindBlock(m, r, h, pr, p, bk, cS, cR, dS, dR) ==
    /\ h # "done" /\ bk.partition + 1 = pr /\ bk.offset + PartLen(m, bk.offset) = p
    /\ Good(m, bk.offset)
    /\ Valid(m, r, bk.offset, bk.SendCopy) /\ bk.SendCopy.round = First(m, r, bk.offset)
    /\ Valid(m, LeftOf(m, r), bk.offset, bk.RecvRedCopy)
    /\ bk.RecvRedCopy.round = Total(m, LeftOf(m, r), bk.offset)
    /\ dS = 0 /\ dR = 0 /\ cS = kUnset /\ cR = kUnset

\* A block of a kernel is in the host's partition or at the end of the previous one.
BlockOK(m, r, h, pr, p, bk, cS, cR, pS, pR, dS, dR) ==
    \/ SameBlock(m, r, h, pr, p, bk, cS, cR, pS, pR, dS, dR)
    \/ BehindBlock(m, r, h, pr, p, bk, cS, cR, dS, dR)

\* The post flags and the flag of partitionSync show what the host last set.
FlagsOK(h, pr, oS, oR, st, pS, pR) ==
    /\ h # "done" => oS = pS - 1 /\ oR = pR - 1 /\ (pr = 0 => st = kUnset) /\ (pr # 0 => st = pr)
    /\ h = "done" => st = kUnset

\* The rounds a block has run of the partition pr.
RanS(bk, pr) == IF bk.partition = pr THEN bk.SendCopy.round ELSE 0
RanR(bk, pr) == IF bk.partition = pr THEN bk.RecvRedCopy.round ELSE 0

\* The block bk of rank r has written its positions of the round R, of step s, to tmpSendBuf:
\* copied in the first step, forwarded later.
Written(m, r, p, pr, s, R, bk) ==
    IF s = 0 THEN RanS(bk, pr) > R ELSE First(m, r, p) + RanR(bk, pr) > R

\* tmpSendBuf: a chunk written and not yet put and arrived (from la on) holds what its round
\* sends.
SendOK(m, r, h, pr, p, la, bks, ts) ==
    h # "done" =>
    \A s \in 0 .. Steps(m) - 1 : \A R \in RoundsOf(m, r, p, s) :
       \A k \in 0 .. Numel(m, r, p, s, R) - 1 :
         la <= R /\ Written(m, r, p, pr, s, R, bks[k % m.numBlocks])
         => ts[R % m.numChunks][k] = Value(m, r, s, Elem(m, r, p, s, R) + k)

\* The puts on the wire are the rounds after the la that arrived, each with its chunk and length.
WireOK(m, r, p, la, wi) ==
    \A i \in 1 .. Len(wi) :
        /\ wi[i].chunk = (la + i - 1) % m.numChunks
        /\ \A s \in 0 .. Steps(m) - 1 : \A R \in RoundsOf(m, r, p, s) :
              R = la + i - 1 => wi[i].numel = Numel(m, r, p, s, R)

\* The puts that arrived and that the GPU may not see yet are the last of the la rounds, and
\* carry what these send.
ArrivedOK(m, r, p, la, ar) ==
    \A i \in 1 .. Len(ar) :
        /\ ar[i].chunk = (la - Len(ar) + i - 1) % m.numChunks
        /\ \A s \in 0 .. Steps(m) - 1 : \A R \in RoundsOf(m, r, p, s) :
              R = la - Len(ar) + i - 1 =>
                /\ ar[i].numel = Numel(m, r, p, s, R)
                /\ \A k \in 0 .. ar[i].numel - 1 : ar[i].vals[k] = Value(m, r, s, Elem(m, r, p, s, R) + k)

\* tmpRecvBuf: a chunk that was received (before n) and not synced back (from sy on) holds what
\* its round sends.
SeenOK(m, r, p, sy, n, tr) ==
    \A s \in 0 .. Steps(m) - 1 : \A R \in RoundsOf(m, r, p, s) :
       \A k \in 0 .. Numel(m, r, p, s, R) - 1 :
         sy <= R /\ R < n => tr[R % m.numChunks][k] = Value(m, r, s, Elem(m, r, p, s, R) + k)

\* The buffer of a rank that is done: the sum everywhere.
DataOver(m, dt) == \A e \in ElementsOf(m) : dt[e] = AllOf(m, e)

\* The buffer outside the current partition: the sum before it, the rank's contribution after it.
DataRest(m, r, p, dt) ==
    \A e \in ElementsOf(m) : /\ e < p => dt[e] = AllOf(m, e)
                             /\ e >= p + PartLen(m, p) => dt[e] = {<<r, e>>}

\* The buffer in the partition: the sum where the block of the position ran the round that
\* writes it, from the last step of the reduce-scatter on, and the contribution elsewhere.
DataCell(m, r, pr, p, bks, dt, s, R, k) ==
    LET e == Elem(m, LeftOf(m, r), p, s, R) + k
    IN dt[e] = IF RanR(bks[k % m.numBlocks], pr) > R THEN AllOf(m, e) ELSE {<<r, e>>}
DataPart(m, r, pr, p, bks, dt) ==
    \A s \in m.nRanks - 2 .. Steps(m) - 1 : \A R \in RoundsOf(m, LeftOf(m, r), p, s) :
      \A k \in 0 .. Numel(m, LeftOf(m, r), p, s, R) - 1 : DataCell(m, r, pr, p, bks, dt, s, R, k)

\* The buffer of a rank: done, or as far as its blocks have come.
DataOK(m, r, h, pr, p, bks, dt) ==
    /\ h = "done" => DataOver(m, dt)
    /\ h # "done" => DataRest(m, r, p, dt) /\ DataPart(m, r, pr, p, bks, dt)

\* The same, of the variables.
HostAt(m, r) == HostOK(m, r, host[r], offset[r], post[r], done[r], landed[r], sync[r])
PairAt(m, r) ==
    LET q == RightOf(m, r)
    IN PairOK(m, r, host[r], partition[r], partition[q], offset[r], offset[q], sync[r], landed[r],
              wire[r], arrived[q], notify[q], post[r].SendTrans.round, done[q].RecvTrans.round,
              done[q].RecvFlush.round, done[q].RecvRedCopy.round)
BlockAt(m, r, b) ==
    BlockOK(m, r, host[r], partition[r], offset[r], block[r][b], completed[r]["SendCopy"][b],
            completed[r]["RecvRedCopy"][b], post[r].SendCopy.round, post[r].RecvRedCopy.round,
            done[r].SendCopy.round, done[r].RecvRedCopy.round)
FlagsAt(m, r) ==
    FlagsOK(host[r], partition[r], posted[r]["SendCopy"], posted[r]["RecvRedCopy"], started[r],
            post[r].SendCopy.round, post[r].RecvRedCopy.round)
SendAt(m, r) == SendOK(m, r, host[r], partition[r], offset[r], landed[r], block[r], tmpSend[r])
WireAt(m, r) == WireOK(m, r, offset[r], landed[r], wire[r])
ArrivedAt(m, r) == ArrivedOK(m, r, offset[r], landed[r], arrived[RightOf(m, r)])
SeenAt(m, r) ==
    SeenOK(m, r, offset[r], sync[r], landed[r] - Len(arrived[RightOf(m, r)]), tmpRecv[RightOf(m, r)])
DataAt(m, r) == DataOK(m, r, host[r], partition[r], offset[r], block[r], data[r])

\* What the counters, flags and queues are.
Control(m) ==
    \A r \in RanksOf(m) :
        HostAt(m, r) /\ PairAt(m, r) /\ FlagsAt(m, r) /\ (\A b \in BlocksOf(m) : BlockAt(m, r, b))

\* What the buffers and the messages hold.
Content(m) ==
    \A r \in RanksOf(m) :
        SendAt(m, r) /\ WireAt(m, r) /\ ArrivedAt(m, r) /\ SeenAt(m, r) /\ DataAt(m, r)

\* The inductive invariant.
RingInv == \E m \in Modes : mode = m /\ Types(m) /\ Control(m) /\ Content(m)

-----------------------------------------------------------------------------
(* The steps of the host.                                                  *)

\* All rounds of an operation are done at its last round.
LEMMA AllRoundsIs ==
    ASSUME NEW m \in Modes, mode = m, NEW r \in RanksOf(m), NEW op, NEW p, Good(m, p),
           NEW x, Valid(m, Origin(m, r, op), p, x), x.round <= Bound(m, r, p, op)
    PROVE  /\ AllRounds(op, x) <=> x.round = Bound(m, r, p, op)
           /\ Bound(m, r, p, op) \in Nat
           /\ x.round < Bound(m, r, p, op) => x.step # Steps(m)
<1> DEFINE o == Origin(m, r, op)
<1>1. o \in RanksOf(m)  BY OriginFacts
<1>2. /\ x.round \in Nat /\ x.round <= Total(m, o, p) /\ x.step \in 0 .. Steps(m)
      /\ x.step = Steps(m) <=> x.round = Total(m, o, p)
      /\ \A s \in 0 .. Steps(m) : x.step >= s <=> x.round >= Start(m, o, p, s)
  <2> HIDE DEF o
  <2> QED BY <1>1, CounterFacts DEF o
<1>3. First(m, o, p) \in Nat /\ Total(m, o, p) \in Nat /\ First(m, o, p) < Total(m, o, p)
  BY <1>1, FirstIs
<1>4. NumSteps = Steps(m) /\ Steps(m) \in Nat /\ Steps(m) >= 2  BY ModeIs, ModeFacts
<1>5. CASE op = "SendCopy"
  <2>1. o = r /\ Bound(m, r, p, op) = First(m, r, p)  BY <1>5, OriginFacts DEF Bound
  <2>2. x.step >= 1 <=> x.round >= First(m, r, p)
    <3>1. 1 \in 0 .. Steps(m)  BY <1>4
    <3> QED BY <2>1, <3>1, <1>2 DEF First
  <2>3. ~ (x.step >= 2)
    <3>1. 1 \in 0 .. Steps(m) /\ 2 \in 0 .. Steps(m) /\ 1 < 2  BY <1>4
    <3>2. First(m, r, p) < Start(m, r, p, 2) /\ Start(m, r, p, 2) \in Nat
      BY <3>1, StartFacts DEF First
    <3>3. ~ (x.round >= Start(m, r, p, 2))  BY <2>1, <3>2, <1>2, <1>3
    <3> QED BY <2>1, <3>1, <3>3, <1>2
  <2>4. AllRounds(op, x) <=> x.step = 1  BY <1>5 DEF AllRounds
  <2> QED BY <2>1, <2>2, <2>3, <2>4, <1>2, <1>3, <1>4
<1>6. CASE op # "SendCopy"
  <2>1. Bound(m, r, p, op) = Total(m, o, p)  BY <1>6 DEF Bound
  <2>2. AllRounds(op, x) <=> x.step = Steps(m)  BY <1>4, <1>6 DEF AllRounds
  <2> QED BY <2>1, <2>2, <1>2, <1>3
<1> QED BY <1>5, <1>6

\* Counting a round keeps the counters of a host.
LEMMA CounterStep ==
    ASSUME NEW m \in Modes, mode = m, NEW r \in RanksOf(m), NEW op \in Ops, NEW p, Good(m, p),
           NEW c \in [Ops -> Counter], Counters(m, r, p, c), c[op].round < Bound(m, r, p, op),
           NEW d, d = [c EXCEPT ![op] = Advance(r, op, p, c[op])]
    PROVE  /\ d \in [Ops -> Counter] /\ Counters(m, r, p, d)
           /\ d[op].round = c[op].round + 1
           /\ \A i \in Ops : i # op => d[i] = c[i]
<1>1. Valid(m, Origin(m, r, op), p, c[op]) /\ c[op].round <= Bound(m, r, p, op)  BY DEF Counters
<1>2. c[op].step # Steps(m) /\ Bound(m, r, p, op) \in Nat  BY <1>1, AllRoundsIs
<1>3. /\ Valid(m, Origin(m, r, op), p, Advance(r, op, p, c[op]))
      /\ Advance(r, op, p, c[op]).round = c[op].round + 1
  BY <1>1, <1>2, AdvanceFacts
<1>4. Advance(r, op, p, c[op]) \in Counter  BY <1>3 DEF Valid
<1>5. d[op] = Advance(r, op, p, c[op]) /\ \A i \in Ops : i # op => d[i] = c[i]  OBVIOUS
<1>6. d \in [Ops -> Counter]  BY <1>4
<1>7. d[op].round <= Bound(m, r, p, op)
  <2>1. c[op].round \in Nat  BY DEF Counter
  <2> QED BY <2>1, <1>2, <1>3, <1>5
<1>8. Counters(m, r, p, d)
  <2> SUFFICES ASSUME NEW i \in Ops
               PROVE  Valid(m, Origin(m, r, i), p, d[i]) /\ d[i].round <= Bound(m, r, p, i)
    BY DEF Counters
  <2>1. CASE i = op  BY <2>1, <1>3, <1>5, <1>7
  <2>2. CASE i # op  BY <2>2, <1>5 DEF Counters
  <2> QED BY <2>1, <2>2
<1> QED BY <1>3, <1>5, <1>6, <1>8

\* A function of functions after a change of one entry.
LEMMA Update2 ==
    ASSUME NEW R, NEW I, NEW V, NEW f \in [R -> [I -> V]], NEW a \in R, NEW i \in I, NEW v,
           NEW g, g = [f EXCEPT ![a][i] = v], v \in V
    PROVE  /\ g \in [R -> [I -> V]]
           /\ \A r \in R : r # a => g[r] = f[r]
           /\ g[a] = [f[a] EXCEPT ![i] = v]
           /\ g[a][i] = v /\ \A j \in I : j # i => g[a][j] = f[a][j]
OBVIOUS

\* What the invariant says of one host.
LEMMA HostFacts ==
    ASSUME NEW m \in Modes, Types(m), Control(m), NEW a \in RanksOf(m)
    PROVE  /\ post[a] \in [Ops -> Counter] /\ done[a] \in [Ops -> Counter]
           /\ offset[a] \in Nat /\ partition[a] \in Nat /\ sync[a] \in Nat /\ landed[a] \in Nat
           /\ notify[a] \in Nat
           /\ HostAt(m, a) /\ Good(m, offset[a])
           /\ Counters(m, a, offset[a], post[a]) /\ Counters(m, a, offset[a], done[a])
           /\ HostRounds(m, a, host[a], offset[a], post[a], done[a], landed[a], sync[a])
BY DEF Types, HostTypes, NetTypes, Control, HostAt, HostOK

\* The rounds of the counters are numbers.
LEMMA Rounds ==
    ASSUME NEW c \in [Ops -> Counter]
    PROVE  /\ c.SendCopy.round \in Nat /\ c.SendTrans.round \in Nat /\ c.RecvTrans.round \in Nat
           /\ c.RecvFlush.round \in Nat /\ c.RecvRedCopy.round \in Nat
BY DEF Ops, KernelOps, Counter

\* A post counts a round that was ready, and no other.
LEMMA PostStep ==
    ASSUME NEW m \in Modes, mode = m, Types(m), Control(m), NEW a \in RanksOf(m), NEW op \in Ops,
           OpReadyToPost(a, op), OpUpdatePost(a, op)
    PROVE  /\ host[a] = "running"
           /\ post[a][op].round < ReadyRounds(a, op)
           /\ post[a][op].round < Bound(m, a, offset[a], op)
           /\ post' \in [RanksOf(m) -> [Ops -> Counter]]
           /\ \A r \in RanksOf(m) : r # a => post'[r] = post[r]
           /\ Counters(m, a, offset[a], post'[a])
           /\ post'[a][op].round = post[a][op].round + 1
           /\ \A i \in Ops : i # op => post'[a][i] = post[a][i]
<1>1. /\ post[a] \in [Ops -> Counter] /\ Good(m, offset[a])
      /\ Counters(m, a, offset[a], post[a])
      /\ post \in [RanksOf(m) -> [Ops -> Counter]]
  BY HostFacts DEF Types, HostTypes
<1>2. host[a] = "running" /\ post[a][op].round < ReadyRounds(a, op) /\ ~ AllRounds(op, post[a][op])
  BY DEF OpReadyToPost, Running
<1>3. post[a][op].round < Bound(m, a, offset[a], op)
  <2>1. Valid(m, Origin(m, a, op), offset[a], post[a][op])
        /\ post[a][op].round <= Bound(m, a, offset[a], op)
    BY <1>1 DEF Counters
  <2>2. post[a][op].round # Bound(m, a, offset[a], op) /\ Bound(m, a, offset[a], op) \in Nat
    BY <2>1, <1>1, <1>2, AllRoundsIs
  <2>3. post[a][op].round \in Nat  BY <1>1 DEF Counter
  <2> QED BY <2>1, <2>2, <2>3
<1> DEFINE v == Advance(a, op, offset[a], post[a][op])
<1> DEFINE d == [post[a] EXCEPT ![op] = v]
<1>4. post' = [post EXCEPT ![a][op] = v]  BY DEF OpUpdatePost
<1>5. /\ d \in [Ops -> Counter] /\ Counters(m, a, offset[a], d)
      /\ d[op].round = post[a][op].round + 1
      /\ \A i \in Ops : i # op => d[i] = post[a][i]
  BY <1>1, <1>3, CounterStep
<1>6. v \in Counter
  <2>1. d[op] = v  BY <1>1
  <2> HIDE DEF v, d
  <2> QED BY <2>1, <1>5
<1> HIDE DEF v
<1>7. /\ post' \in [RanksOf(m) -> [Ops -> Counter]]
      /\ \A r \in RanksOf(m) : r # a => post'[r] = post[r]
      /\ post'[a] = d
  BY <1>1, <1>4, <1>6, Update2
<1> HIDE DEF d
<1> QED BY <1>2, <1>3, <1>5, <1>7

\* A completion counts a round, and no other.
LEMMA DoneStep ==
    ASSUME NEW m \in Modes, mode = m, Types(m), Control(m), NEW a \in RanksOf(m), NEW op \in Ops,
           done[a][op].round < Bound(m, a, offset[a], op), OpUpdateDone(a, op)
    PROVE  /\ done' \in [RanksOf(m) -> [Ops -> Counter]]
           /\ \A r \in RanksOf(m) : r # a => done'[r] = done[r]
           /\ Counters(m, a, offset[a], done'[a])
           /\ done'[a][op].round = done[a][op].round + 1
           /\ \A i \in Ops : i # op => done'[a][i] = done[a][i]
<1>1. /\ done[a] \in [Ops -> Counter] /\ Good(m, offset[a])
      /\ Counters(m, a, offset[a], done[a])
      /\ done \in [RanksOf(m) -> [Ops -> Counter]]
  BY HostFacts DEF Types, HostTypes
<1> DEFINE v == Advance(a, op, offset[a], done[a][op])
<1> DEFINE d == [done[a] EXCEPT ![op] = v]
<1>4. done' = [done EXCEPT ![a][op] = v]  BY DEF OpUpdateDone
<1>5. /\ d \in [Ops -> Counter] /\ Counters(m, a, offset[a], d)
      /\ d[op].round = done[a][op].round + 1
      /\ \A i \in Ops : i # op => d[i] = done[a][i]
  BY <1>1, CounterStep
<1>6. v \in Counter
  <2>1. d[op] = v  BY <1>1
  <2> HIDE DEF v, d
  <2> QED BY <2>1, <1>5
<1> HIDE DEF v
<1>7. /\ done' \in [RanksOf(m) -> [Ops -> Counter]]
      /\ \A r \in RanksOf(m) : r # a => done'[r] = done[r]
      /\ done'[a] = d
  BY <1>1, <1>4, <1>6, Update2
<1> HIDE DEF d
<1> QED BY <1>5, <1>7

\* What the host has posted is not all done.
LEMMA HasPosted ==
    ASSUME NEW m \in Modes, mode = m, Types(m), Control(m), NEW a \in RanksOf(m), NEW op \in Ops,
           OpHasPosted(a, op)
    PROVE  /\ host[a] = "running"
           /\ done[a][op].round < post[a][op].round
           /\ done[a][op].round < Bound(m, a, offset[a], op)
<1>1. /\ post[a] \in [Ops -> Counter] /\ done[a] \in [Ops -> Counter]
      /\ Good(m, offset[a]) /\ Counters(m, a, offset[a], post[a])
  BY HostFacts
<1>2. host[a] = "running" /\ done[a][op].round < post[a][op].round
  BY DEF OpHasPosted, Running
<1>3. Valid(m, Origin(m, a, op), offset[a], post[a][op])
      /\ post[a][op].round <= Bound(m, a, offset[a], op)
  BY <1>1 DEF Counters
<1>4. Bound(m, a, offset[a], op) \in Nat  BY <1>1, <1>3, AllRoundsIs
<1>5. done[a][op].round \in Nat /\ post[a][op].round \in Nat  BY <1>1 DEF Counter
<1> QED BY <1>2, <1>3, <1>4, <1>5

\* The contents of the buffers, when nothing they depend on changes.
LEMMA ContentFrame ==
    ASSUME NEW m \in Modes, Content(m),
           UNCHANGED <<host, partition, offset, landed, block, data, tmpSend, tmpRecv, wire, arrived, sync>>
    PROVE  Content(m)'
<1> SUFFICES ASSUME NEW r \in RanksOf(m)
             PROVE  SendAt(m, r)' /\ WireAt(m, r)' /\ ArrivedAt(m, r)' /\ SeenAt(m, r)' /\ DataAt(m, r)'
  BY DEF Content
<1>1. SendAt(m, r) /\ WireAt(m, r) /\ ArrivedAt(m, r) /\ SeenAt(m, r) /\ DataAt(m, r)
  BY DEF Content
<1>2. SendAt(m, r)'  BY <1>1 DEF SendAt
<1>3. WireAt(m, r)'  BY <1>1 DEF WireAt
<1>4. ArrivedAt(m, r)'  BY <1>1 DEF ArrivedAt
<1>5. SeenAt(m, r)'  BY <1>1 DEF SeenAt
<1>6. DataAt(m, r)'  BY <1>1 DEF DataAt
<1> QED BY <1>2, <1>3, <1>4, <1>5, <1>6

\* What the invariant says of one rank.
LEMMA ControlAt ==
    ASSUME NEW m \in Modes, Control(m), NEW r \in RanksOf(m)
    PROVE  HostAt(m, r) /\ PairAt(m, r) /\ FlagsAt(m, r) /\ (\A b \in BlocksOf(m) : BlockAt(m, r, b))
BY DEF Control

\* Posting a copy to tmpSendBuf: a chunk that no put still reads is free.
LEMMA SendCopyPostStep ==
    ASSUME NEW m \in Modes, mode = m, Types(m), Control(m), Content(m),
           NEW a \in RanksOf(m), SendCopyPost(a)
    PROVE  mode' = m /\ Types(m)' /\ Control(m)' /\ Content(m)'
<1>1. /\ UNCHANGED <<mode, host, partition, offset, done, started, completed, block, data, tmpSend,
                     tmpRecv, wire, arrived, landed, notify, sync>>
      /\ OpReadyToPost(a, "SendCopy") /\ OpUpdatePost(a, "SendCopy") /\ PostKernel(a, "SendCopy")
      /\ TmpSendFree(a, post[a].SendCopy.round)
  BY DEF SendCopyPost, partVars, bufferVars, netVars
<1>2. "SendCopy" \in Ops /\ "SendCopy" \in KernelOps  BY DEF Ops, KernelOps
<1>3. /\ post' \in [RanksOf(m) -> [Ops -> Counter]]
      /\ \A r \in RanksOf(m) : r # a => post'[r] = post[r]
      /\ Counters(m, a, offset[a], post'[a])
      /\ post'[a].SendCopy.round = post[a].SendCopy.round + 1
      /\ \A i \in Ops : i # "SendCopy" => post'[a][i] = post[a][i]
      /\ host[a] = "running"
  BY <1>1, <1>2, PostStep
<1>4. /\ post'[a].SendTrans = post[a].SendTrans /\ post'[a].RecvTrans = post[a].RecvTrans
      /\ post'[a].RecvFlush = post[a].RecvFlush /\ post'[a].RecvRedCopy = post[a].RecvRedCopy
  BY <1>3 DEF Ops, KernelOps
<1>5. post[a].SendCopy.round \in Nat /\ done[a].SendTrans.round \in Nat
  BY HostFacts, Rounds
<1>6. post[a].SendCopy.round + 1 <= done[a].SendTrans.round + m.numChunks
  BY <1>1, <1>5, ModeFacts DEF TmpSendFree
<1>7. /\ posted' \in [RanksOf(m) -> [KernelOps -> Int]]
      /\ \A r \in RanksOf(m) : r # a => posted'[r] = posted[r]
      /\ posted'[a]["SendCopy"] = post[a].SendCopy.round
      /\ \A j \in KernelOps : j # "SendCopy" => posted'[a][j] = posted[a][j]
  <2>1. posted \in [RanksOf(m) -> [KernelOps -> Int]]  BY DEF Types, FlagTypes
  <2>2. posted' = [posted EXCEPT ![a]["SendCopy"] = post[a].SendCopy.round]
    BY <1>1 DEF PostKernel
  <2>3. post[a].SendCopy.round \in Int  BY <1>5
  <2> HIDE DEF KernelOps
  <2> QED BY <1>2, <2>1, <2>2, <2>3, Update2
<1>8. posted'[a]["RecvRedCopy"] = posted[a]["RecvRedCopy"]  BY <1>7 DEF KernelOps
<1>9. Types(m)'
  BY <1>1, <1>3, <1>7 DEF Types, HostTypes, FlagTypes, BlockTypes, DataTypes, NetTypes
<1>10. ASSUME NEW r \in RanksOf(m) PROVE HostAt(m, r)'
  <2>1. CASE r # a  BY <2>1, <1>1, <1>3, ControlAt DEF HostAt
  <2>2. CASE r = a
    <3>1. HostRounds(m, a, host[a], offset[a], post[a], done[a], landed[a], sync[a])  BY HostFacts
    <3>2. HostRounds(m, a, host[a], offset[a], post'[a], done[a], landed[a], sync[a])
      BY <3>1, <1>3, <1>4, <1>5, <1>6, HostFacts, Rounds DEF HostRounds
    <3> QED BY <2>2, <3>2, <1>1, <1>3, HostFacts DEF HostAt, HostOK
  <2> QED BY <2>1, <2>2
<1>11. ASSUME NEW r \in RanksOf(m) PROVE PairAt(m, r)'
  <2>1. post'[r].SendTrans = post[r].SendTrans  BY <1>3, <1>4
  <2> QED BY <2>1, <1>1, ControlAt DEF PairAt
<1>12. ASSUME NEW r \in RanksOf(m) PROVE FlagsAt(m, r)'
  <2>1. CASE r # a  BY <2>1, <1>1, <1>3, <1>7, ControlAt DEF FlagsAt
  <2>2. CASE r = a
    <3>1. FlagsAt(m, a)  BY ControlAt
    <3> QED BY <2>2, <3>1, <1>1, <1>3, <1>4, <1>5, <1>7, <1>8 DEF FlagsAt, FlagsOK
  <2> QED BY <2>1, <2>2
<1>13. ASSUME NEW r \in RanksOf(m), NEW b \in BlocksOf(m) PROVE BlockAt(m, r, b)'
  <2>1. CASE r # a  BY <2>1, <1>1, <1>3, ControlAt DEF BlockAt
  <2>2. CASE r = a
    <3>1. BlockAt(m, a, b)  BY ControlAt
    <3>2. block[a][b].SendCopy.round <= post[a].SendCopy.round
          => block[a][b].SendCopy.round <= post'[a].SendCopy.round
      <4>1. block[a][b].SendCopy.round \in Nat
        BY DEF Types, BlockTypes, BlockRec, Counter
      <4> QED BY <4>1, <1>3, <1>5
    <3> QED BY <2>2, <3>1, <3>2, <1>1, <1>4 DEF BlockAt, BlockOK, SameBlock
  <2> QED BY <2>1, <2>2
<1>14. Control(m)'  BY <1>10, <1>11, <1>12, <1>13 DEF Control
<1>15. Content(m)'  BY <1>1, ContentFrame
<1> QED BY <1>1, <1>9, <1>14, <1>15

\* Finding a copy complete: every block has run it.
LEMMA SendCopyDoneStep ==
    ASSUME NEW m \in Modes, mode = m, Types(m), Control(m), Content(m),
           NEW a \in RanksOf(m), SendCopyDone(a)
    PROVE  mode' = m /\ Types(m)' /\ Control(m)' /\ Content(m)'
<1>1. /\ UNCHANGED <<mode, host, partition, offset, post, posted, started, completed, block, data,
                     tmpSend, tmpRecv, wire, arrived, landed, notify, sync>>
      /\ OpHasPosted(a, "SendCopy") /\ OpUpdateDone(a, "SendCopy")
      /\ IsComplete(a, "SendCopy", done[a].SendCopy.round)
  BY DEF SendCopyDone, partVars, flagVars, bufferVars, netVars
<1>2. "SendCopy" \in Ops  BY DEF Ops, KernelOps
<1>3. /\ host[a] = "running" /\ done[a].SendCopy.round < post[a].SendCopy.round
      /\ done[a].SendCopy.round < Bound(m, a, offset[a], "SendCopy")
  BY <1>1, <1>2, HasPosted
<1>4. /\ done' \in [RanksOf(m) -> [Ops -> Counter]]
      /\ \A r \in RanksOf(m) : r # a => done'[r] = done[r]
      /\ Counters(m, a, offset[a], done'[a])
      /\ done'[a].SendCopy.round = done[a].SendCopy.round + 1
      /\ \A i \in Ops : i # "SendCopy" => done'[a][i] = done[a][i]
  BY <1>1, <1>2, <1>3, DoneStep
<1>5. /\ done'[a].SendTrans = done[a].SendTrans /\ done'[a].RecvTrans = done[a].RecvTrans
      /\ done'[a].RecvFlush = done[a].RecvFlush /\ done'[a].RecvRedCopy = done[a].RecvRedCopy
  BY <1>4 DEF Ops, KernelOps
<1>6. done[a].SendCopy.round < First(m, a, offset[a])  BY <1>3 DEF Bound
<1>7. Types(m)'
  BY <1>1, <1>4 DEF Types, HostTypes, FlagTypes, BlockTypes, DataTypes, NetTypes
<1>8. ASSUME NEW r \in RanksOf(m) PROVE HostAt(m, r)'
  <2>1. CASE r # a  BY <2>1, <1>1, <1>4, ControlAt DEF HostAt
  <2>2. CASE r = a
    <3>1. HostRounds(m, a, host[a], offset[a], post[a], done[a], landed[a], sync[a])  BY HostFacts
    <3>2. post[a] \in [Ops -> Counter] /\ done[a] \in [Ops -> Counter] /\ Good(m, offset[a])
      BY HostFacts
    <3>3. First(m, a, offset[a]) \in Nat  BY <3>2, FirstIs
    <3>4. HostRounds(m, a, host[a], offset[a], post[a], done'[a], landed[a], sync[a])
      BY <3>1, <3>2, <3>3, <1>3, <1>4, <1>5, <1>6, Rounds DEF HostRounds
    <3> QED BY <2>2, <3>4, <1>1, <1>4, HostFacts DEF HostAt, HostOK
  <2> QED BY <2>1, <2>2
<1>9. ASSUME NEW r \in RanksOf(m) PROVE PairAt(m, r)'
  <2>1. RightOf(m, r) \in RanksOf(m)  BY NeighbourFacts
  <2>2. /\ done'[RightOf(m, r)].RecvTrans = done[RightOf(m, r)].RecvTrans
        /\ done'[RightOf(m, r)].RecvFlush = done[RightOf(m, r)].RecvFlush
        /\ done'[RightOf(m, r)].RecvRedCopy = done[RightOf(m, r)].RecvRedCopy
    BY <2>1, <1>4, <1>5
  <2> QED BY <2>2, <1>1, ControlAt DEF PairAt
<1>10. ASSUME NEW r \in RanksOf(m) PROVE FlagsAt(m, r)'
  BY <1>1, ControlAt DEF FlagsAt
<1>11. ASSUME NEW r \in RanksOf(m), NEW b \in BlocksOf(m) PROVE BlockAt(m, r, b)'
  <2>1. CASE r # a  BY <2>1, <1>1, <1>4, ControlAt DEF BlockAt
  <2>2. CASE r = a
    <3>1. BlockAt(m, a, b)  BY ControlAt
    <3>2. done[a].SendCopy.round <= completed[a]["SendCopy"][b]
      BY <1>1, ModeIs DEF IsComplete, BlocksOf
    <3>3. done[a].SendCopy.round \in Nat /\ block[a][b].SendCopy.round \in Nat
      BY HostFacts, Rounds DEF Types, BlockTypes, BlockRec, Counter
    <3>4. ~ BehindBlock(m, a, host[a], partition[a], offset[a], block[a][b],
              completed[a]["SendCopy"][b], completed[a]["RecvRedCopy"][b],
              done[a].SendCopy.round, done[a].RecvRedCopy.round)
      BY <3>2, <3>3 DEF BehindBlock, kUnset
    <3>5. SameBlock(m, a, host[a], partition[a], offset[a], block[a][b],
              completed[a]["SendCopy"][b], completed[a]["RecvRedCopy"][b],
              post[a].SendCopy.round, post[a].RecvRedCopy.round,
              done[a].SendCopy.round, done[a].RecvRedCopy.round)
      BY <3>1, <3>4 DEF BlockAt, BlockOK
    <3>6. done'[a].SendCopy.round <= block[a][b].SendCopy.round
      BY <3>2, <3>3, <3>5, <1>3, <1>4 DEF SameBlock
    <3>7. SameBlock(m, a, host[a], partition[a], offset[a], block[a][b],
              completed[a]["SendCopy"][b], completed[a]["RecvRedCopy"][b],
              post[a].SendCopy.round, post[a].RecvRedCopy.round,
              done'[a].SendCopy.round, done'[a].RecvRedCopy.round)
      BY <3>5, <3>6, <1>5 DEF SameBlock
    <3> QED BY <2>2, <3>7, <1>1 DEF BlockAt, BlockOK
  <2> QED BY <2>1, <2>2
<1>12. Control(m)'  BY <1>8, <1>9, <1>10, <1>11 DEF Control
<1>13. Content(m)'  BY <1>1, ContentFrame
<1> QED BY <1>1, <1>7, <1>12, <1>13

\* A round is of one step.
LEMMA StepUnique ==
    ASSUME NEW m \in Modes, NEW o \in RanksOf(m), NEW p, Good(m, p),
           NEW s \in 0 .. Steps(m) - 1, NEW t \in 0 .. Steps(m) - 1,
           NEW R \in RoundsOf(m, o, p, s), R \in RoundsOf(m, o, p, t)
    PROVE  s = t
<1>1. /\ s \in 0 .. Steps(m) /\ t \in 0 .. Steps(m)
      /\ s + 1 \in 0 .. Steps(m) /\ t + 1 \in 0 .. Steps(m)
  BY ModeFacts
<1>2. /\ Start(m, o, p, s) <= R /\ R < Start(m, o, p, s + 1)
      /\ Start(m, o, p, t) <= R /\ R < Start(m, o, p, t + 1) /\ R \in Nat
  BY ChunkFacts
<1>3. /\ Start(m, o, p, s) \in Nat /\ Start(m, o, p, t) \in Nat
      /\ Start(m, o, p, s + 1) \in Nat /\ Start(m, o, p, t + 1) \in Nat
  BY <1>1, StartFacts
<1>4. ~ (s < t)
  <2>1. SUFFICES ASSUME s < t PROVE FALSE  OBVIOUS
  <2>2. s + 1 = t \/ s + 1 < t  BY <2>1
  <2>3. Start(m, o, p, s + 1) <= Start(m, o, p, t)  BY <2>2, <1>1, <1>3, StartFacts
  <2> QED BY <2>3, <1>2, <1>3
<1>5. ~ (t < s)
  <2>1. SUFFICES ASSUME t < s PROVE FALSE  OBVIOUS
  <2>2. t + 1 = s \/ t + 1 < s  BY <2>1
  <2>3. Start(m, o, p, t + 1) <= Start(m, o, p, s)  BY <2>2, <1>1, <1>3, StartFacts
  <2> QED BY <2>3, <1>2, <1>3
<1> QED BY <1>4, <1>5

\* Posting a put: its chunk was copied or reduced, and the right neighbour has synced the one
\* it overwrites.
LEMMA SendTransPostStep ==
    ASSUME NEW m \in Modes, mode = m, Types(m), Control(m), Content(m),
           NEW a \in RanksOf(m), SendTransPost(a)
    PROVE  mode' = m /\ Types(m)' /\ Control(m)' /\ Content(m)'
<1> DEFINE x == post[a].SendTrans
<1> DEFINE put == [chunk |-> x.round % m.numChunks,
                   numel |-> Numel(m, a, offset[a], x.step, x.round)]
<1>1. /\ UNCHANGED <<mode, host, partition, offset, done, posted, started, completed, block, data,
                     tmpSend, tmpRecv, arrived, landed, notify, sync>>
      /\ OpReadyToPost(a, "SendTrans") /\ OpUpdatePost(a, "SendTrans")
      /\ RemRecvFree(a, x.round)
      /\ wire' = [wire EXCEPT ![a] = Append(@, [chunk |-> TmpChunk(x.round),
                                                numel |-> RoundArgs(a, "SendTrans", offset[a], x).numel])]
  BY DEF SendTransPost, partVars, flagVars, bufferVars
<1>2. "SendTrans" \in Ops  BY DEF Ops, KernelOps
<1>3. /\ post' \in [RanksOf(m) -> [Ops -> Counter]]
      /\ \A r \in RanksOf(m) : r # a => post'[r] = post[r]
      /\ Counters(m, a, offset[a], post'[a])
      /\ post'[a].SendTrans.round = x.round + 1
      /\ \A i \in Ops : i # "SendTrans" => post'[a][i] = post[a][i]
      /\ host[a] = "running"
      /\ x.round < ReadyRounds(a, "SendTrans")
      /\ x.round < Bound(m, a, offset[a], "SendTrans")
  BY <1>1, <1>2, PostStep
<1>4. /\ post'[a].SendCopy = post[a].SendCopy /\ post'[a].RecvTrans = post[a].RecvTrans
      /\ post'[a].RecvFlush = post[a].RecvFlush /\ post'[a].RecvRedCopy = post[a].RecvRedCopy
  BY <1>3 DEF Ops, KernelOps
<1>5. /\ x.round < done[a].SendCopy.round + done[a].RecvRedCopy.round
      /\ x.round < Total(m, a, offset[a])
  BY <1>3, OriginFacts DEF ReadyRounds, Bound
<1>6. /\ Good(m, offset[a]) /\ Valid(m, a, offset[a], x) /\ x.round \in Nat /\ sync[a] \in Nat
      /\ landed[a] \in Nat /\ post[a] \in [Ops -> Counter] /\ done[a] \in [Ops -> Counter]
  <2>1. Valid(m, Origin(m, a, "SendTrans"), offset[a], x)  BY <1>2, HostFacts DEF Counters
  <2> QED BY <2>1, OriginFacts, HostFacts, Rounds
<1>7. /\ x.step \in 0 .. Steps(m) - 1 /\ x.round \in RoundsOf(m, a, offset[a], x.step)
      /\ x.start = Start(m, a, offset[a], x.step)
  <2>1. Total(m, a, offset[a]) \in Nat  BY <1>6, FirstIs
  <2>2. x.round # Total(m, a, offset[a])  BY <2>1, <1>5, <1>6
  <2> HIDE DEF x
  <2> QED BY <2>2, <1>6, CounterFacts
<1>8. RoundArgs(a, "SendTrans", offset[a], x).numel = Numel(m, a, offset[a], x.step, x.round)
  <2>1. Origin(m, a, "SendTrans") = a  BY OriginFacts
  <2> HIDE DEF x
  <2> QED BY <2>1, <1>7, RoundArgsIs
<1>9. wire' = [wire EXCEPT ![a] = Append(@, put)]
  BY <1>1, <1>8 DEF TmpChunk
<1>10. put \in Put(m)
  <2>1. x.round % m.numChunks \in 0 .. m.numChunks - 1  BY <1>6, ModeFacts, ModRange
  <2>2. Numel(m, a, offset[a], x.step, x.round) \in Nat
    <3> HIDE DEF x
    <3>1. Numel(m, a, offset[a], x.step, x.round) \in 1 .. m.chunkNumel
      BY <1>6, <1>7, ChunkFacts
    <3> QED BY <3>1, ModeFacts
  <2> QED BY <2>1, <2>2 DEF Put
<1> HIDE DEF put
<1>11. wire[a] \in Seq(Put(m)) /\ wire \in [RanksOf(m) -> Seq(Put(m))]  BY DEF Types, NetTypes
<1>12. /\ wire' \in [RanksOf(m) -> Seq(Put(m))]
       /\ wire'[a] = Append(wire[a], put)
       /\ \A r \in RanksOf(m) : r # a => wire'[r] = wire[r]
       /\ Len(wire'[a]) = Len(wire[a]) + 1 /\ Len(wire[a]) \in Nat
  <2>1. Append(wire[a], put) \in Seq(Put(m))  BY <1>10, <1>11
  <2>2. Len(Append(wire[a], put)) = Len(wire[a]) + 1 /\ Len(wire[a]) \in Nat  BY <1>10, <1>11
  <2> QED BY <2>1, <2>2, <1>9, <1>11
<1> DEFINE N == Len(wire[a])
<1>25. N \in Nat /\ Len(wire'[a]) = N + 1  BY <1>12
<1> HIDE DEF N
<1>13. Types(m)'
  BY <1>1, <1>3, <1>12 DEF Types, HostTypes, FlagTypes, BlockTypes, DataTypes, NetTypes
<1>14. x.round + 1 <= sync[a] + m.numChunks
  BY <1>1, <1>6, ModeFacts DEF RemRecvFree
<1>15. ASSUME NEW r \in RanksOf(m) PROVE HostAt(m, r)'
  <2>1. CASE r # a  BY <2>1, <1>1, <1>3, ControlAt DEF HostAt
  <2>2. CASE r = a
    <3>1. HostRounds(m, a, host[a], offset[a], post[a], done[a], landed[a], sync[a])  BY HostFacts
    <3>2. HostRounds(m, a, host[a], offset[a], post'[a], done[a], landed[a], sync[a])
      BY <3>1, <1>3, <1>4, <1>5, <1>6, <1>14, Rounds DEF HostRounds
    <3> QED BY <2>2, <3>2, <1>1, <1>3, <1>6 , HostFacts DEF HostAt, HostOK
  <2> QED BY <2>1, <2>2
<1>16. PairAt(m, a) /\ host[a] # "done"  BY <1>3, ControlAt
<1>17. landed[a] + N = x.round  BY <1>16 DEF PairAt, PairOK, N
<1>18. ASSUME NEW r \in RanksOf(m) PROVE PairAt(m, r)'
  <2>1. CASE r # a  BY <2>1, <1>1, <1>3, <1>12, ControlAt DEF PairAt
  <2>2. CASE r = a
    <3>1. landed[a] + Len(wire'[a]) = post'[a].SendTrans.round
      
      <4>1. /\ post'[a].SendTrans.round = x.round + 1 /\ x.round \in Nat /\ landed[a] \in Nat
            /\ N \in Nat /\ Len(wire'[a]) = N + 1 /\ landed[a] + N = x.round
        BY <1>3, <1>6, <1>17, <1>25
      <4> HIDE DEF x
      <4> QED BY <4>1
    <3>2. landed[a] # Total(m, a, offset[a]) \/ landed[a] # x.round  BY <1>5, <1>6
    <3> QED BY <2>2, <3>1, <3>2, <1>1, <1>3, <1>16 DEF PairAt, PairOK, Same, Ahead, Behind
  <2> QED BY <2>1, <2>2
<1>19. ASSUME NEW r \in RanksOf(m) PROVE FlagsAt(m, r)'
  <2>1. post'[r].SendCopy = post[r].SendCopy /\ post'[r].RecvRedCopy = post[r].RecvRedCopy
    BY <1>3, <1>4
  <2> QED BY <2>1, <1>1, ControlAt DEF FlagsAt
<1>20. ASSUME NEW r \in RanksOf(m), NEW b \in BlocksOf(m) PROVE BlockAt(m, r, b)'
  <2>1. post'[r].SendCopy = post[r].SendCopy /\ post'[r].RecvRedCopy = post[r].RecvRedCopy
    BY <1>3, <1>4
  <2> QED BY <2>1, <1>1, ControlAt DEF BlockAt
<1>21. Control(m)'  BY <1>15, <1>18, <1>19, <1>20 DEF Control
<1>22. WireAt(m, a)'
  <2> SUFFICES ASSUME NEW i \in 1 .. Len(wire'[a])
               PROVE  /\ wire'[a][i].chunk = (landed[a] + i - 1) % m.numChunks
                      /\ \A s \in 0 .. Steps(m) - 1 : \A R \in RoundsOf(m, a, offset[a], s) :
                            R = landed[a] + i - 1 => wire'[a][i].numel = Numel(m, a, offset[a], s, R)
    <3>1. WireOK(m, a, offset[a], landed[a], wire'[a]) => WireAt(m, a)'  BY <1>1 DEF WireAt
    <3> QED BY <3>1 DEF WireOK
  <2>1. CASE i \in 1 .. N
    <3>1. wire'[a][i] = wire[a][i]  BY <2>1, <1>10, <1>11, <1>12 DEF N
    <3>2. WireAt(m, a)  BY DEF Content
    <3> QED BY <2>1, <3>1, <3>2 DEF WireAt, WireOK, N
  <2>2. CASE i = N + 1
    <3>1. wire'[a][i] = put  BY <2>2, <1>10, <1>11, <1>12 DEF N
    <3>2. landed[a] + i - 1 = x.round  BY <2>2, <1>6, <1>17, <1>25
    <3>3. ASSUME NEW s \in 0 .. Steps(m) - 1, NEW R \in RoundsOf(m, a, offset[a], s), R = x.round
          PROVE  s = x.step
      <4> HIDE DEF x
      <4> QED BY <3>3, <1>6, <1>7, StepUnique
    <3> QED BY <3>1, <3>2, <3>3 DEF put
  <2> QED BY <2>1, <2>2, <1>25
<1>23. ASSUME NEW r \in RanksOf(m)
       PROVE  SendAt(m, r)' /\ WireAt(m, r)' /\ ArrivedAt(m, r)' /\ SeenAt(m, r)' /\ DataAt(m, r)'
  <2>1. SendAt(m, r) /\ WireAt(m, r) /\ ArrivedAt(m, r) /\ SeenAt(m, r) /\ DataAt(m, r)
    BY DEF Content
  <2>2. SendAt(m, r)'  BY <2>1, <1>1 DEF SendAt
  <2>3. WireAt(m, r)'
    <3>1. CASE r # a  BY <3>1, <2>1, <1>1, <1>12 DEF WireAt
    <3> QED BY <3>1, <1>22
  <2>4. ArrivedAt(m, r)'  BY <2>1, <1>1 DEF ArrivedAt
  <2>5. SeenAt(m, r)'  BY <2>1, <1>1 DEF SeenAt
  <2>6. DataAt(m, r)'  BY <2>1, <1>1 DEF DataAt
  <2> QED BY <2>2, <2>3, <2>4, <2>5, <2>6
<1>24. Content(m)'  BY <1>23 DEF Content
<1> QED BY <1>1, <1>13, <1>21, <1>24

\* More puts done widen the window.
LEMMA WindowMono ==
    ASSUME NEW m \in Modes, NEW r \in RanksOf(m), NEW p, Good(m, p), NEW n \in Nat,
           NEW y \in Nat, NEW z \in Nat, y <= z, Window(m, r, p, n, y)
    PROVE  Window(m, r, p, n, z)
<1>1. First(m, r, p) \in Nat /\ m.numChunks \in Nat  BY FirstIs, ModeFacts
<1> SUFFICES ASSUME NEW R \in Nat, R < n, R < Start(m, LeftOf(m, r), p, Steps(m) - 1)
             PROVE  First(m, r, p) + R < z + m.numChunks
  BY DEF Window
<1>2. First(m, r, p) + R < y + m.numChunks  BY DEF Window
<1> QED BY <1>1, <1>2

\* The right neighbour of another rank than the left neighbour is another rank.
LEMMA OtherRight ==
    ASSUME NEW m \in Modes, NEW a \in RanksOf(m), NEW r \in RanksOf(m), r # LeftOf(m, a)
    PROVE  RightOf(m, r) # a /\ RightOf(m, r) \in RanksOf(m)
<1>1. LeftOf(m, RightOf(m, r)) = r /\ RightOf(m, r) \in RanksOf(m)  BY NeighbourFacts
<1> QED BY <1>1

\* Finding a put done.
LEMMA SendTransDoneStep ==
    ASSUME NEW m \in Modes, mode = m, Types(m), Control(m), Content(m),
           NEW a \in RanksOf(m), SendTransDone(a)
    PROVE  mode' = m /\ Types(m)' /\ Control(m)' /\ Content(m)'
<1>1. /\ UNCHANGED <<mode, host, partition, offset, post, posted, started, completed, block, data,
                     tmpSend, tmpRecv, wire, arrived, landed, notify, sync>>
      /\ OpHasPosted(a, "SendTrans") /\ OpUpdateDone(a, "SendTrans")
      /\ done[a].SendTrans.round < landed[a]
  BY DEF SendTransDone, partVars, flagVars, bufferVars, netVars
<1>2. "SendTrans" \in Ops  BY DEF Ops, KernelOps
<1>3. /\ host[a] = "running" /\ done[a].SendTrans.round < post[a].SendTrans.round
      /\ done[a].SendTrans.round < Bound(m, a, offset[a], "SendTrans")
  BY <1>1, <1>2, HasPosted
<1>4. /\ done' \in [RanksOf(m) -> [Ops -> Counter]]
      /\ \A r \in RanksOf(m) : r # a => done'[r] = done[r]
      /\ Counters(m, a, offset[a], done'[a])
      /\ done'[a].SendTrans.round = done[a].SendTrans.round + 1
      /\ \A i \in Ops : i # "SendTrans" => done'[a][i] = done[a][i]
  BY <1>1, <1>2, <1>3, DoneStep
<1>5. /\ done'[a].SendCopy = done[a].SendCopy /\ done'[a].RecvTrans = done[a].RecvTrans
      /\ done'[a].RecvFlush = done[a].RecvFlush /\ done'[a].RecvRedCopy = done[a].RecvRedCopy
  BY <1>4 DEF Ops, KernelOps
<1>7. Types(m)'
  BY <1>1, <1>4 DEF Types, HostTypes, FlagTypes, BlockTypes, DataTypes, NetTypes
<1>8. ASSUME NEW r \in RanksOf(m) PROVE HostAt(m, r)'
  <2>1. CASE r # a  BY <2>1, <1>1, <1>4, ControlAt DEF HostAt
  <2>2. CASE r = a
    <3>1. HostRounds(m, a, host[a], offset[a], post[a], done[a], landed[a], sync[a])  BY HostFacts
    <3>2. post[a] \in [Ops -> Counter] /\ done[a] \in [Ops -> Counter] /\ Good(m, offset[a])
          /\ landed[a] \in Nat
      BY HostFacts
    <3>3. Window(m, a, offset[a], post[a].RecvRedCopy.round, done'[a].SendTrans.round)
      <4>1. Window(m, a, offset[a], post[a].RecvRedCopy.round, done[a].SendTrans.round)
        BY <3>1 DEF HostRounds
      <4>2. /\ post[a].RecvRedCopy.round \in Nat /\ done[a].SendTrans.round \in Nat
            /\ done'[a].SendTrans.round = done[a].SendTrans.round + 1
        BY <3>2, <1>4, Rounds
      <4>3. done'[a].SendTrans.round \in Nat /\ done[a].SendTrans.round <= done'[a].SendTrans.round
        BY <4>2
      <4> QED BY <3>2, <4>1, <4>2, <4>3, WindowMono
    <3>4. m.numChunks \in Nat  BY ModeFacts
    <3>5. HostRounds(m, a, host[a], offset[a], post[a], done'[a], landed[a], sync[a])
      BY <3>1, <3>2, <3>3, <3>4, <1>1, <1>3, <1>4, <1>5, Rounds DEF HostRounds
    <3> QED BY <2>2, <3>5, <1>1, <1>4, HostFacts DEF HostAt, HostOK
  <2> QED BY <2>1, <2>2
<1>9. ASSUME NEW r \in RanksOf(m) PROVE PairAt(m, r)'
  <2>1. RightOf(m, r) \in RanksOf(m)  BY NeighbourFacts
  <2>2. /\ done'[RightOf(m, r)].RecvTrans = done[RightOf(m, r)].RecvTrans
        /\ done'[RightOf(m, r)].RecvFlush = done[RightOf(m, r)].RecvFlush
        /\ done'[RightOf(m, r)].RecvRedCopy = done[RightOf(m, r)].RecvRedCopy
    BY <2>1, <1>4, <1>5
  <2> QED BY <2>2, <1>1, ControlAt DEF PairAt
<1>10. ASSUME NEW r \in RanksOf(m) PROVE FlagsAt(m, r)'
  BY <1>1, ControlAt DEF FlagsAt
<1>11. ASSUME NEW r \in RanksOf(m), NEW b \in BlocksOf(m) PROVE BlockAt(m, r, b)'
  <2>1. done'[r].SendCopy = done[r].SendCopy /\ done'[r].RecvRedCopy = done[r].RecvRedCopy
    BY <1>4, <1>5
  <2> QED BY <2>1, <1>1, ControlAt DEF BlockAt
<1>12. Control(m)'  BY <1>8, <1>9, <1>10, <1>11 DEF Control
<1>13. Content(m)'  BY <1>1, ContentFrame
<1> QED BY <1>1, <1>7, <1>12, <1>13

\* Posting a flush of what was received.
LEMMA RecvFlushPostStep ==
    ASSUME NEW m \in Modes, mode = m, Types(m), Control(m), Content(m),
           NEW a \in RanksOf(m), RecvFlushPost(a)
    PROVE  mode' = m /\ Types(m)' /\ Control(m)' /\ Content(m)'
<1>1. /\ UNCHANGED <<mode, host, partition, offset, done, posted, started, completed, block, data,
                     tmpSend, tmpRecv, wire, arrived, landed, notify, sync>>
      /\ OpReadyToPost(a, "RecvFlush") /\ OpUpdatePost(a, "RecvFlush")
  BY DEF RecvFlushPost, partVars, flagVars, bufferVars, netVars
<1>2. "RecvFlush" \in Ops  BY DEF Ops, KernelOps
<1>3. /\ post' \in [RanksOf(m) -> [Ops -> Counter]]
      /\ \A r \in RanksOf(m) : r # a => post'[r] = post[r]
      /\ Counters(m, a, offset[a], post'[a])
      /\ post'[a].RecvFlush.round = post[a].RecvFlush.round + 1
      /\ \A i \in Ops : i # "RecvFlush" => post'[a][i] = post[a][i]
      /\ post[a].RecvFlush.round < ReadyRounds(a, "RecvFlush")
  BY <1>1, <1>2, PostStep
<1>4. /\ post'[a].SendCopy = post[a].SendCopy /\ post'[a].SendTrans = post[a].SendTrans
      /\ post'[a].RecvTrans = post[a].RecvTrans /\ post'[a].RecvRedCopy = post[a].RecvRedCopy
  BY <1>3 DEF Ops, KernelOps
<1>5. post[a].RecvFlush.round < done[a].RecvTrans.round  BY <1>3 DEF ReadyRounds
<1>7. Types(m)'
  BY <1>1, <1>3 DEF Types, HostTypes, FlagTypes, BlockTypes, DataTypes, NetTypes
<1>8. ASSUME NEW r \in RanksOf(m) PROVE HostAt(m, r)'
  <2>1. CASE r # a  BY <2>1, <1>1, <1>3, ControlAt DEF HostAt
  <2>2. CASE r = a
    <3>1. HostRounds(m, a, host[a], offset[a], post[a], done[a], landed[a], sync[a])  BY HostFacts
    <3>2. post[a] \in [Ops -> Counter] /\ done[a] \in [Ops -> Counter]  BY HostFacts
    <3>5. HostRounds(m, a, host[a], offset[a], post'[a], done[a], landed[a], sync[a])
      BY <3>1, <3>2, <1>3, <1>4, <1>5, Rounds DEF HostRounds
    <3> QED BY <2>2, <3>5, <1>1, <1>3, HostFacts DEF HostAt, HostOK
  <2> QED BY <2>1, <2>2
<1>6. ASSUME NEW r \in RanksOf(m)
      PROVE  /\ post'[r].SendCopy = post[r].SendCopy /\ post'[r].SendTrans = post[r].SendTrans
             /\ post'[r].RecvRedCopy = post[r].RecvRedCopy
  BY <1>3, <1>4
<1>9. ASSUME NEW r \in RanksOf(m) PROVE PairAt(m, r)'
  BY <1>1, <1>6, ControlAt DEF PairAt
<1>10. ASSUME NEW r \in RanksOf(m) PROVE FlagsAt(m, r)'
  BY <1>1, <1>6, ControlAt DEF FlagsAt
<1>11. ASSUME NEW r \in RanksOf(m), NEW b \in BlocksOf(m) PROVE BlockAt(m, r, b)'
  BY <1>1, <1>6, ControlAt DEF BlockAt
<1>12. Control(m)'  BY <1>8, <1>9, <1>10, <1>11 DEF Control
<1>13. Content(m)'  BY <1>1, ContentFrame
<1> QED BY <1>1, <1>7, <1>12, <1>13

\* Finding a flush done: the GPU sees what was received before it.
LEMMA RecvFlushDoneStep ==
    ASSUME NEW m \in Modes, mode = m, Types(m), Control(m), Content(m),
           NEW a \in RanksOf(m), RecvFlushDone(a)
    PROVE  mode' = m /\ Types(m)' /\ Control(m)' /\ Content(m)'
<1>1. /\ UNCHANGED <<mode, host, partition, offset, post, posted, started, completed, block, data,
                     tmpSend, tmpRecv, wire, arrived, landed, notify, sync>>
      /\ OpHasPosted(a, "RecvFlush") /\ OpUpdateDone(a, "RecvFlush")
      /\ Flushed(a, done[a].RecvFlush.round)
  BY DEF RecvFlushDone, partVars, flagVars, bufferVars, netVars
<1>2. "RecvFlush" \in Ops  BY DEF Ops, KernelOps
<1>3. /\ host[a] = "running" /\ done[a].RecvFlush.round < post[a].RecvFlush.round
      /\ done[a].RecvFlush.round < Bound(m, a, offset[a], "RecvFlush")
  BY <1>1, <1>2, HasPosted
<1>4. /\ done' \in [RanksOf(m) -> [Ops -> Counter]]
      /\ \A r \in RanksOf(m) : r # a => done'[r] = done[r]
      /\ Counters(m, a, offset[a], done'[a])
      /\ done'[a].RecvFlush.round = done[a].RecvFlush.round + 1
      /\ \A i \in Ops : i # "RecvFlush" => done'[a][i] = done[a][i]
  BY <1>1, <1>2, <1>3, DoneStep
<1>5. /\ done'[a].SendCopy = done[a].SendCopy /\ done'[a].SendTrans = done[a].SendTrans
      /\ done'[a].RecvTrans = done[a].RecvTrans /\ done'[a].RecvRedCopy = done[a].RecvRedCopy
  BY <1>4 DEF Ops, KernelOps
<1>7. Types(m)'
  BY <1>1, <1>4 DEF Types, HostTypes, FlagTypes, BlockTypes, DataTypes, NetTypes
<1>8. ASSUME NEW r \in RanksOf(m) PROVE HostAt(m, r)'
  <2>1. CASE r # a  BY <2>1, <1>1, <1>4, ControlAt DEF HostAt
  <2>2. CASE r = a
    <3>1. HostRounds(m, a, host[a], offset[a], post[a], done[a], landed[a], sync[a])  BY HostFacts
    <3>2. post[a] \in [Ops -> Counter] /\ done[a] \in [Ops -> Counter]  BY HostFacts
    <3>5. HostRounds(m, a, host[a], offset[a], post[a], done'[a], landed[a], sync[a])
      BY <3>1, <3>2, <1>3, <1>4, <1>5, Rounds DEF HostRounds
    <3> QED BY <2>2, <3>5, <1>1, <1>4, HostFacts DEF HostAt, HostOK
  <2> QED BY <2>1, <2>2
<1>9. ASSUME NEW r \in RanksOf(m) PROVE PairAt(m, r)'
  <2>1. CASE RightOf(m, r) # a
    <3>1. done'[RightOf(m, r)] = done[RightOf(m, r)]  BY <2>1, <1>4, NeighbourFacts
    <3> QED BY <3>1, <1>1, ControlAt DEF PairAt
  <2>2. CASE RightOf(m, r) = a
    <3>1. PairAt(m, r)  BY ControlAt
    <3>2. r = Left(a)  BY <2>2, NeighbourFacts, ModeIs
    <3>3. done[a].RecvFlush.round < landed[r] - Len(arrived[a])  BY <3>2, <1>1 DEF Flushed
    <3>4. done[a].RecvFlush.round \in Nat /\ landed[r] \in Nat /\ Len(arrived[a]) \in Nat
      <4>1. done[a].RecvFlush.round \in Nat /\ landed[r] \in Nat  BY HostFacts, Rounds
      <4>2. arrived[a] \in Seq(Arrival(m))  BY DEF Types, NetTypes
      <4> QED BY <4>1, <4>2
    <3>5. done'[a].RecvFlush.round <= landed[r] - Len(arrived[a])  BY <3>3, <3>4, <1>4
    <3> QED BY <2>2, <3>1, <3>5, <1>1, <1>5 DEF PairAt, PairOK, Same
  <2> QED BY <2>1, <2>2
<1>10. ASSUME NEW r \in RanksOf(m) PROVE FlagsAt(m, r)'
  BY <1>1, ControlAt DEF FlagsAt
<1>11. ASSUME NEW r \in RanksOf(m), NEW b \in BlocksOf(m) PROVE BlockAt(m, r, b)'
  <2>1. done'[r].SendCopy = done[r].SendCopy /\ done'[r].RecvRedCopy = done[r].RecvRedCopy
    BY <1>4, <1>5
  <2> QED BY <2>1, <1>1, ControlAt DEF BlockAt
<1>12. Control(m)'  BY <1>8, <1>9, <1>10, <1>11 DEF Control
<1>13. Content(m)'  BY <1>1, ContentFrame
<1> QED BY <1>1, <1>7, <1>12, <1>13

\* Receiving a notification: a put of this partition arrived.
LEMMA RecvTransStep ==
    ASSUME NEW m \in Modes, mode = m, Types(m), Control(m), Content(m),
           NEW a \in RanksOf(m), RecvTrans(a)
    PROVE  mode' = m /\ Types(m)' /\ Control(m)' /\ Content(m)'
<1>1. /\ UNCHANGED <<mode, host, partition, offset, posted, started, completed, block, data,
                     tmpSend, tmpRecv, wire, arrived, landed, sync>>
      /\ OpReadyToPost(a, "RecvTrans") /\ OpUpdatePost(a, "RecvTrans") /\ OpUpdateDone(a, "RecvTrans")
      /\ notify[a] > 0 /\ notify' = [notify EXCEPT ![a] = @ - 1]
  BY DEF RecvTrans, partVars, flagVars, bufferVars
<1>2. "RecvTrans" \in Ops  BY DEF Ops, KernelOps
<1>3. /\ post' \in [RanksOf(m) -> [Ops -> Counter]]
      /\ \A r \in RanksOf(m) : r # a => post'[r] = post[r]
      /\ Counters(m, a, offset[a], post'[a])
      /\ post'[a].RecvTrans.round = post[a].RecvTrans.round + 1
      /\ \A i \in Ops : i # "RecvTrans" => post'[a][i] = post[a][i]
      /\ post[a].RecvTrans.round < Bound(m, a, offset[a], "RecvTrans")
  BY <1>1, <1>2, PostStep
<1>4. /\ post'[a].SendCopy = post[a].SendCopy /\ post'[a].SendTrans = post[a].SendTrans
      /\ post'[a].RecvFlush = post[a].RecvFlush /\ post'[a].RecvRedCopy = post[a].RecvRedCopy
  BY <1>3 DEF Ops, KernelOps
<1>5. HostRounds(m, a, host[a], offset[a], post[a], done[a], landed[a], sync[a])  BY HostFacts
<1>6. post[a].RecvTrans.round = done[a].RecvTrans.round  BY <1>5 DEF HostRounds
<1>7. /\ done' \in [RanksOf(m) -> [Ops -> Counter]]
      /\ \A r \in RanksOf(m) : r # a => done'[r] = done[r]
      /\ Counters(m, a, offset[a], done'[a])
      /\ done'[a].RecvTrans.round = done[a].RecvTrans.round + 1
      /\ \A i \in Ops : i # "RecvTrans" => done'[a][i] = done[a][i]
  BY <1>1, <1>2, <1>3, <1>6, DoneStep
<1>8. /\ done'[a].SendCopy = done[a].SendCopy /\ done'[a].SendTrans = done[a].SendTrans
      /\ done'[a].RecvFlush = done[a].RecvFlush /\ done'[a].RecvRedCopy = done[a].RecvRedCopy
  BY <1>7 DEF Ops, KernelOps
<1>9. notify \in [RanksOf(m) -> Nat]  BY DEF Types, NetTypes
<1>10. /\ notify' \in [RanksOf(m) -> Nat] /\ notify'[a] = notify[a] - 1 /\ notify[a] \in Nat
       /\ \A r \in RanksOf(m) : r # a => notify'[r] = notify[r]
  BY <1>1, <1>9
<1>11. Types(m)'
  BY <1>1, <1>3, <1>7, <1>10 DEF Types, HostTypes, FlagTypes, BlockTypes, DataTypes, NetTypes
<1>12. post[a] \in [Ops -> Counter] /\ done[a] \in [Ops -> Counter] /\ Good(m, offset[a])
  BY HostFacts
<1>13. ASSUME NEW r \in RanksOf(m) PROVE HostAt(m, r)'
  <2>1. CASE r # a  BY <2>1, <1>1, <1>3, <1>7, ControlAt DEF HostAt
  <2>2. CASE r = a
    <3>1. HostRounds(m, a, host[a], offset[a], post'[a], done'[a], landed[a], sync[a])
      BY <1>3, <1>4, <1>5, <1>7, <1>8, <1>12, Rounds DEF HostRounds
    <3> QED BY <2>2, <3>1, <1>1, <1>3, <1>7, HostFacts DEF HostAt, HostOK
  <2> QED BY <2>1, <2>2
<1>14. ASSUME NEW r \in RanksOf(m) PROVE PairAt(m, r)'
  <2>0. post'[r].SendTrans = post[r].SendTrans  BY <1>3, <1>4
  <2>1. CASE RightOf(m, r) # a
    <3>1. done'[RightOf(m, r)] = done[RightOf(m, r)] /\ notify'[RightOf(m, r)] = notify[RightOf(m, r)]
      BY <2>1, <1>7, <1>10, NeighbourFacts
    <3> QED BY <2>0, <3>1, <1>1, ControlAt DEF PairAt
  <2>2. CASE RightOf(m, r) = a
    <3>1. PairAt(m, r)  BY ControlAt
    <3>2. r = LeftOf(m, a)  BY <2>2, NeighbourFacts
    <3>3. done[a].RecvRedCopy.round # Total(m, r, offset[a])
      <4>1. Bound(m, a, offset[a], "RecvTrans") = Total(m, r, offset[a])
        BY <3>2, OriginFacts DEF Bound
      <4>2. Total(m, r, offset[a]) \in Nat  BY <1>12, FirstIs
      <4> QED BY <4>1, <4>2, <1>3, <1>5, <1>12, Rounds DEF HostRounds
    <3>4. landed[r] = done[a].RecvTrans.round + notify[a]
          => landed[r] = done'[a].RecvTrans.round + notify'[a]
      <4>1. done[a].RecvTrans.round \in Nat  BY <1>12, Rounds
      <4> QED BY <4>1, <1>7, <1>10
    <3> QED BY <2>0, <2>2, <3>1, <3>3, <3>4, <1>1, <1>8, <1>10 DEF PairAt, PairOK, Same, Ahead, Behind
  <2> QED BY <2>1, <2>2
<1>15. ASSUME NEW r \in RanksOf(m)
       PROVE  /\ post'[r].SendCopy = post[r].SendCopy /\ post'[r].RecvRedCopy = post[r].RecvRedCopy
              /\ done'[r].SendCopy = done[r].SendCopy /\ done'[r].RecvRedCopy = done[r].RecvRedCopy
  BY <1>3, <1>4, <1>7, <1>8
<1>16. ASSUME NEW r \in RanksOf(m) PROVE FlagsAt(m, r)'
  BY <1>1, <1>15, ControlAt DEF FlagsAt
<1>17. ASSUME NEW r \in RanksOf(m), NEW b \in BlocksOf(m) PROVE BlockAt(m, r, b)'
  BY <1>1, <1>15, ControlAt DEF BlockAt
<1>18. Control(m)'  BY <1>13, <1>14, <1>16, <1>17 DEF Control
<1>19. Content(m)'  BY <1>1, ContentFrame
<1> QED BY <1>1, <1>11, <1>18, <1>19

\* Posting a reduction: its chunk is flushed, and the chunk of tmpSendBuf it forwards to is free.
LEMMA RecvRedCopyPostStep ==
    ASSUME NEW m \in Modes, mode = m, Types(m), Control(m), Content(m),
           NEW a \in RanksOf(m), RecvRedCopyPost(a)
    PROVE  mode' = m /\ Types(m)' /\ Control(m)' /\ Content(m)'
<1> DEFINE x == post[a].RecvRedCopy
<1> DEFINE l == LeftOf(m, a)
<1> DEFINE F == First(m, a, offset[a])
<1>1. /\ UNCHANGED <<mode, host, partition, offset, done, started, completed, block, data, tmpSend,
                     tmpRecv, wire, arrived, landed, notify, sync>>
      /\ OpReadyToPost(a, "RecvRedCopy") /\ OpUpdatePost(a, "RecvRedCopy")
      /\ PostKernel(a, "RecvRedCopy")
      /\ IsRecvFwd(x.step) => TmpSendFree(a, FwdRound(a, offset[a], x.round))
  BY DEF RecvRedCopyPost, partVars, bufferVars, netVars
<1>2. "RecvRedCopy" \in Ops /\ "RecvRedCopy" \in KernelOps /\ "SendTrans" \in Ops
  BY DEF Ops, KernelOps
<1>3. /\ post' \in [RanksOf(m) -> [Ops -> Counter]]
      /\ \A r \in RanksOf(m) : r # a => post'[r] = post[r]
      /\ Counters(m, a, offset[a], post'[a])
      /\ post'[a].RecvRedCopy.round = x.round + 1
      /\ \A i \in Ops : i # "RecvRedCopy" => post'[a][i] = post[a][i]
      /\ host[a] = "running"
      /\ x.round < ReadyRounds(a, "RecvRedCopy")
  BY <1>1, <1>2, PostStep
<1>4. /\ post'[a].SendCopy = post[a].SendCopy /\ post'[a].SendTrans = post[a].SendTrans
      /\ post'[a].RecvTrans = post[a].RecvTrans /\ post'[a].RecvFlush = post[a].RecvFlush
  BY <1>3 DEF Ops, KernelOps
<1>5. /\ post[a] \in [Ops -> Counter] /\ done[a] \in [Ops -> Counter] /\ Good(m, offset[a])
      /\ HostRounds(m, a, host[a], offset[a], post[a], done[a], landed[a], sync[a])
      /\ Counters(m, a, offset[a], post[a]) /\ Counters(m, a, offset[a], done[a])
  BY HostFacts
<1>6. x.round < done[a].RecvFlush.round  BY <1>3 DEF ReadyRounds
<1>7. F \in Nat /\ F = CountChunks(offset[a], a)  BY <1>5, FirstIs, ModeIs
<1>8. x.round \in Nat /\ done[a].SendTrans.round \in Nat  BY <1>5, Rounds
\* The first step's chunks are copied.
<1>9. done[a].SendCopy.round = F
  <2>1. post[a].SendTrans.step # 0  BY <1>1 DEF OpReadyToPost
  <2>2. Valid(m, a, offset[a], post[a].SendTrans)  BY <1>2, <1>5, OriginFacts DEF Counters
  <2>3. post[a].SendTrans.round >= F
    <3>1. post[a].SendTrans.step \in 0 .. Steps(m)
          /\ (post[a].SendTrans.step >= 1 <=> post[a].SendTrans.round >= F)
      BY <2>2, <1>5, CounterFacts
    <3> QED BY <2>1, <3>1
  <2>4. done[a].SendCopy.round <= F
    <3>1. "SendCopy" \in Ops  BY DEF Ops, KernelOps
    <3> QED BY <3>1, <1>5 DEF Counters, Bound
  <2> QED BY <2>3, <2>4, <1>5, <1>7, Rounds DEF HostRounds
\* A round to forward has its chunk of tmpSend.
<1>10. Window(m, a, offset[a], x.round + 1, done[a].SendTrans.round)
  <2>1. Window(m, a, offset[a], x.round, done[a].SendTrans.round)  BY <1>5 DEF HostRounds
  <2> SUFFICES ASSUME NEW R \in Nat, R < x.round + 1, R < Start(m, l, offset[a], Steps(m) - 1)
               PROVE  F + R < done[a].SendTrans.round + m.numChunks
    BY DEF Window
  <2>2. CASE R < x.round  BY <2>1, <2>2 DEF Window
  <2>3. CASE R = x.round
    <3>1. Valid(m, l, offset[a], x)  BY <1>2, <1>5, OriginFacts DEF Counters
    <3>2. Steps(m) - 1 \in 0 .. Steps(m) /\ NumSteps = Steps(m)  BY ModeFacts, ModeIs
    <3>3. l \in RanksOf(m)  BY NeighbourFacts
    <3>4. ~ (x.step >= Steps(m) - 1) /\ x.step \in 0 .. Steps(m)
      <4>1. /\ x.step \in 0 .. Steps(m)
            /\ x.step >= Steps(m) - 1 <=> x.round >= Start(m, l, offset[a], Steps(m) - 1)
        <5> HIDE DEF x, l
        <5> QED BY <3>1, <3>2, <3>3, <1>5, CounterFacts
      <4>2. Start(m, l, offset[a], Steps(m) - 1) \in Nat  BY <3>2, <3>3, <1>5, StartFacts
      <4> HIDE DEF l, x
      <4> QED BY <2>3, <4>1, <4>2, <1>8
    <3>5. IsRecvFwd(x.step)  BY <3>2, <3>4, ModeFacts DEF IsRecvFwd
    <3>6. TmpSendFree(a, F + x.round)  BY <3>5, <1>1, <1>7 DEF FwdRound
    <3> HIDE DEF F, x
    <3> QED BY <2>3, <3>6, <1>7, <1>8, ModeFacts DEF TmpSendFree
  <2> QED BY <2>2, <2>3, <1>8
<1>11. /\ posted' \in [RanksOf(m) -> [KernelOps -> Int]]
       /\ \A r \in RanksOf(m) : r # a => posted'[r] = posted[r]
       /\ posted'[a]["RecvRedCopy"] = x.round
       /\ \A j \in KernelOps : j # "RecvRedCopy" => posted'[a][j] = posted[a][j]
  <2>1. posted \in [RanksOf(m) -> [KernelOps -> Int]]  BY DEF Types, FlagTypes
  <2>2. posted' = [posted EXCEPT ![a]["RecvRedCopy"] = x.round]
    BY <1>1 DEF PostKernel
  <2>3. x.round \in Int  BY <1>8
  <2> HIDE DEF KernelOps, x
  <2> QED BY <1>2, <2>1, <2>2, <2>3, Update2
<1>12. posted'[a]["SendCopy"] = posted[a]["SendCopy"]  BY <1>11 DEF KernelOps
<1>13. Types(m)'
  BY <1>1, <1>3, <1>11 DEF Types, HostTypes, FlagTypes, BlockTypes, DataTypes, NetTypes
<1>14. ASSUME NEW r \in RanksOf(m) PROVE HostAt(m, r)'
  <2>1. CASE r # a  BY <2>1, <1>1, <1>3, ControlAt DEF HostAt
  <2>2. CASE r = a
    <3>1. HostRounds(m, a, host[a], offset[a], post'[a], done[a], landed[a], sync[a])
      <4>1. Window(m, a, offset[a], post'[a].RecvRedCopy.round, done[a].SendTrans.round)
        BY <1>3, <1>10
      <4> QED BY <4>1, <1>3, <1>4, <1>5, <1>6, <1>9, Rounds DEF HostRounds
    <3> QED BY <2>2, <3>1, <1>1, <1>3, HostFacts DEF HostAt, HostOK
  <2> QED BY <2>1, <2>2
<1>15. ASSUME NEW r \in RanksOf(m) PROVE PairAt(m, r)'
  <2>1. post'[r].SendTrans = post[r].SendTrans  BY <1>3, <1>4
  <2> QED BY <2>1, <1>1, ControlAt DEF PairAt
<1>16. ASSUME NEW r \in RanksOf(m) PROVE FlagsAt(m, r)'
  <2>1. CASE r # a  BY <2>1, <1>1, <1>3, <1>11, ControlAt DEF FlagsAt
  <2>2. CASE r = a
    <3>1. FlagsAt(m, a)  BY ControlAt
    <3> QED BY <2>2, <3>1, <1>1, <1>3, <1>4, <1>8, <1>11, <1>12 DEF FlagsAt, FlagsOK
  <2> QED BY <2>1, <2>2
<1>17. ASSUME NEW r \in RanksOf(m), NEW b \in BlocksOf(m) PROVE BlockAt(m, r, b)'
  <2>1. CASE r # a  BY <2>1, <1>1, <1>3, ControlAt DEF BlockAt
  <2>2. CASE r = a
    <3>1. BlockAt(m, a, b)  BY ControlAt
    <3>2. block[a][b].RecvRedCopy.round <= post[a].RecvRedCopy.round
          => block[a][b].RecvRedCopy.round <= post'[a].RecvRedCopy.round
      <4>1. block[a][b].RecvRedCopy.round \in Nat
        BY DEF Types, BlockTypes, BlockRec, Counter
      <4> QED BY <4>1, <1>3, <1>8
    <3> QED BY <2>2, <3>1, <3>2, <1>1, <1>4 DEF BlockAt, BlockOK, SameBlock
  <2> QED BY <2>1, <2>2
<1>18. Control(m)'  BY <1>14, <1>15, <1>16, <1>17 DEF Control
<1>19. Content(m)'  BY <1>1, ContentFrame
<1> QED BY <1>1, <1>13, <1>18, <1>19

\* Finding a reduction complete, and syncing its chunk back to the left neighbour.
LEMMA RecvRedCopyDoneStep ==
    ASSUME NEW m \in Modes, mode = m, Types(m), Control(m), Content(m),
           NEW a \in RanksOf(m), RecvRedCopyDone(a)
    PROVE  mode' = m /\ Types(m)' /\ Control(m)' /\ Content(m)'
<1> DEFINE l == LeftOf(m, a)
<1>0. l \in RanksOf(m) /\ l # a /\ RightOf(m, l) = a  BY NeighbourFacts
<1>1. /\ UNCHANGED <<mode, host, partition, offset, post, posted, started, completed, block, data,
                     tmpSend, tmpRecv, wire, arrived, landed, notify>>
      /\ OpHasPosted(a, "RecvRedCopy") /\ OpUpdateDone(a, "RecvRedCopy")
      /\ IsComplete(a, "RecvRedCopy", done[a].RecvRedCopy.round)
      /\ sync' = [sync EXCEPT ![l] = @ + 1]
  BY ModeIs DEF RecvRedCopyDone, partVars, flagVars, bufferVars
<1>2. "RecvRedCopy" \in Ops  BY DEF Ops, KernelOps
<1>3. /\ host[a] = "running" /\ done[a].RecvRedCopy.round < post[a].RecvRedCopy.round
      /\ done[a].RecvRedCopy.round < Bound(m, a, offset[a], "RecvRedCopy")
  BY <1>1, <1>2, HasPosted
<1>4. /\ done' \in [RanksOf(m) -> [Ops -> Counter]]
      /\ \A r \in RanksOf(m) : r # a => done'[r] = done[r]
      /\ Counters(m, a, offset[a], done'[a])
      /\ done'[a].RecvRedCopy.round = done[a].RecvRedCopy.round + 1
      /\ \A i \in Ops : i # "RecvRedCopy" => done'[a][i] = done[a][i]
  BY <1>1, <1>2, <1>3, DoneStep
<1>5. /\ done'[a].SendCopy = done[a].SendCopy /\ done'[a].SendTrans = done[a].SendTrans
      /\ done'[a].RecvTrans = done[a].RecvTrans /\ done'[a].RecvFlush = done[a].RecvFlush
  BY <1>4 DEF Ops, KernelOps
<1>6. done[a].RecvRedCopy.round < Total(m, l, offset[a])
  BY <1>3, OriginFacts DEF Bound
<1>7. /\ post[a] \in [Ops -> Counter] /\ done[a] \in [Ops -> Counter] /\ Good(m, offset[a])
      /\ HostRounds(m, a, host[a], offset[a], post[a], done[a], landed[a], sync[a])
  BY HostFacts
<1>8. sync \in [RanksOf(m) -> Nat]  BY DEF Types, NetTypes
<1>9. /\ sync' \in [RanksOf(m) -> Nat] /\ sync'[l] = sync[l] + 1 /\ sync[l] \in Nat
      /\ \A r \in RanksOf(m) : r # l => sync'[r] = sync[r]
  BY <1>0, <1>1, <1>8
<1>10. Types(m)'
  BY <1>1, <1>4, <1>9 DEF Types, HostTypes, FlagTypes, BlockTypes, DataTypes, NetTypes
\* The left neighbour waits for this partition's messages.
<1>11. Same(host[l], partition[l], partition[a], offset[l], offset[a], sync[l], landed[l],
            arrived[a], notify[a], done[a].RecvTrans.round, done[a].RecvFlush.round,
            done[a].RecvRedCopy.round)
  <2>1. PairAt(m, l)  BY <1>0, ControlAt
  <2>2. done[a].RecvRedCopy.round # Total(m, l, offset[a])
    <3>1. Total(m, l, offset[a]) \in Nat  BY <1>0, <1>7, FirstIs
    <3> QED BY <3>1, <1>6, <1>7, Rounds
  <2>3. done[a].RecvTrans.round # 0  BY <1>3, <1>7, Rounds DEF HostRounds
  <2> HIDE DEF l
  <2> QED BY <2>1, <2>2, <2>3, <1>0 DEF PairAt, PairOK, Ahead, Behind
<1>12. ASSUME NEW r \in RanksOf(m) PROVE HostAt(m, r)'
  <2>1. CASE r = a
    <3>1. sync'[a] = sync[a]  BY <1>0, <1>9
    <3>2. HostRounds(m, a, host[a], offset[a], post[a], done'[a], landed[a], sync[a])
      BY <1>3, <1>4, <1>5, <1>7, Rounds DEF HostRounds
    <3> QED BY <2>1, <3>1, <3>2, <1>1, <1>4, HostFacts DEF HostAt, HostOK
  <2>2. CASE r = l
    <3>1. HostRounds(m, l, host[l], offset[l], post[l], done[l], landed[l], sync[l])
      BY <1>0, HostFacts
    <3>2. host[l] # "done"  BY <1>11 DEF Same
    <3>3. post[l] \in [Ops -> Counter] /\ done[l] \in [Ops -> Counter]  BY <1>0, HostFacts
    <3>4. m.numChunks \in Nat  BY ModeFacts
    <3> HIDE DEF l
    <3>5. HostRounds(m, l, host[l], offset[l], post[l], done[l], landed[l], sync'[l])
      BY <3>1, <3>2, <3>3, <3>4, <1>9, Rounds DEF HostRounds
    <3>6. HostAt(m, l) /\ done'[l] = done[l]  BY <1>0, <1>4, ControlAt
    <3> QED BY <2>2, <3>5, <3>6, <1>1 DEF HostAt, HostOK
  <2>3. CASE r # a /\ r # l  BY <2>3, <1>1, <1>4, <1>9, ControlAt DEF HostAt
  <2> QED BY <2>1, <2>2, <2>3
<1>13. ASSUME NEW r \in RanksOf(m) PROVE PairAt(m, r)'
  <2>1. CASE r = l
    <3>1. PairAt(m, l)  BY <1>0, ControlAt
    <3>2. sync'[l] = done'[a].RecvRedCopy.round  BY <1>4, <1>9, <1>11 DEF Same
    <3> HIDE DEF l
    <3> QED BY <2>1, <3>1, <3>2, <1>0, <1>1, <1>5, <1>11 DEF PairAt, PairOK, Same
  <2>2. CASE r # l
    <3>1. RightOf(m, r) # a /\ RightOf(m, r) \in RanksOf(m)  BY <2>2, OtherRight
    <3>2. done'[RightOf(m, r)] = done[RightOf(m, r)] /\ sync'[r] = sync[r]
      BY <2>2, <3>1, <1>4, <1>9
    <3> QED BY <3>2, <1>1, ControlAt DEF PairAt
  <2> QED BY <2>1, <2>2
<1>14. ASSUME NEW r \in RanksOf(m) PROVE FlagsAt(m, r)'
  BY <1>1, ControlAt DEF FlagsAt
<1>15. ASSUME NEW r \in RanksOf(m), NEW b \in BlocksOf(m) PROVE BlockAt(m, r, b)'
  <2>1. CASE r # a  BY <2>1, <1>1, <1>4, ControlAt DEF BlockAt
  <2>2. CASE r = a
    <3>1. BlockAt(m, a, b)  BY ControlAt
    <3>2. done[a].RecvRedCopy.round <= completed[a]["RecvRedCopy"][b]
      BY <1>1, ModeIs DEF IsComplete, BlocksOf
    <3>3. done[a].RecvRedCopy.round \in Nat /\ block[a][b].RecvRedCopy.round \in Nat
      BY HostFacts, Rounds DEF Types, BlockTypes, BlockRec, Counter
    <3>4. ~ BehindBlock(m, a, host[a], partition[a], offset[a], block[a][b],
              completed[a]["SendCopy"][b], completed[a]["RecvRedCopy"][b],
              done[a].SendCopy.round, done[a].RecvRedCopy.round)
      BY <3>2, <3>3 DEF BehindBlock, kUnset
    <3>5. SameBlock(m, a, host[a], partition[a], offset[a], block[a][b],
              completed[a]["SendCopy"][b], completed[a]["RecvRedCopy"][b],
              post[a].SendCopy.round, post[a].RecvRedCopy.round,
              done[a].SendCopy.round, done[a].RecvRedCopy.round)
      BY <3>1, <3>4 DEF BlockAt, BlockOK
    <3>6. done'[a].RecvRedCopy.round <= block[a][b].RecvRedCopy.round
      BY <3>2, <3>3, <3>5, <1>3, <1>4 DEF SameBlock
    <3>7. SameBlock(m, a, host[a], partition[a], offset[a], block[a][b],
              completed[a]["SendCopy"][b], completed[a]["RecvRedCopy"][b],
              post[a].SendCopy.round, post[a].RecvRedCopy.round,
              done'[a].SendCopy.round, done'[a].RecvRedCopy.round)
      BY <3>5, <3>6, <1>5 DEF SameBlock
    <3> QED BY <2>2, <3>7, <1>1 DEF BlockAt, BlockOK
  <2> QED BY <2>1, <2>2
<1>16. Control(m)'  BY <1>12, <1>13, <1>14, <1>15 DEF Control
<1>17. ASSUME NEW r \in RanksOf(m)
       PROVE  SendAt(m, r)' /\ WireAt(m, r)' /\ ArrivedAt(m, r)' /\ SeenAt(m, r)' /\ DataAt(m, r)'
  <2>1. SendAt(m, r) /\ WireAt(m, r) /\ ArrivedAt(m, r) /\ SeenAt(m, r) /\ DataAt(m, r)
    BY DEF Content
  <2>2. SendAt(m, r)'  BY <2>1, <1>1 DEF SendAt
  <2>3. WireAt(m, r)'  BY <2>1, <1>1 DEF WireAt
  <2>4. ArrivedAt(m, r)'  BY <2>1, <1>1 DEF ArrivedAt
  <2>5. SeenAt(m, r)'
    <3>1. sync[r] \in Nat /\ sync'[r] \in Nat /\ sync[r] <= sync'[r]  BY <1>0, <1>8, <1>9
    <3>2. Good(m, offset[r])  BY HostFacts
    <3>3. \A s \in 0 .. Steps(m) - 1 : \A R \in RoundsOf(m, r, offset[r], s) : R \in Nat
      BY <3>2, ChunkFacts
    <3>4. \A s \in 0 .. Steps(m) - 1 : \A R \in RoundsOf(m, r, offset[r], s) :
             sync'[r] <= R => sync[r] <= R
      BY <3>1, <3>3
    <3>5. SeenOK(m, r, offset[r], sync[r], landed[r] - Len(arrived[RightOf(m, r)]),
                 tmpRecv[RightOf(m, r)])
      BY <2>1 DEF SeenAt
    <3>6. SeenOK(m, r, offset[r], sync'[r], landed[r] - Len(arrived[RightOf(m, r)]),
                 tmpRecv[RightOf(m, r)])
      BY <3>4, <3>5 DEF SeenOK
    <3> QED BY <3>6, <1>1 DEF SeenAt
  <2>6. DataAt(m, r)'  BY <2>1, <1>1 DEF DataAt
  <2> QED BY <2>2, <2>3, <2>4, <2>5, <2>6
<1>18. Content(m)'  BY <1>17 DEF Content
<1> QED BY <1>1, <1>10, <1>16, <1>18

-----------------------------------------------------------------------------
(* The end of a partition.                                                 *)

\* What the host of a rank has counted, it counted in the order of the operations.
LEMMA RecvOrder ==
    ASSUME NEW m \in Modes, Types(m), Control(m), NEW q \in RanksOf(m)
    PROVE  /\ done[q].RecvRedCopy.round <= done[q].RecvFlush.round
           /\ done[q].RecvFlush.round <= done[q].RecvTrans.round
           /\ done[q].RecvTrans.round <= Total(m, LeftOf(m, q), offset[q])
           /\ done[q].RecvRedCopy.round \in Nat /\ done[q].RecvFlush.round \in Nat
           /\ done[q].RecvTrans.round \in Nat /\ Total(m, LeftOf(m, q), offset[q]) \in Nat
<1>1. /\ post[q] \in [Ops -> Counter] /\ done[q] \in [Ops -> Counter] /\ Good(m, offset[q])
      /\ HostRounds(m, q, host[q], offset[q], post[q], done[q], landed[q], sync[q])
      /\ Counters(m, q, offset[q], done[q])
  BY HostFacts
<1>2. done[q].RecvTrans.round <= Total(m, LeftOf(m, q), offset[q])
  <2>1. "RecvTrans" \in Ops  BY DEF Ops, KernelOps
  <2> QED BY <2>1, <1>1, OriginFacts DEF Counters, Bound
<1>3. Total(m, LeftOf(m, q), offset[q]) \in Nat  BY <1>1, FirstIs, NeighbourFacts
<1>4. /\ done[q].RecvRedCopy.round <= done[q].RecvFlush.round
      /\ done[q].RecvFlush.round <= done[q].RecvTrans.round
  BY <1>1, Rounds DEF HostRounds
<1> QED BY <1>1, <1>2, <1>3, <1>4, Rounds

\* The empty queue.
LEMMA EmptySeq ==
    ASSUME NEW S, NEW s \in Seq(S)
    PROVE  Len(s) \in Nat /\ (Len(s) = 0 => s = << >>)
OBVIOUS

\* When all rounds are reduced nothing is under way.
LEMMA Squeeze ==
    ASSUME NEW T \in Nat, NEW rt \in Nat, NEW rf \in Nat, NEW rr \in Nat, NEW la \in Nat, NEW no \in Nat,
           NEW W \in Nat, NEW A \in Nat,
           rr = T, rr <= rf, rf <= rt, la = rt + no, rf <= la - A, la + W <= T
    PROVE  la = T /\ W = 0 /\ A = 0 /\ no = 0
OBVIOUS

\* The host of a rank is through with its partition.
Through(a) ==
    /\ Running(a)
    /\ AllRounds("SendTrans", done[a].SendTrans)
    /\ AllRounds("RecvRedCopy", done[a].RecvRedCopy)
    /\ AllSynced(a)

\* Then all its counters are at their ends.
LEMMA ThroughFacts ==
    ASSUME NEW m \in Modes, mode = m, Types(m), Control(m), NEW a \in RanksOf(m), Through(a)
    PROVE  /\ host[a] = "running"
           /\ done[a].SendTrans.round = Total(m, a, offset[a])
           /\ post[a].SendTrans.round = Total(m, a, offset[a])
           /\ sync[a] = Total(m, a, offset[a])
           /\ done[a].RecvRedCopy.round = Total(m, LeftOf(m, a), offset[a])
           /\ done[a].RecvTrans.round = Total(m, LeftOf(m, a), offset[a])
           /\ done[a].SendCopy.round = First(m, a, offset[a])
           /\ Total(m, a, offset[a]) \in Nat \ {0}
           /\ Total(m, LeftOf(m, a), offset[a]) \in Nat \ {0}
<1>1. /\ post[a] \in [Ops -> Counter] /\ done[a] \in [Ops -> Counter] /\ Good(m, offset[a])
      /\ HostRounds(m, a, host[a], offset[a], post[a], done[a], landed[a], sync[a])
      /\ Counters(m, a, offset[a], post[a]) /\ Counters(m, a, offset[a], done[a])
  BY HostFacts
<1>2. LeftOf(m, a) \in RanksOf(m)  BY NeighbourFacts
<1>3. /\ Total(m, a, offset[a]) \in Nat \ {0} /\ Total(m, LeftOf(m, a), offset[a]) \in Nat \ {0}
  BY <1>1, <1>2, FirstIs
<1>4. "SendTrans" \in Ops /\ "RecvRedCopy" \in Ops  BY DEF Ops, KernelOps
<1>5. /\ Bound(m, a, offset[a], "SendTrans") = Total(m, a, offset[a])
      /\ Bound(m, a, offset[a], "RecvRedCopy") = Total(m, LeftOf(m, a), offset[a])
  BY OriginFacts DEF Bound
<1>6. done[a].SendTrans.round = Total(m, a, offset[a])
  <2>1. Valid(m, Origin(m, a, "SendTrans"), offset[a], done[a].SendTrans)
        /\ done[a].SendTrans.round <= Bound(m, a, offset[a], "SendTrans")
    BY <1>1, <1>4 DEF Counters
  <2>2. AllRounds("SendTrans", done[a].SendTrans)  BY DEF Through
  <2> QED BY <2>1, <2>2, <1>1, <1>5, AllRoundsIs
<1>7. done[a].RecvRedCopy.round = Total(m, LeftOf(m, a), offset[a])
  <2>1. Valid(m, Origin(m, a, "RecvRedCopy"), offset[a], done[a].RecvRedCopy)
        /\ done[a].RecvRedCopy.round <= Bound(m, a, offset[a], "RecvRedCopy")
    BY <1>1, <1>4 DEF Counters
  <2>2. AllRounds("RecvRedCopy", done[a].RecvRedCopy)  BY DEF Through
  <2> QED BY <2>1, <2>2, <1>1, <1>5, AllRoundsIs
<1>8. post[a].SendTrans.round = Total(m, a, offset[a])
  <2>1. post[a].SendTrans.round <= Total(m, a, offset[a])  BY <1>1, <1>4, <1>5 DEF Counters
  <2>2. done[a].SendTrans.round <= post[a].SendTrans.round  BY <1>1 DEF HostRounds
  <2> QED BY <2>1, <2>2, <1>1, <1>3, <1>6, Rounds
<1>9. sync[a] = Total(m, a, offset[a]) /\ host[a] = "running"
  BY <1>8 DEF Through, AllSynced, Running
<1>10. done[a].SendCopy.round = First(m, a, offset[a])
  BY <1>1, <1>3, <1>7, Rounds DEF HostRounds
<1>11. done[a].RecvTrans.round = Total(m, LeftOf(m, a), offset[a])
  BY <1>7, RecvOrder
<1> QED BY <1>3, <1>6, <1>7, <1>8, <1>9, <1>10, <1>11

\* Then its puts have arrived, its right neighbour has reduced them, or is ahead, and the
\* blocks are through too.
LEMMA ThroughRight ==
    ASSUME NEW m \in Modes, mode = m, Types(m), Control(m), NEW a \in RanksOf(m), Through(a)
    PROVE  LET q == RightOf(m, a)
           IN /\ landed[a] = Total(m, a, offset[a])
              /\ wire[a] = << >> /\ arrived[q] = << >> /\ notify[q] = 0
              /\ \/ /\ partition[q] = partition[a] /\ offset[q] = offset[a]
                    /\ done[q].RecvRedCopy.round = Total(m, a, offset[q])
                 \/ /\ partition[q] = partition[a] + 1
                    /\ offset[q] = offset[a] + PartLen(m, offset[a])
                    /\ done[q].RecvTrans.round = 0 /\ done[q].RecvFlush.round = 0
                    /\ done[q].RecvRedCopy.round = 0
<1> DEFINE q == RightOf(m, a)
<1> DEFINE T == Total(m, a, offset[a])
<1>1. q \in RanksOf(m) /\ LeftOf(m, q) = a  BY NeighbourFacts
<1>2. PairAt(m, a)  BY ControlAt
<1>3. /\ host[a] = "running" /\ post[a].SendTrans.round = T /\ sync[a] = T /\ T \in Nat \ {0}
  BY ThroughFacts
<1>4. /\ done[q].RecvRedCopy.round <= done[q].RecvFlush.round
      /\ done[q].RecvFlush.round <= done[q].RecvTrans.round
      /\ done[q].RecvTrans.round <= Total(m, a, offset[q])
      /\ done[q].RecvRedCopy.round \in Nat /\ done[q].RecvFlush.round \in Nat
      /\ done[q].RecvTrans.round \in Nat
  BY <1>1, RecvOrder
<1> DEFINE W == Len(wire[a])
<1> DEFINE A == Len(arrived[q])
<1>5. /\ W \in Nat /\ (W = 0 => wire[a] = << >>) /\ A \in Nat /\ (A = 0 => arrived[q] = << >>)
      /\ (arrived[q] = << >> => A = 0)
  <2>1. wire[a] \in Seq(Put(m)) /\ arrived[q] \in Seq(Arrival(m))  BY <1>1 DEF Types, NetTypes
  <2> QED BY <2>1, EmptySeq
<1>6. landed[a] \in Nat /\ notify[q] \in Nat  BY <1>1, HostFacts
<1>7. landed[a] + W = T /\ A <= landed[a]  BY <1>2, <1>3 DEF PairAt, PairOK
<1>8. CASE Same(host[a], partition[a], partition[q], offset[a], offset[q], sync[a], landed[a],
                arrived[q], notify[q], done[q].RecvTrans.round, done[q].RecvFlush.round,
                done[q].RecvRedCopy.round)
  <2>1. /\ partition[a] = partition[q] /\ offset[a] = offset[q]
        /\ T = done[q].RecvRedCopy.round
        /\ landed[a] = done[q].RecvTrans.round + notify[q]
        /\ done[q].RecvFlush.round <= landed[a] - A
    BY <1>3, <1>8 DEF Same
  <2>2. done[q].RecvTrans.round <= T  BY <2>1, <1>4
  <2> HIDE DEF q, T, W, A
  <2>3. landed[a] = T /\ W = 0 /\ A = 0 /\ notify[q] = 0
    <3>1. landed[a] + W <= T  BY <1>3, <1>5, <1>6, <1>7
    <3>2. done[q].RecvRedCopy.round = T  BY <2>1
    <3>3. T \in Nat  BY <1>3
    <3> QED BY <3>1, <3>2, <3>3, <2>1, <1>4, <1>5, <1>6, Squeeze
  <2> QED BY <2>1, <2>3, <1>5 DEF q, T
<1>9. CASE Behind(m, a, host[a], partition[a], partition[q], offset[a], offset[q], sync[a], landed[a],
                  arrived[q], notify[q], post[a].SendTrans.round, done[q].RecvTrans.round)
  <2>1. /\ partition[q] = partition[a] + 1 /\ offset[q] = offset[a] + PartLen(m, offset[a])
        /\ done[q].RecvTrans.round = 0 /\ landed[a] = T /\ arrived[q] = << >> /\ notify[q] = 0
    BY <1>9 DEF Behind
  <2> HIDE DEF q, T, W, A
  <2>2. W = 0 /\ done[q].RecvFlush.round = 0 /\ done[q].RecvRedCopy.round = 0
    BY <2>1, <1>3, <1>4, <1>5, <1>6, <1>7
  <2> QED BY <2>1, <2>2, <1>5 DEF q, T
<1>10. ~ Ahead(m, a, host[a], partition[a], partition[q], offset[a], offset[q], sync[a], landed[a],
               wire[a], arrived[q], notify[q], done[q].RecvRedCopy.round)
  BY <1>3 DEF Ahead
<1> HIDE DEF T, W, A
<1> QED BY <1>2, <1>8, <1>9, <1>10 DEF PairAt, PairOK

\* Its left neighbour has put everything, or has begun the next partition, or is done.
LEMMA ThroughLeft ==
    ASSUME NEW m \in Modes, mode = m, Types(m), Control(m), NEW a \in RanksOf(m), Through(a)
    PROVE  LET l == LeftOf(m, a)
           IN \/ /\ host[l] # "done" /\ partition[a] = partition[l] /\ offset[a] = offset[l]
                 /\ landed[l] = Total(m, l, offset[l]) /\ sync[l] = landed[l]
                 /\ post[l].SendTrans.round = landed[l]
                 /\ arrived[a] = << >> /\ notify[a] = 0
              \/ /\ host[l] # "done" /\ partition[l] = partition[a] + 1
                 /\ offset[l] = offset[a] + PartLen(m, offset[a])
                 /\ sync[l] = 0 /\ notify[a] = landed[l]
              \/ /\ host[l] = "done" /\ offset[a] + PartLen(m, offset[a]) = m.numElements
<1> DEFINE l == LeftOf(m, a)
<1> DEFINE T == Total(m, l, offset[a])
<1>1. l \in RanksOf(m) /\ RightOf(m, l) = a  BY NeighbourFacts
<1>2. PairAt(m, l)  BY <1>1, ControlAt
<1>3. /\ done[a].RecvRedCopy.round = T /\ done[a].RecvTrans.round = T /\ T \in Nat \ {0}
  BY ThroughFacts
<1>4. /\ done[a].RecvRedCopy.round <= done[a].RecvFlush.round
      /\ done[a].RecvFlush.round <= done[a].RecvTrans.round
      /\ done[a].RecvFlush.round \in Nat
  BY RecvOrder
<1> DEFINE W == Len(wire[l])
<1> DEFINE A == Len(arrived[a])
<1>5. W \in Nat /\ A \in Nat /\ (A = 0 => arrived[a] = << >>)
  <2>1. wire[l] \in Seq(Put(m)) /\ arrived[a] \in Seq(Arrival(m))  BY <1>1 DEF Types, NetTypes
  <2> QED BY <2>1, EmptySeq
<1>6. landed[l] \in Nat /\ notify[a] \in Nat /\ post[l].SendTrans.round \in Nat
  BY <1>1, HostFacts, Rounds
<1>7. host[l] # "done" => landed[l] + W = post[l].SendTrans.round
  BY <1>1, <1>2 DEF PairAt, PairOK
<1>8. CASE Same(host[l], partition[l], partition[a], offset[l], offset[a], sync[l], landed[l],
                arrived[a], notify[a], done[a].RecvTrans.round, done[a].RecvFlush.round,
                done[a].RecvRedCopy.round)
  <2>1. /\ host[l] # "done" /\ partition[a] = partition[l] /\ offset[a] = offset[l]
        /\ sync[l] = T /\ landed[l] = T + notify[a]
        /\ done[a].RecvFlush.round <= landed[l] - A
    BY <1>3, <1>8 DEF Same
  <2>2. post[l].SendTrans.round <= T
    <3>1. "SendTrans" \in Ops  BY DEF Ops, KernelOps
    <3>2. post[l].SendTrans.round <= Bound(m, l, offset[l], "SendTrans")
      BY <1>1, <3>1, HostFacts DEF Counters
    <3>3. Bound(m, l, offset[l], "SendTrans") = Total(m, l, offset[l])
      BY <1>1, OriginFacts DEF Bound
    <3> QED BY <2>1, <3>2, <3>3
  <2>3. landed[l] + W = post[l].SendTrans.round  BY <2>1, <1>7
  <2> HIDE DEF l, T, W, A
  <2>4. landed[l] = T /\ A = 0 /\ notify[a] = 0 /\ post[l].SendTrans.round = T
    <3>1. landed[l] + W <= T  BY <2>2, <2>3
    <3>2. T \in Nat  BY <1>3
    <3>3. landed[l] = done[a].RecvTrans.round + notify[a]  BY <2>1, <1>3
    <3>4. done[a].RecvTrans.round \in Nat /\ done[a].RecvRedCopy.round \in Nat  BY <1>3
    <3>5. landed[l] = T /\ W = 0 /\ A = 0 /\ notify[a] = 0
      BY <3>1, <3>2, <3>3, <3>4, <2>1, <1>3, <1>4, <1>5, <1>6, Squeeze
    <3> QED BY <3>5, <2>3, <3>2
  <2>5. Total(m, l, offset[l]) = T  BY <2>1 DEF T
  <2> QED BY <2>1, <2>4, <2>5, <1>5 DEF l
<1>9. CASE Ahead(m, l, host[l], partition[l], partition[a], offset[l], offset[a], sync[l], landed[l],
                 wire[l], arrived[a], notify[a], done[a].RecvRedCopy.round)
  <2>1. CASE host[l] # "done"  BY <2>1, <1>9 DEF Ahead
  <2>2. CASE host[l] = "done"
    <3>1. offset[l] = offset[a]  BY <2>2, <1>9 DEF Ahead
    <3>2. HostRounds(m, l, host[l], offset[l], post[l], done[l], landed[l], sync[l])
      BY <1>1, HostFacts
    <3> QED BY <2>2, <3>1, <3>2 DEF HostRounds
  <2> QED BY <2>1, <2>2
<1>10. ~ Behind(m, l, host[l], partition[l], partition[a], offset[l], offset[a], sync[l], landed[l],
                arrived[a], notify[a], post[l].SendTrans.round, done[a].RecvTrans.round)
  BY <1>3 DEF Behind
<1> HIDE DEF T, W, A
<1> QED BY <1>1, <1>2, <1>8, <1>9, <1>10 DEF PairAt, PairOK

\* Its blocks have run everything.
LEMMA ThroughBlocks ==
    ASSUME NEW m \in Modes, mode = m, Types(m), Control(m), NEW a \in RanksOf(m), Through(a),
           NEW b \in BlocksOf(m)
    PROVE  /\ SameBlock(m, a, host[a], partition[a], offset[a], block[a][b],
                  completed[a]["SendCopy"][b], completed[a]["RecvRedCopy"][b],
                  post[a].SendCopy.round, post[a].RecvRedCopy.round,
                  done[a].SendCopy.round, done[a].RecvRedCopy.round)
           /\ block[a][b].SendCopy.round = First(m, a, offset[a])
           /\ block[a][b].RecvRedCopy.round = Total(m, LeftOf(m, a), offset[a])
<1>1. /\ done[a].RecvRedCopy.round = Total(m, LeftOf(m, a), offset[a])
      /\ done[a].SendCopy.round = First(m, a, offset[a])
      /\ Total(m, LeftOf(m, a), offset[a]) \in Nat \ {0}
  BY ThroughFacts
<1>2. BlockAt(m, a, b)  BY ControlAt
<1>3. SameBlock(m, a, host[a], partition[a], offset[a], block[a][b],
          completed[a]["SendCopy"][b], completed[a]["RecvRedCopy"][b],
          post[a].SendCopy.round, post[a].RecvRedCopy.round,
          done[a].SendCopy.round, done[a].RecvRedCopy.round)
  BY <1>1, <1>2 DEF BlockAt, BlockOK, BehindBlock
<1>4. Good(m, offset[a])  BY HostFacts
<1>5. /\ done[a].SendCopy.round <= block[a][b].SendCopy.round
      /\ block[a][b].SendCopy.round <= First(m, a, offset[a])
      /\ done[a].RecvRedCopy.round <= block[a][b].RecvRedCopy.round
      /\ Valid(m, LeftOf(m, a), offset[a], block[a][b].RecvRedCopy)
  BY <1>3 DEF SameBlock
<1>6. block[a][b].RecvRedCopy.round <= Total(m, LeftOf(m, a), offset[a])
  BY <1>4, <1>5, NeighbourFacts, CounterFacts
<1>7. /\ block[a][b].SendCopy.round \in Nat /\ block[a][b].RecvRedCopy.round \in Nat
      /\ First(m, a, offset[a]) \in Nat
  BY <1>4, FirstIs DEF Types, BlockTypes, BlockRec, Counter
<1> QED BY <1>1, <1>3, <1>5, <1>6, <1>7

\* The counters of a host that begins a partition.
LEMMA ZeroRounds ==
    ASSUME NEW m \in Modes, NEW r \in RanksOf(m), NEW p, Good(m, p)
    PROVE  /\ NoRounds \in [Ops -> Counter]
           /\ Counters(m, r, p, NoRounds)
           /\ NoRounds.SendCopy.round = 0 /\ NoRounds.SendTrans.round = 0
           /\ NoRounds.RecvTrans.round = 0 /\ NoRounds.RecvFlush.round = 0
           /\ NoRounds.RecvRedCopy.round = 0
           /\ HostOK(m, r, "running", p, NoRounds, NoRounds, 0, 0)
<1>1. RoundZero \in Counter /\ RoundZero.round = 0  BY DEF RoundZero, Counter
<1>2. NoRounds \in [Ops -> Counter]  BY <1>1 DEF NoRounds
<1>3. ASSUME NEW op \in Ops
      PROVE  /\ Valid(m, Origin(m, r, op), p, RoundZero)
             /\ RoundZero.round <= Bound(m, r, p, op)
  <2>1. Origin(m, r, op) \in RanksOf(m)  BY OriginFacts
  <2>2. Valid(m, Origin(m, r, op), p, RoundZero)  BY <2>1, ZeroValid
  <2>3. First(m, r, p) \in Nat /\ Total(m, Origin(m, r, op), p) \in Nat  BY <2>1, FirstIs
  <2> QED BY <2>2, <2>3, <1>1 DEF Bound
<1>4. Counters(m, r, p, NoRounds)  BY <1>3 DEF Counters, NoRounds
<1>5. /\ NoRounds.SendCopy.round = 0 /\ NoRounds.SendTrans.round = 0
      /\ NoRounds.RecvTrans.round = 0 /\ NoRounds.RecvFlush.round = 0
      /\ NoRounds.RecvRedCopy.round = 0
  BY <1>1 DEF NoRounds, Ops, KernelOps
<1>6. HostRounds(m, r, "running", p, NoRounds, NoRounds, 0, 0)
  <2>1. Window(m, r, p, 0, 0)  BY DEF Window
  <2> QED BY <2>1, <1>5, ModeFacts DEF HostRounds
<1> QED BY <1>2, <1>4, <1>5, <1>6 DEF HostOK

\* The data of a rank that is through with its partition: complete up to its end, untouched
\* beyond.
LEMMA ThroughData ==
    ASSUME NEW m \in Modes, mode = m, Types(m), Control(m), Content(m), NEW a \in RanksOf(m), Through(a),
           NEW e \in ElementsOf(m)
    PROVE  /\ e < offset[a] + PartLen(m, offset[a]) => data[a][e] = AllOf(m, e)
           /\ e >= offset[a] + PartLen(m, offset[a]) => data[a][e] = {<<a, e>>}
<1> DEFINE p == offset[a]
<1> DEFINE l == LeftOf(m, a)
<1>1. Good(m, p) /\ l \in RanksOf(m) /\ p \in Nat /\ e \in Nat /\ PartLen(m, p) \in Nat
  <2>1. Good(m, p) /\ l \in RanksOf(m) /\ p \in Nat  BY HostFacts, NeighbourFacts
  <2>2. PartLen(m, p) \in Nat  BY <2>1, PartFacts
  <2>3. e \in Nat  BY ModeFacts DEF ElementsOf
  <2> QED BY <2>1, <2>2, <2>3
<1>2. host[a] = "running"  BY ThroughFacts
<1>3. DataRest(m, a, p, data[a]) /\ DataPart(m, a, partition[a], p, block[a], data[a])
  BY <1>2 DEF Content, DataAt, DataOK
<1>4. CASE e < p  BY <1>4, <1>3, <1>1 DEF DataRest
<1>5. CASE e >= p + PartLen(m, p)  BY <1>5, <1>3, <1>1 DEF DataRest
<1>6. CASE p <= e /\ e < p + PartLen(m, p)
  <2>a. PICK s \in m.nRanks - 2 .. Steps(m) - 1 :
          \E R \in RoundsOf(m, l, p, s) : \E k \in 0 .. Numel(m, l, p, s, R) - 1 :
             e = Elem(m, l, p, s, R) + k
    BY <1>1, <1>6, ChunksCover
  <2>b. PICK R \in RoundsOf(m, l, p, s) :
          \E k \in 0 .. Numel(m, l, p, s, R) - 1 : e = Elem(m, l, p, s, R) + k
    BY <2>a
  <2>1. PICK k \in 0 .. Numel(m, l, p, s, R) - 1 : e = Elem(m, l, p, s, R) + k
    BY <2>b
  <2>2. s \in 0 .. Steps(m) - 1  BY ModeFacts
  <2>3. R \in Nat /\ k \in Nat /\ R < Start(m, l, p, s + 1)  BY <2>2, <1>1, ChunkFacts
  <2>4. k % m.numBlocks \in BlocksOf(m)  BY <2>3, ModRange, ModeFacts DEF BlocksOf
  <2>5. /\ block[a][k % m.numBlocks].partition = partition[a]
        /\ block[a][k % m.numBlocks].RecvRedCopy.round = Total(m, l, p)
    BY <2>4, ThroughBlocks DEF SameBlock
  <2>6. R < Total(m, l, p)
    <3>1. Steps(m) \in 0 .. Steps(m) /\ s + 1 \in 0 .. Steps(m)  BY <2>2, ModeFacts
    <3>2. s + 1 = Steps(m) \/ s + 1 < Steps(m)  BY <2>2, ModeFacts
    <3>3. Start(m, l, p, s + 1) \in Nat /\ Start(m, l, p, Steps(m)) \in Nat  BY <3>1, <1>1, StartFacts
    <3>4. s + 1 < Steps(m) => Start(m, l, p, s + 1) < Start(m, l, p, Steps(m))
      BY <3>1, <1>1, StartFacts
    <3> QED BY <3>2, <3>3, <3>4, <2>3 DEF Total
  <2>7. RanR(block[a][k % m.numBlocks], partition[a]) > R  BY <2>5, <2>6, <2>3, <1>1, FirstIs DEF RanR
  <2> HIDE DEF p, l
  <2>8. data[a][e] = AllOf(m, e)  BY <2>1, <2>7, <1>3 DEF DataPart, DataCell, l
  <2> QED BY <2>8, <1>6, <1>1 DEF p
<1> QED BY <1>1, <1>4, <1>5, <1>6

\* What the end of a partition leaves alone.
LEMMA PartitionDoneFacts ==
    ASSUME NEW m \in Modes, mode = m, Types(m), Control(m), NEW a \in RanksOf(m), PartitionDone(a)
    PROVE  /\ Through(a)
           /\ UNCHANGED <<mode, block, data, tmpSend, tmpRecv, wire, arrived, notify>>
           /\ sync' = [sync EXCEPT ![a] = 0] /\ landed' = [landed EXCEPT ![a] = 0]
           /\ posted' = [posted EXCEPT ![a] = Unset] /\ completed' = [completed EXCEPT ![a] = UnsetAll]
           /\ offset[a] + PartLen(m, offset[a]) = m.numElements =>
                      /\ host' = [host EXCEPT ![a] = "done"]
                      /\ started' = [started EXCEPT ![a] = kUnset]
                      /\ UNCHANGED <<partition, offset, post, done>>
           /\ offset[a] + PartLen(m, offset[a]) # m.numElements =>
                       /\ started' = [started EXCEPT ![a] = partition[a] + 1]
                       /\ partition' = [partition EXCEPT ![a] = partition[a] + 1]
                       /\ offset' = [offset EXCEPT ![a] = offset[a] + PartLen(m, offset[a])]
                       /\ post' = [post EXCEPT ![a] = NoRounds] /\ done' = [done EXCEPT ![a] = NoRounds]
                       /\ UNCHANGED host
           /\ sync' \in [RanksOf(m) -> Nat] /\ landed' \in [RanksOf(m) -> Nat]
           /\ posted' \in [RanksOf(m) -> [KernelOps -> Int]]
           /\ completed' \in [RanksOf(m) -> [KernelOps -> [BlocksOf(m) -> Int]]]
           /\ posted'[a]["SendCopy"] = kUnset /\ posted'[a]["RecvRedCopy"] = kUnset
           /\ \A b \in BlocksOf(m) : /\ completed'[a]["SendCopy"][b] = kUnset
                                    /\ completed'[a]["RecvRedCopy"][b] = kUnset
           /\ sync'[a] = 0 /\ landed'[a] = 0
           /\ \A r \in RanksOf(m) : r # a =>
                /\ sync'[r] = sync[r] /\ landed'[r] = landed[r] /\ posted'[r] = posted[r]
                /\ completed'[r] = completed[r]
<1>1. PartitionNumel(offset[a]) = PartLen(m, offset[a]) /\ Blocks = BlocksOf(m)
  BY ModeIs DEF BlocksOf
<1>2. /\ Through(a)
      /\ UNCHANGED <<mode, block, data, tmpSend, tmpRecv, wire, arrived, notify>>
      /\ sync' = [sync EXCEPT ![a] = 0] /\ landed' = [landed EXCEPT ![a] = 0]
      /\ posted' = [posted EXCEPT ![a] = Unset] /\ completed' = [completed EXCEPT ![a] = UnsetAll]
  BY DEF PartitionDone, Through, bufferVars
<1>3. offset[a] + PartLen(m, offset[a]) = m.numElements =>
              /\ host' = [host EXCEPT ![a] = "done"]
              /\ started' = [started EXCEPT ![a] = kUnset]
              /\ UNCHANGED <<partition, offset, post, done>>
  BY <1>1 DEF PartitionDone, partVars
<1>4. offset[a] + PartLen(m, offset[a]) # m.numElements =>
               /\ started' = [started EXCEPT ![a] = partition[a] + 1]
               /\ partition' = [partition EXCEPT ![a] = partition[a] + 1]
               /\ offset' = [offset EXCEPT ![a] = offset[a] + PartLen(m, offset[a])]
               /\ post' = [post EXCEPT ![a] = NoRounds] /\ done' = [done EXCEPT ![a] = NoRounds]
               /\ UNCHANGED host
  BY <1>1 DEF PartitionDone, partVars
<1>5. /\ sync \in [RanksOf(m) -> Nat] /\ landed \in [RanksOf(m) -> Nat]
      /\ posted \in [RanksOf(m) -> [KernelOps -> Int]]
      /\ completed \in [RanksOf(m) -> [KernelOps -> [BlocksOf(m) -> Int]]]
  BY DEF Types, NetTypes, FlagTypes
<1>6. /\ Unset \in [KernelOps -> Int]
      /\ Unset["SendCopy"] = kUnset /\ Unset["RecvRedCopy"] = kUnset
  BY DEF Unset, kUnset, KernelOps
<1>7. UnsetAll \in [KernelOps -> [BlocksOf(m) -> Int]]
      /\ \A b \in BlocksOf(m) : UnsetAll["SendCopy"][b] = kUnset /\ UnsetAll["RecvRedCopy"][b] = kUnset
  BY <1>1 DEF UnsetAll, kUnset, KernelOps
<1>8. /\ sync' \in [RanksOf(m) -> Nat] /\ landed' \in [RanksOf(m) -> Nat]
      /\ posted' \in [RanksOf(m) -> [KernelOps -> Int]]
      /\ completed' \in [RanksOf(m) -> [KernelOps -> [BlocksOf(m) -> Int]]]
      /\ sync'[a] = 0 /\ landed'[a] = 0 /\ posted'[a] = Unset /\ completed'[a] = UnsetAll
      /\ \A r \in RanksOf(m) : r # a =>
           /\ sync'[r] = sync[r] /\ landed'[r] = landed[r] /\ posted'[r] = posted[r]
           /\ completed'[r] = completed[r]
  BY <1>2, <1>5, <1>6, <1>7
<1> QED BY <1>2, <1>3, <1>4, <1>6, <1>7, <1>8

\* The end of the last partition: the host is done and its buffer is the sum.
LEMMA PartitionLastStep ==
    ASSUME NEW m \in Modes, mode = m, Types(m), Control(m), Content(m),
           NEW a \in RanksOf(m), PartitionDone(a), offset[a] + PartLen(m, offset[a]) = m.numElements
    PROVE  mode' = m /\ Types(m)' /\ Control(m)' /\ Content(m)'
<1> DEFINE l == LeftOf(m, a)
<1> DEFINE q == RightOf(m, a)
<1>1. /\ Through(a)
      /\ UNCHANGED <<mode, block, data, tmpSend, tmpRecv, wire, arrived, notify, partition, offset, post, done>>
      /\ host' = [host EXCEPT ![a] = "done"] /\ started' = [started EXCEPT ![a] = kUnset]
      /\ sync' \in [RanksOf(m) -> Nat] /\ landed' \in [RanksOf(m) -> Nat]
      /\ posted' \in [RanksOf(m) -> [KernelOps -> Int]]
      /\ completed' \in [RanksOf(m) -> [KernelOps -> [BlocksOf(m) -> Int]]]
      /\ sync'[a] = 0 /\ landed'[a] = 0
      /\ \A r \in RanksOf(m) : r # a =>
           /\ sync'[r] = sync[r] /\ landed'[r] = landed[r] /\ posted'[r] = posted[r]
           /\ completed'[r] = completed[r]
  BY PartitionDoneFacts
<1>2. host \in [RanksOf(m) -> {"running", "done", "aborted"}] /\ started \in [RanksOf(m) -> Int]
  BY DEF Types, HostTypes, FlagTypes
<1>3. /\ host' \in [RanksOf(m) -> {"running", "done", "aborted"}] /\ started' \in [RanksOf(m) -> Int]
      /\ host'[a] = "done" /\ started'[a] = kUnset
      /\ \A r \in RanksOf(m) : r # a => host'[r] = host[r] /\ started'[r] = started[r]
  BY <1>1, <1>2 DEF kUnset
<1>4. Types(m)'
  BY <1>1, <1>3 DEF Types, HostTypes, FlagTypes, BlockTypes, DataTypes, NetTypes
<1>5. /\ l \in RanksOf(m) /\ q \in RanksOf(m) /\ q # a  BY NeighbourFacts
<1>6. /\ done[a].SendTrans.round = Total(m, a, offset[a])
      /\ done[a].RecvRedCopy.round = Total(m, LeftOf(m, a), offset[a])
      /\ done[a].SendCopy.round = First(m, a, offset[a])
      /\ host[a] = "running"
  BY <1>1, ThroughFacts
<1>7. Good(m, offset[a]) /\ Good(m, offset[q])  BY <1>5, HostFacts
<1>8. ASSUME NEW r \in RanksOf(m) PROVE HostAt(m, r)'
  <2>1. CASE r # a  BY <2>1, <1>1, <1>3, ControlAt DEF HostAt
  <2>2. CASE r = a
    <3>1. HostRounds(m, a, host[a], offset[a], post[a], done[a], landed[a], sync[a])  BY HostFacts
    <3>2. HostRounds(m, a, "done", offset[a], post[a], done[a], 0, 0)
      BY <3>1, <1>6 DEF HostRounds
    <3> QED BY <2>2, <3>2, <1>1, <1>3, HostFacts DEF HostAt, HostOK
  <2> QED BY <2>1, <2>2
<1>9. /\ wire[a] = << >> /\ arrived[q] = << >> /\ notify[q] = 0
      /\ \/ /\ partition[q] = partition[a] /\ offset[q] = offset[a]
            /\ done[q].RecvRedCopy.round = Total(m, a, offset[q])
         \/ offset[q] = offset[a] + PartLen(m, offset[a])
  BY <1>1, ThroughRight
<1>10. offset[q] # offset[a] + PartLen(m, offset[a])  BY <1>7 DEF Good
<1>11. Len(<< >>) = 0  OBVIOUS
<1>12. ASSUME NEW r \in RanksOf(m) PROVE PairAt(m, r)'
  <2>1. CASE r # a  BY <2>1, <1>1, <1>3, ControlAt DEF PairAt
  <2>2. CASE r = a
    <3>1. Ahead(m, a, "done", partition[a], partition[q], offset[a], offset[q], 0, 0, wire[a],
                arrived[q], notify[q], done[q].RecvRedCopy.round)
      BY <1>9, <1>10 DEF Ahead
    <3> QED BY <2>2, <3>1, <1>1, <1>3, <1>9, <1>11 DEF PairAt, PairOK
  <2> QED BY <2>1, <2>2
<1>13. ASSUME NEW r \in RanksOf(m) PROVE FlagsAt(m, r)'
  <2>1. CASE r # a  BY <2>1, <1>1, <1>3, ControlAt DEF FlagsAt
  <2>2. CASE r = a  BY <2>2, <1>1, <1>3 DEF FlagsAt, FlagsOK
  <2> QED BY <2>1, <2>2
<1>14. ASSUME NEW r \in RanksOf(m), NEW b \in BlocksOf(m) PROVE BlockAt(m, r, b)'
  <2>1. CASE r # a  BY <2>1, <1>1, <1>3, ControlAt DEF BlockAt
  <2>2. CASE r = a
    <3>1. SameBlock(m, a, host[a], partition[a], offset[a], block[a][b],
                  completed[a]["SendCopy"][b], completed[a]["RecvRedCopy"][b],
                  post[a].SendCopy.round, post[a].RecvRedCopy.round,
                  done[a].SendCopy.round, done[a].RecvRedCopy.round)
      BY <1>1, ThroughBlocks
    <3> QED BY <2>2, <3>1, <1>1, <1>3 DEF BlockAt, BlockOK, SameBlock
  <2> QED BY <2>1, <2>2
<1>15. Control(m)'  BY <1>8, <1>12, <1>13, <1>14 DEF Control
<1>16. ASSUME NEW r \in RanksOf(m)
       PROVE  SendAt(m, r)' /\ WireAt(m, r)' /\ ArrivedAt(m, r)' /\ SeenAt(m, r)' /\ DataAt(m, r)'
  <2>1. SendAt(m, r) /\ WireAt(m, r) /\ ArrivedAt(m, r) /\ SeenAt(m, r) /\ DataAt(m, r)
    BY DEF Content
  <2>2. CASE r # a
    <3>1. SendAt(m, r)'  BY <2>1, <2>2, <1>1, <1>3 DEF SendAt
    <3>2. WireAt(m, r)'  BY <2>1, <2>2, <1>1, <1>3 DEF WireAt
    <3>3. ArrivedAt(m, r)'  BY <2>1, <2>2, <1>1, <1>3 DEF ArrivedAt
    <3>4. SeenAt(m, r)'  BY <2>1, <2>2, <1>1, <1>3 DEF SeenAt
    <3>5. DataAt(m, r)'  BY <2>1, <2>2, <1>1, <1>3 DEF DataAt
    <3> QED BY <3>1, <3>2, <3>3, <3>4, <3>5
  <2>3. CASE r = a
    <3>1. SendAt(m, a)'  BY <1>3 DEF SendAt, SendOK
    <3>2. WireAt(m, a)'  BY <1>1, <1>9, <1>11 DEF WireAt, WireOK
    <3>3. ArrivedAt(m, a)'  BY <1>1, <1>9, <1>11 DEF ArrivedAt, ArrivedOK
    <3>4. SeenAt(m, a)'
      <4>1. SeenOK(m, a, offset[a], 0, 0, tmpRecv[q])  BY DEF SeenOK, RoundsOf
      <4>2. landed'[a] - Len(arrived[q]) = 0
        <5>1. landed'[a] = 0 /\ Len(arrived[q]) = 0  BY <1>1, <1>9, <1>11
        <5> QED BY <5>1
      <4> QED BY <4>1, <4>2, <1>1 DEF SeenAt
    <3>5. DataAt(m, a)'
      <4>1. \A e \in ElementsOf(m) : data[a][e] = AllOf(m, e)
        <5> TAKE e \in ElementsOf(m)
        <5>1. e < m.numElements  BY ModeFacts DEF ElementsOf
        <5> QED BY <5>1, <1>1, ThroughData
      <4> QED BY <4>1, <1>1, <1>3 DEF DataAt, DataOK, DataOver
    <3> QED BY <2>3, <3>1, <3>2, <3>3, <3>4, <3>5
  <2> QED BY <2>2, <2>3
<1>17. Content(m)'  BY <1>16 DEF Content
<1> QED BY <1>1, <1>4, <1>15, <1>17

\* The end of a partition that is followed by another: everything starts over at its end.
LEMMA PartitionNextStep ==
    ASSUME NEW m \in Modes, mode = m, Types(m), Control(m), Content(m),
           NEW a \in RanksOf(m), PartitionDone(a), offset[a] + PartLen(m, offset[a]) # m.numElements
    PROVE  mode' = m /\ Types(m)' /\ Control(m)' /\ Content(m)'
<1> DEFINE l == LeftOf(m, a)
<1> DEFINE q == RightOf(m, a)
<1> DEFINE E == offset[a] + PartLen(m, offset[a])
<1> DEFINE N == partition[a] + 1
<1>1. /\ Through(a)
      /\ UNCHANGED <<mode, host, block, data, tmpSend, tmpRecv, wire, arrived, notify>>
      /\ started' = [started EXCEPT ![a] = N]
      /\ partition' = [partition EXCEPT ![a] = N]
      /\ offset' = [offset EXCEPT ![a] = E]
      /\ post' = [post EXCEPT ![a] = NoRounds] /\ done' = [done EXCEPT ![a] = NoRounds]
      /\ sync' \in [RanksOf(m) -> Nat] /\ landed' \in [RanksOf(m) -> Nat]
      /\ posted' \in [RanksOf(m) -> [KernelOps -> Int]]
      /\ completed' \in [RanksOf(m) -> [KernelOps -> [BlocksOf(m) -> Int]]]
      /\ posted'[a]["SendCopy"] = kUnset /\ posted'[a]["RecvRedCopy"] = kUnset
      /\ \A b \in BlocksOf(m) : /\ completed'[a]["SendCopy"][b] = kUnset
                               /\ completed'[a]["RecvRedCopy"][b] = kUnset
      /\ sync'[a] = 0 /\ landed'[a] = 0
      /\ \A r \in RanksOf(m) : r # a =>
           /\ sync'[r] = sync[r] /\ landed'[r] = landed[r] /\ posted'[r] = posted[r]
           /\ completed'[r] = completed[r]
  BY PartitionDoneFacts
<1>2. /\ Good(m, offset[a]) /\ Good(m, E) /\ E \in Nat /\ N \in Nat /\ N # 0
      /\ partition[a] \in Nat /\ offset[a] \in Nat
  <2>1. Good(m, offset[a]) /\ partition[a] \in Nat /\ offset[a] \in Nat  BY HostFacts
  <2>2. Good(m, E)  BY <2>1, PartFacts
  <2> QED BY <2>1, <2>2 DEF Good
<1>3. /\ partition \in [RanksOf(m) -> Nat] /\ offset \in [RanksOf(m) -> Nat]
      /\ post \in [RanksOf(m) -> [Ops -> Counter]] /\ done \in [RanksOf(m) -> [Ops -> Counter]]
      /\ started \in [RanksOf(m) -> Int]
  BY DEF Types, HostTypes, FlagTypes
<1>z. /\ NoRounds \in [Ops -> Counter]
      /\ NoRounds.SendCopy.round = 0 /\ NoRounds.SendTrans.round = 0
      /\ NoRounds.RecvTrans.round = 0 /\ NoRounds.RecvFlush.round = 0
      /\ NoRounds.RecvRedCopy.round = 0
      /\ HostOK(m, a, "running", E, NoRounds, NoRounds, 0, 0)
  BY <1>2, ZeroRounds
<1>4. /\ partition' \in [RanksOf(m) -> Nat] /\ offset' \in [RanksOf(m) -> Nat]
      /\ post' \in [RanksOf(m) -> [Ops -> Counter]] /\ done' \in [RanksOf(m) -> [Ops -> Counter]]
      /\ started' \in [RanksOf(m) -> Int]
      /\ partition'[a] = N /\ offset'[a] = E /\ post'[a] = NoRounds /\ done'[a] = NoRounds
      /\ started'[a] = N
      /\ \A r \in RanksOf(m) : r # a =>
           /\ partition'[r] = partition[r] /\ offset'[r] = offset[r] /\ post'[r] = post[r]
           /\ done'[r] = done[r] /\ started'[r] = started[r]
  <2> HIDE DEF N, E
  <2> QED BY <1>1, <1>2, <1>3, <1>z
<1>5. Types(m)'
  BY <1>1, <1>4 DEF Types, HostTypes, FlagTypes, BlockTypes, DataTypes, NetTypes
<1>6. l \in RanksOf(m) /\ q \in RanksOf(m) /\ q # a /\ l # a /\ RightOf(m, l) = a
  BY NeighbourFacts
<1>7. host[a] = "running"  BY <1>1, ThroughFacts
<1>8. ASSUME NEW r \in RanksOf(m) PROVE HostAt(m, r)'
  <2>1. CASE r # a  BY <2>1, <1>1, <1>4, ControlAt DEF HostAt
  <2>2. CASE r = a  BY <2>2, <1>1, <1>4, <1>7, <1>z DEF HostAt
  <2> QED BY <2>1, <2>2
<1>9. /\ wire[a] = << >> /\ arrived[q] = << >> /\ notify[q] = 0
      /\ \/ /\ partition[q] = partition[a] /\ offset[q] = offset[a]
            /\ done[q].RecvRedCopy.round = Total(m, a, offset[q])
         \/ /\ partition[q] = N /\ offset[q] = E
            /\ done[q].RecvTrans.round = 0 /\ done[q].RecvFlush.round = 0
            /\ done[q].RecvRedCopy.round = 0
  BY <1>1, ThroughRight
<1>11. Len(<< >>) = 0  OBVIOUS
<1>12. PairAt(m, a)'
  <2>1. CASE /\ partition[q] = partition[a] /\ offset[q] = offset[a]
             /\ done[q].RecvRedCopy.round = Total(m, a, offset[q])
    <3>1. Ahead(m, a, "running", N, partition[q], E, offset[q], 0, 0, wire[a],
                arrived[q], notify[q], done[q].RecvRedCopy.round)
      BY <2>1, <1>9 DEF Ahead
    <3> QED BY <3>1, <1>1, <1>4, <1>6, <1>7, <1>9, <1>11, <1>z DEF PairAt, PairOK
  <2>2. CASE /\ partition[q] = N /\ offset[q] = E
             /\ done[q].RecvTrans.round = 0 /\ done[q].RecvFlush.round = 0
             /\ done[q].RecvRedCopy.round = 0
    <3>1. Same("running", N, partition[q], E, offset[q], 0, 0, arrived[q], notify[q],
               done[q].RecvTrans.round, done[q].RecvFlush.round, done[q].RecvRedCopy.round)
      BY <2>2, <1>9, <1>11 DEF Same
    <3> QED BY <3>1, <1>1, <1>4, <1>6, <1>7, <1>9, <1>11, <1>z DEF PairAt, PairOK
  <2> QED BY <1>9, <2>1, <2>2
<1>13. PairAt(m, l)'
  <2>1. /\ \/ /\ host[l] # "done" /\ partition[a] = partition[l] /\ offset[a] = offset[l]
                 /\ landed[l] = Total(m, l, offset[l]) /\ sync[l] = landed[l]
                 /\ post[l].SendTrans.round = landed[l]
                 /\ arrived[a] = << >> /\ notify[a] = 0
           \/ /\ host[l] # "done" /\ partition[l] = N
              /\ offset[l] = E
              /\ sync[l] = 0 /\ notify[a] = landed[l]
    BY <1>1, ThroughLeft
  <2>2. /\ host[l] # "done" => landed[l] + Len(wire[l]) = post[l].SendTrans.round
        /\ Len(arrived[a]) <= landed[l]
    BY <1>6, ControlAt DEF PairAt, PairOK
  <2>3. PairOK(m, l, host[l], partition[l], N, offset[l], E, sync[l], landed[l],
              wire[l], arrived[a], notify[a], post[l].SendTrans.round, 0, 0, 0)
    <3>1. CASE /\ host[l] # "done" /\ partition[a] = partition[l] /\ offset[a] = offset[l]
                 /\ landed[l] = Total(m, l, offset[l]) /\ sync[l] = landed[l]
                 /\ post[l].SendTrans.round = landed[l]
                 /\ arrived[a] = << >> /\ notify[a] = 0
      <4>1. Behind(m, l, host[l], partition[l], N, offset[l], E, sync[l], landed[l],
                   arrived[a], notify[a], post[l].SendTrans.round, 0)
        BY <3>1 DEF Behind
      <4> QED BY <4>1, <2>2 DEF PairOK
    <3>2. CASE /\ host[l] # "done" /\ partition[l] = N /\ offset[l] = E
               /\ sync[l] = 0 /\ notify[a] = landed[l]
      <4>1. arrived[a] \in Seq(Arrival(m)) /\ landed[l] \in Nat /\ notify[a] \in Nat
        BY <1>6, HostFacts DEF Types, NetTypes
      <4>2. Len(arrived[a]) \in Nat  BY <4>1, EmptySeq
      <4>3. Same(host[l], partition[l], N, offset[l], E, sync[l], landed[l], arrived[a], notify[a],
                 0, 0, 0)
        <5> HIDE DEF N, E
        <5> QED BY <3>2, <4>1, <4>2, <2>2 DEF Same
      <4> QED BY <4>3, <2>2 DEF PairOK
    <3> QED BY <2>1, <3>1, <3>2
  <2> QED BY <2>3, <1>1, <1>4, <1>6, <1>z DEF PairAt
<1>14. ASSUME NEW r \in RanksOf(m) PROVE PairAt(m, r)'
  <2>1. CASE r # a /\ r # l
    <3>1. RightOf(m, r) \in RanksOf(m) /\ RightOf(m, r) # a  BY <2>1, OtherRight
    <3> QED BY <2>1, <3>1, <1>1, <1>4, ControlAt DEF PairAt
  <2> QED BY <2>1, <1>12, <1>13
<1>15. ASSUME NEW r \in RanksOf(m) PROVE FlagsAt(m, r)'
  <2>1. CASE r # a  BY <2>1, <1>1, <1>4, ControlAt DEF FlagsAt
  <2>2. CASE r = a
    <3>1. FlagsOK("running", N, kUnset, kUnset, N, 0, 0)  BY <1>2 DEF FlagsOK, kUnset
    <3> QED BY <2>2, <3>1, <1>1, <1>4, <1>7, <1>z DEF FlagsAt
  <2> QED BY <2>1, <2>2
<1>16. ASSUME NEW b \in BlocksOf(m)
       PROVE  /\ block[a][b].partition = partition[a] /\ block[a][b].offset = offset[a]
              /\ BlockAt(m, a, b)'
  <2>1. /\ SameBlock(m, a, host[a], partition[a], offset[a], block[a][b],
                  completed[a]["SendCopy"][b], completed[a]["RecvRedCopy"][b],
                  post[a].SendCopy.round, post[a].RecvRedCopy.round,
                  done[a].SendCopy.round, done[a].RecvRedCopy.round)
        /\ block[a][b].SendCopy.round = First(m, a, offset[a])
        /\ block[a][b].RecvRedCopy.round = Total(m, LeftOf(m, a), offset[a])
    BY <1>1, ThroughBlocks
  <2>2. BehindBlock(m, a, "running", N, E, block[a][b], kUnset, kUnset, 0, 0)
    BY <2>1, <1>2 DEF SameBlock, BehindBlock
  <2> QED BY <2>1, <2>2, <1>1, <1>4, <1>7, <1>z DEF BlockAt, BlockOK, SameBlock
<1>17. ASSUME NEW r \in RanksOf(m), NEW b \in BlocksOf(m) PROVE BlockAt(m, r, b)'
  <2>1. CASE r # a  BY <2>1, <1>1, <1>4, ControlAt DEF BlockAt
  <2> QED BY <2>1, <1>16
<1>18. Control(m)'  BY <1>8, <1>14, <1>15, <1>17 DEF Control
<1>19. ASSUME NEW k \in Nat
       PROVE  RanS(block[a][k % m.numBlocks], N) = 0 /\ RanR(block[a][k % m.numBlocks], N) = 0
  <2>1. k % m.numBlocks \in BlocksOf(m)  BY ModRange, ModeFacts DEF BlocksOf
  <2> QED BY <2>1, <1>2, <1>16 DEF RanS, RanR
<1>20. SendAt(m, a)'
  <2>1. SendOK(m, a, host[a], N, E, 0, block[a], tmpSend[a])
    <3> SUFFICES ASSUME NEW s \in 0 .. Steps(m) - 1, NEW R \in RoundsOf(m, a, E, s),
                        NEW k \in 0 .. Numel(m, a, E, s, R) - 1,
                        Written(m, a, E, N, s, R, block[a][k % m.numBlocks])
                 PROVE  FALSE
      BY DEF SendOK
    <3> HIDE DEF N, E
    <3>1. R \in Nat /\ Start(m, a, E, s) <= R /\ Numel(m, a, E, s, R) \in 1 .. m.chunkNumel
      BY <1>2, ChunkFacts
    <3>2. k \in Nat  BY <3>1, ModeFacts
    <3>3. CASE s = 0  BY <3>1, <3>2, <3>3, <1>19 DEF Written
    <3>4. CASE s # 0
      <4>1. First(m, a, E) <= Start(m, a, E, s)
        <5>1. 1 \in 0 .. Steps(m) /\ s \in 0 .. Steps(m) /\ (s = 1 \/ 1 < s)
          <6>1. Steps(m) \in Nat /\ Steps(m) >= 2  BY ModeFacts
          <6> QED BY <6>1, <3>4
        <5>2. Start(m, a, E, 1) \in Nat /\ Start(m, a, E, s) \in Nat  BY <5>1, <1>2, StartFacts
        <5>3. 1 < s => Start(m, a, E, 1) < Start(m, a, E, s)  BY <5>1, <1>2, StartFacts
        <5> QED BY <5>1, <5>2, <5>3 DEF First
      <4>2. First(m, a, E) \in Nat  BY <1>2, FirstIs
      <4>3. Start(m, a, E, s) \in Nat
        <5>1. s \in 0 .. Steps(m)  BY ModeFacts
        <5> QED BY <5>1, <1>2, StartFacts
      <4>4. First(m, a, E) + 0 > R  BY <3>2, <3>4, <1>19 DEF Written
      <4> QED BY <4>1, <4>2, <4>3, <4>4, <3>1
    <3> QED BY <3>3, <3>4
  <2> QED BY <2>1, <1>1, <1>4 DEF SendAt
<1>21. DataAt(m, a)'
  <2>1. \A e \in ElementsOf(m) : /\ e < E => data[a][e] = AllOf(m, e)
                                 /\ e >= E => data[a][e] = {<<a, e>>}
    BY <1>1, ThroughData
  <2> HIDE DEF N, E
  <2>2. PartLen(m, E) \in Nat /\ E + PartLen(m, E) <= m.numElements  BY <1>2, PartFacts
  <2>3. DataRest(m, a, E, data[a])
    <3> SUFFICES ASSUME NEW e \in ElementsOf(m), e >= E + PartLen(m, E)
                 PROVE  data[a][e] = {<<a, e>>}
      BY <2>1 DEF DataRest
    <3>1. e \in Nat  BY ModeFacts DEF ElementsOf
    <3> QED BY <3>1, <2>1, <2>2, <1>2
  <2>4. DataPart(m, a, N, E, block[a], data[a])
    <3> SUFFICES ASSUME NEW s \in m.nRanks - 2 .. Steps(m) - 1, NEW R \in RoundsOf(m, l, E, s),
                        NEW k \in 0 .. Numel(m, l, E, s, R) - 1
                 PROVE  /\ ~ (RanR(block[a][k % m.numBlocks], N) > R)
                        /\ data[a][Elem(m, l, E, s, R) + k] = {<<a, Elem(m, l, E, s, R) + k>>}
      BY DEF DataPart, DataCell
    <3> HIDE DEF l
    <3>1. s \in 0 .. Steps(m) - 1  BY ModeFacts
    <3>2. /\ R \in Nat /\ Numel(m, l, E, s, R) \in 1 .. m.chunkNumel
          /\ Elem(m, l, E, s, R) \in Nat /\ E <= Elem(m, l, E, s, R)
          /\ Elem(m, l, E, s, R) + Numel(m, l, E, s, R) <= E + PartLen(m, E)
      BY <3>1, <1>2, <1>6, ChunkFacts
    <3>3. k \in Nat  BY <3>2, ModeFacts
    <3>4. ~ (RanR(block[a][k % m.numBlocks], N) > R)  BY <3>2, <3>3, <1>19
    <3> DEFINE e == Elem(m, l, E, s, R) + k
    <3>5. e \in ElementsOf(m) /\ e >= E
      BY <3>2, <3>3, <2>2, <1>2, ModeFacts DEF ElementsOf
    <3> HIDE DEF e
    <3>6. data[a][e] = {<<a, e>>}  BY <3>5, <2>1
    <3> QED BY <3>4, <3>6 DEF e
  <2>5. DataOK(m, a, "running", N, E, block[a], data[a])  BY <2>3, <2>4 DEF DataOK
  <2> QED BY <2>5, <1>1, <1>4, <1>7 DEF DataAt, N, E
<1>22. ASSUME NEW r \in RanksOf(m)
       PROVE  SendAt(m, r)' /\ WireAt(m, r)' /\ ArrivedAt(m, r)' /\ SeenAt(m, r)' /\ DataAt(m, r)'
  <2>1. SendAt(m, r) /\ WireAt(m, r) /\ ArrivedAt(m, r) /\ SeenAt(m, r) /\ DataAt(m, r)
    BY DEF Content
  <2>2. CASE r # a
    <3>1. SendAt(m, r)'  BY <2>1, <2>2, <1>1, <1>4 DEF SendAt
    <3>2. WireAt(m, r)'  BY <2>1, <2>2, <1>1, <1>4 DEF WireAt
    <3>3. ArrivedAt(m, r)'  BY <2>1, <2>2, <1>1, <1>4 DEF ArrivedAt
    <3>4. SeenAt(m, r)'  BY <2>1, <2>2, <1>1, <1>4 DEF SeenAt
    <3>5. DataAt(m, r)'  BY <2>1, <2>2, <1>1, <1>4 DEF DataAt
    <3> QED BY <3>1, <3>2, <3>3, <3>4, <3>5
  <2>3. CASE r = a
    <3>2. WireAt(m, a)'  BY <1>1, <1>9, <1>11 DEF WireAt, WireOK
    <3>3. ArrivedAt(m, a)'  BY <1>1, <1>9, <1>11 DEF ArrivedAt, ArrivedOK
    <3>4. SeenAt(m, a)'
      <4>1. SeenOK(m, a, offset'[a], 0, 0, tmpRecv[q])  BY DEF SeenOK, RoundsOf
      <4>2. landed'[a] - Len(arrived[q]) = 0
        <5>1. landed'[a] = 0 /\ Len(arrived[q]) = 0  BY <1>1, <1>9, <1>11
        <5> QED BY <5>1
      <4> QED BY <4>1, <4>2, <1>1 DEF SeenAt
    <3> QED BY <2>3, <1>20, <1>21, <3>2, <3>3, <3>4
  <2> QED BY <2>2, <2>3
<1>23. Content(m)'  BY <1>22 DEF Content
<1> QED BY <1>1, <1>5, <1>18, <1>23

\* The end of a partition.
LEMMA PartitionDoneStep ==
    ASSUME NEW m \in Modes, mode = m, Types(m), Control(m), Content(m),
           NEW a \in RanksOf(m), PartitionDone(a)
    PROVE  mode' = m /\ Types(m)' /\ Control(m)' /\ Content(m)'
BY PartitionLastStep, PartitionNextStep

\* An abort changes nothing but the state of the host: what holds does so of any host that
\* is not done.
LEMMA HostAbortStep ==
    ASSUME NEW m \in Modes, mode = m, Types(m), Control(m), Content(m),
           NEW a \in RanksOf(m), HostAbort(a)
    PROVE  mode' = m /\ Types(m)' /\ Control(m)' /\ Content(m)'
<1>1. /\ UNCHANGED <<mode, partition, offset, post, done, posted, started, completed, block, data,
                     tmpSend, tmpRecv, wire, arrived, landed, notify, sync>>
      /\ host[a] = "running" /\ host' = [host EXCEPT ![a] = "aborted"]
  BY DEF HostAbort, Running, partVars, flagVars, bufferVars, netVars
<1>2. host \in [RanksOf(m) -> {"running", "done", "aborted"}]  BY DEF Types, HostTypes
<1>3. /\ host' \in [RanksOf(m) -> {"running", "done", "aborted"}]
      /\ \A r \in RanksOf(m) : host[r] = "done" <=> host'[r] = "done"
  BY <1>1, <1>2
<1>4. Types(m)'
  BY <1>1, <1>3 DEF Types, HostTypes, FlagTypes, BlockTypes, DataTypes, NetTypes
<1>5. ASSUME NEW r \in RanksOf(m)
      PROVE  HostAt(m, r)' /\ PairAt(m, r)' /\ FlagsAt(m, r)' /\ (\A b \in BlocksOf(m) : BlockAt(m, r, b)')
  <2>1. HostAt(m, r) /\ PairAt(m, r) /\ FlagsAt(m, r) /\ (\A b \in BlocksOf(m) : BlockAt(m, r, b))
    BY DEF Control
  <2>2. HostAt(m, r)'  BY <2>1, <1>1, <1>3 DEF HostAt, HostOK, HostRounds
  <2>3. PairAt(m, r)'  BY <2>1, <1>1, <1>3 DEF PairAt, PairOK, Same, Ahead, Behind
  <2>4. FlagsAt(m, r)'  BY <2>1, <1>1, <1>3 DEF FlagsAt, FlagsOK
  <2>5. ASSUME NEW b \in BlocksOf(m) PROVE BlockAt(m, r, b)'
    BY <2>1, <1>1, <1>3 DEF BlockAt, BlockOK, SameBlock, BehindBlock
  <2> QED BY <2>2, <2>3, <2>4, <2>5
<1>6. Control(m)'  BY <1>5 DEF Control
<1>7. ASSUME NEW r \in RanksOf(m)
      PROVE  SendAt(m, r)' /\ WireAt(m, r)' /\ ArrivedAt(m, r)' /\ SeenAt(m, r)' /\ DataAt(m, r)'
  <2>1. SendAt(m, r) /\ WireAt(m, r) /\ ArrivedAt(m, r) /\ SeenAt(m, r) /\ DataAt(m, r)
    BY DEF Content
  <2>2. SendAt(m, r)'  BY <2>1, <1>1, <1>3 DEF SendAt, SendOK
  <2>3. WireAt(m, r)'  BY <2>1, <1>1 DEF WireAt
  <2>4. ArrivedAt(m, r)'  BY <2>1, <1>1 DEF ArrivedAt
  <2>5. SeenAt(m, r)'  BY <2>1, <1>1 DEF SeenAt
  <2>6. DataAt(m, r)'  BY <2>1, <1>1, <1>3 DEF DataAt, DataOK
  <2> QED BY <2>2, <2>3, <2>4, <2>5, <2>6
<1>8. Content(m)'  BY <1>7 DEF Content
<1> QED BY <1>1, <1>4, <1>6, <1>8

-----------------------------------------------------------------------------
(* The steps of the blocks.                                                *)

\* The contents of the buffers depend on a block only by the rounds it has run.
LEMMA BlockContentFrame ==
    ASSUME NEW m \in Modes, mode = m, Types(m), Control(m), Content(m),
           UNCHANGED <<host, partition, offset, landed, data, tmpSend, tmpRecv, wire, arrived, sync>>,
           \A r \in RanksOf(m), b \in BlocksOf(m) :
              /\ RanS(block'[r][b], partition[r]) = RanS(block[r][b], partition[r])
              /\ RanR(block'[r][b], partition[r]) = RanR(block[r][b], partition[r])
    PROVE  Content(m)'
<1> SUFFICES ASSUME NEW r \in RanksOf(m)
             PROVE  SendAt(m, r)' /\ WireAt(m, r)' /\ ArrivedAt(m, r)' /\ SeenAt(m, r)' /\ DataAt(m, r)'
  BY DEF Content
<1>1. SendAt(m, r) /\ WireAt(m, r) /\ ArrivedAt(m, r) /\ SeenAt(m, r) /\ DataAt(m, r)
  BY DEF Content
<1>2. ASSUME NEW n \in Int, NEW k \in 0 .. n
      PROVE  /\ RanS(block'[r][k % m.numBlocks], partition[r]) = RanS(block[r][k % m.numBlocks], partition[r])
             /\ RanR(block'[r][k % m.numBlocks], partition[r]) = RanR(block[r][k % m.numBlocks], partition[r])
  <2>1. k % m.numBlocks \in BlocksOf(m)  BY ModRange, ModeFacts DEF BlocksOf
  <2> QED BY <2>1
<1>3. Good(m, offset[r]) /\ LeftOf(m, r) \in RanksOf(m)  BY HostFacts, NeighbourFacts
<1>4. SendAt(m, r)'
  <2> SUFFICES ASSUME host[r] # "done",
                      NEW s \in 0 .. Steps(m) - 1, NEW R \in RoundsOf(m, r, offset[r], s),
                      NEW k \in 0 .. Numel(m, r, offset[r], s, R) - 1, landed[r] <= R,
                      Written(m, r, offset[r], partition[r], s, R, block'[r][k % m.numBlocks])
               PROVE  tmpSend[r][R % m.numChunks][k] = Value(m, r, s, Elem(m, r, offset[r], s, R) + k)
    <3>1. SendOK(m, r, host[r], partition[r], offset[r], landed[r], block'[r], tmpSend[r]) => SendAt(m, r)'
      BY DEF SendAt
    <3> QED BY <3>1 DEF SendOK
  <2>1. Numel(m, r, offset[r], s, R) \in Nat
    <3>1. Numel(m, r, offset[r], s, R) \in 1 .. m.chunkNumel  BY <1>3, ChunkFacts
    <3> QED BY <3>1, ModeFacts
  <2>2. Written(m, r, offset[r], partition[r], s, R, block[r][k % m.numBlocks])
    <3>1. Numel(m, r, offset[r], s, R) - 1 \in Int  BY <2>1
    <3> QED BY <3>1, <1>2 DEF Written
  <2> QED BY <2>2, <1>1 DEF SendAt, SendOK
<1>5. WireAt(m, r)'  BY <1>1 DEF WireAt
<1>6. ArrivedAt(m, r)'  BY <1>1 DEF ArrivedAt
<1>7. SeenAt(m, r)'  BY <1>1 DEF SeenAt
<1>8. DataAt(m, r)'
  <2>1. CASE host[r] = "done"  BY <2>1, <1>1 DEF DataAt, DataOK
  <2>2. CASE host[r] # "done"
    <3>1. DataRest(m, r, offset[r], data[r]) /\ DataPart(m, r, partition[r], offset[r], block[r], data[r])
      BY <2>2, <1>1 DEF DataAt, DataOK
    <3>2. DataPart(m, r, partition[r], offset[r], block'[r], data[r])
      <4> DEFINE l == LeftOf(m, r)
      <4> SUFFICES ASSUME NEW s \in m.nRanks - 2 .. Steps(m) - 1, NEW R \in RoundsOf(m, l, offset[r], s),
                          NEW k \in 0 .. Numel(m, l, offset[r], s, R) - 1
                   PROVE  LET e == Elem(m, l, offset[r], s, R) + k
                          IN data[r][e] = IF RanR(block'[r][k % m.numBlocks], partition[r]) > R
                                            THEN AllOf(m, e) ELSE {<<r, e>>}
        BY DEF DataPart, DataCell
      <4>1. s \in 0 .. Steps(m) - 1  BY ModeFacts
      <4>2. Numel(m, l, offset[r], s, R) \in 1 .. m.chunkNumel  BY <4>1, <1>3, ChunkFacts
      <4>3. Numel(m, l, offset[r], s, R) - 1 \in Int  BY <4>2, ModeFacts
      <4>4. RanR(block'[r][k % m.numBlocks], partition[r]) = RanR(block[r][k % m.numBlocks], partition[r])
        BY <4>3, <1>2
      <4> QED BY <4>4, <3>1 DEF DataPart, DataCell
    <3> QED BY <2>2, <3>1, <3>2 DEF DataAt, DataOK
  <2> QED BY <2>1, <2>2
<1> QED BY <1>4, <1>5, <1>6, <1>7, <1>8

\* Of one block's record.
LEMMA UpdateBlock ==
    ASSUME NEW m \in Modes, block \in [RanksOf(m) -> [BlocksOf(m) -> BlockRec]],
           NEW a \in RanksOf(m), NEW b \in BlocksOf(m),
           NEW v \in BlockRec, block' = [block EXCEPT ![a][b] = v]
    PROVE  /\ block' \in [RanksOf(m) -> [BlocksOf(m) -> BlockRec]] /\ block'[a][b] = v
           /\ \A r \in RanksOf(m) : r # a => block'[r] = block[r]
           /\ \A r \in RanksOf(m), c \in BlocksOf(m) : r # a \/ c # b => block'[r][c] = block[r][c]
<1>2. /\ block' \in [RanksOf(m) -> [BlocksOf(m) -> BlockRec]]
      /\ block'[a][b] = v
      /\ \A r \in RanksOf(m) : r # a => block'[r] = block[r]
      /\ \A j \in BlocksOf(m) : j # b => block'[a][j] = block[a][j]
  BY Update2
<1> QED BY <1>2

\* A block leaves the kernel.
BlockExits(a, b) == block' = [block EXCEPT ![a][b].exited = TRUE]

\* A block that exits changes no round.
LEMMA BlockExitStep ==
    ASSUME NEW m \in Modes, mode = m, Types(m), Control(m), Content(m),
           NEW a \in RanksOf(m), NEW b \in BlocksOf(m),
           BlockExits(a, b), UNCHANGED <<hostVars, flagVars, bufferVars, netVars>>
    PROVE  mode' = m /\ Types(m)' /\ Control(m)' /\ Content(m)'
<1>1. UNCHANGED <<mode, host, partition, offset, post, done, posted, started, completed, data,
                  tmpSend, tmpRecv, wire, arrived, landed, notify, sync>>
  BY DEF hostVars, partVars, flagVars, bufferVars, netVars
<1> DEFINE v == [block[a][b] EXCEPT !.exited = TRUE]
<1>2. block \in [RanksOf(m) -> [BlocksOf(m) -> BlockRec]] /\ block[a][b] \in BlockRec  BY DEF Types, BlockTypes
<1>3. /\ v \in BlockRec /\ v.partition = block[a][b].partition /\ v.offset = block[a][b].offset
      /\ v.SendCopy = block[a][b].SendCopy /\ v.RecvRedCopy = block[a][b].RecvRedCopy
  BY <1>2 DEF BlockRec
<1>4. block' = [block EXCEPT ![a][b] = v]
  BY DEF BlockExits
<1> HIDE DEF v
<1>5. /\ block' \in [RanksOf(m) -> [BlocksOf(m) -> BlockRec]] /\ block'[a][b] = v
      /\ \A r \in RanksOf(m), c \in BlocksOf(m) : r # a \/ c # b => block'[r][c] = block[r][c]
  BY <1>2, <1>3, <1>4, UpdateBlock
<1>6. \A r \in RanksOf(m), c \in BlocksOf(m) :
         /\ block'[r][c].partition = block[r][c].partition /\ block'[r][c].offset = block[r][c].offset
         /\ block'[r][c].SendCopy = block[r][c].SendCopy
         /\ block'[r][c].RecvRedCopy = block[r][c].RecvRedCopy
  BY <1>3, <1>5
<1>7. Types(m)'  BY <1>1, <1>5 DEF Types, HostTypes, FlagTypes, BlockTypes, DataTypes, NetTypes
<1>8. ASSUME NEW r \in RanksOf(m)
      PROVE  HostAt(m, r)' /\ PairAt(m, r)' /\ FlagsAt(m, r)' /\ (\A c \in BlocksOf(m) : BlockAt(m, r, c)')
  <2>1. HostAt(m, r) /\ PairAt(m, r) /\ FlagsAt(m, r) /\ (\A c \in BlocksOf(m) : BlockAt(m, r, c))
    BY DEF Control
  <2>2. HostAt(m, r)'  BY <2>1, <1>1 DEF HostAt
  <2>3. PairAt(m, r)'  BY <2>1, <1>1 DEF PairAt
  <2>4. FlagsAt(m, r)'  BY <2>1, <1>1 DEF FlagsAt
  <2>5. ASSUME NEW c \in BlocksOf(m) PROVE BlockAt(m, r, c)'
    BY <2>1, <1>1, <1>6 DEF BlockAt, BlockOK, SameBlock, BehindBlock
  <2> QED BY <2>2, <2>3, <2>4, <2>5
<1>9. Control(m)'  BY <1>8 DEF Control
<1>10. Content(m)'  BY <1>1, <1>6, BlockContentFrame DEF RanS, RanR
<1> QED BY <1>1, <1>7, <1>9, <1>10

\* A block that finds the abort flag exits.
LEMMA BlockAbortStep ==
    ASSUME NEW m \in Modes, mode = m, Types(m), Control(m), Content(m),
           NEW a \in RanksOf(m), NEW b \in BlocksOf(m), BlockAbort(a, b)
    PROVE  mode' = m /\ Types(m)' /\ Control(m)' /\ Content(m)'
BY BlockExitStep DEF BlockAbort, BlockExits

\* A block at the end of its partition begins the next, or exits when there is none.
LEMMA BlockNextPartitionStep ==
    ASSUME NEW m \in Modes, mode = m, Types(m), Control(m), Content(m),
           NEW a \in RanksOf(m), NEW b \in BlocksOf(m), BlockNextPartition(a, b)
    PROVE  mode' = m /\ Types(m)' /\ Control(m)' /\ Content(m)'
<1> DEFINE bk == block[a][b]
<1> DEFINE N == bk.partition + 1
<1> DEFINE E == bk.offset + PartLen(m, bk.offset)
<1> DEFINE v == [partition |-> N, offset |-> E, SendCopy |-> RoundZero, RecvRedCopy |-> RoundZero,
                 exited |-> FALSE]
<1>1. UNCHANGED <<hostVars, flagVars, bufferVars, netVars>>  BY DEF BlockNextPartition
<1>2. PartitionNumel(bk.offset) = PartLen(m, bk.offset)  BY ModeIs
<1>3. CASE E = m.numElements
  <2>1. BlockExits(a, b)  BY <1>2, <1>3 DEF BlockNextPartition, BlockExits
  <2> QED BY <2>1, <1>1, BlockExitStep
<1>4. CASE E # m.numElements
  <2>1. started[a] >= N /\ block' = [block EXCEPT ![a][b] = v]
    BY <1>2, <1>4 DEF BlockNextPartition, PartitionStarted, NewBlock
  <2>2. UNCHANGED <<mode, host, partition, offset, post, done, posted, started, completed, data,
                    tmpSend, tmpRecv, wire, arrived, landed, notify, sync>>
    BY <1>1 DEF hostVars, partVars, flagVars, bufferVars, netVars
  <2>3. block \in [RanksOf(m) -> [BlocksOf(m) -> BlockRec]] /\ bk \in BlockRec  BY DEF Types, BlockTypes
  <2>4. partition[a] \in Nat /\ Good(m, offset[a])  BY HostFacts
  <2>5. FlagsAt(m, a) /\ BlockAt(m, a, b)  BY ControlAt
  <2>6. bk.partition # partition[a]
    <3>1. started[a] = kUnset \/ started[a] = partition[a]  BY <2>5 DEF FlagsAt, FlagsOK
    <3> QED BY <3>1, <2>1, <2>4 DEF kUnset
  <2>7. BehindBlock(m, a, host[a], partition[a], offset[a], bk, completed[a]["SendCopy"][b],
                    completed[a]["RecvRedCopy"][b], done[a].SendCopy.round, done[a].RecvRedCopy.round)
    BY <2>5, <2>6 DEF BlockAt, BlockOK, SameBlock
  <2>8. N = partition[a] /\ E = offset[a]  BY <2>7 DEF BehindBlock
  <2>9. /\ v \in BlockRec /\ v.partition = partition[a] /\ v.offset = offset[a]
        /\ v.SendCopy = RoundZero /\ v.RecvRedCopy = RoundZero
    <3>1. RoundZero \in Counter  BY DEF RoundZero, Counter
    <3>2. offset[a] \in Nat  BY <2>4 DEF Good
    <3> HIDE DEF N, E
    <3> QED BY <3>1, <3>2, <2>4, <2>8 DEF BlockRec
  <2> HIDE DEF v
  <2>10. /\ block' \in [RanksOf(m) -> [BlocksOf(m) -> BlockRec]] /\ block'[a][b] = v
         /\ \A r \in RanksOf(m), c \in BlocksOf(m) : r # a \/ c # b => block'[r][c] = block[r][c]
    BY <2>1, <2>3, <2>9, UpdateBlock
  <2>11. Types(m)'  BY <2>2, <2>10 DEF Types, HostTypes, FlagTypes, BlockTypes, DataTypes, NetTypes
  <2>12. BlockAt(m, a, b)'
    <3>1. /\ post[a].SendCopy.round \in Nat /\ post[a].RecvRedCopy.round \in Nat
          /\ LeftOf(m, a) \in RanksOf(m)
      BY HostFacts, Rounds, NeighbourFacts
    <3>2. First(m, a, offset[a]) \in Nat  BY <2>4, FirstIs
    <3>3. /\ Valid(m, a, offset[a], RoundZero) /\ Valid(m, LeftOf(m, a), offset[a], RoundZero)
          /\ RoundZero.round = 0
      BY <2>4, <3>1, ZeroValid
    <3>4. SameBlock(m, a, host[a], partition[a], offset[a], v, completed[a]["SendCopy"][b],
                    completed[a]["RecvRedCopy"][b], post[a].SendCopy.round, post[a].RecvRedCopy.round,
                    done[a].SendCopy.round, done[a].RecvRedCopy.round)
      BY <2>7, <2>9, <3>1, <3>2, <3>3 DEF SameBlock, BehindBlock, kUnset
    <3> QED BY <3>4, <2>2, <2>10 DEF BlockAt, BlockOK
  <2>13. ASSUME NEW r \in RanksOf(m)
         PROVE  HostAt(m, r)' /\ PairAt(m, r)' /\ FlagsAt(m, r)' /\ (\A c \in BlocksOf(m) : BlockAt(m, r, c)')
    <3>1. HostAt(m, r) /\ PairAt(m, r) /\ FlagsAt(m, r) /\ (\A c \in BlocksOf(m) : BlockAt(m, r, c))
      BY DEF Control
    <3>2. HostAt(m, r)'  BY <3>1, <2>2 DEF HostAt
    <3>3. PairAt(m, r)'  BY <3>1, <2>2 DEF PairAt
    <3>4. FlagsAt(m, r)'  BY <3>1, <2>2 DEF FlagsAt
    <3>5. ASSUME NEW c \in BlocksOf(m) PROVE BlockAt(m, r, c)'
      <4>1. CASE r # a \/ c # b  BY <4>1, <3>1, <2>2, <2>10 DEF BlockAt
      <4> QED BY <4>1, <2>12
    <3> QED BY <3>2, <3>3, <3>4, <3>5
  <2>14. Control(m)'  BY <2>13 DEF Control
  <2>15. \A r \in RanksOf(m), c \in BlocksOf(m) :
            /\ RanS(block'[r][c], partition[r]) = RanS(block[r][c], partition[r])
            /\ RanR(block'[r][c], partition[r]) = RanR(block[r][c], partition[r])
    <3>1. RoundZero.round = 0  BY DEF RoundZero
    <3> QED BY <3>1, <2>6, <2>9, <2>10 DEF RanS, RanR
  <2>16. Content(m)'  BY <2>2, <2>15, BlockContentFrame
  <2> QED BY <2>2, <2>11, <2>14, <2>16
<1> QED BY <1>3, <1>4

\* Of one entry of the complete flags.
LEMMA Update3 ==
    ASSUME NEW R, NEW I, NEW B, NEW V, NEW f \in [R -> [I -> [B -> V]]], NEW a \in R, NEW i \in I,
           NEW b \in B, NEW v \in V, NEW g, g = [f EXCEPT ![a][i][b] = v]
    PROVE  /\ g \in [R -> [I -> [B -> V]]]
           /\ g[a][i][b] = v
           /\ \A r \in R, j \in I, c \in B : r # a \/ j # i \/ c # b => g[r][j][c] = f[r][j][c]
<1> DEFINE w == [f[a][i] EXCEPT ![b] = v]
<1>1. g = [f EXCEPT ![a][i] = w]  OBVIOUS
<1>2. w \in [B -> V] /\ w[b] = v /\ \A c \in B : c # b => w[c] = f[a][i][c]  OBVIOUS
<1> HIDE DEF w
<1>3. /\ g \in [R -> [I -> [B -> V]]]
      /\ \A r \in R : r # a => g[r] = f[r]
      /\ g[a][i] = w /\ \A j \in I : j # i => g[a][j] = f[a][j]
  <2>1. f \in [R -> [I -> [B -> V]]] /\ w \in [B -> V]  BY <1>2
  <2>2. ASSUME NEW W, f \in [R -> [I -> W]], w \in W, NEW h, h = [f EXCEPT ![a][i] = w]
        PROVE  /\ h \in [R -> [I -> W]]
               /\ \A r \in R : r # a => h[r] = f[r]
               /\ h[a][i] = w /\ \A j \in I : j # i => h[a][j] = f[a][j]
    BY <2>2, Update2
  <2> QED BY <1>1, <2>1, <2>2
<1> QED BY <1>2, <1>3

\* A block that finds an operation posted works on the host's partition, and behind the
\* host's posts.
LEMMA PostedSend ==
    ASSUME NEW m \in Modes, mode = m, Types(m), Control(m), NEW a \in RanksOf(m), NEW b \in BlocksOf(m),
           Posted(a, b, "SendCopy")
    PROVE  /\ host[a] # "done"
           /\ SameBlock(m, a, host[a], partition[a], offset[a], block[a][b],
                  completed[a]["SendCopy"][b], completed[a]["RecvRedCopy"][b],
                  post[a].SendCopy.round, post[a].RecvRedCopy.round,
                  done[a].SendCopy.round, done[a].RecvRedCopy.round)
           /\ block[a][b].SendCopy.round \in Nat
           /\ block[a][b].SendCopy.round < First(m, a, offset[a])
           /\ block[a][b].SendCopy.round < post[a].SendCopy.round
<1> DEFINE bk == block[a][b]
<1>1. /\ ~AllRounds("SendCopy", bk.SendCopy) /\ posted[a]["SendCopy"] >= bk.SendCopy.round
  BY DEF Posted
<1>2. BlockAt(m, a, b) /\ FlagsAt(m, a)  BY ControlAt
<1>3. /\ Good(m, offset[a]) /\ post[a].SendCopy.round \in Nat /\ done[a].SendCopy.round \in Nat
      /\ HostRounds(m, a, host[a], offset[a], post[a], done[a], landed[a], sync[a])
  BY HostFacts, Rounds
<1>4. ASSUME NEW p, Good(m, p), Valid(m, a, p, bk.SendCopy), bk.SendCopy.round <= First(m, a, p)
      PROVE  bk.SendCopy.round \in Nat /\ bk.SendCopy.round < First(m, a, p)
  <2>1. Origin(m, a, "SendCopy") = a /\ Bound(m, a, p, "SendCopy") = First(m, a, p)
    BY OriginFacts DEF Bound
  <2>2. bk.SendCopy.round # First(m, a, p)  BY <1>1, <1>4, <2>1, AllRoundsIs
  <2>3. bk.SendCopy.round \in Nat /\ First(m, a, p) \in Nat  BY <1>4, CounterFacts, FirstIs
  <2> QED BY <1>4, <2>2, <2>3
<1>5. SameBlock(m, a, host[a], partition[a], offset[a], block[a][b],
          completed[a]["SendCopy"][b], completed[a]["RecvRedCopy"][b],
          post[a].SendCopy.round, post[a].RecvRedCopy.round,
          done[a].SendCopy.round, done[a].RecvRedCopy.round)
  <2> SUFFICES ASSUME BehindBlock(m, a, host[a], partition[a], offset[a], bk, completed[a]["SendCopy"][b],
                    completed[a]["RecvRedCopy"][b], done[a].SendCopy.round, done[a].RecvRedCopy.round)
               PROVE FALSE
    BY <1>2 DEF BlockAt, BlockOK
  <2>1. /\ Good(m, bk.offset) /\ Valid(m, a, bk.offset, bk.SendCopy)
        /\ bk.SendCopy.round = First(m, a, bk.offset)
    BY DEF BehindBlock
  <2>2. First(m, a, bk.offset) \in Nat  BY <2>1, FirstIs
  <2>3. bk.SendCopy.round <= First(m, a, bk.offset)  BY <2>1, <2>2
  <2>4. bk.SendCopy.round < First(m, a, bk.offset)  BY <2>1, <2>3, <1>4
  <2> QED BY <2>1, <2>2, <2>4
<1>6. bk.SendCopy.round \in Nat /\ bk.SendCopy.round < First(m, a, offset[a])
  BY <1>3, <1>4, <1>5 DEF SameBlock
<1>7. First(m, a, offset[a]) \in Nat  BY <1>3, FirstIs
<1>8. host[a] # "done"
  <2> SUFFICES ASSUME host[a] = "done" PROVE FALSE
    OBVIOUS
  <2>1. done[a].SendCopy.round = First(m, a, offset[a])  BY <1>3 DEF HostRounds
  <2>2. done[a].SendCopy.round <= bk.SendCopy.round  BY <1>5 DEF SameBlock
  <2> QED BY <2>1, <2>2, <1>6, <1>7
<1>9. bk.SendCopy.round < post[a].SendCopy.round
  <2>1. posted[a]["SendCopy"] = post[a].SendCopy.round - 1  BY <1>2, <1>8 DEF FlagsAt, FlagsOK
  <2> QED BY <2>1, <1>1, <1>3, <1>6
<1> QED BY <1>5, <1>6, <1>8, <1>9

\* The same for reductions.
LEMMA PostedRecv ==
    ASSUME NEW m \in Modes, mode = m, Types(m), Control(m), NEW a \in RanksOf(m), NEW b \in BlocksOf(m),
           Posted(a, b, "RecvRedCopy")
    PROVE  /\ host[a] # "done"
           /\ SameBlock(m, a, host[a], partition[a], offset[a], block[a][b],
                  completed[a]["SendCopy"][b], completed[a]["RecvRedCopy"][b],
                  post[a].SendCopy.round, post[a].RecvRedCopy.round,
                  done[a].SendCopy.round, done[a].RecvRedCopy.round)
           /\ block[a][b].RecvRedCopy.round \in Nat
           /\ block[a][b].RecvRedCopy.round < Total(m, LeftOf(m, a), offset[a])
           /\ block[a][b].RecvRedCopy.round < post[a].RecvRedCopy.round
<1> DEFINE bk == block[a][b]
<1> DEFINE l == LeftOf(m, a)
<1>0. l \in RanksOf(m)  BY NeighbourFacts
<1>1. ~AllRounds("RecvRedCopy", bk.RecvRedCopy) /\ posted[a]["RecvRedCopy"] >= bk.RecvRedCopy.round
  BY DEF Posted
<1>2. BlockAt(m, a, b) /\ FlagsAt(m, a)  BY ControlAt
<1>3. /\ Good(m, offset[a]) /\ post[a].RecvRedCopy.round \in Nat /\ done[a].RecvRedCopy.round \in Nat
      /\ HostRounds(m, a, host[a], offset[a], post[a], done[a], landed[a], sync[a])
  BY HostFacts, Rounds
<1>4. ASSUME NEW p, Good(m, p), Valid(m, l, p, bk.RecvRedCopy)
      PROVE  bk.RecvRedCopy.round \in Nat /\ bk.RecvRedCopy.round < Total(m, l, p)
  <2>1. Origin(m, a, "RecvRedCopy") = l /\ Bound(m, a, p, "RecvRedCopy") = Total(m, l, p)
    BY OriginFacts DEF Bound
  <2>2. bk.RecvRedCopy.round \in Nat /\ Total(m, l, p) \in Nat /\ bk.RecvRedCopy.round <= Total(m, l, p)
    BY <1>0, <1>4, CounterFacts, FirstIs
  <2>3. bk.RecvRedCopy.round # Total(m, l, p)  BY <1>1, <1>4, <2>1, <2>2, AllRoundsIs
  <2> QED BY <2>2, <2>3
<1>5. SameBlock(m, a, host[a], partition[a], offset[a], block[a][b],
          completed[a]["SendCopy"][b], completed[a]["RecvRedCopy"][b],
          post[a].SendCopy.round, post[a].RecvRedCopy.round,
          done[a].SendCopy.round, done[a].RecvRedCopy.round)
  <2> SUFFICES ASSUME BehindBlock(m, a, host[a], partition[a], offset[a], bk, completed[a]["SendCopy"][b],
                    completed[a]["RecvRedCopy"][b], done[a].SendCopy.round, done[a].RecvRedCopy.round)
               PROVE FALSE
    BY <1>2 DEF BlockAt, BlockOK
  <2>1. /\ Good(m, bk.offset) /\ Valid(m, l, bk.offset, bk.RecvRedCopy)
        /\ bk.RecvRedCopy.round = Total(m, l, bk.offset)
    BY DEF BehindBlock
  <2>2. Total(m, l, bk.offset) \in Nat  BY <1>0, <2>1, FirstIs
  <2>4. bk.RecvRedCopy.round < Total(m, l, bk.offset)  BY <2>1, <1>4
  <2> QED BY <2>1, <2>2, <2>4
<1>6. bk.RecvRedCopy.round \in Nat /\ bk.RecvRedCopy.round < Total(m, l, offset[a])
  BY <1>3, <1>4, <1>5 DEF SameBlock
<1>7. Total(m, l, offset[a]) \in Nat  BY <1>0, <1>3, FirstIs
<1>8. host[a] # "done"
  <2> SUFFICES ASSUME host[a] = "done" PROVE FALSE
    OBVIOUS
  <2>1. done[a].RecvRedCopy.round = Total(m, l, offset[a])  BY <1>3 DEF HostRounds
  <2>2. done[a].RecvRedCopy.round <= bk.RecvRedCopy.round  BY <1>5 DEF SameBlock
  <2> QED BY <2>1, <2>2, <1>6, <1>7
<1>9. bk.RecvRedCopy.round < post[a].RecvRedCopy.round
  <2>1. posted[a]["RecvRedCopy"] = post[a].RecvRedCopy.round - 1  BY <1>2, <1>8 DEF FlagsAt, FlagsOK
  <2> QED BY <2>1, <1>1, <1>3, <1>6
<1> QED BY <1>5, <1>6, <1>8, <1>9

\* What a round that a block has run may have written to tmpSendBuf is not more than the
\* buffer's chunks ahead of what has arrived.
LEMMA WrittenWindow ==
    ASSUME NEW m \in Modes, mode = m, Types(m), Control(m), NEW a \in RanksOf(m), NEW b \in BlocksOf(m),
           host[a] # "done", NEW s \in 0 .. Steps(m) - 1, NEW R \in RoundsOf(m, a, offset[a], s),
           Written(m, a, offset[a], partition[a], s, R, block[a][b])
    PROVE  R < landed[a] + m.numChunks
<1> DEFINE bk == block[a][b]
<1> DEFINE p == offset[a]
<1> DEFINE F == First(m, a, p)
<1> DEFINE l == LeftOf(m, a)
<1> DEFINE K == m.numChunks
<1> DEFINE y == done[a].SendTrans.round
<1> DEFINE P == post[a].RecvRedCopy.round
<1> DEFINE S == post[a].SendCopy.round
<1>1. /\ Good(m, p) /\ S \in Nat /\ P \in Nat /\ y \in Nat /\ landed[a] \in Nat /\ l \in RanksOf(m)
      /\ HostRounds(m, a, host[a], p, post[a], done[a], landed[a], sync[a])
  BY HostFacts, Rounds, NeighbourFacts
<1>2. y <= landed[a] /\ S <= y + K /\ Window(m, a, p, P, y)  BY <1>1 DEF HostRounds
<1>3. R \in Nat /\ Start(m, a, p, s) <= R /\ R < Start(m, a, p, s + 1)  BY <1>1, ChunkFacts
<1>4. K \in Nat /\ Steps(m) \in Nat /\ Steps(m) >= 2  BY ModeFacts
<1>5. bk.partition = partition[a]
  <2> SUFFICES ASSUME bk.partition # partition[a] PROVE FALSE
    OBVIOUS
  <2>1. RanS(bk, partition[a]) = 0 /\ RanR(bk, partition[a]) = 0  BY DEF RanS, RanR
  <2>2. CASE s = 0  BY <2>1, <2>2, <1>3 DEF Written
  <2>3. CASE s # 0
    <3>1. 1 \in 0 .. Steps(m) /\ s \in 0 .. Steps(m) /\ (s = 1 \/ 1 < s)  BY <2>3, <1>4
    <3>2. F \in Nat /\ Start(m, a, p, s) \in Nat  BY <3>1, <1>1, StartFacts DEF First
    <3>3. 1 < s => F < Start(m, a, p, s)  BY <3>1, <1>1, StartFacts DEF First
    <3>4. s = 1 => F = Start(m, a, p, s)  BY DEF First
    <3>5. F + 0 > R  BY <2>1, <2>3 DEF Written
    <3> HIDE DEF F, p
    <3> QED BY <3>1, <3>2, <3>3, <3>4, <3>5, <1>3
  <2> QED BY <2>2, <2>3
<1>6. SameBlock(m, a, host[a], partition[a], offset[a], bk,
          completed[a]["SendCopy"][b], completed[a]["RecvRedCopy"][b], S, P,
          done[a].SendCopy.round, done[a].RecvRedCopy.round)
  <2>1. BlockAt(m, a, b)  BY ControlAt
  <2>2. bk.partition + 1 # partition[a]
    <3>1. bk.partition \in Nat  BY DEF Types, BlockTypes, BlockRec
    <3> QED BY <3>1, <1>5
  <2> QED BY <2>1, <2>2 DEF BlockAt, BlockOK, BehindBlock
<1>7. /\ bk.SendCopy.round <= S /\ bk.RecvRedCopy.round <= P
      /\ bk.SendCopy.round \in Nat /\ bk.RecvRedCopy.round \in Nat
  BY <1>6 DEF SameBlock, Types, BlockTypes, BlockRec, Counter
<1>8. RanS(bk, partition[a]) = bk.SendCopy.round /\ RanR(bk, partition[a]) = bk.RecvRedCopy.round
  BY <1>5 DEF RanS, RanR
<1>9. CASE s = 0
  <2>1. bk.SendCopy.round > R  BY <1>8, <1>9 DEF Written
  <2> HIDE DEF bk, S, y, K
  <2> QED BY <2>1, <1>1, <1>2, <1>3, <1>4, <1>7 DEF K
<1>10. CASE s # 0
  <2>1. F + bk.RecvRedCopy.round > R  BY <1>8, <1>10 DEF Written
  <2>2. F \in Nat  BY <1>1, FirstIs
  <2>3. s \in 0 .. Steps(m) /\ s < Steps(m) /\ 1 \in 0 .. Steps(m) /\ Steps(m) - 1 \in 0 .. Steps(m)
        /\ (s = 1 \/ 1 < s) /\ (s = Steps(m) - 1 \/ s < Steps(m) - 1)
    BY <1>4, <1>10
  <2>4. /\ Start(m, a, p, s) \in Nat
        /\ s = 1 => Start(m, a, p, s) = F
        /\ 1 < s => F < Start(m, a, p, s)
    BY <2>3, <1>1, StartFacts DEF First
  <2>5. Start(m, a, p, s + 1) = Start(m, l, p, s) + F  BY <2>3, <1>1, StartFacts
  <2>6. /\ Start(m, l, p, s) \in Nat /\ Start(m, l, p, Steps(m) - 1) \in Nat
        /\ s < Steps(m) - 1 => Start(m, l, p, s) < Start(m, l, p, Steps(m) - 1)
        /\ s = Steps(m) - 1 => Start(m, l, p, s) = Start(m, l, p, Steps(m) - 1)
    BY <2>3, <1>1, StartFacts
  <2> DEFINE Z == Start(m, l, p, Steps(m) - 1)
  <2> DEFINE D == R - F
  <2>7. R >= F
    <3> HIDE DEF F
    <3> QED BY <2>2, <2>3, <2>4, <1>3
  <2>8. D \in Nat /\ D < P /\ D < Z
    <3>1. D \in Nat /\ R = F + D  BY <2>2, <2>7, <1>3
    <3>2. D < P
      <4> HIDE DEF F, D, P, bk
      <4> QED BY <2>1, <2>2, <3>1, <1>1, <1>7
    <3>3. R < Start(m, l, p, s) + F  BY <2>5, <1>3
    <3>4. Start(m, l, p, s) <= Z /\ Z \in Nat  BY <2>3, <2>6
    <3> HIDE DEF F, D, Z
    <3>5. D < Z  BY <3>1, <3>3, <3>4, <2>2, <2>6
    <3> QED BY <3>1, <3>2, <3>5
  <2>9. F + D < y + K  BY <2>8, <1>2 DEF Window
  <2>10. F + D = R  BY <2>2, <1>3
  <2> HIDE DEF D, F, y, K
  <2> QED BY <2>9, <2>10, <1>1, <1>2, <1>3, <1>4 DEF K
<1> QED BY <1>9, <1>10

\* Rounds that are less than the buffer's chunks apart do not share a chunk.
LEMMA ChunkApart ==
    ASSUME NEW K \in Nat \ {0}, NEW la \in Nat, NEW x \in Nat, NEW y \in Nat,
           la <= x, x < la + K, la <= y, y < la + K, x # y
    PROVE  x % K # y % K
<1>1. CASE x < y
  <2>1. y < x + K  BY <1>1
  <2> QED BY <1>1, <2>1, ModDistinct
<1>2. CASE y < x
  <2>1. x < y + K  BY <1>2
  <2> QED BY <1>2, <2>1, ModDistinct
<1> QED BY <1>1, <1>2

\* What a block's completion of a copy changes.
LEMMA CompleteSend ==
    ASSUME NEW m \in Modes, Types(m), NEW a \in RanksOf(m), NEW b \in BlocksOf(m),
           Complete(a, b, "SendCopy"),
           NEW x, x = Advance(a, "SendCopy", block[a][b].offset, block[a][b].SendCopy), x \in Counter
    PROVE  /\ block' \in [RanksOf(m) -> [BlocksOf(m) -> BlockRec]]
           /\ block'[a][b].partition = block[a][b].partition
           /\ block'[a][b].offset = block[a][b].offset
           /\ block'[a][b].RecvRedCopy = block[a][b].RecvRedCopy
           /\ block'[a][b].SendCopy = x
           /\ \A r \in RanksOf(m), c \in BlocksOf(m) : r # a \/ c # b => block'[r][c] = block[r][c]
           /\ completed' \in [RanksOf(m) -> [KernelOps -> [BlocksOf(m) -> Int]]]
           /\ completed'[a]["SendCopy"][b] = block[a][b].SendCopy.round
           /\ \A r \in RanksOf(m), j \in KernelOps, c \in BlocksOf(m) :
                 r # a \/ j # "SendCopy" \/ c # b => completed'[r][j][c] = completed[r][j][c]
<1> DEFINE v == [block[a][b] EXCEPT !.SendCopy = x]
<1>1. block \in [RanksOf(m) -> [BlocksOf(m) -> BlockRec]] /\ block[a][b] \in BlockRec
  BY DEF Types, BlockTypes
<1>2. block' = [block EXCEPT ![a][b] = v]  BY DEF Complete
<1>3. /\ v \in BlockRec /\ v.partition = block[a][b].partition /\ v.offset = block[a][b].offset
      /\ v.RecvRedCopy = block[a][b].RecvRedCopy /\ v.SendCopy = x
  <2> HIDE DEF Counter
  <2> QED BY <1>1 DEF BlockRec
<1> HIDE DEF v
<1>4. /\ block' \in [RanksOf(m) -> [BlocksOf(m) -> BlockRec]] /\ block'[a][b] = v
      /\ \A r \in RanksOf(m), c \in BlocksOf(m) : r # a \/ c # b => block'[r][c] = block[r][c]
  BY <1>1, <1>2, <1>3, UpdateBlock
<1> DEFINE n == block[a][b].SendCopy.round
<1>5. n \in Int /\ "SendCopy" \in KernelOps  BY <1>1 DEF BlockRec, Counter, KernelOps
<1>6. completed \in [RanksOf(m) -> [KernelOps -> [BlocksOf(m) -> Int]]]  BY DEF Types, FlagTypes
<1>7. completed' = [completed EXCEPT ![a]["SendCopy"][b] = n]  BY DEF Complete
<1> HIDE DEF n
<1>8. /\ completed' \in [RanksOf(m) -> [KernelOps -> [BlocksOf(m) -> Int]]]
      /\ completed'[a]["SendCopy"][b] = n
      /\ \A r \in RanksOf(m), j \in KernelOps, c \in BlocksOf(m) :
            r # a \/ j # "SendCopy" \/ c # b => completed'[r][j][c] = completed[r][j][c]
  BY <1>5, <1>6, <1>7, Update3
<1> QED BY <1>3, <1>4, <1>8 DEF n

\* What a block's completion of a reduction changes.
LEMMA CompleteRecv ==
    ASSUME NEW m \in Modes, Types(m), NEW a \in RanksOf(m), NEW b \in BlocksOf(m),
           Complete(a, b, "RecvRedCopy"),
           NEW x, x = Advance(a, "RecvRedCopy", block[a][b].offset, block[a][b].RecvRedCopy), x \in Counter
    PROVE  /\ block' \in [RanksOf(m) -> [BlocksOf(m) -> BlockRec]]
           /\ block'[a][b].partition = block[a][b].partition
           /\ block'[a][b].offset = block[a][b].offset
           /\ block'[a][b].SendCopy = block[a][b].SendCopy
           /\ block'[a][b].RecvRedCopy = x
           /\ \A r \in RanksOf(m), c \in BlocksOf(m) : r # a \/ c # b => block'[r][c] = block[r][c]
           /\ completed' \in [RanksOf(m) -> [KernelOps -> [BlocksOf(m) -> Int]]]
           /\ completed'[a]["RecvRedCopy"][b] = block[a][b].RecvRedCopy.round
           /\ \A r \in RanksOf(m), j \in KernelOps, c \in BlocksOf(m) :
                 r # a \/ j # "RecvRedCopy" \/ c # b => completed'[r][j][c] = completed[r][j][c]
<1> DEFINE v == [block[a][b] EXCEPT !.RecvRedCopy = x]
<1>1. block \in [RanksOf(m) -> [BlocksOf(m) -> BlockRec]] /\ block[a][b] \in BlockRec
  BY DEF Types, BlockTypes
<1>2. block' = [block EXCEPT ![a][b] = v]  BY DEF Complete
<1>3. /\ v \in BlockRec /\ v.partition = block[a][b].partition /\ v.offset = block[a][b].offset
      /\ v.SendCopy = block[a][b].SendCopy /\ v.RecvRedCopy = x
  <2> HIDE DEF Counter
  <2> QED BY <1>1 DEF BlockRec
<1> HIDE DEF v
<1>4. /\ block' \in [RanksOf(m) -> [BlocksOf(m) -> BlockRec]] /\ block'[a][b] = v
      /\ \A r \in RanksOf(m), c \in BlocksOf(m) : r # a \/ c # b => block'[r][c] = block[r][c]
  BY <1>1, <1>2, <1>3, UpdateBlock
<1> DEFINE n == block[a][b].RecvRedCopy.round
<1>5. n \in Int /\ "RecvRedCopy" \in KernelOps  BY <1>1 DEF BlockRec, Counter, KernelOps
<1>6. completed \in [RanksOf(m) -> [KernelOps -> [BlocksOf(m) -> Int]]]  BY DEF Types, FlagTypes
<1>7. completed' = [completed EXCEPT ![a]["RecvRedCopy"][b] = n]  BY DEF Complete
<1> HIDE DEF n
<1>8. /\ completed' \in [RanksOf(m) -> [KernelOps -> [BlocksOf(m) -> Int]]]
      /\ completed'[a]["RecvRedCopy"][b] = n
      /\ \A r \in RanksOf(m), j \in KernelOps, c \in BlocksOf(m) :
            r # a \/ j # "RecvRedCopy" \/ c # b => completed'[r][j][c] = completed[r][j][c]
  BY <1>5, <1>6, <1>7, Update3
<1> QED BY <1>3, <1>4, <1>8 DEF n

\* A block's step leaves everything but its own record and complete flags to the others.
LEMMA BlockControl ==
    ASSUME NEW m \in Modes, mode = m, Control(m), NEW a \in RanksOf(m), NEW b \in BlocksOf(m),
           UNCHANGED <<host, partition, offset, post, done, posted, started, wire, arrived, landed,
                       notify, sync>>,
           \A r \in RanksOf(m), c \in BlocksOf(m) :
              r # a \/ c # b => /\ block'[r][c] = block[r][c]
                                /\ completed'[r]["SendCopy"][c] = completed[r]["SendCopy"][c]
                                /\ completed'[r]["RecvRedCopy"][c] = completed[r]["RecvRedCopy"][c],
           BlockAt(m, a, b)'
    PROVE  Control(m)'
<1> SUFFICES ASSUME NEW r \in RanksOf(m)
             PROVE  HostAt(m, r)' /\ PairAt(m, r)' /\ FlagsAt(m, r)' /\ (\A c \in BlocksOf(m) : BlockAt(m, r, c)')
  BY DEF Control
<1>1. HostAt(m, r) /\ PairAt(m, r) /\ FlagsAt(m, r) /\ (\A c \in BlocksOf(m) : BlockAt(m, r, c))
  BY DEF Control
<1>2. HostAt(m, r)'  BY <1>1 DEF HostAt
<1>3. PairAt(m, r)'  BY <1>1 DEF PairAt
<1>4. FlagsAt(m, r)'  BY <1>1 DEF FlagsAt
<1>5. ASSUME NEW c \in BlocksOf(m) PROVE BlockAt(m, r, c)'
  <2>1. CASE r # a \/ c # b  BY <2>1, <1>1 DEF BlockAt
  <2> QED BY <2>1
<1> QED BY <1>2, <1>3, <1>4, <1>5

\* While the first step's chunks are being copied nothing is received to be reduced, and
\* what has arrived is not beyond them.
LEMMA SendingFirst ==
    ASSUME NEW m \in Modes, mode = m, Types(m), Control(m), NEW a \in RanksOf(m), NEW R \in Nat,
           host[a] # "done", done[a].SendCopy.round <= R, R < First(m, a, offset[a]),
           R < post[a].SendCopy.round
    PROVE  /\ post[a].RecvRedCopy.round = 0
           /\ landed[a] <= R /\ R < landed[a] + m.numChunks
<1>1. /\ HostRounds(m, a, host[a], offset[a], post[a], done[a], landed[a], sync[a])
      /\ post[a] \in [Ops -> Counter] /\ done[a] \in [Ops -> Counter] /\ landed[a] \in Nat
      /\ Good(m, offset[a])
  BY HostFacts
<1>2. First(m, a, offset[a]) \in Nat /\ m.numChunks \in Nat  BY <1>1, FirstIs, ModeFacts
<1>3. post[a].RecvRedCopy.round = 0  BY <1>1, <1>2, Rounds DEF HostRounds
<1>4. done[a].RecvRedCopy.round = 0  BY <1>1, <1>3, Rounds DEF HostRounds
<1>5. post[a].SendTrans.round <= R  BY <1>1, <1>4, Rounds DEF HostRounds
<1>6. landed[a] <= post[a].SendTrans.round
  <2>1. landed[a] + Len(wire[a]) = post[a].SendTrans.round  BY ControlAt DEF PairAt, PairOK
  <2>2. wire[a] \in Seq(Put(m))  BY DEF Types, NetTypes
  <2>3. Len(wire[a]) \in Nat  BY <2>2, EmptySeq
  <2> QED BY <2>1, <2>3, <1>1
<1>7. landed[a] <= R  BY <1>1, <1>5, <1>6, Rounds
<1>8. R < landed[a] + m.numChunks
  <2>1. post[a].SendCopy.round <= done[a].SendTrans.round + m.numChunks
        /\ done[a].SendTrans.round <= landed[a]
    BY <1>1 DEF HostRounds
  <2> QED BY <2>1, <1>1, <1>2, Rounds
<1> QED BY <1>3, <1>7, <1>8

\* The data in the partition depend on a block only by the rounds it has reduced.
LEMMA DataPartFrame ==
    ASSUME NEW m \in Modes, NEW r \in RanksOf(m), NEW pr, NEW p, Good(m, p), NEW bks, NEW cks, NEW dt,
           DataPart(m, r, pr, p, bks, dt), \A d \in BlocksOf(m) : RanR(cks[d], pr) = RanR(bks[d], pr)
    PROVE  DataPart(m, r, pr, p, cks, dt)
<1> SUFFICES ASSUME NEW s \in m.nRanks - 2 .. Steps(m) - 1, NEW R \in RoundsOf(m, LeftOf(m, r), p, s),
                    NEW k \in 0 .. Numel(m, LeftOf(m, r), p, s, R) - 1
             PROVE  DataCell(m, r, pr, p, cks, dt, s, R, k)
  BY DEF DataPart
<1>0. LeftOf(m, r) \in RanksOf(m)  BY NeighbourFacts
<1>1. s \in 0 .. Steps(m) - 1 /\ LeftOf(m, r) \in RanksOf(m)  BY <1>0, ModeFacts
<1>2. Numel(m, LeftOf(m, r), p, s, R) \in 1 .. m.chunkNumel  BY <1>1, ChunkFacts
<1>3. k \in Nat  BY <1>2, ModeFacts
<1>4. k % m.numBlocks \in BlocksOf(m)  BY <1>3, ModRange, ModeFacts DEF BlocksOf
<1>5. RanR(cks[k % m.numBlocks], pr) = RanR(bks[k % m.numBlocks], pr)  BY <1>4
<1>6. DataCell(m, r, pr, p, bks, dt, s, R, k)  BY DEF DataPart
<1> QED BY <1>5, <1>6 DEF DataCell

\* Before the first step's chunks are all copied the own shard is what the rank contributes.
LEMMA OwnData ==
    ASSUME NEW m \in Modes, mode = m, Types(m), Control(m), Content(m), NEW a \in RanksOf(m),
           host[a] # "done", NEW R \in RoundsOf(m, a, offset[a], 0),
           NEW k \in 0 .. Numel(m, a, offset[a], 0, R) - 1,
           RanR(block[a][k % m.numBlocks], partition[a]) = 0
    PROVE  data[a][Elem(m, a, offset[a], 0, R) + k] = Value(m, a, 0, Elem(m, a, offset[a], 0, R) + k)
<1> DEFINE p == offset[a]
<1> DEFINE l == LeftOf(m, a)
<1> DEFINE e == Elem(m, a, p, 0, R) + k
<1> DEFINE s == m.nRanks - 1
<1>1. Good(m, p) /\ l \in RanksOf(m)  BY HostFacts, NeighbourFacts
<1>2. s \in m.nRanks - 2 .. Steps(m) - 1 /\ s \in 0 .. Steps(m) - 1  BY ModeFacts
<1>3. PICK T \in RoundsOf(m, l, p, s) :
         Numel(m, l, p, s, T) = Numel(m, a, p, 0, R) /\ Elem(m, l, p, s, T) = Elem(m, a, p, 0, R)
  BY <1>1, OwnShard
<1>4. T \in Nat  BY <1>1, <1>2, ChunkFacts
<1>5. DataPart(m, a, partition[a], p, block[a], data[a])  BY DEF Content, DataAt, DataOK
<1>6. k \in 0 .. Numel(m, l, p, s, T) - 1 /\ e = Elem(m, l, p, s, T) + k  BY <1>3
<1>7. ~ (RanR(block[a][k % m.numBlocks], partition[a]) > T)  BY <1>4
<1> HIDE DEF s, l, p
<1>8. data[a][e] = {<<a, e>>}  
  <2>1. DataCell(m, a, partition[a], p, block[a], data[a], s, T, k)
    BY <1>2, <1>5, <1>6 DEF DataPart, l
  <2> QED BY <2>1, <1>6, <1>7 DEF DataCell, l
<1>9. Value(m, a, 0, e) = {<<a, e>>}  BY ValueFirst
<1> QED BY <1>8, <1>9 DEF p

\* A block copies its positions of a chunk of the own shard to tmpSendBuf.
LEMMA BlockSendStep ==
    ASSUME NEW m \in Modes, mode = m, Types(m), Control(m), Content(m),
           NEW a \in RanksOf(m), NEW b \in BlocksOf(m), BlockSend(a, b)
    PROVE  mode' = m /\ Types(m)' /\ Control(m)' /\ Content(m)'
<1> DEFINE x == block[a][b].SendCopy
<1> DEFINE R == x.round
<1> DEFINE p == offset[a]
<1> DEFINE la == landed[a]
<1> DEFINE K == m.numChunks
<1> DEFINE nx == Advance(a, "SendCopy", p, x)
<1>1. /\ Posted(a, b, "SendCopy") /\ Complete(a, b, "SendCopy")
      /\ UNCHANGED <<mode, host, partition, offset, post, done, posted, started, data, tmpRecv,
                     wire, arrived, landed, notify, sync>>
  BY DEF BlockSend, hostVars, partVars, netVars
<1>2. /\ host[a] # "done"
      /\ SameBlock(m, a, host[a], partition[a], p, block[a][b],
             completed[a]["SendCopy"][b], completed[a]["RecvRedCopy"][b],
             post[a].SendCopy.round, post[a].RecvRedCopy.round,
             done[a].SendCopy.round, done[a].RecvRedCopy.round)
      /\ R \in Nat /\ R < First(m, a, p) /\ R < post[a].SendCopy.round
  BY <1>1, PostedSend
<1>3. /\ block[a][b].partition = partition[a] /\ block[a][b].offset = p /\ Valid(m, a, p, x)
      /\ done[a].SendCopy.round <= R
      /\ block[a][b].RecvRedCopy.round <= post[a].RecvRedCopy.round
  BY <1>2 DEF SameBlock
<1>4. /\ Good(m, p) /\ la \in Nat /\ post[a] \in [Ops -> Counter] /\ p \in Nat
      /\ First(m, a, p) \in Nat
  <2>1. Good(m, p) /\ la \in Nat /\ post[a] \in [Ops -> Counter] /\ p \in Nat  BY HostFacts
  <2> QED BY <2>1, FirstIs
<1>5. /\ post[a].RecvRedCopy.round = 0 /\ la <= R /\ R < la + K
  BY <1>2, <1>3, SendingFirst
<1>6. /\ x.step = 0 /\ x.start = Start(m, a, p, 0) /\ R \in RoundsOf(m, a, p, 0)
  <2> HIDE DEF x, p
  <2>1. ~ (x.step >= 1)  BY <1>2, <1>3, <1>4, CounterFacts DEF R
  <2>2. x.step \in 0 .. Steps(m) /\ Steps(m) >= 2  BY <1>3, <1>4, CounterFacts, ModeFacts
  <2>3. x.step = 0 /\ x.step # Steps(m)  BY <2>1, <2>2
  <2> QED BY <2>3, <1>3, <1>4, CounterFacts DEF R
<1>7. Valid(m, a, p, nx) /\ nx.round = R + 1 /\ nx \in Counter
  <2>1. Origin(m, a, "SendCopy") = a  BY OriginFacts
  <2>2. x.step # Steps(m)  BY <1>6, ModeFacts
  <2> HIDE DEF x, p
  <2>3. Valid(m, a, p, nx) /\ nx.round = x.round + 1  BY <2>1, <2>2, <1>3, <1>4, AdvanceFacts
  <2> QED BY <2>3 DEF Valid, R
<1> DEFINE N == Numel(m, a, p, 0, R)
<1> DEFINE E == Elem(m, a, p, 0, R)
<1>8. RoundArgs(a, "SendCopy", p, x).first = E /\ RoundArgs(a, "SendCopy", p, x).numel = N
  <2>1. Origin(m, a, "SendCopy") = a  BY OriginFacts
  <2>2. x.start = Start(m, Origin(m, a, "SendCopy"), p, x.step)  BY <2>1, <1>6
  <2> HIDE DEF x, p
  <2>3. /\ RoundArgs(a, "SendCopy", p, x).first = Elem(m, Origin(m, a, "SendCopy"), p, x.step, x.round)
        /\ RoundArgs(a, "SendCopy", p, x).numel = Numel(m, Origin(m, a, "SendCopy"), p, x.step, x.round)
    BY <2>2, RoundArgsIs
  <2> QED BY <2>1, <2>3, <1>6 DEF R
<1>9. /\ N \in 1 .. m.chunkNumel /\ N \in Nat /\ E \in Nat /\ E + N <= m.numElements
  <2>1. 0 \in 0 .. Steps(m) - 1  BY ModeFacts
  <2>2. /\ N \in 1 .. m.chunkNumel /\ E \in Nat /\ E + N <= p + PartLen(m, p)
    BY <2>1, <1>4, <1>6, ChunkFacts
  <2>3. p + PartLen(m, p) <= m.numElements /\ PartLen(m, p) \in Nat  BY <1>4, PartFacts
  <2>4. m.chunkNumel \in Nat /\ m.numElements \in Nat  BY ModeFacts
  <2> HIDE DEF N, E, p
  <2> QED BY <2>2, <2>3, <2>4, <1>4
<1> DEFINE c == R % K
<1> DEFINE old == tmpSend[a][c]
<1> DEFINE w == [k \in 0 .. m.chunkNumel - 1 |->
                  IF k \in 0 .. N - 1 /\ k % m.numBlocks = b THEN data[a][E + k] ELSE old[k]]
<1>10. tmpSend' = [tmpSend EXCEPT ![a][c] = w]
  <2>1. TmpChunk(R) = c  BY DEF TmpChunk
  <2>2. Positions = 0 .. m.chunkNumel - 1  BY ModeIs
  <2>3. \A k : k \in PartOf(b, N) <=> k \in 0 .. N - 1 /\ k % m.numBlocks = b  BY DEF PartOf
  <2>4. tmpSend' = [tmpSend EXCEPT ![a][TmpChunk(R)] =
            [k \in Positions |-> IF k \in PartOf(b, N) THEN data[a][E + k] ELSE tmpSend[a][TmpChunk(R)][k]]]
    <3> HIDE DEF p, N, E
    <3> QED BY <1>3, <1>8 DEF BlockSend, Write
  <2>5. w = [k \in Positions |-> IF k \in PartOf(b, N) THEN data[a][E + k] ELSE tmpSend[a][c][k]]
    <3> HIDE DEF N, E, c
    <3> QED BY <2>2, <2>3
  <2> HIDE DEF w, c, N, E, R
  <2> QED BY <2>1, <2>4, <2>5
<1>11. c \in 0 .. K - 1  BY <1>2, ModeFacts, ModRange
<1>12. /\ tmpSend \in [RanksOf(m) -> Buf(m)] /\ data \in [RanksOf(m) -> [ElementsOf(m) -> Vals(m)]]
  BY DEF Types, DataTypes
<1>13. w \in [0 .. m.chunkNumel - 1 -> Vals(m)]
  <2>1. old \in [0 .. m.chunkNumel - 1 -> Vals(m)]  BY <1>11, <1>12 DEF Buf
  <2> SUFFICES ASSUME NEW k \in 0 .. m.chunkNumel - 1
               PROVE  (IF k \in 0 .. N - 1 /\ k % m.numBlocks = b THEN data[a][E + k] ELSE old[k]) \in Vals(m)
    OBVIOUS
  <2>2. CASE k \in 0 .. N - 1
    <3>1. E + k \in ElementsOf(m)
      <4>1. m.numElements \in Nat  BY ModeFacts
      <4> HIDE DEF N, E
      <4> QED BY <4>1, <2>2, <1>9 DEF ElementsOf
    <3> HIDE DEF old, N, E
    <3> QED BY <3>1, <2>1, <1>12
  <2> HIDE DEF old, N, E
  <2> QED BY <2>1, <2>2
<1> HIDE DEF w
<1>14. /\ tmpSend' \in [RanksOf(m) -> Buf(m)]
       /\ \A r \in RanksOf(m) : r # a => tmpSend'[r] = tmpSend[r]
       /\ tmpSend'[a][c] = w
       /\ \A d \in 0 .. K - 1 : d # c => tmpSend'[a][d] = tmpSend[a][d]
  <2> HIDE DEF c
  <2>1. ASSUME NEW g, g = [tmpSend EXCEPT ![a][c] = w]
        PROVE  /\ g \in [RanksOf(m) -> Buf(m)]
               /\ \A r \in RanksOf(m) : r # a => g[r] = tmpSend[r]
               /\ g[a][c] = w
               /\ \A d \in 0 .. K - 1 : d # c => g[a][d] = tmpSend[a][d]
    <3>1. tmpSend \in [RanksOf(m) -> Buf(m)] /\ w \in [0 .. m.chunkNumel - 1 -> Vals(m)]
          /\ c \in 0 .. m.numChunks - 1
      BY <1>11, <1>12, <1>13
    <3> HIDE DEF w, old, R, x, p, la, nx, N, E
    <3>2. w \in [0 .. m.chunkNumel - 1 -> Vals(m)]  BY <3>1
    <3>3. tmpSend \in [RanksOf(m) -> Buf(m)]  BY <3>1
    <3>4. c \in 0 .. m.numChunks - 1 BY <3>1
    <3>5. ASSUME NEW I, NEW V, tmpSend \in [RanksOf(m) -> [I -> V]], c \in I, w \in V
          PROVE  /\ g \in [RanksOf(m) -> [I -> V]]
                 /\ \A r \in RanksOf(m) : r # a => g[r] = tmpSend[r]
                 /\ g[a][c] = w /\ \A d \in I : d # c => g[a][d] = tmpSend[a][d]
      BY <3>5, <2>1, Update2
    <3> QED BY <3>2, <3>3, <3>4, <3>5 DEF Buf
  <2> QED BY <1>10, <2>1
<1>15. /\ block' \in [RanksOf(m) -> [BlocksOf(m) -> BlockRec]]
       /\ block'[a][b].partition = partition[a]
       /\ block'[a][b].offset = p
       /\ block'[a][b].RecvRedCopy = block[a][b].RecvRedCopy
       /\ block'[a][b].SendCopy = nx
       /\ \A r \in RanksOf(m), d \in BlocksOf(m) : r # a \/ d # b => block'[r][d] = block[r][d]
       /\ completed' \in [RanksOf(m) -> [KernelOps -> [BlocksOf(m) -> Int]]]
       /\ completed'[a]["SendCopy"][b] = R
       /\ \A r \in RanksOf(m), j \in KernelOps, d \in BlocksOf(m) :
             r # a \/ j # "SendCopy" \/ d # b => completed'[r][j][d] = completed[r][j][d]
  <2>1. nx = Advance(a, "SendCopy", block[a][b].offset, block[a][b].SendCopy)  BY <1>3
  <2> HIDE DEF nx
  <2> QED BY <2>1, <1>1, <1>3, <1>7, CompleteSend
<1> HIDE DEF nx
<1>16. Types(m)'
  BY <1>1, <1>14, <1>15 DEF Types, HostTypes, FlagTypes, BlockTypes, DataTypes, NetTypes
<1>17. "SendCopy" \in KernelOps /\ "RecvRedCopy" \in KernelOps  BY DEF KernelOps
<1>18. BlockAt(m, a, b)'
  <2>1. done[a].SendCopy.round \in Nat /\ post[a].SendCopy.round \in Nat  BY HostFacts, Rounds
  <2>2. SameBlock(m, a, host[a], partition[a], p, block'[a][b],
             completed'[a]["SendCopy"][b], completed'[a]["RecvRedCopy"][b],
             post[a].SendCopy.round, post[a].RecvRedCopy.round,
             done[a].SendCopy.round, done[a].RecvRedCopy.round)
    <3>1. completed'[a]["RecvRedCopy"][b] = completed[a]["RecvRedCopy"][b]  BY <1>15, <1>17
    <3>2. /\ nx.round <= First(m, a, p) /\ done[a].SendCopy.round <= nx.round
          /\ nx.round <= post[a].SendCopy.round /\ R = nx.round - 1
      <4> HIDE DEF x, R, p
      <4> QED BY <2>1, <1>2, <1>3, <1>4, <1>7
    <3> QED BY <3>1, <3>2, <1>2, <1>7, <1>15 DEF SameBlock
  <2> QED BY <2>2, <1>1 DEF BlockAt, BlockOK
<1>19. Control(m)'
  <2>1. \A r \in RanksOf(m), d \in BlocksOf(m) :
           r # a \/ d # b => /\ block'[r][d] = block[r][d]
                             /\ completed'[r]["SendCopy"][d] = completed[r]["SendCopy"][d]
                             /\ completed'[r]["RecvRedCopy"][d] = completed[r]["RecvRedCopy"][d]
    BY <1>15, <1>17
  <2> QED BY <2>1, <1>1, <1>18, BlockControl
\* What the blocks have run.
<1>20. \A r \in RanksOf(m), d \in BlocksOf(m) :
          /\ RanR(block'[r][d], partition[r]) = RanR(block[r][d], partition[r])
          /\ r # a \/ d # b => RanS(block'[r][d], partition[r]) = RanS(block[r][d], partition[r])
  BY <1>3, <1>15 DEF RanR, RanS
<1>21. RanS(block[a][b], partition[a]) = R /\ RanS(block'[a][b], partition[a]) = R + 1
       /\ RanR(block[a][b], partition[a]) = 0
  <2>1. block[a][b].RecvRedCopy.round \in Nat  BY DEF Types, BlockTypes, BlockRec, Counter
  <2> QED BY <2>1, <1>3, <1>5, <1>7, <1>15 DEF RanS, RanR
<1>22. SendAt(m, a)'
  <2> SUFFICES ASSUME NEW s \in 0 .. Steps(m) - 1, NEW T \in RoundsOf(m, a, p, s),
                      NEW k \in 0 .. Numel(m, a, p, s, T) - 1, la <= T,
                      Written(m, a, p, partition[a], s, T, block'[a][k % m.numBlocks])
               PROVE  tmpSend'[a][T % K][k] = Value(m, a, s, Elem(m, a, p, s, T) + k)
    <3>1. SendOK(m, a, host[a], partition[a], p, la, block'[a], tmpSend'[a]) => SendAt(m, a)'
      BY <1>1 DEF SendAt
    <3> QED BY <3>1 DEF SendOK
  <2> DEFINE d == k % m.numBlocks
  <2>1. /\ T \in Nat /\ Numel(m, a, p, s, T) \in 1 .. m.chunkNumel  BY <1>4, ChunkFacts
  <2>2. /\ k \in Nat /\ k \in 0 .. m.chunkNumel - 1
    <3>1. m.chunkNumel \in Nat  BY ModeFacts
    <3> QED BY <3>1, <2>1
  <2>3. d \in BlocksOf(m)  BY <2>2, ModRange, ModeFacts DEF BlocksOf
  <2>4. ASSUME Written(m, a, p, partition[a], s, T, block[a][d])
        PROVE  tmpSend[a][T % K][k] = Value(m, a, s, Elem(m, a, p, s, T) + k) /\ T < la + K
    <3>1. SendAt(m, a)  BY DEF Content
    <3>2. T < la + K  BY <2>3, <2>4, <1>2, WrittenWindow
    <3> QED BY <3>1, <3>2, <2>4, <1>2 DEF SendAt, SendOK
  <2>5. T % K \in 0 .. K - 1  BY <2>1, ModeFacts, ModRange
  <2>6. CASE T # R
    <3>1. Written(m, a, p, partition[a], s, T, block[a][d])
      <4>1. CASE d # b  BY <4>1, <2>3, <1>15
      <4>2. CASE d = b /\ s # 0  BY <4>2, <1>20 DEF Written
      <4>3. CASE d = b /\ s = 0
        <5>1. R + 1 > T  BY <4>3, <1>21 DEF Written
        <5>2. R > T
          <6> HIDE DEF R
          <6> QED BY <5>1, <2>1, <2>6, <1>2
        <5> QED BY <5>2, <4>3, <1>21 DEF Written
      <4> QED BY <4>1, <4>2, <4>3
    <3>2. T % K # c
      <4>1. T < la + K  BY <3>1, <2>4
      <4>2. K \in Nat \ {0}  BY ModeFacts
      <4> HIDE DEF R, la, K
      <4> QED BY <4>1, <4>2, <2>1, <2>6, <1>2, <1>4, <1>5, ChunkApart
    <3> QED BY <3>1, <3>2, <2>4, <2>5, <1>14
  <2>7. CASE T = R
    <3>1. s = 0
      <4>1. 0 \in 0 .. Steps(m) - 1  BY ModeFacts
      <4> HIDE DEF R, p
      <4> QED BY <4>1, <2>7, <1>4, <1>6, StepUnique
    <3>2. CASE d = b
      <4>1. k \in 0 .. N - 1  BY <2>7, <3>1
      <4>2. tmpSend'[a][T % K][k] = data[a][E + k]
        <5>1. w[k] = data[a][E + k]  BY <4>1, <3>2, <2>2 DEF w
        <5> QED BY <5>1, <2>7, <1>14
      <4>3. RanR(block[a][k % m.numBlocks], partition[a]) = 0  BY <3>2, <1>21
      <4>4. data[a][E + k] = Value(m, a, 0, E + k)
        <5> HIDE DEF R
        <5> QED BY <4>1, <4>3, <1>2, <1>6, OwnData
      <4> QED BY <4>2, <4>4, <2>7, <3>1
    <3>3. CASE d # b
      <4>1. Written(m, a, p, partition[a], s, T, block[a][d])  BY <3>3, <2>3, <1>15
      <4>2. w[k] = tmpSend[a][c][k]  BY <3>3, <2>2 DEF w
      <4> QED BY <4>1, <4>2, <2>4, <2>7, <1>14
    <3> QED BY <3>2, <3>3
  <2> QED BY <2>6, <2>7
<1>24. ASSUME NEW r \in RanksOf(m) PROVE DataAt(m, r)'
  <2>1. DataAt(m, r)  BY DEF Content
  <2>2. CASE host[r] = "done"  BY <2>1, <2>2, <1>1 DEF DataAt, DataOK
  <2>3. CASE host[r] # "done"
    <3>1. DataRest(m, r, offset[r], data[r]) /\ DataPart(m, r, partition[r], offset[r], block[r], data[r])
      BY <2>1, <2>3 DEF DataAt, DataOK
    <3>2. DataPart(m, r, partition[r], offset[r], block'[r], data[r])  BY <3>1, <1>20, HostFacts, DataPartFrame
    <3> QED BY <2>3, <3>1, <3>2, <1>1 DEF DataAt, DataOK
  <2> QED BY <2>2, <2>3
<1>25. ASSUME NEW r \in RanksOf(m)
       PROVE  SendAt(m, r)' /\ WireAt(m, r)' /\ ArrivedAt(m, r)' /\ SeenAt(m, r)' /\ DataAt(m, r)'
  <2>1. SendAt(m, r) /\ WireAt(m, r) /\ ArrivedAt(m, r) /\ SeenAt(m, r) /\ DataAt(m, r)
    BY DEF Content
  <2>2. SendAt(m, r)'
    <3>1. CASE r # a
      <4>1. block'[r] = block[r]
        <5>1. \A d \in BlocksOf(m) : block'[r][d] = block[r][d]  BY <3>1, <1>15
        <5>2. block'[r] \in [BlocksOf(m) -> BlockRec] /\ block[r] \in [BlocksOf(m) -> BlockRec]
          BY <1>15 DEF Types, BlockTypes
        <5> HIDE DEF BlocksOf
        <5> QED BY <5>1, <5>2
      <4> QED BY <4>1, <3>1, <2>1, <1>1, <1>14 DEF SendAt
    <3> QED BY <3>1, <1>22
  <2>3. WireAt(m, r)'  BY <2>1, <1>1 DEF WireAt
  <2>4. ArrivedAt(m, r)'  BY <2>1, <1>1 DEF ArrivedAt
  <2>5. SeenAt(m, r)'  BY <2>1, <1>1 DEF SeenAt
  <2>6. DataAt(m, r)'  BY <1>24
  <2> QED BY <2>2, <2>3, <2>4, <2>5, <2>6
<1>26. Content(m)'  BY <1>25 DEF Content
<1> QED BY <1>1, <1>16, <1>19, <1>26

\* A round of a step is below the total.
LEMMA BelowTotal ==
    ASSUME NEW m \in Modes, NEW o \in RanksOf(m), NEW p, Good(m, p),
           NEW s \in 0 .. Steps(m) - 1, NEW R \in RoundsOf(m, o, p, s)
    PROVE  R \in Nat /\ R < Total(m, o, p) /\ Total(m, o, p) \in Nat
<1>0. Steps(m) \in Nat  BY ModeFacts
<1>1. Steps(m) \in 0 .. Steps(m) /\ s + 1 \in 0 .. Steps(m)  BY <1>0
<1>2. s + 1 = Steps(m) \/ s + 1 < Steps(m)  BY <1>0
<1>3. Start(m, o, p, s + 1) \in Nat /\ Start(m, o, p, Steps(m)) \in Nat  BY <1>1, StartFacts
<1>4. s + 1 < Steps(m) => Start(m, o, p, s + 1) < Start(m, o, p, Steps(m))
  BY <1>1, StartFacts
<1>5. R \in Nat /\ R < Start(m, o, p, s + 1)  BY ChunkFacts
<1> QED BY <1>2, <1>3, <1>4, <1>5 DEF Total

\* What the host knows to be received, and has not reduced yet, is what its round says.
LEMMA ReceivedDue ==
    ASSUME NEW m \in Modes, mode = m, Types(m), Control(m), Content(m), NEW a \in RanksOf(m),
           NEW s \in 0 .. Steps(m) - 1, NEW T \in RoundsOf(m, LeftOf(m, a), offset[a], s),
           NEW k \in 0 .. Numel(m, LeftOf(m, a), offset[a], s, T) - 1,
           done[a].RecvRedCopy.round <= T, T < done[a].RecvFlush.round
    PROVE  tmpRecv[a][T % m.numChunks][k] =
             Value(m, LeftOf(m, a), s, Elem(m, LeftOf(m, a), offset[a], s, T) + k)
<1> DEFINE l == LeftOf(m, a)
<1>1. l \in RanksOf(m) /\ RightOf(m, l) = a  BY NeighbourFacts
<1>2. PairAt(m, l)  BY <1>1, ControlAt
<1>3. Good(m, offset[a])  BY HostFacts
<1>4. T \in Nat /\ T < Total(m, l, offset[a])  BY <1>1, <1>3, BelowTotal
<1>5. done[a].RecvRedCopy.round \in Nat /\ done[a].RecvFlush.round \in Nat
      /\ done[a].RecvFlush.round <= done[a].RecvTrans.round
  BY RecvOrder
<1>6. ~ Ahead(m, l, host[l], partition[l], partition[a], offset[l], offset[a], sync[l], landed[l],
              wire[l], arrived[a], notify[a], done[a].RecvRedCopy.round)
  <2> SUFFICES ASSUME done[a].RecvRedCopy.round = Total(m, l, offset[a]) PROVE FALSE
    BY DEF Ahead
  <2>1. T < done[a].RecvRedCopy.round  BY <1>4
  <2> HIDE DEF l
  <2> QED BY <2>1, <1>4, <1>5
<1>7. ~ Behind(m, l, host[l], partition[l], partition[a], offset[l], offset[a], sync[l], landed[l],
               arrived[a], notify[a], post[l].SendTrans.round, done[a].RecvTrans.round)
  <2> SUFFICES ASSUME done[a].RecvTrans.round = 0 PROVE FALSE
    BY DEF Behind
  <2> HIDE DEF l
  <2>1. done[a].RecvFlush.round <= 0  BY <1>5
  <2> QED BY <2>1, <1>4, <1>5
<1>8. Same(host[l], partition[l], partition[a], offset[l], offset[a], sync[l], landed[l],
           arrived[a], notify[a], done[a].RecvTrans.round, done[a].RecvFlush.round,
           done[a].RecvRedCopy.round)
  BY <1>1, <1>2, <1>6, <1>7 DEF PairAt, PairOK
<1>9. /\ offset[l] = offset[a] /\ sync[l] = done[a].RecvRedCopy.round
      /\ done[a].RecvFlush.round <= landed[l] - Len(arrived[a])
  BY <1>8 DEF Same
<1>10. T < landed[l] - Len(arrived[a])
  <2>1. landed[l] \in Nat /\ arrived[a] \in Seq(Arrival(m))  BY <1>1, HostFacts DEF Types, NetTypes
  <2>2. Len(arrived[a]) \in Nat  BY <2>1, EmptySeq
  <2> HIDE DEF l
  <2> QED BY <2>1, <2>2, <1>4, <1>5, <1>9
<1>11. SeenOK(m, l, offset[a], sync[l], landed[l] - Len(arrived[a]), tmpRecv[a])
  BY <1>1, <1>9 DEF Content, SeenAt
<1> HIDE DEF l
<1>12. sync[l] <= T  BY <1>9
<1> QED BY <1>10, <1>11, <1>12 DEF SeenOK, l

\* The rank's own contribution, where a round to be reduced finds it.
LEMMA OwnContribution ==
    ASSUME NEW m \in Modes, mode = m, Types(m), Control(m), Content(m), NEW a \in RanksOf(m),
           host[a] # "done",
           NEW s \in 0 .. Steps(m) - 1, s < m.nRanks - 1,
           NEW T \in RoundsOf(m, LeftOf(m, a), offset[a], s),
           NEW k \in 0 .. Numel(m, LeftOf(m, a), offset[a], s, T) - 1,
           RanR(block[a][k % m.numBlocks], partition[a]) = T,
           NEW e, e = Elem(m, LeftOf(m, a), offset[a], s, T) + k
    PROVE  data[a][e] = {<<a, e>>}
<1> DEFINE l == LeftOf(m, a)
<1> DEFINE p == offset[a]
<1>1. l \in RanksOf(m) /\ Good(m, p)  BY NeighbourFacts, HostFacts
<1>2. DataPart(m, a, partition[a], p, block[a], data[a])  BY DEF Content, DataAt, DataOK
<1>3. T \in Nat  BY <1>1, ChunkFacts
<1>4. CASE s = m.nRanks - 2
  <2>1. s \in m.nRanks - 2 .. Steps(m) - 1  BY <1>4, ModeFacts
  <2>2. ~ (RanR(block[a][k % m.numBlocks], partition[a]) > T)  BY <1>3
  <2> HIDE DEF l, p
  <2>3. DataCell(m, a, partition[a], p, block[a], data[a], s, T, k)  BY <2>1, <1>2 DEF DataPart, l, p
  <2> QED BY <2>2, <2>3 DEF DataCell, l, p
<1>5. CASE s # m.nRanks - 2
  <2>1. s < m.nRanks - 2
    <3>1. m.nRanks \in Nat /\ s \in Int  BY ModeFacts
    <3> QED BY <3>1, <1>5
  <2> DEFINE t == s + m.nRanks
  <2>2. t \in m.nRanks - 2 .. Steps(m) - 1
        /\ \E U \in RoundsOf(m, l, p, t) : /\ T < U
                                           /\ Numel(m, l, p, t, U) = Numel(m, l, p, s, T)
                                           /\ Elem(m, l, p, t, U) = Elem(m, l, p, s, T)
    BY <1>1, <2>1, LaterTurn
  <2>3. PICK U \in RoundsOf(m, l, p, t) : /\ T < U
                                          /\ Numel(m, l, p, t, U) = Numel(m, l, p, s, T)
                                          /\ Elem(m, l, p, t, U) = Elem(m, l, p, s, T)
    BY <2>2
  <2>a. t \in 0 .. Steps(m) - 1  BY <2>2, ModeFacts
  <2>b. U \in Nat  BY <2>a, <1>1, ChunkFacts
  <2>4. ~ (RanR(block[a][k % m.numBlocks], partition[a]) > U)  BY <2>b, <2>3, <1>3
  <2>5. k \in 0 .. Numel(m, l, p, t, U) - 1 /\ e = Elem(m, l, p, t, U) + k  BY <2>3
  <2> HIDE DEF l, p, t
  <2>6. DataCell(m, a, partition[a], p, block[a], data[a], t, U, k)
    BY <2>2, <2>5, <1>2 DEF DataPart, l, p
  <2> QED BY <2>4, <2>5, <2>6 DEF DataCell, l
<1> QED BY <1>4, <1>5

\* The window of a round to be forwarded.
LEMMA ForwardWindow ==
    ASSUME NEW m \in Modes, mode = m, Types(m), Control(m), NEW a \in RanksOf(m),
           host[a] # "done",
           NEW s \in 0 .. Steps(m) - 1, s # Steps(m) - 1,
           NEW T \in RoundsOf(m, LeftOf(m, a), offset[a], s),
           done[a].RecvRedCopy.round <= T, T < post[a].RecvRedCopy.round,
           NEW F, F = First(m, a, offset[a]) + T
    PROVE  F \in Nat /\ landed[a] <= F /\ F < landed[a] + m.numChunks
<1> DEFINE p == offset[a]
<1> DEFINE l == LeftOf(m, a)
<1> DEFINE K == m.numChunks
<1> DEFINE G == First(m, a, p)
<1> DEFINE y == done[a].SendTrans.round
<1>1. /\ Good(m, p) /\ l \in RanksOf(m) /\ landed[a] \in Nat
      /\ post[a] \in [Ops -> Counter] /\ done[a] \in [Ops -> Counter]
      /\ HostRounds(m, a, host[a], p, post[a], done[a], landed[a], sync[a])
      /\ Counters(m, a, p, done[a])
  BY HostFacts, NeighbourFacts
<1>2. T \in Nat /\ T < Start(m, l, p, s + 1)  BY <1>1, ChunkFacts
<1>3. G \in Nat /\ K \in Nat /\ y \in Nat  BY <1>1, FirstIs, ModeFacts, Rounds
<1>4. T < Start(m, l, p, Steps(m) - 1)
  <2>0. Steps(m) \in Nat /\ Steps(m) >= 2  BY ModeFacts
  <2>1. s + 1 \in 0 .. Steps(m) /\ Steps(m) - 1 \in 0 .. Steps(m)
        /\ (s + 1 = Steps(m) - 1 \/ s + 1 < Steps(m) - 1)
    BY <2>0
  <2>2. /\ Start(m, l, p, s + 1) \in Nat /\ Start(m, l, p, Steps(m) - 1) \in Nat
        /\ s + 1 < Steps(m) - 1 => Start(m, l, p, s + 1) < Start(m, l, p, Steps(m) - 1)
    BY <2>1, <1>1, StartFacts
  <2> QED BY <2>1, <2>2, <1>2
<1>5. G + T < y + K
  <2>1. Window(m, a, p, post[a].RecvRedCopy.round, y)  BY <1>1 DEF HostRounds
  <2> HIDE DEF y, K, l, p
  <2> QED BY <2>1, <1>2, <1>4 DEF Window, K, l, G
<1>6. y <= landed[a]  BY <1>1 DEF HostRounds
<1>7. landed[a] <= post[a].SendTrans.round
  <2>1. landed[a] + Len(wire[a]) = post[a].SendTrans.round  BY ControlAt DEF PairAt, PairOK
  <2>2. wire[a] \in Seq(Put(m))  BY DEF Types, NetTypes
  <2>3. Len(wire[a]) \in Nat  BY <2>2, EmptySeq
  <2> QED BY <2>1, <2>3, <1>1
<1>8. post[a].SendTrans.round <= G + T
  <2>1. done[a].SendCopy.round <= G
    <3>1. "SendCopy" \in Ops  BY DEF Ops, KernelOps
    <3> QED BY <3>1, <1>1 DEF Counters, Bound
  <2>2. post[a].SendTrans.round <= done[a].SendCopy.round + done[a].RecvRedCopy.round
    BY <1>1 DEF HostRounds
  <2>3. done[a].SendCopy.round \in Nat /\ post[a].SendTrans.round \in Nat
        /\ done[a].RecvRedCopy.round \in Nat
    BY <1>1, Rounds
  <2> HIDE DEF G
  <2> QED BY <2>1, <2>2, <2>3, <1>2, <1>3
<1>9. post[a].SendTrans.round \in Nat  BY <1>1, Rounds
<1>10. F = G + T  OBVIOUS
<1> HIDE DEF G, K, y
<1>11. F \in Nat /\ landed[a] <= F /\ F < landed[a] + K
  BY <1>1, <1>2, <1>3, <1>5, <1>6, <1>7, <1>8, <1>9, <1>10
<1> QED BY <1>11 DEF K

\* The result of a round at one position.
Computed(a, s, first, round, k) ==
    IF ReduceScatter(s) THEN Reduce(data[a][first + k], tmpRecv[a][TmpChunk(round)][k])
    ELSE tmpRecv[a][TmpChunk(round)][k]

\* The phase of a step: reduce-scatter, forwarding, and writing the result to the buffer.
LEMMA PhaseIs ==
    ASSUME NEW m \in Modes, mode = m, NEW s \in 0 .. Steps(m) - 1
    PROVE  /\ ReduceScatter(s) <=> s < m.nRanks - 1
           /\ IsRecvFwd(s) <=> s # Steps(m) - 1
           /\ ~IsRecvFwd(s) \/ s >= NumSteps \div 2 - 1 <=> s >= m.nRanks - 2
<1>1. NumSteps = Steps(m)  BY ModeIs
<1>2. m.nRanks \in Nat /\ m.nRanks >= 2 /\ Steps(m) = 2 * m.nRanks - 2  BY ModeFacts
<1>3. Steps(m) \div 2 = m.nRanks - 1  BY <1>2
<1> QED BY <1>1, <1>2, <1>3 DEF ReduceScatter, IsRecvFwd

\* A round adds the rank's contribution to what it received, or hands out the sum.
LEMMA ComputedIs ==
    ASSUME NEW m \in Modes, mode = m, Types(m), Control(m), Content(m), NEW a \in RanksOf(m),
           host[a] # "done",
           NEW s \in 0 .. Steps(m) - 1, NEW T \in RoundsOf(m, LeftOf(m, a), offset[a], s),
           NEW k \in 0 .. Numel(m, LeftOf(m, a), offset[a], s, T) - 1,
           done[a].RecvRedCopy.round <= T, T < done[a].RecvFlush.round,
           RanR(block[a][k % m.numBlocks], partition[a]) = T,
           NEW E, E = Elem(m, LeftOf(m, a), offset[a], s, T)
    PROVE  /\ Computed(a, s, E, T, k) = Value(m, a, s + 1, E + k)
           /\ Computed(a, s, E, T, k) \in Vals(m)
           /\ E + k \in ElementsOf(m) /\ k \in 0 .. m.chunkNumel - 1
<1> DEFINE l == LeftOf(m, a)
<1> DEFINE rcv == tmpRecv[a][T % m.numChunks][k]
<1> DEFINE own == data[a][E + k]
<1>1. l \in RanksOf(m) /\ Good(m, offset[a])  BY NeighbourFacts, HostFacts
<1>2. rcv = Value(m, l, s, E + k)  BY ReceivedDue
<1>3. /\ T \in Nat /\ Numel(m, l, offset[a], s, T) \in 1 .. m.chunkNumel
      /\ E \in Nat /\ E + Numel(m, l, offset[a], s, T) <= offset[a] + PartLen(m, offset[a])
  BY <1>1, ChunkFacts
<1>4. m.chunkNumel \in Nat /\ m.numElements \in Nat /\ m.nRanks \in Nat /\ m.nRanks >= 2  BY ModeFacts
<1>5. offset[a] + PartLen(m, offset[a]) <= m.numElements /\ PartLen(m, offset[a]) \in Nat
      /\ offset[a] \in Nat
  BY <1>1, PartFacts, HostFacts
<1>6. k \in 0 .. m.chunkNumel - 1 /\ E + k \in ElementsOf(m)
  <2>1. k \in Nat /\ k < Numel(m, l, offset[a], s, T) /\ Numel(m, l, offset[a], s, T) \in Nat
        /\ Numel(m, l, offset[a], s, T) <= m.chunkNumel
    BY <1>3, <1>4
  <2> HIDE DEF l
  <2>2. E + k \in Nat /\ E + k < m.numElements  BY <2>1, <1>3, <1>4, <1>5
  <2> QED BY <2>1, <2>2, <1>4 DEF ElementsOf
<1>7. T % m.numChunks \in 0 .. m.numChunks - 1  BY <1>3, ModRange, ModeFacts
<1>8. rcv \in Vals(m)
  <2>1. tmpRecv[a] \in Buf(m)  BY DEF Types, DataTypes
  <2> DEFINE c == T % m.numChunks
  <2>2. c \in 0 .. m.numChunks - 1  BY <1>7
  <2> HIDE DEF c
  <2>3. tmpRecv[a][c] \in [0 .. m.chunkNumel - 1 -> Vals(m)]  BY <2>1, <2>2 DEF Buf
  <2>4. tmpRecv[a][c][k] \in Vals(m)  BY <2>3, <1>6
  <2> QED BY <2>4 DEF c
<1>9. own \in Vals(m)  BY <1>6 DEF Types, DataTypes
<1>10. Computed(a, s, E, T, k) = IF s < m.nRanks - 1 THEN Reduce(own, rcv) ELSE rcv
  BY PhaseIs DEF Computed, TmpChunk
<1>11. CASE s < m.nRanks - 1
  <2>1. own = {<<a, E + k>>}  BY <1>11, OwnContribution
  <2>2. own \cap rcv = {} /\ own \cup rcv = Value(m, a, s + 1, E + k)
    BY <1>2, <1>11, <2>1, ValueNext
  <2> HIDE DEF own, rcv
  <2>3. Computed(a, s, E, T, k) = own \cup rcv  BY <2>2, <1>10, <1>11 DEF Reduce
  <2>4. own \cup rcv \in Vals(m)  BY <1>8, <1>9 DEF Vals
  <2> QED BY <2>2, <2>3, <2>4, <1>6
<1>12. CASE ~ (s < m.nRanks - 1)
  <2>1. s \in Nat /\ s + 1 \in Nat /\ ~ (s + 1 < m.nRanks - 1)  BY <1>12, <1>4
  <2>2. Value(m, l, s, E + k) = AllOf(m, E + k) /\ Value(m, a, s + 1, E + k) = AllOf(m, E + k)
    BY <2>1, <1>12, ValueLast
  <2> QED BY <2>2, <1>2, <1>6, <1>8, <1>10, <1>12
<1> QED BY <1>11, <1>12

\* The round that a block reduces next.
LEMMA RecvRound ==
    ASSUME NEW m \in Modes, mode = m, Types(m), Control(m), NEW a \in RanksOf(m), NEW b \in BlocksOf(m),
           BlockRecv(a, b),
           NEW s, s = block[a][b].RecvRedCopy.step, NEW T, T = block[a][b].RecvRedCopy.round
    PROVE  /\ host[a] # "done"
           /\ block[a][b].partition = partition[a] /\ block[a][b].offset = offset[a]
           /\ s \in 0 .. Steps(m) - 1 /\ T \in RoundsOf(m, LeftOf(m, a), offset[a], s) /\ T \in Nat
           /\ RoundArgs(a, "RecvRedCopy", offset[a], block[a][b].RecvRedCopy).first =
                Elem(m, LeftOf(m, a), offset[a], s, T)
           /\ RoundArgs(a, "RecvRedCopy", offset[a], block[a][b].RecvRedCopy).numel =
                Numel(m, LeftOf(m, a), offset[a], s, T)
           /\ done[a].RecvRedCopy.round <= T
           /\ T < post[a].RecvRedCopy.round /\ T < done[a].RecvFlush.round
           /\ RanR(block[a][b], partition[a]) = T
           /\ LET nx == Advance(a, "RecvRedCopy", offset[a], block[a][b].RecvRedCopy)
              IN Valid(m, LeftOf(m, a), offset[a], nx) /\ nx.round = T + 1 /\ nx \in Counter
<1> DEFINE x == block[a][b].RecvRedCopy
<1> DEFINE p == offset[a]
<1> DEFINE l == LeftOf(m, a)
<1>1. Posted(a, b, "RecvRedCopy")  BY DEF BlockRecv
<1>2. /\ host[a] # "done"
      /\ SameBlock(m, a, host[a], partition[a], offset[a], block[a][b],
                  completed[a]["SendCopy"][b], completed[a]["RecvRedCopy"][b],
                  post[a].SendCopy.round, post[a].RecvRedCopy.round,
                  done[a].SendCopy.round, done[a].RecvRedCopy.round)
      /\ T \in Nat /\ T < Total(m, l, p) /\ T < post[a].RecvRedCopy.round
  BY <1>1, PostedRecv
<1>3. /\ block[a][b].partition = partition[a] /\ block[a][b].offset = p /\ Valid(m, l, p, x)
      /\ done[a].RecvRedCopy.round <= T
  BY <1>2 DEF SameBlock
<1>4. /\ Good(m, p) /\ l \in RanksOf(m) /\ post[a] \in [Ops -> Counter] /\ done[a] \in [Ops -> Counter]
      /\ HostRounds(m, a, host[a], p, post[a], done[a], landed[a], sync[a])
  BY HostFacts, NeighbourFacts
<1>5. Total(m, l, p) \in Nat  BY <1>4, FirstIs
<1>6. s \in 0 .. Steps(m) - 1 /\ T \in RoundsOf(m, l, p, s) /\ x.start = Start(m, l, p, s) /\ s # Steps(m)
  <2>1. x.round # Total(m, l, p)  BY <1>2, <1>5
  <2> HIDE DEF x, p, l
  <2>2. x.step # Steps(m)  BY <2>1, <1>3, <1>4, CounterFacts
  <2>3. /\ x.step \in 0 .. Steps(m) - 1 /\ x.round \in RoundsOf(m, l, p, x.step)
        /\ x.start = Start(m, l, p, x.step)
    BY <2>2, <1>3, <1>4, CounterFacts
  <2> QED BY <2>2, <2>3 DEF x
<1>7. Origin(m, a, "RecvRedCopy") = l  BY OriginFacts
<1>8. /\ RoundArgs(a, "RecvRedCopy", p, x).first = Elem(m, l, p, s, T)
      /\ RoundArgs(a, "RecvRedCopy", p, x).numel = Numel(m, l, p, s, T)
  <2>1. x.start = Start(m, Origin(m, a, "RecvRedCopy"), p, x.step)  BY <1>6, <1>7
  <2> HIDE DEF x, p, l
  <2>2. /\ RoundArgs(a, "RecvRedCopy", p, x).first = Elem(m, Origin(m, a, "RecvRedCopy"), p, x.step, x.round)
        /\ RoundArgs(a, "RecvRedCopy", p, x).numel = Numel(m, Origin(m, a, "RecvRedCopy"), p, x.step, x.round)
    BY <2>1, RoundArgsIs
  <2> QED BY <2>2, <1>7 DEF x
<1>9. T < done[a].RecvFlush.round
  <2>1. post[a].RecvRedCopy.round <= done[a].RecvFlush.round  BY <1>4 DEF HostRounds
  <2> QED BY <2>1, <1>2, <1>4, Rounds
<1>10. RanR(block[a][b], partition[a]) = T  BY <1>3 DEF RanR
<1> DEFINE nx == Advance(a, "RecvRedCopy", p, x)
<1>11. Valid(m, l, p, nx) /\ nx.round = T + 1 /\ nx \in Counter
  <2>1. x.step # Steps(m)  BY <1>6
  <2> HIDE DEF x, p
  <2>2. Valid(m, l, p, nx) /\ nx.round = x.round + 1  BY <2>1, <1>3, <1>4, <1>7, AdvanceFacts
  <2> QED BY <2>2 DEF Valid, x
<1> QED BY <1>2, <1>3, <1>6, <1>8, <1>9, <1>10, <1>11

\* data and tmpSend after block b reduced the round T of step s, whose chunk begins at E
\* and has N elements; it is forwarded in the chunk c of tmpSend.
RecvWritten(m, a, b, s, T, E, N, c) ==
    /\ s >= m.nRanks - 2 =>
          data' = [data EXCEPT ![a] = [e \in ElementsOf(m) |->
                     IF e - E \in 0 .. N - 1 /\ (e - E) % m.numBlocks = b
                     THEN Computed(a, s, E, T, e - E) ELSE data[a][e]]]
    /\ ~ (s >= m.nRanks - 2) => data' = data
    /\ s # Steps(m) - 1 =>
          tmpSend' = [tmpSend EXCEPT ![a][c] = [k \in 0 .. m.chunkNumel - 1 |->
                        IF k \in 0 .. N - 1 /\ k % m.numBlocks = b
                        THEN Computed(a, s, E, T, k) ELSE tmpSend[a][c][k]]]
    /\ s = Steps(m) - 1 => tmpSend' = tmpSend

\* What a block writes when it reduces a round.
LEMMA RecvWrites ==
    ASSUME NEW m \in Modes, mode = m, NEW a \in RanksOf(m), NEW b \in BlocksOf(m),
           BlockRecv(a, b), Good(m, offset[a]), block[a][b].offset = offset[a],
           NEW s, s = block[a][b].RecvRedCopy.step, s \in 0 .. Steps(m) - 1,
           NEW T, T = block[a][b].RecvRedCopy.round,
           NEW E, RoundArgs(a, "RecvRedCopy", offset[a], block[a][b].RecvRedCopy).first = E,
           NEW N, RoundArgs(a, "RecvRedCopy", offset[a], block[a][b].RecvRedCopy).numel = N,
           NEW c, c = (First(m, a, offset[a]) + T) % m.numChunks
    PROVE  RecvWritten(m, a, b, s, T, E, N, c)
<1>1. /\ IsRecvFwd(s) <=> s # Steps(m) - 1
      /\ ~IsRecvFwd(s) \/ s >= NumSteps \div 2 - 1 <=> s >= m.nRanks - 2
  BY PhaseIs
<1>2. Positions = 0 .. m.chunkNumel - 1 /\ Elements = ElementsOf(m)  BY ModeIs DEF ElementsOf
<1>3. \A k : k \in PartOf(b, N) <=> k \in 0 .. N - 1 /\ k % m.numBlocks = b  BY DEF PartOf
<1>4. TmpChunk(FwdRound(a, offset[a], T)) = c
  <2>1. CountChunks(offset[a], a) = First(m, a, offset[a])  BY ModeIs, FirstIs
  <2> QED BY <2>1 DEF TmpChunk, FwdRound
<1> DEFINE D == [e \in Elements |-> IF e - E \in PartOf(b, N) THEN Computed(a, s, E, T, e - E) ELSE data[a][e]]
<1> DEFINE W == [k \in Positions |-> IF k \in PartOf(b, N) THEN Computed(a, s, E, T, k) ELSE tmpSend[a][c][k]]
<1>5. D = [e \in ElementsOf(m) |->
              IF e - E \in 0 .. N - 1 /\ (e - E) % m.numBlocks = b
              THEN Computed(a, s, E, T, e - E) ELSE data[a][e]]
  BY <1>2, <1>3
<1>6. W = [k \in 0 .. m.chunkNumel - 1 |->
              IF k \in 0 .. N - 1 /\ k % m.numBlocks = b
              THEN Computed(a, s, E, T, k) ELSE tmpSend[a][c][k]]
  BY <1>2, <1>3
<1>7. data' = IF ~IsRecvFwd(s) \/ s >= NumSteps \div 2 - 1 THEN [data EXCEPT ![a] = D] ELSE data
  BY DEF BlockRecv, Computed
<1>8. tmpSend' = IF IsRecvFwd(s)
                 THEN [tmpSend EXCEPT ![a][TmpChunk(FwdRound(a, offset[a], T))] =
                         [k \in Positions |-> IF k \in PartOf(b, N) THEN Computed(a, s, E, T, k)
                                              ELSE tmpSend[a][TmpChunk(FwdRound(a, offset[a], T))][k]]]
                 ELSE tmpSend
  BY DEF BlockRecv, Computed, Write
<1>9. tmpSend' = IF IsRecvFwd(s) THEN [tmpSend EXCEPT ![a][c] = W] ELSE tmpSend
  BY <1>4, <1>8
<1>10. (s >= m.nRanks - 2 => data' = [data EXCEPT ![a] = D]) /\ (~ (s >= m.nRanks - 2) => data' = data)
  <2> HIDE DEF D
  <2> QED BY <1>1, <1>7
<1>11. (s # Steps(m) - 1 => tmpSend' = [tmpSend EXCEPT ![a][c] = W]) /\ (s = Steps(m) - 1 => tmpSend' = tmpSend)
  <2> HIDE DEF W
  <2> QED BY <1>1, <1>9
<1> QED BY <1>5, <1>6, <1>10, <1>11 DEF RecvWritten

\* Of the data of one rank.
LEMMA UpdateData ==
    ASSUME NEW R, NEW I, NEW V, NEW f \in [R -> [I -> V]], NEW a \in R, NEW w \in [I -> V],
           NEW g, g = [f EXCEPT ![a] = w]
    PROVE  g \in [R -> [I -> V]] /\ g[a] = w /\ \A r \in R : r # a => g[r] = f[r]
OBVIOUS

\* The data and tmpSend after a round.
LEMMA RecvEffect ==
    ASSUME NEW m \in Modes, mode = m, Types(m), Control(m), Content(m),
           NEW a \in RanksOf(m), NEW b \in BlocksOf(m), BlockRecv(a, b),
           NEW s, s = block[a][b].RecvRedCopy.step, NEW T, T = block[a][b].RecvRedCopy.round,
           NEW E, E = Elem(m, LeftOf(m, a), offset[a], s, T),
           NEW N, N = Numel(m, LeftOf(m, a), offset[a], s, T),
           NEW c, c = (First(m, a, offset[a]) + T) % m.numChunks
    PROVE  /\ data' \in [RanksOf(m) -> [ElementsOf(m) -> Vals(m)]]
           /\ \A r \in RanksOf(m) : r # a => data'[r] = data[r]
           /\ \A e \in ElementsOf(m) :
                 data'[a][e] = IF s >= m.nRanks - 2 /\ e - E \in 0 .. N - 1 /\ (e - E) % m.numBlocks = b
                               THEN AllOf(m, e) ELSE data[a][e]
           /\ tmpSend' \in [RanksOf(m) -> Buf(m)]
           /\ \A r \in RanksOf(m) : r # a => tmpSend'[r] = tmpSend[r]
           /\ \A d \in 0 .. m.numChunks - 1 : d # c => tmpSend'[a][d] = tmpSend[a][d]
           /\ s = Steps(m) - 1 => tmpSend' = tmpSend
           /\ s # Steps(m) - 1 => \A k \in 0 .. m.chunkNumel - 1 :
                 tmpSend'[a][c][k] = IF k \in 0 .. N - 1 /\ k % m.numBlocks = b
                                     THEN Value(m, a, s + 1, E + k) ELSE tmpSend[a][c][k]
<1> DEFINE p == offset[a]
<1> DEFINE l == LeftOf(m, a)
<1> DEFINE x == block[a][b].RecvRedCopy
<1>1. /\ host[a] # "done" /\ block[a][b].offset = p
      /\ s \in 0 .. Steps(m) - 1 /\ T \in RoundsOf(m, l, p, s) /\ T \in Nat
      /\ RoundArgs(a, "RecvRedCopy", p, x).first = E /\ RoundArgs(a, "RecvRedCopy", p, x).numel = N
      /\ done[a].RecvRedCopy.round <= T /\ T < done[a].RecvFlush.round
      /\ RanR(block[a][b], partition[a]) = T
  BY RecvRound
<1>2. Good(m, p) /\ l \in RanksOf(m)  BY HostFacts, NeighbourFacts
<1>3. E \in Nat /\ N \in 1 .. m.chunkNumel /\ N \in Nat  BY <1>1, <1>2, ChunkFacts, ModeFacts
<1>4. ASSUME NEW k, k \in 0 .. N - 1 /\ k % m.numBlocks = b
      PROVE  /\ Computed(a, s, E, T, k) = Value(m, a, s + 1, E + k)
             /\ Computed(a, s, E, T, k) \in Vals(m)
             /\ E + k \in ElementsOf(m) /\ k \in 0 .. m.chunkNumel - 1
  <2>1. k \in 0 .. Numel(m, LeftOf(m, a), offset[a], s, T) - 1  BY <1>4
  <2>2. RanR(block[a][k % m.numBlocks], partition[a]) = T  BY <1>1, <1>4
  <2> HIDE DEF x, p
  <2>3. T \in RoundsOf(m, LeftOf(m, a), offset[a], s)  BY <1>1 DEF p
  <2> HIDE DEF l
  <2> QED BY <1>1, <2>1, <2>2, <2>3, ComputedIs
<1>5. /\ s >= m.nRanks - 2 =>
            data' = [data EXCEPT ![a] = [e \in ElementsOf(m) |->
                       IF e - E \in 0 .. N - 1 /\ (e - E) % m.numBlocks = b
                       THEN Computed(a, s, E, T, e - E) ELSE data[a][e]]]
      /\ ~ (s >= m.nRanks - 2) => data' = data
      /\ s # Steps(m) - 1 =>
            tmpSend' = [tmpSend EXCEPT ![a][c] = [k \in 0 .. m.chunkNumel - 1 |->
                          IF k \in 0 .. N - 1 /\ k % m.numBlocks = b
                          THEN Computed(a, s, E, T, k) ELSE tmpSend[a][c][k]]]
      /\ s = Steps(m) - 1 => tmpSend' = tmpSend
  <2>1. RoundArgs(a, "RecvRedCopy", offset[a], block[a][b].RecvRedCopy).first = E
        /\ RoundArgs(a, "RecvRedCopy", offset[a], block[a][b].RecvRedCopy).numel = N
    BY <1>1
  <2>2. block[a][b].offset = offset[a] /\ s \in 0 .. Steps(m) - 1 /\ Good(m, offset[a])  BY <1>1, <1>2
  <2>3. RecvWritten(m, a, b, s, T, E, N, c)  BY <2>1, <2>2, RecvWrites
  <2> QED BY <2>3 DEF RecvWritten
<1> DEFINE D == [e \in ElementsOf(m) |->
                   IF e - E \in 0 .. N - 1 /\ (e - E) % m.numBlocks = b
                   THEN Computed(a, s, E, T, e - E) ELSE data[a][e]]
<1> DEFINE W == [k \in 0 .. m.chunkNumel - 1 |->
                   IF k \in 0 .. N - 1 /\ k % m.numBlocks = b
                   THEN Computed(a, s, E, T, k) ELSE tmpSend[a][c][k]]
<1>6. /\ tmpSend \in [RanksOf(m) -> Buf(m)] /\ data \in [RanksOf(m) -> [ElementsOf(m) -> Vals(m)]]
  BY DEF Types, DataTypes
<1>7. c \in 0 .. m.numChunks - 1
  <2>1. First(m, a, p) + T \in Nat  BY <1>1, <1>2, FirstIs
  <2> QED BY <2>1, ModeFacts, ModRange
<1>8. D \in [ElementsOf(m) -> Vals(m)]
  <2> SUFFICES ASSUME NEW e \in ElementsOf(m)
               PROVE  (IF e - E \in 0 .. N - 1 /\ (e - E) % m.numBlocks = b
                       THEN Computed(a, s, E, T, e - E) ELSE data[a][e]) \in Vals(m)
    OBVIOUS
  <2>1. data[a][e] \in Vals(m)  BY <1>6
  <2> QED BY <2>1, <1>4
<1>9. W \in [0 .. m.chunkNumel - 1 -> Vals(m)]
  <2> SUFFICES ASSUME NEW k \in 0 .. m.chunkNumel - 1
               PROVE  (IF k \in 0 .. N - 1 /\ k % m.numBlocks = b
                       THEN Computed(a, s, E, T, k) ELSE tmpSend[a][c][k]) \in Vals(m)
    OBVIOUS
  <2>1. tmpSend[a][c] \in [0 .. m.chunkNumel - 1 -> Vals(m)]  BY <1>6, <1>7 DEF Buf
  <2>2. tmpSend[a][c][k] \in Vals(m)  BY <2>1
  <2> QED BY <2>2, <1>4
<1>10. \A e \in ElementsOf(m) : s >= m.nRanks - 2 =>
          D[e] = IF e - E \in 0 .. N - 1 /\ (e - E) % m.numBlocks = b THEN AllOf(m, e) ELSE data[a][e]
  <2> SUFFICES ASSUME NEW e \in ElementsOf(m), s >= m.nRanks - 2,
                      e - E \in 0 .. N - 1, (e - E) % m.numBlocks = b
               PROVE  Computed(a, s, E, T, e - E) = AllOf(m, e)
    OBVIOUS
  <2>1. E + (e - E) = e  BY <1>3, ModeFacts DEF ElementsOf
  <2>2. s + 1 \in Nat /\ ~ (s + 1 < m.nRanks - 1)
    <3>1. m.nRanks \in Nat /\ Steps(m) \in Nat  BY ModeFacts
    <3> QED BY <3>1, <1>1
  <2>3. Value(m, a, s + 1, e) = AllOf(m, e)  BY <2>2, ValueLast
  <2>4. Computed(a, s, E, T, e - E) = Value(m, a, s + 1, E + (e - E))  BY <1>4
  <2> QED BY <2>1, <2>3, <2>4
<1>11. \A k \in 0 .. m.chunkNumel - 1 :
          W[k] = IF k \in 0 .. N - 1 /\ k % m.numBlocks = b THEN Value(m, a, s + 1, E + k) ELSE tmpSend[a][c][k]
  BY <1>4
<1>12. /\ s >= m.nRanks - 2 => data' = [data EXCEPT ![a] = D]
       /\ ~ (s >= m.nRanks - 2) => data' = data
       /\ s # Steps(m) - 1 => tmpSend' = [tmpSend EXCEPT ![a][c] = W]
       /\ s = Steps(m) - 1 => tmpSend' = tmpSend
  BY <1>5
<1> HIDE DEF D, W
<1>13. /\ data' \in [RanksOf(m) -> [ElementsOf(m) -> Vals(m)]]
       /\ \A r \in RanksOf(m) : r # a => data'[r] = data[r]
       /\ s >= m.nRanks - 2 => data'[a] = D
  <2>1. ASSUME NEW g, g = [data EXCEPT ![a] = D]
        PROVE  /\ g \in [RanksOf(m) -> [ElementsOf(m) -> Vals(m)]]
               /\ \A r \in RanksOf(m) : r # a => g[r] = data[r]
               /\ g[a] = D
    BY <2>1, <1>6, <1>8, UpdateData
  <2>2. CASE s >= m.nRanks - 2  BY <2>1, <2>2, <1>12
  <2>3. CASE ~ (s >= m.nRanks - 2)  BY <2>3, <1>6, <1>12
  <2> QED BY <2>2, <2>3
<1>14. \A e \in ElementsOf(m) :
          data'[a][e] = IF s >= m.nRanks - 2 /\ e - E \in 0 .. N - 1 /\ (e - E) % m.numBlocks = b
                        THEN AllOf(m, e) ELSE data[a][e]
  <2>1. CASE s >= m.nRanks - 2  BY <2>1, <1>10, <1>13
  <2>2. CASE ~ (s >= m.nRanks - 2)  BY <2>2, <1>12
  <2> QED BY <2>1, <2>2
<1>15. /\ tmpSend' \in [RanksOf(m) -> Buf(m)]
       /\ \A r \in RanksOf(m) : r # a => tmpSend'[r] = tmpSend[r]
       /\ \A d \in 0 .. m.numChunks - 1 : d # c => tmpSend'[a][d] = tmpSend[a][d]
       /\ s # Steps(m) - 1 => tmpSend'[a][c] = W
  <2>1. ASSUME NEW g, g = [tmpSend EXCEPT ![a][c] = W]
        PROVE  /\ g \in [RanksOf(m) -> Buf(m)]
               /\ \A r \in RanksOf(m) : r # a => g[r] = tmpSend[r]
               /\ g[a][c] = W
               /\ \A d \in 0 .. m.numChunks - 1 : d # c => g[a][d] = tmpSend[a][d]
    <3>1. ASSUME NEW I, NEW V, tmpSend \in [RanksOf(m) -> [I -> V]], c \in I, W \in V
          PROVE  /\ g \in [RanksOf(m) -> [I -> V]]
                 /\ \A r \in RanksOf(m) : r # a => g[r] = tmpSend[r]
                 /\ g[a][c] = W /\ \A d \in I : d # c => g[a][d] = tmpSend[a][d]
      BY <3>1, <2>1, Update2
    <3> QED BY <3>1, <1>6, <1>7, <1>9 DEF Buf
  <2>2. CASE s # Steps(m) - 1  BY <2>1, <2>2, <1>12
  <2>3. CASE s = Steps(m) - 1  BY <2>3, <1>6, <1>12
  <2> QED BY <2>2, <2>3
<1> QED BY <1>11, <1>12, <1>13, <1>14, <1>15

\* The rounds the blocks have run after one of them reduced a round.
LEMMA RecvBlocks ==
    ASSUME NEW m \in Modes, mode = m, Types(m), Control(m), NEW a \in RanksOf(m), NEW b \in BlocksOf(m),
           BlockRecv(a, b), NEW T, T = block[a][b].RecvRedCopy.round
    PROVE  /\ UNCHANGED <<mode, host, partition, offset, post, done, posted, started, tmpRecv,
                          wire, arrived, landed, notify, sync>>
           /\ block' \in [RanksOf(m) -> [BlocksOf(m) -> BlockRec]]
           /\ completed' \in [RanksOf(m) -> [KernelOps -> [BlocksOf(m) -> Int]]]
           /\ BlockAt(m, a, b)'
           /\ \A r \in RanksOf(m), d \in BlocksOf(m) :
                 r # a \/ d # b => /\ block'[r][d] = block[r][d]
                                   /\ completed'[r]["SendCopy"][d] = completed[r]["SendCopy"][d]
                                   /\ completed'[r]["RecvRedCopy"][d] = completed[r]["RecvRedCopy"][d]
           /\ \A r \in RanksOf(m), d \in BlocksOf(m) :
                 /\ RanS(block'[r][d], partition[r]) = RanS(block[r][d], partition[r])
                 /\ r # a \/ d # b => RanR(block'[r][d], partition[r]) = RanR(block[r][d], partition[r])
           /\ RanR(block'[a][b], partition[a]) = T + 1
<1> DEFINE x == block[a][b].RecvRedCopy
<1> DEFINE p == offset[a]
<1> DEFINE nx == Advance(a, "RecvRedCopy", p, x)
<1>1. /\ Posted(a, b, "RecvRedCopy") /\ Complete(a, b, "RecvRedCopy")
      /\ UNCHANGED <<mode, host, partition, offset, post, done, posted, started, tmpRecv,
                     wire, arrived, landed, notify, sync>>
  BY DEF BlockRecv, hostVars, partVars, netVars
<1>2. /\ host[a] # "done"
      /\ SameBlock(m, a, host[a], partition[a], p, block[a][b],
             completed[a]["SendCopy"][b], completed[a]["RecvRedCopy"][b],
             post[a].SendCopy.round, post[a].RecvRedCopy.round,
             done[a].SendCopy.round, done[a].RecvRedCopy.round)
  BY <1>1, PostedRecv
<1>3. /\ block[a][b].partition = partition[a] /\ block[a][b].offset = p /\ T \in Nat
      /\ done[a].RecvRedCopy.round <= T /\ T < post[a].RecvRedCopy.round
      /\ RanR(block[a][b], partition[a]) = T
      /\ Valid(m, LeftOf(m, a), p, nx) /\ nx.round = T + 1 /\ nx \in Counter
  BY RecvRound
<1>4. /\ block' \in [RanksOf(m) -> [BlocksOf(m) -> BlockRec]]
      /\ block'[a][b].partition = partition[a]
      /\ block'[a][b].offset = p
      /\ block'[a][b].SendCopy = block[a][b].SendCopy
      /\ block'[a][b].RecvRedCopy = nx
      /\ \A r \in RanksOf(m), d \in BlocksOf(m) : r # a \/ d # b => block'[r][d] = block[r][d]
      /\ completed' \in [RanksOf(m) -> [KernelOps -> [BlocksOf(m) -> Int]]]
      /\ completed'[a]["RecvRedCopy"][b] = T
      /\ \A r \in RanksOf(m), j \in KernelOps, d \in BlocksOf(m) :
            r # a \/ j # "RecvRedCopy" \/ d # b => completed'[r][j][d] = completed[r][j][d]
  <2>1. nx = Advance(a, "RecvRedCopy", block[a][b].offset, block[a][b].RecvRedCopy)  BY <1>3
  <2> HIDE DEF nx
  <2> QED BY <2>1, <1>1, <1>3, CompleteRecv
<1> HIDE DEF nx
<1>5. "SendCopy" \in KernelOps /\ "RecvRedCopy" \in KernelOps  BY DEF KernelOps
<1>6. BlockAt(m, a, b)'
  <2>1. done[a].RecvRedCopy.round \in Nat /\ post[a].RecvRedCopy.round \in Nat  BY HostFacts, Rounds
  <2>2. SameBlock(m, a, host[a], partition[a], p, block'[a][b],
             completed'[a]["SendCopy"][b], completed'[a]["RecvRedCopy"][b],
             post[a].SendCopy.round, post[a].RecvRedCopy.round,
             done[a].SendCopy.round, done[a].RecvRedCopy.round)
    <3>1. completed'[a]["SendCopy"][b] = completed[a]["SendCopy"][b]  BY <1>4, <1>5
    <3>2. /\ done[a].RecvRedCopy.round <= nx.round /\ nx.round <= post[a].RecvRedCopy.round
          /\ T = nx.round - 1
      <4> HIDE DEF x, p
      <4> QED BY <2>1, <1>3
    <3> QED BY <3>1, <3>2, <1>2, <1>3, <1>4 DEF SameBlock
  <2> QED BY <2>2, <1>1 DEF BlockAt, BlockOK
<1>7. \A r \in RanksOf(m), d \in BlocksOf(m) :
         r # a \/ d # b => /\ block'[r][d] = block[r][d]
                           /\ completed'[r]["SendCopy"][d] = completed[r]["SendCopy"][d]
                           /\ completed'[r]["RecvRedCopy"][d] = completed[r]["RecvRedCopy"][d]
  BY <1>4, <1>5
<1>8. \A r \in RanksOf(m), d \in BlocksOf(m) :
         /\ RanS(block'[r][d], partition[r]) = RanS(block[r][d], partition[r])
         /\ r # a \/ d # b => RanR(block'[r][d], partition[r]) = RanR(block[r][d], partition[r])
  BY <1>3, <1>4 DEF RanR, RanS
<1>9. RanR(block'[a][b], partition[a]) = T + 1  BY <1>3, <1>4 DEF RanR
<1> QED BY <1>1, <1>4, <1>6, <1>7, <1>8, <1>9

\* The data keep what they are to be.
LEMMA RecvData ==
    ASSUME NEW m \in Modes, mode = m, Types(m), Control(m), Content(m),
           NEW a \in RanksOf(m), NEW b \in BlocksOf(m), BlockRecv(a, b)
    PROVE  DataAt(m, a)'
<1> DEFINE p == offset[a]
<1> DEFINE l == LeftOf(m, a)
<1> DEFINE s == block[a][b].RecvRedCopy.step
<1> DEFINE T == block[a][b].RecvRedCopy.round
<1> DEFINE E == Elem(m, l, p, s, T)
<1> DEFINE N == Numel(m, l, p, s, T)
<1> DEFINE pr == partition[a]
<1>1. /\ host[a] # "done" /\ s \in 0 .. Steps(m) - 1 /\ T \in RoundsOf(m, l, p, s) /\ T \in Nat
      /\ RanR(block[a][b], pr) = T
  BY RecvRound
<1>2. Good(m, p) /\ l \in RanksOf(m) /\ p \in Nat  BY HostFacts, NeighbourFacts
<1>3. /\ UNCHANGED <<host, partition, offset>>
      /\ \A d \in BlocksOf(m) : d # b => RanR(block'[a][d], pr) = RanR(block[a][d], pr)
      /\ RanR(block'[a][b], pr) = T + 1
  BY RecvBlocks
<1>4. \A e \in ElementsOf(m) :
         data'[a][e] = IF s >= m.nRanks - 2 /\ e - E \in 0 .. N - 1 /\ (e - E) % m.numBlocks = b
                       THEN AllOf(m, e) ELSE data[a][e]
  BY RecvEffect
<1>5. DataRest(m, a, p, data[a]) /\ DataPart(m, a, pr, p, block[a], data[a])
  BY <1>1 DEF Content, DataAt, DataOK
<1>6. E \in Nat /\ p <= E /\ E + N <= p + PartLen(m, p) /\ N \in 1 .. m.chunkNumel
  BY <1>1, <1>2, ChunkFacts
<1>7. m.nRanks \in Nat /\ m.nRanks >= 2 /\ Steps(m) \in Nat /\ m.chunkNumel \in Nat /\ m.numElements \in Nat
      /\ PartLen(m, p) \in Nat /\ p + PartLen(m, p) <= m.numElements
  BY <1>2, ModeFacts, PartFacts
<1> HIDE DEF E, N, T, s, p, l
<1>8. DataRest(m, a, p, data'[a])
  <2> SUFFICES ASSUME NEW e \in ElementsOf(m), e < p \/ e >= p + PartLen(m, p)
               PROVE  data'[a][e] = data[a][e]
    BY <1>5 DEF DataRest
  <2>1. e \in Nat  BY <1>7 DEF ElementsOf
  <2>2. ~ (e - E \in 0 .. N - 1)  BY <2>1, <1>2, <1>6, <1>7
  <2> QED BY <2>2, <1>4
<1>9. DataPart(m, a, pr, p, block'[a], data'[a])
  <2> SUFFICES ASSUME NEW t \in m.nRanks - 2 .. Steps(m) - 1, NEW R \in RoundsOf(m, l, p, t),
                      NEW k \in 0 .. Numel(m, l, p, t, R) - 1
               PROVE  DataCell(m, a, pr, p, block'[a], data'[a], t, R, k)
    BY DEF DataPart, l
  <2> DEFINE e == Elem(m, l, p, t, R) + k
  <2> DEFINE d == k % m.numBlocks
  <2>1. t \in 0 .. Steps(m) - 1  BY <1>7
  <2>2. /\ R \in Nat /\ Numel(m, l, p, t, R) \in 1 .. m.chunkNumel
        /\ Elem(m, l, p, t, R) \in Nat /\ Elem(m, l, p, t, R) + Numel(m, l, p, t, R) <= p + PartLen(m, p)
    BY <2>1, <1>2, ChunkFacts
  <2>3. k \in Nat /\ e \in Nat /\ e \in ElementsOf(m)
    <3>1. k \in Nat /\ k < Numel(m, l, p, t, R) /\ Numel(m, l, p, t, R) \in Nat  BY <2>2, <1>7
    <3>2. Elem(m, l, p, t, R) + k \in Nat /\ Elem(m, l, p, t, R) + k < m.numElements
      BY <3>1, <2>2, <1>2, <1>7
    <3> QED BY <3>1, <3>2, <1>7 DEF ElementsOf
  <2>4. d \in BlocksOf(m)  BY <2>3, ModRange, ModeFacts DEF BlocksOf
  <2>5. data[a][e] = IF RanR(block[a][d], pr) > R THEN AllOf(m, e) ELSE {<<a, e>>}
    <3>1. DataCell(m, a, pr, p, block[a], data[a], t, R, k)  BY <1>5 DEF DataPart, l
    <3> QED BY <3>1 DEF DataCell, l
  \* The element is of the chunk that the block reduces, or is not written.
  <2>6. CASE s >= m.nRanks - 2 /\ e - E \in 0 .. N - 1 /\ (e - E) % m.numBlocks = b
    <3>1. s \in m.nRanks - 2 .. Steps(m) - 1  BY <2>6, <1>1, <1>7
    <3>2. e = E + (e - E)  BY <2>3, <1>6
    <3> DEFINE j == e - E
    <3>3. j \in 0 .. Numel(m, l, p, s, T) - 1 /\ Elem(m, l, p, t, R) + k = Elem(m, l, p, s, T) + j
      BY <2>6, <3>2 DEF E, N
    <3> HIDE DEF j
    <3>4. t = s /\ R = T /\ k = j
      <4>1. T \in RoundsOf(m, l, p, s) /\ Good(m, p) /\ l \in RanksOf(m)  BY <1>1, <1>2
      <4>2. j \in 0 .. Numel(m, l, p, s, T) - 1  BY <3>3
      <4>3. Elem(m, l, p, t, R) + k = Elem(m, l, p, s, T) + j  BY <3>3
      <4> HIDE DEF d, e
      <4> QED BY <3>1, <4>1, <4>2, <4>3, ChunksApart
    <3>5. d = b /\ RanR(block'[a][d], pr) > R  BY <3>4, <2>6, <1>1, <1>3 DEF j
    <3>6. data'[a][e] = AllOf(m, e)  BY <2>3, <2>6, <1>4
    <3> QED BY <3>5, <3>6 DEF DataCell, l
  <2>7. CASE ~ (s >= m.nRanks - 2 /\ e - E \in 0 .. N - 1 /\ (e - E) % m.numBlocks = b)
    <3>1. data'[a][e] = data[a][e]  BY <2>3, <2>7, <1>4
    <3>2. RanR(block'[a][d], pr) > R <=> RanR(block[a][d], pr) > R
      <4>1. CASE d # b  BY <4>1, <2>4, <1>3
      <4>2. CASE d = b
        <5>1. R # T
          <6> SUFFICES ASSUME R = T PROVE FALSE
            OBVIOUS
          <6>1. s = t  BY <2>1, <1>1, <1>2, StepUnique
          <6>2. e = E + k /\ k \in 0 .. N - 1  BY <6>1 DEF E, N
          <6>3. e - E = k  BY <6>2, <2>3, <1>6
          <6>4. s >= m.nRanks - 2  BY <6>1, <1>7
          <6> QED BY <6>2, <6>3, <6>4, <4>2, <2>7
        <5>2. T + 1 > R <=> T > R  BY <5>1, <2>2, <1>1
        <5> QED BY <5>2, <4>2, <1>1, <1>3
      <4> QED BY <4>1, <4>2
    <3> HIDE DEF d
    <3>3. data'[a][e] = IF RanR(block'[a][d], pr) > R THEN AllOf(m, e) ELSE {<<a, e>>}
      BY <3>1, <3>2, <2>5
    <3> QED BY <3>3 DEF DataCell, l, d
  <2> QED BY <2>6, <2>7
<1>10. DataOK(m, a, host[a], pr, p, block'[a], data'[a])  BY <1>1, <1>8, <1>9 DEF DataOK
<1> QED BY <1>3, <1>10 DEF DataAt, p

\* What is to be sent keeps what it is to be.
LEMMA RecvSend ==
    ASSUME NEW m \in Modes, mode = m, Types(m), Control(m), Content(m),
           NEW a \in RanksOf(m), NEW b \in BlocksOf(m), BlockRecv(a, b)
    PROVE  SendAt(m, a)'
<1> DEFINE p == offset[a]
<1> DEFINE l == LeftOf(m, a)
<1> DEFINE s == block[a][b].RecvRedCopy.step
<1> DEFINE T == block[a][b].RecvRedCopy.round
<1> DEFINE E == Elem(m, l, p, s, T)
<1> DEFINE N == Numel(m, l, p, s, T)
<1> DEFINE G == First(m, a, p)
<1> DEFINE F == G + T
<1> DEFINE K == m.numChunks
<1> DEFINE c == F % K
<1> DEFINE la == landed[a]
<1> DEFINE pr == partition[a]
<1>1. /\ host[a] # "done" /\ s \in 0 .. Steps(m) - 1 /\ T \in RoundsOf(m, l, p, s) /\ T \in Nat
      /\ RanR(block[a][b], pr) = T /\ done[a].RecvRedCopy.round <= T /\ T < post[a].RecvRedCopy.round
  BY RecvRound
<1>2. Good(m, p) /\ l \in RanksOf(m) /\ p \in Nat /\ la \in Nat  BY HostFacts, NeighbourFacts
<1>3. G \in Nat /\ F \in Nat
  <2>1. G \in Nat  BY <1>2, FirstIs
  <2> HIDE DEF G, T
  <2> QED BY <2>1, <1>1
<1>4. /\ UNCHANGED <<host, partition, offset, landed>>
      /\ \A d \in BlocksOf(m) : d # b => block'[a][d] = block[a][d]
      /\ RanS(block'[a][b], pr) = RanS(block[a][b], pr)
      /\ RanR(block'[a][b], pr) = T + 1
  BY RecvBlocks
<1>5. /\ \A d \in 0 .. K - 1 : d # c => tmpSend'[a][d] = tmpSend[a][d]
      /\ s = Steps(m) - 1 => tmpSend' = tmpSend
      /\ s # Steps(m) - 1 => \A k \in 0 .. m.chunkNumel - 1 :
            tmpSend'[a][c][k] = IF k \in 0 .. N - 1 /\ k % m.numBlocks = b
                                THEN Value(m, a, s + 1, E + k) ELSE tmpSend[a][c][k]
  BY RecvEffect
<1>6. s # Steps(m) - 1 => la <= F /\ F < la + K
  BY <1>1, ForwardWindow
<1>7. s # Steps(m) - 1 =>
        /\ s + 1 \in 0 .. Steps(m) - 1 /\ F \in RoundsOf(m, a, p, s + 1)
        /\ Numel(m, a, p, s + 1, F) = N /\ Elem(m, a, p, s + 1, F) = E
  BY <1>1, <1>2, Forward
<1>8. s = Steps(m) - 1 => F >= Total(m, a, p) /\ Total(m, a, p) \in Nat
  <2> SUFFICES ASSUME s = Steps(m) - 1 PROVE F >= Total(m, a, p) /\ Total(m, a, p) \in Nat
    OBVIOUS
  <2>0. Steps(m) \in Nat  BY ModeFacts
  <2>1. s \in 0 .. Steps(m) /\ s < Steps(m) /\ s + 1 = Steps(m)  BY <2>0, <1>1
  <2>2. Start(m, a, p, s + 1) = Start(m, l, p, s) + G  BY <2>1, <1>2, StartFacts
  <2>3. T >= Start(m, l, p, s) /\ Start(m, l, p, s) \in Nat  BY <2>1, <1>1, <1>2, ChunkFacts, StartFacts
  <2>4. Total(m, a, p) = Start(m, l, p, s) + G  BY <2>1, <2>2 DEF Total
  <2> HIDE DEF G, T, s, l, p
  <2>5. F >= Total(m, a, p) /\ Total(m, a, p) \in Nat  BY <2>3, <2>4, <1>1, <1>3
  <2> QED BY <2>5
<1> SUFFICES ASSUME NEW u \in 0 .. Steps(m) - 1, NEW R \in RoundsOf(m, a, p, u),
                    NEW k \in 0 .. Numel(m, a, p, u, R) - 1, la <= R,
                    Written(m, a, p, pr, u, R, block'[a][k % m.numBlocks])
             PROVE  tmpSend'[a][R % K][k] = Value(m, a, u, Elem(m, a, p, u, R) + k)
  <2>1. SendOK(m, a, host[a], pr, p, la, block'[a], tmpSend'[a]) => SendAt(m, a)'
    BY <1>4 DEF SendAt
  <2> QED BY <2>1 DEF SendOK
<1> DEFINE d == k % m.numBlocks
<1>9. /\ R \in Nat /\ Numel(m, a, p, u, R) \in 1 .. m.chunkNumel  BY <1>2, ChunkFacts
<1>10. /\ k \in Nat /\ k \in 0 .. m.chunkNumel - 1
  <2>1. m.chunkNumel \in Nat  BY ModeFacts
  <2> QED BY <2>1, <1>9
<1>11. d \in BlocksOf(m)  BY <1>10, ModRange, ModeFacts DEF BlocksOf
<1>12. ASSUME Written(m, a, p, pr, u, R, block[a][d])
       PROVE  tmpSend[a][R % K][k] = Value(m, a, u, Elem(m, a, p, u, R) + k) /\ R < la + K
  <2>1. SendAt(m, a)  BY DEF Content
  <2>2. R < la + K  BY <1>1, <1>11, <1>12, WrittenWindow
  <2> QED BY <2>1, <2>2, <1>1, <1>12 DEF SendAt, SendOK
<1>13. R % K \in 0 .. K - 1 /\ K \in Nat \ {0}  BY <1>9, ModeFacts, ModRange
<1>14. CASE R # F
  <2>1. Written(m, a, p, pr, u, R, block[a][d])
    <3>1. CASE d # b  BY <3>1, <1>4, <1>11
    <3>2. CASE d = b /\ u = 0  BY <3>2, <1>4 DEF Written
    <3>3. CASE d = b /\ u # 0
      <4>1. G + (T + 1) > R  BY <3>3, <1>4 DEF Written
      <4>2. G + T > R
        <5> HIDE DEF G, T
        <5> QED BY <4>1, <1>1, <1>3, <1>9, <1>14
      <4> QED BY <4>2, <3>3, <1>1 DEF Written
    <3> QED BY <3>1, <3>2, <3>3
  <2>2. CASE s = Steps(m) - 1  BY <2>1, <2>2, <1>5, <1>12
  <2>3. CASE s # Steps(m) - 1
    <3>1. R % K # c
      <4>1. R < la + K  BY <2>1, <1>12
      <4>2. la <= F /\ F < la + K  BY <2>3, <1>6
      <4> HIDE DEF F, la, K
      <4> QED BY <4>1, <4>2, <1>2, <1>3, <1>9, <1>13, <1>14, ChunkApart
    <3>2. tmpSend'[a][R % K] = tmpSend[a][R % K]  BY <3>1, <1>5, <1>13
    <3> QED BY <2>1, <3>2, <1>12
  <2> QED BY <2>2, <2>3
<1>15. CASE R = F
  <2>1. s # Steps(m) - 1
    <3> SUFFICES ASSUME s = Steps(m) - 1 PROVE FALSE
      OBVIOUS
    <3>1. F >= Total(m, a, p) /\ Total(m, a, p) \in Nat  BY <1>8
    <3>2. R < Total(m, a, p)  BY <1>2, BelowTotal
    <3> HIDE DEF F, p
    <3> QED BY <3>1, <3>2, <1>3, <1>15
  <2>2. u = s + 1 /\ k \in 0 .. N - 1 /\ Elem(m, a, p, u, R) = E
    <3>1. /\ s + 1 \in 0 .. Steps(m) - 1 /\ F \in RoundsOf(m, a, p, s + 1)
          /\ Numel(m, a, p, s + 1, F) = N /\ Elem(m, a, p, s + 1, F) = E
      BY <2>1, <1>7
    <3> DEFINE v == s + 1
    <3>2. v \in 0 .. Steps(m) - 1 /\ R \in RoundsOf(m, a, p, v)  BY <3>1, <1>15
    <3> HIDE DEF v, F, N, E, s
    <3>3. u = v  BY <3>2, <1>2, StepUnique
    <3> QED BY <3>1, <3>3, <1>15 DEF v
  <2>3. tmpSend'[a][c][k] = IF k \in 0 .. N - 1 /\ d = b THEN Value(m, a, s + 1, E + k) ELSE tmpSend[a][c][k]
    BY <2>1, <1>5, <1>10
  <2>4. R % K = c  BY <1>15
  <2> HIDE DEF c, N, E, K, d, s
  <2>5. CASE d = b
    <3>1. tmpSend'[a][c][k] = Value(m, a, u, E + k)  BY <2>2, <2>3, <2>5
    <3> QED BY <3>1, <2>2, <2>4
  <2>6. CASE d # b
    <3>1. Written(m, a, p, pr, u, R, block[a][d])  BY <2>6, <1>4, <1>11 DEF d
    <3>2. tmpSend[a][R % K][k] = Value(m, a, u, Elem(m, a, p, u, R) + k)  BY <3>1, <1>12
    <3> QED BY <3>2, <2>3, <2>4, <2>6
  <2> QED BY <2>5, <2>6
<1> QED BY <1>14, <1>15

\* A block reduces its positions of a received chunk, writes the sum, and forwards.
LEMMA BlockRecvStep ==
    ASSUME NEW m \in Modes, mode = m, Types(m), Control(m), Content(m),
           NEW a \in RanksOf(m), NEW b \in BlocksOf(m), BlockRecv(a, b)
    PROVE  mode' = m /\ Types(m)' /\ Control(m)' /\ Content(m)'
<1> DEFINE T == block[a][b].RecvRedCopy.round
<1>1. /\ UNCHANGED <<mode, host, partition, offset, post, done, posted, started, tmpRecv,
                     wire, arrived, landed, notify, sync>>
      /\ block' \in [RanksOf(m) -> [BlocksOf(m) -> BlockRec]]
      /\ completed' \in [RanksOf(m) -> [KernelOps -> [BlocksOf(m) -> Int]]]
      /\ BlockAt(m, a, b)'
      /\ \A r \in RanksOf(m), d \in BlocksOf(m) :
            r # a \/ d # b => /\ block'[r][d] = block[r][d]
                              /\ completed'[r]["SendCopy"][d] = completed[r]["SendCopy"][d]
                              /\ completed'[r]["RecvRedCopy"][d] = completed[r]["RecvRedCopy"][d]
  BY RecvBlocks
<1>2. /\ data' \in [RanksOf(m) -> [ElementsOf(m) -> Vals(m)]]
      /\ \A r \in RanksOf(m) : r # a => data'[r] = data[r]
      /\ tmpSend' \in [RanksOf(m) -> Buf(m)]
      /\ \A r \in RanksOf(m) : r # a => tmpSend'[r] = tmpSend[r]
  <2> DEFINE s == block[a][b].RecvRedCopy.step
  <2>1. ASSUME NEW E, E = Elem(m, LeftOf(m, a), offset[a], s, T),
               NEW N, N = Numel(m, LeftOf(m, a), offset[a], s, T),
               NEW c, c = (First(m, a, offset[a]) + T) % m.numChunks
        PROVE  /\ data' \in [RanksOf(m) -> [ElementsOf(m) -> Vals(m)]]
               /\ \A r \in RanksOf(m) : r # a => data'[r] = data[r]
               /\ tmpSend' \in [RanksOf(m) -> Buf(m)]
               /\ \A r \in RanksOf(m) : r # a => tmpSend'[r] = tmpSend[r]
    BY <2>1, RecvEffect
  <2> QED BY <2>1
<1>3. Types(m)'
  BY <1>1, <1>2 DEF Types, HostTypes, FlagTypes, BlockTypes, DataTypes, NetTypes
<1>4. Control(m)'  BY <1>1, BlockControl
<1>5. ASSUME NEW r \in RanksOf(m)
      PROVE  SendAt(m, r)' /\ WireAt(m, r)' /\ ArrivedAt(m, r)' /\ SeenAt(m, r)' /\ DataAt(m, r)'
  <2>1. SendAt(m, r) /\ WireAt(m, r) /\ ArrivedAt(m, r) /\ SeenAt(m, r) /\ DataAt(m, r)
    BY DEF Content
  <2>2. SendAt(m, r)' /\ DataAt(m, r)'
    <3>1. CASE r # a
      <4>1. block'[r] = block[r]
        <5>1. \A d \in BlocksOf(m) : block'[r][d] = block[r][d]  BY <3>1, <1>1
        <5>2. block'[r] \in [BlocksOf(m) -> BlockRec] /\ block[r] \in [BlocksOf(m) -> BlockRec]
          BY <1>1 DEF Types, BlockTypes
        <5> HIDE DEF BlocksOf
        <5> QED BY <5>1, <5>2
      <4>2. SendAt(m, r)'  BY <4>1, <3>1, <2>1, <1>1, <1>2 DEF SendAt
      <4>3. DataAt(m, r)'  BY <4>1, <3>1, <2>1, <1>1, <1>2 DEF DataAt
      <4> QED BY <4>2, <4>3
    <3> QED BY <3>1, RecvSend, RecvData
  <2>3. WireAt(m, r)'  BY <2>1, <1>1 DEF WireAt
  <2>4. ArrivedAt(m, r)'  BY <2>1, <1>1 DEF ArrivedAt
  <2>5. SeenAt(m, r)'  BY <2>1, <1>1 DEF SeenAt
  <2> QED BY <2>2, <2>3, <2>4, <2>5
<1>6. Content(m)'  BY <1>5 DEF Content
<1> QED BY <1>1, <1>3, <1>4, <1>6

-----------------------------------------------------------------------------
(* The steps of the network.                                               *)

\* What a put that has been posted is to read is there, until it arrives.
LEMMA PutData ==
    ASSUME NEW m \in Modes, mode = m, Types(m), Control(m), Content(m), NEW a \in RanksOf(m),
           host[a] # "done", NEW s \in 0 .. Steps(m) - 1, NEW R \in RoundsOf(m, a, offset[a], s),
           landed[a] <= R, R < post[a].SendTrans.round,
           NEW k \in 0 .. Numel(m, a, offset[a], s, R) - 1
    PROVE  tmpSend[a][R % m.numChunks][k] = Value(m, a, s, Elem(m, a, offset[a], s, R) + k)
<1> DEFINE p == offset[a]
<1> DEFINE d == k % m.numBlocks
<1> DEFINE bk == block[a][d]
<1> DEFINE G == First(m, a, p)
<1> DEFINE dS == done[a].SendCopy.round
<1> DEFINE dR == done[a].RecvRedCopy.round
<1>1. /\ Good(m, p) /\ post[a] \in [Ops -> Counter] /\ done[a] \in [Ops -> Counter]
      /\ HostRounds(m, a, host[a], p, post[a], done[a], landed[a], sync[a])
      /\ Counters(m, a, p, done[a])
  BY HostFacts
<1>2. dS \in Nat /\ dR \in Nat /\ post[a].SendTrans.round \in Nat /\ post[a].RecvRedCopy.round \in Nat
  BY <1>1, Rounds
<1>3. G \in Nat  BY <1>1, FirstIs
<1>4. dS <= G
  <2>1. "SendCopy" \in Ops  BY DEF Ops, KernelOps
  <2> QED BY <2>1, <1>1 DEF Counters, Bound
<1>5. /\ post[a].SendTrans.round <= dS + dR /\ dR <= post[a].RecvRedCopy.round
      /\ post[a].RecvRedCopy.round > 0 => dS = G
  BY <1>1 DEF HostRounds
<1>6. /\ R \in Nat /\ Numel(m, a, p, s, R) \in 1 .. m.chunkNumel /\ R < Start(m, a, p, s + 1)
  BY <1>1, ChunkFacts
<1>7. k \in Nat
  <2>1. m.chunkNumel \in Nat  BY ModeFacts
  <2> QED BY <2>1, <1>6
<1>8. d \in BlocksOf(m)  BY <1>7, ModRange, ModeFacts DEF BlocksOf
<1>9. BlockAt(m, a, d)  BY <1>8, ControlAt
<1>10. ~ BehindBlock(m, a, host[a], partition[a], p, bk, completed[a]["SendCopy"][d],
                     completed[a]["RecvRedCopy"][d], dS, dR)
  <2> SUFFICES ASSUME dS = 0, dR = 0 PROVE FALSE
    BY DEF BehindBlock
  <2> HIDE DEF dS, dR
  <2> QED BY <1>2, <1>5, <1>6
<1>11. /\ bk.partition = partition[a] /\ dS <= bk.SendCopy.round /\ dR <= bk.RecvRedCopy.round
  BY <1>9, <1>10 DEF BlockAt, BlockOK, SameBlock
<1>12. bk.SendCopy.round \in Nat /\ bk.RecvRedCopy.round \in Nat
  BY <1>8 DEF Types, BlockTypes, BlockRec, Counter
<1>13. Written(m, a, p, partition[a], s, R, bk)
  <2>1. CASE s = 0
    <3>1. R < G  BY <2>1, <1>6 DEF First
    <3> HIDE DEF G, dS, dR, bk
    <3>2. bk.SendCopy.round > R  BY <3>1, <1>2, <1>3, <1>5, <1>6, <1>11, <1>12
    <3> QED BY <3>2, <2>1, <1>11 DEF Written, RanS
  <2>2. CASE s # 0
    <3> HIDE DEF dS, dR, bk, G
    <3>1. G + bk.RecvRedCopy.round > R  BY <1>2, <1>3, <1>4, <1>5, <1>6, <1>11, <1>12
    <3> QED BY <3>1, <2>2, <1>11 DEF Written, RanR, G
  <2> QED BY <2>1, <2>2
<1>14. SendAt(m, a)  BY DEF Content
<1> QED BY <1>13, <1>14 DEF SendAt, SendOK

\* A queue after its head was taken, or an entry was put at its end.
LEMMA SeqFacts ==
    ASSUME NEW S, NEW t \in Seq(S)
    PROVE  /\ Len(t) \in Nat
           /\ t # << >> => /\ Len(t) > 0 /\ Head(t) \in S /\ Head(t) = t[1]
                           /\ Tail(t) \in Seq(S) /\ Len(Tail(t)) = Len(t) - 1
                           /\ \A i \in 1 .. Len(t) - 1 : Tail(t)[i] = t[i + 1]
           /\ \A e \in S : /\ Append(t, e) \in Seq(S) /\ Len(Append(t, e)) = Len(t) + 1
                           /\ Append(t, e)[Len(t) + 1] = e
                           /\ \A i \in 1 .. Len(t) : Append(t, e)[i] = t[i]
OBVIOUS

\* Of one entry.
LEMMA Update1 ==
    ASSUME NEW R, NEW V, NEW f \in [R -> V], NEW a \in R, NEW v \in V,
           NEW g, g = [f EXCEPT ![a] = v]
    PROVE  g \in [R -> V] /\ g[a] = v /\ \A r \in R : r # a => g[r] = f[r]
OBVIOUS

\* What the arrival of a put changes.
LEMMA LandFacts ==
    ASSUME NEW m \in Modes, mode = m, Types(m), Control(m), NEW a \in RanksOf(m), Land(a),
           NEW q, q = RightOf(m, a), NEW put, put = Head(wire[a]),
           NEW v, v = [chunk |-> put.chunk, numel |-> put.numel, vals |-> tmpSend[a][put.chunk]]
    PROVE  /\ UNCHANGED <<mode, host, partition, offset, post, done, posted, started, completed, block,
                          data, tmpSend, tmpRecv, sync>>
           /\ host[a] # "done" /\ Len(wire[a]) \in Nat \ {0} /\ Len(arrived[q]) \in Nat
           /\ put = wire[a][1] /\ v \in Arrival(m)
           /\ wire' \in [RanksOf(m) -> Seq(Put(m))] /\ Len(wire'[a]) = Len(wire[a]) - 1
           /\ \A i \in 1 .. Len(wire[a]) - 1 : wire'[a][i] = wire[a][i + 1]
           /\ arrived' \in [RanksOf(m) -> Seq(Arrival(m))] /\ Len(arrived'[q]) = Len(arrived[q]) + 1
           /\ arrived'[q][Len(arrived[q]) + 1] = v
           /\ \A i \in 1 .. Len(arrived[q]) : arrived'[q][i] = arrived[q][i]
           /\ landed' \in [RanksOf(m) -> Nat] /\ landed'[a] = landed[a] + 1
           /\ notify' \in [RanksOf(m) -> Nat] /\ notify'[q] = notify[q] + 1
           /\ \A r \in RanksOf(m) : r # a => wire'[r] = wire[r] /\ landed'[r] = landed[r]
           /\ \A r \in RanksOf(m) : r # q => arrived'[r] = arrived[r] /\ notify'[r] = notify[r]
<1>1. /\ wire[a] # << >> /\ Right(a) = q /\ q \in RanksOf(m)
      /\ UNCHANGED <<mode, host, partition, offset, post, done, posted, started, completed, block,
                     data, tmpSend, tmpRecv, sync>>
  BY NeighbourFacts, ModeIs DEF Land, hostVars, partVars, flagVars, bufferVars
<1>2. /\ wire' = [wire EXCEPT ![a] = Tail(wire[a])]
      /\ arrived' = [arrived EXCEPT ![q] = Append(arrived[q], v)]
      /\ landed' = [landed EXCEPT ![a] = landed[a] + 1]
      /\ notify' = [notify EXCEPT ![q] = notify[q] + 1]
  BY <1>1 DEF Land
<1>3. /\ wire \in [RanksOf(m) -> Seq(Put(m))] /\ arrived \in [RanksOf(m) -> Seq(Arrival(m))]
      /\ landed \in [RanksOf(m) -> Nat] /\ notify \in [RanksOf(m) -> Nat]
  BY DEF Types, NetTypes
<1>4. wire[a] \in Seq(Put(m)) /\ arrived[q] \in Seq(Arrival(m)) /\ landed[a] + 1 \in Nat /\ notify[q] + 1 \in Nat
  BY <1>1, <1>3
<1>5. /\ Len(wire[a]) \in Nat \ {0} /\ put \in Put(m) /\ put = wire[a][1]
      /\ Tail(wire[a]) \in Seq(Put(m)) /\ Len(Tail(wire[a])) = Len(wire[a]) - 1
      /\ \A i \in 1 .. Len(wire[a]) - 1 : Tail(wire[a])[i] = wire[a][i + 1]
  <2> DEFINE t == wire[a]
  <2> DEFINE S == Put(m)
  <2>1. t \in Seq(S) /\ t # << >> /\ put = Head(t)  BY <1>1, <1>4
  <2> HIDE DEF t, S
  <2>2. /\ Len(t) \in Nat \ {0} /\ put \in S /\ put = t[1]
        /\ Tail(t) \in Seq(S) /\ Len(Tail(t)) = Len(t) - 1
        /\ \A i \in 1 .. Len(t) - 1 : Tail(t)[i] = t[i + 1]
    BY <2>1, SeqFacts
  <2> QED BY <2>2 DEF t, S
<1>6. v \in Arrival(m)
  <2>1. put.chunk \in 0 .. m.numChunks - 1 /\ put.numel \in Nat  BY <1>5 DEF Put
  <2>2. tmpSend[a][put.chunk] \in [0 .. m.chunkNumel - 1 -> Vals(m)]
    BY <2>1 DEF Types, DataTypes, Buf
  <2> QED BY <2>1, <2>2 DEF Arrival
<1>7. /\ Append(arrived[q], v) \in Seq(Arrival(m)) /\ Len(arrived[q]) \in Nat
      /\ Len(Append(arrived[q], v)) = Len(arrived[q]) + 1
      /\ Append(arrived[q], v)[Len(arrived[q]) + 1] = v
      /\ \A i \in 1 .. Len(arrived[q]) : Append(arrived[q], v)[i] = arrived[q][i]
  <2> DEFINE t == arrived[q]
  <2> DEFINE S == Arrival(m)
  <2>1. t \in Seq(S) /\ v \in S  BY <1>4, <1>6
  <2> HIDE DEF t, S
  <2>2. /\ Append(t, v) \in Seq(S) /\ Len(t) \in Nat
        /\ Len(Append(t, v)) = Len(t) + 1 /\ Append(t, v)[Len(t) + 1] = v
        /\ \A i \in 1 .. Len(t) : Append(t, v)[i] = t[i]
    BY <2>1, SeqFacts
  <2> QED BY <2>2 DEF t, S
<1>8. /\ wire' \in [RanksOf(m) -> Seq(Put(m))] /\ wire'[a] = Tail(wire[a])
      /\ \A r \in RanksOf(m) : r # a => wire'[r] = wire[r]
  <2>1. ASSUME NEW g, g = [wire EXCEPT ![a] = Tail(wire[a])]
        PROVE  /\ g \in [RanksOf(m) -> Seq(Put(m))] /\ g[a] = Tail(wire[a])
               /\ \A r \in RanksOf(m) : r # a => g[r] = wire[r]
    BY <2>1, <1>3, <1>5, Update1
  <2> QED BY <2>1, <1>2
<1>9. /\ arrived' \in [RanksOf(m) -> Seq(Arrival(m))] /\ arrived'[q] = Append(arrived[q], v)
      /\ \A r \in RanksOf(m) : r # q => arrived'[r] = arrived[r]
  <2> DEFINE w == Append(arrived[q], v)
  <2>1. w \in Seq(Arrival(m)) /\ arrived' = [arrived EXCEPT ![q] = w]  BY <1>2, <1>7
  <2> HIDE DEF w
  <2>2. ASSUME NEW g, g = [arrived EXCEPT ![q] = w]
        PROVE  /\ g \in [RanksOf(m) -> Seq(Arrival(m))] /\ g[q] = w
               /\ \A r \in RanksOf(m) : r # q => g[r] = arrived[r]
    BY <2>1, <2>2, <1>1, <1>3, Update1
  <2>3. /\ arrived' \in [RanksOf(m) -> Seq(Arrival(m))] /\ arrived'[q] = w
        /\ \A r \in RanksOf(m) : r # q => arrived'[r] = arrived[r]
    BY <2>1, <2>2
  <2> QED BY <2>3 DEF w
<1>10. /\ landed' \in [RanksOf(m) -> Nat] /\ landed'[a] = landed[a] + 1
       /\ \A r \in RanksOf(m) : r # a => landed'[r] = landed[r]
  BY <1>2, <1>3, <1>4
<1>11. /\ notify' \in [RanksOf(m) -> Nat] /\ notify'[q] = notify[q] + 1
       /\ \A r \in RanksOf(m) : r # q => notify'[r] = notify[r]
  BY <1>1, <1>2, <1>3, <1>4
<1>12. host[a] # "done"
  <2>1. PairAt(m, a)  BY ControlAt
  <2> QED BY <2>1, <1>1 DEF PairAt, PairOK, Same, Ahead, Behind
<1> QED BY <1>1, <1>5, <1>6, <1>7, <1>8, <1>9, <1>10, <1>11, <1>12

\* A put arrives: it carries what tmpSendBuf holds then.
LEMMA LandStep ==
    ASSUME NEW m \in Modes, mode = m, Types(m), Control(m), Content(m),
           NEW a \in RanksOf(m), Land(a)
    PROVE  mode' = m /\ Types(m)' /\ Control(m)' /\ Content(m)'
<1> DEFINE q == RightOf(m, a)
<1> DEFINE put == Head(wire[a])
<1> DEFINE v == [chunk |-> put.chunk, numel |-> put.numel, vals |-> tmpSend[a][put.chunk]]
<1> DEFINE n == Len(arrived[q])
<1> DEFINE W == Len(wire[a])
<1> DEFINE la == landed[a]
<1> DEFINE p == offset[a]
<1>1. /\ UNCHANGED <<mode, host, partition, offset, post, done, posted, started, completed, block,
                     data, tmpSend, tmpRecv, sync>>
      /\ host[a] # "done" /\ W \in Nat \ {0} /\ n \in Nat
      /\ put = wire[a][1] /\ v \in Arrival(m)
      /\ wire' \in [RanksOf(m) -> Seq(Put(m))] /\ Len(wire'[a]) = W - 1
      /\ \A i \in 1 .. W - 1 : wire'[a][i] = wire[a][i + 1]
      /\ arrived' \in [RanksOf(m) -> Seq(Arrival(m))] /\ Len(arrived'[q]) = n + 1
      /\ arrived'[q][n + 1] = v
      /\ \A i \in 1 .. n : arrived'[q][i] = arrived[q][i]
      /\ landed' \in [RanksOf(m) -> Nat] /\ landed'[a] = la + 1
      /\ notify' \in [RanksOf(m) -> Nat] /\ notify'[q] = notify[q] + 1
      /\ \A r \in RanksOf(m) : r # a => wire'[r] = wire[r] /\ landed'[r] = landed[r]
      /\ \A r \in RanksOf(m) : r # q => arrived'[r] = arrived[r] /\ notify'[r] = notify[r]
  <2>1. ASSUME NEW u, u = put, NEW w, w = v
        PROVE  /\ UNCHANGED <<mode, host, partition, offset, post, done, posted, started, completed, block,
                     data, tmpSend, tmpRecv, sync>>
               /\ host[a] # "done" /\ W \in Nat \ {0} /\ n \in Nat
               /\ u = wire[a][1] /\ w \in Arrival(m)
               /\ wire' \in [RanksOf(m) -> Seq(Put(m))] /\ Len(wire'[a]) = W - 1
               /\ \A i \in 1 .. W - 1 : wire'[a][i] = wire[a][i + 1]
               /\ arrived' \in [RanksOf(m) -> Seq(Arrival(m))] /\ Len(arrived'[q]) = n + 1
               /\ arrived'[q][n + 1] = w
               /\ \A i \in 1 .. n : arrived'[q][i] = arrived[q][i]
               /\ landed' \in [RanksOf(m) -> Nat] /\ landed'[a] = la + 1
               /\ notify' \in [RanksOf(m) -> Nat] /\ notify'[q] = notify[q] + 1
               /\ \A r \in RanksOf(m) : r # a => wire'[r] = wire[r] /\ landed'[r] = landed[r]
               /\ \A r \in RanksOf(m) : r # q => arrived'[r] = arrived[r] /\ notify'[r] = notify[r]
    <3>1. u = Head(wire[a]) /\ w = [chunk |-> u.chunk, numel |-> u.numel, vals |-> tmpSend[a][u.chunk]]
      BY <2>1
    <3> HIDE DEF put, v
    <3> QED BY <3>1, LandFacts
  <2> QED BY <2>1
<1> HIDE DEF v
<1>2. /\ la \in Nat /\ Good(m, p) /\ q \in RanksOf(m) /\ q # a
      /\ HostRounds(m, a, host[a], p, post[a], done[a], la, sync[a])
      /\ post[a] \in [Ops -> Counter] /\ done[a] \in [Ops -> Counter] /\ post[a].SendTrans.round \in Nat
  BY HostFacts, NeighbourFacts, Rounds
<1>3. Types(m)'
  BY <1>1 DEF Types, HostTypes, FlagTypes, BlockTypes, DataTypes, NetTypes
<1>4. la + W = post[a].SendTrans.round
  BY <1>1, ControlAt DEF PairAt, PairOK
<1> DEFINE sr == post[a].SendTrans.round
<1>a. la \in Nat /\ W \in Nat \ {0} /\ n \in Nat /\ sr \in Nat /\ la + W = sr  BY <1>1, <1>2, <1>4
\* The ranks that have another right neighbour.
<1>5. ASSUME NEW r \in RanksOf(m), r # a
      PROVE  RightOf(m, r) \in RanksOf(m) /\ RightOf(m, r) # q
  <2>1. LeftOf(m, q) = a  BY NeighbourFacts
  <2> QED BY <2>1, <1>2, <1>5, OtherRight
<1>6. HostAt(m, a)'
  <2>1. HostOK(m, a, host[a], p, post[a], done[a], la, sync[a])  BY HostFacts DEF HostAt
  <2>2. HostRounds(m, a, host[a], p, post[a], done[a], la + 1, sync[a])
    <3>1. done[a].SendTrans.round \in Nat  BY <1>2, Rounds
    <3> HIDE DEF la
    <3>2. done[a].SendTrans.round <= la + 1  BY <3>1, <1>1, <1>2 DEF HostRounds
    <3> QED BY <3>2, <1>1, <1>2 DEF HostRounds
  <2>3. HostOK(m, a, host[a], p, post[a], done[a], la + 1, sync[a])  BY <2>1, <2>2 DEF HostOK
  <2> QED BY <2>3, <1>1 DEF HostAt
<1>7. PairAt(m, a)'
  <2> DEFINE no == notify[q]
  <2> DEFINE rt == done[q].RecvTrans.round
  <2> DEFINE rf == done[q].RecvFlush.round
  <2>1. no \in Nat /\ rt \in Nat /\ rf \in Nat
    <3>1. done[q] \in [Ops -> Counter] /\ no \in Nat  BY <1>2, HostFacts
    <3> QED BY <3>1, Rounds
  <2>2. PairOK(m, a, host[a], partition[a], partition[q], offset[a], offset[q], sync[a], la,
               wire[a], arrived[q], no, post[a].SendTrans.round, rt, rf, done[q].RecvRedCopy.round)
    BY ControlAt DEF PairAt
  <2>3. (la + 1) + (W - 1) = post[a].SendTrans.round /\ n + 1 <= la + 1
    <3>1. n <= la  BY <2>2 DEF PairOK
    <3>2. (la + 1) + (W - 1) = sr /\ n + 1 <= la + 1
      <4> HIDE DEF la, W, n, sr
      <4> QED BY <3>1, <1>a
    <3> QED BY <3>2
  <2>4. CASE Same(host[a], partition[a], partition[q], offset[a], offset[q], sync[a], la, arrived[q], no,
                  rt, rf, done[q].RecvRedCopy.round)
    <3>1. la = rt + no /\ rf <= la - n  BY <2>4 DEF Same
    <3>2. la + 1 = rt + (no + 1) /\ rf <= (la + 1) - (n + 1)
      <4> HIDE DEF la, n, no, rt, rf
      <4> QED BY <3>1, <2>1, <1>1, <1>2
    <3>3. Same(host[a], partition[a], partition[q], offset[a], offset[q], sync[a], la + 1, arrived'[q], no + 1,
               rt, rf, done[q].RecvRedCopy.round)
      BY <3>2, <2>4, <1>1 DEF Same
    <3> QED BY <3>3, <2>3, <1>1 DEF PairAt, PairOK
  <2>5. CASE Ahead(m, a, host[a], partition[a], partition[q], offset[a], offset[q], sync[a], la,
                   wire[a], arrived[q], no, done[q].RecvRedCopy.round)
    <3>1. no + 1 = la + 1  BY <2>5 DEF Ahead
    <3>2. Ahead(m, a, host[a], partition[a], partition[q], offset[a], offset[q], sync[a], la + 1,
                wire'[a], arrived'[q], no + 1, done[q].RecvRedCopy.round)
      BY <3>1, <2>5, <1>1 DEF Ahead
    <3> QED BY <3>2, <2>3, <1>1 DEF PairAt, PairOK
  <2>6. CASE Behind(m, a, host[a], partition[a], partition[q], offset[a], offset[q], sync[a], la,
                    arrived[q], no, post[a].SendTrans.round, rt)
    <3>1. post[a].SendTrans.round = la  BY <2>6 DEF Behind
    <3> HIDE DEF la, W
    <3> QED BY <3>1, <1>1, <1>2, <1>4
  <2> QED BY <2>2, <2>4, <2>5, <2>6 DEF PairOK
<1>8. Control(m)'
  <2> SUFFICES ASSUME NEW r \in RanksOf(m)
               PROVE  HostAt(m, r)' /\ PairAt(m, r)' /\ FlagsAt(m, r)' /\ (\A b \in BlocksOf(m) : BlockAt(m, r, b)')
    BY DEF Control
  <2>1. HostAt(m, r) /\ PairAt(m, r) /\ FlagsAt(m, r) /\ (\A b \in BlocksOf(m) : BlockAt(m, r, b))
    BY ControlAt
  <2>2. FlagsAt(m, r)'  BY <2>1, <1>1 DEF FlagsAt
  <2>3. ASSUME NEW b \in BlocksOf(m) PROVE BlockAt(m, r, b)'  BY <2>1, <1>1 DEF BlockAt
  <2>4. CASE r = a  BY <2>2, <2>3, <2>4, <1>6, <1>7
  <2>5. CASE r # a
    <3>1. HostAt(m, r)'  BY <2>1, <2>5, <1>1 DEF HostAt
    <3>2. PairAt(m, r)'  BY <2>1, <2>5, <1>1, <1>5 DEF PairAt
    <3> QED BY <3>1, <3>2, <2>2, <2>3
  <2> QED BY <2>4, <2>5
<1>9. WireAt(m, a)'
  <2>1. WireOK(m, a, p, la, wire[a])  BY DEF Content, WireAt
  <2> SUFFICES ASSUME NEW i \in 1 .. W - 1
               PROVE  /\ wire'[a][i].chunk = ((la + 1) + i - 1) % m.numChunks
                      /\ \A s \in 0 .. Steps(m) - 1 : \A R \in RoundsOf(m, a, p, s) :
                            R = (la + 1) + i - 1 => wire'[a][i].numel = Numel(m, a, p, s, R)
    <3>1. WireOK(m, a, p, la + 1, wire'[a]) => WireAt(m, a)'  BY <1>1 DEF WireAt
    <3>2. Len(wire'[a]) = W - 1  BY <1>1
    <3> QED BY <3>1, <3>2 DEF WireOK
  <2>2. i + 1 \in 1 .. W /\ (la + 1) + i - 1 = la + (i + 1) - 1
    <3> HIDE DEF W, la
    <3> QED BY <1>1, <1>2
  <2>3. /\ wire[a][i + 1].chunk = (la + (i + 1) - 1) % m.numChunks
        /\ \A s \in 0 .. Steps(m) - 1 : \A R \in RoundsOf(m, a, p, s) :
               R = la + (i + 1) - 1 => wire[a][i + 1].numel = Numel(m, a, p, s, R)
    <3> DEFINE j == i + 1
    <3>1. j \in 1 .. W  BY <2>2
    <3> HIDE DEF j
    <3>2. /\ wire[a][j].chunk = (la + j - 1) % m.numChunks
          /\ \A s \in 0 .. Steps(m) - 1 : \A R \in RoundsOf(m, a, p, s) :
                R = la + j - 1 => wire[a][j].numel = Numel(m, a, p, s, R)
      BY <2>1, <3>1 DEF WireOK
    <3> QED BY <3>2 DEF j
  <2>4. wire'[a][i] = wire[a][i + 1]  BY <1>1
  <2> QED BY <2>2, <2>3, <2>4
<1>10. ArrivedAt(m, a)'
  <2>1. ArrivedOK(m, a, p, la, arrived[q])  BY DEF Content, ArrivedAt
  <2> SUFFICES ASSUME NEW i \in 1 .. n + 1
               PROVE  /\ arrived'[q][i].chunk = ((la + 1) - (n + 1) + i - 1) % m.numChunks
                      /\ \A s \in 0 .. Steps(m) - 1 : \A R \in RoundsOf(m, a, p, s) :
                           R = (la + 1) - (n + 1) + i - 1 =>
                           /\ arrived'[q][i].numel = Numel(m, a, p, s, R)
                           /\ \A k \in 0 .. arrived'[q][i].numel - 1 :
                                 arrived'[q][i].vals[k] = Value(m, a, s, Elem(m, a, p, s, R) + k)
    <3>1. ArrivedOK(m, a, p, la + 1, arrived'[q]) => ArrivedAt(m, a)'  BY <1>1 DEF ArrivedAt
    <3>2. Len(arrived'[q]) = n + 1  BY <1>1
    <3> QED BY <3>1, <3>2 DEF ArrivedOK
  <2>2. CASE i \in 1 .. n
    <3>1. (la + 1) - (n + 1) + i - 1 = la - n + i - 1
      <4> HIDE DEF la, n
      <4> QED BY <2>2, <1>1, <1>2
    <3>2. arrived'[q][i] = arrived[q][i]  BY <2>2, <1>1
    <3> QED BY <2>1, <2>2, <3>1, <3>2 DEF ArrivedOK
  <2>3. CASE i = n + 1
    <3>1. (la + 1) - (n + 1) + i - 1 = la
      <4> HIDE DEF la, n
      <4> QED BY <2>3, <1>1, <1>2
    <3>2. arrived'[q][i] = v  BY <2>3, <1>1
    <3>3. /\ put.chunk = la % m.numChunks
          /\ \A s \in 0 .. Steps(m) - 1 : \A R \in RoundsOf(m, a, p, s) :
                R = la => put.numel = Numel(m, a, p, s, R)
      <4>1. WireOK(m, a, p, la, wire[a])  BY DEF Content, WireAt
      <4>2. 1 \in 1 .. W /\ la + 1 - 1 = la
        <5> HIDE DEF la, W, n, sr, p, q, put
        <5> QED BY <1>a
      <4>3. /\ wire[a][1].chunk = (la + 1 - 1) % m.numChunks
            /\ \A s \in 0 .. Steps(m) - 1 : \A R \in RoundsOf(m, a, p, s) :
                  R = la + 1 - 1 => wire[a][1].numel = Numel(m, a, p, s, R)
        BY <4>1, <4>2 DEF WireOK
      <4> QED BY <4>2, <4>3, <1>1
    <3>4. v.chunk = put.chunk /\ v.numel = put.numel /\ v.vals = tmpSend[a][put.chunk]  BY DEF v
    <3>5. la < post[a].SendTrans.round
      <4>1. la < sr
        <5> HIDE DEF la, W, n, sr, p, q, put
        <5> QED BY <1>a
      <4> QED BY <4>1
    <3>6. ASSUME NEW s \in 0 .. Steps(m) - 1, NEW R \in RoundsOf(m, a, p, s), R = la
          PROVE  \A k \in 0 .. Numel(m, a, p, s, R) - 1 :
                    tmpSend[a][la % m.numChunks][k] = Value(m, a, s, Elem(m, a, p, s, R) + k)
      <4>1. la <= R /\ R < post[a].SendTrans.round  BY <3>5, <3>6, <1>2
      <4>2. \A k \in 0 .. Numel(m, a, p, s, R) - 1 :
               tmpSend[a][R % m.numChunks][k] = Value(m, a, s, Elem(m, a, p, s, R) + k)
        BY <4>1, <1>1, PutData
      <4> QED BY <4>2, <3>6
    <3> HIDE DEF put
    <3> QED BY <3>1, <3>2, <3>3, <3>4, <3>6
  <2>4. i \in 1 .. n \/ i = n + 1
    <3> HIDE DEF n
    <3> QED BY <1>1
  <2> QED BY <2>2, <2>3, <2>4
<1>11. SeenAt(m, a)'
  <2>1. SeenOK(m, a, p, sync[a], la - n, tmpRecv[q])  BY DEF Content, SeenAt
  <2>2. (la + 1) - (n + 1) = la - n
    <3> HIDE DEF la, n
    <3> QED BY <1>1, <1>2
  <2> QED BY <2>1, <2>2, <1>1 DEF SeenAt
<1>12. SendAt(m, a)'
  <2>1. SendAt(m, a)  BY DEF Content
  <2>2. SendOK(m, a, host[a], partition[a], p, la + 1, block[a], tmpSend[a])
    <3> SUFFICES ASSUME NEW s \in 0 .. Steps(m) - 1, NEW R \in RoundsOf(m, a, p, s),
                        NEW k \in 0 .. Numel(m, a, p, s, R) - 1, la + 1 <= R,
                        Written(m, a, p, partition[a], s, R, block[a][k % m.numBlocks])
                 PROVE  tmpSend[a][R % m.numChunks][k] = Value(m, a, s, Elem(m, a, p, s, R) + k)
      BY DEF SendOK
    <3>1. la <= R
      <4>1. R \in Nat  BY <1>2, ChunkFacts
      <4> HIDE DEF la
      <4> QED BY <4>1, <1>2
    <3> QED BY <3>1, <2>1, <1>1 DEF SendAt, SendOK
  <2> QED BY <2>2, <1>1 DEF SendAt
<1>13. Content(m)'
  <2> SUFFICES ASSUME NEW r \in RanksOf(m)
               PROVE  SendAt(m, r)' /\ WireAt(m, r)' /\ ArrivedAt(m, r)' /\ SeenAt(m, r)' /\ DataAt(m, r)'
    BY DEF Content
  <2>1. SendAt(m, r) /\ WireAt(m, r) /\ ArrivedAt(m, r) /\ SeenAt(m, r) /\ DataAt(m, r)
    BY DEF Content
  <2>2. DataAt(m, r)'  BY <2>1, <1>1 DEF DataAt
  <2>3. CASE r = a  BY <2>2, <2>3, <1>9, <1>10, <1>11, <1>12
  <2>4. CASE r # a
    <3>1. SendAt(m, r)'  BY <2>1, <2>4, <1>1 DEF SendAt
    <3>2. WireAt(m, r)'  BY <2>1, <2>4, <1>1 DEF WireAt
    <3>3. ArrivedAt(m, r)'  BY <2>1, <2>4, <1>1, <1>5 DEF ArrivedAt
    <3>4. SeenAt(m, r)'  BY <2>1, <2>4, <1>1, <1>5 DEF SeenAt
    <3> QED BY <3>1, <3>2, <3>3, <3>4, <2>2
  <2> QED BY <2>3, <2>4
<1> QED BY <1>1, <1>3, <1>8, <1>13

\* What the GPU coming to see the first put that arrived changes.
Settled(m, a, put) ==
    /\ UNCHANGED <<mode, host, partition, offset, post, done, posted, started, completed, block,
                   data, tmpSend, wire, landed, notify, sync>>
    /\ Len(arrived[a]) \in Nat \ {0} /\ put \in Arrival(m)
    /\ arrived' \in [RanksOf(m) -> Seq(Arrival(m))] /\ Len(arrived'[a]) = Len(arrived[a]) - 1
    /\ \A i \in 1 .. Len(arrived[a]) - 1 : arrived'[a][i] = arrived[a][i + 1]
    /\ \A r \in RanksOf(m) : r # a => arrived'[r] = arrived[r]
    /\ tmpRecv' \in [RanksOf(m) -> Buf(m)]
    /\ \A r \in RanksOf(m) : r # a => tmpRecv'[r] = tmpRecv[r]
    /\ \A d \in 0 .. m.numChunks - 1 : d # put.chunk => tmpRecv'[a][d] = tmpRecv[a][d]
    /\ \A k \in 0 .. m.chunkNumel - 1 : k < put.numel => tmpRecv'[a][put.chunk][k] = put.vals[k]

\* The first put that arrived is copied to its chunk of tmpRecvBuf.
LEMMA SettleFacts ==
    ASSUME NEW m \in Modes, mode = m, Types(m), NEW a \in RanksOf(m), Settle(a),
           NEW put, put = arrived[a][1]
    PROVE  Settled(m, a, put)
<1> DEFINE t == arrived[a]
<1> DEFINE S == Arrival(m)
<1> DEFINE c == put.chunk
<1> DEFINE w == [k \in 0 .. m.chunkNumel - 1 |-> IF k < put.numel THEN put.vals[k] ELSE tmpRecv[a][c][k]]
<1>1. /\ t # << >> /\ arrived' = [arrived EXCEPT ![a] = Tail(t)]
      /\ UNCHANGED <<mode, host, partition, offset, post, done, posted, started, completed, block,
                     data, tmpSend, wire, landed, notify, sync>>
  BY DEF Settle, hostVars, partVars, flagVars
<1>2. /\ arrived \in [RanksOf(m) -> Seq(S)] /\ tmpRecv \in [RanksOf(m) -> Buf(m)] /\ t \in Seq(S)
  BY DEF Types, NetTypes, DataTypes
<1>3. /\ Len(t) \in Nat \ {0} /\ Head(t) = put /\ put \in S
      /\ Tail(t) \in Seq(S) /\ Len(Tail(t)) = Len(t) - 1
      /\ \A i \in 1 .. Len(t) - 1 : Tail(t)[i] = t[i + 1]
  <2> HIDE DEF t, S
  <2>1. put = t[1]  BY DEF t
  <2> QED BY <2>1, <1>1, <1>2, SeqFacts
<1>4. tmpRecv' = [tmpRecv EXCEPT ![a][c] = w]
  <2>1. Head(arrived[a]) = put  BY <1>3
  <2>2. Positions = 0 .. m.chunkNumel - 1  BY ModeIs
  <2>3. tmpRecv' = [tmpRecv EXCEPT ![a][c] =
             [k \in Positions |-> IF k < put.numel THEN put.vals[k] ELSE tmpRecv[a][c][k]]]
    BY <2>1 DEF Settle
  <2> QED BY <2>2, <2>3
<1>5. c \in 0 .. m.numChunks - 1 /\ put.vals \in [0 .. m.chunkNumel - 1 -> Vals(m)]
  BY <1>3 DEF Arrival
<1>6. w \in [0 .. m.chunkNumel - 1 -> Vals(m)]
  <2>1. tmpRecv[a] \in Buf(m)  BY <1>2
  <2> HIDE DEF c
  <2>2. tmpRecv[a][c] \in [0 .. m.chunkNumel - 1 -> Vals(m)]  BY <2>1, <1>5 DEF Buf
  <2> QED BY <2>2, <1>5
<1>7. \A k \in 0 .. m.chunkNumel - 1 : k < put.numel => w[k] = put.vals[k]  OBVIOUS
<1> HIDE DEF w
<1>8. /\ tmpRecv' \in [RanksOf(m) -> Buf(m)]
      /\ \A r \in RanksOf(m) : r # a => tmpRecv'[r] = tmpRecv[r]
      /\ tmpRecv'[a][c] = w
      /\ \A d \in 0 .. m.numChunks - 1 : d # c => tmpRecv'[a][d] = tmpRecv[a][d]
  <2>1. ASSUME NEW g, g = [tmpRecv EXCEPT ![a][c] = w]
        PROVE  /\ g \in [RanksOf(m) -> Buf(m)]
               /\ \A r \in RanksOf(m) : r # a => g[r] = tmpRecv[r]
               /\ g[a][c] = w
               /\ \A d \in 0 .. m.numChunks - 1 : d # c => g[a][d] = tmpRecv[a][d]
    <3> HIDE DEF c
    <3>1. ASSUME NEW I, NEW V, tmpRecv \in [RanksOf(m) -> [I -> V]], c \in I, w \in V
          PROVE  /\ g \in [RanksOf(m) -> [I -> V]]
                 /\ \A r \in RanksOf(m) : r # a => g[r] = tmpRecv[r]
                 /\ g[a][c] = w /\ \A d \in I : d # c => g[a][d] = tmpRecv[a][d]
      BY <3>1, <2>1, Update2 DEF c
    <3> QED BY <3>1, <1>2, <1>5, <1>6 DEF Buf
  <2> QED BY <2>1, <1>4
<1>9. /\ arrived' \in [RanksOf(m) -> Seq(S)] /\ arrived'[a] = Tail(t)
      /\ \A r \in RanksOf(m) : r # a => arrived'[r] = arrived[r]
  <2> DEFINE u == Tail(t)
  <2>1. u \in Seq(S) /\ arrived' = [arrived EXCEPT ![a] = u]  BY <1>1, <1>3
  <2> HIDE DEF u, S, t
  <2>2. ASSUME NEW g, g = [arrived EXCEPT ![a] = u]
        PROVE  /\ g \in [RanksOf(m) -> Seq(S)] /\ g[a] = u
               /\ \A r \in RanksOf(m) : r # a => g[r] = arrived[r]
    BY <2>1, <2>2, <1>2, Update1
  <2>3. /\ arrived' \in [RanksOf(m) -> Seq(S)] /\ arrived'[a] = u
        /\ \A r \in RanksOf(m) : r # a => arrived'[r] = arrived[r]
    BY <2>1, <2>2
  <2> QED BY <2>3 DEF u
<1> QED BY <1>1, <1>3, <1>7, <1>8, <1>9 DEF Settled

\* The GPU comes to see the first put that arrived: no chunk that is still to be reduced is
\* overwritten.
LEMMA SettleStep ==
    ASSUME NEW m \in Modes, mode = m, Types(m), Control(m), Content(m),
           NEW a \in RanksOf(m), Settle(a)
    PROVE  mode' = m /\ Types(m)' /\ Control(m)' /\ Content(m)'
<1> DEFINE l == LeftOf(m, a)
<1> DEFINE put == arrived[a][1]
<1> DEFINE n == Len(arrived[a])
<1> DEFINE la == landed[l]
<1> DEFINE p == offset[l]
<1> DEFINE sy == sync[l]
<1> DEFINE sr == post[l].SendTrans.round
<1> DEFINE K == m.numChunks
<1>1. /\ UNCHANGED <<mode, host, partition, offset, post, done, posted, started, completed, block,
                     data, tmpSend, wire, landed, notify, sync>>
      /\ n \in Nat \ {0} /\ put \in Arrival(m)
      /\ arrived' \in [RanksOf(m) -> Seq(Arrival(m))] /\ Len(arrived'[a]) = n - 1
      /\ \A i \in 1 .. n - 1 : arrived'[a][i] = arrived[a][i + 1]
      /\ \A r \in RanksOf(m) : r # a => arrived'[r] = arrived[r]
      /\ tmpRecv' \in [RanksOf(m) -> Buf(m)]
      /\ \A r \in RanksOf(m) : r # a => tmpRecv'[r] = tmpRecv[r]
      /\ \A d \in 0 .. K - 1 : d # put.chunk => tmpRecv'[a][d] = tmpRecv[a][d]
      /\ \A k \in 0 .. m.chunkNumel - 1 : k < put.numel => tmpRecv'[a][put.chunk][k] = put.vals[k]
  <2>1. Settled(m, a, put)
    <3>1. put = arrived[a][1]  OBVIOUS
    <3> HIDE DEF put
    <3> QED BY <3>1, SettleFacts
  <2> QED BY <2>1 DEF Settled
<1>2. /\ l \in RanksOf(m) /\ RightOf(m, l) = a /\ l # a  BY NeighbourFacts
<1>3. /\ Good(m, p) /\ la \in Nat /\ sy \in Nat /\ sr \in Nat
      /\ HostRounds(m, l, host[l], p, post[l], done[l], la, sy)
  BY <1>2, HostFacts, Rounds
<1>4. PairOK(m, l, host[l], partition[l], partition[a], p, offset[a], sy, la,
             wire[l], arrived[a], notify[a], sr, done[a].RecvTrans.round, done[a].RecvFlush.round,
             done[a].RecvRedCopy.round)
  BY <1>2, ControlAt DEF PairAt
<1>5. arrived[a] # << >>  BY <1>1
<1>6. host[l] # "done" /\ n <= la
  BY <1>4, <1>5 DEF PairOK, Same, Ahead, Behind
<1>7. sr <= sy + K /\ la <= sr
  <2>1. sr <= sy + K  BY <1>3, <1>6 DEF HostRounds
  <2>2. la + Len(wire[l]) = sr  BY <1>4, <1>6 DEF PairOK
  <2>3. wire[l] \in Seq(Put(m))  BY <1>2 DEF Types, NetTypes
  <2>4. Len(wire[l]) \in Nat  BY <2>3, EmptySeq
  <2>5. la <= sr
    <3> HIDE DEF la, sr, l
    <3> QED BY <2>2, <2>4, <1>3
  <2> QED BY <2>1, <2>5
<1>8. Types(m)'
  BY <1>1 DEF Types, HostTypes, FlagTypes, BlockTypes, DataTypes, NetTypes
<1>9. ASSUME NEW r \in RanksOf(m), r # l
      PROVE  RightOf(m, r) \in RanksOf(m) /\ RightOf(m, r) # a
  BY <1>9, OtherRight
<1>10. PairAt(m, l)'
  <2>1. n - 1 <= la /\ (done[a].RecvFlush.round <= la - n => done[a].RecvFlush.round <= la - (n - 1))
    <3>1. done[a].RecvFlush.round \in Nat  BY HostFacts, Rounds
    <3> HIDE DEF la, n, sr, p, l, sy
    <3> QED BY <3>1, <1>1, <1>3, <1>6
  <2>2. PairOK(m, l, host[l], partition[l], partition[a], p, offset[a], sy, la,
               wire[l], arrived'[a], notify[a], sr, done[a].RecvTrans.round, done[a].RecvFlush.round,
               done[a].RecvRedCopy.round)
    BY <2>1, <1>1, <1>4, <1>5, <1>6 DEF PairOK, Same, Ahead, Behind
  <2> QED BY <2>2, <1>1, <1>2 DEF PairAt
<1>11. Control(m)'
  <2> SUFFICES ASSUME NEW r \in RanksOf(m)
               PROVE  HostAt(m, r)' /\ PairAt(m, r)' /\ FlagsAt(m, r)' /\ (\A b \in BlocksOf(m) : BlockAt(m, r, b)')
    BY DEF Control
  <2>1. HostAt(m, r) /\ PairAt(m, r) /\ FlagsAt(m, r) /\ (\A b \in BlocksOf(m) : BlockAt(m, r, b))
    BY ControlAt
  <2>2. FlagsAt(m, r)'  BY <2>1, <1>1 DEF FlagsAt
  <2>3. ASSUME NEW b \in BlocksOf(m) PROVE BlockAt(m, r, b)'  BY <2>1, <1>1 DEF BlockAt
  <2>4. HostAt(m, r)'  BY <2>1, <1>1 DEF HostAt
  <2>5. PairAt(m, r)'
    <3>1. CASE r = l  BY <3>1, <1>10
    <3>2. CASE r # l  BY <3>2, <2>1, <1>1, <1>9 DEF PairAt
    <3> QED BY <3>1, <3>2
  <2> QED BY <2>2, <2>3, <2>4, <2>5
<1>12. ArrivedOK(m, l, p, la, arrived[a])  BY <1>2 DEF Content, ArrivedAt
<1>13. ArrivedAt(m, l)'
  <2> SUFFICES ASSUME NEW i \in 1 .. n - 1
               PROVE  /\ arrived'[a][i].chunk = (la - (n - 1) + i - 1) % K
                      /\ \A s \in 0 .. Steps(m) - 1 : \A R \in RoundsOf(m, l, p, s) :
                           R = la - (n - 1) + i - 1 =>
                           /\ arrived'[a][i].numel = Numel(m, l, p, s, R)
                           /\ \A k \in 0 .. arrived'[a][i].numel - 1 :
                                 arrived'[a][i].vals[k] = Value(m, l, s, Elem(m, l, p, s, R) + k)
    <3>1. ArrivedOK(m, l, p, la, arrived'[a]) => ArrivedAt(m, l)'  BY <1>1, <1>2 DEF ArrivedAt
    <3>2. Len(arrived'[a]) = n - 1  BY <1>1
    <3> QED BY <3>1, <3>2 DEF ArrivedOK
  <2> DEFINE j == i + 1
  <2>1. j \in 1 .. n /\ la - (n - 1) + i - 1 = la - n + j - 1
    <3> HIDE DEF la, n
    <3> QED BY <1>1, <1>3
  <2>2. arrived'[a][i] = arrived[a][j]  BY <1>1
  <2> HIDE DEF j
  <2> QED BY <2>1, <2>2, <1>12 DEF ArrivedOK
<1>14. SeenAt(m, l)'
  <2>1. SeenOK(m, l, p, sy, la - n, tmpRecv[a])  BY <1>2 DEF Content, SeenAt
  <2>2. /\ put.chunk = (la - n) % K
        /\ \A s \in 0 .. Steps(m) - 1 : \A R \in RoundsOf(m, l, p, s) :
              R = la - n =>
              /\ put.numel = Numel(m, l, p, s, R)
              /\ \A k \in 0 .. put.numel - 1 : put.vals[k] = Value(m, l, s, Elem(m, l, p, s, R) + k)
    <3>1. 1 \in 1 .. n /\ la - n + 1 - 1 = la - n
      <4> HIDE DEF la, n
      <4> QED BY <1>1, <1>3
    <3>2. /\ put.chunk = (la - n + 1 - 1) % K
          /\ \A s \in 0 .. Steps(m) - 1 : \A R \in RoundsOf(m, l, p, s) :
                R = la - n + 1 - 1 =>
                /\ put.numel = Numel(m, l, p, s, R)
                /\ \A k \in 0 .. put.numel - 1 : put.vals[k] = Value(m, l, s, Elem(m, l, p, s, R) + k)
      BY <3>1, <1>12 DEF ArrivedOK
    <3> QED BY <3>1, <3>2
  <2> SUFFICES ASSUME NEW s \in 0 .. Steps(m) - 1, NEW R \in RoundsOf(m, l, p, s),
                      NEW k \in 0 .. Numel(m, l, p, s, R) - 1, sy <= R, R < la - (n - 1)
               PROVE  tmpRecv'[a][R % K][k] = Value(m, l, s, Elem(m, l, p, s, R) + k)
    <3>1. SeenOK(m, l, p, sy, la - (n - 1), tmpRecv'[a]) => SeenAt(m, l)'  BY <1>1, <1>2 DEF SeenAt
    <3> QED BY <3>1 DEF SeenOK
  <2>3. R \in Nat /\ Numel(m, l, p, s, R) \in 1 .. m.chunkNumel  BY <1>2, <1>3, ChunkFacts
  <2>4. K \in Nat \ {0} /\ m.chunkNumel \in Nat  BY ModeFacts
  <2>5. R % K \in 0 .. K - 1  BY <2>3, <2>4, ModRange
  <2>6. CASE R = la - n
    <3>1. k \in 0 .. m.chunkNumel - 1 /\ k < put.numel /\ k \in 0 .. put.numel - 1
      <4>1. put.numel = Numel(m, l, p, s, R)  BY <2>2, <2>6
      <4> HIDE DEF put, l, p
      <4> QED BY <4>1, <2>3, <2>4
    <3>2. put.chunk = R % K  BY <2>2, <2>6
    <3>3. tmpRecv'[a][put.chunk][k] = put.vals[k]  BY <3>1, <1>1
    <3>4. put.vals[k] = Value(m, l, s, Elem(m, l, p, s, R) + k)  BY <3>1, <2>2, <2>6
    <3> QED BY <3>2, <3>3, <3>4
  <2>7. CASE R # la - n
    <3>1. R < la - n /\ la - n \in Nat /\ sy <= la - n /\ la - n < sy + K /\ R < sy + K
      <4>1. la \in Nat /\ sy \in Nat /\ sr \in Nat /\ n \in Nat \ {0} /\ n <= la /\ sr <= sy + K /\ la <= sr
        BY <1>1, <1>3, <1>6, <1>7
      <4> HIDE DEF la, n, sy, sr, K, l, p, put
      <4>2. R < la - n  BY <4>1, <2>3, <2>7
      <4> QED BY <4>1, <4>2, <2>3, <2>4
    <3> DEFINE X == la - n
    <3>2. R # X /\ X \in Nat /\ sy <= X /\ X < sy + K /\ R < sy + K  BY <3>1, <2>7
    <3>3. R % K # X % K
      <4> HIDE DEF X, sy, K
      <4> QED BY <3>2, <2>3, <2>4, <1>3, ChunkApart
    <3>4. tmpRecv'[a][R % K] = tmpRecv[a][R % K]  BY <3>3, <2>2, <2>5, <1>1
    <3>5. tmpRecv[a][R % K][k] = Value(m, l, s, Elem(m, l, p, s, R) + k)  BY <3>1, <2>1 DEF SeenOK
    <3> QED BY <3>4, <3>5
  <2> QED BY <2>6, <2>7
<1>15. Content(m)'
  <2> SUFFICES ASSUME NEW r \in RanksOf(m)
               PROVE  SendAt(m, r)' /\ WireAt(m, r)' /\ ArrivedAt(m, r)' /\ SeenAt(m, r)' /\ DataAt(m, r)'
    BY DEF Content
  <2>1. SendAt(m, r) /\ WireAt(m, r) /\ ArrivedAt(m, r) /\ SeenAt(m, r) /\ DataAt(m, r)
    BY DEF Content
  <2>2. DataAt(m, r)' /\ SendAt(m, r)' /\ WireAt(m, r)'
    BY <2>1, <1>1 DEF DataAt, SendAt, WireAt
  <2>3. CASE r = l  BY <2>2, <2>3, <1>13, <1>14
  <2>4. CASE r # l
    <3>1. ArrivedAt(m, r)'  BY <2>1, <2>4, <1>1, <1>9 DEF ArrivedAt
    <3>2. SeenAt(m, r)'  BY <2>1, <2>4, <1>1, <1>9 DEF SeenAt
    <3> QED BY <3>1, <3>2, <2>2
  <2> QED BY <2>3, <2>4
<1> QED BY <1>1, <1>8, <1>11, <1>15

-----------------------------------------------------------------------------
(* The theorems.                                                           *)

\* The initial state has the types.
LEMMA InitTypes ==
    ASSUME NEW m \in Modes, mode = m, Init
    PROVE  Types(m)
<1>1. /\ Ranks = RanksOf(m) /\ Blocks = BlocksOf(m) /\ Elements = ElementsOf(m)
      /\ Chunks = 0 .. m.numChunks - 1 /\ Positions = 0 .. m.chunkNumel - 1
  BY ModeIs DEF BlocksOf, ElementsOf
<1>2. HostTypes(m)
  <2>1. NoRounds \in [Ops -> Counter]  BY DEF NoRounds, RoundZero, Counter
  <2> QED BY <2>1, <1>1 DEF Init, HostTypes
<1>3. FlagTypes(m)
  <2>1. Unset \in [KernelOps -> Int]  BY DEF Unset, kUnset
  <2>2. UnsetAll \in [KernelOps -> [BlocksOf(m) -> Int]]  BY <1>1 DEF UnsetAll, kUnset
  <2>3. kUnset \in Int  BY DEF kUnset
  <2> QED BY <2>1, <2>2, <2>3, <1>1 DEF Init, FlagTypes
<1>4. BlockTypes(m)
  <2>1. NewBlock(0, 0) \in BlockRec  BY DEF NewBlock, BlockRec, RoundZero, Counter
  <2>2. block = [r \in RanksOf(m) |-> [b \in BlocksOf(m) |-> NewBlock(0, 0)]]  BY <1>1 DEF Init
  <2> HIDE DEF BlockRec
  <2> QED BY <2>1, <2>2 DEF BlockTypes
<1>5. DataTypes(m)
  <2>1. Garbage \in Vals(m)  BY DEF Garbage, Vals
  <2>2. EmptyTmpBuf \in Buf(m)  BY <2>1, <1>1 DEF EmptyTmpBuf, Buf
  <2>3. \A r \in RanksOf(m), e \in ElementsOf(m) : Contribution(r, e) \in Vals(m)
    BY DEF Contribution, Vals
  <2>4. data = [r \in RanksOf(m) |-> [e \in ElementsOf(m) |-> Contribution(r, e)]]  BY <1>1 DEF Init
  <2>5. data \in [RanksOf(m) -> [ElementsOf(m) -> Vals(m)]]
    <3> HIDE DEF Vals, ElementsOf
    <3> QED BY <2>3, <2>4
  <2>6. /\ tmpSend = [r \in RanksOf(m) |-> EmptyTmpBuf] /\ tmpRecv = [r \in RanksOf(m) |-> EmptyTmpBuf]
    BY <1>1 DEF Init
  <2>7. tmpSend \in [RanksOf(m) -> Buf(m)] /\ tmpRecv \in [RanksOf(m) -> Buf(m)]  BY <2>2, <2>6
  <2> QED BY <2>5, <2>7 DEF DataTypes
<1>6. NetTypes(m)  BY <1>1 DEF Init, NetTypes
<1> QED BY <1>2, <1>3, <1>4, <1>5, <1>6 DEF Types

\* What the variables of a rank are initially.
LEMMA InitValues ==
    ASSUME NEW m \in Modes, mode = m, Init, NEW r \in RanksOf(m)
    PROVE  /\ host[r] = "running" /\ partition[r] = 0 /\ offset[r] = 0
           /\ post[r] = NoRounds /\ done[r] = NoRounds
           /\ posted[r]["SendCopy"] = kUnset /\ posted[r]["RecvRedCopy"] = kUnset
           /\ started[r] = kUnset
           /\ \A b \in BlocksOf(m) : /\ completed[r]["SendCopy"][b] = kUnset
                                    /\ completed[r]["RecvRedCopy"][b] = kUnset
                                    /\ block[r][b] = NewBlock(0, 0)
           /\ \A e \in ElementsOf(m) : data[r][e] = {<<r, e>>}
           /\ wire[r] = << >> /\ arrived[r] = << >> /\ landed[r] = 0 /\ notify[r] = 0 /\ sync[r] = 0
           /\ Good(m, 0)
<1>1. Ranks = RanksOf(m) /\ Blocks = BlocksOf(m) /\ Elements = ElementsOf(m)
  BY ModeIs DEF BlocksOf, ElementsOf
<1>2. Good(m, 0)  BY ModeFacts DEF Good
<1>3. posted[r]["SendCopy"] = kUnset /\ posted[r]["RecvRedCopy"] = kUnset
  BY <1>1 DEF Init, Unset, KernelOps
<1>4. \A b \in BlocksOf(m) : /\ completed[r]["SendCopy"][b] = kUnset
                             /\ completed[r]["RecvRedCopy"][b] = kUnset
  BY <1>1 DEF Init, UnsetAll, KernelOps
<1>5. \A b \in BlocksOf(m) : block[r][b] = NewBlock(0, 0)  BY <1>1 DEF Init
<1>6. \A e \in ElementsOf(m) : data[r][e] = {<<r, e>>}  BY <1>1 DEF Init, Contribution
<1> QED BY <1>1, <1>2, <1>3, <1>4, <1>5, <1>6 DEF Init

\* The counters, flags and queues of the initial state.
LEMMA InitControl ==
    ASSUME NEW m \in Modes, mode = m, Init
    PROVE  Control(m)
<1> SUFFICES ASSUME NEW r \in RanksOf(m)
             PROVE  HostAt(m, r) /\ PairAt(m, r) /\ FlagsAt(m, r) /\ (\A b \in BlocksOf(m) : BlockAt(m, r, b))
  BY DEF Control
<1> DEFINE q == RightOf(m, r)
<1>1. q \in RanksOf(m) /\ LeftOf(m, r) \in RanksOf(m)  BY NeighbourFacts
<1>2. /\ host[r] = "running" /\ partition[r] = 0 /\ offset[r] = 0
      /\ post[r] = NoRounds /\ done[r] = NoRounds
      /\ posted[r]["SendCopy"] = kUnset /\ posted[r]["RecvRedCopy"] = kUnset
      /\ started[r] = kUnset
      /\ wire[r] = << >> /\ landed[r] = 0 /\ sync[r] = 0 /\ Good(m, 0)
  BY InitValues
<1>3. /\ partition[q] = 0 /\ offset[q] = 0 /\ done[q] = NoRounds /\ arrived[q] = << >> /\ notify[q] = 0
  BY <1>1, InitValues
<1>4. /\ NoRounds.SendCopy.round = 0 /\ NoRounds.SendTrans.round = 0
      /\ NoRounds.RecvTrans.round = 0 /\ NoRounds.RecvFlush.round = 0
      /\ NoRounds.RecvRedCopy.round = 0
      /\ HostOK(m, r, "running", 0, NoRounds, NoRounds, 0, 0)
  BY <1>2, ZeroRounds
<1>5. HostAt(m, r)  BY <1>2, <1>4 DEF HostAt
<1>6. PairAt(m, r)
  <2>1. Len(<< >>) = 0  OBVIOUS
  <2> HIDE DEF q
  <2>2. Same("running", 0, 0, 0, 0, 0, 0, << >>, 0, 0, 0, 0)  BY <2>1 DEF Same
  <2>3. PairOK(m, r, "running", 0, 0, 0, 0, 0, 0, << >>, << >>, 0, 0, 0, 0, 0)
    BY <2>1, <2>2 DEF PairOK
  <2> QED BY <2>3, <1>2, <1>3, <1>4 DEF PairAt, q
<1>7. FlagsAt(m, r)  BY <1>2, <1>4 DEF FlagsAt, FlagsOK, kUnset
<1>8. ASSUME NEW b \in BlocksOf(m) PROVE BlockAt(m, r, b)
  <2>1. /\ completed[r]["SendCopy"][b] = kUnset /\ completed[r]["RecvRedCopy"][b] = kUnset
        /\ block[r][b] = NewBlock(0, 0)
    BY InitValues
  <2>2. /\ NewBlock(0, 0).partition = 0 /\ NewBlock(0, 0).offset = 0
        /\ NewBlock(0, 0).SendCopy = RoundZero /\ NewBlock(0, 0).RecvRedCopy = RoundZero
    BY DEF NewBlock
  <2>3. Valid(m, r, 0, RoundZero) /\ Valid(m, LeftOf(m, r), 0, RoundZero) /\ RoundZero.round = 0
    BY <1>1, <1>2, ZeroValid
  <2>4. 0 <= First(m, r, 0)  BY <1>2, FirstIs
  <2>5. SameBlock(m, r, "running", 0, 0, NewBlock(0, 0), kUnset, kUnset, 0, 0, 0, 0)
    BY <2>2, <2>3, <2>4 DEF SameBlock, kUnset
  <2> QED BY <2>1, <2>5, <1>2, <1>4 DEF BlockAt, BlockOK
<1> QED BY <1>5, <1>6, <1>7, <1>8

\* The buffers of the initial state.
LEMMA InitContent ==
    ASSUME NEW m \in Modes, mode = m, Init
    PROVE  Content(m)
<1> SUFFICES ASSUME NEW r \in RanksOf(m)
             PROVE  SendAt(m, r) /\ WireAt(m, r) /\ ArrivedAt(m, r) /\ SeenAt(m, r) /\ DataAt(m, r)
  BY DEF Content
<1> DEFINE q == RightOf(m, r)
<1> DEFINE l == LeftOf(m, r)
<1>1. q \in RanksOf(m) /\ l \in RanksOf(m)  BY NeighbourFacts
<1>2. /\ host[r] = "running" /\ partition[r] = 0 /\ offset[r] = 0
      /\ wire[r] = << >> /\ landed[r] = 0 /\ sync[r] = 0 /\ Good(m, 0)
      /\ \A b \in BlocksOf(m) : block[r][b] = NewBlock(0, 0)
      /\ \A e \in ElementsOf(m) : data[r][e] = {<<r, e>>}
  BY InitValues
<1>3. arrived[q] = << >>  BY <1>1, InitValues
<1>4. \A b \in BlocksOf(m) : RanS(block[r][b], 0) = 0 /\ RanR(block[r][b], 0) = 0
  BY <1>2 DEF RanS, RanR, NewBlock, RoundZero
<1>5. ASSUME NEW o \in RanksOf(m), NEW s \in 0 .. Steps(m) - 1, NEW R \in RoundsOf(m, o, 0, s),
             NEW k \in 0 .. Numel(m, o, 0, s, R) - 1
      PROVE  /\ R \in Nat /\ k % m.numBlocks \in BlocksOf(m)
             /\ Elem(m, o, 0, s, R) + k \in ElementsOf(m)
             /\ s # 0 => First(m, o, 0) <= R
  <2>1. /\ R \in Nat /\ Numel(m, o, 0, s, R) \in 1 .. m.chunkNumel /\ Start(m, o, 0, s) <= R
        /\ Elem(m, o, 0, s, R) \in Nat
        /\ Elem(m, o, 0, s, R) + Numel(m, o, 0, s, R) <= 0 + PartLen(m, 0)
    BY <1>2, ChunkFacts
  <2>2. m.chunkNumel \in Nat /\ m.numElements \in Nat /\ Steps(m) \in Nat  BY ModeFacts
  <2>3. PartLen(m, 0) \in Nat /\ 0 + PartLen(m, 0) <= m.numElements  BY <1>2, PartFacts
  <2>4. k \in Nat /\ k < Numel(m, o, 0, s, R) /\ Numel(m, o, 0, s, R) \in Nat  BY <2>1, <2>2
  <2>5. k % m.numBlocks \in BlocksOf(m)  BY <2>4, ModRange, ModeFacts DEF BlocksOf
  <2>6. Elem(m, o, 0, s, R) + k \in ElementsOf(m)  BY <2>1, <2>2, <2>3, <2>4 DEF ElementsOf
  <2>7. s # 0 => First(m, o, 0) <= R
    <3> SUFFICES ASSUME s # 0 PROVE First(m, o, 0) <= R
      OBVIOUS
    <3>1. 1 \in 0 .. Steps(m) /\ s \in 0 .. Steps(m) /\ (s = 1 \/ 1 < s)
      <4>1. Steps(m) >= 2  BY ModeFacts
      <4> QED BY <4>1, <2>2
    <3>2. Start(m, o, 0, 1) \in Nat /\ Start(m, o, 0, s) \in Nat
          /\ (1 < s => Start(m, o, 0, 1) < Start(m, o, 0, s))
      BY <3>1, <1>2, StartFacts
    <3> QED BY <3>1, <3>2, <2>1 DEF First
  <2> QED BY <2>1, <2>5, <2>6, <2>7
<1>6. SendAt(m, r)
  <2> SUFFICES ASSUME NEW s \in 0 .. Steps(m) - 1, NEW R \in RoundsOf(m, r, 0, s),
                      NEW k \in 0 .. Numel(m, r, 0, s, R) - 1,
                      Written(m, r, 0, 0, s, R, block[r][k % m.numBlocks])
               PROVE  FALSE
    BY <1>2 DEF SendAt, SendOK
  <2>1. R \in Nat /\ k % m.numBlocks \in BlocksOf(m) /\ (s # 0 => First(m, r, 0) <= R)  BY <1>5
  <2>2. First(m, r, 0) \in Nat  BY <1>2, FirstIs
  <2>3. CASE s = 0
    <3>1. 0 > R  BY <2>1, <2>3, <1>4 DEF Written
    <3> QED BY <3>1, <2>1
  <2>4. CASE s # 0
    <3>1. First(m, r, 0) + 0 > R  BY <2>1, <2>4, <1>4 DEF Written
    <3> QED BY <3>1, <2>1, <2>2, <2>4
  <2> QED BY <2>3, <2>4
<1>7. WireAt(m, r)  BY <1>2 DEF WireAt, WireOK
<1>8. ArrivedAt(m, r)
  <2> HIDE DEF q
  <2>1. ArrivedOK(m, r, 0, 0, << >>)  BY DEF ArrivedOK
  <2> QED BY <2>1, <1>2, <1>3 DEF ArrivedAt, q
<1>9. SeenAt(m, r)
  <2>1. SeenOK(m, r, 0, 0, 0, tmpRecv[q])
    <3> SUFFICES ASSUME NEW s \in 0 .. Steps(m) - 1, NEW R \in RoundsOf(m, r, 0, s),
                        NEW k \in 0 .. Numel(m, r, 0, s, R) - 1, R < 0
                 PROVE  FALSE
      BY DEF SeenOK
    <3>1. R \in Nat  BY <1>5
    <3> QED BY <3>1
  <2>2. 0 - Len(<< >>) = 0
    <3>1. Len(<< >>) = 0  OBVIOUS
    <3>2. 0 - 0 = 0  OBVIOUS
    <3> QED BY ONLY <3>1, <3>2
  <2>3. SeenOK(m, r, offset[r], sync[r], landed[r] - Len(arrived[q]), tmpRecv[q])
    BY <2>1, <2>2, <1>2, <1>3
  <2> QED BY <2>3 DEF SeenAt
<1>10. DataAt(m, r)
  <2>1. DataRest(m, r, 0, data[r])
    <3>1. \A e \in ElementsOf(m) : ~ (e < 0)
      <4>1. m.numElements \in Nat  BY ModeFacts
      <4> QED BY <4>1 DEF ElementsOf
    <3> QED BY <3>1, <1>2 DEF DataRest
  <2>2. DataPart(m, r, 0, 0, block[r], data[r])
    <3> SUFFICES ASSUME NEW s \in m.nRanks - 2 .. Steps(m) - 1, NEW R \in RoundsOf(m, l, 0, s),
                        NEW k \in 0 .. Numel(m, l, 0, s, R) - 1
                 PROVE  DataCell(m, r, 0, 0, block[r], data[r], s, R, k)
      BY DEF DataPart
    <3>1. s \in 0 .. Steps(m) - 1  BY ModeFacts
    <3>2. R \in Nat /\ k % m.numBlocks \in BlocksOf(m) /\ Elem(m, l, 0, s, R) + k \in ElementsOf(m)
      BY <3>1, <1>1, <1>5
    <3>3. ~ (RanR(block[r][k % m.numBlocks], 0) > R)  BY <3>2, <1>4
    <3> QED BY <3>2, <3>3, <1>2 DEF DataCell
  <2> QED BY <2>1, <2>2, <1>2 DEF DataAt, DataOK
<1> QED BY <1>6, <1>7, <1>8, <1>9, <1>10

\* The initial state satisfies the invariant.
LEMMA InitInv == Init => RingInv
<1> SUFFICES ASSUME Init PROVE RingInv
  OBVIOUS
<1>1. mode \in Modes  BY DEF Init
<1>2. ASSUME NEW m \in Modes, mode = m PROVE Types(m) /\ Control(m) /\ Content(m)
  BY <1>2, InitTypes, InitControl, InitContent
<1> QED BY <1>1, <1>2 DEF RingInv

\* Nothing changes when nothing does.
LEMMA StutterInv == RingInv /\ UNCHANGED vars => RingInv'
<1> SUFFICES ASSUME RingInv, UNCHANGED vars PROVE RingInv'
  OBVIOUS
<1>1. PICK m \in Modes : mode = m /\ Types(m) /\ Control(m) /\ Content(m)  BY DEF RingInv
<1>2. UNCHANGED <<mode, host, partition, offset, post, done, posted, started, completed, block,
                  data, tmpSend, tmpRecv, wire, arrived, landed, notify, sync>>
  BY DEF vars, hostVars, partVars, flagVars, bufferVars, netVars
<1>3. Types(m)'
  BY <1>1, <1>2 DEF Types, HostTypes, FlagTypes, BlockTypes, DataTypes, NetTypes
<1>4. Control(m)'
  BY <1>1, <1>2 DEF Control, HostAt, PairAt, FlagsAt, BlockAt
<1>5. Content(m)'
  BY <1>1, <1>2 DEF Content, SendAt, WireAt, ArrivedAt, SeenAt, DataAt
<1> QED BY <1>1, <1>2, <1>3, <1>4, <1>5 DEF RingInv

\* Every step keeps the invariant.
LEMMA NextInv == RingInv /\ Next => RingInv'
<1> SUFFICES ASSUME RingInv, Next PROVE RingInv'
  OBVIOUS
<1>1. PICK m \in Modes : mode = m /\ Types(m) /\ Control(m) /\ Content(m)  BY DEF RingInv
<1>2. Ranks = RanksOf(m) /\ Blocks = BlocksOf(m)  BY <1>1, ModeIs DEF BlocksOf
<1>3. SUFFICES mode' = m /\ Types(m)' /\ Control(m)' /\ Content(m)'
  BY DEF RingInv
<1>4. PICK a \in RanksOf(m) :
         HostStep(a) \/ HostAbort(a) \/ (\E b \in Blocks : BlockStep(a, b)) \/ Network(a)
  BY <1>2 DEF Next
<1>5. CASE SendCopyPost(a)  BY <1>1, <1>5, SendCopyPostStep
<1>6. CASE SendCopyDone(a)  BY <1>1, <1>6, SendCopyDoneStep
<1>7. CASE SendTransPost(a)  BY <1>1, <1>7, SendTransPostStep
<1>8. CASE SendTransDone(a)  BY <1>1, <1>8, SendTransDoneStep
<1>9. CASE RecvTrans(a)  BY <1>1, <1>9, RecvTransStep
<1>10. CASE RecvFlushPost(a)  BY <1>1, <1>10, RecvFlushPostStep
<1>11. CASE RecvFlushDone(a)  BY <1>1, <1>11, RecvFlushDoneStep
<1>12. CASE RecvRedCopyPost(a)  BY <1>1, <1>12, RecvRedCopyPostStep
<1>13. CASE RecvRedCopyDone(a)  BY <1>1, <1>13, RecvRedCopyDoneStep
<1>14. CASE PartitionDone(a)  BY <1>1, <1>14, PartitionDoneStep
<1>15. CASE HostAbort(a)  BY <1>1, <1>15, HostAbortStep
<1>16. ASSUME NEW b \in BlocksOf(m), BlockStep(a, b)
       PROVE  mode' = m /\ Types(m)' /\ Control(m)' /\ Content(m)'
  <2>1. CASE BlockSend(a, b)  BY <1>1, <2>1, BlockSendStep
  <2>2. CASE BlockRecv(a, b)  BY <1>1, <2>2, BlockRecvStep
  <2>3. CASE BlockNextPartition(a, b)  BY <1>1, <2>3, BlockNextPartitionStep
  <2>4. CASE BlockAbort(a, b)  BY <1>1, <2>4, BlockAbortStep
  <2> QED BY <1>16, <2>1, <2>2, <2>3, <2>4 DEF BlockStep
<1>17. CASE Land(a)  BY <1>1, <1>17, LandStep
<1>18. CASE Settle(a)  BY <1>1, <1>18, SettleStep
<1>19. CASE HostStep(a)
  BY <1>5, <1>6, <1>7, <1>8, <1>9, <1>10, <1>11, <1>12, <1>13, <1>14, <1>19 DEF HostStep
<1>20. CASE \E b \in Blocks : BlockStep(a, b)  BY <1>2, <1>16, <1>20
<1>21. CASE Network(a)  BY <1>17, <1>18, <1>21 DEF Network
<1> QED BY <1>4, <1>15, <1>19, <1>20, <1>21

\* What the counters, the flags, the messages and the buffers of the ranks are at all times,
\* for every number of ranks, elements, chunks, blocks and partitions (allReduceRing).
THEOREM RingInvariant == Spec => []RingInv
<1>1. RingInv /\ [Next]_vars => RingInv'  BY StutterInv, NextInv
<1> QED BY <1>1, InitInv, PTL DEF Spec

\* A rank whose host ended the last partition has the sum of all ranks in every element of
\* its receive buffer.
THEOREM AllReducedHolds == Spec => []AllReduced
<1>1. RingInv => AllReduced
  <2> SUFFICES ASSUME RingInv, NEW r \in Ranks, host[r] = "done", NEW e \in Elements
               PROVE  data[r][e] = Sum(e)
    BY DEF AllReduced
  <2>1. PICK m \in Modes : mode = m /\ Types(m) /\ Control(m) /\ Content(m)  BY DEF RingInv
  <2>2. r \in RanksOf(m) /\ e \in ElementsOf(m) /\ Sum(e) = AllOf(m, e)
    BY <2>1, ModeIs DEF ElementsOf
  <2>3. DataOver(m, data[r])  BY <2>1, <2>2 DEF Content, DataAt, DataOK
  <2> QED BY <2>2, <2>3 DEF DataOver
<1> QED BY <1>1, RingInvariant, PTL

\* The ranks that have reduced a value that is received in a step, counted from the
\* receiver and from its left neighbour.
LEMMA FromIs ==
    ASSUME NEW m \in Modes, NEW a \in RanksOf(m), NEW s \in 0 .. m.nRanks - 2
    PROVE  {(a - i + m.nRanks) % m.nRanks : i \in 1 .. s + 1}
             = {(LeftOf(m, a) - i + m.nRanks) % m.nRanks : i \in 0 .. s}
<1> DEFINE l == LeftOf(m, a)
<1>1. m.nRanks \in Nat /\ m.nRanks >= 2  BY ModeFacts
<1>2. l \in RanksOf(m) /\ l = (IF a = 0 THEN m.nRanks - 1 ELSE a - 1)  BY NeighbourFacts, Neighbours
<1>3. ASSUME NEW i \in 0 .. s
      PROVE  (a - (i + 1) + m.nRanks) % m.nRanks = (l - i + m.nRanks) % m.nRanks
  <2>1. i \in RanksOf(m) /\ i + 1 \in RanksOf(m)  BY <1>1 DEF RanksOf
  <2>2. (l - i + m.nRanks) % m.nRanks = IF i <= l THEN l - i ELSE l - i + m.nRanks
    BY <2>1, <1>2, BackIs
  <2> DEFINE j == i + 1
  <2>3. (a - j + m.nRanks) % m.nRanks = IF j <= a THEN a - j ELSE a - j + m.nRanks
    <3> HIDE DEF j
    <3> QED BY <2>1, BackIs DEF j
  <2>4. (IF j <= a THEN a - j ELSE a - j + m.nRanks) = (IF i <= l THEN l - i ELSE l - i + m.nRanks)
    <3>1. i \in Nat /\ a \in Nat /\ i < m.nRanks /\ a < m.nRanks /\ i + 1 < m.nRanks
      BY <2>1, <1>1 DEF RanksOf
    <3> HIDE DEF l
    <3> QED BY <3>1, <1>1, <1>2
  <2> QED BY <2>2, <2>3, <2>4
<1> DEFINE A == {(a - i + m.nRanks) % m.nRanks : i \in 1 .. s + 1}
<1> DEFINE B == {(l - i + m.nRanks) % m.nRanks : i \in 0 .. s}
<1>4. ASSUME NEW x \in A PROVE x \in B
  <2>1. PICK i \in 1 .. s + 1 : x = (a - i + m.nRanks) % m.nRanks  OBVIOUS
  <2>2. i - 1 \in 0 .. s /\ (i - 1) + 1 = i  BY <1>1
  <2>3. x = (l - (i - 1) + m.nRanks) % m.nRanks
    <3> DEFINE j == i - 1
    <3>1. j \in 0 .. s /\ j + 1 = i  BY <2>2
    <3> HIDE DEF j, l
    <3>2. (a - (j + 1) + m.nRanks) % m.nRanks = (l - j + m.nRanks) % m.nRanks  BY <3>1, <1>3
    <3> QED BY <3>1, <3>2, <2>1 DEF j
  <2> QED BY <2>2, <2>3
<1>5. ASSUME NEW x \in B PROVE x \in A
  <2>1. PICK i \in 0 .. s : x = (l - i + m.nRanks) % m.nRanks  OBVIOUS
  <2>2. i + 1 \in 1 .. s + 1  BY <1>1
  <2>3. x = (a - (i + 1) + m.nRanks) % m.nRanks  BY <2>1, <1>3
  <2> QED BY <2>2, <2>3
<1> QED BY <1>4, <1>5

\* A chunk that a block reduces or copies out of tmpRecvBuf is the one that is due there: the
\* partial sum of the step, never a chunk that has not arrived or one that has overwritten it.
THEOREM ReceivedIsDueHolds == Spec => []ReceivedIsDue
<1>1. RingInv => ReceivedIsDue
  <2> SUFFICES ASSUME RingInv, NEW a \in Ranks, NEW b \in Blocks,
                      block[a][b].partition = partition[a],
                      block[a][b].RecvRedCopy.round < done[a].RecvFlush.round,
                      NEW k \in 0 .. RoundArgs(a, "RecvRedCopy", offset[a], block[a][b].RecvRedCopy).numel - 1
               PROVE  tmpRecv[a][TmpChunk(block[a][b].RecvRedCopy.round)][k] =
                        IF ReduceScatter(block[a][b].RecvRedCopy.step)
                        THEN {<<q, RoundArgs(a, "RecvRedCopy", offset[a], block[a][b].RecvRedCopy).first + k>> :
                                q \in {(a - i + mode.nRanks) % mode.nRanks : i \in 1 .. block[a][b].RecvRedCopy.step + 1}}
                        ELSE Sum(RoundArgs(a, "RecvRedCopy", offset[a], block[a][b].RecvRedCopy).first + k)
    BY Zenon DEF ReceivedIsDue
  <2> DEFINE x == block[a][b].RecvRedCopy
  <2> DEFINE p == offset[a]
  <2>1. PICK m \in Modes : mode = m /\ Types(m) /\ Control(m) /\ Content(m)  BY DEF RingInv
  <2> DEFINE l == LeftOf(m, a)
  <2>2. a \in RanksOf(m) /\ b \in BlocksOf(m) /\ l \in RanksOf(m)
    <3>1. a \in RanksOf(m) /\ b \in BlocksOf(m)  BY <2>1, ModeIs DEF BlocksOf
    <3> QED BY <3>1, NeighbourFacts
  <2>3. Good(m, p) /\ done[a] \in [Ops -> Counter] /\ Counters(m, a, p, done[a])  BY <2>1, <2>2, HostFacts
  <2>4. x.round \in Nat /\ x.step \in Nat /\ block[a][b].partition \in Nat
    BY <2>1, <2>2 DEF Types, BlockTypes, BlockRec, Counter
  <2>5. Valid(m, l, p, x) /\ done[a].RecvRedCopy.round <= x.round
    <3>1. BlockAt(m, a, b)  BY <2>1, <2>2, ControlAt
    <3>2. block[a][b].partition + 1 # partition[a]  BY <2>4
    <3> QED BY <3>1, <3>2 DEF BlockAt, BlockOK, SameBlock, BehindBlock
  <2>6. done[a].RecvFlush.round <= Total(m, l, p)
    <3>1. "RecvFlush" \in Ops /\ Bound(m, a, p, "RecvFlush") = Total(m, l, p)
      BY <2>2, OriginFacts DEF Ops, KernelOps, Bound
    <3> QED BY <3>1, <2>3 DEF Counters
  <2>7. x.step \in 0 .. Steps(m) - 1 /\ x.round \in RoundsOf(m, l, p, x.step) /\ x.start = Start(m, l, p, x.step)
    <3>1. Total(m, l, p) \in Nat /\ done[a].RecvFlush.round \in Nat  BY <2>2, <2>3, FirstIs, Rounds
    <3>2. x.round # Total(m, l, p)  BY <3>1, <2>4, <2>6
    <3> HIDE DEF x, p, l
    <3>3. x.step # Steps(m)  BY <3>2, <2>2, <2>3, <2>5, CounterFacts
    <3> QED BY <3>3, <2>2, <2>3, <2>5, CounterFacts
  <2> DEFINE s == x.step
  <2> DEFINE T == x.round
  <2>8. /\ RoundArgs(a, "RecvRedCopy", p, x).first = Elem(m, l, p, s, T)
        /\ RoundArgs(a, "RecvRedCopy", p, x).numel = Numel(m, l, p, s, T)
    <3>1. Origin(m, a, "RecvRedCopy") = l  BY <2>2, OriginFacts
    <3>2. x.start = Start(m, Origin(m, a, "RecvRedCopy"), p, x.step)  BY <2>7, <3>1
    <3> HIDE DEF x, p, l
    <3>3. /\ RoundArgs(a, "RecvRedCopy", p, x).first = Elem(m, Origin(m, a, "RecvRedCopy"), p, x.step, x.round)
          /\ RoundArgs(a, "RecvRedCopy", p, x).numel = Numel(m, Origin(m, a, "RecvRedCopy"), p, x.step, x.round)
      BY <3>2, <2>1, <2>2, RoundArgsIs
    <3> QED BY <3>1, <3>3
  <2> DEFINE first == RoundArgs(a, "RecvRedCopy", offset[a], block[a][b].RecvRedCopy).first
  <2>9. first = Elem(m, l, p, s, T) /\ k \in 0 .. Numel(m, l, p, s, T) - 1  BY <2>8
  <2>10. tmpRecv[a][T % m.numChunks][k] = Value(m, l, s, Elem(m, l, p, s, T) + k)
    BY <2>1, <2>2, <2>5, <2>7, <2>9, ReceivedDue
  <2>11. tmpRecv[a][TmpChunk(T)][k] = Value(m, l, s, first + k)  BY <2>1, <2>9, <2>10 DEF TmpChunk
  <2>12. ReduceScatter(s) <=> s < m.nRanks - 1  BY <2>1, <2>7, PhaseIs
  <2>13. CASE s < m.nRanks - 1
    <3> DEFINE A == {(a - i + m.nRanks) % m.nRanks : i \in 1 .. s + 1}
    <3> DEFINE B == {(l - i + m.nRanks) % m.nRanks : i \in 0 .. s}
    <3>1. s \in 0 .. m.nRanks - 2
      <4>1. m.nRanks \in Nat  BY ModeFacts
      <4> QED BY <4>1, <2>4, <2>13
    <3>2. A = B
      <4> HIDE DEF s
      <4> QED BY <3>1, <2>2, FromIs
    <3>3. Value(m, l, s, first + k) = {<<q, first + k>> : q \in B}
      <4> HIDE DEF s, l
      <4> QED BY <2>13 DEF Value
    <3>4. tmpRecv[a][TmpChunk(T)][k] = {<<q, first + k>> : q \in A}  BY <3>2, <3>3, <2>11
    <3> QED BY <3>4, <2>1, <2>12, <2>13
  <2>14. CASE ~ (s < m.nRanks - 1)
    <3>1. Value(m, l, s, first + k) = AllOf(m, first + k)  BY <2>4, <2>14, ValueLast
    <3>2. Sum(first + k) = AllOf(m, first + k)  BY <2>1, ModeIs
    <3> QED BY <3>1, <3>2, <2>11, <2>12, <2>14
  <2> QED BY <2>13, <2>14
<1> QED BY <1>1, RingInvariant, PTL

=============================================================================
