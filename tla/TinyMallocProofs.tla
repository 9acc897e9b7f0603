------------------------ MODULE TinyMallocProofs ------------------------
(* The allocator keeps its heap, its promise to the program and its books, *)
(* for every size of heap and all requests that do not wrap.               *)
EXTENDS TinyMalloc, FiniteSetTheorems, TLAPS

BlockType == [at : Int, size : Int]

-----------------------------------------------------------------------------
(* Chains.                                                                 *)

LEMMA RelinkedIs ==
  ASSUME NEW s \in Seq(BlockType), NEW m \in Seq(BlockType),
         NEW i \in Int, NEW k \in Int, 1 <= i, i <= k, k <= Len(s) + 1
  PROVE  /\ Relinked(s, i, k, m) \in Seq(BlockType)
         /\ Len(Relinked(s, i, k, m)) = (i - 1) + Len(m) + (Len(s) + 1 - k)
         /\ \A j \in 1..(i - 1) : Relinked(s, i, k, m)[j] = s[j]
         /\ \A j \in 1..Len(m) : Relinked(s, i, k, m)[i - 1 + j] = m[j]
         /\ \A j \in k..Len(s) : Relinked(s, i, k, m)[j - k + i + Len(m)] = s[j]
  <1> DEFINE a == SubSeq(s, 1, i - 1)
             z == SubSeq(s, k, Len(s))
  <1>1. a \in Seq(BlockType) /\ Len(a) = i - 1 /\ \A j \in 1..(i - 1) : a[j] = s[j]
    OBVIOUS
  <1>2. z \in Seq(BlockType) /\ Len(z) = Len(s) + 1 - k /\ \A j \in k..Len(s) : z[j - k + 1] = s[j]
    OBVIOUS
  <1> HIDE DEF a, z
  <1> DEFINE am == a \o m
  <1>3. am \in Seq(BlockType) /\ Len(am) = (i - 1) + Len(m)
        /\ (\A j \in 1..(i - 1) : am[j] = a[j]) /\ \A j \in 1..Len(m) : am[i - 1 + j] = m[j]
    BY <1>1, SMTT(30)
  <1> HIDE DEF am
  <1> DEFINE t == am \o z
  <1>4. t \in Seq(BlockType) /\ Len(t) = (i - 1) + Len(m) + (Len(s) + 1 - k)
    <2>1. am \in Seq(BlockType) /\ z \in Seq(BlockType)
      BY <1>2, <1>3
    <2>2. t \in Seq(BlockType)
      BY <2>1
    <2>3. Len(t) = Len(am) + Len(z)
      BY <2>1
    <2> QED
      BY <2>2, <2>3, <1>2, <1>3
  <1>5. \A j \in 1..Len(am) : t[j] = am[j]
    BY <1>2, <1>3
  <1>6. \A j \in 1..Len(z) : t[Len(am) + j] = z[j]
    BY <1>2, <1>3, SMTT(30)
  <1>7. Relinked(s, i, k, m) = t
    BY DEF Relinked, t, am, a, z
  <1> HIDE DEF t
  <1>8. \A j \in 1..(i - 1) : t[j] = s[j]
    BY <1>1, <1>3, <1>5
  <1>9. \A j \in 1..Len(m) : t[i - 1 + j] = m[j]
    BY <1>3, <1>5, SMTT(30)
  <1>10. \A j \in k..Len(s) : t[j - k + i + Len(m)] = s[j]
    <2> SUFFICES ASSUME NEW j \in k..Len(s) PROVE t[j - k + i + Len(m)] = s[j]
      OBVIOUS
    <2>1. j - k + 1 \in 1..Len(z) /\ z[j - k + 1] = s[j]
      BY <1>2
    <2>2. t[Len(am) + (j - k + 1)] = z[j - k + 1]
      BY <2>1, <1>6
    <2>3. Len(am) + (j - k + 1) = j - k + i + Len(m)
      BY <1>3
    <2> QED
      BY <2>1, <2>2, <2>3
  <1> QED
    BY <1>4, <1>7, <1>8, <1>9, <1>10
-----------------------------------------------------------------------------
(* Alignment.                                                              *)

LEMMA ModSame ==
  ASSUME NEW x \in Nat, NEW m \in Nat, x < m
  PROVE  x % m = x
  OBVIOUS

LEMMA Quotient ==
  ASSUME NEW x \in Int, NEW a \in Nat \ {0}
  PROVE  \E q \in Int : x = a * q + (x % a) /\ x % a \in Nat /\ x % a < a
  <1>1. x = a * (x \div a) + (x % a) /\ x \div a \in Int /\ x % a \in Nat /\ x % a < a
    OBVIOUS
  <1> QED
    BY <1>1

LEMMA Multiple ==
  ASSUME NEW q \in Int, NEW a \in Nat \ {0}
  PROVE  (a * q) % a = 0
  OBVIOUS

(* M_ALIGN is the least step to a multiple.                                *)
LEMMA AlignUp ==
  ASSUME NEW x \in Int, NEW a \in Nat \ {0}
  PROVE  /\ M_ALIGN(x, a) \in Nat /\ M_ALIGN(x, a) < a
         /\ \E q \in Int : x + M_ALIGN(x, a) = a * q
         /\ (x + M_ALIGN(x, a)) % a = 0
  <1>1. PICK q \in Int : -x = a * q + ((-x) % a) /\ (-x) % a \in Nat /\ (-x) % a < a
    <2>1. -x \in Int
      OBVIOUS
    <2> QED
      BY <2>1, Quotient
  <1>2. -q \in Int /\ a * (-q) = -(a * q)
    OBVIOUS
  <1>3. x + M_ALIGN(x, a) = a * (-q)
    <2> DEFINE p == a * q
               r == (-x) % a
    <2>1. a * (-q) = -p /\ -x = p + r /\ p \in Int /\ r \in Nat /\ M_ALIGN(x, a) = r
      BY <1>1, <1>2 DEF M_ALIGN
    <2> HIDE DEF p, r
    <2> QED
      BY <2>1
  <1>4. (a * (-q)) % a = 0
    BY <1>2, Multiple
  <1> QED
    BY <1>1, <1>2, <1>3, <1>4 DEF M_ALIGN

LEMMA AlignMon ==
  ASSUME NEW x \in Int, NEW y \in Int, x <= y, NEW a \in Nat \ {0}
  PROVE  x + M_ALIGN(x, a) <= y + M_ALIGN(y, a)
  <1>1. PICK p \in Int : x + M_ALIGN(x, a) = a * p
    BY AlignUp
  <1>2. PICK q \in Int : y + M_ALIGN(y, a) = a * q
    BY AlignUp
  <1>3. M_ALIGN(x, a) \in Nat /\ M_ALIGN(y, a) \in Nat /\ M_ALIGN(x, a) < a
    BY AlignUp
  <1>4. a * p < a * q + a
    BY <1>1, <1>2, <1>3
  <1>5. p <= q
    BY <1>4
  <1>6. a * p <= a * q
    BY <1>5
  <1> QED
    BY <1>1, <1>2, <1>6

(* What is added to reach a multiple of a power of two keeps an address on *)
(* a word.                                                                 *)
LEMMA PowerIs ==
  ASSUME NEW a \in PowersOf2
  PROVE  a \in Nat \ {0} /\ (a \in {1, 2, 4} \/ a % 8 = 0)
  BY DEF PowersOf2

LEMMA EightUp ==
  ASSUME NEW x \in Int, x % 8 = 0, NEW a \in PowersOf2
  PROVE  M_ALIGN(x, a) % 8 = 0
  <1>1. CASE a \in {1, 2, 4}
    BY <1>1 DEF M_ALIGN
  <1>2. CASE a % 8 = 0
    <2>1. a \in Nat \ {0}
      BY PowerIs
    <2>2. PICK q \in Int : x + M_ALIGN(x, a) = a * q
      BY <2>1, AlignUp
    <2>3. PICK b \in Int : a = 8 * b
      BY <1>2, <2>1
    <2>4. a * q = 8 * (b * q) /\ b * q \in Int
      BY <2>3
    <2>5. (a * q) % 8 = 0
      BY <2>4
    <2>6. M_ALIGN(x, a) \in Nat
      BY <2>1, AlignUp
    <2> QED
      BY <2>2, <2>5, <2>6
  <1> QED
    BY <1>1, <1>2, PowerIs
-----------------------------------------------------------------------------
(* The first of the blocks a loop looks for.                               *)
LEMMA FirstIs ==
  ASSUME NEW S, S \subseteq Nat, S # {}
  PROVE  First(S) \in S /\ \A j \in S : First(S) <= j
  <1>1. \E x \in S : \A y \in S : ~(<<y, x>> \in OpToRel(<, Nat))
    <2>1. IsWellFoundedOn(OpToRel(<, Nat), Nat)
      BY NatLessThanWellFounded
    <2> QED
      BY <2>1, WFMin
  <1>2. PICK x \in S : \A y \in S : ~(y < x)
    BY <1>1 DEF OpToRel
  <1>3. \A j \in S : x <= j
    BY <1>2
  <1> QED
    BY <1>3 DEF First

Big(s) == \A b \in Range(s) : b.size >= Entry

(* The blocks of a chain are different ones.                               *)
LEMMA ChainedApart ==
  ASSUME NEW s \in Seq(BlockType), Chained(s), Big(s),
         NEW i \in DOMAIN s, NEW j \in DOMAIN s, i # j
  PROVE  s[i] # s[j]
  <1>1. s[i] \in BlockType /\ s[j] \in BlockType /\ s[i] \in Range(s) /\ s[j] \in Range(s)
    BY DEF Range
  <1>2. i \in Int /\ j \in Int
    OBVIOUS
  <1>3. CASE i < j
    <2>1. Ends(s[i]) < s[j].at
      BY <1>3 DEF Chained
    <2> QED
      BY <2>1, <1>1 DEF Ends, Entry, BlockType, Big
  <1>4. CASE j < i
    <2>1. Ends(s[j]) < s[i].at
      BY <1>4 DEF Chained
    <2> QED
      BY <2>1, <1>1 DEF Ends, Entry, BlockType, Big
  <1> QED
    BY <1>2, <1>3, <1>4

(* A change of the chain that keeps its order.                             *)
Relinks(s, i, k, m) ==
  /\ s \in Seq(BlockType) /\ m \in Seq(BlockType) /\ Chained(s) /\ Chained(m) /\ Big(s)
  /\ i \in Int /\ k \in Int /\ 1 <= i /\ i <= k /\ k <= Len(s) + 1
  /\ \A j \in 1 .. (i - 1) : \A l \in 1 .. Len(m) : Ends(s[j]) < m[l].at
  /\ \A j \in k .. Len(s) : \A l \in 1 .. Len(m) : Ends(m[l]) < s[j].at
Parts(s, i, k, m) == (Range(s) \ {s[j] : j \in i .. (k - 1)}) \cup Range(m)

LEMMA RelinkedChains ==
  ASSUME NEW s, NEW i, NEW k, NEW m, Relinks(s, i, k, m)
  PROVE  /\ Relinked(s, i, k, m) \in Seq(BlockType)
         /\ Chained(Relinked(s, i, k, m))
         /\ Range(Relinked(s, i, k, m)) = Parts(s, i, k, m)
  <1> USE DEF Parts
  <1>0. /\ s \in Seq(BlockType) /\ m \in Seq(BlockType) /\ Chained(s) /\ Chained(m) /\ Big(s)
        /\ i \in Int /\ k \in Int /\ 1 <= i /\ i <= k /\ k <= Len(s) + 1
        /\ \A j \in 1 .. (i - 1) : \A l \in 1 .. Len(m) : Ends(s[j]) < m[l].at
        /\ \A j \in k .. Len(s) : \A l \in 1 .. Len(m) : Ends(m[l]) < s[j].at
    BY DEF Relinks
  <1> USE <1>0
  <1> DEFINE r == Relinked(s, i, k, m)
             n == Len(m)
             N == Len(s)
  <1>1. /\ r \in Seq(BlockType) /\ Len(r) = (i - 1) + n + (N + 1 - k)
        /\ \A j \in 1 .. (i - 1) : r[j] = s[j]
        /\ \A j \in 1 .. n : r[i - 1 + j] = m[j]
        /\ \A j \in k .. N : r[j - k + i + n] = s[j]
    BY RelinkedIs
  <1> HIDE DEF r
  <1>n. n \in Nat /\ N \in Nat
    OBVIOUS
  <1>i. i \in Int /\ k \in Int /\ 1 <= i /\ i <= k /\ k <= N + 1
    OBVIOUS
  <1>d. DOMAIN r = 1 .. Len(r) /\ DOMAIN s = 1 .. N /\ DOMAIN m = 1 .. n
    BY <1>1
  <1> HIDE DEF n, N
  <1>2. ASSUME NEW p \in DOMAIN r
        PROVE  \/ p \in 1 .. (i - 1) /\ r[p] = s[p]
               \/ p - (i - 1) \in 1 .. n /\ r[p] = m[p - (i - 1)]
               \/ p - (i + n) + k \in k .. N /\ r[p] = s[p - (i + n) + k]
    <2>0. p \in Int /\ 1 <= p /\ p <= (i - 1) + n + (N + 1 - k)
      BY <1>1, <1>d
    <2>1. CASE p <= i - 1
      BY <2>0, <2>1, <1>1
    <2>2. CASE i - 1 < p /\ p <= i - 1 + n
      <3> DEFINE j == p - (i - 1)
      <3>1. j \in 1 .. n /\ i - 1 + j = p
        BY <2>0, <2>2, <1>n
      <3>2. r[i - 1 + j] = m[j]
        BY <3>1, <1>1
      <3> QED
        BY <3>1, <3>2
    <2>3. CASE i - 1 + n < p
      <3> DEFINE j == p - (i + n) + k
      <3>1. j \in k .. N /\ j - k + i + n = p
        <4> HIDE <1>0
        <4> QED
          BY <2>0, <2>3, <1>n, <1>i
      <3>2. r[j - k + i + n] = s[j]
        BY <3>1, <1>1
      <3> QED
        BY <3>1, <3>2
    <2> QED
      BY <2>0, <2>1, <2>2, <2>3, <1>n
  <1>3. Chained(r)
    <2> SUFFICES ASSUME NEW p \in DOMAIN r, NEW q \in DOMAIN r, p < q
                 PROVE  Ends(r[p]) < r[q].at
      BY DEF Chained
    <2>0. p \in Int /\ q \in Int
      BY <1>1, <1>d
    <2>1. CASE p \in 1 .. (i - 1) /\ r[p] = s[p]
      <3>1. CASE q \in 1 .. (i - 1) /\ r[q] = s[q]
        BY <2>1, <3>1, <1>d, <1>n DEF Chained
      <3>2. CASE q - (i - 1) \in 1 .. n /\ r[q] = m[q - (i - 1)]
        BY <2>1, <3>2 DEF n
      <3>3. CASE q - (i + n) + k \in k .. N /\ r[q] = s[q - (i + n) + k]
        <4> DEFINE j == q - (i + n) + k
        <4>1. j \in DOMAIN s /\ p \in DOMAIN s /\ p < j
          BY <2>1, <3>3, <1>d, <1>n
        <4>2. r[q] = s[j]
          BY <3>3
        <4> HIDE DEF j
        <4> QED
          BY <2>1, <4>1, <4>2 DEF Chained
      <3> QED
        BY <3>1, <3>2, <3>3, <1>2
    <2>2. CASE p - (i - 1) \in 1 .. n /\ r[p] = m[p - (i - 1)]
      <3>1. CASE q \in 1 .. (i - 1) /\ r[q] = s[q]
        BY <2>0, <2>2, <3>1, <1>n
      <3>2. CASE q - (i - 1) \in 1 .. n /\ r[q] = m[q - (i - 1)]
        <4> DEFINE j == p - (i - 1)
                   l == q - (i - 1)
        <4>1. j \in DOMAIN m /\ l \in DOMAIN m /\ j < l
          BY <2>0, <2>2, <3>2, <1>d, <1>n
        <4>2. r[p] = m[j] /\ r[q] = m[l]
          BY <2>2, <3>2
        <4> HIDE DEF j, l
        <4> QED
          BY <4>1, <4>2 DEF Chained
      <3>3. CASE q - (i + n) + k \in k .. N /\ r[q] = s[q - (i + n) + k]
        BY <2>2, <3>3 DEF n, N
      <3> QED
        BY <3>1, <3>2, <3>3, <1>2
    <2>3. CASE p - (i + n) + k \in k .. N /\ r[p] = s[p - (i + n) + k]
      <3>1. CASE q \in 1 .. (i - 1) /\ r[q] = s[q]
        BY <2>0, <2>3, <3>1, <1>n
      <3>2. CASE q - (i - 1) \in 1 .. n /\ r[q] = m[q - (i - 1)]
        BY <2>0, <2>3, <3>2, <1>n
      <3>3. CASE q - (i + n) + k \in k .. N /\ r[q] = s[q - (i + n) + k]
        <4> DEFINE j == p - (i + n) + k
                   l == q - (i + n) + k
        <4>1. j \in DOMAIN s /\ l \in DOMAIN s /\ j < l
          BY <2>0, <2>3, <3>3, <1>d, <1>n
        <4>2. r[p] = s[j] /\ r[q] = s[l]
          BY <2>3, <3>3
        <4> HIDE DEF j, l
        <4> QED
          BY <4>1, <4>2 DEF Chained
      <3> QED
        BY <3>1, <3>2, <3>3, <1>2
    <2> QED
      BY <2>1, <2>2, <2>3, <1>2
  <1>4. ASSUME NEW b \in Range(r)
        PROVE  b \in (Range(s) \ {s[j] : j \in i .. (k - 1)}) \cup Range(m)
    <2>1. PICK p \in DOMAIN r : b = r[p]
      BY DEF Range
    <2>2. ASSUME NEW j \in DOMAIN s, ~(j \in i .. (k - 1)), b = s[j]
          PROVE  b \in Range(s) \ {s[l] : l \in i .. (k - 1)}
      <3>1. b \in Range(s)
        BY <2>2 DEF Range
      <3>2. ASSUME NEW l \in i .. (k - 1) PROVE b # s[l]
        <4>1. l \in DOMAIN s /\ l # j
          BY <2>2, <3>2, <1>d DEF N
        <4> QED
          BY <4>1, <2>2, ChainedApart
      <3> QED
        BY <3>1, <3>2
    <2>3. CASE p \in 1 .. (i - 1) /\ r[p] = s[p]
      <3>1. p \in DOMAIN s /\ ~(p \in i .. (k - 1))
        BY <2>3, <1>d, <1>n
      <3> QED
        BY <3>1, <2>1, <2>2, <2>3
    <2>4. CASE p - (i - 1) \in 1 .. n /\ r[p] = m[p - (i - 1)]
      BY <2>1, <2>4, <1>d DEF Range
    <2>5. CASE p - (i + n) + k \in k .. N /\ r[p] = s[p - (i + n) + k]
      <3> DEFINE j == p - (i + n) + k
      <3>1. j \in DOMAIN s /\ ~(j \in i .. (k - 1)) /\ b = s[j]
        BY <2>1, <2>5, <1>d, <1>n
      <3> HIDE DEF j
      <3> QED
        BY <3>1, <2>2
    <2> QED
      BY <2>3, <2>4, <2>5, <1>2
  <1>5. ASSUME NEW b \in Range(s) \ {s[j] : j \in i .. (k - 1)}
        PROVE  b \in Range(r)
    <2>1. PICK j \in DOMAIN s : b = s[j]
      BY DEF Range
    <2>2. j \in 1 .. N /\ ~(j \in i .. (k - 1))
      BY <2>1, <1>d
    <2>3. CASE j \in 1 .. (i - 1)
      <3>1. j \in DOMAIN r /\ r[j] = s[j]
        BY <2>3, <1>1, <1>d, <1>n
      <3> QED
        BY <3>1, <2>1 DEF Range
    <2>4. CASE j \in k .. N
      <3> DEFINE p == j - k + i + n
      <3>1. p \in DOMAIN r /\ r[p] = s[j]
        BY <2>4, <1>1, <1>d, <1>n
      <3> HIDE DEF p
      <3> QED
        BY <3>1, <2>1 DEF Range
    <2> QED
      BY <2>2, <2>3, <2>4, <1>n
  <1>6. ASSUME NEW b \in Range(m)
        PROVE  b \in Range(r)
    <2>1. PICK j \in DOMAIN m : b = m[j]
      BY DEF Range
    <2> DEFINE p == i - 1 + j
    <2>2. p \in DOMAIN r /\ r[p] = m[j]
      BY <2>1, <1>1, <1>d, <1>n
    <2> HIDE DEF p
    <2> QED
      BY <2>1, <2>2 DEF Range
  <1>7. Range(r) = (Range(s) \ {s[j] : j \in i .. (k - 1)}) \cup Range(m)
    BY <1>4, <1>5, <1>6
  <1> QED
    BY <1>1, <1>3, <1>7 DEF r
-----------------------------------------------------------------------------
(* Tilings.                                                                *)

(* A block is cut in pieces.                                               *)
LEMMA PiecesTile ==
  ASSUME NEW S, S \subseteq BlockType, NEW P, P \subseteq BlockType,
         NEW from \in Int, NEW e \in Int, NEW b \in S,
         Tiled(S, from, e), Tiled(P, b.at, Ends(b))
  PROVE  Tiled((S \ {b}) \cup P, from, e) /\ P \cap (S \ {b}) = {}
  <1> USE DEF Entry, SizeT, BlockType, Ends, Behind
  <1> DEFINE T == (S \ {b}) \cup P
  <1>1. \A d \in S : /\ from <= d.at /\ Ends(d) <= e
                     /\ d.at % SizeT = 0 /\ d.size % SizeT = 0 /\ d.size >= Entry
    BY DEF Tiled
  <1>2. \A d, c \in S : d # c => Behind(d, c) \/ Behind(c, d)
    BY DEF Tiled
  <1>3. \A d \in P : /\ b.at <= d.at /\ Ends(d) <= Ends(b)
                     /\ d.at % SizeT = 0 /\ d.size % SizeT = 0 /\ d.size >= Entry
    BY DEF Tiled
  <1>4. \A d, c \in P : d # c => Behind(d, c) \/ Behind(c, d)
    BY DEF Tiled
  <1>5. \E d \in P : d.at = b.at
    BY <1>1 DEF Tiled
  <1>6. \A d \in P : Ends(d) = Ends(b) \/ \E c \in P : c.at = Ends(d)
    BY DEF Tiled
  <1>7. \A d \in S : Ends(d) = e \/ \E c \in S : c.at = Ends(d)
    BY DEF Tiled
  <1>8. from = e \/ \E d \in S : d.at = from
    BY DEF Tiled
  <1>9. \A d \in P : \A c \in S \ {b} : Behind(d, c) \/ Behind(c, d)
    BY <1>1, <1>2, <1>3
  <1>10. P \cap (S \ {b}) = {}
    BY <1>3, <1>9
  <1>11. \A d \in T : /\ from <= d.at /\ Ends(d) <= e
                      /\ d.at % SizeT = 0 /\ d.size % SizeT = 0 /\ d.size >= Entry
    BY <1>1, <1>3
  <1>12. \A d, c \in T : d # c => Behind(d, c) \/ Behind(c, d)
    BY <1>2, <1>4, <1>9
  <1>13. \A x \in Int : (\E c \in S : c.at = x) => \E c \in T : c.at = x
    BY <1>5
  <1>14. from = e \/ \E d \in T : d.at = from
    BY <1>8, <1>13
  <1>15. ASSUME NEW d \in T
         PROVE  Ends(d) = e \/ \E c \in T : c.at = Ends(d)
    <2>1. Ends(d) \in Int /\ Ends(b) \in Int
      OBVIOUS
    <2>2. CASE d \in S
      BY <2>1, <2>2, <1>7, <1>13
    <2>3. CASE d \in P
      <3>1. Ends(b) = e \/ \E c \in T : c.at = Ends(b)
        BY <2>1, <1>7, <1>13
      <3> QED
        BY <2>3, <3>1, <1>6
    <2> QED
      BY <2>2, <2>3
  <1> HIDE DEF T
  <1>16. Tiled(T, from, e)
    BY <1>11, <1>12, <1>14, <1>15 DEF Tiled
  <1> QED
    BY <1>10, <1>16 DEF T

(* Two blocks become one.                                                  *)
LEMMA JoinTiles ==
  ASSUME NEW S, S \subseteq BlockType, NEW from \in Int, NEW e \in Int,
         Tiled(S, from, e), NEW b \in S, NEW d \in S, d.at = Ends(b)
  PROVE  /\ Block(b.at, b.size + d.size) \in BlockType \ S
         /\ Tiled((S \ {b, d}) \cup {Block(b.at, b.size + d.size)}, from, e)
  <1> USE DEF Entry, SizeT, BlockType, Ends, Behind
  <1> DEFINE j == Block(b.at, b.size + d.size)
             T == (S \ {b, d}) \cup {j}
  <1>1. \A c \in S : /\ from <= c.at /\ Ends(c) <= e
                     /\ c.at % SizeT = 0 /\ c.size % SizeT = 0 /\ c.size >= Entry
    BY DEF Tiled
  <1>2. \A c, f \in S : c # f => Behind(c, f) \/ Behind(f, c)
    BY DEF Tiled
  <1>3. \A c \in S : Ends(c) = e \/ \E f \in S : f.at = Ends(c)
    BY DEF Tiled
  <1>4. from = e \/ \E c \in S : c.at = from
    BY DEF Tiled
  <1>5. j \in BlockType /\ j.at = b.at /\ j.size = b.size + d.size /\ Ends(j) = Ends(d)
    BY DEF Block
  <1> HIDE DEF j
  <1>6. j \notin S
    BY <1>1, <1>2, <1>5
  <1>7. \A c \in S \ {b, d} : Behind(c, j) \/ Behind(j, c)
    BY <1>1, <1>2, <1>5
  <1>8. \A c \in T : /\ from <= c.at /\ Ends(c) <= e
                     /\ c.at % SizeT = 0 /\ c.size % SizeT = 0 /\ c.size >= Entry
    BY <1>1, <1>5
  <1>9. \A c, f \in T : c # f => Behind(c, f) \/ Behind(f, c)
    BY <1>2, <1>7
  <1>10. \A c \in S : c.at # d.at => \E f \in T : f.at = c.at
    BY <1>5
  <1>11. \A c \in S : c.at = d.at => c = d
    BY <1>1, <1>2
  <1>12. from = e \/ \E c \in T : c.at = from
    BY <1>1, <1>4, <1>10
  <1>13. ASSUME NEW c \in T
         PROVE  Ends(c) = e \/ \E f \in T : f.at = Ends(c)
    <2>1. CASE c = j
      <3>1. Ends(d) # d.at
        BY <1>1
      <3> QED
        BY <2>1, <3>1, <1>3, <1>5, <1>10
    <2>2. CASE c \in S \ {b, d}
      <3>1. Ends(c) # d.at
        BY <2>2, <1>1, <1>2
      <3> QED
        BY <2>2, <3>1, <1>3, <1>10
    <2> QED
      BY <2>1, <2>2
  <1> HIDE DEF T
  <1>14. Tiled(T, from, e)
    BY <1>8, <1>9, <1>12, <1>13 DEF Tiled
  <1> QED
    BY <1>5, <1>6, <1>14 DEF T, j

(* A block is added at the end.                                            *)
LEMMA GrowTiles ==
  ASSUME NEW S, S \subseteq BlockType, NEW from \in Int, NEW e \in Int, from <= e,
         Tiled(S, from, e), e % SizeT = 0,
         NEW n \in Int, n >= Entry, n % SizeT = 0
  PROVE  /\ Block(e, n) \in BlockType \ S
         /\ Tiled(S \cup {Block(e, n)}, from, e + n)
  <1> USE DEF Entry, SizeT, BlockType, Ends, Behind
  <1> DEFINE g == Block(e, n)
             T == S \cup {g}
  <1>1. \A c \in S : /\ from <= c.at /\ Ends(c) <= e
                     /\ c.at % SizeT = 0 /\ c.size % SizeT = 0 /\ c.size >= Entry
    BY DEF Tiled
  <1>2. \A c, f \in S : c # f => Behind(c, f) \/ Behind(f, c)
    BY DEF Tiled
  <1>3. \A c \in S : Ends(c) = e \/ \E f \in S : f.at = Ends(c)
    BY DEF Tiled
  <1>4. from = e \/ \E c \in S : c.at = from
    BY DEF Tiled
  <1>5. g \in BlockType /\ g.at = e /\ g.size = n /\ Ends(g) = e + n
    BY DEF Block
  <1> HIDE DEF g
  <1>6. \A c \in T : /\ from <= c.at /\ Ends(c) <= e + n
                     /\ c.at % SizeT = 0 /\ c.size % SizeT = 0 /\ c.size >= Entry
    BY <1>1, <1>5
  <1>7. \A c, f \in T : c # f => Behind(c, f) \/ Behind(f, c)
    BY <1>1, <1>2, <1>5
  <1>8. from = e + n \/ \E c \in T : c.at = from
    BY <1>4, <1>5
  <1>9. \A c \in T : Ends(c) = e + n \/ \E f \in T : f.at = Ends(c)
    BY <1>3, <1>5
  <1>10. g \notin S
    BY <1>1, <1>5
  <1> HIDE DEF T
  <1>11. Tiled(T, from, e + n)
    BY <1>6, <1>7, <1>8, <1>9 DEF Tiled
  <1> QED
    BY <1>5, <1>10, <1>11 DEF T, g

(* The block at the end is made larger.                                    *)
LEMMA StretchTiles ==
  ASSUME NEW S, S \subseteq BlockType, NEW from \in Int, NEW e \in Int,
         Tiled(S, from, e), NEW b \in S, Ends(b) = e,
         NEW n \in Int, n >= b.size, n % SizeT = 0
  PROVE  /\ Block(b.at, n) \in BlockType /\ Block(b.at, n) \notin S \ {b}
         /\ Tiled((S \ {b}) \cup {Block(b.at, n)}, from, b.at + n)
  <1> USE DEF Entry, SizeT, BlockType, Ends, Behind
  <1> DEFINE g == Block(b.at, n)
             T == (S \ {b}) \cup {g}
  <1>1. \A c \in S : /\ from <= c.at /\ Ends(c) <= e
                     /\ c.at % SizeT = 0 /\ c.size % SizeT = 0 /\ c.size >= Entry
    BY DEF Tiled
  <1>2. \A c, f \in S : c # f => Behind(c, f) \/ Behind(f, c)
    BY DEF Tiled
  <1>3. \A c \in S : Ends(c) = e \/ \E f \in S : f.at = Ends(c)
    BY DEF Tiled
  <1>4. from = e \/ \E c \in S : c.at = from
    BY DEF Tiled
  <1>5. g \in BlockType /\ g.at = b.at /\ g.size = n /\ Ends(g) = b.at + n
    BY DEF Block
  <1> HIDE DEF g
  <1>6. \A c \in S \ {b} : Ends(c) <= b.at
    BY <1>1, <1>2
  <1>7. \A c \in T : /\ from <= c.at /\ Ends(c) <= b.at + n
                     /\ c.at % SizeT = 0 /\ c.size % SizeT = 0 /\ c.size >= Entry
    BY <1>1, <1>5, <1>6
  <1>8. \A c, f \in T : c # f => Behind(c, f) \/ Behind(f, c)
    BY <1>2, <1>5, <1>6
  <1>9. \A x \in Int : (\E c \in S : c.at = x) => \E c \in T : c.at = x
    BY <1>5
  <1>10. from = b.at + n \/ \E c \in T : c.at = from
    BY <1>1, <1>4, <1>9
  <1>11. \A c \in S \ {b} : Ends(c) # e
    BY <1>1, <1>6
  <1>12. \A c \in T : Ends(c) = b.at + n \/ \E f \in T : f.at = Ends(c)
    BY <1>3, <1>5, <1>9, <1>11
  <1>13. g \notin S \ {b}
    BY <1>1, <1>5, <1>6
  <1> HIDE DEF T
  <1>14. Tiled(T, from, b.at + n)
    BY <1>7, <1>8, <1>10, <1>12 DEF Tiled
  <1> QED
    BY <1>5, <1>13, <1>14 DEF T, g
-----------------------------------------------------------------------------
(* A heap in order: the chain and the used blocks B are the bytes between  *)
(* two addresses.                                                          *)

HeapOK(from, chain, e, B) ==
  /\ chain \in Seq(BlockType) /\ B \subseteq BlockType /\ from \in Nat /\ e \in Nat
  /\ from <= e /\ e <= Frame - GAP /\ e % SizeT = 0
  /\ Tiled(Range(chain) \cup B, from, e)
  /\ Chained(chain)
  /\ Range(chain) \cap B = {}

Fine(n) == n \in Int /\ n >= Entry /\ n % SizeT = 0

LEMMA HeapBlocks ==
  ASSUME NEW from, NEW chain, NEW e, NEW B, HeapOK(from, chain, e, B)
  PROVE  /\ \A b \in Range(chain) \cup B :
              /\ b \in BlockType /\ b.at \in Nat /\ b.at % SizeT = 0 /\ Fine(b.size)
              /\ from <= b.at /\ Ends(b) <= e
              /\ Ends(b) = e \/ \E d \in Range(chain) \cup B : d.at = Ends(b)
         /\ \A b, d \in Range(chain) \cup B : b # d => Behind(b, d) \/ Behind(d, b)
         /\ \A i \in DOMAIN chain : chain[i] \in Range(chain) \ B /\ chain[i] \in BlockType
         /\ DOMAIN chain = 1 .. Len(chain) /\ Len(chain) \in Nat
  <1> DEFINE S == Range(chain) \cup B
  <1>1. chain \in Seq(BlockType)
    BY DEF HeapOK
  <1>2. \A i \in DOMAIN chain : chain[i] \in BlockType /\ chain[i] \in Range(chain)
    BY <1>1 DEF Range
  <1>3. \A b \in Range(chain) : b \in BlockType
    BY <1>2 DEF Range
  <1>4. S \subseteq BlockType /\ from \in Nat
    BY <1>3 DEF HeapOK
  <1>5. Tiled(S, from, e)
    BY DEF HeapOK
  <1>6. \A b \in S : /\ b \in BlockType /\ b.at \in Nat /\ b.at % SizeT = 0 /\ Fine(b.size)
                     /\ from <= b.at /\ Ends(b) <= e
                     /\ Ends(b) = e \/ \E d \in S : d.at = Ends(b)
    BY <1>4, <1>5 DEF Tiled, Fine, BlockType
  <1>7. \A b, d \in S : b # d => Behind(b, d) \/ Behind(d, b)
    BY <1>5 DEF Tiled
  <1>8. Range(chain) \cap B = {}
    BY DEF HeapOK
  <1>9. DOMAIN chain = 1 .. Len(chain) /\ Len(chain) \in Nat
    BY <1>1
  <1> QED
    BY <1>2, <1>6, <1>7, <1>8, <1>9

LEMMA BlockInts ==
  ASSUME NEW b \in BlockType
  PROVE  b.at \in Int /\ b.size \in Int /\ Ends(b) \in Int /\ Ends(b) = b.at + b.size
  BY DEF BlockType, Ends

LEMMA Below ==
  ASSUME NEW x \in Int, NEW y \in Int, NEW z \in Int, (x <= y /\ y < z) \/ (x < y /\ y <= z)
  PROVE  x < z
  OBVIOUS

(* A free block is carved up: one piece is used, the others stay.          *)
LEMMA Carve ==
  ASSUME NEW from, NEW chain, NEW e, NEW B, HeapOK(from, chain, e, B),
         NEW i \in DOMAIN chain, NEW m \in Seq(BlockType), NEW g \in BlockType,
         Chained(m), g \notin Range(m),
         Tiled(Range(m) \cup {g}, chain[i].at, Ends(chain[i]))
  PROVE  /\ HeapOK(from, Relinked(chain, i, i + 1, m), e, B \cup {g})
         /\ g \notin B
  <1> DEFINE b == chain[i]
             S == Range(chain) \cup B
             P == Range(m) \cup {g}
             r == Relinked(chain, i, i + 1, m)
  <1>1. /\ S \subseteq BlockType /\ b \in S /\ b \in Range(chain) /\ b \notin B
        /\ \A c \in Range(chain) : c.size >= Entry
        /\ chain \in Seq(BlockType) /\ Chained(chain) /\ Range(chain) \cap B = {}
        /\ DOMAIN chain = 1 .. Len(chain) /\ Len(chain) \in Nat
    BY HeapBlocks DEF HeapOK, Fine
  <1>2. P \subseteq BlockType
    BY DEF Range
  <1>3. Tiled(S, from, e) /\ from \in Int /\ e \in Int
    BY DEF HeapOK
  <1>4. Tiled((S \ {b}) \cup P, from, e) /\ P \cap (S \ {b}) = {}
    <2>1. Tiled(P, b.at, Ends(b))
      OBVIOUS
    <2> HIDE DEF S, b, P
    <2> QED
      BY <1>1, <1>2, <1>3, <2>1, PiecesTile
  <1>5. \A l \in 1 .. Len(m) : m[l] \in P /\ m[l] \in BlockType
    BY DEF Range
  <1>6. \A l \in 1 .. Len(m) : b.at <= m[l].at /\ Ends(m[l]) <= Ends(b)
    BY <1>5 DEF Tiled
  <1>7. b \in BlockType /\ i \in Int /\ 1 <= i /\ i <= Len(chain)
    BY <1>1
  <1>8. ASSUME NEW j \in 1 .. (i - 1), NEW l \in 1 .. Len(m)
        PROVE  Ends(chain[j]) < m[l].at
    <2>1. j \in DOMAIN chain /\ j < i
      BY <1>1, <1>7
    <2>2. Ends(chain[j]) < b.at /\ chain[j] \in BlockType
      BY <2>1, <1>1 DEF Chained
    <2>3. m[l] \in BlockType /\ b.at <= m[l].at /\ Ends(m[l]) <= Ends(b)
      BY <1>5, <1>6
    <2> HIDE DEF b, S, P
    <2> QED
      BY <2>2, <2>3, <1>7, BlockInts, Below
  <1>9. ASSUME NEW j \in (i + 1) .. Len(chain), NEW l \in 1 .. Len(m)
        PROVE  Ends(m[l]) < chain[j].at
    <2>1. j \in DOMAIN chain /\ i < j
      BY <1>1, <1>7
    <2>2. Ends(b) < chain[j].at /\ chain[j] \in BlockType
      BY <2>1, <1>1 DEF Chained
    <2>3. m[l] \in BlockType /\ b.at <= m[l].at /\ Ends(m[l]) <= Ends(b)
      BY <1>5, <1>6
    <2> HIDE DEF b, S, P
    <2> QED
      BY <2>2, <2>3, <1>7, BlockInts, Below
  <1>10. /\ r \in Seq(BlockType) /\ Chained(r)
         /\ Range(r) = Parts(chain, i, i + 1, m)
    <2>1. i + 1 \in Int /\ i <= i + 1 /\ i + 1 <= Len(chain) + 1
      BY <1>1, <1>7
    <2> DEFINE k == i + 1
    <2>2. Big(chain) /\ chain \in Seq(BlockType) /\ Chained(chain)
      BY <1>1 DEF Big
    <2>3. Relinks(chain, i, k, m)
      BY <1>7, <1>8, <1>9, <2>1, <2>2 DEF Relinks
    <2> HIDE DEF r, b, S, P, k
    <2>4. /\ Relinked(chain, i, k, m) \in Seq(BlockType)
          /\ Chained(Relinked(chain, i, k, m))
          /\ Range(Relinked(chain, i, k, m)) = Parts(chain, i, k, m)
      BY <2>3, RelinkedChains, Zenon
    <2> QED
      BY <2>4 DEF r, k
  <1>11. Range(r) = (Range(chain) \ {b}) \cup Range(m)
    <2>1. {chain[j] : j \in i .. ((i + 1) - 1)} = {b}
      BY <1>7
    <2> QED
      BY <2>1, <1>10 DEF Parts
  <1> HIDE DEF r, b
  <1>12. Range(r) \cup (B \cup {g}) = (S \ {b}) \cup P
    BY <1>1, <1>11
  <1>13. Range(r) \cap (B \cup {g}) = {}
    BY <1>1, <1>4, <1>11
  <1>14. g \notin B
    BY <1>1, <1>4
  <1>15. HeapOK(from, r, e, B \cup {g})
    BY <1>4, <1>10, <1>12, <1>13 DEF HeapOK
  <1> QED
    BY <1>14, <1>15 DEF r

(* The heap grows by a block that is used at once, or by a free one.       *)
LEMMA GrowUsed ==
  ASSUME NEW from, NEW chain, NEW e, NEW B, HeapOK(from, chain, e, B),
         NEW n, Fine(n), e + n <= Frame - GAP
  PROVE  /\ HeapOK(from, chain, e + n, B \cup {Block(e, n)})
         /\ Block(e, n) \notin B /\ Block(e, n) \in BlockType
  <1> DEFINE S == Range(chain) \cup B
             g == Block(e, n)
  <1>1. S \subseteq BlockType
    BY HeapBlocks
  <1>2. /\ Tiled(S, from, e) /\ from \in Int /\ e \in Nat /\ from <= e /\ e % SizeT = 0
        /\ from \in Nat /\ chain \in Seq(BlockType) /\ Chained(chain) /\ Range(chain) \cap B = {}
    BY DEF HeapOK
  <1>3. n \in Int /\ n >= Entry /\ n % SizeT = 0
    BY DEF Fine
  <1>4. g \in BlockType \ S /\ Tiled(S \cup {g}, from, e + n)
    <2> HIDE DEF S
    <2>1. e \in Int
      BY <1>2
    <2> QED
      BY <1>1, <1>2, <1>3, <2>1, GrowTiles
  <1>5. e + n \in Nat /\ from <= e + n /\ (e + n) % SizeT = 0
    BY <1>2, <1>3 DEF SizeT, Entry
  <1> HIDE DEF g
  <1>6. Range(chain) \cup (B \cup {g}) = S \cup {g} /\ Range(chain) \cap (B \cup {g}) = {}
    BY <1>2, <1>4
  <1>7. HeapOK(from, chain, e + n, B \cup {g})
    BY <1>1, <1>2, <1>4, <1>5, <1>6 DEF HeapOK
  <1> QED
    BY <1>4, <1>7 DEF g

LEMMA GrowFree ==
  ASSUME NEW from, NEW chain, NEW e, NEW B, HeapOK(from, chain, e, B),
         \A i \in DOMAIN chain : i = Len(chain) => Ends(chain[i]) # e,
         NEW n, Fine(n), e + n <= Frame - GAP
  PROVE  LET r == Relinked(chain, Len(chain) + 1, Len(chain) + 1, <<Block(e, n)>>)
         IN  /\ HeapOK(from, r, e + n, B)
             /\ Len(r) = Len(chain) + 1 /\ r[Len(r)] = Block(e, n)
  <1> DEFINE S == Range(chain) \cup B
             g == Block(e, n)
             N == Len(chain)
             m == <<g>>
             r == Relinked(chain, N + 1, N + 1, m)
  <1>1. /\ S \subseteq BlockType /\ DOMAIN chain = 1 .. N /\ N \in Nat
        /\ \A c \in Range(chain) : c.size >= Entry
        /\ \A i \in DOMAIN chain : chain[i] \in BlockType /\ Ends(chain[i]) <= e
    BY HeapBlocks DEF Fine
  <1>2. /\ Tiled(S, from, e) /\ from \in Int /\ e \in Nat /\ from <= e /\ e % SizeT = 0
        /\ from \in Nat /\ chain \in Seq(BlockType) /\ Chained(chain) /\ Range(chain) \cap B = {}
        /\ B \subseteq BlockType
    BY DEF HeapOK
  <1>3. n \in Int /\ n >= Entry /\ n % SizeT = 0
    BY DEF Fine
  <1>4. g \in BlockType \ S /\ Tiled(S \cup {g}, from, e + n)
    <2> HIDE DEF S
    <2>1. e \in Int
      BY <1>2
    <2> QED
      BY <1>1, <1>2, <1>3, <2>1, GrowTiles
  <1>5. e + n \in Nat /\ from <= e + n /\ (e + n) % SizeT = 0
    BY <1>2, <1>3 DEF SizeT, Entry
  <1>g. g.at = e
    BY DEF Block
  <1> HIDE DEF g, N
  <1>6. m \in Seq(BlockType) /\ Len(m) = 1 /\ m[1] = g /\ Chained(m) /\ Range(m) = {g}
    BY <1>4 DEF Chained, Range
  <1> HIDE DEF m
  <1>7. ASSUME NEW j \in DOMAIN chain
        PROVE  Ends(chain[j]) < e
    <2>1. CASE j = N
      <3>1. Ends(chain[j]) # e
        BY <2>1 DEF N
      <3> QED
        BY <3>1, <1>1, <1>2, SMTT(30) DEF Ends, BlockType
    <2>2. CASE j # N
      <3>1. N \in DOMAIN chain /\ j < N
        BY <2>2, <1>1
      <3>2. Ends(chain[j]) < chain[N].at
        BY <3>1, <1>2 DEF Chained
      <3>3. chain[N] \in Range(chain)
        BY <3>1 DEF Range
      <3> QED
        BY <3>1, <3>2, <3>3, <1>1, <1>2 DEF Ends, BlockType, Entry
    <2> QED
      BY <2>1, <2>2
  <1>9. Big(chain)
    BY <1>1 DEF Big
  <1>10. N + 1 \in Int /\ 1 <= N + 1 /\ N + 1 <= N + 1
    BY <1>1
  <1>8. Relinks(chain, N + 1, N + 1, m)
    <2>1. \A j \in 1 .. ((N + 1) - 1) : \A l \in 1 .. Len(m) : Ends(chain[j]) < m[l].at
      BY <1>1, <1>6, <1>7, <1>g
    <2>2. \A j \in (N + 1) .. N : \A l \in 1 .. Len(m) : Ends(m[l]) < chain[j].at
      BY <1>1
    <2> QED
      BY <2>1, <2>2, <1>2, <1>6, <1>9, <1>10 DEF Relinks, N
  <1>11. /\ r \in Seq(BlockType) /\ Chained(r)
         /\ Range(r) = Parts(chain, N + 1, N + 1, m)
    BY <1>8, RelinkedChains, Zenon
  <1>12. /\ Len(r) = ((N + 1) - 1) + Len(m) + (N + 1 - (N + 1))
         /\ \A j \in 1 .. Len(m) : r[(N + 1) - 1 + j] = m[j]
    <2> DEFINE k == N + 1
    <2>1. k \in Int /\ 1 <= k /\ k <= k /\ k <= Len(chain) + 1
      BY <1>10 DEF N
    <2> HIDE DEF k
    <2>2. /\ Relinked(chain, k, k, m) \in Seq(BlockType)
          /\ Len(Relinked(chain, k, k, m)) = (k - 1) + Len(m) + (Len(chain) + 1 - k)
          /\ \A j \in 1 .. (k - 1) : Relinked(chain, k, k, m)[j] = chain[j]
          /\ \A j \in 1 .. Len(m) : Relinked(chain, k, k, m)[k - 1 + j] = m[j]
          /\ \A j \in k .. Len(chain) : Relinked(chain, k, k, m)[j - k + k + Len(m)] = chain[j]
      <3>1. chain \in Seq(BlockType) /\ m \in Seq(BlockType)
        BY <1>2, <1>6
      <3> QED
        BY <3>1, <2>1, RelinkedIs, Zenon
    <2> QED
      BY <2>2 DEF k, N
  <1>13. Len(r) = N + 1 /\ r[Len(r)] = g
    <2> HIDE DEF r
    <2>1. Len(r) = N + 1
      BY <1>1, <1>6, <1>12
    <2>2. r[(N + 1) - 1 + 1] = m[1] /\ (N + 1) - 1 + 1 = N + 1
      BY <1>1, <1>6, <1>12
    <2> QED
      BY <2>1, <2>2, <1>6
  <1>14. Range(r) = Range(chain) \cup {g}
    <2>1. (N + 1) .. ((N + 1) - 1) = {}
      BY <1>1
    <2>2. {chain[j] : j \in (N + 1) .. ((N + 1) - 1)} = {}
      BY <2>1
    <2> QED
      BY <2>2, <1>6, <1>11 DEF Parts
  <1> HIDE DEF r
  <1>15. Range(r) \cup B = S \cup {g} /\ Range(r) \cap B = {}
    BY <1>2, <1>4, <1>14
  <1>16. HeapOK(from, r, e + n, B)
    BY <1>2, <1>4, <1>5, <1>11, <1>15 DEF HeapOK
  <1> QED
    BY <1>13, <1>16 DEF r, m, g, N
(* The last block is enlarged, a used one or a free one.                   *)
LEMMA StretchUsed ==
  ASSUME NEW from, NEW chain, NEW e, NEW B, HeapOK(from, chain, e, B),
         NEW b \in B, Ends(b) = e, NEW n, Fine(n), n >= b.size, b.at + n <= Frame - GAP
  PROVE  /\ HeapOK(from, chain, b.at + n, (B \ {b}) \cup {Block(b.at, n)})
         /\ Block(b.at, n) \notin B \ {b} /\ Block(b.at, n) \in BlockType
  <1> DEFINE S == Range(chain) \cup B
             g == Block(b.at, n)
             C == (B \ {b}) \cup {g}
  <1>1. /\ S \subseteq BlockType /\ b \in S /\ b \in BlockType /\ Fine(b.size)
        /\ b.at \in Nat /\ b.at % SizeT = 0 /\ from <= b.at
    BY HeapBlocks
  <1>2. /\ Tiled(S, from, e) /\ from \in Int /\ e \in Int
        /\ from \in Nat /\ chain \in Seq(BlockType) /\ Chained(chain) /\ Range(chain) \cap B = {}
        /\ B \subseteq BlockType
    BY DEF HeapOK
  <1>3. n \in Int /\ n >= Entry /\ n % SizeT = 0
    BY DEF Fine
  <1>4. /\ g \in BlockType /\ g \notin S \ {b}
        /\ Tiled((S \ {b}) \cup {g}, from, b.at + n)
    <2> HIDE DEF S
    <2> QED
      BY <1>1, <1>2, <1>3, StretchTiles
  <1>5. b.at + n \in Nat /\ from <= b.at + n /\ (b.at + n) % SizeT = 0
    BY <1>1, <1>2, <1>3, SMTT(30) DEF SizeT, Entry
  <1> HIDE DEF g
  <1>6. Range(chain) \cup C = (S \ {b}) \cup {g} /\ Range(chain) \cap C = {}
    BY <1>2, <1>4
  <1>7. C \subseteq BlockType
    BY <1>2, <1>4
  <1> HIDE DEF C
  <1>8. HeapOK(from, chain, b.at + n, C)
    BY <1>2, <1>4, <1>5, <1>6, <1>7 DEF HeapOK
  <1> QED
    BY <1>4, <1>8 DEF g, C

LEMMA StretchFree ==
  ASSUME NEW from, NEW chain, NEW e, NEW B, HeapOK(from, chain, e, B),
         NEW N, N = Len(chain), N \in DOMAIN chain, NEW b, b = chain[N], Ends(b) = e,
         NEW n, Fine(n), n >= b.size, b.at + n <= Frame - GAP
  PROVE  LET r == Relinked(chain, N, N + 1, <<Block(b.at, n)>>)
         IN  /\ HeapOK(from, r, b.at + n, B)
             /\ Len(r) = N /\ r[N] = Block(b.at, n)
  <1> DEFINE S == Range(chain) \cup B
             g == Block(b.at, n)
             m == <<g>>
             k == N + 1
             r == Relinked(chain, N, k, m)
  <1>1. /\ S \subseteq BlockType /\ b \in S /\ b \in BlockType /\ Fine(b.size)
        /\ b.at \in Nat /\ b.at % SizeT = 0 /\ from <= b.at
        /\ b \in Range(chain) /\ b \notin B /\ Len(chain) \in Nat /\ DOMAIN chain = 1 .. Len(chain)
        /\ \A c \in Range(chain) : c.size >= Entry
    BY HeapBlocks DEF Fine
  <1>2. /\ Tiled(S, from, e) /\ from \in Int /\ e \in Int
        /\ from \in Nat /\ chain \in Seq(BlockType) /\ Chained(chain) /\ Range(chain) \cap B = {}
        /\ B \subseteq BlockType
    BY DEF HeapOK
  <1>3. n \in Int /\ n >= Entry /\ n % SizeT = 0
    BY DEF Fine
  <1>4. /\ g \in BlockType /\ g \notin S \ {b}
        /\ Tiled((S \ {b}) \cup {g}, from, b.at + n)
    <2> HIDE DEF S
    <2> QED
      BY <1>1, <1>2, <1>3, StretchTiles
  <1>5. b.at + n \in Nat /\ from <= b.at + n /\ (b.at + n) % SizeT = 0
    BY <1>1, <1>2, <1>3 DEF SizeT, Entry
  <1>6. g.at = b.at
    BY DEF Block
  <1> HIDE DEF g
  <1>7. m \in Seq(BlockType) /\ Len(m) = 1 /\ m[1] = g /\ Chained(m) /\ Range(m) = {g}
    BY <1>4 DEF Chained, Range
  <1>8. Relinks(chain, N, k, m)
    <2>1. N \in Int /\ k \in Int /\ 1 <= N /\ N <= k /\ k <= Len(chain) + 1
      BY <1>1
    <2>2. ASSUME NEW j \in 1 .. (N - 1), NEW l \in 1 .. Len(m)
          PROVE  Ends(chain[j]) < m[l].at
      <3>1. j \in DOMAIN chain /\ j < N
        BY <1>1, <2>1
      <3>2. Ends(chain[j]) < b.at
        BY <3>1, <1>2 DEF Chained
      <3>3. l = 1
        BY <1>7
      <3> QED
        BY <3>2, <3>3, <1>6, <1>7
    <2>3. \A j \in k .. Len(chain) : \A l \in 1 .. Len(m) : Ends(m[l]) < chain[j].at
      BY <1>1, <2>1
    <2>4. Big(chain)
      BY <1>1 DEF Big
    <2> HIDE DEF k, m, S
    <2> QED
      BY <1>2, <1>7, <2>1, <2>2, <2>3, <2>4 DEF Relinks
  <1> HIDE DEF m
  <1>9. /\ r \in Seq(BlockType)
        /\ Chained(r)
        /\ Range(r) = Parts(chain, N, k, m)
    BY <1>8, RelinkedChains, Zenon
  <1>10. /\ r \in Seq(BlockType)
         /\ Len(r) = (N - 1) + Len(m) + (Len(chain) + 1 - k)
         /\ \A j \in 1 .. (N - 1) : r[j] = chain[j]
         /\ \A j \in 1 .. Len(m) : r[N - 1 + j] = m[j]
         /\ \A j \in k .. Len(chain) : r[j - k + N + Len(m)] = chain[j]
    <2>1. chain \in Seq(BlockType) /\ m \in Seq(BlockType)
      BY <1>2, <1>7
    <2>2. N \in Int /\ k \in Int /\ 1 <= N /\ N <= k /\ k <= Len(chain) + 1
      BY <1>1
    <2> HIDE DEF k
    <2> QED
      BY <2>1, <2>2, RelinkedIs, ZenonT(30)
  <1>11. Len(r) = N /\ r[N] = g
    <2> HIDE DEF r
    <2>1. Len(r) = N
      BY <1>1, <1>7, <1>10
    <2>2. r[N - 1 + 1] = m[1] /\ N - 1 + 1 = N
      BY <1>1, <1>7, <1>10
    <2> QED
      BY <2>1, <2>2, <1>7
  <1>12. Range(r) = (Range(chain) \ {b}) \cup {g}
    <2>1. {chain[j] : j \in N .. (k - 1)} = {b}
      BY <1>1
    <2> HIDE DEF r, k
    <2> QED
      BY <2>1, <1>7, <1>9 DEF Parts
  <1> HIDE DEF r
  <1>13. Range(r) \cup B = (S \ {b}) \cup {g} /\ Range(r) \cap B = {}
    BY <1>1, <1>2, <1>4, <1>12
  <1>14. HeapOK(from, r, b.at + n, B)
    BY <1>2, <1>4, <1>5, <1>9, <1>13 DEF HeapOK
  <1> QED
    BY <1>11, <1>14 DEF r, m, g, k
-----------------------------------------------------------------------------
(* free.                                                                   *)

(* The block x takes the place of the blocks of the chain it was joined    *)
(* from and of the used one.                                               *)
LEMMA PutBack ==
  ASSUME NEW from, NEW chain, NEW e, NEW B, NEW block,
         HeapOK(from, chain, e, B \cup {block}), block \notin B,
         NEW i \in Int, NEW k \in Int, 1 <= i, i <= k, k <= Len(chain) + 1,
         NEW R, R = {chain[j] : j \in i .. (k - 1)},
         NEW x \in BlockType,
         \A j \in 1 .. (i - 1) : Ends(chain[j]) < x.at,
         \A j \in k .. Len(chain) : Ends(x) < chain[j].at,
         NEW T, T = (Range(chain) \cup B \cup {block}) \ (R \cup {block}), x \notin T,
         Tiled(T \cup {x}, from, e)
  PROVE  HeapOK(from, Relinked(chain, i, k, <<x>>), e, B)
  <1> DEFINE m == <<x>>
             r == Relinked(chain, i, k, m)
  <1>1. /\ Big(chain) /\ Len(chain) \in Nat
        /\ DOMAIN chain = 1 .. Len(chain)
    BY HeapBlocks DEF Fine, Big
  <1>2. /\ from \in Nat /\ e \in Nat /\ chain \in Seq(BlockType) /\ Chained(chain)
        /\ Range(chain) \cap (B \cup {block}) = {} /\ B \subseteq BlockType
        /\ from <= e /\ e <= Frame - GAP /\ e % SizeT = 0
    BY DEF HeapOK
  <1>3. m \in Seq(BlockType) /\ Len(m) = 1 /\ m[1] = x /\ Chained(m) /\ Range(m) = {x}
    BY DEF Chained, Range
  <1> HIDE DEF m
  <1>4. Relinks(chain, i, k, m)
    <2>1. \A j \in 1 .. (i - 1) : \A l \in 1 .. Len(m) : Ends(chain[j]) < m[l].at
      BY <1>3
    <2>2. \A j \in k .. Len(chain) : \A l \in 1 .. Len(m) : Ends(m[l]) < chain[j].at
      BY <1>3
    <2> QED
      BY <1>1, <1>2, <1>3, <2>1, <2>2 DEF Relinks
  <1>5. /\ r \in Seq(BlockType)
        /\ Chained(r)
        /\ Range(r) = Parts(chain, i, k, m)
    BY <1>4, RelinkedChains, Zenon
  <1> HIDE DEF r
  <1>6. Range(r) = (Range(chain) \ R) \cup {x}
    BY <1>3, <1>5 DEF Parts
  <1>7. R \subseteq Range(chain)
    <2> SUFFICES ASSUME NEW j \in i .. (k - 1) PROVE chain[j] \in Range(chain)
      OBVIOUS
    <2>1. j \in DOMAIN chain
      BY <1>1
    <2> QED
      BY <2>1 DEF Range
  <1>8. Range(r) \cup B = T \cup {x}
    BY <1>2, <1>6, <1>7
  <1>9. Range(r) \cap B = {}
    BY <1>2, <1>6, <1>7
  <1>10. HeapOK(from, r, e, B)
    BY <1>2, <1>5, <1>8, <1>9 DEF HeapOK
  <1> QED
    BY <1>10 DEF r, m

LEMMA FreeKeepsHeap ==
  ASSUME NEW from, NEW chain, NEW e, NEW B, NEW block,
         HeapOK(from, chain, e, B \cup {block}), block \notin B
  PROVE  LET f == free([free |-> chain, end |-> e], block)
         IN  /\ HeapOK(from, f.free, e, B) /\ f.end = e
  <1> DEFINE h == [free |-> chain, end |-> e]
             N == Len(chain)
             i == First(Meets(chain, block) \cup {N + 1})
             b == chain[i]
             d == chain[i + 1]
             S == Range(chain) \cup B \cup {block}
             joins == i < N /\ d.at = Ends(block)
             f == free(h, block)
  <1> SUFFICES HeapOK(from, f.free, e, B) /\ f.end = e
    OBVIOUS
  <1>1. /\ f.end = e
        /\ f.free = IF i > N THEN Relinked(chain, i, i, <<block>>)
                    ELSE IF Ends(b) = block.at
                    THEN IF joins
                         THEN Relinked(chain, i, i + 2, <<Block(b.at, b.size + block.size + d.size)>>)
                         ELSE Relinked(chain, i, i + 1, <<Block(b.at, b.size + block.size)>>)
                    ELSE IF b.at = Ends(block)
                    THEN Relinked(chain, i, i + 1, <<Block(block.at, block.size + b.size)>>)
                    ELSE Relinked(chain, i, i, <<block>>)
    BY DEF free
  <1> HIDE DEF f
  <1>2. /\ from \in Nat /\ e \in Nat /\ chain \in Seq(BlockType) /\ Chained(chain)
        /\ Range(chain) \cap (B \cup {block}) = {}
        /\ Tiled(S, from, e) /\ from \in Int /\ e \in Int
    <2> DEFINE U == Range(chain) \cup (B \cup {block})
    <2>1. U = S
      OBVIOUS
    <2>2. /\ from \in Nat /\ e \in Nat /\ chain \in Seq(BlockType) /\ Chained(chain)
          /\ Range(chain) \cap (B \cup {block}) = {} /\ Tiled(U, from, e)
      BY DEF HeapOK
    <2> HIDE DEF U, S
    <2> QED
      BY <2>1, <2>2
  <1>3. /\ N \in Nat /\ DOMAIN chain = 1 .. N /\ S \subseteq BlockType /\ block \in BlockType
        /\ \A j \in DOMAIN chain : chain[j] \in BlockType /\ chain[j] \in S /\ chain[j] # block
        /\ \A c \in S : Fine(c.size)
    BY HeapBlocks
  <1>4. \A j \in DOMAIN chain : /\ chain[j].at \in Int /\ Ends(chain[j]) \in Int
                                /\ chain[j].at < Ends(chain[j])
                                /\ Behind(chain[j], block) \/ Behind(block, chain[j])
    <2> SUFFICES ASSUME NEW j \in DOMAIN chain
                 PROVE  /\ chain[j].at \in Int /\ Ends(chain[j]) \in Int
                        /\ chain[j].at < Ends(chain[j])
                        /\ Behind(chain[j], block) \/ Behind(block, chain[j])
      OBVIOUS
    <2>1. chain[j] \in BlockType /\ chain[j] \in S /\ chain[j] # block /\ Fine(chain[j].size)
      BY <1>3
    <2>2. Behind(chain[j], block) \/ Behind(block, chain[j])
      BY <2>1, HeapBlocks
    <2> DEFINE c == chain[j]
    <2>3. c \in BlockType /\ Fine(c.size)
      BY <2>1
    <2> HIDE DEF c
    <2>4. c.at \in Int /\ Ends(c) \in Int /\ c.at < Ends(c)
      BY <2>3 DEF Fine, Entry, BlockType, Ends
    <2> QED
      BY <2>2, <2>4 DEF c
  <1>5. block.at \in Int /\ Ends(block) \in Int /\ block.at < Ends(block) /\ Fine(block.size)
    <2>1. Fine(block.size)
      BY <1>3
    <2> QED
      BY <2>1, <1>3 DEF Fine, Entry, BlockType, Ends
  <1>6. \A j \in DOMAIN chain : \A l \in DOMAIN chain : j < l => Ends(chain[j]) < chain[l].at
    BY <1>2 DEF Chained
  <1>7. i \in Meets(chain, block) \cup {N + 1} /\ \A j \in Meets(chain, block) : i <= j
    <2> DEFINE M == Meets(chain, block) \cup {N + 1}
    <2>1. M \subseteq Nat /\ M # {}
      BY <1>3 DEF Meets
    <2> HIDE DEF M
    <2>2. First(M) \in M /\ \A j \in M : First(M) <= j
      BY <2>1, FirstIs
    <2> QED
      BY <2>2 DEF M
  <1> HIDE DEF i, S
  <1>8. i \in 1 .. (N + 1)
    BY <1>3, <1>7 DEF Meets
  <1>9. \A j \in 1 .. (i - 1) : j \in DOMAIN chain /\ Ends(chain[j]) < block.at
    <2> SUFFICES ASSUME NEW j \in 1 .. (i - 1)
                 PROVE  j \in DOMAIN chain /\ Ends(chain[j]) < block.at
      OBVIOUS
    <2>1. j \in DOMAIN chain
      BY <1>3, <1>8
    <2>2. j \notin Meets(chain, block)
      BY <1>7, <1>8
    <2>3. Ends(chain[j]) # block.at /\ ~(chain[j].at > block.at)
      BY <2>1, <2>2 DEF Meets
    <2> DEFINE c == chain[j]
    <2>4. /\ Ends(c) # block.at /\ ~(c.at > block.at) /\ c.at \in Int /\ Ends(c) \in Int
          /\ c.at < Ends(c) /\ (Behind(c, block) \/ Behind(block, c))
      BY <2>1, <2>3, <1>4
    <2> HIDE DEF c
    <2>5. Ends(c) < block.at
      BY <2>4, <1>5 DEF Behind
    <2> QED
      BY <2>1, <2>5 DEF c
  <1>10. CASE i > N
    <2>1. \A j \in i .. Len(chain) : Ends(block) < chain[j].at
      BY <1>3, <1>8, <1>10
    <2> DEFINE T == (Range(chain) \cup B \cup {block}) \ ({chain[j] : j \in i .. (i - 1)} \cup {block})
    <2>2. {chain[j] : j \in i .. (i - 1)} = {}
      BY <1>8
    <2>3. T \cup {block} = S
      BY <2>2 DEF S
    <2>4. HeapOK(from, Relinked(chain, i, i, <<block>>), e, B)
      <3>1. Tiled(T \cup {block}, from, e) /\ block \notin T
        BY <2>3, <1>2
      <3>2. i \in Int /\ 1 <= i /\ i <= i /\ i <= Len(chain) + 1
        BY <1>3, <1>8
      <3>3. \A j \in 1 .. (i - 1) : Ends(chain[j]) < block.at
        BY <1>9
      <3> HIDE DEF T
      <3> QED
        BY <1>3, <2>1, <3>1, <3>2, <3>3, PutBack DEF T
    <2> QED
      BY <2>4, <1>1, <1>10
  <1>11. ASSUME i <= N
         PROVE  /\ i \in DOMAIN chain /\ b \in BlockType /\ b \in S /\ b # block
                /\ \A j \in (i + 1) .. N : j \in DOMAIN chain /\ Ends(b) < chain[j].at
    <2>1. i \in DOMAIN chain
      BY <1>3, <1>8, <1>11
    <2>2. \A j \in (i + 1) .. N : j \in DOMAIN chain /\ i < j
      BY <1>3, <1>8
    <2> QED
      BY <2>1, <2>2, <1>3, <1>6
  <1>12. CASE i <= N /\ Ends(b) = block.at /\ joins
    <2> DEFINE y == Block(b.at, b.size + block.size)
               x == Block(b.at, b.size + block.size + d.size)
               R == {chain[j] : j \in i .. ((i + 2) - 1)}
               T == (Range(chain) \cup B \cup {block}) \ (R \cup {block})
    <2>1. i \in DOMAIN chain /\ i + 1 \in DOMAIN chain /\ i < i + 1 /\ i \in Int
      BY <1>3, <1>8, <1>12
    <2>2. b \in S /\ block \in S /\ d \in S /\ d # b /\ d # block /\ b # block
      <3>1. b \in S /\ d \in S /\ d # block /\ b # block
        BY <2>1, <1>3
      <3>2. Ends(b) < d.at /\ b.at < Ends(b) /\ b.at \in Int /\ d.at \in Int /\ Ends(b) \in Int
        BY <2>1, <1>4, <1>6
      <3> QED
        BY <3>1, <3>2 DEF S
    <2>3. /\ y \in BlockType \ S
          /\ Tiled((S \ {b, block}) \cup {y}, from, e)
      BY <1>2, <1>3, <1>12, <2>2, JoinTiles
    <2> DEFINE S1 == (S \ {b, block}) \cup {y}
    <2>4. S1 \subseteq BlockType /\ y \in S1 /\ d \in S1 /\ y # d
      BY <1>3, <2>2, <2>3
    <2>5. /\ y.at = b.at /\ y.size = b.size + block.size
          /\ x = Block(y.at, y.size + d.size)
      BY DEF Block
    <2>6. /\ b.at \in Int /\ b.size \in Int /\ block.at \in Int /\ block.size \in Int
          /\ d.at \in Int /\ d.size \in Int
      <3>1. b \in BlockType /\ d \in BlockType /\ block \in BlockType
        BY <1>3, <2>2
      <3> HIDE DEF b, d
      <3> QED
        BY <3>1 DEF BlockType
    <2>7. x.at = b.at /\ x.size = b.size + block.size + d.size
      BY DEF Block
    <2>8. d.at = Ends(y)
      <3>1. d.at = Ends(block) /\ Ends(b) = block.at
        BY <1>12
      <3> HIDE DEF b, d, y
      <3> QED
        BY <3>1, <2>5, <2>6 DEF Ends
    <2>9. /\ x \in BlockType \ S1
          /\ Tiled((S1 \ {y, d}) \cup {x}, from, e)
      <3>1. Tiled(S1, from, e) /\ S1 \subseteq BlockType
        BY <2>3, <2>4
      <3>2. from \in Int /\ e \in Int
        BY <1>2
      <3> HIDE DEF S1, x, y, d
      <3> QED
        BY <3>1, <3>2, <2>4, <2>5, <2>8, JoinTiles
    <2>10. R = {b, d}
      <3>1. i .. ((i + 2) - 1) = {i, i + 1}
        BY <2>1
      <3> QED
        BY <3>1
    <2>11. T \cup {x} = (S1 \ {y, d}) \cup {x} /\ x \notin T
      <3> HIDE DEF x, y, R, b, d
      <3> QED
        BY <2>2, <2>3, <2>9, <2>10 DEF S
    <2>12. \A j \in 1 .. (i - 1) : Ends(chain[j]) < x.at
      <3> SUFFICES ASSUME NEW j \in 1 .. (i - 1) PROVE Ends(chain[j]) < x.at
        OBVIOUS
      <3>1. j \in DOMAIN chain /\ j < i
        BY <1>9, <2>1
      <3> QED
        BY <3>1, <2>1, <2>7, <1>6
    <2>13. \A j \in (i + 2) .. Len(chain) : Ends(x) < chain[j].at
      <3> SUFFICES ASSUME NEW j \in (i + 2) .. Len(chain) PROVE Ends(x) < chain[j].at
        OBVIOUS
      <3>1. j \in DOMAIN chain /\ i + 1 < j
        BY <1>3, <2>1
      <3>2. Ends(d) < chain[j].at
        BY <3>1, <2>1, <1>6
      <3>3. d.at = Ends(block) /\ Ends(b) = block.at
        BY <1>12
      <3>4. Ends(x) = Ends(d)
        <4> HIDE DEF b, d, x
        <4> QED
          BY <3>3, <2>6, <2>7, SMTT(30) DEF Ends
      <3> QED
        BY <3>2, <3>4
    <2>14. i \in Int /\ i + 2 \in Int /\ 1 <= i /\ i <= i + 2 /\ i + 2 <= Len(chain) + 1
      BY <1>3, <2>1
    <2>15. HeapOK(from, Relinked(chain, i, i + 2, <<x>>), e, B)
      <3> HIDE DEF x, T, R
      <3> QED
        BY <2>9, <2>11, <2>12, <2>13, <2>14, PutBack DEF R, T
    <2> QED
      BY <2>15, <1>1, <1>3, <1>8, <1>12
  <1>13. CASE i <= N /\ Ends(b) = block.at /\ ~joins
    <2> DEFINE x == Block(b.at, b.size + block.size)
               R == {chain[j] : j \in i .. ((i + 1) - 1)}
               T == (Range(chain) \cup B \cup {block}) \ (R \cup {block})
    <2>1. i \in DOMAIN chain /\ i \in Int /\ b \in BlockType /\ b \in S /\ b # block /\ block \in S
      BY <1>3, <1>8, <1>11, <1>13 DEF S
    <2>2. /\ x \in BlockType \ S
          /\ Tiled((S \ {b, block}) \cup {x}, from, e)
      BY <1>2, <1>3, <1>13, <2>1, JoinTiles
    <2>3. x.at = b.at /\ x.size = b.size + block.size
      BY DEF Block
    <2>4. R = {b}
      BY <2>1
    <2>5. T \cup {x} = (S \ {b, block}) \cup {x} /\ x \notin T
      <3> HIDE DEF x, R, b
      <3> QED
        BY <2>2, <2>4 DEF S
    <2>6. \A j \in 1 .. (i - 1) : Ends(chain[j]) < x.at
      <3> SUFFICES ASSUME NEW j \in 1 .. (i - 1) PROVE Ends(chain[j]) < x.at
        OBVIOUS
      <3>1. j \in DOMAIN chain /\ j < i
        BY <1>9, <2>1
      <3> QED
        BY <3>1, <2>1, <2>3, <1>6
    <2>7. Ends(x) = Ends(block)
      <3>1. b \in BlockType /\ block \in BlockType /\ Ends(b) = block.at
        BY <1>3, <1>13, <2>1
      <3> HIDE DEF b, x
      <3> QED
        BY <3>1, <2>3 DEF Ends, BlockType
    <2>8. \A j \in (i + 1) .. Len(chain) : Ends(x) < chain[j].at
      <3> SUFFICES ASSUME NEW j \in (i + 1) .. Len(chain) PROVE Ends(block) < chain[j].at
        BY <2>7
      <3>1. \A l \in (i + 1) .. N : l \in DOMAIN chain /\ Ends(block) <= chain[l].at
        <4> SUFFICES ASSUME NEW l \in (i + 1) .. N
                     PROVE  l \in DOMAIN chain /\ Ends(block) <= chain[l].at
          OBVIOUS
        <4>1. l \in DOMAIN chain /\ Ends(b) < chain[l].at
          BY <1>11, <1>13
        <4> DEFINE c == chain[l]
        <4>2. block.at < c.at /\ c.at < Ends(c) /\ c.at \in Int /\ Ends(c) \in Int
              /\ (Behind(c, block) \/ Behind(block, c))
          BY <4>1, <1>4, <1>13
        <4> HIDE DEF c
        <4>3. Ends(block) <= c.at
          BY <4>2, <1>5 DEF Behind
        <4> QED
          BY <4>1, <4>3 DEF c
      <3>2. j \in (i + 1) .. N /\ i + 1 \in (i + 1) .. N /\ i < N
        BY <1>3, <1>8
      <3>3. i + 1 \in DOMAIN chain /\ Ends(block) <= d.at /\ d.at # Ends(block)
        BY <3>1, <3>2, <1>13
      <3>4. d.at \in Int /\ Ends(d) \in Int /\ d.at < Ends(d)
        BY <3>3, <1>4
      <3>5. CASE j = i + 1
        BY <3>3, <3>4, <3>5, <1>5
      <3>6. CASE j # i + 1
        <4>1. j \in DOMAIN chain /\ i + 1 < j
          BY <3>1, <3>2, <3>6, <1>8
        <4>2. Ends(d) < chain[j].at /\ chain[j].at \in Int
          BY <4>1, <3>3, <1>4, <1>6
        <4> DEFINE c == chain[j].at
        <4>3. Ends(d) < c /\ c \in Int
          BY <4>2
        <4> HIDE DEF c, d
        <4>4. Ends(block) < c
          BY <4>3, <3>3, <3>4, <1>5
        <4> QED
          BY <4>4 DEF c
      <3> QED
        BY <3>5, <3>6
    <2>9. i \in Int /\ i + 1 \in Int /\ 1 <= i /\ i <= i + 1 /\ i + 1 <= Len(chain) + 1
      BY <1>3, <2>1
    <2>10. HeapOK(from, Relinked(chain, i, i + 1, <<x>>), e, B)
      <3> HIDE DEF x, T, R
      <3> QED
        BY <2>2, <2>5, <2>6, <2>8, <2>9, PutBack DEF R, T
    <2> QED
      BY <2>10, <1>1, <1>3, <1>8, <1>13
  <1>14. CASE i <= N /\ Ends(b) # block.at /\ b.at = Ends(block)
    <2> DEFINE x == Block(block.at, block.size + b.size)
               R == {chain[j] : j \in i .. ((i + 1) - 1)}
               T == (Range(chain) \cup B \cup {block}) \ (R \cup {block})
    <2>1. i \in DOMAIN chain /\ i \in Int /\ b \in BlockType /\ b \in S /\ b # block /\ block \in S
      BY <1>3, <1>8, <1>11, <1>14 DEF S
    <2>2. /\ x \in BlockType \ S
          /\ Tiled((S \ {block, b}) \cup {x}, from, e)
      BY <1>2, <1>3, <1>14, <2>1, JoinTiles
    <2>3. x.at = block.at /\ x.size = block.size + b.size
      BY DEF Block
    <2>4. R = {b}
      BY <2>1
    <2>5. T \cup {x} = (S \ {block, b}) \cup {x} /\ x \notin T
      <3> HIDE DEF x, R, b
      <3> QED
        BY <2>2, <2>4 DEF S
    <2>6. \A j \in 1 .. (i - 1) : Ends(chain[j]) < x.at
      BY <1>9, <2>3
    <2>7. Ends(x) = Ends(b)
      <3>1. b \in BlockType /\ block \in BlockType /\ b.at = Ends(block)
        BY <1>3, <1>14, <2>1
      <3> HIDE DEF b, x
      <3> QED
        BY <3>1, <2>3 DEF Ends, BlockType
    <2>8. \A j \in (i + 1) .. Len(chain) : Ends(x) < chain[j].at
      BY <2>7, <1>11, <1>14
    <2>9. i \in Int /\ i + 1 \in Int /\ 1 <= i /\ i <= i + 1 /\ i + 1 <= Len(chain) + 1
      BY <1>3, <2>1
    <2>10. HeapOK(from, Relinked(chain, i, i + 1, <<x>>), e, B)
      <3> HIDE DEF x, T, R
      <3> QED
        BY <2>2, <2>5, <2>6, <2>8, <2>9, PutBack DEF R, T
    <2> QED
      BY <2>10, <1>1, <1>3, <1>8, <1>14
  <1>15. CASE i <= N /\ Ends(b) # block.at /\ b.at # Ends(block)
    <2> DEFINE T == (Range(chain) \cup B \cup {block}) \ ({chain[j] : j \in i .. (i - 1)} \cup {block})
    <2>1. {chain[j] : j \in i .. (i - 1)} = {}
      BY <1>8
    <2>2. T \cup {block} = S
      BY <2>1 DEF S
    <2>3. i \in DOMAIN chain
      BY <1>11, <1>15
    <2>4. block.at < b.at
      <3>1. i \in Meets(chain, block)
        BY <1>3, <1>7, <1>15
      <3> QED
        BY <3>1, <1>15 DEF Meets
    <2>5. Ends(block) < b.at
      <3>1. /\ b.at \in Int /\ Ends(b) \in Int /\ b.at < Ends(b)
            /\ Behind(b, block) \/ Behind(block, b)
        BY <2>3, <1>4
      <3> HIDE DEF b
      <3> QED
        BY <3>1, <2>4, <1>5, <1>15 DEF Behind
    <2>6. \A j \in i .. Len(chain) : Ends(block) < chain[j].at
      <3> SUFFICES ASSUME NEW j \in i .. Len(chain) PROVE Ends(block) < chain[j].at
        OBVIOUS
      <3>1. CASE j = i
        BY <3>1, <2>5
      <3>2. CASE j # i
        <4>1. j \in DOMAIN chain /\ i < j
          BY <3>2, <1>3, <1>8
        <4>2. Ends(b) < chain[j].at /\ chain[j].at \in Int /\ b.at \in Int /\ Ends(b) \in Int
              /\ b.at < Ends(b)
          BY <4>1, <2>3, <1>4, <1>6
        <4> DEFINE c == chain[j].at
        <4>3. Ends(b) < c /\ c \in Int
          BY <4>2
        <4> HIDE DEF b, c
        <4>4. Ends(block) < c
          BY <4>2, <4>3, <2>5, <1>5
        <4> QED
          BY <4>4 DEF c
      <3> QED
        BY <3>1, <3>2
    <2>7. HeapOK(from, Relinked(chain, i, i, <<block>>), e, B)
      <3>1. Tiled(T \cup {block}, from, e) /\ block \notin T
        BY <2>2, <1>2
      <3>2. i \in Int /\ 1 <= i /\ i <= i /\ i <= Len(chain) + 1
        BY <1>3, <1>8
      <3>3. \A j \in 1 .. (i - 1) : Ends(chain[j]) < block.at
        BY <1>9
      <3> HIDE DEF T
      <3> QED
        BY <1>3, <2>6, <3>1, <3>2, <3>3, PutBack DEF T
    <2> QED
      BY <2>7, <1>1, <1>3, <1>8, <1>15
  <1>16. i > N \/ i <= N
    BY <1>3, <1>8
  <1> HIDE DEF b, d, h, N, joins
  <1> QED
    BY <1>10, <1>12, <1>13, <1>14, <1>15, <1>16
-----------------------------------------------------------------------------
(* malloc.                                                                 *)

(* A block b is cut in a free front of p bytes, n bytes to use and a free  *)
(* back of q bytes: m is what stays on the chain.                          *)
Stays(b, p, n, q, m) ==
  \/ p = 0 /\ q = 0 /\ m = <<>>
  \/ p = 0 /\ Fine(q) /\ m = <<Block(b.at + n, q)>>
  \/ Fine(p) /\ q = 0 /\ m = <<Block(b.at, p)>>
  \/ Fine(p) /\ Fine(q) /\ m = <<Block(b.at, p), Block(b.at + p + n, q)>>

LEMMA CutTiles ==
  ASSUME NEW b \in BlockType, b.at % SizeT = 0, NEW p \in Int, NEW n \in Int, NEW q \in Int,
         Fine(n), p + n + q = b.size, NEW m, Stays(b, p, n, q, m)
  PROVE  LET g == Block(b.at + p, n)
         IN  /\ m \in Seq(BlockType) /\ Chained(m) /\ g \in BlockType /\ g \notin Range(m)
             /\ Tiled(Range(m) \cup {g}, b.at, Ends(b))
  <1> USE DEF Fine, Entry, SizeT
  <1> DEFINE g == Block(b.at + p, n)
             u == Block(b.at, p)
             v == Block(b.at + p + n, q)
             w == Block(b.at + n, q)
             a == b.at
  <1>1. a \in Int /\ a % 8 = 0 /\ Ends(b) = a + p + n + q
    BY BlockInts
  <1>2. /\ g \in BlockType /\ g.at = a + p /\ g.size = n /\ Ends(g) = a + p + n
        /\ u \in BlockType /\ u.at = a /\ u.size = p /\ Ends(u) = a + p
        /\ v \in BlockType /\ v.at = a + p + n /\ v.size = q /\ Ends(v) = a + p + n + q
        /\ w \in BlockType /\ w.at = a + n /\ w.size = q /\ Ends(w) = a + n + q
    BY <1>1 DEF Block, BlockType, Ends
  <1> HIDE DEF g, u, v, w, a
  <1>3. CASE p = 0 /\ q = 0 /\ m = <<>>
    <2>1. m \in Seq(BlockType) /\ Chained(m) /\ Range(m) = {}
      BY <1>3 DEF Chained, Range
    <2>2. Tiled({g}, a, Ends(b))
      BY <1>1, <1>2, <1>3 DEF Tiled
    <2>3. Range(m) \cup {g} = {g}
      BY <2>1
    <2> QED
      BY <1>2, <2>1, <2>2, <2>3 DEF g, a
  <1>4. CASE p = 0 /\ Fine(q) /\ m = <<w>>
    <2>1. m \in Seq(BlockType) /\ Chained(m) /\ Range(m) = {w}
      BY <1>2, <1>4 DEF Chained, Range
    <2>2. g # w
      BY <1>1, <1>2, <1>4
    <2>3. Tiled({w, g}, a, Ends(b))
      BY <1>1, <1>2, <1>4 DEF Tiled, Behind
    <2>4. Range(m) \cup {g} = {w, g}
      BY <2>1
    <2> QED
      BY <1>2, <2>1, <2>2, <2>3, <2>4 DEF g, a
  <1>5. CASE Fine(p) /\ q = 0 /\ m = <<u>>
    <2>1. m \in Seq(BlockType) /\ Chained(m) /\ Range(m) = {u}
      BY <1>2, <1>5 DEF Chained, Range
    <2>2. g # u
      BY <1>1, <1>2, <1>5
    <2>3. Tiled({u, g}, a, Ends(b))
      BY <1>1, <1>2, <1>5 DEF Tiled, Behind
    <2>4. Range(m) \cup {g} = {u, g}
      BY <2>1
    <2> QED
      BY <1>2, <2>1, <2>2, <2>3, <2>4 DEF g, a
  <1>6. CASE Fine(p) /\ Fine(q) /\ m = <<u, v>>
    <2>1. m \in Seq(BlockType) /\ Range(m) = {u, v}
      BY <1>2, <1>6 DEF Range
    <2>2. Chained(m)
      <3>1. DOMAIN m = {1, 2} /\ m[1] = u /\ m[2] = v
        BY <1>6
      <3>2. Ends(u) < v.at
        BY <1>1, <1>2
      <3> QED
        BY <3>1, <3>2 DEF Chained
    <2>3. g # u /\ g # v
      BY <1>1, <1>2, <1>6
    <2>4. Tiled({u, v, g}, a, Ends(b))
      <3>1. \A c \in {u, v, g} : /\ a <= c.at /\ Ends(c) <= Ends(b)
                                 /\ c.at % SizeT = 0 /\ c.size % SizeT = 0 /\ c.size >= Entry
        BY <1>1, <1>2, <1>6
      <3>2. \A c, d \in {u, v, g} : c # d => Behind(c, d) \/ Behind(d, c)
        BY <1>1, <1>2, <1>6 DEF Behind
      <3> QED
        BY <3>1, <3>2, <1>1, <1>2 DEF Tiled
    <2>5. Range(m) \cup {g} = {u, v, g}
      BY <2>1
    <2> QED
      BY <1>2, <2>1, <2>2, <2>3, <2>4, <2>5 DEF g, a
  <1> QED
    BY <1>3, <1>4, <1>5, <1>6 DEF Stays, u, v, w, a

(* What an allocation of n bytes with an alignment leaves behind.          *)
Allots(from, B, r, n, align) ==
  IF r.block = NULL
  THEN HeapOK(from, r.free, r.end, B)
  ELSE /\ HeapOK(from, r.free, r.end, B \cup {r.block})
       /\ r.block \in BlockType /\ r.block \notin B
       /\ r.block.size >= n /\ (r.block.at + SizeT) % align = 0

LEMMA GivesIs ==
  ASSUME NEW chain, NEW e, NEW g
  PROVE  Gives(chain, e, g).free = chain /\ Gives(chain, e, g).end = e /\ Gives(chain, e, g).block = g
  BY DEF Gives

LEMMA NotNull ==
  ASSUME NEW g \in BlockType, Fine(g.size)
  PROVE  g # NULL
  BY DEF NULL, Block, Fine, Entry

LEMMA RealSize ==
  ASSUME NEW sz \in Nat
  PROVE  Fine(REAL_SIZE(sz)) /\ REAL_SIZE(sz) >= sz + SizeT
  <1>1. M_ALIGN(sz, 8) \in Nat /\ (sz + M_ALIGN(sz, 8)) % 8 = 0
    BY AlignUp
  <1> QED
    BY <1>1 DEF REAL_SIZE, Fine, Entry, SizeT

LEMMA Room ==
  ASSUME NEW e \in Nat, e <= Frame - GAP, Frame \in Nat, Word \in Nat, Frame < Word,
         NEW required \in Int
  PROVE  CAN_ALLOC_P(e, required) <=> e + required <= Frame - GAP
  <1>1. Frame - e - GAP \in Nat /\ Frame - e - GAP < Word
    BY DEF GAP
  <1>2. (Frame - e - GAP) % Word = Frame - e - GAP
    BY <1>1, ModSame
  <1> QED
    BY <1>2 DEF CAN_ALLOC_P, GAP

(* A free block in which what is asked for fits.                           *)
Carves(chain, i, p, n, q, m, g) ==
  /\ i \in DOMAIN chain /\ p \in Int /\ n \in Int /\ q \in Int /\ Fine(n)
  /\ p + n + q = chain[i].size
  /\ Stays(chain[i], p, n, q, m) /\ g = Block(chain[i].at + p, n)

LEMMA CarveUp ==
  ASSUME NEW from, NEW chain, NEW e, NEW B, HeapOK(from, chain, e, B),
         NEW i, NEW p, NEW n, NEW q, NEW m, NEW g, Carves(chain, i, p, n, q, m, g)
  PROVE  /\ HeapOK(from, Relinked(chain, i, i + 1, m), e, B \cup {g})
         /\ g \in BlockType
         /\ g \notin B
  <1> DEFINE b == chain[i]
  <1>0. /\ i \in DOMAIN chain /\ p \in Int /\ n \in Int /\ q \in Int /\ Fine(n) /\ p + n + q = b.size
        /\ Stays(b, p, n, q, m) /\ g = Block(b.at + p, n)
    BY DEF Carves
  <1>1. b \in BlockType /\ b.at % SizeT = 0
    BY <1>0, HeapBlocks
  <1>2. /\ m \in Seq(BlockType) /\ Chained(m) /\ g \in BlockType /\ g \notin Range(m)
        /\ Tiled(Range(m) \cup {g}, b.at, Ends(b))
    <2> HIDE DEF b
    <2> QED
      BY <1>0, <1>1, CutTiles
  <1>3. /\ HeapOK(from, Relinked(chain, i, i + 1, m), e, B \cup {g})
        /\ g \notin B
    <2>1. i \in DOMAIN chain
      BY <1>0
    <2> QED
      BY <1>2, <2>1, Carve, Zenon
  <1> QED
    BY <1>2, <1>3

LEMMA Allotted ==
  ASSUME NEW from, NEW B, NEW r, NEW n, NEW align, NEW g, g = r.block,
         HeapOK(from, r.free, r.end, B \cup {g}), g \in BlockType, g \notin B,
         Fine(g.size), g.size >= n, (g.at + SizeT) % align = 0
  PROVE  Allots(from, B, r, n, align) /\ r.block # NULL
  <1>1. g # NULL
    BY NotNull
  <1> QED
    BY <1>1 DEF Allots

LEMMA SplitKeeps ==
  ASSUME NEW from, NEW h, NEW B, HeapOK(from, h.free, h.end, B),
         NEW real, Fine(real), NEW i \in DOMAIN h.free, h.free[i].size >= real
  PROVE  Allots(from, B, Split(h, i, real), real, SizeT) /\ Split(h, i, real).block # NULL
  <1> DEFINE chain == h.free
             b == chain[i]
             g == Block(b.at + 0, real)
             r == Split(h, i, real)
  <1>1. b \in BlockType /\ b.at % SizeT = 0 /\ b.at \in Int /\ b.size \in Int /\ Fine(b.size)
    BY HeapBlocks, BlockInts
  <1>2. real \in Int /\ real >= 16 /\ real % 8 = 0 /\ b.size % 8 = 0 /\ b.size >= real
    BY <1>1 DEF Fine, Entry, SizeT
  <1>i. b.at \in Int /\ b.size \in Int /\ real \in Int /\ real >= 16 /\ b.size >= real
    BY <1>1, <1>2
  <1>3. (b.at + SizeT) % SizeT = 0
    BY <1>1 DEF SizeT
  <1>4. CASE b.size < real + Entry
    <2>1. r = Gives(Relinked(chain, i, i + 1, <<>>), h.end, b)
      BY <1>4 DEF Split
    <2>2. Block(b.at + 0, b.size) = b
      <3>1. b = [at |-> b.at, size |-> b.size] /\ b.at + 0 = b.at
        BY <1>1 DEF BlockType
      <3> QED
        BY <3>1 DEF Block
    <2>3. Carves(chain, i, 0, b.size, 0, <<>>, b)
      <3>1. 0 + b.size + 0 = b.size
        BY <1>1
      <3> QED
        BY <1>1, <2>2, <3>1 DEF Carves, Stays
    <2> HIDE DEF b, chain, r
    <2>4. /\ HeapOK(from, Relinked(chain, i, i + 1, <<>>), h.end, B \cup {b})
          /\ b \in BlockType
          /\ b \notin B
      <3>1. HeapOK(from, chain, h.end, B)
        BY DEF chain
      <3> QED
        BY <2>3, <3>1, CarveUp, Zenon
    <2>5. r.free = Relinked(chain, i, i + 1, <<>>) /\ r.end = h.end /\ r.block = b
      BY <2>1, GivesIs
    <2>6. HeapOK(from, r.free, r.end, B \cup {b})
      BY <2>4, <2>5
    <2>7. Allots(from, B, r, real, SizeT) /\ r.block # NULL
      BY <1>1, <1>2, <1>3, <2>4, <2>5, <2>6, Allotted
    <2> QED
      BY <2>7 DEF r
  <1>5. CASE ~(b.size < real + Entry)
    <2> DEFINE q == b.size - real
               m == <<Block(b.at + real, q)>>
    <2>1. r = Gives(Relinked(chain, i, i + 1, m), h.end, Block(b.at, real))
      BY <1>5 DEF Split
    <2>2. q \in Int /\ q >= 16 /\ 0 + real + q = b.size /\ b.at + 0 = b.at
      <3> HIDE DEF b
      <3> QED
        BY <1>i, <1>5 DEF Entry
    <2>3. q % 8 = 0
      <3> DEFINE s == b.size
      <3>1. s \in Int /\ s % 8 = 0 /\ real \in Int /\ real % 8 = 0
        BY <1>1, <1>2
      <3> HIDE DEF s
      <3> QED
        BY <3>1 DEF s
    <2>4. Carves(chain, i, 0, real, q, m, g)
      <3> HIDE DEF q
      <3>1. Fine(q) /\ 0 \in Int
        BY <2>2, <2>3 DEF Fine, Entry, SizeT
      <3> QED
        BY <1>2, <2>2, <3>1 DEF Carves, Stays
    <2>5. g.at = b.at /\ g.size = real
      BY <2>2 DEF Block
    <2>6. r = Gives(Relinked(chain, i, i + 1, m), h.end, g)
      BY <2>1, <2>2
    <2> HIDE DEF b, chain, r, m, q, g
    <2>7. /\ HeapOK(from, Relinked(chain, i, i + 1, m), h.end, B \cup {g})
          /\ g \in BlockType
          /\ g \notin B
      <3>1. HeapOK(from, chain, h.end, B)
        BY DEF chain
      <3> QED
        BY <2>4, <3>1, CarveUp, Zenon
    <2>8. r.free = Relinked(chain, i, i + 1, m) /\ r.end = h.end /\ r.block = g
      BY <2>6, GivesIs
    <2>9. HeapOK(from, r.free, r.end, B \cup {g})
      BY <2>7, <2>8
    <2>10. Allots(from, B, r, real, SizeT) /\ r.block # NULL
      <3>1. Fine(g.size) /\ g.size >= real /\ (g.at + SizeT) % SizeT = 0
        BY <1>i, <1>3, <2>5
      <3> QED
        BY <2>7, <2>8, <2>9, <3>1, Allotted, Zenon
    <2> QED
      BY <2>10 DEF r
  <1> QED
    BY <1>4, <1>5

(* The last block, when it ends the heap.                                  *)
LEMMA LastIs ==
  ASSUME NEW from, NEW h, NEW B, HeapOK(from, h.free, h.end, B), EndsHeap(h)
  PROVE  /\ Len(h.free) \in DOMAIN h.free /\ Last(h.free) = h.free[Len(h.free)]
         /\ Ends(Last(h.free)) = h.end
         /\ Last(h.free) \in BlockType /\ Fine(Last(h.free).size)
         /\ Last(h.free).at \in Nat /\ Last(h.free).at % SizeT = 0
         /\ Last(h.free) \in Range(h.free)
  <1>1. h.free # <<>> /\ h.free \in Seq(BlockType)
    BY DEF EndsHeap, HeapOK
  <1>2. Len(h.free) \in DOMAIN h.free
    BY <1>1
  <1>3. Last(h.free) = h.free[Len(h.free)]
    BY DEF Last
  <1>4. Last(h.free) \in Range(h.free)
    BY <1>2, <1>3 DEF Range
  <1>5. Ends(Last(h.free)) = h.end
    BY DEF EndsHeap, Ends
  <1> QED
    BY <1>2, <1>3, <1>4, <1>5, HeapBlocks

LEMMA EnlargeKeeps ==
  ASSUME NEW from, NEW h, NEW B, HeapOK(from, h.free, h.end, B), EndsHeap(h),
         Frame \in Nat, Word \in Nat, Frame < Word,
         NEW real, Fine(real), Last(h.free).size < real
  PROVE  /\ Allots(from, B, Enlarge(h, real), real, SizeT)
         /\ Enlarge(h, real).block = NULL => Last(h.free).at + real > Frame - GAP
  <1> DEFINE chain == h.free
             N == Len(chain)
             b == Last(h.free)
             g == Block(b.at, real)
             r == Enlarge(h, real)
  <1>1. /\ N \in DOMAIN chain /\ b = chain[N] /\ Ends(b) = h.end
        /\ b \in BlockType /\ Fine(b.size) /\ b.at \in Nat /\ b.at % SizeT = 0
        /\ h.end \in Nat /\ h.end <= Frame - GAP
    BY LastIs DEF HeapOK
  <1>2. real \in Int /\ real >= 16 /\ b.size \in Int /\ h.end = b.at + b.size
    BY <1>1 DEF Fine, Entry, Ends
  <1>3. CAN_ALLOC_P(h.end, real - b.size) <=> b.at + real <= Frame - GAP
    <2>1. real - b.size \in Int
      BY <1>2
    <2>2. CAN_ALLOC_P(h.end, real - b.size) <=> h.end + (real - b.size) <= Frame - GAP
      BY <1>1, <2>1, Room
    <2>3. h.end + (real - b.size) = b.at + real
      BY <1>1, <1>2, SMTT(30)
    <2> QED
      BY <2>2, <2>3
  <1>4. CASE CAN_ALLOC_P(h.end, real - b.size)
    <2>1. r = Gives(Relinked(chain, N, N + 1, <<>>), b.at + real, g)
      BY <1>4 DEF Enlarge
    <2>2. Block(b.at + 0, b.size) = b
      <3>1. b = [at |-> b.at, size |-> b.size] /\ b.at + 0 = b.at
        BY <1>1 DEF BlockType
      <3> QED
        BY <3>1 DEF Block
    <2>3. Carves(chain, N, 0, b.size, 0, <<>>, b)
      <3>1. 0 + b.size + 0 = b.size
        BY <1>2
      <3> HIDE DEF b, chain, N
      <3> QED
        BY <1>1, <1>2, <2>2, <3>1 DEF Carves, Stays
    <2> HIDE DEF b, chain, r, N
    <2>5. /\ HeapOK(from, Relinked(chain, N, N + 1, <<>>), h.end, B \cup {b})
          /\ b \in BlockType
          /\ b \notin B
      <3>1. HeapOK(from, chain, h.end, B)
        BY DEF chain
      <3> QED
        BY <2>3, <3>1, CarveUp, Zenon
    <2> DEFINE x == Relinked(chain, N, N + 1, <<>>)
               C == B \cup {b}
    <2> HIDE DEF x
    <2>6. /\ HeapOK(from, x, b.at + real, (C \ {b}) \cup {g})
          /\ g \notin C \ {b} /\ g \in BlockType
      <3>1. HeapOK(from, x, h.end, C) /\ b \in C /\ Ends(b) = h.end /\ real >= b.size
            /\ b.at + real <= Frame - GAP
        BY <1>1, <1>2, <1>3, <1>4, <2>5 DEF x, b
      <3> HIDE DEF C, g
      <3> QED
        BY <3>1, StretchUsed DEF g
    <2>7. C \ {b} = B
      BY <2>5
    <2>8. g.at = b.at /\ g.size = real
      BY DEF Block
    <2>9. (b.at + SizeT) % SizeT = 0
      BY <1>1 DEF SizeT
    <2>10. r.free = x /\ r.end = b.at + real /\ r.block = g
      BY <2>1, GivesIs DEF x
    <2> HIDE DEF g, C
    <2>11. HeapOK(from, r.free, r.end, B \cup {g}) /\ g \notin B
      BY <2>6, <2>7, <2>10
    <2>12. Allots(from, B, r, real, SizeT) /\ r.block # NULL
      <3>1. Fine(g.size) /\ g.size >= real /\ (g.at + SizeT) % SizeT = 0
        BY <1>2, <2>8, <2>9
      <3> QED
        BY <2>6, <2>10, <2>11, <3>1, Allotted, Zenon
    <2> QED
      BY <2>12 DEF r
  <1>5. CASE ~CAN_ALLOC_P(h.end, real - b.size)
    <2>1. r = Gives(h.free, h.end, NULL)
      BY <1>5 DEF Enlarge, Fails
    <2>2. Allots(from, B, r, real, SizeT)
      BY <2>1, GivesIs DEF Allots
    <2>3. b.at + real > Frame - GAP
      BY <1>1, <1>2, <1>3, <1>5 DEF GAP
    <2> QED
      BY <2>2, <2>3
  <1> QED
    BY <1>4, <1>5

LEMMA FreshKeeps ==
  ASSUME NEW from, NEW h, NEW B, HeapOK(from, h.free, h.end, B),
         Frame \in Nat, Word \in Nat, Frame < Word,
         NEW real, Fine(real)
  PROVE  /\ Allots(from, B, Fresh(h, real), real, SizeT)
         /\ Fresh(h, real).block = NULL => h.end + real > Frame - GAP
  <1> DEFINE r == Fresh(h, real)
             g == Block(h.end, real)
  <1>1. h.end \in Nat /\ h.end <= Frame - GAP /\ h.end % SizeT = 0
    BY DEF HeapOK
  <1>2. real \in Int
    BY DEF Fine
  <1>3. CAN_ALLOC_P(h.end, real) <=> h.end + real <= Frame - GAP
    BY <1>1, <1>2, Room
  <1>4. CASE CAN_ALLOC_P(h.end, real)
    <2>1. r.free = h.free /\ r.end = h.end + real /\ r.block = g
      BY <1>4, GivesIs DEF Fresh
    <2>2. g.at = h.end /\ g.size = real
      BY DEF Block
    <2>3. HeapOK(from, h.free, h.end + real, B \cup {g}) /\ g \notin B /\ g \in BlockType
      BY <1>3, <1>4, GrowUsed
    <2>4. (h.end + SizeT) % SizeT = 0
      BY <1>1 DEF SizeT
    <2> HIDE DEF r, g
    <2>5. g # NULL
      BY <2>2, <2>3, NotNull
    <2>6. Allots(from, B, r, real, SizeT)
      BY <1>2, <2>1, <2>2, <2>3, <2>4, <2>5 DEF Allots
    <2> QED
      BY <2>1, <2>5, <2>6 DEF r
  <1>5. CASE ~CAN_ALLOC_P(h.end, real)
    <2>1. r = Gives(h.free, h.end, NULL)
      BY <1>5 DEF Fresh, Fails
    <2>2. Allots(from, B, r, real, SizeT)
      BY <2>1, GivesIs DEF Allots
    <2>3. h.end + real > Frame - GAP
      BY <1>1, <1>2, <1>3, <1>5 DEF GAP
    <2> QED
      BY <2>2, <2>3
  <1> QED
    BY <1>4, <1>5

(* malloc, and where it looked in vain.                                    *)
LEMMA MallocKeeps ==
  ASSUME NEW from, NEW h, NEW B, HeapOK(from, h.free, h.end, B),
         Frame \in Nat, Word \in Nat, Frame < Word, NEW sz \in Nat
  PROVE  LET real == REAL_SIZE(sz)
             r == malloc(h, sz)
         IN  /\ Allots(from, B, r, real, SizeT)
             /\ r.block = NULL =>
                   /\ \A i \in DOMAIN h.free : ~(h.free[i].size >= real)
                   /\ EndsHeap(h) => Last(h.free).at + real > Frame - GAP
                   /\ ~EndsHeap(h) => h.end + real > Frame - GAP
  <1> DEFINE real == REAL_SIZE(sz)
             r == malloc(h, sz)
             fits == {i \in DOMAIN h.free : h.free[i].size >= real}
  <1>1. Fine(real)
    BY RealSize
  <1>r. r = IF fits # {} THEN Split(h, First(fits), real)
            ELSE IF EndsHeap(h) THEN Enlarge(h, real)
            ELSE Fresh(h, real)
    BY DEF malloc
  <1> HIDE DEF r, real
  <1>2. CASE fits # {}
    <2>1. r = Split(h, First(fits), real)
      BY <1>2, <1>r
    <2>2. fits \subseteq Nat
      BY HeapBlocks
    <2>3. First(fits) \in fits
      <3> HIDE DEF fits
      <3> QED
        BY <1>2, <2>2, FirstIs
    <2>4. First(fits) \in DOMAIN h.free /\ h.free[First(fits)].size >= real
      BY <2>3
    <2> HIDE DEF fits
    <2>5. Allots(from, B, r, real, SizeT) /\ r.block # NULL
      BY <1>1, <2>1, <2>4, SplitKeeps
    <2> QED
      BY <2>5 DEF real, r
  <1>3. CASE fits = {} /\ EndsHeap(h)
    <2>1. r = Enlarge(h, real)
      BY <1>3, <1>r
    <2>2. Last(h.free).size < real
      <3>1. Len(h.free) \in DOMAIN h.free /\ Last(h.free) = h.free[Len(h.free)]
            /\ Fine(Last(h.free).size)
        BY <1>3, LastIs
      <3>2. ~(h.free[Len(h.free)].size >= real)
        BY <1>3, <3>1
      <3>3. real \in Int /\ Last(h.free).size \in Int
        BY <1>1, <3>1 DEF Fine
      <3> QED
        BY <3>1, <3>2, <3>3
    <2>3. \A i \in DOMAIN h.free : ~(h.free[i].size >= real)
      BY <1>3
    <2>4. /\ Allots(from, B, r, real, SizeT)
          /\ r.block = NULL => Last(h.free).at + real > Frame - GAP
      BY <1>1, <1>3, <2>1, <2>2, EnlargeKeeps
    <2> QED
      BY <1>3, <2>3, <2>4 DEF real, r
  <1>4. CASE fits = {} /\ ~EndsHeap(h)
    <2>1. r = Fresh(h, real)
      BY <1>4, <1>r
    <2>2. \A i \in DOMAIN h.free : ~(h.free[i].size >= real)
      BY <1>4
    <2>3. /\ Allots(from, B, r, real, SizeT)
          /\ r.block = NULL => h.end + real > Frame - GAP
      BY <1>1, <2>1, FreshKeeps
    <2> QED
      BY <1>4, <2>2, <2>3 DEF real, r
  <1> QED
    BY <1>2, <1>3, <1>4

-----------------------------------------------------------------------------
(* memalign.                                                               *)

LEMMA BeforeIs ==
  ASSUME NEW at \in Int, at % 8 = 0, NEW align \in PowersOf2
  PROVE  /\ Before(at, align) = 0 \/ Fine(Before(at, align))
         /\ Before(at, align) \in Nat
         /\ ((at + Before(at, align)) + SizeT) % align = 0
         /\ M_ALIGN(at + SizeT, align) <= Before(at, align)
         /\ Fine(M_ALIGN(at + SizeT, align) + Entry) /\ M_ALIGN(at + SizeT, align) \in Nat
  <1> DEFINE m == M_ALIGN(at + SizeT, align)
             n == M_ALIGN(at + Entry + SizeT, align)
  <1>0. align \in Nat \ {0} /\ at + SizeT \in Int /\ at + Entry + SizeT \in Int
        /\ (at + SizeT) % 8 = 0 /\ (at + Entry + SizeT) % 8 = 0
    BY PowerIs DEF SizeT, Entry
  <1>1. m \in Nat /\ ((at + SizeT) + m) % align = 0 /\ m % 8 = 0
    BY <1>0, AlignUp, EightUp
  <1>2. n \in Nat /\ ((at + Entry + SizeT) + n) % align = 0 /\ n % 8 = 0
    BY <1>0, AlignUp, EightUp
  <1>3. (at + SizeT) + m <= (at + Entry + SizeT) + n
    <2>1. at + SizeT <= at + Entry + SizeT
      BY DEF SizeT, Entry
    <2> QED
      BY <1>0, <2>1, AlignMon
  <1>4. Before(at, align) = IF m = 0 THEN 0 ELSE Entry + n
    BY DEF Before
  <1> HIDE DEF m, n
  <1>5. m <= Entry + n
    BY <1>1, <1>2, <1>3 DEF SizeT, Entry
  <1>6. Fine(m + Entry) /\ Fine(Entry + n) /\ Entry + n \in Nat
    BY <1>1, <1>2 DEF Fine, Entry, SizeT
  <1>7. CASE m = 0
    <2>1. Before(at, align) = 0 /\ (at + 0) + SizeT = (at + SizeT) + m
      BY <1>4, <1>7 DEF SizeT
    <2> QED
      BY <1>1, <1>6, <1>7, <2>1 DEF m
  <1>8. CASE m # 0
    <2>1. Before(at, align) = Entry + n
      BY <1>4, <1>8
    <2>2. (at + (Entry + n)) + SizeT = (at + Entry + SizeT) + n
      BY <1>2 DEF SizeT, Entry
    <2> QED
      BY <1>1, <1>2, <1>5, <1>6, <2>1, <2>2 DEF m
  <1> QED
    BY <1>7, <1>8

(* What is free behind another place is aligned later.                     *)
LEMMA BeforeMon ==
  ASSUME NEW x \in Int, x % 8 = 0, NEW y \in Int, y % 8 = 0, x + Entry <= y,
         NEW align \in PowersOf2
  PROVE  x + Before(x, align) <= y + Before(y, align)
  <1> DEFINE mx == M_ALIGN(x + SizeT, align)
             nx == M_ALIGN(x + Entry + SizeT, align)
             my == M_ALIGN(y + SizeT, align)
             ny == M_ALIGN(y + Entry + SizeT, align)
  <1>0. align \in Nat \ {0} /\ x + SizeT \in Int /\ x + Entry + SizeT \in Int
        /\ y + SizeT \in Int /\ y + Entry + SizeT \in Int
        /\ x + Entry + SizeT <= y + SizeT /\ x + Entry + SizeT <= y + Entry + SizeT
    BY PowerIs DEF SizeT, Entry
  <1>1. mx \in Nat /\ nx \in Nat /\ my \in Nat /\ ny \in Nat
    BY <1>0, AlignUp
  <1>2. (x + Entry + SizeT) + nx <= (y + SizeT) + my
    BY <1>0, AlignMon
  <1>3. (x + Entry + SizeT) + nx <= (y + Entry + SizeT) + ny
    BY <1>0, AlignMon
  <1>4. Before(x, align) = IF mx = 0 THEN 0 ELSE Entry + nx
    BY DEF Before
  <1>5. Before(y, align) = IF my = 0 THEN 0 ELSE Entry + ny
    BY DEF Before
  <1> HIDE DEF mx, nx, my, ny
  <1> DEFINE bx == Before(x, align)
             by == Before(y, align)
  <1>6. (bx = 0 \/ bx = 16 + nx) /\ ((by = 0 /\ my = 0) \/ by = 16 + ny)
    BY <1>4, <1>5 DEF Entry
  <1>7. x + 24 + nx <= y + 8 + my /\ x + 24 + nx <= y + 24 + ny /\ x + 16 <= y
    BY <1>1, <1>2, <1>3 DEF SizeT, Entry
  <1> HIDE DEF bx, by
  <1>8. x + bx <= y + by
    BY <1>1, <1>6, <1>7
  <1> QED
    BY <1>8 DEF bx, by

LEMMA PairIs ==
  ASSUME NEW u \in BlockType, NEW v \in BlockType
  PROVE  <<u>> \o <<v>> = <<u, v>>
  <1> DEFINE s == <<u>> \o <<v>>
             t == <<u, v>>
  <1>1. s \in Seq(BlockType) /\ Len(s) = 2 /\ s[1] = u /\ s[2] = v
    OBVIOUS
  <1>2. t \in Seq(BlockType) /\ Len(t) = 2 /\ t[1] = u /\ t[2] = v
    OBVIOUS
  <1> HIDE DEF s, t
  <1>3. s = t
    <2>1. DOMAIN s = {1, 2} /\ DOMAIN t = {1, 2}
      BY <1>1, <1>2
    <2>2. s = [i \in DOMAIN s |-> s[i]] /\ t = [i \in DOMAIN t |-> t[i]]
      BY <1>1, <1>2
    <2> QED
      BY <2>1, <2>2, <1>1, <1>2
  <1> QED
    BY <1>3 DEF s, t

LEMMA PlaceKeeps ==
  ASSUME NEW from, NEW h, NEW B, HeapOK(from, h.free, h.end, B),
         NEW real, Fine(real), NEW align \in PowersOf2,
         NEW i \in DOMAIN h.free, h.free[i].size >= Before(h.free[i].at, align) + real
  PROVE  /\ Allots(from, B, Place(h, i, real, align), real, align)
         /\ Place(h, i, real, align).block # NULL
  <1> DEFINE chain == h.free
             b == chain[i]
             p == Before(b.at, align)
             rest == b.size - p
             whole == rest <= real + Entry
             n == IF whole THEN rest ELSE real
             q == IF whole THEN 0 ELSE rest - real
             front == IF p = 0 THEN <<>> ELSE <<Block(b.at, p)>>
             back == IF whole THEN <<>> ELSE <<Block(b.at + p + real, rest - real)>>
             m == front \o back
             g == Block(b.at + p, n)
             r == Place(h, i, real, align)
  <1>1. b \in BlockType /\ b.at % SizeT = 0 /\ b.at \in Int /\ b.size \in Int /\ Fine(b.size)
    BY HeapBlocks, BlockInts
  <1>2. /\ p = 0 \/ Fine(p)
        /\ p \in Nat /\ ((b.at + p) + SizeT) % align = 0
    <2> DEFINE a == b.at
    <2>1. a \in Int /\ a % 8 = 0
      BY <1>1 DEF SizeT
    <2> HIDE DEF a
    <2>2. /\ Before(a, align) = 0 \/ Fine(Before(a, align))
          /\ Before(a, align) \in Nat /\ ((a + Before(a, align)) + SizeT) % align = 0
      BY <2>1, BeforeIs
    <2> QED
      BY <2>2 DEF a
  <1>3. r = Gives(Relinked(chain, i, i + 1, m), h.end, g)
    BY DEF Place
  <1>4. b.size >= p + real
    OBVIOUS
  <1> HIDE DEF b, p, r
  <1>5. b.size \in Int /\ real \in Int /\ p \in Nat /\ b.at \in Int /\ rest >= real /\ real >= 16
    BY <1>1, <1>2, <1>4 DEF Fine, Entry
  <1>6. b.size % 8 = 0 /\ real % 8 = 0 /\ p % 8 = 0
    BY <1>1, <1>2 DEF Fine, SizeT
  <1>7. rest \in Int /\ rest % 8 = 0 /\ rest = b.size - p
    <2> DEFINE s == b.size
    <2>1. s \in Int /\ s % 8 = 0 /\ p \in Int /\ p % 8 = 0
      BY <1>5, <1>6
    <2> HIDE DEF s
    <2>2. (s - p) % 8 = 0
      BY <2>1
    <2> QED
      BY <1>5, <2>2 DEF s
  <1> HIDE DEF rest
  <1>8. ~whole => Fine(rest - real)
    <2>1. (rest - real) % 8 = 0
      BY <1>5, <1>6, <1>7
    <2> QED
      BY <1>5, <1>7, <2>1 DEF Fine, Entry, SizeT
  <1>9. Fine(n) /\ n >= real
    BY <1>5, <1>6, <1>7 DEF Fine, Entry, SizeT
  <1>10. p + n + q = b.size /\ q \in Int /\ n \in Int
    BY <1>5, <1>7
  <1>11. Stays(b, p, n, q, m)
    <2>1. CASE whole /\ p = 0
      <3>1. q = 0 /\ m = <<>>
        BY <2>1
      <3> QED
        BY <2>1, <3>1 DEF Stays
    <2>2. CASE whole /\ p # 0
      <3> DEFINE u == Block(b.at, p)
      <3>1. q = 0 /\ m = <<u>> \o <<>>
        BY <2>2
      <3> HIDE DEF u
      <3>2. m = <<u>>
        BY <3>1
      <3> QED
        BY <2>2, <3>1, <3>2, <1>2 DEF Stays, u
    <2>3. CASE ~whole /\ p = 0
      <3> DEFINE v == Block(b.at + p + real, rest - real)
      <3>1. q = rest - real /\ n = real /\ m = <<>> \o <<v>>
        BY <2>3
      <3>2. v = Block(b.at + n, q)
        BY <2>3, <3>1, <1>5
      <3> HIDE DEF v, n, q, m
      <3>3. m = <<v>>
        BY <3>1
      <3> QED
        BY <2>3, <3>1, <3>2, <3>3, <1>8 DEF Stays
    <2>4. CASE ~whole /\ p # 0
      <3> DEFINE u == Block(b.at, p)
                 v == Block(b.at + p + real, rest - real)
      <3>1. q = rest - real /\ n = real /\ m = <<u>> \o <<v>>
        BY <2>4
      <3>5. u \in BlockType /\ v \in BlockType
        BY <1>5, <1>7 DEF Block, BlockType
      <3> HIDE DEF u, v, m
      <3>2. m = <<u, v>>
        BY <3>1, <3>5, PairIs
      <3>3. Fine(p) /\ Fine(q)
        BY <2>4, <3>1, <1>2, <1>8
      <3>4. v = Block(b.at + p + n, q)
        BY <3>1 DEF v
      <3> HIDE DEF n, q
      <3> QED
        BY <3>2, <3>3, <3>4 DEF Stays, u
    <2> QED
      BY <2>1, <2>2, <2>3, <2>4
  <1> HIDE DEF m, n, q
  <1>12. Carves(chain, i, p, n, q, m, g)
    <2>1. chain[i] = b /\ i \in DOMAIN chain
      BY DEF b
    <2> HIDE DEF chain
    <2> QED
      BY <2>1, <1>5, <1>9, <1>10, <1>11 DEF Carves
  <1>13. g.at = b.at + p /\ g.size = n
    BY DEF Block
  <1> HIDE DEF g
  <1>14. /\ HeapOK(from, Relinked(chain, i, i + 1, m), h.end, B \cup {g})
         /\ g \in BlockType
         /\ g \notin B
    BY <1>12, CarveUp, Zenon
  <1> HIDE DEF chain
  <1>15. r.free = Relinked(chain, i, i + 1, m) /\ r.end = h.end /\ r.block = g
    BY <1>3, GivesIs
  <1>16. HeapOK(from, r.free, r.end, B \cup {g})
    BY <1>14, <1>15
  <1>17. Fine(g.size) /\ g.size >= real /\ (g.at + SizeT) % align = 0
    BY <1>2, <1>9, <1>13
  <1>18. Allots(from, B, r, real, align) /\ r.block # NULL
    BY <1>14, <1>15, <1>16, <1>17, Allotted, Zenon
  <1> QED
    BY <1>18 DEF r

LEMMA ExtendKeeps ==
  ASSUME NEW from, NEW h, NEW B, HeapOK(from, h.free, h.end, B), EndsHeap(h),
         Frame \in Nat, Word \in Nat, Frame < Word,
         NEW real, Fine(real), NEW align \in PowersOf2
  PROVE  /\ Allots(from, B, Extend(h, real, align), real, align)
         /\ Extend(h, real, align).block = NULL =>
               Last(h.free).at + Before(Last(h.free).at, align) + real > Frame - GAP
  <1> DEFINE chain == h.free
             N == Len(chain)
             b == Last(chain)
             p == Before(b.at, align)
             size == p + real
             x == Relinked(chain, N, N + 1, <<Block(b.at, size)>>)
             g == [free |-> x, end |-> b.at + size]
             r == Extend(h, real, align)
  <1>1. /\ N \in DOMAIN chain /\ b = chain[N] /\ Ends(b) = h.end
        /\ b \in BlockType /\ Fine(b.size) /\ b.at \in Nat /\ b.at % SizeT = 0
        /\ h.end \in Nat /\ h.end <= Frame - GAP
    BY LastIs DEF HeapOK
  <1>2. (p = 0 \/ Fine(p)) /\ p \in Nat
    <2> DEFINE a == b.at
    <2>1. a \in Int /\ a % 8 = 0
      BY <1>1 DEF SizeT
    <2> HIDE DEF a
    <2>2. (Before(a, align) = 0 \/ Fine(Before(a, align))) /\ Before(a, align) \in Nat
      BY <2>1, BeforeIs
    <2> QED
      BY <2>2 DEF a
  <1>3. real \in Int /\ real >= 16 /\ b.size \in Int /\ h.end = b.at + b.size
    BY <1>1 DEF Fine, Entry, Ends
  <1>4. Fine(size)
    BY <1>2 DEF Fine, Entry, SizeT
  <1>5. r = IF b.size >= size THEN Place(h, N, real, align)
            ELSE IF ~CAN_ALLOC_P(h.end, size - b.size) THEN Gives(h.free, h.end, NULL)
            ELSE Place(g, N, real, align)
    BY DEF Extend, Fails
  <1>6. CAN_ALLOC_P(h.end, size - b.size) <=> b.at + size <= Frame - GAP
    <2>1. size - b.size \in Int
      BY <1>2, <1>3
    <2>2. CAN_ALLOC_P(h.end, size - b.size) <=> h.end + (size - b.size) <= Frame - GAP
      BY <1>1, <2>1, Room
    <2>3. h.end + (size - b.size) = b.at + size
      BY <1>1, <1>2, <1>3
    <2> QED
      BY <2>2, <2>3
  <1> HIDE DEF r, p
  <1>7. CASE b.size >= size
    <2>1. h.free[N] = b
      BY <1>1
    <2>2. h.free[N].size >= Before(h.free[N].at, align) + real
      BY <1>7, <2>1 DEF p
    <2>3. Allots(from, B, Place(h, N, real, align), real, align)
          /\ Place(h, N, real, align).block # NULL
      <3>1. N \in DOMAIN h.free
        BY <1>1
      <3> HIDE DEF N
      <3> QED
        BY <2>2, <3>1, PlaceKeeps
    <2>4. r = Place(h, N, real, align)
      BY <1>5, <1>7
    <2> QED
      BY <2>3, <2>4 DEF r
  <1>8. CASE ~(b.size >= size) /\ ~CAN_ALLOC_P(h.end, size - b.size)
    <2>1. r = Gives(h.free, h.end, NULL)
      BY <1>5, <1>8
    <2>2. Allots(from, B, r, real, align)
      BY <2>1, GivesIs DEF Allots
    <2>3. b.at + p + real > Frame - GAP
      <3> HIDE DEF b
      <3> QED
        BY <1>1, <1>2, <1>3, <1>6, <1>8 DEF GAP
    <2> QED
      BY <2>2, <2>3 DEF r, p
  <1>9. CASE ~(b.size >= size) /\ CAN_ALLOC_P(h.end, size - b.size)
    <2>1. r = Place(g, N, real, align)
      BY <1>5, <1>9
    <2>2. /\ HeapOK(from, x, b.at + size, B)
          /\ Len(x) = N /\ x[N] = Block(b.at, size)
      <3>1. size >= b.size /\ b.at + size <= Frame - GAP
        <4> HIDE DEF b
        <4> QED
          BY <1>2, <1>3, <1>6, <1>9
      <3> HIDE DEF size, b
      <3> QED
        BY <1>1, <1>4, <3>1, StretchFree
    <2>3. x \in Seq(BlockType) /\ N \in DOMAIN x
      <3>1. x \in Seq(BlockType)
        BY <2>2 DEF HeapOK
      <3>2. DOMAIN x = 1 .. N /\ N \in 1 .. N
        <4>1. DOMAIN chain = 1 .. N
          BY HeapBlocks
        <4> HIDE DEF x
        <4> QED
          BY <1>1, <2>2, <3>1, <4>1
      <3> QED
        BY <3>1, <3>2
    <2>4. Block(b.at, size).at = b.at /\ Block(b.at, size).size = size
      BY DEF Block
    <2>5. g.free = x /\ g.end = b.at + size
      OBVIOUS
    <2> HIDE DEF g, x, N, b
    <2>6. HeapOK(from, g.free, g.end, B) /\ N \in DOMAIN g.free
      BY <2>2, <2>3, <2>5
    <2>7. g.free[N].at = b.at /\ g.free[N].size = size
      BY <2>2, <2>4, <2>5
    <2>8. g.free[N].size >= Before(g.free[N].at, align) + real
      <3>1. Before(g.free[N].at, align) = p
        BY <2>7 DEF p
      <3> QED
        BY <1>2, <1>3, <2>7, <3>1
    <2>9. Allots(from, B, Place(g, N, real, align), real, align)
          /\ Place(g, N, real, align).block # NULL
      BY <2>6, <2>8, PlaceKeeps
    <2> QED
      BY <2>1, <2>9 DEF r
  <1> QED
    BY <1>7, <1>8, <1>9

(* memalign, and where it looked in vain.                                  *)
LEMMA MemalignKeeps ==
  ASSUME NEW from, NEW h, NEW B, HeapOK(from, h.free, h.end, B),
         Frame \in Nat, Word \in Nat, Frame < Word,
         NEW sz \in Nat, NEW align
  PROVE  LET real == REAL_SIZE(sz)
             r == memalign(h, align, sz)
         IN  /\ Allots(from, B, r, real, align)
             /\ align \notin PowersOf2 => r.block = NULL
             /\ r.block = NULL /\ align \in PowersOf2 =>
                   /\ \A i \in DOMAIN h.free :
                         ~(h.free[i].size >= real + Before(h.free[i].at, align))
                   /\ EndsHeap(h) =>
                         Last(h.free).at + Before(Last(h.free).at, align) + real > Frame - GAP
                   /\ ~EndsHeap(h) => h.end + Before(h.end, align) + real > Frame - GAP
  <1> DEFINE real == REAL_SIZE(sz)
             r == memalign(h, align, sz)
             chain == h.free
             fits == {i \in DOMAIN chain : chain[i].size >= real + Before(chain[i].at, align)}
             m == M_ALIGN(h.end + SizeT, align)
             size == real + m
             N == Len(chain)
             y == Relinked(chain, N + 1, N + 1, <<Block(h.end, size)>>)
             g == [free |-> y, end |-> h.end + size]
  <1>1. Fine(real) /\ real \in Int /\ real >= 16
    BY RealSize DEF Fine, Entry
  <1>2. r = IF align \notin PowersOf2 THEN Gives(h.free, h.end, NULL)
            ELSE IF fits # {} THEN Place(h, First(fits), real, align)
            ELSE IF EndsHeap(h) THEN Extend(h, real, align)
            ELSE IF CAN_ALLOC_P(h.end, size) THEN Extend(g, real, align)
            ELSE Gives(h.free, h.end, NULL)
    BY DEF memalign, Fails
  <1>3. h.end \in Nat /\ h.end % SizeT = 0 /\ h.end <= Frame - GAP
    BY DEF HeapOK
  <1> HIDE DEF r, real
  <1>e. align \in PowersOf2 => \A i \in DOMAIN chain :
              /\ Before(chain[i].at, align) \in Nat /\ chain[i].at \in Nat /\ chain[i].size \in Int
    <2> SUFFICES ASSUME align \in PowersOf2, NEW i \in DOMAIN chain
                 PROVE  Before(chain[i].at, align) \in Nat /\ chain[i].at \in Nat
                        /\ chain[i].size \in Int
      OBVIOUS
    <2> DEFINE c == chain[i]
    <2>1. c.at \in Nat /\ c.at % SizeT = 0 /\ Fine(c.size)
      BY HeapBlocks
    <2> HIDE DEF c
    <2>2. c.at \in Int /\ c.at % 8 = 0
      BY <2>1 DEF SizeT
    <2>3. Before(c.at, align) \in Nat
      BY <2>2, BeforeIs
    <2> QED
      BY <2>1, <2>3 DEF c, Fine
  <1>4. CASE align \notin PowersOf2
    <2>1. r = Gives(h.free, h.end, NULL)
      BY <1>2, <1>4
    <2>2. Allots(from, B, r, real, align) /\ r.block = NULL
      BY <2>1, GivesIs DEF Allots
    <2> QED
      BY <1>4, <2>2 DEF r, real
  <1>5. CASE align \in PowersOf2 /\ fits # {}
    <2>1. r = Place(h, First(fits), real, align)
      BY <1>2, <1>5
    <2>2. fits \subseteq Nat
      BY HeapBlocks
    <2>3. First(fits) \in fits
      <3> HIDE DEF fits
      <3> QED
        BY <1>5, <2>2, FirstIs
    <2> DEFINE i == First(fits)
    <2>4. i \in DOMAIN chain /\ chain[i].size >= real + Before(chain[i].at, align)
      BY <2>3
    <2> HIDE DEF i
    <2>5. h.free[i].size >= Before(h.free[i].at, align) + real
      BY <1>1, <1>5, <1>e, <2>4
    <2>6. Allots(from, B, Place(h, i, real, align), real, align)
          /\ Place(h, i, real, align).block # NULL
      BY <1>1, <1>5, <2>4, <2>5, PlaceKeeps
    <2>7. r = Place(h, i, real, align)
      BY <2>1 DEF i
    <2> QED
      BY <1>5, <2>6, <2>7 DEF r, real
  <1>6. align \in PowersOf2 => (h.end % 8 = 0 /\ m \in Nat /\ Fine(size) /\ size \in Int
                                /\ m <= Before(h.end, align) /\ Before(h.end, align) \in Nat)
    <2> SUFFICES ASSUME align \in PowersOf2
                 PROVE  h.end % 8 = 0 /\ m \in Nat /\ Fine(size) /\ size \in Int
                        /\ m <= Before(h.end, align) /\ Before(h.end, align) \in Nat
      OBVIOUS
    <2>1. h.end % 8 = 0 /\ h.end \in Int
      BY <1>3 DEF SizeT
    <2>2. m \in Nat /\ Fine(m + Entry) /\ m <= Before(h.end, align) /\ Before(h.end, align) \in Nat
      BY <2>1, BeforeIs
    <2> HIDE DEF m
    <2>3. Fine(size) /\ size \in Int
      BY <1>1, <2>2 DEF Fine, Entry, SizeT
    <2> QED
      BY <2>1, <2>2, <2>3
  <1>7. CASE align \in PowersOf2 /\ fits = {} /\ EndsHeap(h)
    <2>1. r = Extend(h, real, align)
      BY <1>2, <1>7
    <2>2. /\ Allots(from, B, r, real, align)
          /\ r.block = NULL =>
                Last(h.free).at + Before(Last(h.free).at, align) + real > Frame - GAP
      BY <1>1, <1>7, <2>1, ExtendKeeps
    <2>3. \A i \in DOMAIN h.free : ~(h.free[i].size >= real + Before(h.free[i].at, align))
      BY <1>7
    <2> QED
      BY <1>7, <2>2, <2>3 DEF r, real
  <1>8. CASE align \in PowersOf2 /\ fits = {} /\ ~EndsHeap(h)
    <2>1. CAN_ALLOC_P(h.end, size) <=> h.end + size <= Frame - GAP
      BY <1>3, <1>6, <1>8, Room
    <2>2. \A i \in DOMAIN h.free : ~(h.free[i].size >= real + Before(h.free[i].at, align))
      BY <1>8
    <2>3. CASE ~CAN_ALLOC_P(h.end, size)
      <3>1. r = Gives(h.free, h.end, NULL)
        BY <1>2, <1>8, <2>3
      <3>2. Allots(from, B, r, real, align)
        BY <3>1, GivesIs DEF Allots
      <3>3. h.end + Before(h.end, align) + real > Frame - GAP
        <4>1. /\ h.end \in Nat /\ m \in Nat /\ real \in Int /\ Before(h.end, align) \in Nat
              /\ m <= Before(h.end, align) /\ Frame - GAP \in Int /\ size \in Int
              /\ ~(h.end + size <= Frame - GAP)
          BY <1>1, <1>3, <1>6, <1>8, <2>1, <2>3 DEF GAP
        <4> HIDE DEF m
        <4> QED
          BY <4>1
      <3> QED
        BY <1>8, <2>2, <3>2, <3>3 DEF r, real
    <2>4. CASE CAN_ALLOC_P(h.end, size)
      <3>1. r = Extend(g, real, align)
        BY <1>2, <1>8, <2>4
      <3>2. \A i \in DOMAIN chain : i = N => Ends(chain[i]) # h.end
        <4> SUFFICES ASSUME N \in DOMAIN chain, Ends(chain[N]) = h.end PROVE FALSE
          OBVIOUS
        <4>1. chain # <<>> /\ Last(chain) = chain[N]
          <5>1. chain \in Seq(BlockType)
            BY DEF HeapOK
          <5> QED
            BY <5>1 DEF Last
        <4> QED
          BY <1>8, <4>1 DEF EndsHeap, Ends
      <3>3. /\ HeapOK(from, y, h.end + size, B)
            /\ Len(y) = N + 1 /\ y[Len(y)] = Block(h.end, size)
        <4>1. Fine(size) /\ h.end + size <= Frame - GAP
          BY <1>6, <1>8, <2>1, <2>4
        <4> HIDE DEF size
        <4> QED
          BY <3>2, <4>1, GrowFree
      <3>4. Block(h.end, size).at = h.end /\ Block(h.end, size).size = size
        BY DEF Block
      <3>5. g.free = y /\ g.end = h.end + size
        OBVIOUS
      <3>6. N \in Nat
        BY HeapBlocks
      <3> HIDE DEF y, g, N, size
      <3>7. EndsHeap(g) /\ Last(g.free).at = h.end
        <4>1. g.free # <<>>
          BY <3>3, <3>5, <3>6
        <4>2. Last(g.free) = Block(h.end, size)
          BY <3>3, <3>5 DEF Last
        <4> QED
          BY <3>4, <3>5, <4>1, <4>2 DEF EndsHeap
      <3>8. HeapOK(from, g.free, g.end, B)
        BY <3>3, <3>5
      <3>9. /\ Allots(from, B, r, real, align)
            /\ r.block = NULL =>
                  Last(g.free).at + Before(Last(g.free).at, align) + real > Frame - GAP
        BY <1>1, <1>8, <3>1, <3>7, <3>8, ExtendKeeps
      <3> QED
        BY <1>8, <2>2, <3>7, <3>9 DEF r, real
    <2> QED
      BY <2>3, <2>4
  <1> QED
    BY <1>4, <1>5, <1>7, <1>8

-----------------------------------------------------------------------------
(* Where no block is found there is no room.                               *)
LEMMA NoRoom ==
  ASSUME NEW from, NEW h, NEW B, HeapOK(from, h.free, h.end, B),
         NEW x \in Int, x = h.end \/ \E d \in Range(h.free) \cup B : d.at = x,
         NEW n \in Int, n >= Entry,
         \A i \in DOMAIN h.free : h.free[i].at = x => ~(h.free[i].size >= n),
         EndsHeap(h) => (x = h.end \/ x = Last(h.free).at => ~(x + n <= Frame - GAP)),
         ~EndsHeap(h) => (x = h.end => ~(x + n <= Frame - GAP)),
         x + n <= Frame - GAP, \A c \in B : x + n <= c.at \/ Ends(c) <= x
  PROVE  FALSE
  <1> DEFINE chain == h.free
             N == Len(chain)
  <1>1. chain \in Seq(BlockType) /\ Chained(chain)
    BY DEF HeapOK
  <1>2. PICK d \in Range(chain) \cup B : d.at = x
    OBVIOUS
  <1>3. d \in BlockType /\ Fine(d.size) /\ d.at \in Int /\ Ends(d) = x + d.size /\ d.size >= 16
    <2>1. d \in BlockType /\ Fine(d.size)
      BY HeapBlocks
    <2> QED
      BY <1>2, <2>1, BlockInts DEF Fine, Entry
  <1>4. CASE d \in B
    <2>1. x + n <= d.at \/ Ends(d) <= x
      BY <1>4
    <2> QED
      BY <2>1, <1>2, <1>3 DEF Fine, Entry
  <1>5. CASE d \in Range(chain)
    <2>1. PICK i \in DOMAIN chain : d = chain[i]
      BY <1>5 DEF Range
    <2>2. ~(d.size >= n) /\ d.size \in Int
      BY <1>2, <1>3, <2>1 DEF Fine
    <2>3. CASE Ends(d) = h.end
      <3>1. DOMAIN chain = 1 .. N /\ N \in Nat
        BY HeapBlocks
      <3>2. i = N
        <4> SUFFICES ASSUME i # N PROVE FALSE
          OBVIOUS
        <4>1. N \in DOMAIN chain /\ i < N
          BY <2>1, <3>1
        <4>2. Ends(d) < chain[N].at
          BY <2>1, <4>1, <1>1 DEF Chained
        <4>3. chain[N] \in Range(chain)
          BY <4>1 DEF Range
        <4> DEFINE c == chain[N]
        <4>4. c \in BlockType /\ Fine(c.size) /\ Ends(c) <= h.end
          BY <4>3, HeapBlocks
        <4>5. Ends(d) < c.at
          BY <4>2
        <4>6. h.end \in Int
          BY DEF HeapOK
        <4> HIDE DEF c
        <4>7. c.at < Ends(c) /\ c.at \in Int /\ Ends(c) \in Int
          BY <4>4, BlockInts DEF Fine, Entry
        <4> QED
          BY <2>3, <4>4, <4>5, <4>6, <4>7
      <3>3. chain # <<>> /\ Last(chain) = d
        BY <1>1, <2>1, <3>1, <3>2 DEF Last
      <3>4. EndsHeap(h)
        BY <2>3, <3>3 DEF EndsHeap, Ends
      <3> QED
        BY <1>2, <3>3, <3>4
    <2>4. CASE Ends(d) # h.end
      <3>1. PICK f \in Range(chain) \cup B : f.at = Ends(d)
        BY <2>4, HeapBlocks
      <3>2. f \in BlockType /\ Fine(f.size)
        BY HeapBlocks
      <3>3. f.at \in Int /\ Ends(f) = f.at + f.size /\ f.size >= 16 /\ f.size \in Int
        BY <3>2, BlockInts DEF Fine, Entry
      <3>4. CASE f \in B
        <4>1. x + n <= f.at \/ Ends(f) <= x
          BY <3>4
        <4> QED
          BY <4>1, <1>3, <2>2, <3>1, <3>3
      <3>5. CASE f \in Range(chain)
        <4>1. PICK j \in DOMAIN chain : f = chain[j]
          BY <3>5 DEF Range
        <4>2. i \in Int /\ j \in Int
          BY <1>1
        <4>3. i < j => Ends(d) < f.at
          BY <1>1, <2>1, <4>1 DEF Chained
        <4>4. j < i => Ends(f) < d.at
          BY <1>1, <2>1, <4>1 DEF Chained
        <4>5. i = j => f = d
          BY <2>1, <4>1
        <4>6. i < j \/ j < i \/ i = j
          BY <4>2
        <4>7. /\ d.at \in Int /\ d.size \in Int /\ d.size >= 16 /\ Ends(d) = d.at + d.size
              /\ f.at \in Int /\ f.size \in Int /\ f.size >= 16 /\ Ends(f) = f.at + f.size
              /\ f.at = Ends(d)
          BY <1>2, <1>3, <3>1, <3>3, <2>2
        <4>8. ~(Ends(d) < f.at) /\ ~(Ends(f) < d.at) /\ f.at # d.at
          BY <4>7
        <4> QED
          BY <4>3, <4>4, <4>5, <4>6, <4>8
      <3> QED
        BY <3>4, <3>5
    <2> QED
      BY <2>3, <2>4
  <1> QED
    BY <1>4, <1>5

-----------------------------------------------------------------------------
(* The program's chunks.                                                   *)

ChunkType == [at : Int, size : Int, len : Nat, align : Nat \ {0}, held : Nat]
Of(c) == Block(c.at, c.size)

(* The inductive invariant: a heap in order under the chunks, each large   *)
(* enough and aligned, with no more data than the program asked for.       *)
HeapSound(from, chain, e, chunks) ==
  /\ Start <= from
  /\ chunks \subseteq ChunkType
  /\ HeapOK(from, chain, e, Blocks(chunks))
  /\ \A c, d \in chunks : c # d => c.at # d.at
  /\ \A c \in chunks : c.len + SizeT <= c.size /\ c.held <= c.len /\ (c.at + SizeT) % c.align = 0

LEMMA OfIs ==
  ASSUME NEW c
  PROVE  /\ Of(c).at = c.at /\ Of(c).size = c.size /\ Ends(Of(c)) = Ends(c)
         /\ Of(c) = Block(c.at, c.size)
  BY DEF Of, Block, Ends

LEMMA BlocksOf ==
  ASSUME NEW U
  PROVE  /\ \A c \in U : Of(c) \in Blocks(U)
         /\ \A b \in Blocks(U) : \E c \in U : b = Of(c)
         /\ \A n : Blocks(U \cup {n}) = Blocks(U) \cup {Of(n)}
         /\ (\A c, d \in U : c # d => c.at # d.at) =>
               \A c \in U : Blocks(U \ {c}) = Blocks(U) \ {Of(c)}
  <1>1. \A c \in U : Of(c) \in Blocks(U)
    BY DEF Blocks, Of
  <1>2. \A b \in Blocks(U) : \E c \in U : b = Of(c)
    BY DEF Blocks, Of
  <1>3. \A n : Blocks(U \cup {n}) = Blocks(U) \cup {Of(n)}
    BY DEF Blocks, Of
  <1>4. ASSUME \A c, d \in U : c # d => c.at # d.at, NEW c \in U
        PROVE  Blocks(U \ {c}) = Blocks(U) \ {Of(c)}
    <2>1. ASSUME NEW b \in Blocks(U \ {c}) PROVE b \in Blocks(U) \ {Of(c)}
      <3>1. PICK d \in U \ {c} : b = Of(d)
        BY DEF Blocks, Of
      <3>2. Of(d) \in Blocks(U)
        BY <1>1
      <3>3. d.at # c.at
        BY <1>4
      <3>4. Of(d) # Of(c)
        BY <3>3, OfIs
      <3> QED
        BY <3>1, <3>2, <3>4
    <2>2. ASSUME NEW b \in Blocks(U) \ {Of(c)} PROVE b \in Blocks(U \ {c})
      <3>1. PICK d \in U : b = Of(d)
        BY <1>2
      <3>2. d \in U \ {c}
        BY <3>1
      <3> QED
        BY <3>1, <3>2 DEF Blocks, Of
    <2> QED
      BY <2>1, <2>2
  <1> QED
    BY <1>1, <1>2, <1>3, <1>4

(* Chunks at one address are one chunk, when the blocks are tiles.         *)
LEMMA AddSound ==
  ASSUME NEW from, NEW chain, NEW e, NEW U, NEW n \in ChunkType,
         Start <= from, U \subseteq ChunkType,
         \A c, d \in U : c # d => c.at # d.at,
         \A c \in U : c.len + SizeT <= c.size /\ c.held <= c.len /\ (c.at + SizeT) % c.align = 0,
         HeapOK(from, chain, e, Blocks(U) \cup {Of(n)}), Of(n) \notin Blocks(U),
         n.len + SizeT <= n.size, n.held <= n.len, (n.at + SizeT) % n.align = 0
  PROVE  /\ HeapSound(from, chain, e, U \cup {n})
         /\ \A c \in U : c.at # n.at
  <1> DEFINE W == U \cup {n}
  <1>1. Blocks(W) = Blocks(U) \cup {Of(n)}
    BY BlocksOf
  <1>2. \A c \in U : c.at # n.at
    <2> SUFFICES ASSUME NEW c \in U, c.at = n.at PROVE FALSE
      OBVIOUS
    <2>1. Of(c) \in Blocks(U)
      BY BlocksOf
    <2> DEFINE b == Of(c)
               g == Of(n)
    <2>2. b # g /\ b.at = g.at
      BY <2>1, OfIs
    <2>3. b \in Blocks(U) \cup {g}
      BY <2>1
    <2> HIDE DEF b, g
    <2>4. /\ b \in BlockType /\ Fine(b.size) /\ g \in BlockType /\ Fine(g.size)
          /\ Behind(b, g) \/ Behind(g, b)
      <3>1. HeapOK(from, chain, e, Blocks(U) \cup {g})
        BY DEF g
      <3> QED
        BY <2>2, <2>3, <3>1, HeapBlocks
    <2>5. b.at \in Int /\ b.size \in Int /\ g.size \in Int /\ Ends(b) = b.at + b.size
          /\ Ends(g) = g.at + g.size /\ b.size >= 16 /\ g.size >= 16
      BY <2>4, BlockInts DEF Fine, Entry
    <2> QED
      BY <2>2, <2>4, <2>5 DEF Behind
  <1>3. \A c, d \in W : c # d => c.at # d.at
    BY <1>2
  <1>4. \A c \in W : c.len + SizeT <= c.size /\ c.held <= c.len /\ (c.at + SizeT) % c.align = 0
    OBVIOUS
  <1>5. W \subseteq ChunkType
    OBVIOUS
  <1>6. HeapOK(from, chain, e, Blocks(W))
    BY <1>1
  <1> HIDE DEF W
  <1>7. HeapSound(from, chain, e, W)
    BY <1>3, <1>4, <1>5, <1>6 DEF HeapSound
  <1> QED
    BY <1>2, <1>7 DEF W

(* A call that allocates.                                                  *)
Gets(U, r, real, align, len, held, n, V) ==
  /\ r.block # NULL /\ real \in Int /\ align \in Nat \ {0} /\ len \in Nat /\ held \in Nat
  /\ len + SizeT <= real /\ held <= len
  /\ n = Chunk(r.block, len, align, held) /\ V = U \cup {n}

LEMMA AllotSound ==
  ASSUME NEW from, NEW chain, NEW e, NEW U, HeapSound(from, chain, e, U),
         NEW r, NEW real, NEW align, Allots(from, Blocks(U), r, real, align),
         NEW len, NEW held, NEW n, NEW V, Gets(U, r, real, align, len, held, n, V)
  PROVE  /\ HeapSound(from, r.free, r.end, V)
         /\ n \in ChunkType /\ n.len = len /\ n.held = held
         /\ \A c \in U : c.at # n.at
  <1> DEFINE g == r.block
  <1>0. /\ g # NULL /\ real \in Int /\ align \in Nat \ {0} /\ len \in Nat /\ held \in Nat
        /\ len + SizeT <= real /\ held <= len
        /\ n = Chunk(g, len, align, held) /\ V = U \cup {n}
    BY DEF Gets
  <1>1. /\ HeapOK(from, r.free, r.end, Blocks(U) \cup {g}) /\ g \in BlockType /\ g \notin Blocks(U)
        /\ g.size >= real /\ (g.at + SizeT) % align = 0
    BY <1>0 DEF Allots
  <1>2. g.at \in Int /\ g.size \in Int /\ g = [at |-> g.at, size |-> g.size]
    BY <1>1 DEF BlockType
  <1>3. n \in ChunkType /\ n.at = g.at /\ n.size = g.size /\ n.len = len /\ n.align = align
        /\ n.held = held
    BY <1>0, <1>2 DEF Chunk, ChunkType
  <1>4. Of(n) = g
    BY <1>2, <1>3, OfIs DEF Block
  <1>5. n.len + SizeT <= n.size
    BY <1>0, <1>1, <1>2, <1>3 DEF SizeT
  <1>6. /\ Start <= from /\ U \subseteq ChunkType
        /\ \A c, d \in U : c # d => c.at # d.at
        /\ \A c \in U : c.len + SizeT <= c.size /\ c.held <= c.len /\ (c.at + SizeT) % c.align = 0
    BY DEF HeapSound
  <1>7. HeapOK(from, r.free, r.end, Blocks(U) \cup {Of(n)}) /\ Of(n) \notin Blocks(U)
    BY <1>1, <1>4
  <1>8. n.held <= n.len /\ (n.at + SizeT) % n.align = 0
    BY <1>0, <1>1, <1>3
  <1> HIDE DEF g
  <1>9. /\ HeapSound(from, r.free, r.end, U \cup {n})
        /\ \A c \in U : c.at # n.at
    BY <1>3, <1>5, <1>6, <1>7, <1>8, AddSound
  <1> QED
    BY <1>0, <1>3, <1>9

(* A call that frees.                                                      *)
LEMMA FreeSound ==
  ASSUME NEW from, NEW chain, NEW e, NEW U, HeapSound(from, chain, e, U), NEW c \in U
  PROVE  LET f == free([free |-> chain, end |-> e], Block(c.at, c.size))
         IN  HeapSound(from, f.free, e, U \ {c}) /\ f.end = e
  <1> DEFINE W == U \ {c}
             b == Of(c)
             f == free([free |-> chain, end |-> e], b)
  <1>1. /\ Start <= from /\ U \subseteq ChunkType /\ HeapOK(from, chain, e, Blocks(U))
        /\ \A x, d \in U : x # d => x.at # d.at
        /\ \A x \in U : x.len + SizeT <= x.size /\ x.held <= x.len /\ (x.at + SizeT) % x.align = 0
    BY DEF HeapSound
  <1>2. Blocks(W) = Blocks(U) \ {b} /\ b \in Blocks(U)
    BY <1>1, BlocksOf
  <1> HIDE DEF b
  <1>3. HeapOK(from, chain, e, Blocks(W) \cup {b}) /\ b \notin Blocks(W)
    <2>1. Blocks(W) \cup {b} = Blocks(U) /\ b \notin Blocks(W)
      BY <1>2
    <2> QED
      BY <1>1, <2>1
  <1>4. HeapOK(from, f.free, e, Blocks(W)) /\ f.end = e
    <2> DEFINE B == Blocks(W)
    <2>1. HeapOK(from, chain, e, B \cup {b}) /\ b \notin B
      BY <1>3
    <2> HIDE DEF B
    <2>2. HeapOK(from, f.free, e, B) /\ f.end = e
      BY <2>1, FreeKeepsHeap
    <2> QED
      BY <2>2 DEF B
  <1> HIDE DEF f
  <1>5. HeapSound(from, f.free, e, W)
    BY <1>1, <1>4 DEF HeapSound
  <1> QED
    BY <1>4, <1>5, OfIs DEF b, f

(* realloc gives the tail of a chunk back.                                 *)
Cuts(B, b, n, q, f, t, C, D) ==
  /\ b \in B /\ Fine(n) /\ Fine(q) /\ n + q = b.size
  /\ f = Block(b.at, n) /\ t = Block(b.at + n, q)
  /\ C = (B \ {b}) \cup {f} /\ D = C \cup {t}

LEMMA CutUsed ==
  ASSUME NEW from, NEW chain, NEW e, NEW B, HeapOK(from, chain, e, B),
         NEW b, NEW n, NEW q, NEW f, NEW t, NEW C, NEW D, Cuts(B, b, n, q, f, t, C, D)
  PROVE  /\ HeapOK(from, chain, e, D)
         /\ t \notin C
         /\ f \notin B \ {b}
  <1> DEFINE m == <<t>>
             S == Range(chain) \cup B
             P == Range(m) \cup {f}
  <1>0. /\ b \in B /\ Fine(n) /\ Fine(q) /\ n + q = b.size
        /\ f = Block(b.at, n) /\ t = Block(b.at + n, q)
        /\ C = (B \ {b}) \cup {f} /\ D = C \cup {t}
    BY DEF Cuts
  <1>1. /\ b \in BlockType /\ b.at % SizeT = 0 /\ S \subseteq BlockType /\ b \in S
        /\ b.at \in Int /\ n \in Int /\ q \in Int
    BY <1>0, HeapBlocks, BlockInts DEF Fine
  <1>2. /\ from \in Nat /\ e \in Nat /\ chain \in Seq(BlockType) /\ Chained(chain)
        /\ Range(chain) \cap B = {} /\ B \subseteq BlockType
        /\ from <= e /\ e <= Frame - GAP /\ e % SizeT = 0
        /\ Tiled(S, from, e)
    BY DEF HeapOK
  <1>3. /\ m \in Seq(BlockType) /\ f \in BlockType /\ f \notin Range(m)
        /\ Tiled(P, b.at, Ends(b))
    <2>1. Stays(b, 0, n, q, m)
      BY <1>0 DEF Stays
    <2>2. 0 + n + q = b.size /\ b.at + 0 = b.at /\ 0 \in Int
      BY <1>0, <1>1
    <2> HIDE DEF m
    <2>3. LET g == Block(b.at + 0, n)
          IN  /\ m \in Seq(BlockType) /\ Chained(m) /\ g \in BlockType /\ g \notin Range(m)
              /\ Tiled(Range(m) \cup {g}, b.at, Ends(b))
      BY <1>0, <1>1, <2>1, <2>2, CutTiles, Zenon
    <2>4. f = Block(b.at + 0, n)
      BY <1>0, <2>2
    <2> QED
      BY <2>3, <2>4
  <1>4. t \in BlockType /\ Range(m) = {t}
    <2>1. t \in BlockType
      BY <1>0, <1>1 DEF Block, BlockType
    <2> QED
      BY <2>1 DEF Range
  <1> HIDE DEF m
  <1>5. P \subseteq BlockType /\ P = {f, t} /\ f # t
    BY <1>3, <1>4
  <1>6. Tiled((S \ {b}) \cup P, from, e) /\ P \cap (S \ {b}) = {}
    <2>1. from \in Int /\ e \in Int
      BY <1>2
    <2>2. Tiled(S, from, e) /\ Tiled(P, b.at, Ends(b)) /\ S \subseteq BlockType
          /\ P \subseteq BlockType /\ b \in S
      BY <1>1, <1>2, <1>3, <1>5
    <2> HIDE DEF S, P
    <2> QED
      BY <2>1, <2>2, PiecesTile, Zenon
  <1>8. /\ Range(chain) \cup (C \cup {t}) = (S \ {b}) \cup P
        /\ Range(chain) \cap (C \cup {t}) = {} /\ C \cup {t} \subseteq BlockType
        /\ t \notin C /\ f \notin B \ {b}
    BY <1>0, <1>2, <1>3, <1>4, <1>5, <1>6
  <1>9. HeapOK(from, chain, e, D)
    BY <1>0, <1>2, <1>6, <1>8 DEF HeapOK
  <1> QED
    BY <1>8, <1>9

Shrinks(chain, e, U, c, real, tail, len, held, f, n, V) ==
  /\ c \in U /\ Fine(real) /\ tail = c.size - real /\ tail >= Entry
  /\ len \in Nat /\ len + SizeT <= real /\ held \in Nat /\ held <= len
  /\ f = free([free |-> chain, end |-> e], Block(c.at + real, tail))
  /\ n = Chunk(Block(c.at, real), len, SizeT, held) /\ V = (U \ {c}) \cup {n}

LEMMA ShrinkSound ==
  ASSUME NEW from, NEW chain, NEW e, NEW U, HeapSound(from, chain, e, U),
         NEW c, NEW real, NEW tail, NEW len, NEW held, NEW f, NEW n, NEW V,
         Shrinks(chain, e, U, c, real, tail, len, held, f, n, V)
  PROVE  /\ HeapSound(from, f.free, e, V) /\ f.end = e
         /\ n.len = len /\ n.held = held
         /\ \A d \in U \ {c} : d.at # n.at
  <1> DEFINE W == U \ {c}
             b == Of(c)
             g == Block(b.at, real)
             t == Block(b.at + real, tail)
             B == Blocks(U)
             C == (B \ {b}) \cup {g}
  <1>0. /\ c \in U /\ Fine(real) /\ tail = c.size - real /\ tail >= Entry
        /\ len \in Nat /\ len + SizeT <= real /\ held \in Nat /\ held <= len
        /\ f = free([free |-> chain, end |-> e], Block(c.at + real, tail))
        /\ n = Chunk(Block(c.at, real), len, SizeT, held) /\ V = (U \ {c}) \cup {n}
    BY DEF Shrinks
  <1>1. /\ Start <= from /\ U \subseteq ChunkType /\ HeapOK(from, chain, e, B)
        /\ \A x, d \in U : x # d => x.at # d.at
        /\ \A x \in U : x.len + SizeT <= x.size /\ x.held <= x.len /\ (x.at + SizeT) % x.align = 0
    BY DEF HeapSound
  <1>2. Blocks(W) = B \ {b} /\ b \in B
    BY <1>0, <1>1, BlocksOf
  <1>3. b.at = c.at /\ b.size = c.size /\ c.at \in Int /\ c.size \in Int
    BY <1>0, <1>1, OfIs DEF ChunkType
  <1>4. Fine(b.size) /\ b.at \in Int /\ b.at % 8 = 0
    BY <1>1, <1>2, HeapBlocks DEF SizeT
  <1>5. /\ n.at = c.at /\ n.size = real /\ n.len = len /\ n.held = held /\ n.align = SizeT
        /\ n \in ChunkType
    <2>1. real \in Int /\ SizeT \in Nat \ {0}
      BY <1>0 DEF Fine, SizeT
    <2> QED
      BY <1>0, <1>3, <2>1 DEF Chunk, Block, ChunkType
  <1> HIDE DEF b
  <1>6. Of(n) = g
    BY <1>3, <1>5, OfIs
  <1>7. Fine(tail) /\ real + tail = b.size
    <2> DEFINE s == b.size
    <2>1. s \in Int /\ s % 8 = 0 /\ real \in Int /\ real % 8 = 0 /\ tail = s - real
      BY <1>0, <1>3, <1>4 DEF Fine, SizeT
    <2> HIDE DEF s
    <2>2. tail \in Int /\ real + tail = s
      BY <2>1
    <2>3. tail % 8 = 0
      <3>1. PICK i \in Int : s = 8 * i
        BY <2>1
      <3>2. PICK j \in Int : real = 8 * j
        BY <2>1
      <3>3. tail = 8 * (i - j) /\ i - j \in Int
        BY <2>1, <3>1, <3>2
      <3> QED
        BY <3>3
    <2> QED
      BY <1>0, <2>2, <2>3 DEF Fine, SizeT, s
  <1> HIDE DEF g, t, B
  <1>8. /\ HeapOK(from, chain, e, C \cup {t})
        /\ t \notin C
        /\ g \notin B \ {b}
    <2> DEFINE D == C \cup {t}
    <2>1. HeapOK(from, chain, e, B) /\ Cuts(B, b, real, tail, g, t, C, D)
      BY <1>0, <1>1, <1>2, <1>7 DEF Cuts, g, t
    <2> HIDE DEF C, D
    <2>2. /\ HeapOK(from, chain, e, D)
          /\ t \notin C
          /\ g \notin B \ {b}
      BY <2>1, CutUsed
    <2> QED
      BY <2>2 DEF D
  <1> HIDE DEF C
  <1>9. HeapOK(from, f.free, e, C) /\ f.end = e
    <2>1. f = free([free |-> chain, end |-> e], t)
      BY <1>0, <1>3 DEF t
    <2> QED
      BY <1>8, <2>1, FreeKeepsHeap
  <1>10. C = Blocks(W) \cup {Of(n)} /\ Of(n) \notin Blocks(W)
    BY <1>2, <1>6, <1>8 DEF C
  <1>11. /\ W \subseteq ChunkType
         /\ \A x, d \in W : x # d => x.at # d.at
         /\ \A x \in W : x.len + SizeT <= x.size /\ x.held <= x.len /\ (x.at + SizeT) % x.align = 0
    BY <1>1
  <1>12. n.len + SizeT <= n.size /\ n.held <= n.len /\ (n.at + SizeT) % n.align = 0
    BY <1>0, <1>3, <1>4, <1>5 DEF SizeT
  <1> HIDE DEF W
  <1>13. /\ HeapSound(from, f.free, e, W \cup {n})
         /\ \A d \in W : d.at # n.at
    <2>1. HeapOK(from, f.free, e, Blocks(W) \cup {Of(n)})
      BY <1>9, <1>10
    <2> QED
      BY <1>1, <1>5, <1>10, <1>11, <1>12, <2>1, AddSound
  <1> QED
    BY <1>0, <1>5, <1>9, <1>13 DEF W

(* realloc leaves a chunk as it is.                                        *)
Stands(U, c, len, held, n, V) ==
  /\ c \in U /\ len \in Nat /\ len + SizeT <= c.size /\ held \in Nat /\ held <= len
  /\ n = Chunk(Block(c.at, c.size), len, SizeT, held) /\ V = (U \ {c}) \cup {n}

LEMMA KeepSound ==
  ASSUME NEW from, NEW chain, NEW e, NEW U, HeapSound(from, chain, e, U),
         NEW c, NEW len, NEW held, NEW n, NEW V, Stands(U, c, len, held, n, V)
  PROVE  /\ HeapSound(from, chain, e, V)
         /\ n.len = len /\ n.held = held
         /\ \A d \in U \ {c} : d.at # n.at
  <1> DEFINE W == U \ {c}
  <1>0. /\ c \in U /\ len \in Nat /\ len + SizeT <= c.size /\ held \in Nat /\ held <= len
        /\ n = Chunk(Block(c.at, c.size), len, SizeT, held) /\ V = (U \ {c}) \cup {n}
    BY DEF Stands
  <1>1. /\ Start <= from /\ U \subseteq ChunkType /\ HeapOK(from, chain, e, Blocks(U))
        /\ \A x, d \in U : x # d => x.at # d.at
        /\ \A x \in U : x.len + SizeT <= x.size /\ x.held <= x.len /\ (x.at + SizeT) % x.align = 0
    BY DEF HeapSound
  <1>2. Blocks(W) = Blocks(U) \ {Of(c)} /\ Of(c) \in Blocks(U)
    BY <1>0, <1>1, BlocksOf
  <1>3. c.at \in Int /\ c.size \in Int
    BY <1>0, <1>1 DEF ChunkType
  <1>4. c.at % 8 = 0
    BY <1>1, <1>2, HeapBlocks, OfIs DEF SizeT
  <1>5. /\ n.at = c.at /\ n.size = c.size /\ n.len = len /\ n.held = held /\ n.align = SizeT
        /\ n \in ChunkType
    <2>1. SizeT \in Nat \ {0}
      BY DEF SizeT
    <2> QED
      BY <1>0, <1>3, <2>1 DEF Chunk, Block, ChunkType
  <1>6. Of(n) = Of(c)
    BY <1>5, OfIs
  <1>7. Blocks(W) \cup {Of(n)} = Blocks(U) /\ Of(n) \notin Blocks(W)
    BY <1>2, <1>6
  <1>8. /\ W \subseteq ChunkType
        /\ \A x, d \in W : x # d => x.at # d.at
        /\ \A x \in W : x.len + SizeT <= x.size /\ x.held <= x.len /\ (x.at + SizeT) % x.align = 0
    BY <1>1
  <1>9. n.len + SizeT <= n.size /\ n.held <= n.len /\ (n.at + SizeT) % n.align = 0
    BY <1>0, <1>3, <1>4, <1>5 DEF SizeT
  <1> HIDE DEF W
  <1>10. /\ HeapSound(from, chain, e, W \cup {n})
         /\ \A d \in W : d.at # n.at
    <2>1. HeapOK(from, chain, e, Blocks(W) \cup {Of(n)})
      BY <1>1, <1>7
    <2> QED
      BY <1>1, <1>5, <1>7, <1>8, <1>9, <2>1, AddSound
  <1> QED
    BY <1>0, <1>5, <1>10 DEF W

-----------------------------------------------------------------------------
(* The calls.                                                              *)

(* What MallocAssumption says of one request.                              *)
LEMMA Asked ==
  ASSUME NEW sz \in Sizes
  PROVE  /\ sz \in Nat /\ 2 * sz \in Nat /\ (2 * sz) % Word = 2 * sz
         /\ sz + M_ALIGN(sz, PAGE) \in Nat
         /\ Frame \in Nat /\ Word \in Nat /\ Frame < Word
         /\ PAGE \in Nat \ {0}
         /\ {sz, 2 * sz, sz + M_ALIGN(sz, PAGE)} \subseteq Requests
  <1>1. /\ Word \in Nat /\ PAGE \in Nat \ {0} /\ sz \in Nat /\ Frame \in Nat
        /\ REAL_SIZE(2 * sz + PAGE) + PAGE + Entry + Frame < Word
    BY MallocAssumption
  <1> DEFINE n == 2 * sz + PAGE
             r == REAL_SIZE(n)
             m == M_ALIGN(sz, PAGE)
  <1>2. n \in Nat /\ n >= 2 * sz
    BY <1>1
  <1>3. r \in Int /\ r >= n + 8
    <2> HIDE DEF n
    <2> QED
      BY <1>2, RealSize DEF Fine, SizeT
  <1>4. r + PAGE + Entry + Frame < Word
    BY <1>1
  <1> HIDE DEF n, r
  <1>5. 2 * sz \in Nat /\ 2 * sz < Word /\ Frame < Word
    BY <1>1, <1>2, <1>3, <1>4 DEF Entry
  <1>6. (2 * sz) % Word = 2 * sz
    <2> DEFINE d == 2 * sz
    <2>1. d \in Nat /\ d < Word /\ Word \in Nat
      BY <1>1, <1>5
    <2> HIDE DEF d
    <2>2. d % Word = d
      BY <2>1
    <2> QED
      BY <2>2 DEF d
  <1>7. sz + m \in Nat
    <2>1. m \in Nat
      BY <1>1, AlignUp
    <2> HIDE DEF m
    <2> QED
      BY <1>1, <2>1
  <1>8. {sz, 2 * sz, sz + m} \subseteq Requests
    BY DEF Requests
  <1> QED
    BY <1>1, <1>5, <1>6, <1>7, <1>8

LEMMA RequestsAreLengths == Requests \subseteq Nat
  <1> SUFFICES ASSUME NEW n \in Requests PROVE n \in Nat
    OBVIOUS
  <1>1. PICK sz \in Sizes : n \in {sz, 2 * sz, sz + M_ALIGN(sz, PAGE)}
    BY DEF Requests
  <1> QED
    BY <1>1, Asked

(* What a step may do to the chunks: nothing; allocate; release; resize;   *)
(* or take them all away.                                                  *)
Serves(U, V) ==
  \/ V = U
  \/ \E n \in V : /\ V = U \cup {n} /\ n.len \in Requests /\ n.held = n.len
                  /\ \A c \in U : c.at # n.at
  \/ \E c \in U : V = U \ {c}
  \/ \E c \in U : \E n \in V :
        /\ V = (U \ {c}) \cup {n} /\ n.len \in Requests /\ n.held = Min2(c.held, n.len)
        /\ \A d \in U \ {c} : d.at # n.at
  \/ V = {}

LEMMA AllotServes ==
  ASSUME NEW from, NEW chain, NEW e, NEW U, HeapSound(from, chain, e, U),
         NEW r, NEW real, Fine(real), NEW align \in Nat \ {0}, NEW len \in Requests,
         Allots(from, Blocks(U), r, real, align), len + SizeT <= real
  PROVE  LET V == U \cup (IF r.block = NULL THEN {} ELSE {Chunk(r.block, len, align, len)})
         IN  HeapSound(from, r.free, r.end, V) /\ Serves(U, V)
  <1>1. CASE r.block = NULL
    <2>1. HeapOK(from, r.free, r.end, Blocks(U))
      BY <1>1 DEF Allots
    <2>2. HeapSound(from, r.free, r.end, U)
      BY <2>1 DEF HeapSound
    <2> QED
      BY <1>1, <2>2 DEF Serves
  <1>2. CASE r.block # NULL
    <2> DEFINE n == Chunk(r.block, len, align, len)
    <2>1. len \in Nat /\ len <= len /\ real \in Int
      BY RequestsAreLengths DEF Fine
    <2> DEFINE V == U \cup {n}
    <2>2. Gets(U, r, real, align, len, len, n, V)
      BY <1>2, <2>1 DEF Gets
    <2> HIDE DEF n, V
    <2>3. /\ HeapSound(from, r.free, r.end, V)
          /\ n \in ChunkType /\ n.len = len /\ n.held = len
          /\ \A c \in U : c.at # n.at
      BY <2>2, AllotSound
    <2>4. Serves(U, V)
      BY <2>3 DEF Serves, V
    <2> QED
      BY <1>2, <2>3, <2>4 DEF n, V
  <1> QED
    BY <1>1, <1>2

(* A call that frees, with its parts named.                                *)
LEMMA Freeing ==
  ASSUME NEW from, NEW chain, NEW e, NEW U, HeapSound(from, chain, e, U), NEW c \in U,
         NEW h, h = [free |-> chain, end |-> e], NEW b, b = Block(c.at, c.size),
         NEW V, V = U \ {c}, NEW f, f = free(h, b)
  PROVE  HeapSound(from, f.free, e, V) /\ f.end = e
  BY FreeSound

(* realloc moves a chunk.                                                  *)
LEMMA MoveServes ==
  ASSUME NEW from, NEW chain, NEW e, NEW U, HeapSound(from, chain, e, U), NEW c \in U,
         NEW sz \in Sizes, NEW r, Allots(from, Blocks(U), r, REAL_SIZE(sz), SizeT),
         r.block # NULL
  PROVE  LET f == free([free |-> r.free, end |-> r.end], Block(c.at, c.size))
             n == Chunk(r.block, sz, SizeT, Min2(c.held, Copied(c, sz)))
             V == (U \ {c}) \cup {n}
         IN  HeapSound(from, f.free, f.end, V) /\ Serves(U, V)
  <1> DEFINE real == REAL_SIZE(sz)
             held == Min2(c.held, Copied(c, sz))
             n == Chunk(r.block, sz, SizeT, held)
             f == free([free |-> r.free, end |-> r.end], Block(c.at, c.size))
             W == U \cup {n}
             V == (U \ {c}) \cup {n}
  <1>1. sz \in Nat /\ sz \in Requests
    BY Asked
  <1>2. c \in ChunkType /\ c.len + SizeT <= c.size /\ c.held <= c.len
    BY DEF HeapSound
  <1>3. held = Min2(c.held, sz) /\ held \in Nat /\ held <= sz
    BY <1>1, <1>2 DEF ChunkType, Min2, Copied, SizeT
  <1>4. real \in Int /\ sz + SizeT <= real /\ SizeT \in Nat \ {0}
    BY <1>1, RealSize DEF Fine, SizeT
  <1>5. Allots(from, Blocks(U), r, real, SizeT)
    OBVIOUS
  <1> HIDE DEF held, real
  <1>6. /\ HeapSound(from, r.free, r.end, W) /\ n \in ChunkType
        /\ n.len = sz /\ n.held = held
        /\ \A d \in U : d.at # n.at
    <2>1. Gets(U, r, real, SizeT, sz, held, n, W)
      BY <1>1, <1>3, <1>4 DEF Gets
    <2> HIDE DEF n, W
    <2> QED
      BY <1>5, <2>1, AllotSound
  <1> HIDE DEF n
  <1>7. c \in W /\ W \ {c} = V
    BY <1>6
  <1> HIDE DEF W, V
  <1>9. HeapSound(from, f.free, r.end, V) /\ f.end = r.end
    <2> DEFINE h == [free |-> r.free, end |-> r.end]
               b == Block(c.at, c.size)
    <2>1. f = free(h, b) /\ h = [free |-> r.free, end |-> r.end] /\ b = Block(c.at, c.size)
      OBVIOUS
    <2> HIDE DEF f, h, b
    <2> QED
      BY <1>6, <1>7, <2>1, Freeing
  <1> HIDE DEF f
  <1>10. HeapSound(from, f.free, f.end, V)
    BY <1>7, <1>9
  <1>11. Serves(U, V)
    BY <1>1, <1>3, <1>6 DEF Serves, V
  <1> QED
    BY <1>10, <1>11 DEF f, n, V, held

-----------------------------------------------------------------------------
(* The steps.                                                              *)

StateInv == HeapSound(base, freelist, end, used)

(* A call that allocates leaves the heap in order.                         *)
LEMMA ReturnsStep ==
  ASSUME StateInv, NEW r, NEW real, Fine(real), NEW align \in Nat \ {0}, NEW len \in Requests,
         Allots(base, Blocks(used), r, real, align), len + SizeT <= real,
         NEW V, V = used \cup (IF r.block = NULL THEN {} ELSE {Chunk(r.block, len, align, len)})
  PROVE  HeapSound(base, r.free, r.end, V) /\ Serves(used, V)
  <1>1. HeapSound(base, freelist, end, used)
    BY DEF StateInv
  <1>2. LET W == used \cup (IF r.block = NULL THEN {} ELSE {Chunk(r.block, len, align, len)})
        IN  HeapSound(base, r.free, r.end, W) /\ Serves(used, W)
    BY <1>1, AllotServes
  <1> QED
    BY <1>2

LEMMA StateIs ==
  ASSUME StateInv
  PROVE  /\ HeapOK(base, heap.free, heap.end, Blocks(used))
         /\ heap.free = freelist /\ heap.end = end
         /\ heap = [free |-> freelist, end |-> end]
  BY DEF StateInv, HeapSound, heap

LEMMA MallocStep ==
  ASSUME StateInv, NEW sz \in Sizes, NEW len \in Requests,
         Returns(malloc(heap, len), len, SizeT)
  PROVE  StateInv' /\ Serves(used, used')
  <1> DEFINE real == REAL_SIZE(len)
             r == malloc(heap, len)
             V == used \cup (IF r.block = NULL THEN {} ELSE {Chunk(r.block, len, SizeT, len)})
  <1>1. freelist' = r.free /\ end' = r.end /\ used' = V /\ base' = base
    BY DEF Returns, Leaves
  <1>2. len \in Nat /\ Fine(real) /\ len + SizeT <= real /\ SizeT \in Nat \ {0}
    <2>1. len \in Nat
      BY RequestsAreLengths
    <2>2. Fine(real) /\ real >= len + SizeT
      BY <2>1, RealSize
    <2> HIDE DEF real
    <2> QED
      BY <2>1, <2>2 DEF Fine, SizeT
  <1>3. Allots(base, Blocks(used), r, real, SizeT)
    <2>1. HeapOK(base, heap.free, heap.end, Blocks(used))
      BY StateIs
    <2>2. Frame \in Nat /\ Word \in Nat /\ Frame < Word
      BY Asked
    <2> QED
      BY <1>2, <2>1, <2>2, MallocKeeps
  <1>4. V = used \cup (IF r.block = NULL THEN {} ELSE {Chunk(r.block, len, SizeT, len)})
    OBVIOUS
  <1> HIDE DEF r, real, V
  <1>5. HeapSound(base, r.free, r.end, V) /\ Serves(used, V)
    BY <1>2, <1>3, <1>4, ReturnsStep
  <1> QED
    BY <1>1, <1>5 DEF StateInv

LEMMA MemalignStep ==
  ASSUME StateInv, NEW sz \in Sizes, NEW len \in Requests, NEW align,
         Memalign(align, len)
  PROVE  StateInv' /\ Serves(used, used')
  <1> DEFINE real == REAL_SIZE(len)
             r == memalign(heap, align, len)
             V == used \cup (IF r.block = NULL THEN {} ELSE {Chunk(r.block, len, align, len)})
  <1>1. freelist' = r.free /\ end' = r.end /\ used' = V /\ base' = base
    BY DEF Memalign, Returns, Leaves
  <1>2. len \in Nat /\ Fine(real) /\ len + SizeT <= real
    <2>1. len \in Nat
      BY RequestsAreLengths
    <2>2. Fine(real) /\ real >= len + SizeT
      BY <2>1, RealSize
    <2> HIDE DEF real
    <2> QED
      BY <2>1, <2>2 DEF Fine, SizeT
  <1>3. /\ Allots(base, Blocks(used), r, real, align)
        /\ align \notin PowersOf2 => r.block = NULL
    <2>1. HeapOK(base, heap.free, heap.end, Blocks(used))
      BY StateIs
    <2>2. Frame \in Nat /\ Word \in Nat /\ Frame < Word
      BY Asked
    <2> QED
      BY <1>2, <2>1, <2>2, MemalignKeeps
  <1> HIDE DEF r, real
  <1>4. CASE align \in PowersOf2
    <2>1. align \in Nat \ {0}
      BY <1>4, PowerIs
    <2>2. V = used \cup (IF r.block = NULL THEN {} ELSE {Chunk(r.block, len, align, len)})
      OBVIOUS
    <2> HIDE DEF V
    <2>3. HeapSound(base, r.free, r.end, V) /\ Serves(used, V)
      BY <1>2, <1>3, <2>1, <2>2, ReturnsStep
    <2> QED
      BY <1>1, <2>3 DEF StateInv
  <1>5. CASE align \notin PowersOf2
    <2>1. r.block = NULL /\ V = used
      BY <1>3, <1>5
    <2> HIDE DEF V
    <2>2. HeapOK(base, r.free, r.end, Blocks(used))
      BY <1>3, <2>1 DEF Allots
    <2>3. HeapSound(base, r.free, r.end, used)
      BY <2>2 DEF StateInv, HeapSound
    <2> QED
      BY <1>1, <2>1, <2>3 DEF StateInv, Serves
  <1> QED
    BY <1>4, <1>5

LEMMA FreeStep ==
  ASSUME StateInv, NEW c \in used, Free(c)
  PROVE  StateInv' /\ Serves(used, used')
  <1> DEFINE f == free(heap, Block(c.at, c.size))
             V == used \ {c}
  <1>1. freelist' = f.free /\ end' = f.end /\ used' = V /\ base' = base
    BY DEF Free, Leaves, Gives
  <1>2. HeapSound(base, freelist, end, used) /\ heap = [free |-> freelist, end |-> end]
    BY StateIs DEF StateInv
  <1>3. V = used \ {c}
    OBVIOUS
  <1> DEFINE h == heap
             b == Block(c.at, c.size)
  <1>4. h = [free |-> freelist, end |-> end] /\ b = Block(c.at, c.size) /\ f = free(h, b)
    BY <1>2
  <1> HIDE DEF f, h, b, V
  <1>5. HeapSound(base, f.free, end, V) /\ f.end = end
    BY <1>2, <1>3, <1>4, Freeing
  <1> QED
    BY <1>1, <1>3, <1>5 DEF StateInv, Serves

LEMMA MoveStep ==
  ASSUME StateInv, NEW c \in used, NEW sz \in Sizes, Move(c, sz)
  PROVE  StateInv' /\ Serves(used, used')
  <1> DEFINE r == malloc(heap, sz)
             f == free([free |-> r.free, end |-> r.end], Block(c.at, c.size))
             n == Chunk(r.block, sz, SizeT, Min2(c.held, Copied(c, sz)))
             V == (used \ {c}) \cup {n}
  <1>1. CASE r.block = NULL
    <2>1. UNCHANGED vars
      BY <1>1 DEF Move
    <2> QED
      BY <2>1 DEF vars, StateInv, Serves
  <1>2. CASE r.block # NULL
    <2>1. freelist' = f.free /\ end' = f.end /\ used' = V /\ base' = base
      BY <1>2 DEF Move, Leaves, Gives
    <2>2. Allots(base, Blocks(used), r, REAL_SIZE(sz), SizeT)
      <3>1. HeapOK(base, heap.free, heap.end, Blocks(used))
        BY StateIs
      <3>2. Frame \in Nat /\ Word \in Nat /\ Frame < Word /\ sz \in Nat
        BY Asked
      <3> QED
        BY <3>1, <3>2, MallocKeeps
    <2> HIDE DEF r
    <2>3. HeapSound(base, freelist, end, used)
      BY DEF StateInv
    <2>4. HeapSound(base, f.free, f.end, V) /\ Serves(used, V)
      BY <1>2, <2>2, <2>3, MoveServes
    <2> HIDE DEF f, V
    <2> QED
      BY <2>1, <2>4 DEF StateInv
  <1> QED
    BY <1>1, <1>2

LEMMA ShrinkStep ==
  ASSUME StateInv, NEW c \in used, NEW sz \in Sizes, Shrink(c, sz)
  PROVE  StateInv' /\ Serves(used, used')
  <1> DEFINE real == REAL_SIZE(sz)
             tail == c.size - real
             held == Min2(c.held, sz)
  <1>1. HeapSound(base, freelist, end, used) /\ heap = [free |-> freelist, end |-> end]
    BY StateIs DEF StateInv
  <1>2. c \in ChunkType /\ c.held <= c.len
    BY <1>1 DEF HeapSound
  <1>3. sz \in Nat /\ sz \in Requests /\ Fine(real) /\ sz + SizeT <= real
    <2>1. sz \in Nat /\ sz \in Requests
      BY Asked
    <2>2. Fine(real) /\ real >= sz + SizeT
      BY <2>1, RealSize
    <2> HIDE DEF real
    <2> QED
      BY <2>1, <2>2 DEF Fine, SizeT
  <1>4. held \in Nat /\ held <= sz /\ c.size >= real /\ c.size \in Int
    BY <1>2, <1>3 DEF Min2, ChunkType, Shrink
  <1>5. CASE tail >= Entry
    <2> DEFINE g == Block(c.at, real)
               n == Chunk(g, sz, SizeT, held)
               f == free(heap, Block(c.at + real, tail))
               V == (used \ {c}) \cup {n}
    <2>1. g # NULL
      <3> HIDE DEF real
      <3> QED
        BY <1>3 DEF NULL, Block, Fine, Entry
    <2>2. freelist' = f.free /\ end' = f.end /\ used' = V /\ base' = base
      <3>1. Leaves(Gives(f.free, f.end, g), used \ {c}, n)
        BY <1>5 DEF Shrink
      <3> HIDE DEF f, g, n
      <3> QED
        BY <2>1, <3>1 DEF Leaves, Gives
    <2>3. Shrinks(freelist, end, used, c, real, tail, sz, held, f, n, V)
      <3>1. tail = c.size - real
        OBVIOUS
      <3> HIDE DEF real, tail, held
      <3> QED
        BY <1>1, <1>3, <1>4, <1>5, <3>1 DEF Shrinks
    <2> HIDE DEF f, n, V, real, tail, held
    <2>4. /\ HeapSound(base, f.free, end, V) /\ f.end = end
          /\ n.len = sz /\ n.held = held
          /\ \A d \in used \ {c} : d.at # n.at
      BY <1>1, <2>3, ShrinkSound
    <2>5. V = (used \ {c}) \cup {n}
      BY DEF V
    <2>6. n.held = Min2(c.held, n.len) /\ n.len \in Requests
      BY <1>3, <2>4 DEF held
    <2>7. Serves(used, V)
      BY <2>4, <2>5, <2>6 DEF Serves
    <2> QED
      BY <2>2, <2>4, <2>7 DEF StateInv
  <1>6. CASE ~(tail >= Entry)
    <2> DEFINE g == Block(c.at, c.size)
               n == Chunk(g, sz, SizeT, held)
               V == (used \ {c}) \cup {n}
    <2>1. g # NULL
      <3> HIDE DEF real
      <3> QED
        BY <1>3, <1>4 DEF NULL, Block, Fine, Entry
    <2>2. freelist' = freelist /\ end' = end /\ used' = V /\ base' = base
      <3>1. Leaves(Gives(freelist, end, g), used \ {c}, n)
        BY <1>6 DEF Shrink
      <3> HIDE DEF g, n
      <3> QED
        BY <2>1, <3>1 DEF Leaves, Gives
    <2>3. Stands(used, c, sz, held, n, V)
      <3>1. sz + SizeT <= c.size
        <4> HIDE DEF real
        <4> QED
          BY <1>3, <1>4 DEF Fine, SizeT
      <3> HIDE DEF held
      <3> QED
        BY <1>3, <1>4, <3>1 DEF Stands
    <2> HIDE DEF n, V, real, tail, held
    <2>4. /\ HeapSound(base, freelist, end, V)
          /\ n.len = sz /\ n.held = held
          /\ \A d \in used \ {c} : d.at # n.at
      BY <1>1, <2>3, KeepSound
    <2>5. V = (used \ {c}) \cup {n}
      BY DEF V
    <2>6. n.held = Min2(c.held, n.len) /\ n.len \in Requests
      BY <1>3, <2>4 DEF held
    <2>7. Serves(used, V)
      BY <2>4, <2>5, <2>6 DEF Serves
    <2> QED
      BY <2>2, <2>4, <2>7 DEF StateInv
  <1> QED
    BY <1>5, <1>6

(* A heap with nothing in it.                                              *)
LEMMA EmptySound ==
  ASSUME NEW e \in Nat, Start <= e, e <= Frame - GAP, e % SizeT = 0
  PROVE  HeapSound(e, <<>>, e, {})
  <1>1. Blocks({}) = {} /\ Range(<<>>) = {} /\ <<>> \in Seq(BlockType) /\ DOMAIN <<>> = {}
    BY DEF Blocks, Range
  <1>2. Tiled({}, e, e) /\ Chained(<<>>)
    BY <1>1 DEF Tiled, Chained
  <1>3. HeapOK(e, <<>>, e, {})
    <2>1. Range(<<>>) \cup {} = {} /\ Range(<<>>) \cap {} = {} /\ {} \subseteq BlockType /\ e <= e
      BY <1>1
    <2> QED
      BY <1>1, <1>2, <2>1, Zenon DEF HeapOK
  <1> QED
    BY <1>1, <1>3 DEF HeapSound

LEMMA InitStep ==
  ASSUME Init
  PROVE  StateInv
  <1>1. /\ Start \in Nat /\ Start <= Start /\ Start % SizeT = 0 /\ Frame \in Nat
        /\ Start + GAP <= Frame
    BY MallocAssumption
  <1>2. Start <= Frame - GAP
    BY <1>1 DEF GAP
  <1>3. HeapSound(Start, <<>>, Start, {})
    BY <1>1, <1>2, EmptySound
  <1> QED
    BY <1>3 DEF Init, StateInv

LEMMA RestartStep ==
  ASSUME StateInv, Restart
  PROVE  StateInv' /\ Serves(used, used')
  <1>1. /\ end \in Nat /\ end <= Frame - GAP /\ end % SizeT = 0 /\ base \in Nat /\ base <= end
        /\ Start <= base /\ Start \in Nat
    BY MallocAssumption DEF StateInv, HeapSound, HeapOK
  <1>2. HeapSound(end, <<>>, end, {})
    BY <1>1, EmptySound
  <1> QED
    BY <1>2 DEF Restart, StateInv, Serves

LEMMA NextStep ==
  ASSUME StateInv, [Next]_vars
  PROVE  StateInv' /\ Serves(used, used')
  <1>1. ASSUME NEW sz \in Sizes, Malloc(sz)
        PROVE  StateInv' /\ Serves(used, used')
    <2>1. sz \in Requests
      BY Asked
    <2> QED
      BY <1>1, <2>1, MallocStep DEF Malloc
  <1>2. ASSUME NEW sz \in Sizes, Calloc(2, sz)
        PROVE  StateInv' /\ Serves(used, used')
    <2>1. 2 * sz \in Requests /\ (2 * sz) % Word = 2 * sz
      BY Asked
    <2> DEFINE len == 2 * sz
    <2>2. Returns(malloc(heap, len), len, SizeT)
      BY <1>2, <2>1 DEF Calloc
    <2>3. len \in Requests
      BY <2>1
    <2> HIDE DEF len
    <2> QED
      BY <2>2, <2>3, MallocStep
  <1>3. ASSUME NEW sz \in Sizes, Valloc(sz) \/ Pvalloc(sz)
        PROVE  StateInv' /\ Serves(used, used')
    <2>1. sz \in Requests /\ sz + M_ALIGN(sz, PAGE) \in Requests
      BY Asked
    <2> QED
      BY <1>3, <2>1, MemalignStep DEF Valloc, Pvalloc
  <1>4. ASSUME NEW sz \in Sizes, NEW align \in Aligns, Memalign(align, sz)
        PROVE  StateInv' /\ Serves(used, used')
    <2>1. sz \in Requests
      BY Asked
    <2> QED
      BY <1>4, <2>1, MemalignStep
  <1>5. ASSUME NEW c \in used, Free(c)
        PROVE  StateInv' /\ Serves(used, used')
    BY <1>5, FreeStep
  <1>6. ASSUME NEW c \in used, NEW sz \in Sizes, Realloc(c, sz)
        PROVE  StateInv' /\ Serves(used, used')
    BY <1>6, MoveStep, ShrinkStep DEF Realloc
  <1>7. CASE Restart
    BY <1>7, RestartStep
  <1>8. CASE UNCHANGED vars
    BY <1>8 DEF vars, StateInv, Serves
  <1> QED
    BY <1>1, <1>2, <1>3, <1>4, <1>5, <1>6, <1>7, <1>8 DEF Next

LEMMA StateHolds == Spec => []StateInv
  <1>1. Init => StateInv
    BY InitStep
  <1>2. StateInv /\ [Next]_vars => StateInv'
    BY NextStep
  <1> QED
    BY <1>1, <1>2, PTL DEF Spec

-----------------------------------------------------------------------------
(* No byte of the heap is lost or given out twice, for every heap and all  *)
(* requests: what malloc, memalign, free and realloc of tiny-malloc.c leave.*)
THEOREM HeapIsSound == Spec => []HeapInv
  <1>1. ASSUME StateInv PROVE HeapInv
    <2>1. \A c \in used : c.len <= malloc_usable_size(c)
      <3> SUFFICES ASSUME NEW c \in used PROVE c.len <= c.size - 8
        BY DEF malloc_usable_size, SizeT
      <3>1. c \in ChunkType /\ c.len + SizeT <= c.size
        BY <1>1 DEF StateInv, HeapSound
      <3> QED
        BY <3>1 DEF ChunkType, SizeT
    <2> QED
      BY <1>1, <2>1 DEF StateInv, HeapSound, HeapOK, HeapInv
  <1> QED
    BY <1>1, StateHolds, PTL

-----------------------------------------------------------------------------
(* What the program sees of the chunks.                                    *)

(* A chunk lies where the service allows it.                               *)
LEMMA PlacedIs ==
  ASSUME NEW from, NEW chain, NEW e, NEW U, HeapSound(from, chain, e, U), NEW c \in U,
         NEW D, D \subseteq U \ {c}
  PROVE  HS!Placed(Seen(c), {Seen(d) : d \in D})
  <1>1. /\ Start \in Nat /\ Start <= from /\ from \in Nat /\ e \in Int /\ e <= Frame - GAP
        /\ Frame \in Nat
    BY MallocAssumption DEF HeapSound, HeapOK
  <1>2. \A d \in U :
           /\ d \in ChunkType /\ d.len + 8 <= d.size /\ (d.at + 8) % d.align = 0
           /\ from <= d.at /\ Ends(d) <= e /\ Ends(d) = d.at + d.size
    <2> SUFFICES ASSUME NEW d \in U
                 PROVE  /\ d \in ChunkType /\ d.len + 8 <= d.size /\ (d.at + 8) % d.align = 0
                        /\ from <= d.at /\ Ends(d) <= e /\ Ends(d) = d.at + d.size
      OBVIOUS
    <2>1. d \in ChunkType /\ d.len + 8 <= d.size /\ (d.at + 8) % d.align = 0
      BY DEF HeapSound, SizeT
    <2>2. HeapOK(from, chain, e, Blocks(U)) /\ Of(d) \in Blocks(U)
      BY BlocksOf DEF HeapSound
    <2>3. from <= Of(d).at /\ Ends(Of(d)) <= e
      BY <2>2, HeapBlocks
    <2> QED
      BY <2>1, <2>3, OfIs DEF Ends
  <1>3. \A d \in D : Behind(c, d) \/ Behind(d, c)
    <2> SUFFICES ASSUME NEW d \in D PROVE Behind(c, d) \/ Behind(d, c)
      OBVIOUS
    <2>1. d \in U /\ c.at # d.at
      BY DEF HeapSound
    <2>2. HeapOK(from, chain, e, Blocks(U)) /\ Of(c) \in Blocks(U) /\ Of(d) \in Blocks(U)
      BY <2>1, BlocksOf DEF HeapSound
    <2>3. Of(c) # Of(d)
      BY <2>1, OfIs
    <2>4. Behind(Of(c), Of(d)) \/ Behind(Of(d), Of(c))
      BY <2>2, <2>3, HeapBlocks
    <2> QED
      BY <2>4, OfIs DEF Behind
  <1>4. \A d \in U : Seen(d).at = d.at + 8 /\ Seen(d).len = d.len /\ Seen(d).align = d.align
                     /\ d.at \in Int /\ d.size \in Int /\ d.len \in Nat
    BY <1>2 DEF Seen, SizeT, ChunkType
  <1> DEFINE s == Seen(c)
  <1>5. s.at \in Start .. Frame - GAP - 1 /\ (s.len > 0 => HS!End(s) - 1 \in Start .. Frame - GAP - 1)
        /\ s.at % s.align = 0
    <2>1. /\ s.at = c.at + 8 /\ s.len = c.len /\ s.align = c.align /\ c.at \in Int
          /\ c.size \in Int /\ c.len \in Nat /\ c.len + 8 <= c.size /\ from <= c.at
          /\ c.at + c.size <= e
      BY <1>2, <1>4
    <2>2. s.at % s.align = 0
      BY <1>2, <2>1
    <2>3. c.size >= 16
      <3>1. HeapOK(from, chain, e, Blocks(U)) /\ Of(c) \in Blocks(U)
        BY BlocksOf DEF HeapSound
      <3>2. Fine(Of(c).size)
        BY <3>1, HeapBlocks
      <3> QED
        BY <3>2, OfIs DEF Fine, Entry
    <2> HIDE DEF s
    <2> QED
      BY <1>1, <2>1, <2>2, <2>3 DEF HS!End, GAP
  <1>6. \A d \in D : HS!Apart(s, Seen(d))
    <2> SUFFICES ASSUME NEW d \in D PROVE HS!Apart(s, Seen(d))
      OBVIOUS
    <2> DEFINE u == Seen(d)
    <2>1. /\ s.at = c.at + 8 /\ s.len = c.len /\ u.at = d.at + 8 /\ u.len = d.len
          /\ c.at \in Int /\ c.size \in Int /\ c.len \in Nat /\ c.len + 8 <= c.size
          /\ d.at \in Int /\ d.size \in Int /\ d.len \in Nat /\ d.len + 8 <= d.size
          /\ Ends(d) = d.at + d.size /\ Ends(c) = c.at + c.size
      BY <1>2, <1>4
    <2>2. Ends(d) <= c.at \/ Ends(c) <= d.at
      BY <1>3 DEF Behind
    <2> HIDE DEF s, u
    <2>3. HS!Apart(s, u)
      BY <2>1, <2>2 DEF HS!Apart, HS!End
    <2> QED
      BY <2>3 DEF u
  <1> HIDE DEF s
  <1>7. HS!Placed(s, {Seen(d) : d \in D})
    BY <1>5, <1>6 DEF HS!Placed
  <1> QED
    BY <1>7 DEF s

LEMMA SeenIs ==
  ASSUME NEW U, \A c, d \in U : c # d => c.at # d.at, NEW c \in U, U \subseteq ChunkType
  PROVE  {Seen(d) : d \in U \ {c}} = {Seen(d) : d \in U} \ {Seen(c)}
  <1>1. \A d \in U : Seen(d) = Seen(c) => d = c
    <2> SUFFICES ASSUME NEW d \in U, Seen(d) = Seen(c) PROVE d.at = c.at
      OBVIOUS
    <2>1. Seen(d).at = d.at + 8 /\ Seen(c).at = c.at + 8 /\ d.at \in Int /\ c.at \in Int
      BY DEF Seen, SizeT, ChunkType
    <2> QED
      BY <2>1
  <1> QED
    BY <1>1

LEMMA SeenInit ==
  ASSUME Init
  PROVE  HS!Init
  BY DEF Init, HS!Init

(* Every step is one of the service, or none.                              *)
LEMMA SeenStep ==
  ASSUME StateInv, StateInv', Serves(used, used')
  PROVE  HS!Next \/ UNCHANGED {Seen(c) : c \in used}
  <1> DEFINE S == {Seen(c) : c \in used}
             T == {Seen(c) : c \in used'}
  <1>1. /\ \A c, d \in used : c # d => c.at # d.at
        /\ used \subseteq ChunkType
    BY DEF StateInv, HeapSound
  <1>2. /\ HeapSound(base', freelist', end', used')
        /\ \A c, d \in used' : c # d => c.at # d.at
    BY DEF StateInv, HeapSound
  <1>3. \A c \in used' : \A D : D \subseteq used' \ {c} =>
           HS!Placed(Seen(c), {Seen(d) : d \in D})
    BY <1>2, PlacedIs
  <1>4. CASE used' = used
    BY <1>4
  <1>5. ASSUME NEW n \in used', used' = used \cup {n}, n.len \in Requests, n.held = n.len,
               \A c \in used : c.at # n.at
        PROVE  HS!Next
    <2>1. used \subseteq used' \ {n}
      BY <1>5
    <2>2. HS!Placed(Seen(n), S)
      BY <1>3, <2>1
    <2>3. T = S \cup {Seen(n)}
      BY <1>5
    <2>4. Seen(n).len = n.len /\ Seen(n).held = n.held
      BY DEF Seen
    <2>5. HS!Allocate(Seen(n))
      BY <1>5, <2>2, <2>3, <2>4 DEF HS!Allocate
    <2>6. Seen(n) \in T
      OBVIOUS
    <2> QED
      BY <2>5, <2>6 DEF HS!Next
  <1>6. ASSUME NEW c \in used, used' = used \ {c}
        PROVE  HS!Next
    <2>1. T = S \ {Seen(c)}
      BY <1>1, <1>6, SeenIs
    <2>2. Seen(c) \in S
      OBVIOUS
    <2>3. HS!Release(Seen(c))
      BY <2>1 DEF HS!Release
    <2> QED
      BY <2>2, <2>3 DEF HS!Next
  <1>7. ASSUME NEW c \in used, NEW n \in used', used' = (used \ {c}) \cup {n},
               n.len \in Requests, n.held = Min2(c.held, n.len),
               \A d \in used \ {c} : d.at # n.at
        PROVE  HS!Next
    <2>1. used \ {c} \subseteq used' \ {n}
      BY <1>7
    <2>2. HS!Placed(Seen(n), {Seen(d) : d \in used \ {c}})
      BY <1>3, <2>1
    <2>3. {Seen(d) : d \in used \ {c}} = S \ {Seen(c)}
      BY <1>1, SeenIs
    <2>4. T = {Seen(d) : d \in used \ {c}} \cup {Seen(n)}
      BY <1>7
    <2>5. Seen(n).len = n.len /\ Seen(n).held = n.held /\ Seen(c).held = c.held
      BY DEF Seen
    <2>6. HS!Resize(Seen(c), Seen(n))
      BY <1>7, <2>2, <2>3, <2>4, <2>5 DEF HS!Resize, Min2
    <2>7. Seen(c) \in S /\ Seen(n) \in T
      OBVIOUS
    <2> QED
      BY <2>6, <2>7 DEF HS!Next
  <1>8. CASE used' = {}
    <2>1. T = {}
      BY <1>8
    <2>2. HS!StartOver
      BY <2>1 DEF HS!StartOver
    <2> QED
      BY <2>2 DEF HS!Next
  <1> QED
    BY <1>4, <1>5, <1>6, <1>7, <1>8 DEF Serves

(* The allocator implements the service of HeapService: what malloc,       *)
(* calloc, memalign, valloc and pvalloc return is aligned, as long as      *)
(* asked for and apart from what the program holds, and realloc keeps as   *)
(* much data as fits, for every heap and all requests.                     *)
THEOREM HeapIsServed == Spec => HeapServed
  <1>1. Init => HS!Init
    BY SeenInit
  <1>2. StateInv /\ StateInv' /\ [Next]_vars => [HS!Next]_{Seen(c) : c \in used}
    BY NextStep, SeenStep
  <1> QED
    BY <1>1, <1>2, StateHolds, PTL DEF Spec, HeapServed, HS!Spec

-----------------------------------------------------------------------------
(* When an allocation fails.                                               *)

LEMMA StartsAre ==
  ASSUME StateInv, NEW x \in Starts
  PROVE  /\ x \in Int /\ x % 8 = 0 /\ x <= end
         /\ x = end \/ \E d \in Range(freelist) \cup Blocks(used) : d.at = x
  <1> DEFINE S == Range(freelist) \cup Blocks(used)
  <1>1. HeapOK(base, freelist, end, Blocks(used))
    BY DEF StateInv, HeapSound
  <1>2. CASE x = base
    <2>1. base \in Nat /\ end \in Nat /\ base <= end /\ end % 8 = 0 /\ Tiled(S, base, end)
      BY <1>1 DEF HeapOK, SizeT
    <2>2. base = end \/ \E d \in S : d.at = base
      BY <2>1 DEF Tiled
    <2>3. \A d \in S : d.at % 8 = 0
      BY <1>1, HeapBlocks DEF SizeT
    <2> QED
      BY <1>2, <2>1, <2>2, <2>3
  <1>3. ASSUME NEW c \in used, x = Ends(c)
        PROVE  /\ x \in Int /\ x % 8 = 0 /\ x <= end
               /\ x = end \/ \E d \in S : d.at = x
    <2> DEFINE b == Of(c)
    <2>1. b \in S /\ x = Ends(b)
      BY <1>3, BlocksOf, OfIs
    <2> HIDE DEF b
    <2>2. /\ b \in BlockType /\ Ends(b) <= end
          /\ Ends(b) = end \/ \E d \in S : d.at = Ends(b)
      BY <1>1, <2>1, HeapBlocks
    <2>3. \A d \in S : d.at % 8 = 0
      BY <1>1, HeapBlocks DEF SizeT
    <2>4. end % 8 = 0 /\ Ends(b) \in Int
      BY <1>1, <2>2, BlockInts DEF HeapOK, SizeT
    <2> QED
      BY <2>1, <2>2, <2>3, <2>4
  <1> QED
    BY <1>2, <1>3 DEF Starts

LEMMA FitsIs ==
  ASSUME NEW x, NEW n, Fits(x, n)
  PROVE  x + n <= Frame - GAP /\ \A b \in Blocks(used) : x + n <= b.at \/ Ends(b) <= x
  <1>1. \A b \in Blocks(used) : x + n <= b.at \/ Ends(b) <= x
    BY BlocksOf, OfIs DEF Fits
  <1> QED
    BY <1>1 DEF Fits

(* When malloc returns NULL, where it looked is everywhere.                *)
LEMMA MallocFull ==
  ASSUME StateInv, NEW sz \in Sizes, malloc(heap, sz).block = NULL, NEW x \in Starts
  PROVE  ~Fits(x, REAL_SIZE(sz))
  <1> DEFINE n == REAL_SIZE(sz)
             h == heap
             B == Blocks(used)
             F == Frame - GAP
  <1> SUFFICES ASSUME Fits(x, n) PROVE FALSE
    OBVIOUS
  <1>1. HeapOK(base, h.free, h.end, B) /\ h.free = freelist /\ h.end = end
    BY StateIs
  <1>2. sz \in Nat /\ Frame \in Nat /\ Word \in Nat /\ Frame < Word
    BY Asked
  <1>3. n \in Int /\ n >= Entry
    BY <1>2, RealSize DEF Fine
  <1>4. /\ x \in Int /\ x <= h.end
        /\ x = h.end \/ \E d \in Range(h.free) \cup B : d.at = x
    BY <1>1, StartsAre
  <1>5. x + n <= F /\ \A b \in B : x + n <= b.at \/ Ends(b) <= x
    BY FitsIs
  <1>6. /\ \A i \in DOMAIN h.free : ~(h.free[i].size >= n)
        /\ EndsHeap(h) => Last(h.free).at + n > F
        /\ ~EndsHeap(h) => h.end + n > F
    BY <1>1, <1>2, MallocKeeps
  <1>7. h.end \in Nat /\ F \in Int
    BY <1>1, <1>2 DEF HeapOK, GAP
  <1>8. EndsHeap(h) => Last(h.free).at \in Int /\ Last(h.free).at + 16 <= h.end
    <2> SUFFICES ASSUME EndsHeap(h)
                 PROVE  Last(h.free).at \in Int /\ Last(h.free).at + 16 <= h.end
      OBVIOUS
    <2> DEFINE b == Last(h.free)
    <2>1. h.free # <<>> /\ b.at + b.size = h.end
      BY DEF EndsHeap
    <2>2. b \in BlockType /\ Fine(b.size)
      BY <1>1, <2>1, LastIs
    <2>3. b.at \in Int /\ b.size \in Int /\ b.size >= 16
      BY <2>2, BlockInts DEF Fine, Entry
    <2> HIDE DEF b
    <2>4. b.at \in Int /\ b.at + 16 <= h.end
      BY <1>7, <2>1, <2>3
    <2> QED
      BY <2>4 DEF b
  <1> HIDE DEF n, h, B, F
  <1>9. EndsHeap(h) => (x = h.end \/ x = Last(h.free).at => ~(x + n <= F))
    BY <1>3, <1>4, <1>6, <1>7, <1>8
  <1>10. ~EndsHeap(h) => (x = h.end => ~(x + n <= F))
    BY <1>3, <1>4, <1>6, <1>7
  <1>11. \A i \in DOMAIN h.free : h.free[i].at = x => ~(h.free[i].size >= n)
    BY <1>6
  <1>12. F = Frame - GAP
    BY DEF F
  <1> QED
    BY <1>1, <1>3, <1>4, <1>5, <1>9, <1>10, <1>11, <1>12, NoRoom

LEMMA MemalignFull ==
  ASSUME StateInv, NEW sz \in Sizes, NEW align \in PowersOf2,
         memalign(heap, align, sz).block = NULL, NEW x \in Starts
  PROVE  ~Fits(x, Before(x, align) + REAL_SIZE(sz))
  <1> DEFINE real == REAL_SIZE(sz)
             bef == Before(x, align)
             n == bef + real
             h == heap
             B == Blocks(used)
             F == Frame - GAP
  <1> SUFFICES ASSUME Fits(x, n) PROVE FALSE
    OBVIOUS
  <1>1. HeapOK(base, h.free, h.end, B) /\ h.free = freelist /\ h.end = end
    BY StateIs
  <1>2. sz \in Nat /\ Frame \in Nat /\ Word \in Nat /\ Frame < Word
    BY Asked
  <1>3. /\ x \in Int /\ x % 8 = 0 /\ x <= h.end
        /\ x = h.end \/ \E d \in Range(h.free) \cup B : d.at = x
    BY <1>1, StartsAre
  <1>4. real \in Int /\ real >= Entry /\ bef \in Nat
    <2>1. real \in Int /\ real >= Entry
      BY <1>2, RealSize DEF Fine
    <2>2. bef \in Nat
      BY <1>3, BeforeIs
    <2> QED
      BY <2>1, <2>2
  <1>5. x + n <= F /\ \A b \in B : x + n <= b.at \/ Ends(b) <= x
    BY FitsIs
  <1>6. /\ \A i \in DOMAIN h.free :
              ~(h.free[i].size >= real + Before(h.free[i].at, align))
        /\ EndsHeap(h) => Last(h.free).at + Before(Last(h.free).at, align) + real > F
        /\ ~EndsHeap(h) => h.end + Before(h.end, align) + real > F
    BY <1>1, <1>2, MemalignKeeps
  <1>7. h.end \in Nat /\ F \in Int /\ h.end % 8 = 0
    BY <1>1, <1>2 DEF HeapOK, GAP, SizeT
  <1>8. EndsHeap(h) =>
           /\ Last(h.free).at \in Int /\ Before(Last(h.free).at, align) \in Nat
           /\ Before(h.end, align) \in Nat
           /\ Last(h.free).at + Before(Last(h.free).at, align) <= h.end + Before(h.end, align)
    <2> SUFFICES ASSUME EndsHeap(h)
                 PROVE  /\ Last(h.free).at \in Int /\ Before(Last(h.free).at, align) \in Nat
                        /\ Before(h.end, align) \in Nat
                        /\ Last(h.free).at + Before(Last(h.free).at, align)
                              <= h.end + Before(h.end, align)
      OBVIOUS
    <2> DEFINE b == Last(h.free)
    <2>1. h.free # <<>> /\ b.at + b.size = h.end
      BY DEF EndsHeap
    <2>2. b \in BlockType /\ Fine(b.size) /\ b.at % 8 = 0
      BY <1>1, <2>1, LastIs DEF SizeT
    <2>3. b.at \in Int /\ b.size \in Int /\ b.size >= 16
      BY <2>2, BlockInts DEF Fine, Entry
    <2> HIDE DEF b, h
    <2>4. b.at \in Int /\ b.at + Entry <= h.end /\ h.end \in Int
      BY <1>7, <2>1, <2>3 DEF Entry
    <2>5. b.at + Before(b.at, align) <= h.end + Before(h.end, align)
      BY <1>7, <2>2, <2>4, BeforeMon
    <2>6. Before(b.at, align) \in Nat /\ Before(h.end, align) \in Nat
      BY <1>7, <2>2, <2>4, BeforeIs
    <2> QED
      BY <2>4, <2>5, <2>6 DEF b
  <1>9. n \in Int /\ n >= Entry
    <2> HIDE DEF bef, real
    <2> QED
      BY <1>4 DEF Entry
  <1> HIDE DEF h, B, F, real
  <1>10. EndsHeap(h) => (x = h.end \/ x = Last(h.free).at => ~(x + n <= F))
    <2> SUFFICES ASSUME EndsHeap(h), x = h.end \/ x = Last(h.free).at
                 PROVE  ~(x + n <= F)
      OBVIOUS
    <2> DEFINE a == Last(h.free).at
               d == Before(a, align)
    <2>1. a \in Int /\ d \in Nat /\ a + d + real > F
      BY <1>6, <1>8
    <2>2. a + d <= x + bef
      <3>1. CASE x = h.end
        BY <1>8, <3>1
      <3>2. CASE x = a
        <4>1. bef = d
          BY <3>2
        <4> HIDE DEF a, d, bef
        <4> QED
          BY <1>3, <2>1, <3>2, <4>1
      <3> QED
        BY <3>1, <3>2
    <2> HIDE DEF a, d, bef
    <2> QED
      BY <1>3, <1>4, <1>7, <2>1, <2>2
  <1>11. ~EndsHeap(h) => (x = h.end => ~(x + n <= F))
    <2> SUFFICES ASSUME ~EndsHeap(h), x = h.end PROVE ~(x + n <= F)
      OBVIOUS
    <2>1. x + bef + real > F
      BY <1>6
    <2> HIDE DEF bef
    <2> QED
      BY <1>3, <1>4, <1>7, <2>1
  <1>12. \A i \in DOMAIN h.free : h.free[i].at = x => ~(h.free[i].size >= n)
    <2> SUFFICES ASSUME NEW i \in DOMAIN h.free, h.free[i].at = x
                 PROVE  ~(h.free[i].size >= n)
      OBVIOUS
    <2>1. ~(h.free[i].size >= real + bef)
      BY <1>6
    <2> HIDE DEF bef
    <2>2. real + bef = n
      BY <1>4
    <2> HIDE DEF n
    <2> QED
      BY <2>1, <2>2
  <1>13. F = Frame - GAP
    BY DEF F
  <1> HIDE DEF n, bef
  <1> QED
    BY <1>1, <1>3, <1>5, <1>9, <1>10, <1>11, <1>12, <1>13, NoRoom

(* malloc and memalign fail only when no free run of bytes is long enough, *)
(* for every heap and all requests: tiny-malloc.c joins what is free and   *)
(* lets the last block grow.                                               *)
THEOREM FailsOnlyWhenFull == Spec => []NullMeansFull
  <1>1. ASSUME StateInv PROVE NullMeansFull
    BY <1>1, MallocFull, MemalignFull DEF NullMeansFull
  <1> QED
    BY <1>1, StateHolds, PTL
-----------------------------------------------------------------------------
(* What mallinfo counts.  A sum of sizes, in whatever order the fold takes *)
(* the blocks, is the number of bytes they cover: this function solves the *)
(* recursion of the fold (BytesSum) and no other does (SumIs).             *)
BytesOf(b) == b.at .. Ends(b) - 1
BytesIn(F, s) == UNION {BytesOf(F[x]) : x \in s}
Some(s) == CHOOSE x \in s : TRUE
Sums(g, S, F) ==
  g = [s \in SUBSET S |-> IF s = {} THEN 0 ELSE F[Some(s)].size + g[s \ {Some(s)}]]

(* A finite family of blocks that do not overlap.                          *)
BlocksApart(S, F, lo, hi) ==
  /\ IsFiniteSet(S) /\ lo \in Int /\ hi \in Int
  /\ \A x \in S : /\ F[x].at \in Int /\ F[x].size \in Nat
                  /\ lo <= F[x].at /\ Ends(F[x]) <= hi
  /\ \A x, y \in S : x # y => Behind(F[x], F[y]) \/ Behind(F[y], F[x])

LEMMA BytesAre ==
  ASSUME NEW S, NEW F, NEW lo, NEW hi, BlocksApart(S, F, lo, hi), NEW s \in SUBSET S
  PROVE  /\ BytesIn(F, s) \subseteq lo .. hi - 1
         /\ IsFiniteSet(BytesIn(F, s)) /\ Cardinality(BytesIn(F, s)) \in Nat
  <1>1. \A x \in s : BytesOf(F[x]) \subseteq lo .. hi - 1
    BY DEF BlocksApart, BytesOf, Ends
  <1>2. BytesIn(F, s) \in SUBSET (lo .. hi - 1)
    BY <1>1 DEF BytesIn
  <1>3. lo \in Int /\ hi - 1 \in Int
    BY DEF BlocksApart
  <1>4. IsFiniteSet(BytesIn(F, s))
    BY <1>2, <1>3, FS_Interval, FS_Subset
  <1> QED
    BY <1>2, <1>4, FS_CardinalityType

(* One block more has as many bytes more as its size.                      *)
LEMMA OneBlockMore ==
  ASSUME NEW S, NEW F, NEW lo, NEW hi, BlocksApart(S, F, lo, hi), NEW s \in SUBSET S,
         s # {}, NEW x \in s
  PROVE  Cardinality(BytesIn(F, s)) = F[x].size + Cardinality(BytesIn(F, s \ {x}))
  <1> DEFINE b == F[x]
             r == BytesIn(F, s \ {x})
  <1>1. b.at \in Int /\ b.size \in Nat /\ Ends(b) = b.at + b.size
    BY DEF BlocksApart, Ends
  <1>2. BytesIn(F, s) = BytesOf(b) \cup r
    BY DEF BytesIn
  <1>3. BytesOf(b) \cap r = {}
    <2> SUFFICES ASSUME NEW y \in s \ {x} PROVE BytesOf(b) \cap BytesOf(F[y]) = {}
      BY DEF BytesIn
    <2>1. Behind(b, F[y]) \/ Behind(F[y], b)
      BY DEF BlocksApart
    <2>2. F[y].at \in Int /\ F[y].size \in Nat /\ Ends(F[y]) = F[y].at + F[y].size
      BY DEF BlocksApart, Ends
    <2> HIDE DEF b
    <2> QED
      BY <1>1, <2>1, <2>2 DEF Behind, BytesOf
  <1>4. IsFiniteSet(r) /\ Cardinality(r) \in Nat
    BY BytesAre
  <1> HIDE DEF b, r
  <1>5. IsFiniteSet(BytesOf(b)) /\ Cardinality(BytesOf(b)) = b.size
    <2>1. b.at \in Int /\ Ends(b) - 1 \in Int
      BY <1>1
    <2>2. /\ IsFiniteSet(b.at .. Ends(b) - 1)
          /\ Cardinality(b.at .. Ends(b) - 1)
               = IF b.at > Ends(b) - 1 THEN 0 ELSE Ends(b) - 1 - b.at + 1
      BY <2>1, FS_Interval
    <2> QED
      BY <1>1, <2>2 DEF BytesOf
  <1>6. Cardinality(BytesOf(b) \cup r)
          = Cardinality(BytesOf(b)) + Cardinality(r) - Cardinality(BytesOf(b) \cap r)
    BY <1>4, <1>5, FS_Union
  <1>7. Cardinality(BytesOf(b) \cap r) = 0
    BY <1>3, FS_EmptySet
  <1>8. Cardinality(BytesIn(F, s)) = b.size + Cardinality(r)
    BY <1>1, <1>2, <1>4, <1>5, <1>6, <1>7
  <1> QED
    BY <1>8 DEF b, r

(* The number of bytes solves the recursion of the fold.                   *)
LEMMA BytesSum ==
  ASSUME NEW S, NEW F, NEW lo, NEW hi, BlocksApart(S, F, lo, hi)
  PROVE  Sums([s \in SUBSET S |-> Cardinality(BytesIn(F, s))], S, F)
  <1> DEFINE g == [s \in SUBSET S |-> Cardinality(BytesIn(F, s))]
  <1>1. ASSUME NEW s \in SUBSET S
        PROVE  g[s] = IF s = {} THEN 0 ELSE F[Some(s)].size + g[s \ {Some(s)}]
    <2>1. CASE s = {}
      <3>1. BytesIn(F, {}) = {}
        BY DEF BytesIn
      <3> QED
        BY <2>1, <3>1, FS_EmptySet
    <2>2. CASE s # {}
      <3>1. Some(s) \in s
        BY <2>2 DEF Some
      <3>2. Cardinality(BytesIn(F, s)) = F[Some(s)].size + Cardinality(BytesIn(F, s \ {Some(s)}))
        BY <2>2, <3>1, OneBlockMore
      <3> QED
        BY <2>2, <3>2
    <2> QED
      BY <2>1, <2>2
  <1> QED
    BY <1>1 DEF Sums

(* It is the only one: the least set on which another differs has an       *)
(* element, and without that element they would differ already.            *)
LEMMA SumIs ==
  ASSUME NEW S, NEW F, NEW lo, NEW hi, BlocksApart(S, F, lo, hi), NEW g, Sums(g, S, F)
  PROVE  g[S] = Cardinality(BytesIn(F, S))
  <1> DEFINE Wrong == {s \in SUBSET S : g[s] # Cardinality(BytesIn(F, s))}
  <1>1. \A s \in SUBSET S : IsFiniteSet(s) /\ Cardinality(s) \in Nat
    BY FS_Subset, FS_CardinalityType DEF BlocksApart
  <1>2. SUFFICES ASSUME Wrong # {} PROVE FALSE
    OBVIOUS
  <1>3. PICK s \in Wrong : \A t \in Wrong : Cardinality(s) <= Cardinality(t)
    <2> DEFINE sizes == {Cardinality(s) : s \in Wrong}
    <2>1. sizes \in SUBSET Nat /\ sizes # {}
      BY <1>1, <1>2
    <2>2. First(sizes) \in sizes /\ \A k \in sizes : First(sizes) <= k
      <3> HIDE DEF sizes
      <3> QED
        BY <2>1, FirstIs
    <2> QED
      BY <2>2
  <1>4. s # {}
    <2> SUFFICES ASSUME s = {} PROVE FALSE
      OBVIOUS
    <2>1. BytesIn(F, {}) = {} /\ g[{}] = 0
      BY DEF BytesIn, Sums
    <2> QED
      BY <1>3, <2>1, FS_EmptySet
  <1> DEFINE x == Some(s)
             t == s \ {x}
  <1>5. x \in s /\ t \in SUBSET S
    BY <1>4 DEF Some
  <1>6. g[s] = F[x].size + g[t]
    BY <1>4 DEF Sums
  <1>7. Cardinality(BytesIn(F, s)) = F[x].size + Cardinality(BytesIn(F, t))
    BY <1>4, <1>5, OneBlockMore
  <1>8. Cardinality(t) < Cardinality(s)
    <2>1. Cardinality(t) = Cardinality(s) - 1
      BY <1>1, <1>5, FS_RemoveElement
    <2> QED
      BY <1>1, <2>1
  <1>9. g[t] = Cardinality(BytesIn(F, t))
    BY <1>1, <1>3, <1>5, <1>8
  <1> QED
    BY <1>3, <1>6, <1>7, <1>9

(* The blocks of a heap in order cover each of its bytes.                  *)
LEMMA AllBytes ==
  ASSUME NEW T, NEW from \in Nat, NEW e \in Nat, Tiled(T, from, e), from <= e,
         \A b \in T : b.at \in Nat /\ b.size \in Nat /\ b.size >= Entry,
         NEW n \in from .. e - 1
  PROVE  \E b \in T : n \in BytesOf(b)
  <1> DEFINE starts == {b \in T : b.at <= n}
             gaps == {n - b.at : b \in starts}
  <1>1. gaps \subseteq Nat /\ gaps # {}
    <2>1. PICK b \in T : b.at = from
      BY DEF Tiled
    <2>2. n - b.at \in gaps
      BY <2>1
    <2>3. gaps \subseteq Nat
      OBVIOUS
    <2> QED
      BY <2>2, <2>3
  <1>2. PICK b \in starts : \A d \in starts : n - b.at <= n - d.at
    <2>1. First(gaps) \in gaps /\ \A k \in gaps : First(gaps) <= k
      <3> HIDE DEF gaps
      <3> QED
        BY <1>1, FirstIs
    <2> QED
      BY <2>1
  <1>3. n < Ends(b)
    <2> SUFFICES ASSUME Ends(b) <= n PROVE FALSE
      BY DEF Ends
    <2>1. Ends(b) # e
      OBVIOUS
    <2>2. PICK d \in T : d.at = Ends(b)
      BY <2>1 DEF Tiled
    <2>3. d \in starts /\ d.at > b.at
      BY <2>2 DEF Ends, Entry
    <2> QED
      BY <1>2, <2>3
  <1> QED
    BY <1>3 DEF BytesOf, Ends

LEMMA SumOverUsed ==
  ASSUME NEW U, NEW lo, NEW hi, BlocksApart(U, [c \in U |-> c], lo, hi)
  PROVE  MapThenSumSet(LAMBDA c : c.size, U) = Cardinality(UNION {BytesOf(c) : c \in U})
  <1> DEFINE F == [c \in U |-> c]
             P(g) == g = [s \in SUBSET U |->
                            IF s = {} THEN 0 ELSE Some(s).size + g[s \ {Some(s)}]]
             sum == CHOOSE g : P(g)
  <1>1. MapThenSumSet(LAMBDA c : c.size, U) = sum[U]
    BY DEF MapThenSumSet, MapThenFoldSet, Some
  <1>2. \A g : P(g) <=> Sums(g, U, F)
    <2>1. \A s \in SUBSET U : s # {} => F[Some(s)] = Some(s)
      BY DEF Some
    <2>2. ASSUME NEW g
          PROVE  [s \in SUBSET U |-> IF s = {} THEN 0 ELSE Some(s).size + g[s \ {Some(s)}]]
                   = [s \in SUBSET U |-> IF s = {} THEN 0 ELSE F[Some(s)].size + g[s \ {Some(s)}]]
      <3> HIDE DEF F
      <3> QED
        BY <2>1
    <2> QED
      BY <2>2 DEF Sums
  <1>3. \E g : P(g)
    <2>1. \E g : Sums(g, U, F)
      BY BytesSum
    <2> HIDE DEF P, F
    <2> QED
      BY <1>2, <2>1
  <1>4. Sums(sum, U, F)
    <2>1. P(sum)
      <3> HIDE DEF P
      <3> QED
        BY <1>3
    <2> HIDE DEF P, F, sum
    <2> QED
      BY <1>2, <2>1
  <1>5. sum[U] = Cardinality(BytesIn(F, U))
    <2> HIDE DEF sum
    <2> QED
      BY <1>4, SumIs
  <1>6. BytesIn(F, U) = UNION {BytesOf(c) : c \in U}
    BY DEF BytesIn
  <1> QED
    BY <1>1, <1>5, <1>6

LEMMA SumOverFree ==
  ASSUME NEW q, NEW lo, NEW hi, BlocksApart(DOMAIN q, q, lo, hi)
  PROVE  FoldSeq(LAMBDA b, sum : b.size + sum, 0, q) = Cardinality(BytesIn(q, DOMAIN q))
  <1> DEFINE P(g) == Sums(g, DOMAIN q, q)
             sum == CHOOSE g : P(g)
  <1>1. FoldSeq(LAMBDA b, rest : b.size + rest, 0, q) = sum[DOMAIN q]
    BY DEF FoldSeq, FoldFunction, FoldFunctionOnSet, MapThenFoldSet, Some, Sums
  <1>2. \E g : P(g)
    BY BytesSum
  <1>3. P(sum)
    <2> HIDE DEF P
    <2> QED
      BY <1>2
  <1>4. sum[DOMAIN q] = Cardinality(BytesIn(q, DOMAIN q))
    <2> HIDE DEF sum
    <2> QED
      BY <1>3, SumIs
  <1> QED
    BY <1>1, <1>4

(* The chunks are different blocks of a finite heap.                       *)
LEMMA UsedApart ==
  ASSUME StateInv
  PROVE  BlocksApart(used, [c \in used |-> c], base, end)
  <1>1. /\ used \subseteq ChunkType /\ HeapOK(base, freelist, end, Blocks(used))
        /\ \A c, d \in used : c # d => c.at # d.at
    BY DEF StateInv, HeapSound
  <1>2. ASSUME NEW c \in used
        PROVE  /\ c.at \in Nat /\ c.size \in Nat /\ base <= c.at /\ Ends(c) <= end
               /\ Of(c) \in Blocks(used)
    <2>1. Of(c) \in Blocks(used)
      BY BlocksOf
    <2>2. Of(c).at \in Nat /\ Fine(Of(c).size) /\ base <= Of(c).at /\ Ends(Of(c)) <= end
      BY <1>1, <2>1, HeapBlocks
    <2> QED
      BY <2>1, <2>2, OfIs DEF Fine, Entry
  <1>3. base \in Nat /\ end \in Nat
    BY <1>1 DEF HeapOK
  <1>4. IsFiniteSet(used)
    <2> DEFINE at == [c \in used |-> c.at]
    <2>1. at \in [used -> base .. end]
      BY <1>2, <1>3 DEF Ends
    <2>2. \A c, d \in used : at[c] = at[d] => c = d
      BY <1>1
    <2>3. at \in Injection(used, base .. end)
      <3> HIDE DEF at
      <3>1. DOMAIN at = used
        BY <2>1
      <3> QED
        BY <2>1, <2>2, <3>1 DEF Injection, IsInjective
    <2>4. IsFiniteSet(base .. end)
      BY <1>3, FS_Interval
    <2> HIDE DEF at
    <2> QED
      BY <2>3, <2>4, FS_Injection
  <1>5. ASSUME NEW c \in used, NEW d \in used, c # d PROVE Behind(c, d) \/ Behind(d, c)
    <2>1. Of(c) # Of(d)
      BY <1>1, <1>5, OfIs
    <2>2. Behind(Of(c), Of(d)) \/ Behind(Of(d), Of(c))
      BY <1>1, <1>2, <2>1, HeapBlocks
    <2> QED
      BY <2>2, OfIs DEF Behind
  <1> QED
    BY <1>2, <1>3, <1>4, <1>5 DEF BlocksApart

LEMMA FreeApart ==
  ASSUME StateInv
  PROVE  BlocksApart(DOMAIN freelist, freelist, base, end)
  <1>1. HeapOK(base, freelist, end, Blocks(used))
    BY DEF StateInv, HeapSound
  <1>2. /\ \A i \in DOMAIN freelist : freelist[i] \in Range(freelist)
        /\ DOMAIN freelist = 1 .. Len(freelist) /\ Len(freelist) \in Nat
    BY <1>1, HeapBlocks
  <1>3. freelist \in Seq(BlockType) /\ Chained(freelist) /\ base \in Nat /\ end \in Nat
    BY <1>1 DEF HeapOK
  <1>4. \A b \in Range(freelist) : /\ b.at \in Nat /\ Fine(b.size)
                                   /\ base <= b.at /\ Ends(b) <= end
    BY <1>1, HeapBlocks
  <1>5. Big(freelist)
    BY <1>4 DEF Big, Fine
  <1>6. ASSUME NEW i \in DOMAIN freelist, NEW j \in DOMAIN freelist, i # j
        PROVE  Behind(freelist[i], freelist[j]) \/ Behind(freelist[j], freelist[i])
    <2>1. freelist[i] # freelist[j]
      BY <1>3, <1>5, <1>6, ChainedApart
    <2> QED
      BY <1>1, <1>2, <2>1, HeapBlocks
  <1>7. IsFiniteSet(DOMAIN freelist)
    BY <1>2, FS_Interval
  <1> QED
    BY <1>2, <1>3, <1>4, <1>6, <1>7 DEF BlocksApart, Fine, Entry

(* Free and used blocks together are the heap, so what mallinfo does not   *)
(* count as free is what the program has.                                  *)
LEMMA SizesAddUp ==
  ASSUME StateInv
  PROVE  MallinfoCounts
  <1> DEFINE spare == BytesIn(freelist, DOMAIN freelist)
             taken == UNION {BytesOf(c) : c \in used}
             F == [c \in used |-> c]
  <1>1. HeapOK(base, freelist, end, Blocks(used)) /\ Start \in Nat
    BY MallocAssumption DEF StateInv, HeapSound
  <1>2. base \in Nat /\ end \in Nat /\ base <= end
    BY <1>1 DEF HeapOK
  <1>3. taken = BytesIn(F, used)
    BY DEF BytesIn
  <1>4. /\ IsFiniteSet(spare) /\ Cardinality(spare) \in Nat /\ spare \subseteq base .. end - 1
        /\ IsFiniteSet(taken) /\ Cardinality(taken) \in Nat /\ taken \subseteq base .. end - 1
    BY <1>3, UsedApart, FreeApart, BytesAre
  <1>5. \A b \in Range(freelist) \cup Blocks(used) :
           /\ b.at \in Nat /\ b.size \in Nat /\ b.size >= Entry
    BY <1>1, HeapBlocks DEF Fine, Entry
  <1>6. /\ \A i \in DOMAIN freelist : freelist[i] \in Range(freelist)
        /\ \A b \in Range(freelist) : \E i \in DOMAIN freelist : b = freelist[i]
    BY DEF Range
  <1>7. \A c : BytesOf(Of(c)) = BytesOf(c)
    BY OfIs DEF BytesOf
  <1>8. spare \cup taken = base .. end - 1
    <2> SUFFICES ASSUME NEW n \in base .. end - 1 PROVE n \in spare \cup taken
      BY <1>4
    <2>1. Tiled(Range(freelist) \cup Blocks(used), base, end)
      BY <1>1 DEF HeapOK
    <2>2. PICK b \in Range(freelist) \cup Blocks(used) : n \in BytesOf(b)
      BY <1>2, <1>5, <2>1, AllBytes
    <2>3. CASE b \in Range(freelist)
      BY <1>6, <2>2, <2>3 DEF BytesIn
    <2>4. CASE b \in Blocks(used)
      <3>1. PICK c \in used : b = Of(c)
        BY <2>4, BlocksOf
      <3> QED
        BY <1>7, <2>2, <3>1
    <2> QED
      BY <2>2, <2>3, <2>4
  <1>9. spare \cap taken = {}
    <2> SUFFICES ASSUME NEW i \in DOMAIN freelist, NEW c \in used
                 PROVE  BytesOf(freelist[i]) \cap BytesOf(c) = {}
      BY DEF BytesIn
    <2> DEFINE b == freelist[i]
               d == Of(c)
    <2>1. b \in Range(freelist) /\ d \in Blocks(used) /\ b \notin Blocks(used)
      BY <1>1, HeapBlocks, BlocksOf
    <2> HIDE DEF b, d
    <2>2. Behind(b, d) \/ Behind(d, b)
      BY <1>1, <2>1, HeapBlocks
    <2>3. b.at \in Nat /\ b.size \in Nat /\ d.at \in Nat /\ d.size \in Nat
      BY <1>5, <2>1
    <2>4. BytesOf(b) \cap BytesOf(d) = {}
      BY <2>2, <2>3 DEF Behind, BytesOf, Ends
    <2> QED
      BY <1>7, <2>4 DEF b, d
  <1> HIDE DEF spare, taken, F
  <1>10. Cardinality(spare) + Cardinality(taken) = end - base
    <2>1. Cardinality(spare \cup taken) = end - base
      <3>1. Cardinality(base .. end - 1) = IF base > end - 1 THEN 0 ELSE end - 1 - base + 1
        BY <1>2, FS_Interval
      <3>2. Cardinality(spare \cup taken) = Cardinality(base .. end - 1)
        BY <1>8, Zenon
      <3> QED
        BY <1>2, <3>1, <3>2
    <2>2. Cardinality(spare \cup taken)
            = Cardinality(spare) + Cardinality(taken) - Cardinality(spare \cap taken)
      BY <1>4, FS_Union
    <2>3. Cardinality(spare \cap taken) = 0
      BY <1>9, FS_EmptySet
    <2> QED
      BY <1>2, <1>4, <2>1, <2>2, <2>3
  <1>11. FoldSeq(LAMBDA b, sum : b.size + sum, 0, freelist) = Cardinality(spare)
    BY FreeApart, SumOverFree DEF spare
  <1>12. MapThenSumSet(LAMBDA c : c.size, used) = Cardinality(taken)
    BY UsedApart, SumOverUsed DEF taken
  <1>13. mallinfo.uordblks = end - Start - Cardinality(spare)
    BY <1>11 DEF mallinfo
  <1> QED
    BY <1>1, <1>2, <1>4, <1>10, <1>12, <1>13 DEF MallinfoCounts

(* mallinfo (tiny-malloc.c) counts as used exactly the bytes of the blocks *)
(* of the program and, after a restart, those that were lost with it.      *)
THEOREM MallinfoIsExact == Spec => []MallinfoCounts
  BY SizesAddUp, StateHolds, PTL
=============================================================================
