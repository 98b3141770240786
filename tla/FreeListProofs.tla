------------------------- MODULE FreeListProofs -----------------------------
(***************************************************************************)
(* What every operation does to the freelist of a region and to that of    *)
(* the batch class, for every size of blocks, groups and batches: the      *)
(* lemmas that StructuresProofs draws its theorems from.                   *)
(***************************************************************************)
EXTENDS BlockLists, FiniteSetTheorems, SequenceTheorems, WellFoundedInduction, TLAPS

\* Every set of naturals has a least element.
LEMMA Least ==
  ASSUME NEW U \in SUBSET Nat, U # {}
  PROVE  \E x \in U : \A y \in U : x =< y
<1>1. IsWellFoundedOn(OpToRel(<, Nat), Nat)  BY NatLessThanWellFounded
<1>2. \E x \in U : \A y \in U : ~(<<y, x>> \in OpToRel(<, Nat))  BY <1>1, WFMin
<1>3. \A x, y \in Nat : ~(<<y, x>> \in OpToRel(<, Nat)) => x =< y  BY DEF OpToRel
<1> QED  BY <1>2, <1>3

\* Induction as a statement about sets.
LEMMA Induction ==
  ASSUME NEW U, 0 \in U, \A n \in Nat : n \in U => n + 1 \in U
  PROVE  Nat \subseteq U
<1>1. SUFFICES ASSUME Nat \ U # {} PROVE FALSE  OBVIOUS
<1>2. PICK x \in Nat \ U : \A y \in Nat \ U : x =< y  BY <1>1, Least
<1>3. x # 0 /\ x - 1 \in Nat  BY <1>2
<1>4. x - 1 \in U  BY <1>2, <1>3
<1>5. (x - 1) + 1 \in U  BY <1>3, <1>4
<1> QED  BY <1>2, <1>3, <1>5

\* A positive factor keeps the order.
LEMMA Scale ==
  ASSUME NEW k \in Nat \ {0}, NEW a \in Int, NEW b \in Int
  PROVE  /\ a * k >= b * k <=> a >= b
         /\ a * k < b * k <=> a < b
         /\ a * k = b * k <=> a = b
         /\ a * k \in Int
  OBVIOUS

Elements(s) == {s[i] : i \in DOMAIN s}

\* The blocks in some batches, and in the groups of a list.
BlocksIn(bs) == UNION {Elements(bs[i]) : i \in DOMAIN bs}
ListBlocks(l) == UNION {BlocksIn(l[i].batches) : i \in DOMAIN l}

\* The number that collectGroupsToRelease() and markFreeBlocks() compute.
Count(bs) == (Len(bs) - 1) * MaxNumBlocksInBatch + Len(bs[1])

\* Batches of which all but the front one are full.
Shape(bs) ==
  /\ bs \in Seq(Seq(Nat)) /\ bs # <<>>
  /\ \A i \in DOMAIN bs : Len(bs[i]) =< MaxNumBlocksInBatch
  /\ \A i \in DOMAIN bs : i # 1 => Len(bs[i]) = MaxNumBlocksInBatch

\* A batch has room for a block at least.
LEMMA Cap == MaxNumBlocksInBatch \in Nat \ {0}
  BY FreeListAssumption

\* FiniteSetsExt defines Min and Max by CHOOSE.
LEMMA MinPair ==
  ASSUME NEW a \in Int, NEW b \in Int
  PROVE  F!Min({a, b}) = IF a =< b THEN a ELSE b
<1> DEFINE m == IF a =< b THEN a ELSE b
           Q(x) == x \in {a, b} /\ \A y \in {a, b} : x =< y
<1>1. Q(m)  OBVIOUS
<1>2. \A x \in {a, b} : (\A y \in {a, b} : x =< y) => x = m  OBVIOUS
<1> QED  BY <1>1, <1>2 DEF F!Min

LEMMA MaxPair ==
  ASSUME NEW a \in Int, NEW b \in Int
  PROVE  F!Max({a, b}) = IF a >= b THEN a ELSE b
<1> DEFINE m == IF a >= b THEN a ELSE b
           Q(x) == x \in {a, b} /\ \A y \in {a, b} : x >= y
<1>1. Q(m)  OBVIOUS
<1>2. \A x \in {a, b} : (\A y \in {a, b} : x >= y) => x = m  OBVIOUS
<1> QED  BY <1>1, <1>2 DEF F!Max

\* A list in front of an element in front of a list.
Joined(r, a, x, b) ==
  /\ Len(r) = Len(a) + 1 + Len(b)
  /\ \A i \in DOMAIN a : i \in DOMAIN r /\ r[i] = a[i]
  /\ Len(a) + 1 \in DOMAIN r /\ r[Len(a) + 1] = x
  /\ \A i \in DOMAIN b : Len(a) + 1 + i \in DOMAIN r /\ r[Len(a) + 1 + i] = b[i]
  /\ \A i \in DOMAIN r :
       \/ i \in DOMAIN a
       \/ i = Len(a) + 1
       \/ i - (Len(a) + 1) \in DOMAIN b /\ i = Len(a) + 1 + (i - (Len(a) + 1))

\* What a prefix is.
LEMMA SubSeqOf ==
  ASSUME NEW S, NEW s \in Seq(S), NEW k \in 0 .. Len(s)
  PROVE  /\ SubSeq(s, 1, k) \in Seq(S) /\ Len(SubSeq(s, 1, k)) = k
         /\ \A i \in 1 .. k : SubSeq(s, 1, k)[i] = s[i]
         /\ SubSeq(s, k + 1, Len(s)) \in Seq(S) /\ Len(SubSeq(s, k + 1, Len(s))) = Len(s) - k
         /\ \A i \in 1 .. Len(s) - k : SubSeq(s, k + 1, Len(s))[i] = s[k + i]
         /\ Elements(s) = Elements(SubSeq(s, 1, k)) \cup Elements(SubSeq(s, k + 1, Len(s)))
<1> DEFINE a == SubSeq(s, 1, k)
           b == SubSeq(s, k + 1, Len(s))
<1>1. Len(s) \in Nat /\ k \in Nat /\ DOMAIN s = 1 .. Len(s)  OBVIOUS
<1>2. a \in Seq(S) /\ Len(a) = k /\ \A i \in 1 .. k : a[i] = s[i]  BY <1>1
<1>3. b \in Seq(S) /\ Len(b) = Len(s) - k /\ \A i \in 1 .. Len(s) - k : b[i] = s[k + i]
  <2>1. k + 1 \in Nat /\ k + 1 =< Len(s) + 1 /\ Len(s) =< Len(s)  BY <1>1
  <2>2. b = [i \in 1 .. Len(s) - k |-> s[k + i]]
    <3>1. b = [i \in 1 .. Len(s) - (k + 1) + 1 |-> s[(k + 1) + i - 1]]
      BY <1>1
    <3>2. Len(s) - (k + 1) + 1 = Len(s) - k  BY <1>1
    <3>3. \A i \in 1 .. Len(s) - k : (k + 1) + i - 1 = k + i  BY <1>1
    <3> QED  BY <3>1, <3>2, <3>3
  <2>3. \A i \in 1 .. Len(s) - k : k + i \in 1 .. Len(s) /\ s[k + i] \in S  BY <1>1
  <2>4. Len(s) - k \in Nat  BY <1>1
  <2> HIDE DEF b
  <2> QED  BY <2>2, <2>3, <2>4
<1> HIDE DEF a, b
<1>4. DOMAIN a = 1 .. k /\ DOMAIN b = 1 .. Len(s) - k  BY <1>1, <1>2, <1>3
<1>5. ASSUME NEW i \in DOMAIN s PROVE s[i] \in Elements(a) \cup Elements(b)
  <2>1. CASE i =< k  BY <1>1, <1>2, <1>4, <2>1 DEF Elements
  <2>2. CASE i > k
    <3>1. i - k \in 1 .. Len(s) - k /\ k + (i - k) = i  BY <1>1, <2>2
    <3> QED  BY <1>3, <1>4, <3>1 DEF Elements
  <2> QED  BY <1>1, <2>1, <2>2
<1>6. Elements(a) \subseteq Elements(s)  BY <1>1, <1>2, <1>4 DEF Elements
<1>7. Elements(b) \subseteq Elements(s)
  <2>1. \A i \in 1 .. Len(s) - k : k + i \in DOMAIN s  BY <1>1
  <2> QED  BY <1>3, <1>4, <2>1 DEF Elements
<1>8. Elements(s) = Elements(a) \cup Elements(b)  BY <1>5, <1>6, <1>7 DEF Elements
<1> QED  BY <1>2, <1>3, <1>8 DEF a, b

\* The batches of new blocks: all but the last one are full.
BatchesOf(ss, s) ==
  LET m == Len(ss) IN
  /\ ss \in Seq(Seq(Nat))
  /\ s = <<>> => m = 0
  /\ s # <<>> => /\ m >= 1 /\ (m - 1) * MaxNumBlocksInBatch + Len(ss[m]) = Len(s)
                 /\ Len(ss[m]) \in 1 .. MaxNumBlocksInBatch
  /\ \A i \in DOMAIN ss : i # m => Len(ss[i]) = MaxNumBlocksInBatch
  /\ BlocksIn(ss) = Elements(s)

\* The last part of n cut into parts of k has from one to k elements.
LEMMA Cuts ==
  ASSUME NEW n \in Nat, NEW k \in Nat \ {0}
  PROVE  LET m == (n + k - 1) \div k IN
         /\ m \in Nat /\ (m = 0 <=> n = 0)
         /\ n # 0 => (m - 1) * k < n /\ n =< m * k
         /\ \A p \in 1 .. n : (p - 1) \div k + 1 \in 1 .. m
<1> DEFINE m == (n + k - 1) \div k
<1>1. m \in Nat /\ m * k =< n + k - 1 /\ n + k - 1 < m * k + k
  <2>1. n + k - 1 \in Nat  OBVIOUS
  <2>2. \A a \in Nat : a \div k \in Nat /\ (a \div k) * k =< a /\ a < (a \div k) * k + k  OBVIOUS
  <2> QED  BY <2>1, <2>2
<1> HIDE DEF m
<1>2. (m - 1) * k = m * k - k  BY <1>1
<1>3. m = 0 <=> n = 0
  <2>1. m = 0 => n = 0  BY <1>1
  <2>2. m >= 1 => m * k >= k  BY <1>1
  <2>3. n = 0 => m = 0  BY <1>1, <2>2
  <2> QED  BY <2>1, <2>3
<1>4. ASSUME NEW p \in 1 .. n PROVE (p - 1) \div k + 1 \in 1 .. m
  <2> DEFINE q == (p - 1) \div k
  <2>1. q \in Nat /\ q * k =< p - 1
    <3>1. \A a \in Nat : a \div k \in Nat /\ (a \div k) * k =< a  OBVIOUS
    <3> QED  BY <3>1
  <2> HIDE DEF q
  <2>2. q * k < m * k  BY <1>1, <2>1
  <2>3. q < m  BY <1>1, <2>1, <2>2, Scale
  <2> QED  BY <1>1, <2>1, <2>3 DEF q
<1> QED  BY <1>1, <1>2, <1>3, <1>4 DEF m

\* InsertBlocks cuts what it pushes into full batches and a rest.
LEMMA BatchesCut ==
  ASSUME NEW s \in Seq(Nat)
  PROVE  BatchesOf(F!Batches(s), s)
<1> DEFINE n == Len(s)
           k == MaxNumBlocksInBatch
           m == (n + k - 1) \div k
           ss == F!Batches(s)
           hi(i) == IF i * k =< n THEN i * k ELSE n
<1>1. n \in Nat /\ k \in Nat \ {0} /\ DOMAIN s = 1 .. n /\ \A p \in 1 .. n : s[p] \in Nat
  BY Cap
<1>2. /\ m \in Nat /\ (m = 0 <=> n = 0)
      /\ n # 0 => (m - 1) * k < n /\ n =< m * k
      /\ \A p \in 1 .. n : (p - 1) \div k + 1 \in 1 .. m
  <2>1. n \in Nat /\ k \in Nat \ {0}  BY <1>1
  <2> HIDE DEF n, k
  <2> QED  BY ONLY <2>1, Cuts
<1>20. m \in Nat  BY <1>2
<1>3. \A i \in 1 .. m : F!Min({i * k, n}) = hi(i)
  BY <1>1, MinPair, SMTT(30), ZenonT(20)
<1>4. ss = [i \in 1 .. m |-> SubSeq(s, (i - 1) * k + 1, hi(i))]
  <2>1. ss = [i \in 1 .. m |-> SubSeq(s, (i - 1) * k + 1, F!Min({i * k, n}))]
    BY Zenon DEF F!Batches
  <2> HIDE DEF ss, hi, m, n, k
  <2> QED  BY <1>3, <2>1
<1> HIDE DEF m, n, k, ss
<1>5. ASSUME NEW i \in 1 .. m
      PROVE  /\ i * k \in Int /\ (i - 1) * k \in Nat /\ i * k = (i - 1) * k + k
             /\ i # m => i * k =< n
             /\ i = m => hi(i) = n /\ (m - 1) * k < n
             /\ hi(i) \in (i - 1) * k + 1 .. n
             /\ hi(i) - (i - 1) * k \in 1 .. k
             /\ i # m => hi(i) - (i - 1) * k = k
  <2>1. i * k \in Int /\ i * k = (i - 1) * k + k /\ (i - 1) * k \in Nat
    BY <1>1, <1>20
  <2>2. n # 0 /\ (m - 1) * k < n /\ n =< m * k  BY <1>2
  <2>3. i # m => i * k =< (m - 1) * k
    <3>1. i # m => m - 1 >= i  BY <1>20
    <3>2. m - 1 \in Int /\ i \in Int /\ k \in Nat \ {0}  BY <1>1, <1>20
    <3>3. (m - 1) * k >= i * k <=> m - 1 >= i  BY <3>2, Scale
    <3>4. (m - 1) * k \in Int /\ i * k \in Int  BY <3>2
    <3> QED  BY <3>1, <3>3, <3>4
  <2>4. m * k \in Int /\ (m - 1) * k \in Int  BY <1>1, <1>20
  <2>5. CASE i = m
    <3>1. (i - 1) * k < n /\ n =< i * k  BY <2>2, <2>5
    <3> QED  BY <1>1, <2>1, <2>2, <2>5, <3>1
  <2>6. CASE i # m  BY <1>1, <2>1, <2>2, <2>3, <2>4, <2>6
  <2> QED  BY <2>5, <2>6
<1>6. ASSUME NEW i \in 1 .. m
      PROVE  /\ ss[i] \in Seq(Nat) /\ Len(ss[i]) = hi(i) - (i - 1) * k
             /\ \A j \in 1 .. hi(i) - (i - 1) * k : ss[i][j] = s[(i - 1) * k + j]
  <2> DEFINE a == (i - 1) * k + 1
             b == hi(i)
  <2>1. a \in Int /\ b \in Int /\ a =< b /\ b - a + 1 = b - (i - 1) * k
        /\ \A j \in Int : a + j - 1 = (i - 1) * k + j
    BY <1>1, <1>5
  <2>2. \A p \in a .. b : s[p] \in Nat  BY <1>1, <1>5
  <2>3. ss[i] = SubSeq(s, a, b)  BY <1>4
  <2> HIDE DEF a, b
  <2>4. /\ SubSeq(s, a, b) \in Seq(Nat)
        /\ Len(SubSeq(s, a, b)) = b - a + 1
        /\ \A j \in 1 .. b - a + 1 : SubSeq(s, a, b)[j] = s[a + j - 1]
    <3>1. /\ SubSeq(s, a, b) \in Seq(Nat)
          /\ Len(SubSeq(s, a, b)) = IF a <= b THEN b - a + 1 ELSE 0
          /\ \A j \in 1 .. b - a + 1 : SubSeq(s, a, b)[j] = s[a + j - 1]
      <4>1. a \in Int /\ b \in Int /\ \A p \in a .. b : s[p] \in Nat  BY <2>1, <2>2
      <4> DEFINE U == Nat
      <4>2. a \in Int /\ b \in Int /\ \A p \in a .. b : s[p] \in U  BY <4>1
      <4> HIDE DEF U
      <4>3. /\ SubSeq(s, a, b) \in Seq(U)
            /\ Len(SubSeq(s, a, b)) = IF a <= b THEN b - a + 1 ELSE 0
            /\ \A j \in 1 .. b - a + 1 : SubSeq(s, a, b)[j] = s[a + j - 1]
        BY <4>2, SubSeqProperties
      <4> QED  BY <4>3 DEF U
    <3>2. a <= b  BY <2>1
    <3> QED  BY <3>1, <3>2
  <2>5. b = hi(i)  BY DEF b
  <2>6. \A j \in 1 .. b - a + 1 : a + j - 1 = (i - 1) * k + j  BY <2>1
  <2> HIDE DEF hi
  <2>7. \A j \in 1 .. b - a + 1 : ss[i][j] = s[(i - 1) * k + j]  BY <2>3, <2>4, <2>6
  <2> QED  BY <2>1, <2>3, <2>4, <2>5, <2>7
<1>7. ss \in Seq(Seq(Nat)) /\ Len(ss) = m /\ DOMAIN ss = 1 .. m
  <2> HIDE DEF hi
  <2>1. \A i \in 1 .. m : ss[i] \in Seq(Nat)  BY <1>6
  <2>2. DOMAIN ss = 1 .. m /\ ss = [i \in 1 .. m |-> ss[i]]  BY <1>4
  <2> QED  BY <1>20, <2>1, <2>2
<1>8. s = <<>> <=> m = 0  BY <1>1, <1>2 DEF n
<1>9. m # 0 => /\ m >= 1 /\ (m - 1) * k + Len(ss[m]) = n /\ Len(ss[m]) \in 1 .. k
  <2> SUFFICES ASSUME m # 0 PROVE m >= 1 /\ (m - 1) * k + Len(ss[m]) = n /\ Len(ss[m]) \in 1 .. k
    OBVIOUS
  <2>1. m \in 1 .. m  BY <1>20
  <2>2. hi(m) = n /\ (m - 1) * k \in Nat /\ hi(m) - (m - 1) * k \in 1 .. k  BY <1>5, <2>1
  <2>3. Len(ss[m]) = hi(m) - (m - 1) * k  BY <1>6, <2>1
  <2> HIDE DEF hi
  <2> QED  BY <1>1, <2>1, <2>2, <2>3
<1>10. \A i \in DOMAIN ss : i # m => Len(ss[i]) = k
  <2> HIDE DEF hi
  <2> QED  BY <1>5, <1>6, <1>7
<1>11. BlocksIn(ss) \subseteq Elements(s)
  <2> SUFFICES ASSUME NEW i \in 1 .. m, NEW j \in DOMAIN ss[i] PROVE ss[i][j] \in Elements(s)
    BY <1>7 DEF BlocksIn, Elements
  <2>1. hi(i) \in (i - 1) * k + 1 .. n /\ (i - 1) * k \in Nat  BY <1>5
  <2>2. /\ Len(ss[i]) = hi(i) - (i - 1) * k /\ ss[i] \in Seq(Nat)
        /\ \A e \in 1 .. hi(i) - (i - 1) * k : ss[i][e] = s[(i - 1) * k + e]
    BY <1>6
  <2> HIDE DEF hi
  <2>3. DOMAIN ss[i] = 1 .. hi(i) - (i - 1) * k /\ j \in 1 .. hi(i) - (i - 1) * k  BY <2>2
  <2>4. (i - 1) * k + j \in 1 .. n
    <3> DEFINE c == (i - 1) * k
    <3>1. c \in Nat /\ hi(i) \in c + 1 .. n /\ j \in 1 .. hi(i) - c  BY <2>1, <2>3
    <3> HIDE DEF c
    <3>2. c + j \in 1 .. n  BY <1>1, <3>1, SMTT(30), ZenonT(20)
    <3> QED  BY <3>2 DEF c
  <2> QED  BY <1>1, <2>2, <2>3, <2>4 DEF Elements
<1>12. ASSUME NEW p \in 1 .. n PROVE s[p] \in BlocksIn(ss)
  <2> DEFINE i == (p - 1) \div k + 1
             j == p - (i - 1) * k
  <2>1. i \in 1 .. m  BY <1>2
  <2>2. /\ (i - 1) * k =< p - 1 /\ p - 1 < (i - 1) * k + k /\ (i - 1) * k \in Int
    <3> DEFINE q == (p - 1) \div k
    <3>1. q \in Nat /\ q * k =< p - 1 /\ p - 1 < q * k + k
      <4>1. \A a \in Nat : a \div k \in Nat /\ (a \div k) * k =< a /\ a < (a \div k) * k + k
        BY <1>1
      <4>2. p - 1 \in Nat  BY <1>1
      <4> QED  BY <4>1, <4>2
    <3>2. i - 1 = q  BY <3>1
    <3> HIDE DEF q, i
    <3> QED  BY <1>1, <3>1, <3>2
  <2> HIDE DEF i
  <2>3. i * k = (i - 1) * k + k /\ hi(i) = (IF i * k =< n THEN i * k ELSE n)  BY <1>5, <2>1
  <2>4. j \in 1 .. hi(i) - (i - 1) * k /\ (i - 1) * k + j = p
    BY <1>1, <2>1, <2>2, <2>3
  <2>5. /\ Len(ss[i]) = hi(i) - (i - 1) * k /\ ss[i] \in Seq(Nat)
        /\ \A e \in 1 .. hi(i) - (i - 1) * k : ss[i][e] = s[(i - 1) * k + e]
    BY <1>6, <2>1
  <2> HIDE DEF hi, j
  <2>6. j \in DOMAIN ss[i] /\ ss[i][j] = s[p]  BY <2>4, <2>5
  <2>7. s[p] \in Elements(ss[i])  BY <2>6 DEF Elements
  <2> QED  BY <1>7, <2>1, <2>7 DEF BlocksIn
<1>13. BlocksIn(ss) = Elements(s)  BY <1>1, <1>11, <1>12 DEF Elements
<1> HIDE DEF hi
<1> QED  BY <1>7, <1>8, <1>9, <1>10, <1>13 DEF BatchesOf, n, k, ss

\* What is in two sequences is what is in either.
LEMMA ElementsConcat ==
  ASSUME NEW S, NEW a \in Seq(S), NEW b \in Seq(S)
  PROVE  a \o b \in Seq(S) /\ Elements(a \o b) = Elements(a) \cup Elements(b)
<1>1. /\ a \o b \in Seq(S) /\ Len(a \o b) = Len(a) + Len(b) /\ Len(a) \in Nat /\ Len(b) \in Nat
      /\ DOMAIN a = 1 .. Len(a) /\ DOMAIN b = 1 .. Len(b) /\ DOMAIN (a \o b) = 1 .. Len(a) + Len(b)
  OBVIOUS
<1>2. \A i \in 1 .. Len(a) : (a \o b)[i] = a[i]  OBVIOUS
<1>3. \A i \in 1 .. Len(b) : Len(a) + i \in 1 .. Len(a) + Len(b) /\ (a \o b)[Len(a) + i] = b[i]  OBVIOUS
<1>4. \A i \in 1 .. Len(a) + Len(b) :
        i \in 1 .. Len(a) \/ (i - Len(a) \in 1 .. Len(b) /\ i = Len(a) + (i - Len(a)))
  BY <1>1
<1>5. \A i \in 1 .. Len(a) : i \in 1 .. Len(a) + Len(b)  BY <1>1
<1> DEFINE r == a \o b
<1> HIDE DEF r
<1>6. ASSUME NEW i \in DOMAIN r PROVE r[i] \in Elements(a) \cup Elements(b)
  <2>1. i \in 1 .. Len(a) + Len(b)  BY <1>1, <1>6 DEF r
  <2>2. CASE i \in 1 .. Len(a)  BY <1>1, <1>2, <2>2 DEF Elements, r
  <2>3. CASE i - Len(a) \in 1 .. Len(b) /\ i = Len(a) + (i - Len(a))
    BY <1>1, <1>3, <2>3 DEF Elements, r
  <2> QED  BY <1>4, <2>1, <2>2, <2>3
<1>7. Elements(a) \subseteq Elements(r)  BY <1>1, <1>2, <1>5 DEF Elements, r
<1>8. Elements(b) \subseteq Elements(r)  BY <1>1, <1>3 DEF Elements, r
<1> QED  BY <1>1, <1>6, <1>7, <1>8 DEF Elements, r

LEMMA ElementsOne == \A x : Elements(<<x>>) = {x}
<1> SUFFICES ASSUME NEW x PROVE Elements(<<x>>) = {x}  OBVIOUS
<1>1. DOMAIN <<x>> = {1} /\ <<x>>[1] = x  OBVIOUS
<1> QED  BY <1>1 DEF Elements

\* Reversing changes the order only.
LEMMA ReverseOf ==
  ASSUME NEW S, NEW s \in Seq(S)
  PROVE  /\ F!Reverse(s) \in Seq(S) /\ Len(F!Reverse(s)) = Len(s)
         /\ \A i \in 1 .. Len(s) : F!Reverse(s)[i] = s[Len(s) - i + 1]
         /\ Elements(F!Reverse(s)) = Elements(s)
<1> DEFINE r == F!Reverse(s)
           n == Len(s)
<1>1. /\ n \in Nat /\ DOMAIN s = 1 .. n
      /\ \A i \in 1 .. n : n - i + 1 \in 1 .. n /\ s[n - i + 1] \in S
      /\ \A i \in 1 .. n : n - (n - i + 1) + 1 = i
  OBVIOUS
<1>2. r = [i \in 1 .. n |-> s[n - i + 1]]
  <2>1. r = [i \in 1 .. n |-> s[(n - i) + 1]]  BY DEF F!Reverse
  <2> QED  BY <2>1
<1> HIDE DEF r, n
<1>3. r \in Seq(S) /\ Len(r) = n /\ DOMAIN r = 1 .. n  BY <1>1, <1>2
<1>4. \A i \in 1 .. n : r[i] = s[n - i + 1] /\ s[i] = r[n - i + 1]  BY <1>1, <1>2
<1>5. Elements(r) = Elements(s)  BY <1>1, <1>3, <1>4, SMTT(30), ZenonT(20) DEF Elements
<1> QED  BY <1>3, <1>4, <1>5 DEF r, n

LEMMA BlocksOfElements == \A bs : BlocksIn(bs) = UNION {Elements(x) : x \in Elements(bs)}
  BY DEF BlocksIn, Elements

\* The blocks of two lists of batches.
LEMMA BlocksConcat ==
  ASSUME NEW a \in Seq(Seq(Nat)), NEW b \in Seq(Seq(Nat))
  PROVE  a \o b \in Seq(Seq(Nat)) /\ BlocksIn(a \o b) = BlocksIn(a) \cup BlocksIn(b)
<1>1. a \o b \in Seq(Seq(Nat)) /\ Elements(a \o b) = Elements(a) \cup Elements(b)  BY ElementsConcat
<1> QED  BY <1>1, BlocksOfElements

LEMMA BlocksOne == \A x : BlocksIn(<<x>>) = Elements(x)
<1> SUFFICES ASSUME NEW x PROVE BlocksIn(<<x>>) = Elements(x)  OBVIOUS
<1>1. BlocksIn(<<x>>) = UNION {Elements(y) : y \in Elements(<<x>>)}  BY BlocksOfElements
<1>2. Elements(<<x>>) = {x}  BY ElementsOne
<1> QED  BY <1>1, <1>2

LEMMA BlocksReverse ==
  ASSUME NEW a \in Seq(Seq(Nat))
  PROVE  F!Reverse(a) \in Seq(Seq(Nat)) /\ BlocksIn(F!Reverse(a)) = BlocksIn(a)
  BY ReverseOf, BlocksOfElements

\* A sequence is its head in front of its tail.
LEMMA HeadTail ==
  ASSUME NEW S, NEW s \in Seq(S), s # <<>>
  PROVE  /\ s[1] \in S /\ Head(s) = s[1] /\ Tail(s) \in Seq(S) /\ s = <<s[1]>> \o Tail(s)
         /\ Len(Tail(s)) = Len(s) - 1 /\ Len(s) \in Nat /\ Len(s) >= 1
         /\ \A i \in 1 .. Len(s) - 1 : Tail(s)[i] = s[i + 1]
  OBVIOUS

\* Full batches, behind a batch at the front.
Full(t) == t \in Seq(Seq(Nat)) /\ \A i \in DOMAIN t : Len(t[i]) = MaxNumBlocksInBatch

\* Behind the front batch all are full ...
LEMMA ShapeSplit ==
  ASSUME NEW bs, Shape(bs)
  PROVE  /\ bs \in Seq(Seq(Nat)) /\ bs # <<>>
         /\ Head(bs) = bs[1] /\ bs[1] \in Seq(Nat) /\ Len(bs[1]) \in 0 .. MaxNumBlocksInBatch
         /\ Full(Tail(bs)) /\ bs = <<bs[1]>> \o Tail(bs) /\ Len(Tail(bs)) = Len(bs) - 1
         /\ Len(bs) \in Nat \ {0}
         /\ BlocksIn(bs) = Elements(bs[1]) \cup BlocksIn(Tail(bs))
         /\ Count(bs) = Len(Tail(bs)) * MaxNumBlocksInBatch + Len(bs[1])
<1>1. bs \in Seq(Seq(Nat)) /\ bs # <<>>  BY DEF Shape
<1>2. /\ bs[1] \in Seq(Nat) /\ Head(bs) = bs[1] /\ Tail(bs) \in Seq(Seq(Nat)) /\ bs = <<bs[1]>> \o Tail(bs)
      /\ Len(Tail(bs)) = Len(bs) - 1 /\ Len(bs) \in Nat /\ Len(bs) >= 1
      /\ \A i \in 1 .. Len(bs) - 1 : Tail(bs)[i] = bs[i + 1]
  BY <1>1, HeadTail
<1>3. \A i \in 1 .. Len(bs) - 1 : i + 1 \in DOMAIN bs /\ i + 1 # 1  BY <1>1, <1>2
<1>4. Full(Tail(bs))
  <2>1. DOMAIN Tail(bs) = 1 .. Len(bs) - 1  BY <1>2
  <2> QED  BY <1>2, <1>3, <2>1 DEF Full, Shape
<1>5. BlocksIn(bs) = Elements(bs[1]) \cup BlocksIn(Tail(bs))
  <2>1. <<bs[1]>> \in Seq(Seq(Nat))  BY <1>2
  <2>2. BlocksIn(<<bs[1]>> \o Tail(bs)) = BlocksIn(<<bs[1]>>) \cup BlocksIn(Tail(bs))
    BY <1>2, <2>1, BlocksConcat
  <2> QED  BY <1>2, <2>2, BlocksOne
<1>6. Len(bs[1]) \in 0 .. MaxNumBlocksInBatch
  <2>1. 1 \in DOMAIN bs  BY <1>1, <1>2
  <2>2. Len(bs[1]) =< MaxNumBlocksInBatch  BY <2>1 DEF Shape
  <2> QED  BY <1>2, <2>2, Cap
<1> QED  BY <1>1, <1>2, <1>4, <1>5, <1>6 DEF Count

\* ... and any batch may be in front of full ones.
LEMMA ShapeJoin ==
  ASSUME NEW h \in Seq(Nat), Len(h) =< MaxNumBlocksInBatch, NEW t, Full(t)
  PROVE  LET bs == <<h>> \o t IN
         /\ Shape(bs) /\ bs[1] = h /\ Len(bs) = Len(t) + 1 /\ Len(t) \in Nat /\ Tail(bs) = t
         /\ BlocksIn(bs) = Elements(h) \cup BlocksIn(t)
         /\ Count(bs) = Len(t) * MaxNumBlocksInBatch + Len(h)
<1> DEFINE bs == <<h>> \o t
<1>1. t \in Seq(Seq(Nat)) /\ <<h>> \in Seq(Seq(Nat)) /\ Len(t) \in Nat  BY DEF Full
<1>2. /\ bs \in Seq(Seq(Nat)) /\ bs[1] = h /\ Len(bs) = Len(t) + 1 /\ DOMAIN bs = 1 .. Len(t) + 1
      /\ \A i \in 2 .. Len(t) + 1 : bs[i] = t[i - 1]
  BY <1>1
<1>3. BlocksIn(bs) = Elements(h) \cup BlocksIn(t)
  <2>1. BlocksIn(<<h>> \o t) = BlocksIn(<<h>>) \cup BlocksIn(t)  BY <1>1, BlocksConcat
  <2> QED  BY <2>1, BlocksOne
<1>4. Tail(bs) = t  BY <1>1
<1> HIDE DEF bs
<1>5. ASSUME NEW i \in DOMAIN bs, i # 1 PROVE Len(bs[i]) = MaxNumBlocksInBatch
  <2>1. i \in 2 .. Len(t) + 1 /\ i - 1 \in DOMAIN t  BY <1>1, <1>2, <1>5
  <2> QED  BY <1>2, <2>1 DEF Full
<1>6. bs # <<>>  BY <1>1, <1>2
<1>7. \A i \in DOMAIN bs : Len(bs[i]) =< MaxNumBlocksInBatch  BY <1>2, <1>5, Cap
<1>8. Shape(bs)  BY <1>2, <1>5, <1>6, <1>7 DEF Shape
<1>9. Count(bs) = Len(t) * MaxNumBlocksInBatch + Len(h)
  <2>1. Len(bs) - 1 = Len(t)  BY <1>1, <1>2
  <2> QED  BY <1>2, <2>1 DEF Count
<1> QED  BY <1>1, <1>2, <1>3, <1>4, <1>8, <1>9 DEF bs

\* Lists of full batches can be joined.
LEMMA FullConcat ==
  ASSUME NEW a, NEW b, Full(a), Full(b)
  PROVE  /\ Full(a \o b) /\ Len(a \o b) = Len(a) + Len(b) /\ Len(a) \in Nat /\ Len(b) \in Nat
         /\ BlocksIn(a \o b) = BlocksIn(a) \cup BlocksIn(b)
<1>1. a \in Seq(Seq(Nat)) /\ b \in Seq(Seq(Nat))  BY DEF Full
<1>2. /\ a \o b \in Seq(Seq(Nat)) /\ Len(a \o b) = Len(a) + Len(b) /\ Len(a) \in Nat /\ Len(b) \in Nat
      /\ DOMAIN (a \o b) = 1 .. Len(a) + Len(b)
      /\ \A i \in DOMAIN (a \o b) :
           (i \in DOMAIN a /\ (a \o b)[i] = a[i]) \/ (i - Len(a) \in DOMAIN b /\ (a \o b)[i] = b[i - Len(a)])
  BY <1>1
<1>3. BlocksIn(a \o b) = BlocksIn(a) \cup BlocksIn(b)  BY <1>1, BlocksConcat
<1> DEFINE r == a \o b
<1> HIDE DEF r
<1>4. \A i \in DOMAIN r : Len(r[i]) = MaxNumBlocksInBatch  BY <1>2 DEF r, Full
<1> QED  BY <1>2, <1>3, <1>4 DEF r, Full

LEMMA FullOne ==
  ASSUME NEW h \in Seq(Nat), Len(h) = MaxNumBlocksInBatch
  PROVE  Full(<<h>>) /\ Len(<<h>>) = 1 /\ BlocksIn(<<h>>) = Elements(h)
<1>1. <<h>> \in Seq(Seq(Nat)) /\ DOMAIN <<h>> = {1} /\ <<h>>[1] = h /\ Len(<<h>>) = 1  OBVIOUS
<1> QED  BY <1>1, BlocksOne DEF Full

\* The last of the cut batches comes to the front.
LEMMA CutBatches ==
  ASSUME NEW s \in Seq(Nat)
  PROVE  LET r == F!Reverse(F!Batches(s)) IN
         /\ r \in Seq(Seq(Nat)) /\ BlocksIn(r) = Elements(s)
         /\ s = <<>> => r = <<>>
         /\ s # <<>> => Shape(r) /\ Count(r) = Len(s) /\ Len(r[1]) >= 1
<1> DEFINE ss == F!Batches(s)
           r == F!Reverse(ss)
           m == Len(ss)
<1>1. BatchesOf(ss, s)  BY BatchesCut
<1> HIDE DEF ss
<1>2. /\ ss \in Seq(Seq(Nat)) /\ m \in Nat
      /\ s = <<>> => m = 0
      /\ s # <<>> => /\ m >= 1 /\ (m - 1) * MaxNumBlocksInBatch + Len(ss[m]) = Len(s)
                     /\ Len(ss[m]) \in 1 .. MaxNumBlocksInBatch
      /\ \A i \in 1 .. m : i # m => Len(ss[i]) = MaxNumBlocksInBatch
      /\ BlocksIn(ss) = Elements(s)
  BY <1>1 DEF BatchesOf
<1>3. /\ r \in Seq(Seq(Nat)) /\ Len(r) = m /\ BlocksIn(r) = Elements(s)
      /\ \A i \in 1 .. m : r[i] = ss[m - i + 1]
  BY <1>2, ReverseOf, BlocksReverse
<1> HIDE DEF r, m
<1>4. s = <<>> => r = <<>>
  <2>1. s = <<>> => Len(r) = 0  BY <1>2, <1>3
  <2> QED  BY <1>3, <2>1
<1>5. ASSUME s # <<>> PROVE Shape(r) /\ Count(r) = Len(s) /\ Len(r[1]) >= 1
  <2>1. m >= 1 /\ 1 \in 1 .. m /\ m - 1 + 1 = m  BY <1>2, <1>5
  <2>2. r[1] = ss[m]  BY <1>3, <2>1
  <2>3. \A i \in 1 .. m : i # 1 => m - i + 1 \in 1 .. m /\ m - i + 1 # m  BY <1>2
  <2>4. \A i \in 1 .. m : i # 1 => Len(r[i]) = MaxNumBlocksInBatch  BY <1>2, <1>3, <2>3
  <2>5. Len(r[1]) \in 1 .. MaxNumBlocksInBatch  BY <1>2, <1>5, <2>2
  <2>6. DOMAIN r = 1 .. m /\ r # <<>>  BY <1>3, <2>1
  <2>7. \A i \in DOMAIN r : Len(r[i]) =< MaxNumBlocksInBatch  BY <2>4, <2>5, <2>6, Cap
  <2>8. Shape(r)  BY <1>3, <2>4, <2>6, <2>7 DEF Shape
  <2>9. Count(r) = Len(s)  BY <1>2, <1>3, <1>5, <2>2 DEF Count
  <2> QED  BY <2>5, <2>8, <2>9
<1> QED  BY <1>3, <1>4, <1>5 DEF r, ss

\* InsertBlocks of pushBlocksImpl() keeps the form of a group and its blocks, and
\* adds the new ones.
LEMMA Inserts ==
  ASSUME NEW bs, Shape(bs), NEW s \in Seq(Nat)
  PROVE  LET r == F!InsertBlocks(bs, s) IN
         /\ Shape(r)
         /\ BlocksIn(r) = BlocksIn(bs) \cup Elements(s)
         /\ Count(r) = Count(bs) + Len(s)
         /\ s # <<>> \/ Len(bs[1]) >= 1 => Len(r[1]) >= 1
<1> DEFINE M == MaxNumBlocksInBatch
           h == bs[1]
           t == Tail(bs)
           n == Len(s)
           room == IF M - Len(h) =< n THEN M - Len(h) ELSE n
           one == SubSeq(s, 1, room)
           two == SubSeq(s, room + 1, n)
           front == h \o one
           new == F!Reverse(F!Batches(two))
           r == F!InsertBlocks(bs, s)
<1>1. /\ bs \in Seq(Seq(Nat)) /\ Head(bs) = h /\ h \in Seq(Nat) /\ Len(h) \in 0 .. M
      /\ Full(t) /\ BlocksIn(bs) = Elements(h) \cup BlocksIn(t) /\ Count(bs) = Len(t) * M + Len(h)
  BY ShapeSplit
<1>2. /\ n \in Nat /\ room \in 0 .. n /\ M \in Nat \ {0} /\ Len(h) \in Nat /\ Len(h) + room =< M
      /\ room = n \/ (room = M - Len(h) /\ room =< n)
  <2>1. n \in Nat /\ M \in Nat \ {0}  BY Cap
  <2> DEFINE l == Len(h)
  <2>2. l \in 0 .. M /\ room = IF M - l =< n THEN M - l ELSE n  BY <1>1
  <2> HIDE DEF n, M, l, room
  <2>3. room \in 0 .. n /\ l + room =< M /\ l \in Nat /\ (room = n \/ (room = M - l /\ room =< n))
    BY <2>1, <2>2
  <2> QED  BY <2>1, <2>3 DEF l
<1>3. F!Min({M - Len(h), n}) = room
  <2>1. M - Len(h) \in Int /\ n \in Int  BY <1>2
  <2> HIDE DEF M, h, n
  <2> QED  BY <2>1, MinPair
<1>4. r = new \o <<front>> \o t
  <2>1. r = F!Reverse(F!Batches(SubSeq(s, F!Min({M - Len(h), n}) + 1, n)))
              \o <<h \o SubSeq(s, 1, F!Min({M - Len(h), n}))>> \o t
    <3>1. r = F!Reverse(F!Batches(SubSeq(s, F!Min({M - Len(Head(bs)), n}) + 1, n)))
              \o <<Head(bs) \o SubSeq(s, 1, F!Min({M - Len(Head(bs)), n}))>> \o t
      BY Zenon DEF F!InsertBlocks
    <3> QED  BY <1>1, <3>1, Zenon
  <2> HIDE DEF room, r, n
  <2> QED  BY <1>3, <2>1, Zenon
<1>5. /\ one \in Seq(Nat) /\ Len(one) = room /\ two \in Seq(Nat) /\ Len(two) = n - room
      /\ Elements(s) = Elements(one) \cup Elements(two)
  <2>1. room \in 0 .. Len(s)  BY <1>2
  <2> HIDE DEF room
  <2> QED  BY <2>1, SubSeqOf
<1>6. /\ front \in Seq(Nat) /\ Len(front) = Len(h) + room /\ Elements(front) = Elements(h) \cup Elements(one)
      /\ Len(front) =< M
  <2> HIDE DEF one, h, room, n, M
  <2>1. front \in Seq(Nat) /\ Len(front) = Len(h) + room
    <3>1. h \in Seq(Nat) /\ one \in Seq(Nat) /\ Len(one) = room  BY <1>1, <1>5
    <3>2. h \o one \in Seq(Nat) /\ Len(h \o one) = Len(h) + Len(one)  BY ONLY <3>1, ConcatProperties
    <3> QED  BY <3>1, <3>2
  <2>2. Elements(front) = Elements(h) \cup Elements(one)  BY <1>1, <1>5, ElementsConcat
  <2> QED  BY <1>2, <2>1, <2>2
<1>7. /\ Shape(<<front>> \o t) /\ (<<front>> \o t)[1] = front /\ Tail(<<front>> \o t) = t
      /\ BlocksIn(<<front>> \o t) = Elements(front) \cup BlocksIn(t)
      /\ Count(<<front>> \o t) = Len(t) * M + Len(front) /\ Len(t) \in Nat
      /\ Len(<<front>> \o t) = Len(t) + 1
  <2> HIDE DEF front, t
  <2> QED  BY <1>1, <1>6, ShapeJoin
<1>8. /\ new \in Seq(Seq(Nat)) /\ BlocksIn(new) = Elements(two)
      /\ two = <<>> => new = <<>>
      /\ two # <<>> => Shape(new) /\ Count(new) = Len(two) /\ Len(new[1]) >= 1
  <2> HIDE DEF two
  <2> QED  BY <1>5, CutBatches
<1>9. r = new \o (<<front>> \o t)
  <2>1. <<front>> \in Seq(Seq(Nat)) /\ t \in Seq(Seq(Nat))  BY <1>1, <1>6 DEF Full
  <2> HIDE DEF front, t, new, r
  <2> QED  BY <1>4, <1>8, <2>1, SMTT(30), ZenonT(20)
<1> DEFINE g == <<front>> \o t
<1>10. g \in Seq(Seq(Nat))  BY <1>7 DEF Shape
<1>11. BlocksIn(r) = BlocksIn(bs) \cup Elements(s)
  <2>1. BlocksIn(r) = BlocksIn(new) \cup BlocksIn(g)
    <3> HIDE DEF g, new, r
    <3> QED  BY <1>8, <1>9, <1>10, BlocksConcat DEF g
  <2> HIDE DEF new, g, front, one, two, h, t, r
  <2> QED  BY <1>1, <1>5, <1>6, <1>7, <1>8, <2>1 DEF g
<1>12. CASE two = <<>>
  <2>1. new = <<>> /\ n = room
    <3>1. Len(two) = 0  BY <1>12
    <3> HIDE DEF two, n, room, new
    <3> QED  BY <1>2, <1>5, <1>8, <1>12, <3>1
  <2>2. r = g  BY <1>9, <1>10, <2>1, SMTT(30), ZenonT(20)
  <2>4. Count(r) = Count(bs) + n
    <3>1. Len(t) * M \in Int  BY <1>2, <1>7
    <3> HIDE DEF g, front, one, two, h, t, r, room, n, M
    <3> QED  BY <1>1, <1>2, <1>6, <1>7, <2>1, <2>2, <3>1 DEF g
  <2>5. s # <<>> => n # 0  OBVIOUS
  <2>6. s # <<>> \/ Len(h) >= 1 => Len(front) >= 1
    <3> HIDE DEF front, h, room, n
    <3> QED  BY <1>2, <1>6, <2>1, <2>5
  <2> HIDE DEF front, one, two, h, t, r, room, n, M
  <2> QED  BY <1>7, <1>11, <2>2, <2>4, <2>6 DEF r, n, h, g
<1>13. CASE two # <<>>
  <2>1. n - room # 0 /\ room = M - Len(h) /\ Len(front) = M
    <3>1. n - room # 0  
      <4> HIDE DEF two, n, room
      <4>1. Len(two) # 0  BY <1>5, <1>13
      <4> QED  BY <1>5, <4>1
    <3> HIDE DEF two, n, room, h, front, M
    <3> QED  BY <1>2, <1>6, <3>1
  <2>2. /\ Shape(new) /\ Count(new) = n - room /\ Len(new[1]) >= 1  BY <1>5, <1>8, <1>13
  <2> DEFINE u == Tail(new)
             f == new[1]
  <2>3. /\ f \in Seq(Nat) /\ Len(f) \in 0 .. M /\ Full(u) /\ new = <<f>> \o u /\ Len(u) \in Nat
        /\ Count(new) = Len(u) * M + Len(f)
    <3> HIDE DEF new
    <3>1. /\ f \in Seq(Nat) /\ Len(f) \in 0 .. M /\ Full(u) /\ new = <<f>> \o u
          /\ Count(new) = Len(u) * M + Len(f)
      BY <2>2, ShapeSplit
    <3>2. Len(u) \in Nat  BY <3>1 DEF Full
    <3> QED  BY <3>1, <3>2
  <2>4. Full(<<front>>) /\ Len(<<front>>) = 1
    <3> HIDE DEF front
    <3> QED  BY <1>6, <2>1, FullOne
  <2>5. Full(g) /\ Len(g) = 1 + Len(t)
    <3> HIDE DEF front, t
    <3> QED  BY <1>1, <2>4, FullConcat
  <2>6. Full(u \o g) /\ Len(u \o g) = Len(u) + Len(g)
    <3> HIDE DEF u, g
    <3> QED  BY <2>3, <2>5, FullConcat
  <2>7. r = <<f>> \o (u \o g)
    <3>1. u \in Seq(Seq(Nat)) /\ <<f>> \in Seq(Seq(Nat))  BY <2>3 DEF Full
    <3>2. r = new \o g  BY <1>9
    <3> HIDE DEF u, f, g, r, new
    <3>3. new \o g = <<f>> \o (u \o g)  BY <1>10, <2>3, <3>1
    <3> QED  BY <3>2, <3>3
  <2>8. /\ Shape(r) /\ r[1] = f /\ Count(r) = Len(u \o g) * M + Len(f)
    <3> HIDE DEF u, g, f, r
    <3>1. Len(f) =< M  BY <2>3, Cap
    <3> QED  BY <2>3, <2>6, <2>7, <3>1, ShapeJoin
  <2>9. Count(r) = Count(bs) + n
    <3> HIDE DEF g, front, one, two, h, t, r, room, n, M, u, f, new
    <3>1. Len(u) \in Nat /\ Len(t) \in Nat /\ M \in Nat /\ Len(h) \in Nat /\ Len(f) \in Nat
      BY <1>1, <1>2, <1>7, <2>3, Cap DEF M
    <3>2. Count(r) = (Len(u) + 1 + Len(t)) * M + Len(f)
      <4>1. Len(u \o g) = Len(u) + 1 + Len(t)  BY <2>5, <2>6, <3>1
      <4> QED  BY <2>8, <4>1
    <3>3. (Len(u) + 1 + Len(t)) * M = Len(u) * M + M + Len(t) * M  BY ONLY <3>1
    <3>4. Len(u) * M + Len(f) = n - (M - Len(h))  BY <2>1, <2>2, <2>3
    <3>5. Count(bs) = Len(t) * M + Len(h)  BY <1>1
    <3>6. Len(u) * M \in Int /\ Len(t) * M \in Int /\ n \in Nat  BY <1>2, <3>1
    <3>7. Len(u) * M + M + Len(t) * M + Len(f) = Len(t) * M + Len(h) + n
      BY ONLY <3>1, <3>4, <3>6, SMTT(30), ZenonT(20)
    <3> QED  BY <3>2, <3>3, <3>5, <3>7
  <2>10. Len(r[1]) >= 1  BY <2>2, <2>8
  <2> HIDE DEF g, r
  <2> QED  BY <1>11, <2>8, <2>9, <2>10 DEF r
<1> HIDE DEF r, h
<1> QED  BY <1>12, <1>13 DEF r, h

\* A group of a list: every list that the code builds consists of such.
BatchesT == {bs \in Seq(Seq(Nat)) : Shape(bs)}

GroupT == [base : Nat, batches : BatchesT, BytesInBGAtLastCheckpoint : Int]

\* The fields of a group.
LEMMA GroupFields ==
  ASSUME NEW g \in GroupT
  PROVE  g.base \in Nat /\ g.batches \in Seq(Seq(Nat)) /\ Shape(g.batches)
         /\ g.BytesInBGAtLastCheckpoint \in Int
<1>1. g.base \in Nat /\ g.batches \in BatchesT /\ g.BytesInBGAtLastCheckpoint \in Int
  BY DEF GroupT
<1> QED  BY <1>1 DEF BatchesT

Ordered(l) == \A i, j \in DOMAIN l : i < j => l[i].base < l[j].base

\* Place is where the groups below a base end.
LEMMA PlaceIn ==
  ASSUME NEW l \in Seq(GroupT), NEW base \in Nat
  PROVE  LET k == F!Place(l, base) IN
         /\ k \in 0 .. Len(l) /\ \A i \in 1 .. k : l[i].base < base
         /\ k < Len(l) => l[k + 1].base >= base
<1> DEFINE U == {k \in 0 .. Len(l) : k < Len(l) => l[k + 1].base >= base}
           Q(k) == /\ \A i \in 1 .. k : l[i].base < base
                   /\ k < Len(l) => l[k + 1].base >= base
<1>1. Len(l) \in Nat /\ \A i \in 1 .. Len(l) : l[i].base \in Nat
  <2>1. Len(l) \in Nat /\ \A i \in 1 .. Len(l) : l[i] \in GroupT  OBVIOUS
  <2> QED  BY <2>1, GroupFields
<1>2. U \in SUBSET Nat /\ U # {}
  <2>1. Len(l) \in U  BY <1>1
  <2> QED  BY <2>1, <1>1
<1>3. PICK k \in U : \A y \in U : k =< y  BY <1>2, Least
<1>4. k \in 0 .. Len(l) /\ Q(k)
  <2>1. ASSUME NEW i \in 1 .. k PROVE l[i].base < base
    <3>1. i - 1 \in 0 .. Len(l) /\ i - 1 < k /\ (i - 1) + 1 = i /\ i - 1 < Len(l) /\ i \in 1 .. Len(l)
      BY <1>1, <1>3
    <3>2. ~(i - 1 \in U)  BY <1>3, <3>1
    <3>3. ~(l[(i - 1) + 1].base >= base)  BY <3>1, <3>2
    <3> QED  BY <1>1, <3>1, <3>3
  <2> QED  BY <1>3, <2>1
<1> HIDE DEF U
<1>5. F!Place(l, base) = CHOOSE x \in 0 .. Len(l) : Q(x)  BY Zenon DEF F!Place
<1> HIDE DEF Q
<1>6. F!Place(l, base) \in 0 .. Len(l) /\ Q(F!Place(l, base))
  <2>1. \E x : x \in 0 .. Len(l) /\ Q(x)  BY <1>4, Zenon
  <2> QED  BY <1>5, <2>1, Zenon
<1> QED  BY <1>6 DEF Q

\* Put replaces the group of the same base, or keeps the list in order.
LEMMA Puts ==
  ASSUME NEW l \in Seq(GroupT), NEW g \in GroupT
  PROVE  \E a, b \in Seq(GroupT) :
           /\ F!Put(l, g) = a \o <<g>> \o b
           /\ F!HasGroup(l, g.base) =>
                /\ F!GroupAt(l, g.base) \in GroupT /\ F!GroupAt(l, g.base).base = g.base
                /\ l = a \o <<F!GroupAt(l, g.base)>> \o b
           /\ ~F!HasGroup(l, g.base) => l = a \o b
           /\ \A i \in DOMAIN a : a[i].base < g.base
           /\ Ordered(l) => \A i \in DOMAIN b : b[i].base > g.base
<1> DEFINE k == F!Place(l, g.base)
           n == Len(l)
           next == IF F!HasGroup(l, g.base) THEN k + 2 ELSE k + 1
           a == SubSeq(l, 1, k)
           b == SubSeq(l, next, n)
           c == SubSeq(l, k + 1, n)
<1>0. g.base \in Nat /\ n \in Nat /\ DOMAIN l = 1 .. n /\ \A i \in 1 .. n : l[i] \in GroupT /\ l[i].base \in Nat
  <2>1. Len(l) \in Nat /\ DOMAIN l = 1 .. Len(l) /\ \A i \in 1 .. Len(l) : l[i] \in GroupT  OBVIOUS
  <2>2. g.base \in Nat /\ \A i \in 1 .. Len(l) : l[i].base \in Nat  BY <2>1, GroupFields
  <2> QED  BY <2>1, <2>2
<1>1. k \in 0 .. n /\ (\A i \in 1 .. k : l[i].base < g.base) /\ (k < n => l[k + 1].base >= g.base)
  <2>1. g.base \in Nat  BY <1>0
  <2> QED  BY <2>1, PlaceIn
<1>01. n \in Nat /\ k \in 0 .. n  BY <1>0, <1>1
<1>2. F!HasGroup(l, g.base) <=> k < n /\ l[k + 1].base = g.base  BY Zenon DEF F!HasGroup
<1>3. F!GroupAt(l, g.base) = l[k + 1]  BY Zenon DEF F!GroupAt
<1>4. F!Put(l, g) = a \o <<g>> \o b  BY Zenon DEF F!Put
<1> HIDE DEF k
<1>5. /\ a \in Seq(GroupT) /\ Len(a) = k /\ \A i \in 1 .. k : a[i] = l[i]
      /\ c \in Seq(GroupT) /\ Len(c) = n - k /\ \A i \in 1 .. n - k : c[i] = l[k + i]
  BY <1>1, SubSeqOf
<1>6. l = a \o c
  <2>1. a \o c \in Seq(GroupT) /\ Len(a \o c) = n
    <3> HIDE DEF a, c
    <3>1. a \o c \in Seq(GroupT) /\ Len(a \o c) = Len(a) + Len(c)  BY <1>5, ConcatProperties
    <3> QED  BY <1>0, <1>1, <1>5, <3>1
  <2>2. ASSUME NEW i \in 1 .. n PROVE (a \o c)[i] = l[i]
    <3> HIDE DEF a, c
    <3>1. (a \o c)[i] = IF i <= k THEN a[i] ELSE c[i - k]
      <4>1. \A j \in 1 .. Len(a) + Len(c) : (a \o c)[j] = IF j <= Len(a) THEN a[j] ELSE c[j - Len(a)]
        BY <1>5, ConcatProperties
      <4>2. i \in 1 .. Len(a) + Len(c)  BY <1>0, <1>1, <1>5
      <4> QED  BY <1>5, <4>1, <4>2
    <3>2. CASE i <= k  BY <1>1, <1>5, <3>1, <3>2
    <3>3. CASE i > k
      <4>1. i - k \in 1 .. n - k /\ k + (i - k) = i /\ ~(i <= k)  BY <1>0, <1>1, <3>3
      <4> QED  BY <1>5, <3>1, <4>1
    <3>4. i <= k \/ i > k
      <4>1. i \in Int /\ k \in Int  BY <1>01
      <4> QED  BY ONLY <4>1
    <3> QED  BY <3>2, <3>3, <3>4, Zenon
  <2> HIDE DEF a, c, n
  <2> QED  BY <1>0, <2>1, <2>2, SeqEqual DEF n
<1>7. \A i \in DOMAIN a : a[i].base < g.base
  <2>1. DOMAIN a = 1 .. k  BY <1>1, <1>5
  <2> QED  BY <1>1, <1>5, <2>1
<1>8. CASE ~F!HasGroup(l, g.base)
  <2>1. b = c  BY <1>8
  <2>2. Ordered(l) => \A i \in DOMAIN b : b[i].base > g.base
    <3> SUFFICES ASSUME Ordered(l), NEW i \in DOMAIN c PROVE c[i].base > g.base  BY <2>1
    <3>1. i \in 1 .. n - k /\ c[i] = l[k + i] /\ k + i \in 1 .. n /\ k + 1 \in 1 .. n /\ k < n
      <4>1. DOMAIN c = 1 .. n - k  BY <1>0, <1>1, <1>5
      <4> HIDE DEF c
      <4> QED  BY <1>0, <1>1, <1>5, <4>1
    <3>2. l[k + 1].base > g.base  BY <1>0, <1>1, <1>2, <1>8, <3>1
    <3>3. i = 1 \/ l[k + 1].base < l[k + i].base
      <4>1. i = 1 \/ k + 1 < k + i  BY <1>1, <3>1
      <4> QED  BY <1>0, <3>1, <4>1 DEF Ordered
    <3> QED  BY <1>0, <3>1, <3>2, <3>3, SMTT(30), ZenonT(20)
  <2> HIDE DEF a, b, c
  <2> QED  BY <1>4, <1>5, <1>6, <1>7, <1>8, <2>1, <2>2
<1>9. CASE F!HasGroup(l, g.base)
  <2>1. k < n /\ l[k + 1].base = g.base /\ k + 1 \in 0 .. n /\ k + 1 \in 1 .. n /\ (k + 1) + 1 = k + 2
    BY <1>0, <1>1, <1>2, <1>9
  <2>2. /\ b \in Seq(GroupT) /\ Len(b) = n - (k + 1) /\ \A i \in 1 .. n - (k + 1) : b[i] = l[k + 1 + i]
    <3>1. b = SubSeq(l, (k + 1) + 1, n)  BY <1>9, <2>1
    <3> HIDE DEF b
    <3>2. /\ SubSeq(l, (k + 1) + 1, n) \in Seq(GroupT) /\ Len(SubSeq(l, (k + 1) + 1, n)) = n - (k + 1)
          /\ \A i \in 1 .. n - (k + 1) : SubSeq(l, (k + 1) + 1, n)[i] = l[(k + 1) + i]
      BY <2>1, SubSeqOf
    <3> QED  BY <3>1, <3>2
  <2>3. c = <<l[k + 1]>> \o b
    <3> DEFINE x == l[k + 1]
    <3>1. x \in GroupT  BY <1>0, <2>1
    <3> HIDE DEF b, c, x
    <3>2. <<x>> \in Seq(GroupT) /\ Len(<<x>>) = 1 /\ <<x>>[1] = x  BY <3>1
    <3>3. /\ <<x>> \o b \in Seq(GroupT) /\ Len(<<x>> \o b) = 1 + Len(b)
          /\ \A i \in 1 .. 1 + Len(b) : (<<x>> \o b)[i] = IF i <= 1 THEN <<x>>[i] ELSE b[i - 1]
      BY <2>2, <3>2, ConcatProperties
    <3>4. Len(<<x>> \o b) = Len(c) /\ 1 + Len(b) = n - k
      <4>1. Len(c) = n - k /\ Len(b) = n - (k + 1)  BY <1>5, <2>2
      <4> HIDE DEF n
      <4>2. 1 + Len(b) = n - k  BY <1>01, <4>1
      <4> QED  BY <3>3, <4>1, <4>2
    <3>5. ASSUME NEW i \in 1 .. Len(c) PROVE (<<x>> \o b)[i] = c[i]
      <4>1. i \in 1 .. n - k /\ i \in 1 .. 1 + Len(b) /\ c[i] = l[k + i]  BY <1>5, <3>4
      <4>2. CASE i = 1  BY <1>1, <3>2, <3>3, <4>1, <4>2 DEF x
      <4>3. CASE i # 1
        <5>1. i - 1 \in 1 .. n - (k + 1) /\ k + 1 + (i - 1) = k + i /\ ~(i <= 1)
          <6> HIDE DEF n
          <6> QED  BY <1>01, <4>1, <4>3
        <5> QED  BY <2>2, <3>3, <4>1, <5>1
      <4> QED  BY <4>2, <4>3
    <3>6. c = <<x>> \o b  BY <1>5, <3>3, <3>4, <3>5, SeqEqual
    <3> QED  BY <3>6 DEF x
  <2>4. l = a \o <<l[k + 1]>> \o b
    <3>1. <<l[k + 1]>> \in Seq(GroupT)  BY <1>0, <2>1
    <3> HIDE DEF a, b, c
    <3>2. a \o (<<l[k + 1]>> \o b) = a \o <<l[k + 1]>> \o b
      <4> DEFINE u == <<l[k + 1]>>
      <4>1. a \in Seq(GroupT) /\ b \in Seq(GroupT) /\ u \in Seq(GroupT)  BY <1>5, <2>2, <3>1
      <4> HIDE DEF u
      <4>2. (a \o u) \o b = a \o (u \o b)  BY <4>1, ConcatAssociative, SMTT(30), ZenonT(20)
      <4> QED  BY <4>2 DEF u
    <3>3. l = a \o (<<l[k + 1]>> \o b)  BY <1>6, <2>3, Zenon
    <3> QED  BY <3>2, <3>3, Zenon
  <2>5. Ordered(l) => \A i \in DOMAIN b : b[i].base > g.base
    <3> SUFFICES ASSUME Ordered(l), NEW i \in DOMAIN b PROVE b[i].base > g.base  OBVIOUS
    <3> HIDE DEF b
    <3>1. i \in 1 .. n - (k + 1) /\ b[i] = l[k + 1 + i] /\ k + 1 + i \in 1 .. n /\ k + 1 < k + 1 + i
      <4>1. DOMAIN b = 1 .. n - (k + 1)  BY <1>0, <1>1, <2>2
      <4>2. i \in 1 .. n - (k + 1)  BY <4>1
      <4>3. k + 1 + i \in 1 .. n /\ k + 1 < k + 1 + i
        <5> HIDE DEF n
        <5> QED  BY <1>01, <4>2
      <4> QED  BY <2>2, <4>2, <4>3
    <3>2. l[k + 1].base < l[k + 1 + i].base  BY <1>0, <2>1, <3>1 DEF Ordered
    <3> QED  BY <1>0, <2>1, <3>1, <3>2
  <2>6. F!GroupAt(l, g.base) \in GroupT /\ F!GroupAt(l, g.base).base = g.base
        /\ l = a \o <<F!GroupAt(l, g.base)>> \o b
    BY <1>0, <1>3, <2>1, <2>4
  <2> HIDE DEF a, b, c, n
  <2> QED  BY <1>4, <1>5, <1>7, <1>9, <2>2, <2>5, <2>6
<1> QED  BY <1>8, <1>9

\* A fold over a sequence begins with its last place, that is, the largest.
LEMMA MaxOfPlaces ==
  ASSUME NEW n \in Nat, NEW s \in SUBSET (1 .. n), s # {}
  PROVE  F!Max(s) \in s /\ \A x \in s : x =< F!Max(s)
<1> DEFINE below == {y \in Nat : n - y \in s}
<1>1. PICK d \in below : \A y \in below : d =< y
  <2>1. PICK x \in s : x \in 1 .. n
    OBVIOUS
  <2>2. n - x \in Nat /\ n - (n - x) = x
    BY <2>1
  <2>3. n - x \in below
    BY <2>2
  <2>4. below \in SUBSET Nat
    OBVIOUS
  <2>5. QED
    BY <2>3, <2>4, Least
<1>2. n - d \in s /\ \A x \in s : n - d >= x
  <2>1. ASSUME NEW x \in s PROVE n - d >= x
    <3>1. x \in 1 .. n /\ n - x \in Nat /\ n - (n - x) = x
      OBVIOUS
    <3>2. QED
      BY <1>1, <3>1
  <2>2. QED
    BY <1>1, <2>1
<1>3. F!Max(s) \in s /\ \A x \in s : F!Max(s) >= x
  BY <1>2, Zenon DEF F!Max
<1>4. QED
  BY <1>3

\* The largest index of a range is its last.
LEMMA MaxOfRange ==
  ASSUME NEW n \in Nat
  PROVE  F!Max(1 .. n + 1) = n + 1 /\ (1 .. n + 1) \ {n + 1} = 1 .. n
<1>0. n + 1 \in Nat /\ 1 .. n + 1 \in SUBSET (1 .. n + 1) /\ 1 .. n + 1 # {}
  OBVIOUS
<1>1. F!Max(1 .. n + 1) \in 1 .. n + 1 /\ \A x \in 1 .. n + 1 : x =< F!Max(1 .. n + 1)
  BY <1>0, MaxOfPlaces
<1>2. QED
  BY <1>1

\* The function that a fold of Fn over 1 .. n defines, with values in W.
FoldAt(base, Fn, g, s) == IF s = {} THEN base ELSE Fn[<<g[s \ {F!Max(s)}], F!Max(s)>>]

FoldOf(n, W, base, Fn, g) ==
  g \in [SUBSET (1 .. n) -> W] /\ \A s \in SUBSET (1 .. n) : g[s] = FoldAt(base, Fn, g, s)

\* There is such a function.
LEMMA FoldExists ==
  ASSUME NEW n \in Nat, NEW W, NEW base \in W, NEW Fn \in [W \X (1 .. n) -> W]
  PROVE  \E g : FoldOf(n, W, base, Fn, g)
<1> DEFINE Good(k, g) == \A s \in SUBSET (1 .. k) : g[s] = FoldAt(base, Fn, g, s)
           U == {k \in Nat : k =< n => \E g \in [SUBSET (1 .. n) -> W] : Good(k, g)}
<1>1. 0 \in U
  <2>1. \A s \in SUBSET (1 .. 0) : s = {}
    OBVIOUS
  <2>2. Good(0, [s \in SUBSET (1 .. n) |-> base])
    BY <2>1 DEF FoldAt
  <2>3. [s \in SUBSET (1 .. n) |-> base] \in [SUBSET (1 .. n) -> W]
    OBVIOUS
  <2>4. QED
    BY <2>2, <2>3
<1>2. ASSUME NEW k \in Nat, k \in U PROVE k + 1 \in U
  <2>1. SUFFICES ASSUME k + 1 =< n PROVE \E g \in [SUBSET (1 .. n) -> W] : Good(k + 1, g)
    <3>1. k + 1 \in Nat
      OBVIOUS
    <3>2. QED
      BY <3>1, Zenon
  <2>2. PICK g \in [SUBSET (1 .. n) -> W] : Good(k, g)
    <3>1. k =< n
      BY <2>1
    <3>2. QED
      BY <1>2, <3>1, Zenon
  <2> DEFINE h == [s \in SUBSET (1 .. n) |-> FoldAt(base, Fn, g, s)]
  <2>3. ASSUME NEW s \in SUBSET (1 .. n), s # {} PROVE F!Max(s) \in 1 .. n /\ s \ {F!Max(s)} \in SUBSET (1 .. n)
    BY <2>3, MaxOfPlaces
  <2>4. h \in [SUBSET (1 .. n) -> W]
    <3>1. ASSUME NEW s \in SUBSET (1 .. n) PROVE FoldAt(base, Fn, g, s) \in W
      <4>1. CASE s = {}
        BY <4>1 DEF FoldAt
      <4>2. CASE s # {}
        <5>1. <<g[s \ {F!Max(s)}], F!Max(s)>> \in W \X (1 .. n)
          BY <2>3, <4>2
        <5>2. QED
          BY <4>2, <5>1 DEF FoldAt
      <4>3. QED
        BY <4>1, <4>2
    <3>2. QED
      BY <3>1
  <2>5. \A s \in SUBSET (1 .. k) : h[s] = g[s]
    BY <2>1, <2>2
  <2>6. ASSUME NEW s \in SUBSET (1 .. k + 1) PROVE h[s] = FoldAt(base, Fn, h, s)
    <3>1. h[s] = FoldAt(base, Fn, g, s)
      BY <2>1
    <3>2. CASE s = {}
      BY <3>1, <3>2 DEF FoldAt
    <3>3. CASE s # {}
      <4>1. F!Max(s) \in s /\ \A x \in s : x =< F!Max(s)
        <5>1. k + 1 \in Nat
          OBVIOUS
        <5>2. QED
          BY <3>3, <5>1, MaxOfPlaces
      <4>2. s \ {F!Max(s)} \in SUBSET (1 .. k)
        <5>1. ASSUME NEW x \in s \ {F!Max(s)} PROVE x \in 1 .. k
          <6>1. PICK m \in 1 .. k + 1 : m = F!Max(s)
            BY <4>1
          <6>2. x \in 1 .. k + 1 /\ x =< m /\ x # m
            BY <4>1, <6>1
          <6>3. QED
            BY <6>2
        <5>2. QED
          BY <5>1
      <4>3. h[s \ {F!Max(s)}] = g[s \ {F!Max(s)}]
        BY <2>5, <4>2
      <4>4. QED
        BY <3>1, <3>3, <4>3, Zenon DEF FoldAt
    <3>4. QED
      BY <3>2, <3>3
  <2>7. QED
    BY <2>4, <2>6
<1>3. n \in U
  <2> HIDE DEF U
  <2>1. QED
    BY <1>1, <1>2, Induction
<1>4. n =< n
  OBVIOUS
<1>5. QED
  BY <1>3, <1>4, Zenon DEF FoldOf

\* Places of a sequence of n.
LEMMA FirstPlaces ==
  ASSUME NEW n \in Nat, NEW k \in 0 .. n - 1
  PROVE  /\ k \in Nat /\ k \in 0 .. n /\ k + 1 \in 0 .. n /\ k + 1 \in 1 .. n
         /\ 1 .. k + 1 \in SUBSET (1 .. n) /\ 1 .. k + 1 # {}
<1>1. 1 \in 1 .. k + 1
  OBVIOUS
<1>2. QED
  BY <1>1


\* What the steps of a fold make of n places, one by one, stays in W.
LEMMA FoldTyped ==
  ASSUME NEW n \in Nat, NEW W, NEW h, h[0] \in W,
         \A k \in 0 .. n - 1 : h[k] \in W => h[k + 1] \in W
  PROVE  \A k \in 0 .. n : h[k] \in W
<1> DEFINE U == {k \in Nat : k =< n => h[k] \in W}
<1>1. 0 \in U  OBVIOUS
<1>2. ASSUME NEW k \in Nat, k \in U PROVE k + 1 \in U
  <2>1. k + 1 =< n => k \in 0 .. n - 1 /\ k =< n  OBVIOUS
  <2> QED  BY <1>2, <2>1
<1>3. Nat \subseteq U
  <2> HIDE DEF U
  <2> QED  BY <1>1, <1>2, Induction
<1>4. \A k \in 0 .. n : k \in Nat /\ k =< n  OBVIOUS
<1> QED  BY <1>3, <1>4

\* Records() adds up the batches of the groups, one after the other.
Summed(l, h) ==
  /\ h \in [0 .. Len(l) -> Nat] /\ h[0] = 0
  /\ \A k \in 0 .. Len(l) - 1 : h[k + 1] = h[k] + Len(l[k + 1].batches)
  /\ F!Records(l) = Len(l) + h[Len(l)]

\* Records as a sum that goes group by group.
LEMMA RecordsSummed ==
  ASSUME NEW l \in Seq(GroupT)
  PROVE  \E h : Summed(l, h)
<1> DEFINE n == Len(l)
           m(i) == Len(l[i].batches)
           At(g, s) == IF s = {} THEN 0 ELSE g[s \ {F!Max(s)}] + m(F!Max(s))
           Folded(g) == g = [s \in SUBSET (1 .. n) |-> At(g, s)]
           fold == CHOOSE g : Folded(g)
<1>0. n \in Nat /\ DOMAIN l = 1 .. n /\ \A i \in 1 .. n : m(i) \in Nat
  <2>1. n \in Nat /\ DOMAIN l = 1 .. n /\ \A i \in 1 .. n : l[i] \in GroupT  OBVIOUS
  <2>2. \A i \in 1 .. n : l[i].batches \in Seq(Seq(Nat))  BY <2>1, GroupFields
  <2> QED  BY <2>1, <2>2
<1>1. PICK Fn : Fn = [p \in Nat \X (1 .. n) |-> p[1] + m(p[2])]  OBVIOUS
<1>2. Fn \in [Nat \X (1 .. n) -> Nat]
  <2> HIDE DEF m, n
  <2> QED  BY <1>0, <1>1
<1>4. F!Records(l) = n + fold[1 .. n]
  <2>1. F!Records(l) = n + (CHOOSE g : g = [s \in SUBSET (DOMAIN l) |->
           IF s = {} THEN 0 ELSE g[s \ {F!Max(s)}] + Len(l[F!Max(s)].batches)])[DOMAIN l]
    BY Zenon DEF F!Records, F!FoldLeft, F!MapThenFoldSet
  <2> QED  BY <1>0, <2>1, Zenon
<1> HIDE DEF m, n
<1>3. Folded(fold)
  <2>0. PICK g : FoldOf(n, Nat, 0, Fn, g)
    <3>1. 0 \in Nat  OBVIOUS
    <3> QED  BY <1>0, <1>2, <3>1, FoldExists, Zenon
  <2>1. g \in [SUBSET (1 .. n) -> Nat] /\ \A s \in SUBSET (1 .. n) : g[s] = FoldAt(0, Fn, g, s)
    BY <2>0 DEF FoldOf
  <2>2. ASSUME NEW s \in SUBSET (1 .. n) PROVE g[s] = At(g, s)
    <3>1. CASE s = {}  BY <2>1, <3>1 DEF FoldAt
    <3>2. CASE s # {}
      <4>1. F!Max(s) \in 1 .. n /\ s \ {F!Max(s)} \in SUBSET (1 .. n)  BY <1>0, <3>2, MaxOfPlaces
      <4>2. g[s \ {F!Max(s)}] \in Nat  BY <2>1, <4>1
      <4>3. Fn[<<g[s \ {F!Max(s)}], F!Max(s)>>] = g[s \ {F!Max(s)}] + m(F!Max(s))
        BY <1>1, <4>1, <4>2
      <4> QED  BY <2>1, <3>2, <4>3, Zenon DEF FoldAt
    <3> QED  BY <3>1, <3>2
  <2>3. g = [s \in SUBSET (1 .. n) |-> g[s]]  BY <2>1
  <2>4. Folded(g)  BY <2>2, <2>3, Zenon
  <2> QED  BY <2>4, Zenon
<1> DEFINE h == [k \in 0 .. n |-> fold[1 .. k]]
<1> HIDE DEF fold
<1>5. h[0] = 0
  <2>1. fold[{}] = 0  BY <1>3
  <2>2. 0 \in 0 .. n /\ 1 .. 0 = {}  BY <1>0
  <2> QED  BY <2>1, <2>2
<1>6. ASSUME NEW k \in 0 .. n - 1 PROVE h[k + 1] = h[k] + m(k + 1)
  <2>1. k \in Nat /\ k \in 0 .. n /\ k + 1 \in 0 .. n /\ 1 .. k + 1 \in SUBSET (1 .. n) /\ 1 .. k + 1 # {}
    BY <1>0, FirstPlaces, Zenon
  <2>2. fold[1 .. k + 1] = At(fold, 1 .. k + 1)  BY <1>3, <2>1, Zenon
  <2>3. F!Max(1 .. k + 1) = k + 1 /\ (1 .. k + 1) \ {k + 1} = 1 .. k  BY <2>1, MaxOfRange
  <2>4. fold[1 .. k + 1] = fold[1 .. k] + m(k + 1)  BY <2>1, <2>2, <2>3, Zenon
  <2> QED  BY <2>1, <2>4
<1>7. \A k \in 0 .. n : h[k] \in Nat
  <2> HIDE DEF h
  <2>1. \A k \in 0 .. n - 1 : m(k + 1) \in Nat
    <3>1. \A k \in 0 .. n - 1 : k + 1 \in 1 .. n  BY <1>0
    <3> QED  BY <1>0, <3>1
  <2>2. \A k \in 0 .. n - 1 : h[k] \in Nat => h[k + 1] \in Nat
    <3> SUFFICES ASSUME NEW k \in 0 .. n - 1, h[k] \in Nat PROVE h[k + 1] \in Nat  OBVIOUS
    <3>1. h[k + 1] = h[k] + m(k + 1) /\ m(k + 1) \in Nat  BY <1>6, <2>1
    <3> QED  BY <3>1
  <2>3. h[0] \in Nat  BY <1>5
  <2>4. n \in Nat  BY <1>0
  <2> QED  BY <2>2, <2>3, <2>4, FoldTyped
<1>8. F!Records(l) = n + h[n]  BY <1>0, <1>4
<1> DEFINE hh == h
<1>9. h \in [0 .. n -> Nat]  BY <1>7
<1> HIDE DEF h
<1> QED  BY <1>5, <1>6, <1>8, <1>9 DEF Summed, n, m

LEMMA ConcatAt ==
  ASSUME NEW S, NEW a \in Seq(S), NEW b \in Seq(S)
  PROVE  /\ a \o b \in Seq(S) /\ Len(a \o b) = Len(a) + Len(b) /\ Len(a) \in Nat /\ Len(b) \in Nat
         /\ DOMAIN a = 1 .. Len(a) /\ DOMAIN b = 1 .. Len(b) /\ DOMAIN (a \o b) = 1 .. Len(a) + Len(b)
         /\ \A i \in 1 .. Len(a) : i \in 1 .. Len(a) + Len(b) /\ (a \o b)[i] = a[i]
         /\ \A i \in 1 .. Len(b) : Len(a) + i \in 1 .. Len(a) + Len(b) /\ (a \o b)[Len(a) + i] = b[i]
         /\ \A i \in 1 .. Len(a) + Len(b) :
              i \in 1 .. Len(a) \/ (i - Len(a) \in 1 .. Len(b) /\ (a \o b)[i] = b[i - Len(a)])
  OBVIOUS

\* Order of two lists, one behind the other.
LEMMA OrderedConcat ==
  ASSUME NEW a \in Seq(GroupT), NEW b \in Seq(GroupT)
  PROVE  /\ Ordered(a \o b) => Ordered(a) /\ Ordered(b)
         /\ Ordered(a) /\ Ordered(b) /\ (\A i \in DOMAIN a, j \in DOMAIN b : a[i].base < b[j].base)
              => Ordered(a \o b)
<1> DEFINE r == a \o b
           m == Len(a)
           n == Len(b)
<1>1. /\ m \in Nat /\ n \in Nat
      /\ DOMAIN a = 1 .. m /\ DOMAIN b = 1 .. n /\ DOMAIN r = 1 .. m + n
      /\ \A i \in 1 .. m : i \in 1 .. m + n /\ r[i] = a[i]
      /\ \A i \in 1 .. n : m + i \in 1 .. m + n /\ r[m + i] = b[i]
      /\ \A i \in 1 .. m + n : i \in 1 .. m \/ (i - m \in 1 .. n /\ r[i] = b[i - m])
  BY ConcatAt
<1> HIDE DEF r, m, n
<1>2. ASSUME Ordered(r) PROVE Ordered(a) /\ Ordered(b)
  <2>1. Ordered(a)  BY <1>1, <1>2 DEF Ordered
  <2>2. ASSUME NEW i \in 1 .. n, NEW j \in 1 .. n, i < j PROVE b[i].base < b[j].base
    <3>1. m + i < m + j  BY <1>1, <2>2
    <3>2. m + i \in DOMAIN r /\ m + j \in DOMAIN r  BY <1>1
    <3>3. r[m + i].base < r[m + j].base  BY <1>2, <3>1, <3>2 DEF Ordered
    <3>4. r[m + i] = b[i] /\ r[m + j] = b[j]  BY <1>1
    <3> QED  BY <3>3, <3>4
  <2> QED  BY <1>1, <2>1, <2>2 DEF Ordered
<1>3. ASSUME Ordered(a), Ordered(b), \A i \in DOMAIN a, j \in DOMAIN b : a[i].base < b[j].base
      PROVE  Ordered(r)
  <2> SUFFICES ASSUME NEW i \in 1 .. m + n, NEW j \in 1 .. m + n, i < j PROVE r[i].base < r[j].base
    BY <1>1 DEF Ordered
  <2>1. CASE i \in 1 .. m /\ j \in 1 .. m  BY <1>1, <1>3, <2>1 DEF Ordered
  <2>2. CASE i \in 1 .. m /\ j - m \in 1 .. n /\ r[j] = b[j - m]  BY <1>1, <1>3, <2>2
  <2>3. CASE i - m \in 1 .. n /\ r[i] = b[i - m] /\ j - m \in 1 .. n /\ r[j] = b[j - m]
    <3>1. i - m < j - m  BY <1>1
    <3> QED  BY <1>1, <1>3, <2>3, <3>1, SMTT(30), ZenonT(20) DEF Ordered
  <2>4. ~(i - m \in 1 .. n /\ j \in 1 .. m)  BY <1>1
  <2> QED  BY <1>1, <2>1, <2>2, <2>3, <2>4
<1> QED  BY <1>2, <1>3 DEF r

LEMMA OrderedOne == ASSUME NEW g PROVE Ordered(<<g>>)
<1>1. DOMAIN <<g>> = {1}  OBVIOUS
<1> QED  BY <1>1 DEF Ordered

\* A group has a record of its own and one for each batch.
LEMMA RecordsOne ==
  ASSUME NEW g \in GroupT
  PROVE  F!Records(<<g>>) = 1 + Len(g.batches) /\ Len(g.batches) \in Nat /\ F!Records(<<>>) = 0
<1>0. Len(g.batches) \in Nat  BY GroupFields
<1>1. <<g>> \in Seq(GroupT) /\ <<>> \in Seq(GroupT) /\ Len(<<g>>) = 1 /\ Len(<<>>) = 0 /\ <<g>>[1] = g
  OBVIOUS
<1> DEFINE l == <<g>>
           e == <<>>
<1> HIDE DEF l, e
<1>2. PICK h : Summed(l, h)  BY <1>1, RecordsSummed DEF l
<1>3. PICK f : Summed(e, f)  BY <1>1, RecordsSummed DEF e
<1>4. F!Records(l) = 1 + Len(g.batches)
  <2>1. Len(l) = 1 /\ l[1] = g  BY <1>1 DEF l
  <2>2. h[0] = 0 /\ (\A k \in 0 .. 0 : h[k + 1] = h[k] + Len(l[k + 1].batches)) /\ F!Records(l) = 1 + h[1]
    BY <1>2, <2>1 DEF Summed
  <2>3. h[0 + 1] = h[0] + Len(l[0 + 1].batches)  BY <2>2
  <2> QED  BY <1>0, <2>1, <2>2, <2>3
<1>5. F!Records(e) = 0
  <2>1. Len(e) = 0  BY <1>1 DEF e
  <2> QED  BY <1>3, <2>1 DEF Summed
<1> QED  BY <1>0, <1>4, <1>5 DEF l, e

LEMMA RecordsType == ASSUME NEW l \in Seq(GroupT) PROVE F!Records(l) \in Nat
<1>1. PICK h : Summed(l, h)  BY RecordsSummed
<1>2. Len(l) \in Nat /\ Len(l) \in 0 .. Len(l)  OBVIOUS
<1> QED  BY <1>1, <1>2 DEF Summed

\* The records of two lists.
LEMMA RecordsConcat ==
  ASSUME NEW a \in Seq(GroupT), NEW b \in Seq(GroupT)
  PROVE  F!Records(a \o b) = F!Records(a) + F!Records(b)
<1> DEFINE r == a \o b
           m == Len(a)
           n == Len(b)
<1>1. /\ r \in Seq(GroupT) /\ m \in Nat /\ n \in Nat /\ Len(r) = m + n
      /\ DOMAIN a = 1 .. m /\ DOMAIN b = 1 .. n /\ DOMAIN r = 1 .. m + n
      /\ \A i \in 1 .. m : i \in 1 .. m + n /\ r[i] = a[i]
      /\ \A i \in 1 .. n : m + i \in 1 .. m + n /\ r[m + i] = b[i]
  BY ConcatAt
<1>2. PICK f : Summed(a, f)  BY RecordsSummed
<1>3. PICK g : Summed(b, g)  BY RecordsSummed
<1>4. PICK h : Summed(r, h)  BY <1>1, RecordsSummed
<1> HIDE DEF r
<1>5. /\ f \in [0 .. m -> Nat] /\ f[0] = 0 /\ g \in [0 .. n -> Nat] /\ g[0] = 0
      /\ h \in [0 .. m + n -> Nat] /\ h[0] = 0
      /\ \A k \in 0 .. m - 1 : f[k + 1] = f[k] + Len(a[k + 1].batches)
      /\ \A k \in 0 .. n - 1 : g[k + 1] = g[k] + Len(b[k + 1].batches)
      /\ \A k \in 0 .. m + n - 1 : h[k + 1] = h[k] + Len(r[k + 1].batches)
      /\ F!Records(a) = m + f[m] /\ F!Records(b) = n + g[n] /\ F!Records(r) = (m + n) + h[m + n]
  BY <1>1, <1>2, <1>3, <1>4 DEF Summed
<1>6. \A k \in Nat : k =< m => h[k] = f[k]
  <2> DEFINE U == {k \in Nat : k =< m => h[k] = f[k]}
  <2>1. 0 \in U  BY <1>5
  <2>2. ASSUME NEW k \in Nat, k \in U PROVE k + 1 \in U
    <3> SUFFICES ASSUME k + 1 =< m PROVE h[k + 1] = f[k + 1]  OBVIOUS
    <3>1. k \in 0 .. m - 1 /\ k \in 0 .. m + n - 1 /\ k + 1 \in 1 .. m /\ k =< m  BY <1>1
    <3>2. h[k] = f[k]  BY <2>2, <3>1
    <3>3. r[k + 1] = a[k + 1]  BY <1>1, <3>1
    <3>4. f[k + 1] = f[k] + Len(a[k + 1].batches)  BY <1>5, <3>1
    <3>5. h[k + 1] = h[k] + Len(r[k + 1].batches)  BY <1>5, <3>1
    <3> QED  BY <3>2, <3>3, <3>4, <3>5
  <2>3. Nat \subseteq U
    <3> HIDE DEF U
    <3> QED  BY <2>1, <2>2, Induction
  <2> QED  BY <2>3
<1>7. \A k \in Nat : k =< n => h[m + k] = f[m] + g[k]
  <2> DEFINE U == {k \in Nat : k =< n => h[m + k] = f[m] + g[k]}
  <2>1. 0 \in U
    <3>1. m + 0 = m /\ m =< m /\ m \in 0 .. m  BY <1>1
    <3>2. h[m] = f[m] /\ f[m] \in Nat /\ g[0] = 0  BY <1>1, <1>5, <1>6, <3>1
    <3> QED  BY <3>1, <3>2
  <2>2. ASSUME NEW k \in Nat, k \in U PROVE k + 1 \in U
    <3> SUFFICES ASSUME k + 1 =< n PROVE h[m + (k + 1)] = f[m] + g[k + 1]  OBVIOUS
    <3>1. /\ k \in 0 .. n - 1 /\ m + k \in 0 .. m + n - 1 /\ k + 1 \in 1 .. n /\ k =< n
          /\ (m + k) + 1 = m + (k + 1) /\ m \in 0 .. m /\ k \in 0 .. n
      BY <1>1
    <3>2. h[m + k] = f[m] + g[k]  BY <2>2, <3>1
    <3>3. r[(m + k) + 1] = b[k + 1]  BY <1>1, <3>1
    <3>4. g[k + 1] = g[k] + Len(b[k + 1].batches)  BY <1>5, <3>1
    <3>5. h[(m + k) + 1] = h[m + k] + Len(r[(m + k) + 1].batches)  BY <1>5, <3>1
    <3>6. f[m] \in Nat /\ g[k] \in Nat /\ Len(b[k + 1].batches) \in Nat
      <4>1. b[k + 1] \in GroupT  BY <1>1, <3>1
      <4> QED  BY <1>5, <3>1, <4>1, RecordsOne
    <3> QED  BY <3>1, <3>2, <3>3, <3>4, <3>5, <3>6
  <2>3. Nat \subseteq U
    <3> HIDE DEF U
    <3> QED  BY <2>1, <2>2, Induction
  <2> QED  BY <2>3
<1>8. h[m + n] = f[m] + g[n] /\ f[m] \in Nat /\ g[n] \in Nat
  <2>1. n =< n /\ m \in 0 .. m /\ n \in 0 .. n  BY <1>1
  <2> QED  BY <1>1, <1>5, <1>7, <2>1
<1>9. F!Records(r) = F!Records(a) + F!Records(b)
  <2>1. F!Records(r) = (m + n) + h[m + n] /\ F!Records(a) = m + f[m] /\ F!Records(b) = n + g[n]  BY <1>5
  <2>2. m \in Nat /\ n \in Nat  BY <1>1
  <2> HIDE DEF m, n
  <2> QED  BY <1>8, <2>1, <2>2
<1> QED  BY <1>9 DEF r

\* A group whose batches list the blocks of its part of the region, each once.
GoodGroup(g) ==
  /\ g \in GroupT /\ Len(g.batches[1]) >= 1
  /\ IsFiniteSet(BlocksIn(g.batches)) /\ Cardinality(BlocksIn(g.batches)) = Count(g.batches)
  /\ \A b \in BlocksIn(g.batches) : F!compactPtrGroup(b) = g.base

GoodList(l) == l \in Seq(GroupT) /\ Ordered(l) /\ \A g \in Elements(l) : GoodGroup(g)

LEMMA ListOfElements == \A l : ListBlocks(l) = UNION {BlocksIn(g.batches) : g \in Elements(l)}
  BY DEF ListBlocks, Elements

LEMMA ListConcat ==
  ASSUME NEW a \in Seq(GroupT), NEW b \in Seq(GroupT)
  PROVE  ListBlocks(a \o b) = ListBlocks(a) \cup ListBlocks(b)
<1>1. Elements(a \o b) = Elements(a) \cup Elements(b)  BY ElementsConcat
<1> QED  BY <1>1, ListOfElements

LEMMA ListOne == ASSUME NEW g PROVE ListBlocks(<<g>>) = BlocksIn(g.batches)
<1>1. ListBlocks(<<g>>) = UNION {BlocksIn(x.batches) : x \in Elements(<<g>>)}  BY ListOfElements
<1>2. Elements(<<g>>) = {g}  BY ElementsOne
<1> QED  BY <1>1, <1>2

LEMMA EmptyList == GoodList(<<>>) /\ ListBlocks(<<>>) = {} /\ F!Records(<<>>) = 0
<1>1. DOMAIN <<>> = {} /\ <<>> \in Seq(GroupT)  OBVIOUS
<1>2. Elements(<<>>) = {} /\ Ordered(<<>>) /\ ListBlocks(<<>>) = {}
  <2> DEFINE e == <<>>
  <2>1. DOMAIN e = {}  OBVIOUS
  <2> HIDE DEF e
  <2>2. Elements(e) = {} /\ Ordered(e) /\ ListBlocks(e) = {}  BY <2>1 DEF Elements, Ordered, ListBlocks
  <2> QED  BY <2>2 DEF e
<1>3. F!Records(<<>>) = 0
  <2> DEFINE e == <<>>
  <2>1. e \in Seq(GroupT) /\ Len(e) = 0  OBVIOUS
  <2> HIDE DEF e
  <2>2. PICK h : Summed(e, h)  BY <2>1, RecordsSummed
  <2>3. F!Records(e) = 0  BY <2>1, <2>2 DEF Summed
  <2> QED  BY <2>3 DEF e
<1> QED  BY <1>1, <1>2, <1>3 DEF GoodList

\* A part of a good list is good, and good lists with bases in order join.
LEMMA GoodListConcat ==
  ASSUME NEW a \in Seq(GroupT), NEW b \in Seq(GroupT)
  PROVE  /\ GoodList(a \o b) => GoodList(a) /\ GoodList(b)
         /\ GoodList(a) /\ GoodList(b) /\ (\A i \in DOMAIN a, j \in DOMAIN b : a[i].base < b[j].base)
              => GoodList(a \o b)
<1>1. a \o b \in Seq(GroupT) /\ Elements(a \o b) = Elements(a) \cup Elements(b)  BY ElementsConcat
<1> HIDE DEF GoodGroup
<1> QED  BY <1>1, OrderedConcat DEF GoodList

LEMMA GoodOne == ASSUME NEW g, GoodGroup(g) PROVE GoodList(<<g>>)
<1>1. g \in GroupT /\ <<g>> \in Seq(GroupT)  BY DEF GoodGroup
<1>2. Elements(<<g>>) = {g}  BY ElementsOne
<1>3. Ordered(<<g>>)  BY OrderedOne
<1> HIDE DEF GoodGroup
<1> QED  BY <1>1, <1>2, <1>3 DEF GoodList

\* A group that is put into a list, with all the blocks of the group that it replaces.
LEMMA PutsGood ==
  ASSUME NEW l, GoodList(l), NEW g, GoodGroup(g)
  PROVE  LET r   == F!Put(l, g)
             has == F!HasGroup(l, g.base)
             old == F!GroupAt(l, g.base)
         IN  /\ (has => BlocksIn(old.batches) \subseteq BlocksIn(g.batches))
                  => GoodList(r) /\ ListBlocks(r) = ListBlocks(l) \cup BlocksIn(g.batches)
             /\ has => F!Records(r) = F!Records(l) - Len(old.batches) + Len(g.batches)
             /\ ~has => F!Records(r) = F!Records(l) + 1 + Len(g.batches)
<1> DEFINE r == F!Put(l, g)
           has == F!HasGroup(l, g.base)
           old == F!GroupAt(l, g.base)
<1>1. l \in Seq(GroupT) /\ g \in GroupT /\ Ordered(l) /\ <<g>> \in Seq(GroupT)  BY DEF GoodList, GoodGroup
<1>2. PICK a, b \in Seq(GroupT) :
           /\ r = a \o <<g>> \o b
           /\ has => old \in GroupT /\ old.base = g.base /\ l = a \o <<old>> \o b
           /\ ~has => l = a \o b
           /\ \A i \in DOMAIN a : a[i].base < g.base
           /\ \A i \in DOMAIN b : b[i].base > g.base
  BY <1>1, Puts
<1> HIDE DEF r, has, old
<1>3. a \o <<g>> \in Seq(GroupT)  BY <1>1, ElementsConcat
<1>4. has => <<old>> \in Seq(GroupT) /\ a \o <<old>> \in Seq(GroupT)  BY <1>1, <1>2, ElementsConcat
<1>5. GoodList(a) /\ GoodList(b)
  <2>1. CASE has
    <3>1. GoodList((a \o <<old>>) \o b)  BY <1>2, <2>1
    <3>2. GoodList(a \o <<old>>) /\ GoodList(b)  BY <1>4, <2>1, <3>1, GoodListConcat
    <3> QED  BY <1>2, <1>4, <2>1, <3>2, GoodListConcat
  <2>2. CASE ~has
    <3>1. GoodList(a \o b)  BY <1>2, <2>2
    <3> QED  BY <1>2, <3>1, GoodListConcat
  <2> QED  BY <2>1, <2>2
<1>6. GoodList(r)
  <2>1. GoodList(<<g>>)  BY GoodOne
  <2>2. GoodList(a \o <<g>>)
    <3>1. \A i \in DOMAIN a, j \in DOMAIN <<g>> : a[i].base < <<g>>[j].base
      <4>1. \A j \in DOMAIN <<g>> : <<g>>[j] = g  OBVIOUS
      <4> QED  BY <1>2, <4>1
    <3> QED  BY <1>1, <1>2, <1>5, <2>1, <3>1, GoodListConcat
  <2>3. \A i \in DOMAIN (a \o <<g>>), j \in DOMAIN b : (a \o <<g>>)[i].base < b[j].base
    <3> SUFFICES ASSUME NEW i \in DOMAIN (a \o <<g>>), NEW j \in DOMAIN b
                 PROVE  (a \o <<g>>)[i].base < b[j].base
      OBVIOUS
    <3>1. (i \in DOMAIN a /\ (a \o <<g>>)[i] = a[i]) \/ (a \o <<g>>)[i] = g  BY <1>1
    <3>2. b[j] \in GroupT /\ (i \in DOMAIN a => a[i] \in GroupT)  BY <1>2
    <3>3. b[j].base \in Nat /\ g.base \in Nat /\ (i \in DOMAIN a => a[i].base \in Nat)
      BY <1>1, <3>2, GroupFields
    <3> QED  BY <1>2, <3>1, <3>3
  <2>4. GoodList((a \o <<g>>) \o b)  BY <1>2, <1>3, <1>5, <2>2, <2>3, GoodListConcat
  <2> QED  BY <1>2, <2>4
<1>7. ListBlocks(r) = ListBlocks(a) \cup BlocksIn(g.batches) \cup ListBlocks(b)
  <2>1. ListBlocks((a \o <<g>>) \o b) = ListBlocks(a \o <<g>>) \cup ListBlocks(b)
    BY <1>2, <1>3, ListConcat
  <2>2. ListBlocks(a \o <<g>>) = ListBlocks(a) \cup ListBlocks(<<g>>)  BY <1>1, <1>2, ListConcat
  <2> QED  BY <1>2, <2>1, <2>2, ListOne
<1>8. F!Records(r) = F!Records(a) + (1 + Len(g.batches)) + F!Records(b)
  <2>1. F!Records((a \o <<g>>) \o b) = F!Records(a \o <<g>>) + F!Records(b)
    BY <1>2, <1>3, RecordsConcat
  <2>2. F!Records(a \o <<g>>) = F!Records(a) + F!Records(<<g>>)  BY <1>1, <1>2, RecordsConcat
  <2> QED  BY <1>1, <1>2, <2>1, <2>2, RecordsOne
<1>9. F!Records(a) \in Nat /\ F!Records(b) \in Nat /\ Len(g.batches) \in Nat
  BY <1>1, <1>2, RecordsType, RecordsOne
<1>10. CASE has
  <2>1. ListBlocks((a \o <<old>>) \o b) = ListBlocks(a) \cup BlocksIn(old.batches) \cup ListBlocks(b)
    <3>1. ListBlocks((a \o <<old>>) \o b) = ListBlocks(a \o <<old>>) \cup ListBlocks(b)
      BY <1>2, <1>4, <1>10, ListConcat
    <3>2. ListBlocks(a \o <<old>>) = ListBlocks(a) \cup ListBlocks(<<old>>)
      BY <1>2, <1>4, <1>10, ListConcat
    <3> QED  BY <3>1, <3>2, ListOne
  <2>2. F!Records((a \o <<old>>) \o b) = F!Records(a) + (1 + Len(old.batches)) + F!Records(b)
    <3>1. F!Records((a \o <<old>>) \o b) = F!Records(a \o <<old>>) + F!Records(b)
      BY <1>2, <1>4, <1>10, RecordsConcat
    <3>2. F!Records(a \o <<old>>) = F!Records(a) + F!Records(<<old>>)
      BY <1>2, <1>4, <1>10, RecordsConcat
    <3> QED  BY <1>2, <1>10, <3>1, <3>2, RecordsOne
  <2>3. l = (a \o <<old>>) \o b  BY <1>2, <1>10
  <2>4. Len(old.batches) \in Nat  BY <1>2, <1>10, RecordsOne
  <2>5. F!Records(r) = F!Records(l) - Len(old.batches) + Len(g.batches)
    BY <1>8, <1>9, <2>2, <2>3, <2>4, SMTT(30)
  <2>6. BlocksIn(old.batches) \subseteq BlocksIn(g.batches)
          => ListBlocks(r) = ListBlocks(l) \cup BlocksIn(g.batches)
    BY <1>7, <2>1, <2>3
  <2> QED  BY <1>6, <1>10, <2>5, <2>6 DEF r, has, old
<1>11. CASE ~has
  <2>1. ListBlocks(l) = ListBlocks(a) \cup ListBlocks(b)  BY <1>2, <1>11, ListConcat
  <2>2. F!Records(l) = F!Records(a) + F!Records(b)  BY <1>2, <1>11, RecordsConcat
  <2>3. F!Records(r) = F!Records(l) + 1 + Len(g.batches)  BY <1>8, <1>9, <2>2
  <2>4. ListBlocks(r) = ListBlocks(l) \cup BlocksIn(g.batches)  BY <1>7, <2>1
  <2> QED  BY <1>6, <1>11, <2>3, <2>4 DEF r, has
<1> QED  BY <1>10, <1>11

\* Put yields a list of groups.
LEMMA PutType ==
  ASSUME NEW l \in Seq(GroupT), NEW g \in GroupT
  PROVE  F!Put(l, g) \in Seq(GroupT)
<1>1. \E a, b \in Seq(GroupT) : F!Put(l, g) = a \o <<g>> \o b
  <2>1. PICK a \in Seq(GroupT) : \E b \in Seq(GroupT) :
           /\ F!Put(l, g) = a \o <<g>> \o b
           /\ F!HasGroup(l, g.base) =>
                /\ F!GroupAt(l, g.base) \in GroupT /\ F!GroupAt(l, g.base).base = g.base
                /\ l = a \o <<F!GroupAt(l, g.base)>> \o b
           /\ ~F!HasGroup(l, g.base) => l = a \o b
           /\ \A i \in DOMAIN a : a[i].base < g.base
           /\ Ordered(l) => \A i \in DOMAIN b : b[i].base > g.base
    BY Puts, Zenon
  <2>2. PICK b \in Seq(GroupT) : F!Put(l, g) = a \o <<g>> \o b  BY <2>1, Zenon
  <2> QED  BY <2>2, Zenon
<1>3. PICK a, b \in Seq(GroupT) : F!Put(l, g) = a \o <<g>> \o b  BY <1>1, Zenon
<1>2. <<g>> \in Seq(GroupT) /\ a \o <<g>> \in Seq(GroupT)  BY ElementsConcat
<1> QED  BY <1>3, <1>2, ElementsConcat

\* The group that HasGroup has found.
LEMMA HasGood ==
  ASSUME NEW l \in Seq(GroupT), NEW base \in Nat, F!HasGroup(l, base)
  PROVE  LET g == F!GroupAt(l, base) IN
         /\ g \in Elements(l) /\ g \in GroupT /\ g.base = base /\ BlocksIn(g.batches) \subseteq ListBlocks(l)
<1> DEFINE k == F!Place(l, base)
           g == F!GroupAt(l, base)
<1>1. k \in 0 .. Len(l)  BY PlaceIn
<1>2. k < Len(l) /\ l[k + 1].base = base  BY Zenon DEF F!HasGroup
<1>3. g = l[k + 1]  BY Zenon DEF F!GroupAt
<1> HIDE DEF k, g
<1>4. k + 1 \in DOMAIN l /\ l[k + 1] \in GroupT
  <2>1. Len(l) \in Nat  OBVIOUS
  <2>2. k + 1 \in 1 .. Len(l)  BY <1>1, <1>2, <2>1
  <2> QED  BY <2>2
<1>5. g \in Elements(l) /\ BlocksIn(g.batches) \subseteq ListBlocks(l)
  BY <1>3, <1>4 DEF Elements, ListBlocks
<1> QED  BY <1>2, <1>3, <1>4, <1>5 DEF g

\* A new group starts with one batch that is empty.
LEMMA EmptyBatch ==
  LET e == << <<>> >> IN
  Shape(e) /\ BlocksIn(e) = {} /\ Count(e) = 0 /\ Len(e) = 1 /\ e[1] = <<>>
<1> DEFINE z == <<>>
           e == <<z>>
<1>1. z \in Seq(Nat) /\ Len(z) = 0 /\ DOMAIN z = {} /\ Elements(z) = {}
  <2>1. z \in Seq(Nat) /\ Len(z) = 0 /\ DOMAIN z = {}  OBVIOUS
  <2> HIDE DEF z
  <2> QED  BY <2>1 DEF Elements
<1> HIDE DEF z
<1>2. e \in Seq(Seq(Nat)) /\ Len(e) = 1 /\ DOMAIN e = {1} /\ e[1] = z  BY <1>1
<1> HIDE DEF e
<1>3. e # <<>>
  <2>1. Len(e) # Len(<<>>)  BY <1>2
  <2> QED  BY <2>1
<1>4. Shape(e)  BY <1>1, <1>2, <1>3, Cap DEF Shape
<1>5. BlocksIn(e) = {}  BY <1>1, <1>2 DEF BlocksIn
<1>6. Count(e) = 0  BY <1>1, <1>2, Cap DEF Count
<1> QED  BY <1>2, <1>4, <1>5, <1>6 DEF e, z

\* A group counts a number of blocks.
LEMMA CountType == ASSUME NEW bs, Shape(bs) PROVE Count(bs) \in Nat
<1>1. Count(bs) = Len(Tail(bs)) * MaxNumBlocksInBatch + Len(bs[1])
      /\ Len(bs[1]) \in 0 .. MaxNumBlocksInBatch /\ Full(Tail(bs))
  BY ShapeSplit
<1> DEFINE n == Len(Tail(bs))
<1>2. n \in Nat  BY <1>1 DEF Full
<1> HIDE DEF n
<1>3. \A x \in Nat : x * MaxNumBlocksInBatch \in Nat  BY Cap
<1>4. n * MaxNumBlocksInBatch \in Nat  BY <1>2, <1>3
<1> QED  BY <1>1, <1>4 DEF n

\* The group that PushGroup() pushes to: the one of the list, or a new one.
Target(l, base) ==
  IF F!HasGroup(l, base) THEN F!GroupAt(l, base) ELSE F!Group(base, << <<>> >>, 0)

\* The group that a push goes to, old or new.
LEMMA TargetIs ==
  ASSUME NEW l \in Seq(GroupT), NEW base \in Nat
  PROVE  /\ Target(l, base) \in GroupT /\ Target(l, base).base = base
         /\ BlocksIn(Target(l, base).batches) \subseteq ListBlocks(l)
         /\ ~F!HasGroup(l, base) => BlocksIn(Target(l, base).batches) = {} /\ Count(Target(l, base).batches) = 0
         /\ F!HasGroup(l, base) => Target(l, base) = F!GroupAt(l, base) /\ Target(l, base) \in Elements(l)
<1> DEFINE t == Target(l, base)
<1>1. CASE F!HasGroup(l, base)
  <2>1. t = F!GroupAt(l, base)  BY <1>1 DEF Target
  <2> QED  BY <1>1, <2>1, HasGood
<1>2. CASE ~F!HasGroup(l, base)
  <2>1. t = [base |-> base, batches |-> << <<>> >>, BytesInBGAtLastCheckpoint |-> 0]
    BY <1>2, Zenon DEF Target, F!Group
  <2> DEFINE e == << <<>> >>
  <2>2. Shape(e) /\ BlocksIn(e) = {} /\ Count(e) = 0  BY EmptyBatch
  <2> HIDE DEF e
  <2>3. e \in BatchesT  BY <2>2 DEF BatchesT, Shape
  <2>4. t = [base |-> base, batches |-> e, BytesInBGAtLastCheckpoint |-> 0]  BY <2>1, Zenon DEF e
  <2> HIDE DEF t
  <2>5. t \in GroupT /\ t.base = base /\ t.batches = e  BY <2>3, <2>4 DEF GroupT
  <2> QED  BY <1>2, <2>2, <2>5 DEF t
<1> QED  BY <1>1, <1>2

\* A push to one group is a Put of that group.
LEMMA PushGroupIs ==
  ASSUME NEW l \in Seq(GroupT), NEW base \in Nat, NEW s \in Seq(Nat)
  PROVE  LET t == Target(l, base)
             g == [t EXCEPT !.batches = F!InsertBlocks(t.batches, s)]
         IN  /\ F!PushGroup(l, base, s) = F!Put(l, g)
             /\ g \in GroupT /\ g.base = base /\ g.batches = F!InsertBlocks(t.batches, s)
<1> DEFINE t == Target(l, base)
           bs == F!InsertBlocks(t.batches, s)
           g == [t EXCEPT !.batches = bs]
<1>1. F!PushGroup(l, base, s) = F!Put(l, g)  BY Zenon DEF F!PushGroup, Target
<1>2. t \in GroupT /\ t.base = base  BY TargetIs
<1>3. Shape(t.batches)
  <2> HIDE DEF t
  <2> QED  BY <1>2, GroupFields
<1>4. Shape(bs)
  <2> DEFINE b == t.batches
  <2>1. Shape(b)  BY <1>3
  <2> HIDE DEF b
  <2> QED  BY <2>1, Inserts DEF b
<1> HIDE DEF bs, t
<1>5. bs \in BatchesT  BY <1>4 DEF Shape, BatchesT
<1>6. g \in GroupT /\ g.base = base /\ g.batches = bs  BY <1>2, <1>5 DEF GroupT
<1> QED  BY <1>1, <1>6 DEF bs, t

LEMMA PushGroupType ==
  ASSUME NEW l \in Seq(GroupT), NEW base \in Nat, NEW s \in Seq(Nat)
  PROVE  F!PushGroup(l, base, s) \in Seq(GroupT)
<1> DEFINE t == Target(l, base)
           g == [t EXCEPT !.batches = F!InsertBlocks(t.batches, s)]
<1>1. F!PushGroup(l, base, s) = F!Put(l, g) /\ g \in GroupT  BY PushGroupIs
<1> HIDE DEF g
<1> QED  BY <1>1, PutType

\* pushBlocksImpl() of the blocks of one group.
LEMMA PushesGroup ==
  ASSUME NEW l, GoodList(l), NEW base \in Nat, NEW s \in Seq(Nat), s # <<>>,
         IsFiniteSet(Elements(s)), Cardinality(Elements(s)) = Len(s),
         Elements(s) \cap ListBlocks(l) = {},
         \A b \in Elements(s) : F!compactPtrGroup(b) = base
  PROVE  /\ GoodList(F!PushGroup(l, base, s))
         /\ ListBlocks(F!PushGroup(l, base, s)) = ListBlocks(l) \cup Elements(s)
<1> DEFINE t == Target(l, base)
           bs == F!InsertBlocks(t.batches, s)
           g == [t EXCEPT !.batches = bs]
<1>0. l \in Seq(GroupT)  BY DEF GoodList
<1>1. /\ F!PushGroup(l, base, s) = F!Put(l, g)
      /\ g \in GroupT /\ g.base = base /\ g.batches = bs
  BY <1>0, PushGroupIs
<1>2. /\ t \in GroupT /\ t.base = base
      /\ BlocksIn(t.batches) \subseteq ListBlocks(l)
      /\ ~F!HasGroup(l, base) => BlocksIn(t.batches) = {} /\ Count(t.batches) = 0
      /\ F!HasGroup(l, base) => t = F!GroupAt(l, base) /\ t \in Elements(l)
  BY <1>0, TargetIs
<1> DEFINE b == t.batches
<1> HIDE DEF t
<1>3. Shape(b)  BY <1>2, GroupFields
<1>4. /\ IsFiniteSet(BlocksIn(b)) /\ Cardinality(BlocksIn(b)) = Count(b)
      /\ \A x \in BlocksIn(b) : F!compactPtrGroup(x) = base
  <2>1. CASE F!HasGroup(l, base)
    <3>1. GoodGroup(t)  BY <1>2, <2>1 DEF GoodList
    <3> QED  BY <1>2, <3>1 DEF GoodGroup
  <2>2. CASE ~F!HasGroup(l, base)
    <3>1. BlocksIn(b) = {} /\ Count(b) = 0  BY <1>2, <2>2
    <3> QED  BY <3>1, FS_EmptySet
  <2> QED  BY <2>1, <2>2
<1> HIDE DEF b
<1>5. /\ Shape(bs) /\ BlocksIn(bs) = BlocksIn(b) \cup Elements(s) /\ Count(bs) = Count(b) + Len(s)
      /\ Len(bs[1]) >= 1
  <2>1. Shape(F!InsertBlocks(b, s)) /\ BlocksIn(F!InsertBlocks(b, s)) = BlocksIn(b) \cup Elements(s)
        /\ Count(F!InsertBlocks(b, s)) = Count(b) + Len(s) /\ Len(F!InsertBlocks(b, s)[1]) >= 1
    BY <1>3, Inserts
  <2> QED  BY <2>1 DEF b
<1> HIDE DEF bs
<1>6. IsFiniteSet(BlocksIn(bs)) /\ Cardinality(BlocksIn(bs)) = Count(bs)
  <2>1. BlocksIn(b) \cap Elements(s) = {}  BY <1>2 DEF b
  <2>2. IsFiniteSet(BlocksIn(b) \cup Elements(s))
        /\ Cardinality(BlocksIn(b) \cup Elements(s)) =
             Cardinality(BlocksIn(b)) + Cardinality(Elements(s)) - Cardinality(BlocksIn(b) \cap Elements(s))
    BY <1>4, FS_Union
  <2>3. Cardinality({}) = 0  BY FS_EmptySet
  <2>4. Count(b) \in Nat /\ Len(s) \in Nat  BY <1>3, CountType
  <2>5. IsFiniteSet(BlocksIn(bs))  BY <1>5, <2>2
  <2>6. Cardinality(BlocksIn(bs)) = Count(b) + Len(s) - 0
    BY <1>4, <1>5, <2>1, <2>2, <2>3
  <2> QED  BY <1>5, <2>4, <2>5, <2>6
<1> HIDE DEF g
<1>7. GoodGroup(g)
  <2>1. \A x \in BlocksIn(bs) : F!compactPtrGroup(x) = base  BY <1>4, <1>5
  <2> QED  BY <1>1, <1>5, <1>6, <2>1 DEF GoodGroup
<1>8. F!HasGroup(l, g.base) => BlocksIn(F!GroupAt(l, g.base).batches) \subseteq BlocksIn(g.batches)
  BY <1>1, <1>2, <1>5 DEF b
<1>9. GoodList(F!Put(l, g)) /\ ListBlocks(F!Put(l, g)) = ListBlocks(l) \cup BlocksIn(g.batches)
  BY <1>7, <1>8, PutsGood
<1>10. ListBlocks(l) \cup BlocksIn(bs) = ListBlocks(l) \cup Elements(s)
  BY <1>2, <1>5 DEF b
<1> QED  BY <1>1, <1>9, <1>10

LEMMA ListCardinality == \A S : F!Cardinality(S) = Cardinality(S)
  BY DEF F!Cardinality, Cardinality

Below(S, b) == {a \in S : a < b}

\* The sort of an array lists each of its numbers once.
LEMMA SortedIs ==
  ASSUME NEW S \in SUBSET Nat, IsFiniteSet(S)
  PROVE  LET s == F!Sorted(S) IN
         /\ s \in Seq(Nat) /\ Len(s) = Cardinality(S) /\ Elements(s) = S
         /\ \A i, j \in DOMAIN s : s[i] = s[j] => i = j
<1> DEFINE n == Cardinality(S)
           s == F!Sorted(S)
           rank == [b \in S |-> Cardinality(Below(S, b))]
<1>1. n \in Nat  BY FS_CardinalityType
<1>2. s = [i \in 1 .. n |-> CHOOSE b \in S : Cardinality(Below(S, b)) = i - 1]
  <2>1. s = [i \in 1 .. F!Cardinality(S) |-> CHOOSE b \in S : F!Cardinality(Below(S, b)) = i - 1]
    BY Zenon DEF F!Sorted, Below
  <2> HIDE DEF s
  <2> QED  BY <2>1, ListCardinality
<1>3. \A b \in S : IsFiniteSet(Below(S, b)) /\ rank[b] \in Nat
  <2> SUFFICES ASSUME NEW b \in S PROVE IsFiniteSet(Below(S, b)) /\ rank[b] \in Nat  OBVIOUS
  <2>1. Below(S, b) \in SUBSET S  BY DEF Below
  <2>2. IsFiniteSet(Below(S, b))  BY <2>1, FS_Subset
  <2> QED  BY <2>2, FS_CardinalityType
<1>4. ASSUME NEW b \in S PROVE rank[b] \in 0 .. n - 1
  <2>1. Below(S, b) \in SUBSET (S \ {b})  BY DEF Below
  <2>2. IsFiniteSet(S \ {b}) /\ Cardinality(S \ {b}) = n - 1  BY FS_RemoveElement
  <2>3. Cardinality(Below(S, b)) =< Cardinality(S \ {b})
    <3>1. Cardinality(Below(S, b)) <= Cardinality(S \ {b})  BY <2>1, <2>2, FS_Subset
    <3> QED  BY <3>1
  <2> QED  BY <1>1, <1>3, <2>2, <2>3
<1>5. ASSUME NEW a \in S, NEW b \in S, a < b PROVE rank[a] < rank[b]
  <2>1. Below(S, a) \cup {a} \in SUBSET Below(S, b)
    <3>1. \A x \in Nat : x < a => x < b  BY <1>5
    <3> QED  BY <1>5, <3>1 DEF Below
  <2>2. Cardinality(Below(S, a) \cup {a}) <= Cardinality(Below(S, b))  BY <1>3, <2>1, FS_Subset
  <2>3. ~(a \in Below(S, a))  BY DEF Below
  <2>4. Cardinality(Below(S, a) \cup {a}) = Cardinality(Below(S, a)) + 1
    <3>1. IsFiniteSet(Below(S, a))  BY <1>3
    <3> QED  BY <2>3, <3>1, FS_AddElement
  <2>5. rank[a] \in Nat /\ rank[b] \in Nat  BY <1>3
  <2> QED  BY <2>2, <2>4, <2>5
<1>6. \A a, b \in S : rank[a] = rank[b] => a = b
  <2> SUFFICES ASSUME NEW a \in S, NEW b \in S, rank[a] = rank[b], a # b PROVE FALSE  OBVIOUS
  <2>1. a < b \/ b < a  OBVIOUS
  <2>2. rank[a] \in Nat /\ rank[b] \in Nat  BY <1>3
  <2>3. rank[a] < rank[b] \/ rank[b] < rank[a]  BY <1>5, <2>1
  <2> HIDE DEF rank
  <2> QED  BY <2>2, <2>3
<1>7. \A i \in 1 .. n : \E b \in S : rank[b] = i - 1
  <2> DEFINE N == 0 .. n - 1
  <2>1. IsFiniteSet(N) /\ Cardinality(N) = n
    <3>1. 0 \in Int /\ n - 1 \in Int  BY <1>1
    <3>2. IsFiniteSet(N) /\ Cardinality(N) = IF 0 > n - 1 THEN 0 ELSE (n - 1) - 0 + 1
      BY <3>1, FS_Interval
    <3> HIDE DEF n
    <3>3. (IF 0 > n - 1 THEN 0 ELSE (n - 1) - 0 + 1) = n  BY <1>1
    <3> QED  BY <3>2, <3>3
  <2>2. rank \in [S -> N]  BY <1>4
  <2>3. rank \in Injection(S, N)
    <3> HIDE DEF rank, N
    <3> QED  BY <1>6, <2>2 DEF Injection, IsInjective
  <2>4. rank \in Surjection(S, N)
    <3> HIDE DEF rank, N
    <3> QED  BY <2>1, <2>3, FS_Injection
  <2>5. \A i \in 1 .. n : i - 1 \in N  BY <1>1
  <2> HIDE DEF rank, N
  <2> QED  BY <2>4, <2>5 DEF Surjection
<1> HIDE DEF n, s
<1>8. \A i \in 1 .. n : s[i] \in S /\ rank[s[i]] = i - 1
  <2> SUFFICES ASSUME NEW i \in 1 .. n PROVE s[i] \in S /\ rank[s[i]] = i - 1  OBVIOUS
  <2>1. \E b : b \in S /\ Cardinality(Below(S, b)) = i - 1  BY <1>7
  <2>2. s[i] = CHOOSE b \in S : Cardinality(Below(S, b)) = i - 1  BY <1>2
  <2>3. s[i] \in S /\ Cardinality(Below(S, s[i])) = i - 1  BY <2>1, <2>2, Zenon
  <2> QED  BY <2>3
<1>9. s \in Seq(Nat) /\ Len(s) = n /\ DOMAIN s = 1 .. n
  <2>1. DOMAIN s = 1 .. n /\ s = [i \in 1 .. n |-> s[i]]  BY <1>2
  <2>2. \A i \in 1 .. n : s[i] \in Nat  BY <1>8
  <2> QED  BY <1>1, <2>1, <2>2
<1>10. Elements(s) = S
  <2>1. Elements(s) \subseteq S  BY <1>8, <1>9 DEF Elements
  <2>2. ASSUME NEW b \in S PROVE b \in Elements(s)
    <3> DEFINE i == rank[b] + 1
    <3>1. i \in 1 .. n /\ i - 1 = rank[b]
      <4>1. rank[b] \in 0 .. n - 1  BY <1>4
      <4> HIDE DEF rank
      <4> QED  BY <1>1, <4>1
    <3> HIDE DEF i, rank
    <3>2. s[i] = b  BY <1>6, <1>8, <3>1
    <3> QED  BY <1>9, <3>1, <3>2 DEF Elements
  <2> QED  BY <2>1, <2>2
<1>11. \A i, j \in DOMAIN s : s[i] = s[j] => i = j
  <2> HIDE DEF rank
  <2> SUFFICES ASSUME NEW i \in 1 .. n, NEW j \in 1 .. n, s[i] = s[j] PROVE i = j  BY <1>9
  <2>1. i - 1 = j - 1  BY <1>8
  <2> QED  BY <1>1, <2>1
<1> QED  BY <1>9, <1>10, <1>11 DEF n, s

\* Each block is in some group.
LEMMA PartOf == ASSUME NEW b \in Nat PROVE F!compactPtrGroup(b) \in Nat
<1>1. ListBlockSize \in Nat /\ ListGroupSize \in Nat \ {0}  BY FreeListAssumption
<1>2. b * ListBlockSize \in Nat  BY <1>1
<1>3. \A x \in Nat : x \div ListGroupSize \in Nat  BY <1>1
<1>4. (b * ListBlockSize) \div ListGroupSize \in Nat  BY <1>2, <1>3
<1> QED  BY <1>4 DEF F!compactPtrGroup

PartsOf(S) == {F!compactPtrGroup(b) : b \in S}
InPart(S, base) == {b \in S : F!compactPtrGroup(b) = base}

\* A push meets finitely many groups.
LEMMA PartsFinite ==
  ASSUME NEW S \in SUBSET Nat, IsFiniteSet(S)
  PROVE  /\ PartsOf(S) \in SUBSET Nat /\ IsFiniteSet(PartsOf(S))
         /\ \A base : InPart(S, base) \in SUBSET Nat /\ IsFiniteSet(InPart(S, base))
<1>1. PartsOf(S) \in SUBSET Nat  BY PartOf DEF PartsOf
<1> DEFINE f == [b \in S |-> F!compactPtrGroup(b)]
<1>2. f \in Surjection(S, PartsOf(S))  BY DEF Surjection, PartsOf
<1>3. IsFiniteSet(PartsOf(S))
  <2> HIDE DEF f
  <2> QED  BY <1>2, FS_Surjection
<1>4. \A base : InPart(S, base) \in SUBSET S  BY DEF InPart
<1> QED  BY <1>1, <1>3, <1>4, FS_Subset

\* pushBlocksImpl() goes from part to part, with the lists h[k] after k of them.
Pushed(l, S, h) ==
  LET bases == F!Sorted(PartsOf(S)) IN
  /\ h \in [0 .. Len(bases) -> Seq(GroupT)] /\ h[0] = l
  /\ \A k \in 0 .. Len(bases) - 1 :
       h[k + 1] = F!PushGroup(h[k], bases[k + 1], F!Sorted(InPart(S, bases[k + 1])))
  /\ F!pushBlocksImpl(l, S) = h[Len(bases)]

\* pushBlocks() as a sequence of lists, one per group of the array.
LEMMA PushedParts ==
  ASSUME NEW l \in Seq(GroupT), NEW S \in SUBSET Nat, IsFiniteSet(S)
  PROVE  \E h : Pushed(l, S, h)
<1> DEFINE W == Seq(GroupT)
           bases == F!Sorted(PartsOf(S))
           n == Len(bases)
           Op(r, i) == F!PushGroup(r, bases[i], F!Sorted(InPart(S, bases[i])))
           At(g, s) == IF s = {} THEN l ELSE Op(g[s \ {F!Max(s)}], F!Max(s))
           Folded(g) == g = [s \in SUBSET (1 .. n) |-> At(g, s)]
           fold == CHOOSE g : Folded(g)
<1>0. bases \in Seq(Nat)  BY PartsFinite, SortedIs
<1>01. n \in Nat /\ DOMAIN bases = 1 .. n /\ \A i \in 1 .. n : bases[i] \in Nat  BY <1>0
<1>02. F!pushBlocksImpl(l, S) = fold[1 .. n]
  <2>1. F!pushBlocksImpl(l, S) =
          (CHOOSE g : g = [s \in SUBSET (DOMAIN bases) |->
             IF s = {} THEN l
             ELSE F!PushGroup(g[s \ {F!Max(s)}], bases[F!Max(s)], F!Sorted(InPart(S, bases[F!Max(s)])))])
          [DOMAIN bases]
    BY Zenon DEF F!pushBlocksImpl, F!FoldLeft, F!MapThenFoldSet, PartsOf, InPart
  <2> QED  BY <1>01, <2>1, Zenon
<1> HIDE DEF bases, n
<1>03. ASSUME NEW r \in W, NEW i \in 1 .. n PROVE Op(r, i) \in W
  <2>1. InPart(S, bases[i]) \in SUBSET Nat /\ IsFiniteSet(InPart(S, bases[i]))  BY PartsFinite
  <2>2. F!Sorted(InPart(S, bases[i])) \in Seq(Nat)  BY <2>1, SortedIs
  <2> QED  BY <1>01, <2>2, PushGroupType
<1>1. PICK Fn : Fn = [p \in W \X (1 .. n) |-> Op(p[1], p[2])]  OBVIOUS
<1>2. Fn \in [W \X (1 .. n) -> W]
  <2> HIDE DEF Op, W
  <2> QED  BY <1>03, <1>1
<1> HIDE DEF Op, W
<1>3. Folded(fold)
  <2>0. PICK g : FoldOf(n, W, l, Fn, g)
    <3>1. l \in W  BY DEF W
    <3> QED  BY <1>01, <1>2, <3>1, FoldExists, Zenon
  <2>1. g \in [SUBSET (1 .. n) -> W] /\ \A s \in SUBSET (1 .. n) : g[s] = FoldAt(l, Fn, g, s)
    BY <2>0 DEF FoldOf
  <2>2. ASSUME NEW s \in SUBSET (1 .. n) PROVE g[s] = At(g, s)
    <3>1. CASE s = {}  BY <2>1, <3>1 DEF FoldAt
    <3>2. CASE s # {}
      <4>1. F!Max(s) \in 1 .. n /\ s \ {F!Max(s)} \in SUBSET (1 .. n)  BY <1>01, <3>2, MaxOfPlaces
      <4>2. g[s \ {F!Max(s)}] \in W  BY <2>1, <4>1
      <4>3. Fn[<<g[s \ {F!Max(s)}], F!Max(s)>>] = Op(g[s \ {F!Max(s)}], F!Max(s))
        BY <1>1, <4>1, <4>2
      <4> QED  BY <2>1, <3>2, <4>3, Zenon DEF FoldAt
    <3> QED  BY <3>1, <3>2
  <2>3. g = [s \in SUBSET (1 .. n) |-> g[s]]  BY <2>1
  <2>4. Folded(g)  BY <2>2, <2>3, Zenon
  <2> QED  BY <2>4, Zenon
<1> DEFINE h == [k \in 0 .. n |-> fold[1 .. k]]
<1> HIDE DEF fold
<1>5. h[0] = l
  <2>1. fold[{}] = l  BY <1>3
  <2>2. 0 \in 0 .. n /\ 1 .. 0 = {}  BY <1>01
  <2> QED  BY <2>1, <2>2
<1>6. ASSUME NEW k \in 0 .. n - 1 PROVE h[k + 1] = Op(h[k], k + 1)
  <2>1. k \in Nat /\ k \in 0 .. n /\ k + 1 \in 0 .. n /\ 1 .. k + 1 \in SUBSET (1 .. n) /\ 1 .. k + 1 # {}
    BY <1>01, FirstPlaces, Zenon
  <2>2. fold[1 .. k + 1] = At(fold, 1 .. k + 1)  BY <1>3, <2>1, Zenon
  <2>3. F!Max(1 .. k + 1) = k + 1 /\ (1 .. k + 1) \ {k + 1} = 1 .. k  BY <2>1, MaxOfRange
  <2>4. fold[1 .. k + 1] = Op(fold[1 .. k], k + 1)  BY <2>1, <2>2, <2>3, Zenon
  <2> QED  BY <2>1, <2>4
<1>7. \A k \in 0 .. n : h[k] \in W
  <2> HIDE DEF h
  <2>1. \A k \in 0 .. n - 1 : k + 1 \in 1 .. n  BY <1>01
  <2>2. \A k \in 0 .. n - 1 : h[k] \in W => h[k + 1] \in W
    <3> SUFFICES ASSUME NEW k \in 0 .. n - 1, h[k] \in W PROVE h[k + 1] \in W  OBVIOUS
    <3>1. Op(h[k], k + 1) \in W  BY <1>03, <2>1
    <3> QED  BY <1>6, <3>1
  <2>3. h[0] \in W /\ n \in Nat  BY <1>01, <1>5 DEF W
  <2> QED  BY <2>2, <2>3, FoldTyped
<1>8. F!pushBlocksImpl(l, S) = h[n]
  <2>1. n \in 0 .. n  BY <1>01
  <2> QED  BY <1>02, <2>1
<1>9. h \in [0 .. n -> W]  BY <1>7
<1> HIDE DEF h
<1>10. \A k \in 0 .. n - 1 :
       h[k + 1] = F!PushGroup(h[k], bases[k + 1], F!Sorted(InPart(S, bases[k + 1])))
  BY <1>6 DEF Op
<1> QED  BY <1>5, <1>8, <1>9, <1>10 DEF Pushed, n, bases, W

\* pushBlocksImpl() files every new block under its group, once.
LEMMA PushesBlocks ==
  ASSUME NEW l, GoodList(l), NEW S \in SUBSET Nat, IsFiniteSet(S), S \cap ListBlocks(l) = {}
  PROVE  /\ GoodList(F!pushBlocksImpl(l, S))
         /\ ListBlocks(F!pushBlocksImpl(l, S)) = ListBlocks(l) \cup S
<1> DEFINE bases == F!Sorted(PartsOf(S))
           n == Len(bases)
           Done(k) == {b \in S : \E i \in 1 .. k : F!compactPtrGroup(b) = bases[i]}
<1>1. l \in Seq(GroupT)  BY DEF GoodList
<1>2. PICK h : Pushed(l, S, h)  BY <1>1, PushedParts
<1>3. /\ h[0] = l
      /\ \A k \in 0 .. n - 1 :
           h[k + 1] = F!PushGroup(h[k], bases[k + 1], F!Sorted(InPart(S, bases[k + 1])))
      /\ F!pushBlocksImpl(l, S) = h[n]
  BY <1>2 DEF Pushed
<1>4. /\ bases \in Seq(Nat) /\ Elements(bases) = PartsOf(S)
      /\ \A i, j \in DOMAIN bases : bases[i] = bases[j] => i = j
  BY PartsFinite, SortedIs
<1>5. n \in Nat /\ DOMAIN bases = 1 .. n /\ \A i \in 1 .. n : bases[i] \in Nat  BY <1>4
<1> HIDE DEF bases, n
<1> DEFINE Q(k) == GoodList(h[k]) /\ ListBlocks(h[k]) = ListBlocks(l) \cup Done(k)
           U == {k \in Nat : k =< n => Q(k)}
<1>6. 0 \in U
  <2>1. Done(0) = {}  OBVIOUS
  <2> QED  BY <1>3, <2>1
<1>7. ASSUME NEW k \in Nat, k \in U PROVE k + 1 \in U
  <2> SUFFICES ASSUME k + 1 =< n PROVE Q(k + 1)  OBVIOUS
  <2>1. k \in 0 .. n - 1 /\ k + 1 \in 1 .. n /\ k =< n  BY <1>5
  <2>2. Q(k)  BY <1>7, <2>1
  <2> DEFINE base == bases[k + 1]
             T == InPart(S, base)
             s == F!Sorted(T)
  <2>3. base \in Nat /\ base \in PartsOf(S)  BY <1>4, <1>5, <2>1 DEF Elements
  <2>4. T \in SUBSET Nat /\ IsFiniteSet(T) /\ T # {}
    <3>1. T # {}  BY <2>3 DEF PartsOf, InPart
    <3> QED  BY <3>1, PartsFinite
  <2>5. s \in Seq(Nat) /\ Len(s) = Cardinality(T) /\ Elements(s) = T
    <3> HIDE DEF T
    <3> QED  BY <2>4, SortedIs
  <2>6. s # <<>>
    <3>1. Cardinality(T) # 0  BY <2>4, FS_EmptySet
    <3>2. Len(s) # Len(<<>>)  BY <2>5, <3>1
    <3> QED  BY <3>2
  <2>7. T \cap ListBlocks(h[k]) = {}
    <3> SUFFICES ASSUME NEW b \in T, b \in Done(k) PROVE FALSE  BY <2>2 DEF InPart
    <3>1. PICK i \in 1 .. k : F!compactPtrGroup(b) = bases[i]  OBVIOUS
    <3>2. bases[i] = bases[k + 1]  BY <3>1 DEF InPart
    <3>3. i \in 1 .. n /\ i # k + 1  BY <1>5, <2>1
    <3> QED  BY <1>4, <1>5, <2>1, <3>2, <3>3
  <2>8. \A b \in T : F!compactPtrGroup(b) = base  BY DEF InPart
  <2>9. GoodList(F!PushGroup(h[k], base, s)) /\ ListBlocks(F!PushGroup(h[k], base, s)) = ListBlocks(h[k]) \cup T
    <3> HIDE DEF T, s, base
    <3> QED  BY <2>2, <2>3, <2>4, <2>5, <2>6, <2>7, <2>8, PushesGroup
  <2>10. Done(k + 1) = Done(k) \cup T
    <3>1. 1 .. k + 1 = (1 .. k) \cup {k + 1}  OBVIOUS
    <3> QED  BY <3>1 DEF InPart
  <2> QED  BY <1>3, <2>1, <2>2, <2>9, <2>10
<1>8. Q(n)
  <2>1. Nat \subseteq U
    <3> HIDE DEF U
    <3> QED  BY <1>6, <1>7, Induction
  <2> HIDE DEF Q
  <2> QED  BY <1>5, <2>1
<1>9. Done(n) = S
  <2> SUFFICES ASSUME NEW b \in S PROVE \E i \in 1 .. n : F!compactPtrGroup(b) = bases[i]  OBVIOUS
  <2>1. F!compactPtrGroup(b) \in Elements(bases)  BY <1>4 DEF PartsOf
  <2> QED  BY <1>5, <2>1 DEF Elements
<1> QED  BY <1>3, <1>8, <1>9

\* A sequence has at most as many elements as its length.
LEMMA ElementsBound ==
  ASSUME NEW s \in Seq(Nat)
  PROVE  /\ IsFiniteSet(Elements(s)) /\ Cardinality(Elements(s)) \in Nat
         /\ Cardinality(Elements(s)) =< Len(s) /\ Elements(s) \in SUBSET Nat
<1> DEFINE n == Len(s)
           f == [i \in 1 .. n |-> s[i]]
<1>1. n \in Nat /\ DOMAIN s = 1 .. n /\ \A i \in 1 .. n : s[i] \in Nat  OBVIOUS
<1>2. f \in Surjection(1 .. n, Elements(s))  BY <1>1 DEF Surjection, Elements
<1>3. IsFiniteSet(1 .. n) /\ Cardinality(1 .. n) = n
  <2>1. IsFiniteSet(1 .. n) /\ Cardinality(1 .. n) = IF 1 > n THEN 0 ELSE n - 1 + 1
    BY <1>1, FS_Interval, SMTT(30), ZenonT(20)
  <2> HIDE DEF n
  <2>2. (IF 1 > n THEN 0 ELSE n - 1 + 1) = n  BY <1>1
  <2> QED  BY <2>1, <2>2
<1>4. IsFiniteSet(Elements(s)) /\ Cardinality(Elements(s)) <= Cardinality(1 .. n)
  <2> HIDE DEF f
  <2> QED  BY <1>2, <1>3, FS_Surjection
<1>5. Elements(s) \in SUBSET Nat  BY <1>1 DEF Elements
<1> QED  BY <1>1, <1>3, <1>4, <1>5, FS_CardinalityType

\* Two sets that together have as many members as they may have at most.
LEMMA TightUnion ==
  ASSUME NEW A, NEW C, IsFiniteSet(A), IsFiniteSet(C), NEW a \in Int, NEW c \in Int,
         Cardinality(A) =< a, Cardinality(C) =< c, Cardinality(A \cup C) = a + c
  PROVE  A \cap C = {} /\ Cardinality(A) = a /\ Cardinality(C) = c
<1>1. /\ IsFiniteSet(A \cup C) /\ IsFiniteSet(A \cap C)
      /\ Cardinality(A \cup C) = Cardinality(A) + Cardinality(C) - Cardinality(A \cap C)
  <2>1. A \cap C \in SUBSET A  OBVIOUS
  <2> QED  BY <2>1, FS_Union, FS_Subset
<1>2. Cardinality(A) \in Nat /\ Cardinality(C) \in Nat /\ Cardinality(A \cap C) \in Nat
  BY <1>1, FS_CardinalityType
<1>3. Cardinality(A \cap C) = 0 => A \cap C = {}  BY <1>1, FS_EmptySet
<1> QED  BY <1>1, <1>2, <1>3

\* Bounds of two finite sets add up.
LEMMA Tight ==
  ASSUME NEW A, NEW C, IsFiniteSet(A), IsFiniteSet(C), NEW a \in Int, NEW c \in Int,
         Cardinality(A) =< a, Cardinality(C) =< c
  PROVE  IsFiniteSet(A \cup C) /\ Cardinality(A \cup C) =< a + c
<1>1. /\ IsFiniteSet(A \cup C) /\ IsFiniteSet(A \cap C)
      /\ Cardinality(A \cup C) = Cardinality(A) + Cardinality(C) - Cardinality(A \cap C)
  <2>1. A \cap C \in SUBSET A  OBVIOUS
  <2> QED  BY <2>1, FS_Union, FS_Subset
<1>2. Cardinality(A) \in Nat /\ Cardinality(C) \in Nat /\ Cardinality(A \cap C) \in Nat
  BY <1>1, FS_CardinalityType
<1> QED  BY <1>1, <1>2

\* Full batches list at most as many blocks as they have room for.
LEMMA FullBound ==
  ASSUME NEW t, Full(t)
  PROVE  /\ IsFiniteSet(BlocksIn(t)) /\ Cardinality(BlocksIn(t)) =< Len(t) * MaxNumBlocksInBatch
         /\ Len(t) * MaxNumBlocksInBatch \in Nat /\ BlocksIn(t) \in SUBSET Nat
<1> DEFINE M == MaxNumBlocksInBatch
           Q(s) == /\ IsFiniteSet(BlocksIn(s)) /\ Cardinality(BlocksIn(s)) =< Len(s) * M
                   /\ BlocksIn(s) \in SUBSET Nat
           U == {n \in Nat : \A s : Full(s) /\ Len(s) = n => Q(s)}
<1>0. M \in Nat  BY Cap
<1> HIDE DEF M
<1>1. 0 \in U
  <2> SUFFICES ASSUME NEW s, Full(s), Len(s) = 0 PROVE Q(s)  OBVIOUS
  <2>1. DOMAIN s = {}  BY DEF Full
  <2>2. BlocksIn(s) = {}  BY <2>1 DEF BlocksIn
  <2>3. Len(s) * M = 0  BY <1>0
  <2> QED  BY <2>2, <2>3, FS_EmptySet
<1>2. ASSUME NEW n \in Nat, n \in U PROVE n + 1 \in U
  <2> SUFFICES ASSUME NEW s, Full(s), Len(s) = n + 1 PROVE Q(s)  OBVIOUS
  <2>1. s \in Seq(Seq(Nat)) /\ s # <<>> /\ \A i \in DOMAIN s : Len(s[i]) = M
    <3>1. s \in Seq(Seq(Nat))  BY DEF Full
    <3>2. Len(s) # Len(<<>>)  OBVIOUS
    <3> QED  BY <3>1, <3>2 DEF Full, M
  <2>2. /\ s[1] \in Seq(Nat) /\ Tail(s) \in Seq(Seq(Nat)) /\ s = <<s[1]>> \o Tail(s)
        /\ Len(Tail(s)) = Len(s) - 1 /\ \A i \in 1 .. Len(s) - 1 : Tail(s)[i] = s[i + 1]
    BY <2>1, HeadTail
  <2>3. Full(Tail(s)) /\ Len(Tail(s)) = n /\ Len(s[1]) = M
    <3>1. DOMAIN s = 1 .. n + 1 /\ DOMAIN Tail(s) = 1 .. n  BY <2>1, <2>2
    <3>2. \A i \in 1 .. n : i + 1 \in 1 .. n + 1 /\ 1 \in 1 .. n + 1  OBVIOUS
    <3>3. 1 \in 1 .. n + 1  OBVIOUS
    <3>4. \A i \in 1 .. n : Len(Tail(s)[i]) = M
      <4>1. \A i \in 1 .. n : Tail(s)[i] = s[i + 1]  BY <2>2
      <4> QED  BY <2>1, <3>1, <3>2, <4>1, Zenon
    <3> QED  BY <2>1, <2>2, <3>1, <3>3, <3>4 DEF Full, M
  <2>4. Q(Tail(s))  BY <1>2, <2>3
  <2>5. BlocksIn(s) = Elements(s[1]) \cup BlocksIn(Tail(s))
    <3>1. <<s[1]>> \in Seq(Seq(Nat))  BY <2>2
    <3>2. BlocksIn(<<s[1]>> \o Tail(s)) = BlocksIn(<<s[1]>>) \cup BlocksIn(Tail(s))
      BY <2>2, <3>1, BlocksConcat
    <3> QED  BY <2>2, <3>2, BlocksOne
  <2>6. IsFiniteSet(Elements(s[1])) /\ Cardinality(Elements(s[1])) =< M /\ Elements(s[1]) \in SUBSET Nat
    BY <2>2, <2>3, ElementsBound
  <2>7. M \in Int /\ n * M \in Int /\ (n + 1) * M = M + n * M  BY <1>0
  <2>8. IsFiniteSet(BlocksIn(s)) /\ Cardinality(BlocksIn(s)) =< M + n * M
    <3> DEFINE A == Elements(s[1])
               C == BlocksIn(Tail(s))
    <3>1. IsFiniteSet(A) /\ IsFiniteSet(C) /\ Cardinality(A) =< M /\ Cardinality(C) =< n * M
      BY <2>3, <2>4, <2>6
    <3> HIDE DEF A, C, Q
    <3>2. IsFiniteSet(A \cup C) /\ Cardinality(A \cup C) =< M + n * M  BY <2>7, <3>1, Tight
    <3> QED  BY <2>5, <3>2 DEF A, C
  <2> QED  BY <2>4, <2>5, <2>6, <2>7, <2>8
<1>3. Len(t) \in Nat  BY DEF Full
<1>4. Q(t)
  <2>1. Nat \subseteq U
    <3> HIDE DEF U
    <3> QED  BY <1>1, <1>2, Induction
  <2> QED  BY <1>3, <2>1
<1>5. Len(t) * M \in Nat
  <2>1. \A x \in Nat : x * M \in Nat  BY <1>0
  <2> QED  BY <1>3, <2>1
<1> QED  BY <1>4, <1>5 DEF M

\* Full batches alone are of the right shape.
LEMMA FullShape ==
  ASSUME NEW t, Full(t), t # <<>>
  PROVE  Shape(t) /\ Count(t) = Len(t) * MaxNumBlocksInBatch /\ Len(t[1]) >= 1
<1>1. t \in Seq(Seq(Nat)) /\ \A i \in DOMAIN t : Len(t[i]) = MaxNumBlocksInBatch  BY DEF Full
<1>2. 1 \in DOMAIN t /\ Len(t) \in Nat  BY <1>1
<1>3. Shape(t)  BY <1>1, Cap DEF Shape
<1>4. Len(t[1]) = MaxNumBlocksInBatch  BY <1>1, <1>2
<1>5. (Len(t) - 1) * MaxNumBlocksInBatch + MaxNumBlocksInBatch = Len(t) * MaxNumBlocksInBatch
  BY <1>2, Cap
<1> QED  BY <1>3, <1>4, <1>5, Cap DEF Count

\* What a pop does to the batches of a group.
PoppedOff(bs, left, popped, rest) ==
  /\ BlocksIn(bs) = popped \cup BlocksIn(rest) /\ popped \cap BlocksIn(rest) = {}
  /\ popped # {} /\ Len(rest) = (IF left = 0 THEN Len(bs) - 1 ELSE Len(bs))
  /\ rest # <<>> =>
       /\ Shape(rest) /\ Len(rest[1]) >= 1
       /\ IsFiniteSet(BlocksIn(rest)) /\ Cardinality(BlocksIn(rest)) = Count(rest)
  /\ rest = <<>> => left = 0 /\ Len(bs) = 1 /\ BlocksIn(rest) = {}

\* popBlocksImpl() takes blocks from the first batch of a group: what is left of it
\* keeps its form, and holds none of them.
LEMMA PopsBatches ==
  ASSUME NEW bs, Shape(bs), Len(bs[1]) >= 1,
         IsFiniteSet(BlocksIn(bs)), Cardinality(BlocksIn(bs)) = Count(bs),
         NEW left \in 0 .. Len(bs[1]) - 1
  PROVE  PoppedOff(bs, left, Elements(SubSeq(bs[1], left + 1, Len(bs[1]))),
                   IF left = 0 THEN Tail(bs) ELSE <<SubSeq(bs[1], 1, left)>> \o Tail(bs))
<1> DEFINE M == MaxNumBlocksInBatch
           h == bs[1]
           t == Tail(bs)
           one == SubSeq(h, 1, left)
           two == SubSeq(h, left + 1, Len(h))
           rest == IF left = 0 THEN t ELSE <<one>> \o t
<1>1. /\ h \in Seq(Nat) /\ Len(h) \in 0 .. M /\ Full(t) /\ Len(t) = Len(bs) - 1 /\ Len(bs) \in Nat \ {0}
      /\ BlocksIn(bs) = Elements(h) \cup BlocksIn(t) /\ Count(bs) = Len(t) * M + Len(h)
  BY ShapeSplit
<1>2. /\ Len(h) \in Nat /\ left \in 0 .. Len(h) /\ left < Len(h) /\ Len(h) - left >= 1 /\ left =< M
      /\ M \in Nat \ {0}
  <2> DEFINE n == Len(h)
  <2>1. n \in 0 .. M /\ n >= 1 /\ left \in 0 .. n - 1 /\ M \in Nat \ {0}  BY <1>1, Cap
  <2> HIDE DEF n, M
  <2> QED  BY <2>1 DEF n
<1>3. /\ one \in Seq(Nat) /\ Len(one) = left /\ two \in Seq(Nat) /\ Len(two) = Len(h) - left
      /\ Elements(h) = Elements(one) \cup Elements(two)
  <2>1. h \in Seq(Nat) /\ left \in 0 .. Len(h)  BY <1>1, <1>2
  <2> HIDE DEF h
  <2> QED  BY <2>1, SubSeqOf
<1> HIDE DEF h, t, one, two, M
<1>4. /\ IsFiniteSet(Elements(one)) /\ Cardinality(Elements(one)) =< left
      /\ IsFiniteSet(Elements(two)) /\ Cardinality(Elements(two)) =< Len(h) - left
  BY <1>3, ElementsBound
<1>5. IsFiniteSet(BlocksIn(t)) /\ Cardinality(BlocksIn(t)) =< Len(t) * M /\ Len(t) * M \in Nat
  BY <1>1, FullBound DEF M
<1>6. /\ BlocksIn(rest) = Elements(one) \cup BlocksIn(t)
      /\ Len(rest) = (IF left = 0 THEN Len(t) ELSE Len(t) + 1) /\ Len(t) \in Nat
  <2>1. CASE left = 0
    <3>1. Elements(one) = {}
      <4>1. DOMAIN one = {}  BY <1>3, <2>1
      <4> QED  BY <4>1 DEF Elements
    <3>2. Len(t) \in Nat  BY <1>1
    <3> QED  BY <2>1, <3>1, <3>2
  <2>2. CASE left # 0
    <3>1. Len(one) =< MaxNumBlocksInBatch  BY <1>2, <1>3 DEF M
    <3>2. BlocksIn(<<one>> \o t) = Elements(one) \cup BlocksIn(t) /\ Len(<<one>> \o t) = Len(t) + 1
          /\ Len(t) \in Nat
      BY <1>1, <1>3, <3>1, ShapeJoin
    <3> QED  BY <2>2, <3>2
  <2> QED  BY <2>1, <2>2
<1>7. IsFiniteSet(BlocksIn(rest)) /\ Cardinality(BlocksIn(rest)) =< left + Len(t) * M
  <2> DEFINE A == Elements(one)
             C == BlocksIn(t)
  <2>1. left \in Int /\ Len(t) * M \in Int  BY <1>2, <1>5
  <2>2. IsFiniteSet(A) /\ IsFiniteSet(C) /\ Cardinality(A) =< left /\ Cardinality(C) =< Len(t) * M
    BY <1>4, <1>5
  <2> HIDE DEF A, C, rest
  <2>3. IsFiniteSet(A \cup C) /\ Cardinality(A \cup C) =< left + Len(t) * M  BY <2>1, <2>2, Tight
  <2> QED  BY <1>6, <2>3 DEF A, C
<1>8. /\ BlocksIn(bs) = Elements(two) \cup BlocksIn(rest)
      /\ Elements(two) \cap BlocksIn(rest) = {} /\ Cardinality(BlocksIn(rest)) = left + Len(t) * M
      /\ Cardinality(Elements(two)) = Len(h) - left
  <2>1. BlocksIn(bs) = Elements(two) \cup BlocksIn(rest)  BY <1>1, <1>3, <1>6
  <2>2. PICK d \in Int : d = Len(h) - left  BY <1>2
  <2>3. PICK e \in Int : e = left + Len(t) * M  BY <1>2, <1>5
  <2>4. d + e = Len(t) * M + Len(h)  BY <1>2, <1>5, <2>2, <2>3
  <2>5. Cardinality(Elements(two) \cup BlocksIn(rest)) = d + e  BY <1>1, <2>1, <2>4
  <2>6. /\ IsFiniteSet(Elements(two)) /\ IsFiniteSet(BlocksIn(rest))
        /\ Cardinality(Elements(two)) =< d /\ Cardinality(BlocksIn(rest)) =< e
    BY <1>4, <1>7, <2>2, <2>3
  <2> HIDE DEF rest
  <2>7. /\ Elements(two) \cap BlocksIn(rest) = {}
        /\ Cardinality(Elements(two)) = d /\ Cardinality(BlocksIn(rest)) = e
    BY <2>5, <2>6, TightUnion
  <2> QED  BY <2>1, <2>2, <2>3, <2>7
<1>9. Elements(two) # {}
  <2>1. Cardinality(Elements(two)) # 0  BY <1>2, <1>8
  <2> QED  BY <2>1, FS_EmptySet
<1>10. rest # <<>> => Shape(rest) /\ Len(rest[1]) >= 1 /\ Count(rest) = left + Len(t) * M
  <2>1. CASE left = 0
    <3>1. t # <<>> => Shape(t) /\ Count(t) = Len(t) * M /\ Len(t[1]) >= 1  BY <1>1, FullShape DEF M
    <3> QED  BY <1>5, <2>1, <3>1
  <2>2. CASE left # 0
    <3>1. Len(one) =< MaxNumBlocksInBatch  BY <1>2, <1>3 DEF M
    <3>2. /\ Shape(<<one>> \o t) /\ (<<one>> \o t)[1] = one
          /\ Count(<<one>> \o t) = Len(t) * MaxNumBlocksInBatch + Len(one)
      BY <1>1, <1>3, <3>1, ShapeJoin
    <3> QED  BY <1>2, <1>3, <1>5, <2>2, <3>2 DEF M
  <2> QED  BY <2>1, <2>2
<1>11. rest = <<>> => left = 0 /\ Len(bs) = 1 /\ BlocksIn(rest) = {}
  <2> SUFFICES ASSUME rest = <<>> PROVE left = 0 /\ Len(bs) = 1 /\ BlocksIn(rest) = {}  OBVIOUS
  <2>1. Len(rest) = 0 /\ DOMAIN rest = {}  OBVIOUS
  <2>2. BlocksIn(rest) = {}  BY <2>1 DEF BlocksIn
  <2> HIDE DEF rest
  <2> QED  BY <1>1, <1>6, <2>1, <2>2
<1>12. Len(rest) = (IF left = 0 THEN Len(bs) - 1 ELSE Len(bs))  BY <1>1, <1>6
<1> HIDE DEF rest
<1>13. rest # <<>> => /\ Shape(rest) /\ Len(rest[1]) >= 1
                      /\ IsFiniteSet(BlocksIn(rest)) /\ Cardinality(BlocksIn(rest)) = Count(rest)
  BY <1>7, <1>8, <1>10
<1>130. PoppedOff(bs, left, Elements(two), rest)
  BY <1>8, <1>9, <1>11, <1>12, <1>13 DEF PoppedOff
<1>14. rest = IF left = 0 THEN Tail(bs) ELSE <<SubSeq(bs[1], 1, left)>> \o Tail(bs)
  BY DEF rest, t, one, h
<1>15. two = SubSeq(bs[1], left + 1, Len(bs[1]))  BY DEF two, h
<1> QED  BY <1>130, <1>14, <1>15, Zenon

\* popBlocksImpl(): the blocks of the list go to the caller or stay, none does both,
\* and the batch class gets back what the list does not need any more.
LEMMA Pops ==
  ASSUME NEW l, GoodList(l), l # <<>>, NEW n \in Nat \ {0}
  PROVE  LET p == F!popBlocksImpl(l, n) IN
         /\ GoodList(p.list) /\ p.popped # {} /\ IsFiniteSet(p.popped)
         /\ ListBlocks(l) = p.popped \cup ListBlocks(p.list) /\ p.popped \cap ListBlocks(p.list) = {}
         /\ F!Records(p.list) = F!Records(l) - p.freed /\ p.freed \in Nat
<1> DEFINE g == l[1]
           u == Tail(l)
           bs == g.batches
           h == bs[1]
           left == IF Len(h) - n >= 0 THEN Len(h) - n ELSE 0
           rest == IF left = 0 THEN Tail(bs) ELSE <<SubSeq(h, 1, left)>> \o Tail(bs)
           two == SubSeq(h, left + 1, Len(h))
           new == [g EXCEPT !.batches = rest]
           list1 == IF rest = <<>> THEN u ELSE <<new>> \o u
           freed == IF left # 0 THEN 0 ELSE IF rest = <<>> THEN 2 ELSE 1
           p == F!popBlocksImpl(l, n)
<1>1. l \in Seq(GroupT) /\ Ordered(l)  BY DEF GoodList
<1>2. g \in GroupT /\ Head(l) = g /\ u \in Seq(GroupT) /\ l = <<g>> \o u /\ <<g>> \in Seq(GroupT)
  BY <1>1, HeadTail
<1>3. GoodList(<<g>>) /\ GoodList(u)
  <2> HIDE DEF g, u
  <2> QED  BY <1>2, GoodListConcat, SMTT(30), ZenonT(20)
<1>4. GoodGroup(g)
  <2>1. g \in Elements(<<g>>)  BY ElementsOne
  <2> QED  BY <1>3, <2>1 DEF GoodList
<1> HIDE DEF g, u
<1>5. /\ Shape(bs) /\ Len(h) >= 1 /\ IsFiniteSet(BlocksIn(bs)) /\ Cardinality(BlocksIn(bs)) = Count(bs)
      /\ \A b \in BlocksIn(bs) : F!compactPtrGroup(b) = g.base
  BY <1>4, GroupFields DEF GoodGroup
<1>6. Head(bs) = h /\ h \in Seq(Nat) /\ Len(bs) \in Nat \ {0}
  <2> HIDE DEF bs
  <2> QED  BY <1>5, ShapeSplit
<1>7. F!Max({Len(h) - n, 0}) = left
  <2>1. Len(h) - n \in Int /\ 0 \in Int  BY <1>6
  <2> HIDE DEF h
  <2> QED  BY <2>1, MaxPair
<1>8. left \in 0 .. Len(h) - 1
  <2> DEFINE m == Len(h)
  <2>1. m \in Nat /\ m >= 1  BY <1>5, <1>6
  <2> HIDE DEF m
  <2>2. (IF m - n >= 0 THEN m - n ELSE 0) \in 0 .. m - 1  BY <2>1
  <2> QED  BY <2>2 DEF m
<1>9. p = [popped |-> Elements(two), list |-> list1, freed |-> freed]
  <2> DEFINE lf == F!Max({Len(h) - n, 0})
             rs == IF lf = 0 THEN Tail(bs) ELSE <<SubSeq(h, 1, lf)>> \o Tail(bs)
  <2>1. p = [popped |-> F!ToSet(SubSeq(h, lf + 1, Len(h))),
             list   |-> IF rs = <<>> THEN Tail(l) ELSE <<[g EXCEPT !.batches = rs]>> \o Tail(l),
             freed  |-> IF lf # 0 THEN 0 ELSE IF rs = <<>> THEN 2 ELSE 1]
    <3> HIDE DEF h, p
    <3>1. F!popBlocksImpl(l, n) =
            LET z1 == F!Max({Len(Head(Head(l).batches)) - n, 0})
                z2 == IF z1 = 0 THEN Tail(Head(l).batches)
                      ELSE <<SubSeq(Head(Head(l).batches), 1, z1)>> \o Tail(Head(l).batches)
            IN [popped |-> F!ToSet(SubSeq(Head(Head(l).batches), z1 + 1, Len(Head(Head(l).batches)))),
                list |-> IF z2 = <<>> THEN Tail(l) ELSE <<[Head(l) EXCEPT !.batches = z2]>> \o Tail(l),
                freed |-> IF z1 # 0 THEN 0 ELSE IF z2 = <<>> THEN 2 ELSE 1]
      BY Zenon DEF F!popBlocksImpl
    <3>2. Head(l) = g /\ Head(bs) = h  BY <1>2, <1>6
    <3> QED  BY <3>1, <3>2, Zenon DEF p
  <2>2. F!ToSet(two) = Elements(two)  BY DEF F!ToSet, Elements
  <2> HIDE DEF p, h, left
  <2> QED  BY <1>7, <2>1, <2>2, Zenon DEF u
<1> HIDE DEF left
<1>10. /\ BlocksIn(bs) = Elements(two) \cup BlocksIn(rest) /\ Elements(two) \cap BlocksIn(rest) = {}
       /\ Elements(two) # {} /\ Len(rest) = (IF left = 0 THEN Len(bs) - 1 ELSE Len(bs))
       /\ rest # <<>> =>
            /\ Shape(rest) /\ Len(rest[1]) >= 1
            /\ IsFiniteSet(BlocksIn(rest)) /\ Cardinality(BlocksIn(rest)) = Count(rest)
       /\ rest = <<>> => left = 0 /\ Len(bs) = 1 /\ BlocksIn(rest) = {}
  <2>1. Shape(bs) /\ Len(bs[1]) >= 1 /\ IsFiniteSet(BlocksIn(bs)) /\ Cardinality(BlocksIn(bs)) = Count(bs)
        /\ left \in 0 .. Len(bs[1]) - 1
    BY <1>5, <1>8
  <2>2. PoppedOff(bs, left, Elements(two), rest)
    <3> HIDE DEF bs
    <3> QED  BY <2>1, PopsBatches
  <2> HIDE DEF bs, two, rest
  <2> QED  BY <2>2 DEF PoppedOff
<1> HIDE DEF p, two, rest, h
<1>11. p.popped = Elements(two) /\ p.list = list1 /\ p.freed = freed  BY <1>9
<1>12. IsFiniteSet(Elements(two))
  <2>1. Elements(two) \in SUBSET BlocksIn(bs)  BY <1>10
  <2> QED  BY <1>5, <2>1, FS_Subset
<1>13. ListBlocks(l) = BlocksIn(bs) \cup ListBlocks(u)
  <2>1. ListBlocks(<<g>> \o u) = ListBlocks(<<g>>) \cup ListBlocks(u)  BY <1>2, ListConcat
  <2> QED  BY <1>2, <2>1, ListOne
<1>14. \A j \in DOMAIN u : g.base < u[j].base
  <2>1. DOMAIN u = 1 .. Len(u) /\ Len(u) \in Nat  BY <1>2
  <2>2. \A j \in 1 .. Len(u) : j + 1 \in DOMAIN l /\ l[j + 1] = u[j] /\ 1 \in DOMAIN l /\ l[1] = g /\ 1 < j + 1
    BY <1>2, <2>1
  <2> QED  BY <1>1, <2>1, <2>2 DEF Ordered
<1>15. BlocksIn(bs) \cap ListBlocks(u) = {}
  <2> SUFFICES ASSUME NEW b \in BlocksIn(bs), b \in ListBlocks(u) PROVE FALSE  OBVIOUS
  <2>1. PICK j \in DOMAIN u : b \in BlocksIn(u[j].batches)  BY DEF ListBlocks
  <2>2. u[j] \in GroupT /\ GoodGroup(u[j])  BY <1>2, <1>3, <2>1 DEF GoodList, Elements
  <2>3. F!compactPtrGroup(b) = u[j].base  BY <2>1, <2>2 DEF GoodGroup
  <2>4. g.base \in Nat /\ u[j].base \in Nat  BY <1>2, <2>2, GroupFields
  <2> QED  BY <1>5, <1>14, <2>1, <2>3, <2>4
<1>16. F!Records(l) = 1 + Len(bs) + F!Records(u) /\ F!Records(u) \in Nat
  <2>1. F!Records(<<g>> \o u) = F!Records(<<g>>) + F!Records(u)  BY <1>2, RecordsConcat
  <2> QED  BY <1>2, <2>1, RecordsOne, RecordsType
<1>17. CASE rest = <<>>
  <2>1. list1 = u /\ freed = 2 /\ Len(bs) = 1  BY <1>10, <1>17
  <2>2. ListBlocks(l) = Elements(two) \cup ListBlocks(u) /\ Elements(two) \cap ListBlocks(u) = {}
    BY <1>10, <1>13, <1>15, <1>17
  <2>3. F!Records(u) = F!Records(l) - 2  BY <1>16, <2>1
  <2> QED  BY <1>3, <1>10, <1>11, <1>12, <2>1, <2>2, <2>3 DEF p
<1>18. CASE rest # <<>>
  <2>1. list1 = <<new>> \o u  BY <1>18
  <2>2. rest \in BatchesT  BY <1>10, <1>18 DEF BatchesT, Shape
  <2>3. new \in GroupT /\ new.base = g.base /\ new.batches = rest  BY <1>2, <2>2 DEF GroupT
  <2> HIDE DEF new
  <2>4. GoodGroup(new)
    <3>1. \A b \in BlocksIn(rest) : F!compactPtrGroup(b) = g.base  BY <1>5, <1>10
    <3> QED  BY <1>10, <1>18, <2>3, <3>1 DEF GoodGroup
  <2>5. GoodList(<<new>> \o u)
    <3>1. \A i \in DOMAIN <<new>>, j \in DOMAIN u : <<new>>[i].base < u[j].base
      <4>1. \A i \in DOMAIN <<new>> : <<new>>[i] = new  OBVIOUS
      <4> QED  BY <1>14, <2>3, <4>1
    <3>2. <<new>> \in Seq(GroupT)  BY <2>3
    <3> QED  BY <1>2, <1>3, <2>4, <3>1, <3>2, GoodOne, GoodListConcat
  <2>6. ListBlocks(<<new>> \o u) = BlocksIn(rest) \cup ListBlocks(u)
    <3>1. <<new>> \in Seq(GroupT)  BY <2>3
    <3>2. ListBlocks(<<new>> \o u) = ListBlocks(<<new>>) \cup ListBlocks(u)  BY <1>2, <3>1, ListConcat
    <3> QED  BY <2>3, <3>2, ListOne
  <2>7. F!Records(<<new>> \o u) = 1 + Len(rest) + F!Records(u)
    <3>1. <<new>> \in Seq(GroupT)  BY <2>3
    <3>2. F!Records(<<new>> \o u) = F!Records(<<new>>) + F!Records(u)  BY <1>2, <3>1, RecordsConcat
    <3> QED  BY <2>3, <3>2, RecordsOne
  <2>8. freed \in {0, 1} /\ Len(rest) = Len(bs) - freed
    <3>1. CASE left = 0  BY <1>6, <1>10, <1>18, <3>1
    <3>2. CASE left # 0
      <4>1. freed = 0 /\ Len(rest) = Len(bs) /\ Len(bs) \in Nat  BY <1>6, <1>10, <3>2
      <4> HIDE DEF freed
      <4> QED  BY <4>1
    <3> QED  BY <3>1, <3>2
  <2>81. Len(bs) \in Nat /\ F!Records(l) = 1 + Len(bs) + F!Records(u) /\ F!Records(u) \in Nat
    BY <1>6, <1>16
  <2>9. F!Records(<<new>> \o u) = F!Records(l) - freed
    <3> HIDE DEF freed, bs
    <3> QED  BY <2>7, <2>8, <2>81
  <2>10. /\ ListBlocks(l) = Elements(two) \cup ListBlocks(<<new>> \o u)
         /\ Elements(two) \cap ListBlocks(<<new>> \o u) = {}
    BY <1>10, <1>13, <1>15, <2>6
  <2> HIDE DEF freed
  <2> QED  BY <1>10, <1>11, <1>12, <2>1, <2>5, <2>8, <2>9, <2>10 DEF p
<1> QED  BY <1>17, <1>18

LEMMA AppendIs ==
  ASSUME NEW S, NEW s \in Seq(S), NEW x \in S
  PROVE  Append(s, x) = s \o <<x>> /\ <<x>> \in Seq(S) /\ Append(s, x) \in Seq(S)
  OBVIOUS

\* Setting the checkpoint changes nothing else in a group.
LEMMA Checkpoints ==
  ASSUME NEW g \in GroupT
  PROVE  /\ F!Checkpoint(g) \in GroupT
         /\ F!Checkpoint(g).base = g.base /\ F!Checkpoint(g).batches = g.batches
<1> DEFINE c == F!NumBlocksIn(g) * ListBlockSize
<1>1. Shape(g.batches)  BY GroupFields
<1>2. c \in Int
  <2> DEFINE bs == g.batches
             a == Len(bs)
             d == Len(Head(bs))
  <2>1. a \in Nat /\ d \in Nat /\ MaxNumBlocksInBatch \in Nat /\ ListBlockSize \in Nat
    <3>1. Shape(bs)  BY <1>1
    <3> HIDE DEF bs
    <3>2. Head(bs) = bs[1] /\ bs[1] \in Seq(Nat) /\ bs \in Seq(Seq(Nat))  BY <3>1, ShapeSplit
    <3> QED  BY <3>2, FreeListAssumption
  <2>2. F!NumBlocksIn(g) = (a - 1) * MaxNumBlocksInBatch + d  BY DEF F!NumBlocksIn
  <2> HIDE DEF a, d
  <2>3. (a - 1) * MaxNumBlocksInBatch \in Int  BY <2>1
  <2>4. F!NumBlocksIn(g) \in Int  BY <2>1, <2>2, <2>3
  <2>5. \A x \in Int : x * ListBlockSize \in Int  BY <2>1
  <2> QED  BY <2>4, <2>5
<1>3. F!Checkpoint(g) = g \/ F!Checkpoint(g) = [g EXCEPT !.BytesInBGAtLastCheckpoint = c]
  BY Zenon DEF F!Checkpoint
<1> HIDE DEF c
<1> QED  BY <1>2, <1>3 DEF GroupT

CollectW == [kept : Seq(GroupT), taken : Seq(GroupT)]

\* A group is kept, or collected.
LEMMA ExamineType ==
  ASSUME NEW r \in CollectW, NEW g \in GroupT
  PROVE  /\ F!Examine(r, g) \in CollectW
         /\ \/ /\ F!Examine(r, g).kept = r.kept \o <<F!Checkpoint(g)>>
               /\ F!Examine(r, g).taken = r.taken
            \/ /\ F!Examine(r, g).kept = r.kept
               /\ F!Examine(r, g).taken = r.taken \o <<F!Checkpoint(g)>>
<1> DEFINE c == F!Checkpoint(g)
<1>1. c \in GroupT  BY Checkpoints
<1> HIDE DEF c
<1>2. r.kept \in Seq(GroupT) /\ r.taken \in Seq(GroupT)  BY DEF CollectW
<1>3. /\ Append(r.kept, c) = r.kept \o <<c>> /\ Append(r.kept, c) \in Seq(GroupT)
      /\ Append(r.taken, c) = r.taken \o <<c>> /\ Append(r.taken, c) \in Seq(GroupT)
  BY <1>1, <1>2, AppendIs
<1>4. F!Examine(r, g) = IF F!Eligible(g) THEN [r EXCEPT !.taken = Append(r.taken, c)]
                        ELSE [r EXCEPT !.kept = Append(r.kept, c)]
  BY Zenon DEF F!Examine, c
<1> DEFINE e == F!Examine(r, g)
           a == Append(r.taken, c)
           b == Append(r.kept, c)
<1> HIDE DEF a, b, e
<1>5. e = [r EXCEPT !.taken = a] \/ e = [r EXCEPT !.kept = b]  BY <1>4 DEF a, b, e
<1>6. a \in Seq(GroupT) /\ b \in Seq(GroupT)  BY <1>3 DEF a, b
<1>7. e \in CollectW /\ ((e.kept = r.kept /\ e.taken = a) \/ (e.kept = b /\ e.taken = r.taken))
  BY <1>5, <1>6 DEF CollectW
<1> QED  BY <1>3, <1>7 DEF a, b, e, c

\* collectGroupsToRelease() looks at the groups one by one, and has the two lists h[k]
\* after k of them.
Collected(l, h) ==
  /\ h \in [0 .. Len(l) -> CollectW] /\ h[0] = [kept |-> <<>>, taken |-> <<>>]
  /\ \A k \in 0 .. Len(l) - 1 : h[k + 1] = F!Examine(h[k], l[k + 1])
  /\ F!collectGroupsToRelease(l) = h[Len(l)]

\* collectGroupsToRelease() as a sequence of results, one per group.
LEMMA CollectedGroups ==
  ASSUME NEW l \in Seq(GroupT)
  PROVE  \E h : Collected(l, h)
<1> DEFINE W == CollectW
           n == Len(l)
           first == [kept |-> <<>>, taken |-> <<>>]
           Op(r, i) == F!Examine(r, l[i])
           At(g, s) == IF s = {} THEN first ELSE Op(g[s \ {F!Max(s)}], F!Max(s))
           Folded(g) == g = [s \in SUBSET (1 .. n) |-> At(g, s)]
           fold == CHOOSE g : Folded(g)
<1>01. n \in Nat /\ DOMAIN l = 1 .. n /\ \A i \in 1 .. n : l[i] \in GroupT  OBVIOUS
<1>02. F!collectGroupsToRelease(l) = fold[1 .. n]
  <2>1. F!collectGroupsToRelease(l) =
          (CHOOSE g : g = [s \in SUBSET (DOMAIN l) |->
             IF s = {} THEN first ELSE F!Examine(g[s \ {F!Max(s)}], l[F!Max(s)])])[DOMAIN l]
    BY Zenon DEF F!collectGroupsToRelease, F!FoldLeft, F!MapThenFoldSet
  <2> QED  BY <1>01, <2>1, Zenon
<1>04. first \in W  BY DEF CollectW
<1> HIDE DEF n, first
<1>03. ASSUME NEW r \in W, NEW i \in 1 .. n PROVE Op(r, i) \in W
  BY <1>01, ExamineType
<1>1. PICK Fn : Fn = [p \in W \X (1 .. n) |-> Op(p[1], p[2])]  OBVIOUS
<1>2. Fn \in [W \X (1 .. n) -> W]
  <2> HIDE DEF Op, W
  <2> QED  BY <1>03, <1>1
<1> HIDE DEF Op, W
<1>3. Folded(fold)
  <2>0. PICK g : FoldOf(n, W, first, Fn, g)  BY <1>01, <1>2, <1>04, FoldExists, Zenon
  <2>1. g \in [SUBSET (1 .. n) -> W] /\ \A s \in SUBSET (1 .. n) : g[s] = FoldAt(first, Fn, g, s)
    BY <2>0 DEF FoldOf
  <2>2. ASSUME NEW s \in SUBSET (1 .. n) PROVE g[s] = At(g, s)
    <3>1. CASE s = {}  BY <2>1, <3>1 DEF FoldAt
    <3>2. CASE s # {}
      <4>1. F!Max(s) \in 1 .. n /\ s \ {F!Max(s)} \in SUBSET (1 .. n)  BY <1>01, <3>2, MaxOfPlaces
      <4>2. g[s \ {F!Max(s)}] \in W  BY <2>1, <4>1
      <4>3. Fn[<<g[s \ {F!Max(s)}], F!Max(s)>>] = Op(g[s \ {F!Max(s)}], F!Max(s))
        BY <1>1, <4>1, <4>2
      <4> QED  BY <2>1, <3>2, <4>3, Zenon DEF FoldAt
    <3> QED  BY <3>1, <3>2
  <2>3. g = [s \in SUBSET (1 .. n) |-> g[s]]  BY <2>1
  <2>4. Folded(g)  BY <2>2, <2>3, Zenon
  <2> QED  BY <2>4, Zenon
<1> DEFINE h == [k \in 0 .. n |-> fold[1 .. k]]
<1> HIDE DEF fold
<1>5. h[0] = first
  <2>1. fold[{}] = first  BY <1>3
  <2>2. 0 \in 0 .. n /\ 1 .. 0 = {}  BY <1>01
  <2> QED  BY <2>1, <2>2
<1>6. ASSUME NEW k \in 0 .. n - 1 PROVE h[k + 1] = Op(h[k], k + 1)
  <2>1. k \in Nat /\ k \in 0 .. n /\ k + 1 \in 0 .. n /\ 1 .. k + 1 \in SUBSET (1 .. n) /\ 1 .. k + 1 # {}
    BY <1>01, FirstPlaces, Zenon
  <2>2. fold[1 .. k + 1] = At(fold, 1 .. k + 1)  BY <1>3, <2>1, Zenon
  <2>3. F!Max(1 .. k + 1) = k + 1 /\ (1 .. k + 1) \ {k + 1} = 1 .. k  BY <2>1, MaxOfRange
  <2>4. fold[1 .. k + 1] = Op(fold[1 .. k], k + 1)  BY <2>1, <2>2, <2>3, Zenon
  <2> QED  BY <2>1, <2>4
<1>7. \A k \in 0 .. n : h[k] \in W
  <2> HIDE DEF h
  <2>1. \A k \in 0 .. n - 1 : k + 1 \in 1 .. n  BY <1>01
  <2>2. \A k \in 0 .. n - 1 : h[k] \in W => h[k + 1] \in W
    <3> SUFFICES ASSUME NEW k \in 0 .. n - 1, h[k] \in W PROVE h[k + 1] \in W  OBVIOUS
    <3>1. Op(h[k], k + 1) \in W  BY <1>03, <2>1
    <3> QED  BY <1>6, <3>1
  <2>3. h[0] \in W /\ n \in Nat  BY <1>01, <1>04, <1>5
  <2> QED  BY <2>2, <2>3, FoldTyped
<1>8. F!collectGroupsToRelease(l) = h[n]
  <2>1. n \in 0 .. n  BY <1>01
  <2> QED  BY <1>02, <2>1
<1>9. h \in [0 .. n -> W]  BY <1>7
<1> HIDE DEF h
<1>10. \A k \in 0 .. n - 1 : h[k + 1] = F!Examine(h[k], l[k + 1])  BY <1>6 DEF Op
<1> QED  BY <1>5, <1>8, <1>9, <1>10 DEF Collected, n, W, first

\* So a group that is looked at stays good.
LEMMA CheckpointGood ==
  ASSUME NEW g, GoodGroup(g)
  PROVE  /\ GoodGroup(F!Checkpoint(g)) /\ F!Checkpoint(g).base = g.base
         /\ F!Checkpoint(g).batches = g.batches
<1>1. g \in GroupT  BY DEF GoodGroup
<1>2. F!Checkpoint(g) \in GroupT /\ F!Checkpoint(g).base = g.base /\ F!Checkpoint(g).batches = g.batches
  BY <1>1, Checkpoints
<1> QED  BY <1>2 DEF GoodGroup

\* A group that comes behind all groups of a list.
LEMMA AppendGood ==
  ASSUME NEW r, GoodList(r), NEW g, GoodGroup(g), \A i \in DOMAIN r : r[i].base < g.base
  PROVE  /\ GoodList(r \o <<g>>) /\ ListBlocks(r \o <<g>>) = ListBlocks(r) \cup BlocksIn(g.batches)
         /\ F!Records(r \o <<g>>) = F!Records(r) + 1 + Len(g.batches)
         /\ \A i \in DOMAIN (r \o <<g>>) :
              (r \o <<g>>)[i].base = g.base \/ \E j \in DOMAIN r : (r \o <<g>>)[i].base = r[j].base
<1>1. r \in Seq(GroupT) /\ g \in GroupT /\ <<g>> \in Seq(GroupT)  BY DEF GoodList, GoodGroup
<1>2. GoodList(<<g>>)  BY GoodOne
<1>3. \A i \in DOMAIN r, j \in DOMAIN <<g>> : r[i].base < <<g>>[j].base
  <2>1. \A j \in DOMAIN <<g>> : <<g>>[j] = g  OBVIOUS
  <2> QED  BY <2>1
<1>4. GoodList(r \o <<g>>)  BY <1>1, <1>2, <1>3, GoodListConcat
<1>5. ListBlocks(r \o <<g>>) = ListBlocks(r) \cup BlocksIn(g.batches)
  <2>1. ListBlocks(r \o <<g>>) = ListBlocks(r) \cup ListBlocks(<<g>>)  BY <1>1, ListConcat
  <2> QED  BY <2>1, ListOne
<1>6. F!Records(r \o <<g>>) = F!Records(r) + 1 + Len(g.batches)
  <2>1. F!Records(r \o <<g>>) = F!Records(r) + F!Records(<<g>>)  BY <1>1, RecordsConcat
  <2>2. F!Records(<<g>>) = 1 + Len(g.batches) /\ Len(g.batches) \in Nat /\ F!Records(r) \in Nat
    BY <1>1, RecordsOne, RecordsType
  <2> QED  BY <2>1, <2>2
<1>7. \A i \in DOMAIN (r \o <<g>>) : (r \o <<g>>)[i] = g \/ \E j \in DOMAIN r : (r \o <<g>>)[i] = r[j]
  BY <1>1
<1> QED  BY <1>4, <1>5, <1>6, <1>7

\* A list of some of the first k groups of l, checkpointed or not.
Among(l, k, r) ==
  GoodList(r) /\ \A i \in DOMAIN r : \E j \in 1 .. k : r[i].base = l[j].base

\* What is among the first groups stays so.
LEMMA AmongMore ==
  ASSUME NEW l, NEW k \in Nat, NEW r, Among(l, k, r)
  PROVE  Among(l, k + 1, r)
<1>1. \A j \in 1 .. k : j \in 1 .. k + 1  OBVIOUS
<1> QED  BY <1>1 DEF Among

\* The group that is looked at goes behind all before it.
LEMMA AmongNext ==
  ASSUME NEW l, GoodList(l), NEW k \in 0 .. Len(l) - 1, NEW r, Among(l, k, r)
  PROVE  LET n == r \o <<F!Checkpoint(l[k + 1])>> IN
         /\ Among(l, k + 1, n)
         /\ ListBlocks(n) = ListBlocks(r) \cup BlocksIn(l[k + 1].batches)
         /\ F!Records(n) = F!Records(r) + 1 + Len(l[k + 1].batches)
<1> DEFINE g == F!Checkpoint(l[k + 1])
<1>1. l \in Seq(GroupT) /\ Ordered(l)  BY DEF GoodList
<1>2. k \in Nat /\ k + 1 \in DOMAIN l /\ \A j \in 1 .. k : j \in DOMAIN l /\ j < k + 1  BY <1>1
<1>3. GoodGroup(l[k + 1])  BY <1>2 DEF GoodList, Elements
<1>4. GoodGroup(g) /\ g.base = l[k + 1].base /\ g.batches = l[k + 1].batches  BY <1>3, CheckpointGood
<1> HIDE DEF g
<1>5. \A j \in 1 .. k : l[j].base < g.base  BY <1>1, <1>2, <1>4 DEF Ordered
<1>6. GoodList(r) /\ \A i \in DOMAIN r : \E j \in 1 .. k : r[i].base = l[j].base  BY DEF Among
<1>7. \A i \in DOMAIN r : r[i].base < g.base  BY <1>5, <1>6
<1>8. /\ GoodList(r \o <<g>>) /\ ListBlocks(r \o <<g>>) = ListBlocks(r) \cup BlocksIn(g.batches)
      /\ F!Records(r \o <<g>>) = F!Records(r) + 1 + Len(g.batches)
      /\ \A i \in DOMAIN (r \o <<g>>) :
           (r \o <<g>>)[i].base = g.base \/ \E j \in DOMAIN r : (r \o <<g>>)[i].base = r[j].base
  BY <1>4, <1>6, <1>7, AppendGood
<1>9. \A j \in 1 .. k : j \in 1 .. k + 1  BY <1>2
<1>10. k + 1 \in 1 .. k + 1  BY <1>2
<1>11. \A i \in DOMAIN (r \o <<g>>) : \E j \in 1 .. k + 1 : (r \o <<g>>)[i].base = l[j].base
  BY <1>4, <1>6, <1>8, <1>9, <1>10
<1> QED  BY <1>4, <1>8, <1>11 DEF Among, g

\* The blocks of the first k groups are not those of the next.
Before(l, k) == UNION {BlocksIn(l[j].batches) : j \in 1 .. k}

\* The blocks of the first groups, one group more.
LEMMA BeforeIs ==
  ASSUME NEW l
  PROVE  /\ Before(l, 0) = {}
         /\ \A k \in Nat : Before(l, k + 1) = Before(l, k) \cup BlocksIn(l[k + 1].batches)
         /\ DOMAIN l = 1 .. Len(l) => Before(l, Len(l)) = ListBlocks(l)
<1>1. ASSUME NEW k \in Nat PROVE Before(l, k + 1) = Before(l, k) \cup BlocksIn(l[k + 1].batches)
  <2>1. 1 .. k + 1 = (1 .. k) \cup {k + 1}  OBVIOUS
  <2> QED  BY <2>1 DEF Before
<1>2. Before(l, 0) = {}  BY DEF Before
<1>3. DOMAIN l = 1 .. Len(l) => Before(l, Len(l)) = ListBlocks(l)  BY DEF Before, ListBlocks
<1> QED  BY <1>1, <1>2, <1>3

\* The next group shares no block with those before it.
LEMMA NextApart ==
  ASSUME NEW l, GoodList(l), NEW k \in 0 .. Len(l) - 1
  PROVE  Before(l, k) \cap BlocksIn(l[k + 1].batches) = {}
<1> DEFINE g == l[k + 1]
<1>1. l \in Seq(GroupT) /\ Ordered(l)  BY DEF GoodList
<1>2. k \in Nat /\ k + 1 \in DOMAIN l /\ \A j \in 1 .. k : j \in DOMAIN l /\ j < k + 1  BY <1>1
<1>3. GoodGroup(g) /\ g \in GroupT  BY <1>1, <1>2 DEF GoodList, Elements
<1> SUFFICES ASSUME NEW j \in 1 .. k, NEW b \in BlocksIn(l[j].batches), b \in BlocksIn(g.batches)
             PROVE  FALSE
  BY DEF Before
<1>4. GoodGroup(l[j])  BY <1>2 DEF GoodList, Elements
<1>5. F!compactPtrGroup(b) = l[j].base /\ F!compactPtrGroup(b) = g.base  BY <1>3, <1>4 DEF GoodGroup
<1>6. l[j].base < g.base  BY <1>1, <1>2 DEF Ordered
<1>7. g.base \in Nat  BY <1>3, GroupFields
<1> QED  BY <1>5, <1>6, <1>7

\* What collectGroupsToRelease() has made of the first k groups.
CollectInv(l, s, k, r) ==
  /\ Among(l, k, r.kept) /\ Among(l, k, r.taken)
  /\ ListBlocks(r.kept) \cup ListBlocks(r.taken) = Before(l, k)
  /\ ListBlocks(r.kept) \cap ListBlocks(r.taken) = {}
  /\ F!Records(r.kept) + F!Records(r.taken) = k + s[k]

\* One more group of collectGroupsToRelease() keeps its invariant.
LEMMA CollectStep ==
  ASSUME NEW l, GoodList(l), NEW s, Summed(l, s), NEW k \in 0 .. Len(l) - 1,
         NEW r \in CollectW, CollectInv(l, s, k, r)
  PROVE  CollectInv(l, s, k + 1, F!Examine(r, l[k + 1]))
<1> DEFINE g == l[k + 1]
           e == F!Examine(r, g)
<1>1. l \in Seq(GroupT) /\ Ordered(l)  BY DEF GoodList
<1>2. k \in Nat /\ k + 1 \in DOMAIN l /\ \A j \in 1 .. k : j \in DOMAIN l /\ j < k + 1  BY <1>1
<1>3. GoodGroup(g) /\ g \in GroupT  BY <1>1, <1>2 DEF GoodList, Elements
<1>4. \/ e.kept = r.kept \o <<F!Checkpoint(g)>> /\ e.taken = r.taken
      \/ e.kept = r.kept /\ e.taken = r.taken \o <<F!Checkpoint(g)>>
  BY <1>3, ExamineType
<1>5. Before(l, k) \cap BlocksIn(g.batches) = {}  BY NextApart
<1>6. Before(l, k + 1) = Before(l, k) \cup BlocksIn(g.batches)  BY <1>2, BeforeIs
<1>7. /\ Among(l, k, r.kept) /\ Among(l, k, r.taken)
      /\ ListBlocks(r.kept) \cup ListBlocks(r.taken) = Before(l, k)
      /\ ListBlocks(r.kept) \cap ListBlocks(r.taken) = {}
      /\ F!Records(r.kept) + F!Records(r.taken) = k + s[k]
  BY DEF CollectInv
<1>8. s[k + 1] = s[k] + Len(g.batches)  BY DEF Summed
<1>9. /\ F!Records(r.kept) \in Nat /\ F!Records(r.taken) \in Nat /\ Len(g.batches) \in Nat /\ s[k] \in Nat
  <2>1. r.kept \in Seq(GroupT) /\ r.taken \in Seq(GroupT)  BY DEF CollectW
  <2>2. s \in [0 .. Len(l) -> Nat] /\ k \in 0 .. Len(l)  BY <1>1 DEF Summed
  <2>3. s[k] \in Nat  BY <2>2
  <2> QED  BY <1>3, <2>1, <2>3, RecordsType, RecordsOne
<1>10. Among(l, k + 1, r.kept) /\ Among(l, k + 1, r.taken)  BY <1>2, <1>7, AmongMore
<1> DEFINE N(x) == x \o <<F!Checkpoint(l[k + 1])>>
           Next1(x) == /\ Among(l, k + 1, N(x))
                       /\ ListBlocks(N(x)) = ListBlocks(x) \cup BlocksIn(g.batches)
                       /\ F!Records(N(x)) = F!Records(x) + 1 + Len(g.batches)
<1>11. Next1(r.kept) /\ Next1(r.taken)  BY <1>7, AmongNext
<1> HIDE DEF e
<1>12. CASE e.kept = N(r.kept) /\ e.taken = r.taken
  <2>1. Among(l, k + 1, e.kept) /\ Among(l, k + 1, e.taken)  BY <1>10, <1>11, <1>12
  <2>2. ListBlocks(e.kept) = ListBlocks(r.kept) \cup BlocksIn(g.batches)
        /\ ListBlocks(e.taken) = ListBlocks(r.taken)
    BY <1>11, <1>12
  <2>3. F!Records(e.kept) = F!Records(r.kept) + 1 + Len(g.batches) /\ F!Records(e.taken) = F!Records(r.taken)
    BY <1>11, <1>12
  <2> HIDE DEF N, Next1, g
  <2>4. F!Records(e.kept) + F!Records(e.taken) = k + 1 + s[k + 1]
    <3>1. F!Records(r.kept) + F!Records(r.taken) = k + s[k]  BY <1>7
    <3>2. k \in Nat  BY <1>2
    <3> DEFINE a == F!Records(r.kept)
               b == F!Records(r.taken)
               c == Len(g.batches)
               t == s[k]
               u == s[k + 1]
               x == F!Records(e.kept)
               y == F!Records(e.taken)
    <3>3. a \in Nat /\ b \in Nat /\ c \in Nat /\ t \in Nat  BY <1>9
    <3>4. u = t + c  BY <1>8
    <3>5. a + b = k + t  BY <3>1
    <3>6. x = a + 1 + c /\ y = b  BY <2>3
    <3> HIDE DEF a, b, c, t, u, x, y
    <3>7. x + y = k + 1 + u  BY <3>2, <3>3, <3>4, <3>5, <3>6
    <3> QED  BY <3>7 DEF x, y, u
  <2>5. ListBlocks(e.kept) \cup ListBlocks(e.taken) = Before(l, k + 1)
        /\ ListBlocks(e.kept) \cap ListBlocks(e.taken) = {}
    BY <1>5, <1>6, <1>7, <2>2
  <2> QED  BY <2>1, <2>4, <2>5 DEF CollectInv, e, g
<1>13. CASE e.kept = r.kept /\ e.taken = N(r.taken)
  <2>1. Among(l, k + 1, e.kept) /\ Among(l, k + 1, e.taken)  BY <1>10, <1>11, <1>13
  <2>2. ListBlocks(e.taken) = ListBlocks(r.taken) \cup BlocksIn(g.batches)
        /\ ListBlocks(e.kept) = ListBlocks(r.kept)
    BY <1>11, <1>13
  <2>3. F!Records(e.taken) = F!Records(r.taken) + 1 + Len(g.batches) /\ F!Records(e.kept) = F!Records(r.kept)
    BY <1>11, <1>13
  <2> HIDE DEF N, Next1, g
  <2>4. F!Records(e.kept) + F!Records(e.taken) = k + 1 + s[k + 1]
    <3>1. F!Records(r.kept) + F!Records(r.taken) = k + s[k]  BY <1>7
    <3>2. k \in Nat  BY <1>2
    <3> DEFINE a == F!Records(r.kept)
               b == F!Records(r.taken)
               c == Len(g.batches)
               t == s[k]
               u == s[k + 1]
               x == F!Records(e.kept)
               y == F!Records(e.taken)
    <3>3. a \in Nat /\ b \in Nat /\ c \in Nat /\ t \in Nat  BY <1>9
    <3>4. u = t + c  BY <1>8
    <3>5. a + b = k + t  BY <3>1
    <3>6. x = a /\ y = b + 1 + c  BY <2>3
    <3> HIDE DEF a, b, c, t, u, x, y
    <3>7. x + y = k + 1 + u  BY <3>2, <3>3, <3>4, <3>5, <3>6
    <3> QED  BY <3>7 DEF x, y, u
  <2>5. ListBlocks(e.kept) \cup ListBlocks(e.taken) = Before(l, k + 1)
        /\ ListBlocks(e.kept) \cap ListBlocks(e.taken) = {}
    BY <1>5, <1>6, <1>7, <2>2
  <2> QED  BY <2>1, <2>4, <2>5 DEF CollectInv, e, g
<1> QED  BY <1>4, <1>12, <1>13 DEF e

\* collectGroupsToRelease() splits the list in two and drops no group.
LEMMA Collects ==
  ASSUME NEW l, GoodList(l)
  PROVE  LET c == F!collectGroupsToRelease(l) IN
         /\ GoodList(c.kept) /\ GoodList(c.taken)
         /\ ListBlocks(c.kept) \cup ListBlocks(c.taken) = ListBlocks(l)
         /\ ListBlocks(c.kept) \cap ListBlocks(c.taken) = {}
         /\ F!Records(c.kept) + F!Records(c.taken) = F!Records(l)
<1>1. l \in Seq(GroupT)  BY DEF GoodList
<1>2. PICK h : Collected(l, h)  BY <1>1, CollectedGroups
<1>3. PICK s : Summed(l, s)  BY <1>1, RecordsSummed
<1> DEFINE n == Len(l)
           U == {k \in Nat : k =< n => CollectInv(l, s, k, h[k])}
<1>4. n \in Nat /\ DOMAIN l = 1 .. n  BY <1>1
<1>5. /\ h \in [0 .. n -> CollectW] /\ h[0] = [kept |-> <<>>, taken |-> <<>>]
      /\ \A k \in 0 .. n - 1 : h[k + 1] = F!Examine(h[k], l[k + 1])
      /\ F!collectGroupsToRelease(l) = h[n]
  BY <1>2 DEF Collected
<1>6. s[0] = 0 /\ F!Records(l) = n + s[n]  BY <1>3 DEF Summed
<1>7. 0 \in U
  <2>1. h[0].kept = <<>> /\ h[0].taken = <<>>  BY <1>5
  <2>2. GoodList(<<>>) /\ ListBlocks(<<>>) = {} /\ F!Records(<<>>) = 0  BY EmptyList
  <2>3. Among(l, 0, <<>>)  BY <2>2 DEF Among
  <2>4. Before(l, 0) = {}  BY BeforeIs
  <2>5. F!Records(<<>>) + F!Records(<<>>) = 0 + s[0]  BY <1>6, <2>2
  <2>6. CollectInv(l, s, 0, h[0])  BY <2>1, <2>2, <2>3, <2>4, <2>5 DEF CollectInv
  <2> QED  BY <2>6
<1>8. ASSUME NEW k \in Nat, k \in U PROVE k + 1 \in U
  <2> SUFFICES ASSUME k + 1 =< n PROVE CollectInv(l, s, k + 1, h[k + 1])  OBVIOUS
  <2>1. k \in 0 .. n - 1 /\ k =< n /\ k \in 0 .. n  BY <1>4
  <2>2. CollectInv(l, s, k, h[k])  BY <1>8, <2>1
  <2>3. h[k] \in CollectW  BY <1>5, <2>1
  <2>4. CollectInv(l, s, k + 1, F!Examine(h[k], l[k + 1]))  BY <1>3, <2>1, <2>2, <2>3, CollectStep
  <2> QED  BY <1>5, <2>1, <2>4
<1>9. CollectInv(l, s, n, h[n])
  <2>1. Nat \subseteq U
    <3> HIDE DEF U
    <3> QED  BY <1>7, <1>8, Induction
  <2>2. n =< n  BY <1>4
  <2> HIDE DEF n
  <2> QED  BY <1>4, <2>1, <2>2
<1>10. Before(l, n) = ListBlocks(l)  BY <1>4, BeforeIs
<1> HIDE DEF n
<1> QED  BY <1>5, <1>6, <1>9, <1>10 DEF CollectInv, Among

\* The batches of two groups in one, in all but unused of their records and the one of
\* the second group.
MergedInto(x, y, r, unused) ==
  /\ Shape(r) /\ BlocksIn(r) = BlocksIn(x) \cup BlocksIn(y) /\ Count(r) = Count(x) + Count(y)
  /\ unused \in Nat /\ Len(r) + unused = Len(x) + Len(y) + 1
  /\ Len(x[1]) >= 1 /\ Len(y[1]) >= 1 => Len(r[1]) >= 1

LEMMA TimesM ==
  ASSUME NEW a \in Nat, NEW b \in Nat
  PROVE  /\ a * MaxNumBlocksInBatch \in Nat
         /\ (a + b) * MaxNumBlocksInBatch = a * MaxNumBlocksInBatch + b * MaxNumBlocksInBatch
         /\ (a + 1 + b) * MaxNumBlocksInBatch
              = a * MaxNumBlocksInBatch + MaxNumBlocksInBatch + b * MaxNumBlocksInBatch
<1>1. MaxNumBlocksInBatch \in Nat  BY Cap
<1> QED  BY <1>1

\* The group that was out has a full front batch: its batches go to the end.
LEMMA MergesFull ==
  ASSUME NEW x, NEW y, Shape(x), Shape(y), Len(y[1]) = MaxNumBlocksInBatch
  PROVE  MergedInto(x, y, x \o y, 1)
<1> DEFINE M == MaxNumBlocksInBatch
           h == x[1]
           t == Tail(x)
           f == y[1]
           u == Tail(y)
           w == <<f>> \o u
           e == t \o w
           z == <<h>> \o e
<1>1. /\ x = <<h>> \o t /\ h \in Seq(Nat) /\ Len(h) \in 0 .. M /\ Full(t) /\ Len(t) = Len(x) - 1
      /\ Len(x) \in Nat \ {0} /\ BlocksIn(x) = Elements(h) \cup BlocksIn(t)
      /\ Count(x) = Len(t) * M + Len(h)
  BY ShapeSplit
<1>2. /\ y = w /\ f \in Seq(Nat) /\ Full(u) /\ Len(u) = Len(y) - 1
      /\ Len(y) \in Nat \ {0} /\ BlocksIn(y) = Elements(f) \cup BlocksIn(u)
      /\ Count(y) = Len(u) * M + Len(f)
  BY ShapeSplit
<1> HIDE DEF h, t, f, u
<1>3. Full(<<f>>) /\ Len(<<f>>) = 1 /\ BlocksIn(<<f>>) = Elements(f)
  <2>1. Len(f) = MaxNumBlocksInBatch  BY DEF f
  <2> QED  BY <1>2, <2>1, FullOne
<1>4. Full(w) /\ Len(w) = 1 + Len(u) /\ BlocksIn(w) = Elements(f) \cup BlocksIn(u)
  BY <1>2, <1>3, FullConcat
<1>5. Full(e) /\ Len(e) = Len(t) + Len(w) /\ BlocksIn(e) = BlocksIn(t) \cup BlocksIn(w)
  <2> HIDE DEF w
  <2> QED  BY <1>1, <1>4, FullConcat
<1>6. /\ Shape(z) /\ z[1] = h /\ Len(z) = Len(e) + 1
      /\ BlocksIn(z) = Elements(h) \cup BlocksIn(e) /\ Count(z) = Len(e) * M + Len(h)
  <2>1. Len(h) =< MaxNumBlocksInBatch  BY <1>1, Cap
  <2> HIDE DEF e
  <2> QED  BY <1>1, <1>5, <2>1, ShapeJoin
<1>7. x \o y = z
  <2>1. <<h>> \in Seq(Seq(Nat)) /\ t \in Seq(Seq(Nat)) /\ w \in Seq(Seq(Nat))  BY <1>1, <1>4 DEF Full
  <2> HIDE DEF w
  <2>2. (<<h>> \o t) \o w = <<h>> \o (t \o w)  BY <2>1
  <2> QED  BY <1>1, <1>2, <2>2
<1>8. Len(f) = M  BY DEF f
<1> HIDE DEF w, e, z, M
<1>9. Count(z) = Count(x) + Count(y)
  <2>1. Len(t) \in Nat /\ Len(u) \in Nat /\ Len(h) \in Nat /\ M \in Nat  BY <1>1, <1>2, Cap DEF M
  <2>2. Len(e) = Len(t) + 1 + Len(u)  BY <1>4, <1>5, <2>1
  <2>3. /\ (Len(t) + 1 + Len(u)) * M = Len(t) * M + M + Len(u) * M
        /\ Len(t) * M \in Nat /\ Len(u) * M \in Nat
    BY <2>1, TimesM DEF M
  <2>4. Count(z) = (Len(t) + 1 + Len(u)) * M + Len(h)  BY <1>6, <2>2
  <2>5. Count(x) = Len(t) * M + Len(h) /\ Count(y) = Len(u) * M + M  BY <1>1, <1>2, <1>8
  <2> QED  BY <2>1, <2>3, <2>4, <2>5
<1>10. Len(z) + 1 = Len(x) + Len(y) + 1  BY <1>1, <1>2, <1>4, <1>5, <1>6
<1>11. BlocksIn(z) = BlocksIn(x) \cup BlocksIn(y)  BY <1>1, <1>2, <1>4, <1>5, <1>6
<1>12. z[1] = x[1]  BY <1>6 DEF h
<1> QED  BY <1>6, <1>7, <1>9, <1>10, <1>11, <1>12 DEF MergedInto

\* The tail of both groups behind the front batch of the first.
LEMMA TailOfBoth ==
  ASSUME NEW x, NEW y, Shape(x), Shape(y)
  PROVE  LET e == Tail(x \o Tail(y)) IN
         /\ e = Tail(x) \o Tail(y) /\ Full(e) /\ Len(e) = Len(x) - 1 + Len(y) - 1
         /\ BlocksIn(e) = BlocksIn(Tail(x)) \cup BlocksIn(Tail(y))
<1> DEFINE h == x[1]
           t == Tail(x)
           u == Tail(y)
<1>1. x = <<h>> \o t /\ h \in Seq(Nat) /\ Full(t) /\ Len(t) = Len(x) - 1 /\ Len(x) \in Nat \ {0}
  BY ShapeSplit
<1>2. Full(u) /\ Len(u) = Len(y) - 1 /\ Len(y) \in Nat \ {0}  BY ShapeSplit
<1> HIDE DEF h, t, u
<1>3. Full(t \o u) /\ Len(t \o u) = Len(t) + Len(u) /\ BlocksIn(t \o u) = BlocksIn(t) \cup BlocksIn(u)
  BY <1>1, <1>2, FullConcat
<1>4. x \o u = <<h>> \o (t \o u)
  <2>1. <<h>> \in Seq(Seq(Nat)) /\ t \in Seq(Seq(Nat)) /\ u \in Seq(Seq(Nat))  BY <1>1, <1>2 DEF Full
  <2>2. (<<h>> \o t) \o u = <<h>> \o (t \o u)  BY <2>1
  <2> QED  BY <1>1, <2>2
<1>5. Tail(<<h>> \o (t \o u)) = t \o u
  <2>1. h \in Seq(Nat) /\ t \o u \in Seq(Seq(Nat))  BY <1>1, <1>3 DEF Full
  <2> DEFINE e == t \o u
  <2> HIDE DEF e
  <2>2. e \in Seq(Seq(Nat))  BY <2>1 DEF e
  <2>3. Tail(<<h>> \o e) = e  BY <2>1, <2>2
  <2> QED  BY <2>3 DEF e
<1>6. Tail(x \o u) = t \o u  BY <1>4, <1>5
<1>7. Len(t \o u) = Len(x) - 1 + Len(y) - 1  BY <1>1, <1>2, <1>3
<1> QED  BY <1>3, <1>6, <1>7 DEF t, u

\* The front batches fit in one.
LEMMA MergesAll ==
  ASSUME NEW x, NEW y, Shape(x), Shape(y), Len(x[1]) + Len(y[1]) =< MaxNumBlocksInBatch
  PROVE  MergedInto(x, y, <<x[1] \o y[1]>> \o Tail(x \o Tail(y)), 2)
<1> DEFINE M == MaxNumBlocksInBatch
           h == x[1]
           t == Tail(x)
           f == y[1]
           u == Tail(y)
           w == h \o f
           e == Tail(x \o Tail(y))
           z == <<w>> \o e
<1>1. /\ h \in Seq(Nat) /\ Len(x) \in Nat \ {0} /\ Len(t) = Len(x) - 1
      /\ BlocksIn(x) = Elements(h) \cup BlocksIn(t) /\ Count(x) = Len(t) * M + Len(h)
  BY ShapeSplit
<1>2. /\ f \in Seq(Nat) /\ Len(y) \in Nat \ {0} /\ Len(u) = Len(y) - 1
      /\ BlocksIn(y) = Elements(f) \cup BlocksIn(u) /\ Count(y) = Len(u) * M + Len(f)
  BY ShapeSplit
<1>3. Full(e) /\ Len(e) = Len(x) - 1 + Len(y) - 1 /\ BlocksIn(e) = BlocksIn(t) \cup BlocksIn(u)
  BY TailOfBoth
<1>0. Len(h) + Len(f) =< M  OBVIOUS
<1> HIDE DEF h, t, f, u, e
<1>4. w \in Seq(Nat) /\ Len(w) = Len(h) + Len(f) /\ Elements(w) = Elements(h) \cup Elements(f)
  BY <1>1, <1>2, ElementsConcat
<1>5. /\ Shape(z) /\ z[1] = w /\ Len(z) = Len(e) + 1
      /\ BlocksIn(z) = Elements(w) \cup BlocksIn(e) /\ Count(z) = Len(e) * M + Len(w)
  <2>1. Len(w) =< MaxNumBlocksInBatch  BY <1>0, <1>4
  <2> HIDE DEF w
  <2> QED  BY <1>3, <1>4, <2>1, ShapeJoin
<1> HIDE DEF w, z, M
<1>6. Count(z) = Count(x) + Count(y)
  <2>1. Len(t) \in Nat /\ Len(u) \in Nat /\ Len(h) \in Nat /\ Len(f) \in Nat  BY <1>1, <1>2
  <2>2. Len(e) = Len(t) + Len(u)  BY <1>1, <1>2, <1>3
  <2>3. (Len(t) + Len(u)) * M = Len(t) * M + Len(u) * M /\ Len(t) * M \in Nat /\ Len(u) * M \in Nat
    BY <2>1, TimesM DEF M
  <2>4. Count(z) = (Len(t) + Len(u)) * M + Len(h) + Len(f)
    <3>1. Count(z) = (Len(t) + Len(u)) * M + Len(w)  BY <1>5, <2>2
    <3>2. (Len(t) + Len(u)) * M \in Nat  BY <2>3
    <3> QED  BY <1>4, <2>1, <3>1, <3>2
  <2>5. Count(x) = Len(t) * M + Len(h) /\ Count(y) = Len(u) * M + Len(f)  BY <1>1, <1>2
  <2> QED  BY <2>1, <2>3, <2>4, <2>5
<1>7. Len(z) + 2 = Len(x) + Len(y) + 1  BY <1>1, <1>2, <1>3, <1>5
<1>8. BlocksIn(z) = BlocksIn(x) \cup BlocksIn(y)  BY <1>1, <1>2, <1>3, <1>4, <1>5
<1>9. Len(h) >= 1 => Len(z[1]) >= 1
  <2>1. Len(h) \in Nat /\ Len(f) \in Nat  BY <1>1, <1>2
  <2> QED  BY <1>4, <1>5, <2>1
<1>10. MergedInto(x, y, z, 2)  BY <1>5, <1>6, <1>7, <1>8, <1>9 DEF MergedInto, h
<1> QED  BY <1>10 DEF z, w, e, h, f

\* They do not: the first is filled up, and what is left of the second stays in front.
LEMMA MergesPart ==
  ASSUME NEW x, NEW y, Shape(x), Shape(y), NEW k \in 1 .. Len(y[1]),
         Len(x[1]) + Len(y[1]) - k = MaxNumBlocksInBatch
  PROVE  MergedInto(x, y, <<SubSeq(y[1], 1, k)>>
           \o (<<x[1] \o SubSeq(y[1], k + 1, Len(y[1]))>> \o Tail(x \o Tail(y))), 1)
<1> DEFINE M == MaxNumBlocksInBatch
           h == x[1]
           t == Tail(x)
           f == y[1]
           u == Tail(y)
           p == SubSeq(f, 1, k)
           q == SubSeq(f, k + 1, Len(f))
           w == h \o q
           e == Tail(x \o Tail(y))
           z == <<w>> \o e
           r == <<p>> \o z
<1>1. /\ h \in Seq(Nat) /\ Len(x) \in Nat \ {0} /\ Len(t) = Len(x) - 1
      /\ BlocksIn(x) = Elements(h) \cup BlocksIn(t) /\ Count(x) = Len(t) * M + Len(h)
  BY ShapeSplit
<1>2. /\ f \in Seq(Nat) /\ Len(y) \in Nat \ {0} /\ Len(u) = Len(y) - 1 /\ Len(f) \in 0 .. M
      /\ BlocksIn(y) = Elements(f) \cup BlocksIn(u) /\ Count(y) = Len(u) * M + Len(f)
  BY ShapeSplit
<1>3. Full(e) /\ Len(e) = Len(x) - 1 + Len(y) - 1 /\ BlocksIn(e) = BlocksIn(t) \cup BlocksIn(u)
  BY TailOfBoth
<1>0. k \in 1 .. Len(f) /\ Len(h) + Len(f) - k = M /\ M \in Nat \ {0}  BY Cap
<1> HIDE DEF h, t, f, u, e, M
<1>4. /\ p \in Seq(Nat) /\ Len(p) = k /\ q \in Seq(Nat) /\ Len(q) = Len(f) - k
      /\ Elements(f) = Elements(p) \cup Elements(q)
  <2>1. k \in 0 .. Len(f)  BY <1>0
  <2>2. f \in Seq(Nat)  BY <1>2
  <2> QED  BY ONLY <2>1, <2>2, SubSeqOf DEF p, q
<1> HIDE DEF p, q
<1>5. w \in Seq(Nat) /\ Len(w) = M /\ Elements(w) = Elements(h) \cup Elements(q)
  <2>1. Len(w) = Len(h) + Len(q)
    <3>1. h \in Seq(Nat) /\ q \in Seq(Nat)  BY <1>1, <1>4
    <3> QED  BY ONLY <3>1, ConcatProperties DEF w
  <2>2. Len(h) \in Nat /\ Len(f) \in Nat  BY <1>1, <1>2
  <2>3. Len(w) = M  BY <1>0, <1>4, <2>1, <2>2
  <2> QED  BY <1>1, <1>4, <2>3, ElementsConcat
<1> HIDE DEF w
<1>6. Full(<<w>>) /\ Len(<<w>>) = 1 /\ BlocksIn(<<w>>) = Elements(w)
  <2>1. Len(w) = MaxNumBlocksInBatch  BY <1>5 DEF M
  <2> QED  BY <1>5, <2>1, FullOne
<1>7. Full(z) /\ Len(z) = 1 + Len(e) /\ BlocksIn(z) = Elements(w) \cup BlocksIn(e)
  BY <1>3, <1>6, FullConcat
<1> HIDE DEF z
<1>8. /\ Shape(r) /\ r[1] = p /\ Len(r) = Len(z) + 1
      /\ BlocksIn(r) = Elements(p) \cup BlocksIn(z) /\ Count(r) = Len(z) * M + Len(p)
  <2>1. Len(p) =< MaxNumBlocksInBatch
    <3>1. Len(f) \in Nat /\ Len(f) =< M  BY <1>0, <1>2
    <3> QED  BY <1>0, <1>4, <3>1 DEF M
  <2> QED  BY <1>4, <1>7, <2>1, ShapeJoin DEF M
<1> HIDE DEF r
<1>9. Count(r) = Count(x) + Count(y)
  <2>1. Len(t) \in Nat /\ Len(u) \in Nat /\ Len(h) \in Nat /\ Len(f) \in Nat /\ M \in Nat /\ k \in Nat
    BY <1>0, <1>1, <1>2, SMTT(30), ZenonT(20)
  <2>2. Len(z) = Len(t) + 1 + Len(u)  BY <1>1, <1>2, <1>3, <1>7
  <2>3. /\ (Len(t) + 1 + Len(u)) * M = Len(t) * M + M + Len(u) * M
        /\ Len(t) * M \in Nat /\ Len(u) * M \in Nat
    BY <2>1, TimesM DEF M
  <2>4. Count(r) = (Len(t) + 1 + Len(u)) * M + k  BY <1>4, <1>8, <2>2
  <2>5. Count(x) = Len(t) * M + Len(h) /\ Count(y) = Len(u) * M + Len(f)  BY <1>1, <1>2
  <2>6. Len(h) + Len(f) - k = M  BY <1>0
  <2>7. Count(r) = Len(t) * M + M + Len(u) * M + k  BY <2>3, <2>4
  <2>8. M + k = Len(h) + Len(f)  BY <2>1, <2>6
  <2> DEFINE c == Len(t) * M
             d == Len(u) * M
  <2>9. c \in Nat /\ d \in Nat  BY <2>3
  <2>10. Count(r) = c + M + d + k /\ Count(x) = c + Len(h) /\ Count(y) = d + Len(f)  BY <2>5, <2>7
  <2> HIDE DEF c, d
  <2> QED  BY <2>1, <2>8, <2>9, <2>10
<1>10. Len(r) + 1 = Len(x) + Len(y) + 1  BY <1>1, <1>2, <1>3, <1>7, <1>8
<1>11. BlocksIn(r) = BlocksIn(x) \cup BlocksIn(y)  BY <1>1, <1>2, <1>3, <1>4, <1>5, <1>7, <1>8
<1>12. Len(r[1]) >= 1  BY <1>0, <1>4, <1>8
<1>13. MergedInto(x, y, r, 1)  BY <1>8, <1>9, <1>10, <1>11, <1>12 DEF MergedInto
<1> QED  BY <1>13 DEF r, z, w, p, q, e, h, f

\* MergeGroup() by the batches x and y of the two groups.
MergedBatches(x, y) ==
  LET into  == Head(x)
      front == Head(y)
      move  == F!Min({MaxNumBlocksInBatch - Len(into), Len(front)})
      left  == SubSeq(front, 1, Len(front) - move)
      moved == <<into \o SubSeq(front, Len(left) + 1, Len(front))>> \o Tail(x \o Tail(y))
  IN  IF Len(front) = MaxNumBlocksInBatch THEN x \o y ELSE IF left = <<>> THEN moved ELSE <<left>> \o moved

UnusedRecords(x, y) ==
  LET into  == Head(x)
      front == Head(y)
      move  == F!Min({MaxNumBlocksInBatch - Len(into), Len(front)})
      left  == SubSeq(front, 1, Len(front) - move)
  IN  IF Len(front) # MaxNumBlocksInBatch /\ left = <<>> THEN 2 ELSE 1

\* All cases of the merge of two lists of batches.
LEMMA MergesBatches ==
  ASSUME NEW x, NEW y, Shape(x), Shape(y)
  PROVE  MergedInto(x, y, MergedBatches(x, y), UnusedRecords(x, y))
<1> DEFINE M == MaxNumBlocksInBatch
           h == x[1]
           f == y[1]
           e == Tail(x \o Tail(y))
           move == F!Min({M - Len(h), Len(f)})
           k == Len(f) - move
           left == SubSeq(f, 1, k)
           moved == <<h \o SubSeq(f, Len(left) + 1, Len(f))>> \o e
           merged == IF Len(f) = M THEN x \o y ELSE IF left = <<>> THEN moved ELSE <<left>> \o moved
           unused == IF Len(f) # M /\ left = <<>> THEN 2 ELSE 1
<1>1. Head(x) = h /\ h \in Seq(Nat) /\ Len(h) \in 0 .. M  BY ShapeSplit
<1>2. Head(y) = f /\ f \in Seq(Nat) /\ Len(f) \in 0 .. M  BY ShapeSplit
<1>3. MergedBatches(x, y) = merged /\ UnusedRecords(x, y) = unused
  <2>1. Head(x) = h /\ Head(y) = f  BY <1>1, <1>2
  <2> HIDE DEF h, f
  <2> QED  BY <2>1, Zenon DEF MergedBatches, UnusedRecords
<1>4. M \in Nat \ {0} /\ Len(h) \in Nat /\ Len(f) \in Nat /\ Len(h) =< M /\ Len(f) =< M
  BY <1>1, <1>2, Cap
<1>5. move = IF M - Len(h) =< Len(f) THEN M - Len(h) ELSE Len(f)
  <2>1. M - Len(h) \in Int /\ Len(f) \in Int  BY <1>4
  <2> HIDE DEF h, f, M
  <2> QED  BY <2>1, MinPair
<1> HIDE DEF move, h, f, M
<1>6. /\ move \in 0 .. Len(f) /\ k \in 0 .. Len(f) /\ Len(h) + move =< M
      /\ k # 0 => Len(h) + Len(f) - k = M
  BY <1>4, <1>5
<1> HIDE DEF k
<1>7. left \in Seq(Nat) /\ Len(left) = k
  <2>1. k \in 0 .. Len(f) /\ f \in Seq(Nat)  BY <1>2, <1>6
  <2> QED  BY ONLY <2>1, SubSeqOf DEF left
<1> HIDE DEF left
<1>8. CASE Len(f) = M
  <2>1. merged = x \o y /\ unused = 1  BY <1>8
  <2>2. MergedInto(x, y, x \o y, 1)
    <3>1. Len(y[1]) = MaxNumBlocksInBatch  BY <1>8 DEF M, f
    <3> QED  BY <3>1, MergesFull
  <2> QED  BY <1>3, <2>1, <2>2
<1>9. CASE Len(f) # M /\ left = <<>>
  <2>1. merged = moved /\ unused = 2  BY <1>9
  <2>2. k = 0 /\ Len(left) = 0  BY <1>7, <1>9
  <2>3. Len(h) + Len(f) =< M
    <3>1. move = Len(f)  BY <1>4, <1>6, <2>2 DEF k
    <3> QED  BY <1>6, <3>1
  <2>4. SubSeq(f, Len(left) + 1, Len(f)) = f
    <3>1. f \in Seq(Nat) /\ Len(f) \in Nat  BY <1>2, <1>4
    <3>2. SubSeq(f, 1, Len(f)) = f  BY <3>1
    <3>3. Len(left) + 1 = 1  BY <2>2
    <3> QED  BY <3>2, <3>3
  <2>5. MergedInto(x, y, <<h \o f>> \o e, 2)
    <3>1. Len(x[1]) + Len(y[1]) =< MaxNumBlocksInBatch  BY <2>3 DEF h, f, M
    <3> QED  BY <3>1, MergesAll DEF h, f
  <2> QED  BY <1>3, <2>1, <2>4, <2>5
<1>10. CASE Len(f) # M /\ left # <<>>
  <2>1. merged = <<left>> \o moved /\ unused = 1  BY <1>10
  <2>2. k # 0
    <3>1. k = 0 => left = <<>>  BY <1>7
    <3> QED  BY <1>10, <3>1
  <2>3. k \in 1 .. Len(f) /\ Len(h) + Len(f) - k = M  BY <1>4, <1>6, <2>2
  <2>4. MergedInto(x, y, <<SubSeq(f, 1, k)>> \o (<<h \o SubSeq(f, k + 1, Len(f))>> \o e), 1)
    <3>1. k \in 1 .. Len(y[1]) /\ Len(x[1]) + Len(y[1]) - k = MaxNumBlocksInBatch  BY <2>3 DEF h, f, M
    <3> QED  BY <3>1, MergesPart DEF h, f
  <2>5. merged = <<SubSeq(f, 1, k)>> \o (<<h \o SubSeq(f, k + 1, Len(f))>> \o e)
    BY <1>7, <2>1 DEF left
  <2> QED  BY <1>3, <2>1, <2>4, <2>5
<1> QED  BY <1>8, <1>9, <1>10

\* The group that was out is merged into the one of its base.
LEMMA MergesGroup ==
  ASSUME NEW g \in GroupT, NEW c \in GroupT
  PROVE  LET m == F!MergeGroup(g, c) IN
         /\ m.group \in GroupT /\ m.group.base = g.base
         /\ MergedInto(g.batches, c.batches, m.group.batches, m.unused)
<1> DEFINE x == g.batches
           y == c.batches
           r == MergedBatches(x, y)
           u == UnusedRecords(x, y)
           a == c.BytesInBGAtLastCheckpoint
           m == F!MergeGroup(g, c)
<1>1. Shape(x) /\ Shape(y) /\ a \in Int  BY GroupFields
<1>2. MergedInto(x, y, r, u)
  <2> HIDE DEF x, y
  <2> QED  BY <1>1, MergesBatches
<1>3. m = [group |-> [g EXCEPT !.batches = r, !.BytesInBGAtLastCheckpoint = a], unused |-> u]
  BY Zenon DEF F!MergeGroup, MergedBatches, UnusedRecords
<1> HIDE DEF r, u, a, m
<1>4. r \in BatchesT  BY <1>2 DEF MergedInto, Shape, BatchesT
<1>5. /\ m.group \in GroupT /\ m.group.base = g.base /\ m.group.batches = r /\ m.unused = u
  BY <1>1, <1>3, <1>4 DEF GroupT
<1> QED  BY <1>2, <1>5 DEF m

MergeW == [list : Seq(GroupT), unused : Nat]

\* One group comes back: it is put, or merged into the one that is there.
LEMMA MergeBackIs ==
  ASSUME NEW r \in MergeW, NEW c \in GroupT
  PROVE  LET e   == F!MergeBack(r, c)
             old == F!GroupAt(r.list, c.base)
             m   == F!MergeGroup(old, c)
         IN  /\ F!HasGroup(r.list, c.base) =>
                  e.list = F!Put(r.list, m.group) /\ e.unused = r.unused + m.unused
             /\ ~F!HasGroup(r.list, c.base) => e.list = F!Put(r.list, c) /\ e.unused = r.unused
             /\ e \in MergeW
<1> DEFINE l == r.list
           e == F!MergeBack(r, c)
           old == F!GroupAt(l, c.base)
           m == F!MergeGroup(old, c)
           has == F!HasGroup(l, c.base)
           mm0 == IF has THEN m ELSE [group |-> c, unused |-> 0]
<1>1. l \in Seq(GroupT) /\ r.unused \in Nat /\ c.base \in Nat  BY GroupFields DEF MergeW
<1>2. e = [list |-> F!Put(l, mm0.group), unused |-> r.unused + mm0.unused]  BY Zenon DEF F!MergeBack
<1>3. has => m.group \in GroupT /\ m.unused \in Nat
  <2> SUFFICES ASSUME has PROVE m.group \in GroupT /\ m.unused \in Nat  OBVIOUS
  <2>1. old \in GroupT
    <3> HIDE DEF l
    <3> QED  BY <1>1, HasGood DEF l
  <2> HIDE DEF old
  <2> QED  BY <2>1, MergesGroup DEF MergedInto
<1> HIDE DEF has, m, l, e
<1>4. CASE has
  <2>1. mm0 = m  BY <1>4
  <2> HIDE DEF mm0
  <2>2. e.list = F!Put(l, m.group) /\ e.unused = r.unused + m.unused  BY <1>2, <2>1
  <2>3. F!Put(l, m.group) \in Seq(GroupT)  BY <1>1, <1>3, <1>4, PutType
  <2>4. r.unused + m.unused \in Nat  BY <1>1, <1>3, <1>4
  <2>5. e \in MergeW  BY <1>2, <2>1, <2>3, <2>4 DEF MergeW
  <2> QED  BY <1>4, <2>2, <2>5 DEF has, m, l, e
<1>5. CASE ~has
  <2>1. mm0 = [group |-> c, unused |-> 0]  BY <1>5
  <2>0. mm0.group = c /\ mm0.unused = 0  BY <2>1
  <2> HIDE DEF mm0
  <2>2. e.list = F!Put(l, c) /\ e.unused = r.unused  BY <1>1, <1>2, <2>0
  <2>3. F!Put(l, c) \in Seq(GroupT)  BY <1>1, PutType
  <2>4. e = [list |-> F!Put(l, c), unused |-> r.unused]  BY <1>1, <1>2, <2>0
  <2>5. e \in MergeW  BY <1>1, <2>3, <2>4 DEF MergeW
  <2> QED  BY <1>5, <2>2, <2>5 DEF has, m, l, e
<1> QED  BY <1>4, <1>5

LEMMA MergeBackType ==
  ASSUME NEW r \in MergeW, NEW c \in GroupT
  PROVE  F!MergeBack(r, c) \in MergeW
BY MergeBackIs

\* mergeGroupsToReleaseBack() of one group whose blocks the list does not have.
LEMMA MergesBack ==
  ASSUME NEW r \in MergeW, GoodList(r.list), NEW c, GoodGroup(c),
         BlocksIn(c.batches) \cap ListBlocks(r.list) = {}
  PROVE  LET e == F!MergeBack(r, c) IN
         /\ GoodList(e.list) /\ ListBlocks(e.list) = ListBlocks(r.list) \cup BlocksIn(c.batches)
         /\ F!Records(e.list) + e.unused = F!Records(r.list) + r.unused + 1 + Len(c.batches)
<1> DEFINE l == r.list
           e == F!MergeBack(r, c)
           old == F!GroupAt(l, c.base)
           m == F!MergeGroup(old, c)
           g == m.group
           has == F!HasGroup(l, c.base)
<1>1. c \in GroupT /\ l \in Seq(GroupT) /\ r.unused \in Nat  BY DEF GoodGroup, MergeW
<1>2. c.base \in Nat /\ Shape(c.batches)  BY <1>1, GroupFields
<1>3. /\ has => e.list = F!Put(l, g) /\ e.unused = r.unused + m.unused
      /\ ~has => e.list = F!Put(l, c) /\ e.unused = r.unused
  BY <1>1, MergeBackIs
<1>4. CASE has
  <2>1. old \in Elements(l) /\ old \in GroupT /\ old.base = c.base /\ BlocksIn(old.batches) \subseteq ListBlocks(l)
    BY <1>1, <1>2, <1>4, HasGood
  <2>2. GoodGroup(old)  BY <2>1 DEF GoodList
  <2>3. g \in GroupT /\ g.base = old.base /\ MergedInto(old.batches, c.batches, g.batches, m.unused)
    <3> HIDE DEF old
    <3> QED  BY <1>1, <2>1, MergesGroup
  <2> DEFINE x == old.batches
             y == c.batches
             z == g.batches
             n == m.unused
  <2> HIDE DEF old, g
  <2>4. /\ BlocksIn(z) = BlocksIn(x) \cup BlocksIn(y) /\ Count(z) = Count(x) + Count(y)
        /\ n \in Nat /\ Len(z) + n = Len(x) + Len(y) + 1
        /\ Len(x[1]) >= 1 /\ Len(y[1]) >= 1 => Len(z[1]) >= 1
    BY <2>3 DEF MergedInto
  <2>5. GoodGroup(g)
    <3>1. /\ IsFiniteSet(BlocksIn(x)) /\ Cardinality(BlocksIn(x)) = Count(x) /\ Len(x[1]) >= 1
          /\ IsFiniteSet(BlocksIn(y)) /\ Cardinality(BlocksIn(y)) = Count(y) /\ Len(y[1]) >= 1
      BY <2>2 DEF GoodGroup
    <3>2. BlocksIn(x) \cap BlocksIn(y) = {}  BY <2>1
    <3>3. /\ IsFiniteSet(BlocksIn(x) \cup BlocksIn(y))
          /\ Cardinality(BlocksIn(x) \cup BlocksIn(y)) = Cardinality(BlocksIn(x)) + Cardinality(BlocksIn(y))
      <4>1. Cardinality({}) = 0 /\ Cardinality(BlocksIn(x)) \in Nat /\ Cardinality(BlocksIn(y)) \in Nat
        BY <3>1, FS_EmptySet, FS_CardinalityType
      <4>2. /\ IsFiniteSet(BlocksIn(x) \cup BlocksIn(y))
            /\ Cardinality(BlocksIn(x) \cup BlocksIn(y))
                 = Cardinality(BlocksIn(x)) + Cardinality(BlocksIn(y)) - Cardinality(BlocksIn(x) \cap BlocksIn(y))
        BY <3>1, FS_Union
      <4>3. Cardinality(BlocksIn(x) \cap BlocksIn(y)) = 0  BY <3>2, <4>1
      <4> QED  BY <4>1, <4>2, <4>3
    <3>4. \A b \in BlocksIn(z) : F!compactPtrGroup(b) = g.base
      <4>1. \A b \in BlocksIn(x) : F!compactPtrGroup(b) = g.base  BY <2>2, <2>3 DEF GoodGroup
      <4>2. \A b \in BlocksIn(y) : F!compactPtrGroup(b) = g.base  BY <2>1, <2>3 DEF GoodGroup
      <4> QED  BY <2>4, <4>1, <4>2
    <3>5. IsFiniteSet(BlocksIn(z)) /\ Cardinality(BlocksIn(z)) = Count(z)  BY <2>4, <3>1, <3>3
    <3> QED  BY <2>3, <2>4, <3>1, <3>4, <3>5 DEF GoodGroup
  <2>6. /\ GoodList(F!Put(l, g)) /\ ListBlocks(F!Put(l, g)) = ListBlocks(l) \cup BlocksIn(z)
        /\ F!Records(F!Put(l, g)) = F!Records(l) - Len(x) + Len(z)
    <3>1. F!HasGroup(l, g.base) /\ F!GroupAt(l, g.base) = old  BY <1>4, <2>1, <2>3 DEF old
    <3>2. BlocksIn(old.batches) \subseteq BlocksIn(g.batches)  BY <2>4
    <3> HIDE DEF l
    <3> QED  BY <2>5, <3>1, <3>2, PutsGood DEF l
  <2>7. GoodList(e.list) /\ ListBlocks(e.list) = ListBlocks(l) \cup BlocksIn(y)
    <3>1. e.list = F!Put(l, g)  BY <1>3, <1>4
    <3> QED  BY <2>1, <2>4, <2>6, <3>1
  <2>8. F!Records(e.list) + e.unused = F!Records(l) + r.unused + 1 + Len(y)
    <3> DEFINE R0 == F!Records(l)
               R1 == F!Records(e.list)
               a == Len(x)
               b == Len(y)
               d == Len(z)
               u == e.unused
               v == r.unused
    <3>1. R0 \in Nat /\ a \in Nat /\ b \in Nat /\ d \in Nat
      BY <1>1, <2>1, <2>3, RecordsType, RecordsOne
    <3>2. R1 = R0 - a + d /\ u = v + n  BY <1>3, <1>4, <2>6
    <3>3. d + n = a + b + 1 /\ n \in Nat /\ v \in Nat  BY <1>1, <2>4
    <3> HIDE DEF R0, R1, a, b, d, u, v, n
    <3>4. R1 + u = R0 + v + 1 + b  BY <3>1, <3>2, <3>3
    <3> QED  BY <3>4 DEF R0, R1, u, v, b
  <2> QED  BY <2>7, <2>8
<1>5. CASE ~has
  <2>1. /\ GoodList(F!Put(l, c)) /\ ListBlocks(F!Put(l, c)) = ListBlocks(l) \cup BlocksIn(c.batches)
        /\ F!Records(F!Put(l, c)) = F!Records(l) + 1 + Len(c.batches)
    <3> HIDE DEF l
    <3> QED  BY <1>5, PutsGood DEF l
  <2>2. F!Records(l) \in Nat /\ Len(c.batches) \in Nat  BY <1>1, RecordsType, RecordsOne
  <2>3. e.list = F!Put(l, c) /\ e.unused = r.unused  BY <1>3, <1>5
  <2>4. F!Records(e.list) + e.unused = F!Records(l) + r.unused + 1 + Len(c.batches)
    <3>1. F!Records(e.list) = F!Records(l) + 1 + Len(c.batches)  BY <2>1, <2>3
    <3> QED  BY <1>1, <2>2, <2>3, <3>1, SMTT(30), ZenonT(20)
  <2> QED  BY <2>1, <2>3, <2>4
<1> QED  BY <1>4, <1>5

\* mergeGroupsToReleaseBack() merges the groups one by one, with the results h[k] after
\* k of them.
Merged(l, back, h) ==
  /\ h \in [0 .. Len(back) -> MergeW] /\ h[0] = [list |-> l, unused |-> 0]
  /\ \A k \in 0 .. Len(back) - 1 : h[k + 1] = F!MergeBack(h[k], back[k + 1])
  /\ F!mergeGroupsToReleaseBack(l, back) = h[Len(back)]

\* mergeGroupsToReleaseBack() as a sequence of results, one per group.
LEMMA MergedGroups ==
  ASSUME NEW l \in Seq(GroupT), NEW back \in Seq(GroupT)
  PROVE  \E h : Merged(l, back, h)
<1> DEFINE W == MergeW
           n == Len(back)
           first == [list |-> l, unused |-> 0]
           Op(r, i) == F!MergeBack(r, back[i])
           At(g, s) == IF s = {} THEN first ELSE Op(g[s \ {F!Max(s)}], F!Max(s))
           Folded(g) == g = [s \in SUBSET (1 .. n) |-> At(g, s)]
           fold == CHOOSE g : Folded(g)
<1>01. n \in Nat /\ DOMAIN back = 1 .. n /\ \A i \in 1 .. n : back[i] \in GroupT  OBVIOUS
<1>02. F!mergeGroupsToReleaseBack(l, back) = fold[1 .. n]
  <2>1. F!mergeGroupsToReleaseBack(l, back) =
          (CHOOSE g : g = [s \in SUBSET (DOMAIN back) |->
             IF s = {} THEN first ELSE F!MergeBack(g[s \ {F!Max(s)}], back[F!Max(s)])])[DOMAIN back]
    BY Zenon DEF F!mergeGroupsToReleaseBack, F!FoldLeft, F!MapThenFoldSet
  <2> QED  BY <1>01, <2>1, Zenon
<1>04. first \in W  BY DEF MergeW
<1> HIDE DEF n, first
<1>03. ASSUME NEW r \in W, NEW i \in 1 .. n PROVE Op(r, i) \in W
  BY <1>01, MergeBackType
<1>1. PICK Fn : Fn = [p \in W \X (1 .. n) |-> Op(p[1], p[2])]  OBVIOUS
<1>2. Fn \in [W \X (1 .. n) -> W]
  <2> HIDE DEF Op, W
  <2> QED  BY <1>03, <1>1
<1> HIDE DEF Op, W
<1>3. Folded(fold)
  <2>0. PICK g : FoldOf(n, W, first, Fn, g)  BY <1>01, <1>2, <1>04, FoldExists, Zenon
  <2>1. g \in [SUBSET (1 .. n) -> W] /\ \A s \in SUBSET (1 .. n) : g[s] = FoldAt(first, Fn, g, s)
    BY <2>0 DEF FoldOf
  <2>2. ASSUME NEW s \in SUBSET (1 .. n) PROVE g[s] = At(g, s)
    <3>1. CASE s = {}  BY <2>1, <3>1 DEF FoldAt
    <3>2. CASE s # {}
      <4>1. F!Max(s) \in 1 .. n /\ s \ {F!Max(s)} \in SUBSET (1 .. n)  BY <1>01, <3>2, MaxOfPlaces
      <4>2. g[s \ {F!Max(s)}] \in W  BY <2>1, <4>1
      <4>3. Fn[<<g[s \ {F!Max(s)}], F!Max(s)>>] = Op(g[s \ {F!Max(s)}], F!Max(s))
        BY <1>1, <4>1, <4>2
      <4> QED  BY <2>1, <3>2, <4>3, Zenon DEF FoldAt
    <3> QED  BY <3>1, <3>2
  <2>3. g = [s \in SUBSET (1 .. n) |-> g[s]]  BY <2>1
  <2>4. Folded(g)  BY <2>2, <2>3, Zenon
  <2> QED  BY <2>4, Zenon
<1> DEFINE h == [k \in 0 .. n |-> fold[1 .. k]]
<1> HIDE DEF fold
<1>5. h[0] = first
  <2>1. fold[{}] = first  BY <1>3
  <2>2. 0 \in 0 .. n /\ 1 .. 0 = {}  BY <1>01
  <2> QED  BY <2>1, <2>2
<1>6. ASSUME NEW k \in 0 .. n - 1 PROVE h[k + 1] = Op(h[k], k + 1)
  <2>1. k \in Nat /\ k \in 0 .. n /\ k + 1 \in 0 .. n /\ 1 .. k + 1 \in SUBSET (1 .. n) /\ 1 .. k + 1 # {}
    BY <1>01, FirstPlaces, Zenon
  <2>2. fold[1 .. k + 1] = At(fold, 1 .. k + 1)  BY <1>3, <2>1, Zenon
  <2>3. F!Max(1 .. k + 1) = k + 1 /\ (1 .. k + 1) \ {k + 1} = 1 .. k  BY <2>1, MaxOfRange
  <2>4. fold[1 .. k + 1] = Op(fold[1 .. k], k + 1)  BY <2>1, <2>2, <2>3, Zenon
  <2> QED  BY <2>1, <2>4
<1>7. \A k \in 0 .. n : h[k] \in W
  <2> HIDE DEF h
  <2>1. \A k \in 0 .. n - 1 : k + 1 \in 1 .. n  BY <1>01
  <2>2. \A k \in 0 .. n - 1 : h[k] \in W => h[k + 1] \in W
    <3> SUFFICES ASSUME NEW k \in 0 .. n - 1, h[k] \in W PROVE h[k + 1] \in W  OBVIOUS
    <3>1. Op(h[k], k + 1) \in W  BY <1>03, <2>1
    <3> QED  BY <1>6, <3>1
  <2>3. h[0] \in W /\ n \in Nat  BY <1>01, <1>04, <1>5
  <2> QED  BY <2>2, <2>3, FoldTyped
<1>8. F!mergeGroupsToReleaseBack(l, back) = h[n]
  <2>1. n \in 0 .. n  BY <1>01
  <2> QED  BY <1>02, <2>1
<1>9. h \in [0 .. n -> W]  BY <1>7
<1> HIDE DEF h
<1>10. \A k \in 0 .. n - 1 : h[k + 1] = F!MergeBack(h[k], back[k + 1])  BY <1>6 DEF Op
<1> QED  BY <1>5, <1>8, <1>9, <1>10 DEF Merged, n, W, first

\* mergeGroupsToReleaseBack() brings every block back, and the records that the list
\* does not need go to the batch class.
LEMMA Merges ==
  ASSUME NEW l, GoodList(l), NEW back, GoodList(back), ListBlocks(l) \cap ListBlocks(back) = {}
  PROVE  LET m == F!mergeGroupsToReleaseBack(l, back) IN
         /\ GoodList(m.list) /\ ListBlocks(m.list) = ListBlocks(l) \cup ListBlocks(back)
         /\ m.unused \in Nat /\ F!Records(m.list) + m.unused = F!Records(l) + F!Records(back)
<1>1. l \in Seq(GroupT) /\ back \in Seq(GroupT)  BY DEF GoodList
<1>2. PICK h : Merged(l, back, h)  BY <1>1, MergedGroups
<1>3. PICK s : Summed(back, s)  BY <1>1, RecordsSummed
<1> DEFINE n == Len(back)
           Q(k) == /\ GoodList(h[k].list) /\ ListBlocks(h[k].list) = ListBlocks(l) \cup Before(back, k)
                   /\ F!Records(h[k].list) + h[k].unused = F!Records(l) + k + s[k]
           U == {k \in Nat : k =< n => Q(k)}
<1>4. n \in Nat /\ DOMAIN back = 1 .. n  BY <1>1
<1>5. /\ h \in [0 .. n -> MergeW] /\ h[0] = [list |-> l, unused |-> 0]
      /\ \A k \in 0 .. n - 1 : h[k + 1] = F!MergeBack(h[k], back[k + 1])
      /\ F!mergeGroupsToReleaseBack(l, back) = h[n]
  BY <1>2 DEF Merged
<1>6. s[0] = 0 /\ F!Records(back) = n + s[n] /\ s \in [0 .. n -> Nat]
  BY <1>3 DEF Summed
<1>7. F!Records(l) \in Nat  BY <1>1, RecordsType
<1>8. 0 \in U
  <2>1. h[0].list = l /\ h[0].unused = 0  BY <1>5
  <2>2. Before(back, 0) = {}  BY BeforeIs
  <2>3. F!Records(h[0].list) + h[0].unused = F!Records(l) + 0 + s[0]  BY <1>6, <1>7, <2>1
  <2>4. Q(0)  BY <2>1, <2>2, <2>3
  <2> QED  BY <2>4
<1>9. ASSUME NEW k \in Nat, k \in U PROVE k + 1 \in U
  <2> SUFFICES ASSUME k + 1 =< n PROVE Q(k + 1)  OBVIOUS
  <2>1. k \in 0 .. n - 1 /\ k =< n /\ k \in 0 .. n /\ k + 1 \in DOMAIN back  BY <1>4
  <2> DEFINE c == back[k + 1]
             r == h[k]
             e == F!MergeBack(r, c)
  <2>2. Q(k)  BY <1>9, <2>1
  <2>3. r \in MergeW  BY <1>5, <2>1
  <2>4. GoodGroup(c) /\ c \in GroupT  BY <1>1, <2>1 DEF GoodList, Elements
  <2>5. Before(back, k) \cap BlocksIn(c.batches) = {}  BY <2>1, NextApart
  <2>6. BlocksIn(c.batches) \subseteq ListBlocks(back)  BY <2>1 DEF ListBlocks
  <2>7. BlocksIn(c.batches) \cap ListBlocks(r.list) = {}
    <3> QED  BY <2>2, <2>5, <2>6
  <2>8. /\ GoodList(e.list) /\ ListBlocks(e.list) = ListBlocks(r.list) \cup BlocksIn(c.batches)
        /\ F!Records(e.list) + e.unused = F!Records(r.list) + r.unused + 1 + Len(c.batches)
    <3>1. GoodList(r.list)  BY <2>2
    <3> HIDE DEF r, c
    <3> QED  BY <2>3, <2>4, <2>7, <3>1, MergesBack
  <2>9. h[k + 1] = e  BY <1>5, <2>1
  <2>10. Before(back, k + 1) = Before(back, k) \cup BlocksIn(c.batches)  BY BeforeIs
  <2>11. s[k + 1] = s[k] + Len(c.batches)  BY <1>3, <2>1 DEF Summed
  <2>12. s[k] \in Nat /\ Len(c.batches) \in Nat  BY <1>6, <2>1, <2>4, RecordsOne
  <2>13. r.unused \in Nat /\ F!Records(r.list) \in Nat  BY <2>3, RecordsType DEF MergeW
  <2>14. F!Records(e.list) + e.unused = F!Records(l) + (k + 1) + s[k + 1]
    <3>1. F!Records(r.list) + r.unused = F!Records(l) + k + s[k]  BY <2>2
    <3>2. F!Records(e.list) + e.unused = F!Records(r.list) + r.unused + 1 + Len(c.batches)  BY <2>8
    <3> DEFINE x == F!Records(e.list) + e.unused
               y == F!Records(r.list) + r.unused
               z == Len(c.batches)
               w == F!Records(l)
               t == s[k]
    <3>3. y \in Nat /\ z \in Nat /\ w \in Nat /\ t \in Nat  BY <1>7, <2>12, <2>13
    <3>4. x = y + 1 + z /\ y = w + k + t  BY <3>1, <3>2
    <3>5. s[k + 1] = t + z  BY <2>11
    <3> HIDE DEF x, y, z, w, t
    <3>6. x = w + (k + 1) + s[k + 1]  BY <3>3, <3>4, <3>5
    <3> QED  BY <3>6 DEF x, w
  <2>15. GoodList(h[k + 1].list) /\ ListBlocks(h[k + 1].list) = ListBlocks(l) \cup Before(back, k + 1)
    <3> HIDE DEF c, e
    <3> QED  BY <2>2, <2>8, <2>9, <2>10
  <2> QED  BY <2>9, <2>14, <2>15
<1>10. Q(n)
  <2>1. Nat \subseteq U
    <3> HIDE DEF U
    <3> QED  BY <1>8, <1>9, Induction
  <2>2. n =< n  BY <1>4
  <2> HIDE DEF Q
  <2> QED  BY <1>4, <2>1, <2>2
<1>11. Before(back, n) = ListBlocks(back)  BY <1>4, BeforeIs
<1>12. h[n].unused \in Nat
  <2>1. h[n] \in MergeW  BY <1>4, <1>5
  <2> QED  BY <2>1 DEF MergeW
<1>13. F!Records(l) + n + s[n] = F!Records(l) + F!Records(back)
  <2>1. s[n] \in Nat  BY <1>4, <1>6
  <2> QED  BY <1>4, <1>6, <1>7, <2>1
<1> QED  BY <1>5, <1>10, <1>11, <1>12, <1>13

\* What holds of the freelist of a region: the groups keep their form, and each block
\* of the region is in the freelist, in a group that a release looks at, or held.
FreeListOk ==
  /\ GoodList(list) /\ GoodList(releasing)
  /\ ListBlocks(list) \cap ListBlocks(releasing) = {}
  /\ held \cap (ListBlocks(list) \cup ListBlocks(releasing)) = {}
  /\ ListBlocks(list) \cup ListBlocks(releasing) \cup held = 0 .. allocated - 1
  /\ allocated \in 0 .. NumBlocks
  /\ inUse = Cardinality(held)
  /\ records = F!Records(list) + F!Records(releasing)
  /\ mm = "populate" => allocated < NumBlocks
  /\ mm # "release" => releasing = <<>>

FreeBlocks == ListBlocks(list) \cup ListBlocks(releasing)

\* What BlockPool allows.
PoolPush ==
  \E S \in SUBSET held : S # {} /\ held' = held \ S /\ FreeBlocks' = FreeBlocks \cup S
PoolPop ==
  /\ held \subseteq held' /\ held # held' /\ FreeBlocks' \cap held' = {}
  /\ FreeBlocks \cup held \subseteq FreeBlocks' \cup held'
PoolKept == held' = held /\ FreeBlocks' = FreeBlocks

\* The sets of blocks are finite and the counts are numbers.
LEMMA HeldFinite ==
  ASSUME FreeListOk
  PROVE  /\ IsFiniteSet(held) /\ held \in SUBSET Nat /\ allocated \in Nat /\ NumBlocks \in Nat
         /\ Cardinality(held) \in Nat /\ F!Records(list) \in Nat /\ F!Records(releasing) \in Nat
<1>1. allocated \in Nat /\ NumBlocks \in Nat  BY FreeListAssumption DEF FreeListOk
<1>2. held \in SUBSET (0 .. allocated - 1)  BY DEF FreeListOk
<1>3. IsFiniteSet(0 .. allocated - 1)  BY <1>1, FS_Interval
<1>4. IsFiniteSet(held)  BY <1>2, <1>3, FS_Subset
<1>5. held \in SUBSET Nat  BY <1>2
<1>6. Cardinality(held) \in Nat  BY <1>4, FS_CardinalityType
<1>7. list \in Seq(GroupT) /\ releasing \in Seq(GroupT)  BY DEF FreeListOk, GoodList
<1> QED  BY <1>1, <1>4, <1>5, <1>6, <1>7, RecordsType

\* Sizes of disjoint sets add up.
LEMMA CardinalityOfUnion ==
  ASSUME NEW S, NEW T, IsFiniteSet(S), IsFiniteSet(T), S \cap T = {}
  PROVE  /\ IsFiniteSet(S \cup T) /\ Cardinality(S \cup T) = Cardinality(S) + Cardinality(T)
         /\ Cardinality(S) \in Nat /\ Cardinality(T) \in Nat
<1>1. Cardinality({}) = 0 /\ Cardinality(S) \in Nat /\ Cardinality(T) \in Nat
  BY FS_EmptySet, FS_CardinalityType
<1>2. /\ IsFiniteSet(S \cup T)
      /\ Cardinality(S \cup T) = Cardinality(S) + Cardinality(T) - Cardinality(S \cap T)
  BY FS_Union
<1>3. Cardinality(S \cap T) = 0  BY <1>1
<1> QED  BY <1>1, <1>2, <1>3

LEMMA CardinalityOfRest ==
  ASSUME NEW S, NEW T \in SUBSET S, IsFiniteSet(S)
  PROVE  /\ IsFiniteSet(S \ T) /\ IsFiniteSet(T) /\ Cardinality(S \ T) = Cardinality(S) - Cardinality(T)
         /\ Cardinality(S) \in Nat /\ Cardinality(T) \in Nat
<1>1. IsFiniteSet(S \ T) /\ IsFiniteSet(T)  BY FS_Subset
<1>2. (S \ T) \cap T = {} /\ (S \ T) \cup T = S  OBVIOUS
<1>3. /\ Cardinality((S \ T) \cup T) = Cardinality(S \ T) + Cardinality(T)
      /\ Cardinality(S \ T) \in Nat /\ Cardinality(T) \in Nat
  BY <1>1, <1>2, CardinalityOfUnion
<1>4. Cardinality(S) = Cardinality(S \ T) + Cardinality(T)  BY <1>2, <1>3
<1> QED  BY <1>1, <1>3, <1>4

\* At the start there is no block.
LEMMA FreeListInit == F!Init => FreeListOk /\ FreeBlocks = {} /\ held = {}
<1> SUFFICES ASSUME F!Init PROVE FreeListOk /\ FreeBlocks = {} /\ held = {}  OBVIOUS
<1>1. list = <<>> /\ releasing = <<>> /\ held = {} /\ allocated = 0 /\ inUse = 0 /\ records = 0 /\ mm = "none"
  BY DEF F!Init
<1>2. GoodList(<<>>) /\ ListBlocks(<<>>) = {} /\ F!Records(<<>>) = 0  BY EmptyList
<1>3. Cardinality({}) = 0  BY FS_EmptySet
<1>4. F!Records(list) + F!Records(releasing) = 0  BY <1>1, <1>2
<1>5. NumBlocks \in Nat  BY FreeListAssumption
<1> QED  BY <1>1, <1>2, <1>3, <1>4, <1>5 DEF FreeListOk, FreeBlocks

\* popBlocks() takes blocks out that nobody holds.
LEMMA FreeListPop ==
  ASSUME FreeListOk, NEW n \in Nat \ {0}, F!Pop(n)
  PROVE  FreeListOk' /\ PoolPop
<1> DEFINE p == F!popBlocksImpl(list, n)
<1>1. /\ list # <<>> /\ list' = p.list /\ held' = held \cup p.popped
      /\ inUse' = inUse + F!Cardinality(p.popped) /\ records' = records - p.freed
      /\ releasing' = releasing /\ allocated' = allocated /\ mm' = mm
  BY DEF F!Pop
<1>2. GoodList(list)  BY DEF FreeListOk
<1>3. /\ GoodList(p.list) /\ p.popped # {} /\ IsFiniteSet(p.popped)
      /\ ListBlocks(list) = p.popped \cup ListBlocks(p.list) /\ p.popped \cap ListBlocks(p.list) = {}
      /\ F!Records(p.list) = F!Records(list) - p.freed /\ p.freed \in Nat
  BY <1>1, <1>2, Pops
<1> HIDE DEF p
<1>4. held \cap p.popped = {}  BY <1>3 DEF FreeListOk
<1>5. inUse' = Cardinality(held')
  <2>1. Cardinality(held \cup p.popped) = Cardinality(held) + Cardinality(p.popped)
    BY <1>3, <1>4, HeldFinite, CardinalityOfUnion
  <2>2. F!Cardinality(p.popped) = Cardinality(p.popped)  BY ListCardinality
  <2>3. inUse = Cardinality(held)  BY DEF FreeListOk
  <2> QED  BY <1>1, <2>1, <2>2, <2>3
<1>6. records' = F!Records(list') + F!Records(releasing')
  <2>1. records = F!Records(list) + F!Records(releasing)  BY DEF FreeListOk
  <2>2. F!Records(list) \in Nat /\ F!Records(releasing) \in Nat  BY HeldFinite
  <2>3. F!Records(list') = F!Records(list) - p.freed /\ F!Records(releasing') = F!Records(releasing)
    BY <1>1, <1>3
  <2> QED  BY <1>1, <1>3, <2>1, <2>2, <2>3
<1>7. /\ ListBlocks(list') = ListBlocks(p.list) /\ ListBlocks(releasing') = ListBlocks(releasing)
      /\ GoodList(list') /\ GoodList(releasing')
  BY <1>1, <1>3 DEF FreeListOk
<1>8. /\ ListBlocks(list') \cap ListBlocks(releasing') = {}
      /\ held' \cap (ListBlocks(list') \cup ListBlocks(releasing')) = {}
      /\ ListBlocks(list') \cup ListBlocks(releasing') \cup held' = 0 .. allocated' - 1
  BY <1>1, <1>3, <1>7 DEF FreeListOk
<1>9. FreeListOk'  BY <1>1, <1>5, <1>6, <1>7, <1>8 DEF FreeListOk
<1>10. PoolPop
  <2>1. FreeBlocks = ListBlocks(list) \cup ListBlocks(releasing)  BY DEF FreeBlocks
  <2>2. FreeBlocks' = ListBlocks(list') \cup ListBlocks(releasing')  BY DEF FreeBlocks
  <2> QED  BY <1>1, <1>3, <1>4, <1>7, <1>8, <2>1, <2>2 DEF PoolPop
<1> QED  BY <1>9, <1>10

\* pushBlocks() returns blocks of the caller to the groups they belong to.
LEMMA FreeListPush ==
  ASSUME FreeListOk, NEW S \in SUBSET held, F!Push(S)
  PROVE  FreeListOk' /\ PoolPush
<1> DEFINE q == F!pushBlocksImpl(list, S)
<1>1. /\ S # {} /\ list' = q /\ held' = held \ S /\ inUse' = inUse - F!Cardinality(S)
      /\ records' = records + F!Records(list') - F!Records(list)
      /\ releasing' = releasing /\ allocated' = allocated /\ mm' = mm
  BY DEF F!Push
<1>2. GoodList(list) /\ S \cap ListBlocks(list) = {} /\ S \cap ListBlocks(releasing) = {}  BY DEF FreeListOk
<1>3. S \in SUBSET Nat /\ IsFiniteSet(S)  BY HeldFinite, FS_Subset
<1>4. GoodList(q) /\ ListBlocks(q) = ListBlocks(list) \cup S  BY <1>2, <1>3, PushesBlocks
<1> HIDE DEF q
<1>5. inUse' = Cardinality(held')
  <2>1. Cardinality(held \ S) = Cardinality(held) - Cardinality(S)  BY HeldFinite, CardinalityOfRest
  <2>2. F!Cardinality(S) = Cardinality(S)  BY ListCardinality
  <2>3. inUse = Cardinality(held)  BY DEF FreeListOk
  <2> QED  BY <1>1, <2>1, <2>2, <2>3
<1>6. records' = F!Records(list') + F!Records(releasing')
  <2>1. records = F!Records(list) + F!Records(releasing)  BY DEF FreeListOk
  <2>2. F!Records(list) \in Nat /\ F!Records(releasing) \in Nat  BY HeldFinite
  <2>3. F!Records(q) \in Nat
    <3>1. q \in Seq(GroupT)  BY <1>4 DEF GoodList
    <3> QED  BY <3>1, RecordsType
  <2>4. F!Records(releasing') = F!Records(releasing) /\ F!Records(list') = F!Records(q)  BY <1>1
  <2> QED  BY <1>1, <2>1, <2>2, <2>3, <2>4
<1>7. /\ ListBlocks(list') = ListBlocks(list) \cup S /\ ListBlocks(releasing') = ListBlocks(releasing)
      /\ GoodList(list') /\ GoodList(releasing')
  BY <1>1, <1>4 DEF FreeListOk
<1>8. /\ ListBlocks(list') \cap ListBlocks(releasing') = {}
      /\ held' \cap (ListBlocks(list') \cup ListBlocks(releasing')) = {}
      /\ ListBlocks(list') \cup ListBlocks(releasing') \cup held' = 0 .. allocated' - 1
  BY <1>1, <1>2, <1>7 DEF FreeListOk
<1>9. FreeListOk'  BY <1>1, <1>5, <1>6, <1>7, <1>8 DEF FreeListOk
<1>10. PoolPush
  <2>1. FreeBlocks = ListBlocks(list) \cup ListBlocks(releasing)  BY DEF FreeBlocks
  <2>2. FreeBlocks' = ListBlocks(list') \cup ListBlocks(releasing')  BY DEF FreeBlocks
  <2>3. FreeBlocks' = FreeBlocks \cup S  BY <1>7, <2>1, <2>2
  <2> QED  BY <1>1, <2>3 DEF PoolPush
<1> QED  BY <1>9, <1>10

\* Beginning to populate changes no list.
LEMMA FreeListStartPopulate ==
  ASSUME FreeListOk, F!StartPopulate
  PROVE  FreeListOk' /\ PoolKept
<1>1. /\ mm = "none" /\ allocated < NumBlocks /\ mm' = "populate"
      /\ list' = list /\ releasing' = releasing /\ held' = held /\ allocated' = allocated
      /\ inUse' = inUse /\ records' = records
  BY DEF F!StartPopulate
<1>2. ListBlocks(list') = ListBlocks(list) /\ ListBlocks(releasing') = ListBlocks(releasing)  BY <1>1
<1> QED  BY <1>1, <1>2 DEF FreeListOk, PoolKept, FreeBlocks

\* populateFreeListAndPopBlocks() adds new blocks and takes some.
LEMMA FreeListPopulate ==
  ASSUME FreeListOk, NEW n \in Nat \ {0}, F!Populate(n)
  PROVE  FreeListOk' /\ PoolPop
<1> DEFINE N == F!Min({NumPopulate, NumBlocks - allocated})
           new == allocated .. allocated + N - 1
           q == F!pushBlocksImpl(list, new)
           p == F!popBlocksImpl(q, n)
<1>1. /\ mm = "populate" /\ list' = p.list /\ held' = held \cup p.popped
      /\ inUse' = inUse + F!Cardinality(p.popped)
      /\ records' = records + F!Records(q) - F!Records(list) - p.freed
      /\ allocated' = allocated + N /\ mm' = "none" /\ releasing' = releasing
  BY DEF F!Populate
<1>2. N \in Nat \ {0} /\ N =< NumBlocks - allocated /\ allocated \in Nat /\ NumBlocks \in Nat
  <2>1. NumPopulate \in Nat \ {0} /\ NumBlocks \in Nat /\ allocated \in Nat /\ allocated < NumBlocks
    BY <1>1, FreeListAssumption DEF FreeListOk
  <2>2. N = IF NumPopulate =< NumBlocks - allocated THEN NumPopulate ELSE NumBlocks - allocated
    BY <2>1, MinPair
  <2> QED  BY <2>1, <2>2
<1> HIDE DEF N
<1>3. /\ GoodList(list) /\ GoodList(releasing) /\ ListBlocks(list) \cap ListBlocks(releasing) = {}
      /\ held \cap (ListBlocks(list) \cup ListBlocks(releasing)) = {}
      /\ ListBlocks(list) \cup ListBlocks(releasing) \cup held = 0 .. allocated - 1
  BY DEF FreeListOk
<1>4. new \cap (0 .. allocated - 1) = {}  BY <1>2
<1>5. new \in SUBSET Nat /\ IsFiniteSet(new) /\ new # {}
  <2>1. allocated \in new  BY <1>2
  <2>2. allocated \in Int /\ allocated + N - 1 \in Int  BY <1>2
  <2>3. IsFiniteSet(new)  BY <2>2, FS_Interval
  <2> QED  BY <1>2, <2>1, <2>3, SMTT(30)
<1>6. (0 .. allocated - 1) \cup new = 0 .. allocated + N - 1  BY <1>2
<1> HIDE DEF new
<1>7. GoodList(q) /\ ListBlocks(q) = ListBlocks(list) \cup new
  <2>1. new \cap ListBlocks(list) = {}  BY <1>3, <1>4
  <2> QED  BY <1>3, <1>5, <2>1, PushesBlocks
<1>8. q # <<>>  BY <1>5, <1>7, EmptyList
<1> HIDE DEF q
<1>9. /\ GoodList(p.list) /\ p.popped # {} /\ IsFiniteSet(p.popped)
      /\ ListBlocks(q) = p.popped \cup ListBlocks(p.list) /\ p.popped \cap ListBlocks(p.list) = {}
      /\ F!Records(p.list) = F!Records(q) - p.freed /\ p.freed \in Nat
  BY <1>7, <1>8, Pops
<1> HIDE DEF p
<1>10. held \cap p.popped = {} /\ p.popped \cap ListBlocks(releasing) = {}  BY <1>3, <1>4, <1>7, <1>9
<1>11. inUse' = Cardinality(held')
  <2>1. Cardinality(held \cup p.popped) = Cardinality(held) + Cardinality(p.popped)
    BY <1>9, <1>10, HeldFinite, CardinalityOfUnion
  <2>2. F!Cardinality(p.popped) = Cardinality(p.popped)  BY ListCardinality
  <2>3. inUse = Cardinality(held)  BY DEF FreeListOk
  <2> QED  BY <1>1, <2>1, <2>2, <2>3
<1>12. records' = F!Records(list') + F!Records(releasing')
  <2>1. records = F!Records(list) + F!Records(releasing)  BY DEF FreeListOk
  <2>2. F!Records(list) \in Nat /\ F!Records(releasing) \in Nat  BY HeldFinite
  <2>3. F!Records(q) \in Nat
    <3>1. q \in Seq(GroupT)  BY <1>7 DEF GoodList
    <3> QED  BY <3>1, RecordsType
  <2>4. F!Records(releasing') = F!Records(releasing) /\ F!Records(list') = F!Records(q) - p.freed
    BY <1>1, <1>9
  <2> QED  BY <1>1, <1>9, <2>1, <2>2, <2>3, <2>4
<1>13. /\ ListBlocks(list') = ListBlocks(p.list) /\ ListBlocks(releasing') = ListBlocks(releasing)
       /\ GoodList(list') /\ GoodList(releasing')
  BY <1>1, <1>3, <1>9
<1>14. held' = held \cup p.popped  BY <1>1
<1>15. /\ ListBlocks(list') \cap ListBlocks(releasing') = {}
       /\ held' \cap (ListBlocks(list') \cup ListBlocks(releasing')) = {}
       /\ ListBlocks(list') \cup ListBlocks(releasing') \cup held' = (0 .. allocated - 1) \cup new
  BY <1>3, <1>4, <1>7, <1>9, <1>10, <1>13, <1>14
<1>16. (0 .. allocated - 1) \cup new = 0 .. allocated' - 1 /\ allocated' \in 0 .. NumBlocks  BY <1>1, <1>2, <1>6
<1>17. releasing' = <<>>  BY <1>1 DEF FreeListOk
<1>18. FreeListOk'  BY <1>1, <1>11, <1>12, <1>13, <1>15, <1>16, <1>17 DEF FreeListOk
<1>19. PoolPop
  <2>1. FreeBlocks = ListBlocks(list) \cup ListBlocks(releasing)  BY DEF FreeBlocks
  <2>2. FreeBlocks' = ListBlocks(list') \cup ListBlocks(releasing')  BY DEF FreeBlocks
  <2> QED  BY <1>3, <1>9, <1>10, <1>14, <1>15, <2>1, <2>2 DEF PoolPop
<1> QED  BY <1>18, <1>19

\* A release takes groups out of the list.
LEMMA FreeListCollect ==
  ASSUME FreeListOk, F!Collect
  PROVE  FreeListOk' /\ PoolKept
<1> DEFINE c == F!collectGroupsToRelease(list)
<1>1. /\ mm = "none" /\ list' = c.kept /\ releasing' = c.taken
      /\ mm' = (IF c.taken = <<>> THEN "none" ELSE "release")
      /\ held' = held /\ allocated' = allocated /\ inUse' = inUse /\ records' = records
  BY DEF F!Collect
<1>2. GoodList(list) /\ releasing = <<>>  BY <1>1 DEF FreeListOk
<1>3. /\ GoodList(c.kept) /\ GoodList(c.taken)
      /\ ListBlocks(c.kept) \cup ListBlocks(c.taken) = ListBlocks(list)
      /\ ListBlocks(c.kept) \cap ListBlocks(c.taken) = {}
      /\ F!Records(c.kept) + F!Records(c.taken) = F!Records(list)
  BY <1>2, Collects
<1> HIDE DEF c
<1>4. ListBlocks(releasing) = {} /\ F!Records(releasing) = 0  BY <1>2, EmptyList
<1>5. records' = F!Records(list') + F!Records(releasing')
  <2>1. records = F!Records(list) + 0 /\ F!Records(list) \in Nat  BY <1>4, HeldFinite DEF FreeListOk
  <2> QED  BY <1>1, <1>3, <2>1
<1>6. mm' # "populate" /\ (mm' # "release" => releasing' = <<>>)  BY <1>1
<1>7. /\ GoodList(list') /\ GoodList(releasing') /\ ListBlocks(list') \cap ListBlocks(releasing') = {}
      /\ ListBlocks(list') \cup ListBlocks(releasing') = ListBlocks(list) \cup ListBlocks(releasing)
  BY <1>1, <1>3, <1>4
<1>8. FreeListOk'  BY <1>1, <1>5, <1>6, <1>7 DEF FreeListOk
<1>9. PoolKept  BY <1>1, <1>7 DEF PoolKept, FreeBlocks
<1> QED  BY <1>8, <1>9

\* A release of everything takes all of them.
LEMMA FreeListCollectAll ==
  ASSUME FreeListOk, F!CollectAll
  PROVE  FreeListOk' /\ PoolKept
<1>1. /\ mm = "none" /\ list' = <<>> /\ releasing' = list /\ mm' = "release"
      /\ held' = held /\ allocated' = allocated /\ inUse' = inUse /\ records' = records
  BY DEF F!CollectAll
<1>2. releasing = <<>>  BY <1>1 DEF FreeListOk
<1>3. GoodList(<<>>) /\ ListBlocks(<<>>) = {} /\ F!Records(<<>>) = 0  BY EmptyList
<1>4. ListBlocks(releasing) = {} /\ F!Records(releasing) = 0  BY <1>2, <1>3
<1>5. records' = F!Records(list') + F!Records(releasing')
  <2>1. records = F!Records(list) + 0 /\ F!Records(list) \in Nat  BY <1>4, HeldFinite DEF FreeListOk
  <2>2. F!Records(list') = 0 /\ F!Records(releasing') = F!Records(list)  BY <1>1, <1>3
  <2> QED  BY <1>1, <2>1, <2>2
<1>6. ListBlocks(list') = {} /\ ListBlocks(releasing') = ListBlocks(list)  BY <1>1, <1>3
<1>7. /\ GoodList(list') /\ GoodList(releasing') /\ ListBlocks(list') \cap ListBlocks(releasing') = {}
      /\ ListBlocks(list') \cup ListBlocks(releasing') = ListBlocks(list) \cup ListBlocks(releasing)
  BY <1>1, <1>3, <1>4, <1>6 DEF FreeListOk
<1>8. FreeListOk'  BY <1>1, <1>5, <1>7 DEF FreeListOk
<1>9. PoolKept  BY <1>1, <1>7 DEF PoolKept, FreeBlocks
<1> QED  BY <1>8, <1>9

\* The groups come back, also to a list that has got such groups meanwhile.
LEMMA FreeListMerge ==
  ASSUME FreeListOk, F!MergeGroupsToReleaseBack
  PROVE  FreeListOk' /\ PoolKept
<1> DEFINE m == F!mergeGroupsToReleaseBack(list, releasing)
<1>1. /\ mm = "release" /\ list' = m.list /\ records' = records - m.unused
      /\ releasing' = <<>> /\ mm' = "none"
      /\ held' = held /\ allocated' = allocated /\ inUse' = inUse
  BY DEF F!MergeGroupsToReleaseBack
<1>2. GoodList(list) /\ GoodList(releasing) /\ ListBlocks(list) \cap ListBlocks(releasing) = {}
  BY DEF FreeListOk
<1>3. /\ GoodList(m.list) /\ ListBlocks(m.list) = ListBlocks(list) \cup ListBlocks(releasing)
      /\ m.unused \in Nat /\ F!Records(m.list) + m.unused = F!Records(list) + F!Records(releasing)
  BY <1>2, Merges
<1> HIDE DEF m
<1>4. GoodList(<<>>) /\ ListBlocks(<<>>) = {} /\ F!Records(<<>>) = 0  BY EmptyList
<1>5. records' = F!Records(list') + F!Records(releasing')
  <2>1. /\ records = F!Records(list) + F!Records(releasing)
        /\ F!Records(list) \in Nat /\ F!Records(releasing) \in Nat
    BY HeldFinite DEF FreeListOk
  <2>2. F!Records(list') = F!Records(m.list) /\ F!Records(releasing') = 0  BY <1>1, <1>4
  <2>3. F!Records(m.list) \in Nat
    <3>1. m.list \in Seq(GroupT)  BY <1>3 DEF GoodList
    <3> QED  BY <3>1, RecordsType
  <2> QED  BY <1>1, <1>3, <2>1, <2>2, <2>3
<1>6. ListBlocks(list') = ListBlocks(list) \cup ListBlocks(releasing) /\ ListBlocks(releasing') = {}
  BY <1>1, <1>3, <1>4
<1>7. /\ GoodList(list') /\ GoodList(releasing') /\ ListBlocks(list') \cap ListBlocks(releasing') = {}
      /\ ListBlocks(list') \cup ListBlocks(releasing') = ListBlocks(list) \cup ListBlocks(releasing)
  BY <1>1, <1>3, <1>4, <1>6
<1>8. FreeListOk'  BY <1>1, <1>5, <1>7 DEF FreeListOk
<1>9. PoolKept  BY <1>1, <1>7 DEF PoolKept, FreeBlocks
<1> QED  BY <1>8, <1>9

\* The freelist keeps its form and its blocks, as a pool to the local caches.
LEMMA FreeListNext ==
  ASSUME FreeListOk, F!Next
  PROVE  FreeListOk' /\ (PoolPush \/ PoolPop \/ PoolKept)
<1>1. ASSUME NEW n \in 1 .. MaxArray, F!Pop(n) \/ F!Populate(n)
      PROVE  FreeListOk' /\ PoolPop
  <2>1. n \in Nat \ {0}  OBVIOUS
  <2> QED  BY <1>1, <2>1, FreeListPop, FreeListPopulate
<1>2. ASSUME NEW S \in SUBSET held, F!Push(S)
      PROVE  FreeListOk' /\ PoolPush
  BY <1>2, FreeListPush
<1>3. CASE F!StartPopulate  BY <1>3, FreeListStartPopulate
<1>4. CASE F!Collect  BY <1>4, FreeListCollect
<1>5. CASE F!CollectAll  BY <1>5, FreeListCollectAll
<1>6. CASE F!MergeGroupsToReleaseBack  BY <1>6, FreeListMerge
<1> QED  BY <1>1, <1>2, <1>3, <1>4, <1>5, <1>6 DEF F!Next

LEMMA ListToSet == \A s : F!ToSet(s) = Elements(s)
BY DEF F!ToSet, Elements

\* The blocks of a list as the model defines them.
LEMMA ListBlocksOf == \A l : F!BlocksOf(l) = ListBlocks(l)
<1> SUFFICES ASSUME NEW l PROVE F!BlocksOf(l) = ListBlocks(l)  OBVIOUS
<1>1. ASSUME NEW g PROVE UNION {F!ToSet(b) : b \in F!ToSet(g.batches)} = BlocksIn(g.batches)
  BY ListToSet, BlocksOfElements
<1>2. F!BlocksOf(l) = UNION {BlocksIn(g.batches) : g \in F!ToSet(l)}  BY <1>1 DEF F!BlocksOf
<1> QED  BY <1>2, ListToSet, ListOfElements

\* The number of blocks of a group as the model computes it.
LEMMA CountIs ==
  ASSUME NEW g \in GroupT
  PROVE  F!NumBlocksIn(g) = Count(g.batches)
<1>1. Head(g.batches) = g.batches[1]
  <2>1. Shape(g.batches)  BY GroupFields
  <2> QED  BY <2>1, ShapeSplit
<1> QED  BY <1>1 DEF F!NumBlocksIn, Count

\* What the invariant of the freelist says in terms of the properties.
LEMMA FreeListForm == FreeListOk => F!GroupsWellFormed /\ F!CountersAgree
<1> SUFFICES ASSUME FreeListOk PROVE F!GroupsWellFormed /\ F!CountersAgree  OBVIOUS
<1>1. \A l \in {list, releasing} : GoodList(l)  BY DEF FreeListOk
<1>2. ASSUME NEW l \in {list, releasing}, NEW i \in DOMAIN l, NEW j \in DOMAIN l, i < j
      PROVE  l[i].base < l[j].base
  BY <1>1, <1>2 DEF GoodList, Ordered
<1>3. \A g \in F!Groups : GoodGroup(g)  BY <1>1, ListToSet DEF F!Groups, GoodList
<1>4. ASSUME NEW g \in F!Groups
      PROVE  /\ \A i \in DOMAIN g.batches : Len(g.batches[i]) \in 1 .. MaxNumBlocksInBatch
             /\ F!NumBlocksIn(g) = F!Cardinality(F!BlocksOf(<<g>>))
             /\ \A b \in F!BlocksOf(<<g>>) : F!compactPtrGroup(b) = g.base
  <2>1. GoodGroup(g)  BY <1>3
  <2>2. g \in GroupT /\ Shape(g.batches) /\ Len(g.batches[1]) >= 1  BY <2>1, GroupFields DEF GoodGroup
  <2>3. F!BlocksOf(<<g>>) = BlocksIn(g.batches)  BY ListBlocksOf, ListOne
  <2>4. F!NumBlocksIn(g) = Count(g.batches)  BY <2>2, CountIs
  <2>5. Cardinality(BlocksIn(g.batches)) = Count(g.batches)  BY <2>1 DEF GoodGroup
  <2>6. F!NumBlocksIn(g) = F!Cardinality(F!BlocksOf(<<g>>))  BY <2>3, <2>4, <2>5, ListCardinality
  <2>7. ASSUME NEW i \in DOMAIN g.batches
        PROVE  Len(g.batches[i]) \in 1 .. MaxNumBlocksInBatch
    <3> DEFINE bs == g.batches
    <3>1. bs \in Seq(Seq(Nat)) /\ Len(bs[i]) =< MaxNumBlocksInBatch /\ (i # 1 => Len(bs[i]) = MaxNumBlocksInBatch)
      BY <2>2 DEF Shape
    <3>2. bs[i] \in Seq(Nat)
      <4> HIDE DEF bs
      <4> QED  BY <2>7, <3>1 DEF bs
    <3>3. Len(bs[i]) \in Nat  BY <3>2
    <3>4. Len(bs[1]) >= 1  BY <2>2
    <3>5. MaxNumBlocksInBatch \in Nat \ {0}  BY Cap
    <3> HIDE DEF bs
    <3>6. Len(bs[i]) \in 1 .. MaxNumBlocksInBatch
      <4>1. CASE i = 1  BY <3>1, <3>3, <3>4, <3>5, <4>1
      <4>2. CASE i # 1  BY <3>1, <3>3, <3>5, <4>2
      <4> QED  BY <4>1, <4>2
    <3> QED  BY <3>6 DEF bs
  <2>8. \A b \in F!BlocksOf(<<g>>) : F!compactPtrGroup(b) = g.base  BY <2>1, <2>3 DEF GoodGroup
  <2> QED  BY <2>6, <2>7, <2>8
<1>5. F!GroupsWellFormed  BY <1>2, <1>4 DEF F!GroupsWellFormed
<1>6. F!CountersAgree  BY ListCardinality DEF F!CountersAgree, FreeListOk
<1> QED  BY <1>5, <1>6

LEMMA FreeIs == F!BlocksOf(list) \cup F!BlocksOf(releasing) = FreeBlocks
BY ListBlocksOf DEF FreeBlocks

\* The freelist refines BlockPool: the start, a push and a pop.
LEMMA FreeListPoolInit == F!Init => F!Pool!Init
BY FreeListInit, FreeIs DEF F!Pool!Init

LEMMA FreeListPoolPush == PoolPush => F!Pool!Push
<1> DEFINE free == F!BlocksOf(list) \cup F!BlocksOf(releasing)
<1>1. free = FreeBlocks /\ free' = FreeBlocks'  BY ListBlocksOf DEF FreeBlocks
<1> QED  BY <1>1 DEF PoolPush, F!Pool!Push

LEMMA FreeListPoolPop == PoolPop => F!Pool!Pop
<1> DEFINE free == F!BlocksOf(list) \cup F!BlocksOf(releasing)
<1>1. free = FreeBlocks /\ free' = FreeBlocks'  BY ListBlocksOf DEF FreeBlocks
<1> QED  BY <1>1 DEF PoolPop, F!Pool!Pop

\* The freelist of the batch class, batch by batch.
Ids == 0 .. NumBatchBlocks - 1
BatchT == [self : Ids, blocks : Seq(Ids)]
Distinct(s) == \A i, j \in DOMAIN s : s[i] = s[j] => i = j
ClassBlocks(l) == UNION {Elements(l[i].blocks) : i \in DOMAIN l}

\* A batch that lives in the block that it lists first.
GoodBatch(x) ==
  /\ x \in BatchT /\ Distinct(x.blocks)
  /\ Len(x.blocks) \in 1 .. MaxCachedPerBatch /\ x.self = x.blocks[1]

\* Batches with no block in common, of which the last lists the block of the group.
GoodBatches(bg, l) ==
  /\ l \in Seq(BatchT) /\ l # <<>>
  /\ \A i \in DOMAIN l : GoodBatch(l[i])
  /\ \A i, j \in DOMAIN l : i # j => Elements(l[i].blocks) \cap Elements(l[j].blocks) = {}
  /\ Len(l[Len(l)].blocks) >= 2 /\ l[Len(l)].blocks[2] = bg

Behind(bg, t) == t = <<>> \/ GoodBatches(bg, t)

\* The freelist as a whole, and all that it lists.
GoodClass(bg, l) == (bg \in Ids /\ Behind(bg, l)) \/ (bg = None /\ l = <<>>)
Listing(bg, l) == IF l = <<>> THEN {bg} \ {None} ELSE ClassBlocks(l)

\* The assumptions on the batch class.
LEMMA Capacity ==
  /\ MaxCachedPerBatch \in Nat /\ MaxCachedPerBatch >= 2 /\ NumBatchBlocks \in Nat /\ None \notin Ids
BY BatchClassAssumption DEF Ids

LEMMA BatchFields ==
  ASSUME NEW x \in BatchT
  PROVE  x.self \in Ids /\ x.blocks \in Seq(Ids)
BY DEF BatchT

\* Batches below the group of the class.
LEMMA BehindIs ==
  ASSUME NEW bg, NEW t, Behind(bg, t)
  PROVE  /\ t \in Seq(BatchT) /\ Len(t) \in Nat /\ DOMAIN t = 1 .. Len(t)
         /\ \A i \in DOMAIN t : GoodBatch(t[i])
         /\ \A i, j \in DOMAIN t : i # j => Elements(t[i].blocks) \cap Elements(t[j].blocks) = {}
         /\ t # <<>> => Len(t) >= 1 /\ Len(t[Len(t)].blocks) >= 2 /\ t[Len(t)].blocks[2] = bg
<1>1. CASE t = <<>>  BY <1>1
<1>2. CASE GoodBatches(bg, t)
  <2>1. t \in Seq(BatchT) /\ t # <<>>  BY <1>2 DEF GoodBatches
  <2>2. Len(t) \in Nat /\ DOMAIN t = 1 .. Len(t) /\ Len(t) >= 1  BY <2>1
  <2> QED  BY <1>2, <2>1, <2>2 DEF GoodBatches
<1> QED  BY <1>1, <1>2 DEF Behind

\* A batch comes to the front.
LEMMA ConsBatch ==
  ASSUME NEW bg, NEW x, GoodBatch(x), NEW t, Behind(bg, t),
         Elements(x.blocks) \cap ClassBlocks(t) = {},
         t = <<>> => Len(x.blocks) >= 2 /\ x.blocks[2] = bg
  PROVE  /\ GoodBatches(bg, <<x>> \o t)
         /\ ClassBlocks(<<x>> \o t) = Elements(x.blocks) \cup ClassBlocks(t)
<1> DEFINE l == <<x>> \o t
           n == Len(t)
<1>1. /\ t \in Seq(BatchT) /\ n \in Nat /\ DOMAIN t = 1 .. n
      /\ \A i \in DOMAIN t : GoodBatch(t[i])
      /\ \A i, j \in DOMAIN t : i # j => Elements(t[i].blocks) \cap Elements(t[j].blocks) = {}
      /\ t # <<>> => n >= 1 /\ Len(t[n].blocks) >= 2 /\ t[n].blocks[2] = bg
  BY BehindIs
<1>2. x \in BatchT /\ <<x>> \in Seq(BatchT)  BY DEF GoodBatch
<1>3. /\ l \in Seq(BatchT) /\ Len(l) = n + 1 /\ DOMAIN l = 1 .. n + 1 /\ l[1] = x
      /\ \A i \in 1 .. n : l[i + 1] = t[i]
  BY <1>1, <1>2
<1>4. l # <<>>
  <2>1. Len(l) # Len(<<>>)  BY <1>1, <1>3
  <2> QED  BY <2>1
<1> HIDE DEF l, n
<1>5. \A i \in DOMAIN l : i = 1 \/ (i - 1 \in 1 .. n /\ l[i] = t[i - 1])
  <2> SUFFICES ASSUME NEW i \in DOMAIN l, i # 1 PROVE i - 1 \in 1 .. n /\ l[i] = t[i - 1]  OBVIOUS
  <2>1. i - 1 \in 1 .. n /\ (i - 1) + 1 = i  BY <1>1, <1>3
  <2> QED  BY <1>3, <2>1
<1>6. \A i \in DOMAIN l : GoodBatch(l[i])  BY <1>1, <1>3, <1>5
<1>7. \A i \in 1 .. n : Elements(t[i].blocks) \subseteq ClassBlocks(t)  BY <1>1 DEF ClassBlocks
<1>8. ASSUME NEW i \in DOMAIN l, NEW j \in DOMAIN l, i # j
      PROVE  Elements(l[i].blocks) \cap Elements(l[j].blocks) = {}
  <2>1. CASE i = 1
    <3>1. j - 1 \in 1 .. n /\ l[j] = t[j - 1]  BY <1>5, <1>8, <2>1
    <3> QED  BY <1>3, <1>7, <2>1, <3>1
  <2>2. CASE j = 1
    <3>1. i - 1 \in 1 .. n /\ l[i] = t[i - 1]  BY <1>5, <1>8, <2>2
    <3> QED  BY <1>3, <1>7, <2>2, <3>1
  <2>3. CASE i # 1 /\ j # 1
    <3>1. i - 1 \in 1 .. n /\ l[i] = t[i - 1] /\ j - 1 \in 1 .. n /\ l[j] = t[j - 1]  BY <1>5, <2>3
    <3>2. i - 1 # j - 1  BY <1>1, <1>3, <1>8
    <3> QED  BY <1>1, <3>1, <3>2
  <2> QED  BY <2>1, <2>2, <2>3
<1>9. Len(l[Len(l)].blocks) >= 2 /\ l[Len(l)].blocks[2] = bg
  <2>1. CASE t = <<>>
    <3>1. n = 0  BY <2>1 DEF n
    <3>2. l[Len(l)] = x  BY <1>3, <3>1
    <3> QED  BY <2>1, <3>2
  <2>2. CASE t # <<>>
    <3>1. n \in 1 .. n  BY <1>1, <2>2
    <3>2. l[Len(l)] = t[n]  BY <1>3, <3>1
    <3> QED  BY <1>1, <2>2, <3>2
  <2> QED  BY <2>1, <2>2
<1>10. ClassBlocks(l) = Elements(x.blocks) \cup ClassBlocks(t)
  <2>1. ASSUME NEW i \in DOMAIN l
        PROVE  Elements(l[i].blocks) \subseteq Elements(x.blocks) \cup ClassBlocks(t)
    BY <1>3, <1>5, <1>7
  <2>2. Elements(x.blocks) \subseteq ClassBlocks(l)
    <3>1. 1 \in DOMAIN l /\ l[1] = x  BY <1>1, <1>3
    <3> QED  BY <3>1 DEF ClassBlocks
  <2>3. ASSUME NEW i \in DOMAIN t PROVE Elements(t[i].blocks) \subseteq ClassBlocks(l)
    <3>1. i + 1 \in DOMAIN l /\ l[i + 1] = t[i]  BY <1>1, <1>3
    <3> QED  BY <3>1 DEF ClassBlocks
  <2>4. ClassBlocks(t) \subseteq ClassBlocks(l)  BY <2>3 DEF ClassBlocks
  <2>5. ClassBlocks(l) \subseteq Elements(x.blocks) \cup ClassBlocks(t)
    <3> SUFFICES ASSUME NEW b \in ClassBlocks(l) PROVE b \in Elements(x.blocks) \cup ClassBlocks(t)  OBVIOUS
    <3>1. PICK i \in DOMAIN l : b \in Elements(l[i].blocks)  BY DEF ClassBlocks
    <3> QED  BY <2>1, <3>1
  <2> QED  BY <2>2, <2>4, <2>5
<1> QED  BY <1>3, <1>4, <1>6, <1>8, <1>9, <1>10 DEF GoodBatches, l

\* The front batch and those behind it.
LEMMA SplitBatch ==
  ASSUME NEW bg, NEW l, GoodBatches(bg, l)
  PROVE  /\ Head(l) = l[1] /\ GoodBatch(Head(l)) /\ Behind(bg, Tail(l)) /\ l = <<Head(l)>> \o Tail(l)
         /\ Elements(Head(l).blocks) \cap ClassBlocks(Tail(l)) = {}
         /\ ClassBlocks(l) = Elements(Head(l).blocks) \cup ClassBlocks(Tail(l))
         /\ Tail(l) = <<>> => Len(Head(l).blocks) >= 2 /\ Head(l).blocks[2] = bg
<1> DEFINE x == Head(l)
           t == Tail(l)
<1>1. /\ l \in Seq(BatchT) /\ l # <<>> /\ \A i \in DOMAIN l : GoodBatch(l[i])
      /\ \A i, j \in DOMAIN l : i # j => Elements(l[i].blocks) \cap Elements(l[j].blocks) = {}
      /\ Len(l[Len(l)].blocks) >= 2 /\ l[Len(l)].blocks[2] = bg
  BY DEF GoodBatches
<1>2. /\ x = l[1] /\ t \in Seq(BatchT) /\ l = <<x>> \o t /\ Len(t) = Len(l) - 1 /\ Len(l) \in Nat
      /\ Len(l) >= 1 /\ \A i \in 1 .. Len(l) - 1 : t[i] = l[i + 1]
  BY <1>1, HeadTail
<1>3. DOMAIN l = 1 .. Len(l) /\ DOMAIN t = 1 .. Len(l) - 1 /\ 1 \in DOMAIN l  BY <1>1, <1>2
<1> HIDE DEF x, t
<1>4. \A i \in DOMAIN t : i + 1 \in DOMAIN l /\ i + 1 # 1 /\ t[i] = l[i + 1]  BY <1>2, <1>3
<1>5. GoodBatch(x)  BY <1>1, <1>2, <1>3
<1>6. Elements(x.blocks) \cap ClassBlocks(t) = {}
  <2>1. \A i \in DOMAIN t : Elements(x.blocks) \cap Elements(t[i].blocks) = {}
    BY <1>1, <1>2, <1>3, <1>4
  <2> QED  BY <2>1 DEF ClassBlocks
<1>7. t = <<>> => Len(x.blocks) >= 2 /\ x.blocks[2] = bg
  <2> SUFFICES ASSUME t = <<>> PROVE l[Len(l)] = x  BY <1>1
  <2>1. Len(t) = 0  OBVIOUS
  <2>2. Len(l) = 1  BY <1>2, <2>1
  <2> QED  BY <1>2, <2>2
<1>8. Behind(bg, t)
  <2> SUFFICES ASSUME t # <<>> PROVE GoodBatches(bg, t)  BY DEF Behind
  <2>1. Len(t) # 0  BY <1>2
  <2>2. Len(t) \in DOMAIN t /\ Len(t) + 1 = Len(l)  BY <1>2, <1>3, <2>1
  <2>3. t[Len(t)] = l[Len(l)]  BY <1>4, <2>2
  <2>4. ASSUME NEW i \in DOMAIN t, NEW j \in DOMAIN t, i # j
        PROVE  Elements(t[i].blocks) \cap Elements(t[j].blocks) = {}
    <3>1. i + 1 # j + 1  BY <1>3, <2>4
    <3> QED  BY <1>1, <1>4, <3>1
  <2> QED  BY <1>1, <1>2, <1>4, <2>3, <2>4 DEF GoodBatches
<1>9. ClassBlocks(l) = Elements(x.blocks) \cup ClassBlocks(t)
  BY <1>2, <1>5, <1>6, <1>7, <1>8, ConsBatch
<1> QED  BY <1>2, <1>5, <1>6, <1>7, <1>8, <1>9 DEF x, t

BatchLists == {l \in Seq(BatchT) : l # <<>>}

\* What the loop of pushBatchClassBlocks() does with one block.
Filled(l, b) ==
  IF Len(Head(l).blocks) = MaxCachedPerBatch
  THEN <<B!Batch(b, <<b>>)>> \o l
  ELSE <<[Head(l) EXCEPT !.blocks = Append(Head(l).blocks, b)]>> \o Tail(l)

\* A block more in the front batch, or in a new one.
LEMMA FilledType ==
  ASSUME NEW l \in BatchLists, NEW b \in Ids
  PROVE  Filled(l, b) \in BatchLists
<1>1. l \in Seq(BatchT) /\ l # <<>>  BY DEF BatchLists
<1>2. Head(l) = l[1] /\ l[1] \in BatchT /\ Tail(l) \in Seq(BatchT)  BY <1>1, HeadTail
<1>3. ASSUME NEW x \in BatchT, NEW t \in Seq(BatchT) PROVE <<x>> \o t \in BatchLists
  <2>1. <<x>> \o t \in Seq(BatchT) /\ Len(<<x>> \o t) = 1 + Len(t) /\ Len(t) \in Nat  OBVIOUS
  <2>2. Len(<<x>> \o t) # Len(<<>>)  BY <2>1
  <2>3. <<x>> \o t # <<>>  BY <2>2
  <2> QED  BY <2>1, <2>3 DEF BatchLists
<1>4. B!Batch(b, <<b>>) \in BatchT  BY DEF B!Batch, BatchT
<1>5. [Head(l) EXCEPT !.blocks = Append(Head(l).blocks, b)] \in BatchT
  <2>1. Head(l).blocks \in Seq(Ids)  BY <1>2, BatchFields
  <2>2. Append(Head(l).blocks, b) \in Seq(Ids)  BY <2>1, AppendIs
  <2> QED  BY <1>2, <2>2 DEF BatchT
<1>6. <<B!Batch(b, <<b>>)>> \o l \in BatchLists  BY <1>1, <1>3, <1>4
<1>7. <<[Head(l) EXCEPT !.blocks = Append(Head(l).blocks, b)]>> \o Tail(l) \in BatchLists
  BY <1>2, <1>3, <1>5
<1> QED  BY <1>6, <1>7 DEF Filled

\* Appending a new element keeps a sequence without repetitions.
LEMMA DistinctAppend ==
  ASSUME NEW s \in Seq(Ids), Distinct(s), NEW b \in Ids, b \notin Elements(s)
  PROVE  LET r == Append(s, b) IN
         /\ r \in Seq(Ids) /\ Distinct(r) /\ Len(r) = Len(s) + 1 /\ Len(s) \in Nat
         /\ Elements(r) = Elements(s) \cup {b}
         /\ \A i \in 1 .. Len(s) : r[i] = s[i]
<1> DEFINE r == Append(s, b)
<1>1. /\ r \in Seq(Ids) /\ Len(r) = Len(s) + 1 /\ Len(s) \in Nat /\ DOMAIN s = 1 .. Len(s)
      /\ DOMAIN r = 1 .. Len(s) + 1 /\ r[Len(s) + 1] = b
      /\ \A i \in 1 .. Len(s) : r[i] = s[i]
  OBVIOUS
<1> HIDE DEF r
<1>2. \A i \in DOMAIN r : i \in 1 .. Len(s) \/ i = Len(s) + 1  BY <1>1
<1>3. \A i \in 1 .. Len(s) : r[i] # b  BY <1>1 DEF Elements
<1>4. Distinct(r)
  <2> SUFFICES ASSUME NEW i \in DOMAIN r, NEW j \in DOMAIN r, r[i] = r[j] PROVE i = j  BY DEF Distinct
  <2>1. CASE i \in 1 .. Len(s) /\ j \in 1 .. Len(s)  BY <1>1, <2>1 DEF Distinct
  <2>2. CASE i = Len(s) + 1 \/ j = Len(s) + 1  BY <1>1, <1>2, <1>3, <2>2
  <2> QED  BY <1>2, <2>1, <2>2
<1>5. Elements(r) = Elements(s) \cup {b}
  <2>1. Elements(r) \subseteq Elements(s) \cup {b}  BY <1>1, <1>2 DEF Elements
  <2>2. b \in Elements(r)
    <3>1. Len(s) + 1 \in DOMAIN r  BY <1>1
    <3> QED  BY <1>1, <3>1 DEF Elements
  <2>3. ASSUME NEW i \in DOMAIN s PROVE s[i] \in Elements(r)
    <3>1. i \in DOMAIN r /\ r[i] = s[i]  BY <1>1
    <3> QED  BY <3>1 DEF Elements
  <2> QED  BY <2>1, <2>2, <2>3 DEF Elements
<1> QED  BY <1>1, <1>4, <1>5 DEF r

\* A pushed block gets listed, and lists itself first in a new batch.
LEMMA FillsOne ==
  ASSUME NEW bg, NEW l, GoodBatches(bg, l), NEW b \in Ids, b \notin ClassBlocks(l)
  PROVE  GoodBatches(bg, Filled(l, b)) /\ ClassBlocks(Filled(l, b)) = ClassBlocks(l) \cup {b}
<1> DEFINE x == Head(l)
           t == Tail(l)
<1>1. /\ GoodBatch(x) /\ Behind(bg, t) /\ l = <<x>> \o t
      /\ Elements(x.blocks) \cap ClassBlocks(t) = {}
      /\ ClassBlocks(l) = Elements(x.blocks) \cup ClassBlocks(t)
      /\ t = <<>> => Len(x.blocks) >= 2 /\ x.blocks[2] = bg
  BY SplitBatch
<1>2. Behind(bg, l) /\ l # <<>>  BY DEF Behind, GoodBatches
<1> HIDE DEF x, t
<1>3. CASE Len(x.blocks) = MaxCachedPerBatch
  <2> DEFINE y == B!Batch(b, <<b>>)
  <2>1. y = [self |-> b, blocks |-> <<b>>]  BY DEF B!Batch
  <2>0. <<b>> \in Seq(Ids)  OBVIOUS
  <2>2. y.blocks = <<b>> /\ y.self = b /\ y \in BatchT
    <3> HIDE DEF y
    <3> QED  BY <2>0, <2>1 DEF BatchT
  <2>3. Elements(y.blocks) = {b}  BY <2>2, ElementsOne
  <2>4. GoodBatch(y)
    <3>1. Len(<<b>>) = 1 /\ <<b>>[1] = b /\ Distinct(<<b>>)  BY DEF Distinct
    <3>2. 1 \in 1 .. MaxCachedPerBatch  BY Capacity
    <3> HIDE DEF y
    <3> QED  BY <2>2, <3>1, <3>2 DEF GoodBatch
  <2> HIDE DEF y
  <2>5. GoodBatches(bg, <<y>> \o l) /\ ClassBlocks(<<y>> \o l) = Elements(y.blocks) \cup ClassBlocks(l)
    BY <1>2, <2>3, <2>4, ConsBatch
  <2>6. Filled(l, b) = <<y>> \o l  BY <1>3 DEF Filled, y, x
  <2> QED  BY <2>3, <2>5, <2>6
<1>4. CASE Len(x.blocks) # MaxCachedPerBatch
  <2> DEFINE s == x.blocks
             r == Append(s, b)
             y == [x EXCEPT !.blocks = r]
  <2>1. /\ x \in BatchT /\ s \in Seq(Ids) /\ Distinct(s) /\ Len(s) \in 1 .. MaxCachedPerBatch
        /\ x.self = s[1]
    BY <1>1, BatchFields DEF GoodBatch
  <2>2. b \notin Elements(s)  BY <1>1
  <2> HIDE DEF s
  <2>3. /\ r \in Seq(Ids) /\ Distinct(r) /\ Len(r) = Len(s) + 1 /\ Len(s) \in Nat
        /\ Elements(r) = Elements(s) \cup {b}
        /\ \A i \in 1 .. Len(s) : r[i] = s[i]
    BY <2>1, <2>2, DistinctAppend
  <2> HIDE DEF r
  <2>4. y \in BatchT /\ y.blocks = r /\ y.self = x.self  BY <2>1, <2>3 DEF BatchT
  <2> HIDE DEF y
  <2>5. GoodBatch(y)
    <3>1. Len(s) # MaxCachedPerBatch  BY <1>4 DEF s
    <3>2. Len(r) \in 1 .. MaxCachedPerBatch /\ 1 \in 1 .. Len(s)  BY <2>1, <2>3, <3>1, Capacity
    <3> QED  BY <2>1, <2>3, <2>4, <3>2 DEF GoodBatch
  <2>6. t = <<>> => Len(y.blocks) >= 2 /\ y.blocks[2] = bg
    <3> SUFFICES ASSUME t = <<>> PROVE Len(r) >= 2 /\ r[2] = bg  BY <2>4
    <3>1. Len(s) >= 2 /\ s[2] = bg  BY <1>1 DEF s
    <3>2. 2 \in 1 .. Len(s)  BY <2>3, <3>1
    <3> QED  BY <2>3, <3>1, <3>2
  <2>7. Elements(y.blocks) = Elements(x.blocks) \cup {b}  BY <2>3, <2>4 DEF s
  <2>8. Elements(y.blocks) \cap ClassBlocks(t) = {}  BY <1>1, <2>7
  <2>9. /\ GoodBatches(bg, <<y>> \o t)
        /\ ClassBlocks(<<y>> \o t) = Elements(y.blocks) \cup ClassBlocks(t)
    <3>1. Behind(bg, t)  BY <1>1
    <3>2. /\ GoodBatch(y) /\ Elements(y.blocks) \cap ClassBlocks(t) = {}
          /\ t = <<>> => Len(y.blocks) >= 2 /\ y.blocks[2] = bg
      BY <2>5, <2>6, <2>8
    <3> HIDE DEF x, t
    <3> QED  BY ONLY <3>1, <3>2, ConsBatch, SMTT(30)
  <2>10. Filled(l, b) = <<y>> \o t  BY <1>4 DEF Filled, y, r, s, x, t
  <2> QED  BY <1>1, <2>7, <2>9, <2>10
<1> QED  BY <1>3, <1>4

\* The loop goes along the array, with the lists h[k] after k blocks.
FilledUp(l, array, h) ==
  /\ h \in [0 .. Len(array) -> BatchLists] /\ h[0] = l
  /\ \A k \in 0 .. Len(array) - 1 : h[k + 1] = Filled(h[k], array[k + 1])
  /\ B!Fill(l, array) = h[Len(array)]

LEMMA SameMax == \A S : B!Max(S) = F!Max(S)
BY Zenon DEF B!Max, F!Max

\* pushBatchClassBlocks() as a sequence of lists, one per block of the array.
LEMMA FillsUp ==
  ASSUME NEW l \in BatchLists, NEW array \in Seq(Ids)
  PROVE  \E h : FilledUp(l, array, h)
<1> DEFINE W == BatchLists
           n == Len(array)
           Op(r, i) == Filled(r, array[i])
           At(g, s) == IF s = {} THEN l ELSE Op(g[s \ {B!Max(s)}], B!Max(s))
           Folded(g) == g = [s \in SUBSET (1 .. n) |-> At(g, s)]
           fold == CHOOSE g : Folded(g)
<1>01. n \in Nat /\ DOMAIN array = 1 .. n /\ \A i \in 1 .. n : array[i] \in Ids  OBVIOUS
<1>02. B!Fill(l, array) = fold[1 .. n]
  <2>1. B!Fill(l, array) =
          (CHOOSE g : g = [s \in SUBSET (DOMAIN array) |->
             IF s = {} THEN l ELSE Filled(g[s \ {B!Max(s)}], array[B!Max(s)])])[DOMAIN array]
    BY Zenon DEF B!Fill, B!FoldLeft, B!MapThenFoldSet, Filled
  <2> QED  BY <1>01, <2>1, Zenon
<1> HIDE DEF n
<1>03. ASSUME NEW r \in W, NEW i \in 1 .. n PROVE Op(r, i) \in W
  BY <1>01, FilledType
<1>1. PICK Fn : Fn = [p \in W \X (1 .. n) |-> Op(p[1], p[2])]  OBVIOUS
<1>2. Fn \in [W \X (1 .. n) -> W]
  <2> HIDE DEF Op, W
  <2> QED  BY <1>03, <1>1
<1> HIDE DEF Op, W
<1>3. Folded(fold)
  <2>0. PICK g : FoldOf(n, W, l, Fn, g)
    <3>1. l \in W  BY DEF W
    <3> QED  BY <1>01, <1>2, <3>1, FoldExists, Zenon
  <2>1. g \in [SUBSET (1 .. n) -> W] /\ \A s \in SUBSET (1 .. n) : g[s] = FoldAt(l, Fn, g, s)
    BY <2>0 DEF FoldOf
  <2>2. ASSUME NEW s \in SUBSET (1 .. n) PROVE g[s] = At(g, s)
    <3>1. CASE s = {}  BY <2>1, <3>1 DEF FoldAt
    <3>2. CASE s # {}
      <4>0. B!Max(s) = F!Max(s)  BY SameMax
      <4>1. B!Max(s) \in 1 .. n /\ s \ {B!Max(s)} \in SUBSET (1 .. n)  BY <1>01, <3>2, <4>0, MaxOfPlaces
      <4>2. g[s \ {B!Max(s)}] \in W  BY <2>1, <4>1
      <4>3. Fn[<<g[s \ {B!Max(s)}], B!Max(s)>>] = Op(g[s \ {B!Max(s)}], B!Max(s))
        BY <1>1, <4>1, <4>2
      <4>4. g[s] = Fn[<<g[s \ {F!Max(s)}], F!Max(s)>>]  BY <2>1, <3>2, Zenon DEF FoldAt
      <4>5. g[s] = Fn[<<g[s \ {B!Max(s)}], B!Max(s)>>]  BY <4>0, <4>4, Zenon
      <4> QED  BY <3>2, <4>3, <4>5, Zenon
    <3> QED  BY <3>1, <3>2
  <2>3. g = [s \in SUBSET (1 .. n) |-> g[s]]  BY <2>1
  <2>4. Folded(g)  BY <2>2, <2>3, Zenon
  <2> QED  BY <2>4, Zenon
<1> DEFINE h == [k \in 0 .. n |-> fold[1 .. k]]
<1> HIDE DEF fold
<1>5. h[0] = l
  <2>1. fold[{}] = l  BY <1>3
  <2>2. 0 \in 0 .. n /\ 1 .. 0 = {}  BY <1>01
  <2> QED  BY <2>1, <2>2
<1>6. ASSUME NEW k \in 0 .. n - 1 PROVE h[k + 1] = Op(h[k], k + 1)
  <2>1. k \in Nat /\ k \in 0 .. n /\ k + 1 \in 0 .. n /\ 1 .. k + 1 \in SUBSET (1 .. n) /\ 1 .. k + 1 # {}
    BY <1>01, FirstPlaces, Zenon
  <2>2. fold[1 .. k + 1] = At(fold, 1 .. k + 1)  BY <1>3, <2>1, Zenon
  <2>3. B!Max(1 .. k + 1) = k + 1 /\ (1 .. k + 1) \ {k + 1} = 1 .. k  BY <2>1, MaxOfRange, SameMax
  <2>4. fold[1 .. k + 1] = Op(fold[1 .. k], k + 1)  BY <2>1, <2>2, <2>3, Zenon
  <2> QED  BY <2>1, <2>4
<1>7. \A k \in 0 .. n : h[k] \in W
  <2> HIDE DEF h
  <2>1. \A k \in 0 .. n - 1 : k + 1 \in 1 .. n  BY <1>01
  <2>2. \A k \in 0 .. n - 1 : h[k] \in W => h[k + 1] \in W
    <3> SUFFICES ASSUME NEW k \in 0 .. n - 1, h[k] \in W PROVE h[k + 1] \in W  OBVIOUS
    <3>1. Op(h[k], k + 1) \in W  BY <1>03, <2>1
    <3> QED  BY <1>6, <3>1
  <2>3. h[0] \in W /\ n \in Nat  BY <1>01, <1>5 DEF W
  <2> QED  BY <2>2, <2>3, FoldTyped
<1>8. B!Fill(l, array) = h[n]
  <2>1. n \in 0 .. n  BY <1>01
  <2> QED  BY <1>02, <2>1
<1>9. h \in [0 .. n -> W]  BY <1>7
<1> HIDE DEF h
<1>10. \A k \in 0 .. n - 1 : h[k + 1] = Filled(h[k], array[k + 1])  BY <1>6 DEF Op
<1> QED  BY <1>5, <1>8, <1>9, <1>10 DEF FilledUp, n, W

FirstOf(s, k) == {s[i] : i \in 1 .. k}

\* The whole array of blocks, none of which the list has.
LEMMA Fills ==
  ASSUME NEW bg, NEW l, GoodBatches(bg, l), NEW array \in Seq(Ids), Distinct(array),
         Elements(array) \cap ClassBlocks(l) = {}
  PROVE  /\ GoodBatches(bg, B!Fill(l, array))
         /\ ClassBlocks(B!Fill(l, array)) = ClassBlocks(l) \cup Elements(array)
<1>1. l \in BatchLists  BY DEF BatchLists, GoodBatches
<1>2. PICK h : FilledUp(l, array, h)  BY <1>1, FillsUp
<1> DEFINE n == Len(array)
           Q(k) == GoodBatches(bg, h[k]) /\ ClassBlocks(h[k]) = ClassBlocks(l) \cup FirstOf(array, k)
           U == {k \in Nat : k =< n => Q(k)}
<1>3. n \in Nat /\ DOMAIN array = 1 .. n /\ \A i \in 1 .. n : array[i] \in Ids /\ array[i] \in Elements(array)
  BY DEF Elements
<1>4. /\ h[0] = l /\ \A k \in 0 .. n - 1 : h[k + 1] = Filled(h[k], array[k + 1])
      /\ B!Fill(l, array) = h[n]
  BY <1>2 DEF FilledUp
<1> HIDE DEF n
<1>5. 0 \in U
  <2>1. FirstOf(array, 0) = {}  BY DEF FirstOf
  <2>2. Q(0)  BY <1>4, <2>1
  <2> QED  BY <2>2
<1>6. ASSUME NEW k \in Nat, k \in U PROVE k + 1 \in U
  <2> SUFFICES ASSUME k + 1 =< n PROVE Q(k + 1)  OBVIOUS
  <2>1. k \in 0 .. n - 1 /\ k + 1 \in 1 .. n /\ k =< n  BY <1>3
  <2>2. Q(k)  BY <1>6, <2>1
  <2> DEFINE b == array[k + 1]
  <2>3. b \in Ids /\ b \in Elements(array)  BY <1>3, <2>1
  <2>4. b \notin FirstOf(array, k)
    <3> SUFFICES ASSUME NEW i \in 1 .. k, array[i] = b PROVE FALSE  BY DEF FirstOf
    <3>1. i \in DOMAIN array /\ k + 1 \in DOMAIN array /\ i # k + 1  BY <1>3, <2>1
    <3> QED  BY <3>1 DEF Distinct
  <2>5. b \notin ClassBlocks(h[k])  BY <2>2, <2>3, <2>4
  <2>6. /\ GoodBatches(bg, Filled(h[k], b))
        /\ ClassBlocks(Filled(h[k], b)) = ClassBlocks(h[k]) \cup {b}
    <3> HIDE DEF b
    <3> QED  BY <2>2, <2>3, <2>5, FillsOne
  <2>7. FirstOf(array, k + 1) = FirstOf(array, k) \cup {b}
    <3>1. 1 .. k + 1 = (1 .. k) \cup {k + 1}  OBVIOUS
    <3> QED  BY <3>1 DEF FirstOf
  <2>8. h[k + 1] = Filled(h[k], b)  BY <1>4, <2>1
  <2> HIDE DEF b
  <2> QED  BY <2>2, <2>6, <2>7, <2>8
<1>7. Q(n)
  <2>1. Nat \subseteq U
    <3> HIDE DEF U
    <3> QED  BY <1>5, <1>6, Induction
  <2>2. n =< n  BY <1>3
  <2> HIDE DEF Q
  <2> QED  BY <1>3, <2>1, <2>2
<1>8. FirstOf(array, n) = Elements(array)  BY <1>3 DEF FirstOf, Elements
<1> QED  BY <1>4, <1>7, <1>8

\* The last block of an array, and the others.
LEMMA LastFront ==
  ASSUME NEW s \in Seq(Ids), Distinct(s), s # <<>>
  PROVE  /\ B!Last(s) \in Ids /\ B!Front(s) \in Seq(Ids) /\ Distinct(B!Front(s))
         /\ B!Last(s) \notin Elements(B!Front(s))
         /\ Elements(s) = Elements(B!Front(s)) \cup {B!Last(s)}
<1> DEFINE n == Len(s)
           f == SubSeq(s, 1, n - 1)
<1>1. B!Last(s) = s[n] /\ B!Front(s) = f  BY DEF B!Last, B!Front
<1>2. n \in Nat \ {0} /\ DOMAIN s = 1 .. n /\ \A i \in 1 .. n : s[i] \in Ids  OBVIOUS
<1>3. f \in Seq(Ids) /\ Len(f) = n - 1 /\ \A i \in 1 .. n - 1 : f[i] = s[i]
  <2>1. n - 1 \in 0 .. Len(s)  BY <1>2
  <2> HIDE DEF n
  <2> QED  BY ONLY <2>1, s \in Seq(Ids), SubSeqOf
<1> HIDE DEF n, f
<1>4. DOMAIN f = 1 .. n - 1 /\ n \in DOMAIN s /\ \A i \in 1 .. n - 1 : i \in DOMAIN s /\ i # n
  <2>1. DOMAIN f = 1 .. Len(f)  BY <1>3
  <2> QED  BY <1>2, <1>3, <2>1
<1>5. Distinct(f) /\ s[n] \notin Elements(f)  BY <1>3, <1>4 DEF Distinct, Elements
<1>6. \A i \in DOMAIN s : i = n \/ i \in 1 .. n - 1  BY <1>2
<1>7. Elements(s) = Elements(f) \cup {s[n]}
  <2>1. Elements(s) \subseteq Elements(f) \cup {s[n]}  BY <1>3, <1>4, <1>6 DEF Elements
  <2>2. Elements(f) \subseteq Elements(s) /\ s[n] \in Elements(s)  BY <1>3, <1>4 DEF Elements
  <2> QED  BY <2>1, <2>2
<1> QED  BY <1>1, <1>2, <1>3, <1>4, <1>5, <1>7

LEMMA TwoListed ==
  ASSUME NEW x, NEW y
  PROVE  Elements(<<x, y>>) = {x, y} /\ Len(<<x, y>>) = 2 /\ <<x, y>>[1] = x /\ <<x, y>>[2] = y
<1>1. DOMAIN <<x, y>> = {1, 2}  OBVIOUS
<1> QED  BY <1>1 DEF Elements

\* The second half of pushBatchClassBlocks(), when there is a group.
LEMMA PushesToGroup ==
  ASSUME NEW bg \in Ids, NEW l, Behind(bg, l), NEW array \in Seq(Ids), Distinct(array),
         Elements(array) \cap Listing(bg, l) = {}
  PROVE  /\ Behind(bg, B!pushToGroup(bg, l, array))
         /\ Listing(bg, B!pushToGroup(bg, l, array)) = Listing(bg, l) \cup Elements(array)
<1> DEFINE r == B!pushToGroup(bg, l, array)
<1>0. bg # None /\ {bg} \ {None} = {bg}  BY Capacity
<1>1. CASE array = <<>>
  <2>1. r = l  BY <1>1 DEF B!pushToGroup
  <2>2. Elements(array) = {}  BY <1>1 DEF Elements
  <2> QED  BY <2>1, <2>2
<1>2. CASE array # <<>> /\ l # <<>>
  <2>1. r = B!Fill(l, array)  BY <1>2 DEF B!pushToGroup
  <2>2. GoodBatches(bg, l) /\ Listing(bg, l) = ClassBlocks(l)  BY <1>2 DEF Behind, Listing
  <2>3. GoodBatches(bg, r) /\ ClassBlocks(r) = ClassBlocks(l) \cup Elements(array)  BY <2>1, <2>2, Fills
  <2>4. r # <<>>  BY <2>3 DEF GoodBatches
  <2> QED  BY <2>2, <2>3, <2>4 DEF Behind, Listing
<1>3. CASE array # <<>> /\ l = <<>>
  <2> DEFINE z == B!Last(array)
             f == B!Front(array)
             x == B!Batch(z, <<z, bg>>)
  <2>1. r = B!Fill(<<x>>, f)  BY <1>3 DEF B!pushToGroup
  <2>2. /\ z \in Ids /\ f \in Seq(Ids) /\ Distinct(f) /\ z \notin Elements(f)
        /\ Elements(array) = Elements(f) \cup {z}
    BY <1>3, LastFront
  <2>3. Listing(bg, l) = {bg}  BY <1>0, <1>3 DEF Listing
  <2>4. z # bg /\ bg \notin Elements(f)  BY <2>2, <2>3
  <2> HIDE DEF z, f
  <2>5. x.self = z /\ x.blocks = <<z, bg>> /\ x \in BatchT
    <3>1. <<z, bg>> \in Seq(Ids)  BY <2>2
    <3>2. x = [self |-> z, blocks |-> <<z, bg>>]  BY DEF B!Batch
    <3> HIDE DEF x
    <3> QED  BY <2>2, <3>1, <3>2 DEF BatchT
  <2>6. Elements(<<z, bg>>) = {z, bg} /\ Len(<<z, bg>>) = 2 /\ <<z, bg>>[1] = z /\ <<z, bg>>[2] = bg
    BY TwoListed
  <2>7. Distinct(<<z, bg>>)
    <3>1. DOMAIN <<z, bg>> = {1, 2}  OBVIOUS
    <3> QED  BY <2>4, <2>6, <3>1 DEF Distinct
  <2>8. 2 \in 1 .. MaxCachedPerBatch  BY Capacity
  <2> HIDE DEF x
  <2>9. GoodBatch(x)  BY <2>5, <2>6, <2>7, <2>8 DEF GoodBatch
  <2>10. GoodBatches(bg, <<x>>) /\ ClassBlocks(<<x>>) = {z, bg}
    <3> DEFINE t == <<>>
    <3>1. Behind(bg, t) /\ ClassBlocks(t) = {}  BY DEF Behind, ClassBlocks
    <3>2. Elements(x.blocks) = {z, bg} /\ Len(x.blocks) >= 2 /\ x.blocks[2] = bg  BY <2>5, <2>6
    <3> HIDE DEF t
    <3>3. /\ GoodBatches(bg, <<x>> \o t)
          /\ ClassBlocks(<<x>> \o t) = Elements(x.blocks) \cup ClassBlocks(t)
      <4>1. Elements(x.blocks) \cap ClassBlocks(t) = {}  BY <3>1
      <4>2. t = <<>> => Len(x.blocks) >= 2 /\ x.blocks[2] = bg  BY <3>2
      <4> QED  BY <2>9, <3>1, <4>1, <4>2, ConsBatch, ZenonT(40)
    <3>4. <<x>> \o <<>> = <<x>>
      <4>1. x \in BatchT /\ <<x>> \in Seq(BatchT)  BY <2>5
      <4> QED  BY <4>1
    <3> QED  BY <3>1, <3>2, <3>3, <3>4 DEF t
  <2>11. Elements(f) \cap ClassBlocks(<<x>>) = {}  BY <2>2, <2>4, <2>10
  <2>12. GoodBatches(bg, r) /\ ClassBlocks(r) = {z, bg} \cup Elements(f)  BY <2>1, <2>2, <2>10, <2>11, Fills
  <2>13. r # <<>>  BY <2>12 DEF GoodBatches
  <2> QED  BY <2>2, <2>3, <2>12, <2>13 DEF Behind, Listing
<1> QED  BY <1>1, <1>2, <1>3

\* pushBatchClassBlocks() lists every new block once.
LEMMA PushesClass ==
  ASSUME NEW bg, NEW l, GoodClass(bg, l), NEW array \in Seq(Ids), Distinct(array), array # <<>>,
         Elements(array) \cap Listing(bg, l) = {}
  PROVE  LET p == B!pushBatchClassBlocks(bg, l, array) IN
         /\ GoodClass(p.bg, p.list) /\ Listing(p.bg, p.list) = Listing(bg, l) \cup Elements(array)
<1> DEFINE p == B!pushBatchClassBlocks(bg, l, array)
<1>1. CASE bg = None
  <2> DEFINE z == B!Last(array)
             f == B!Front(array)
             r == B!pushToGroup(z, l, f)
  <2>1. /\ z \in Ids /\ f \in Seq(Ids) /\ Distinct(f) /\ z \notin Elements(f)
        /\ Elements(array) = Elements(f) \cup {z}
    BY LastFront
  <2>2. l = <<>>  BY <1>1, Capacity DEF GoodClass
  <2>3. p.bg = z /\ p.list = r  BY <1>1 DEF B!pushBatchClassBlocks
  <2> HIDE DEF z, f, p
  <2>4. Behind(z, l) /\ Listing(z, l) = {z}
    <3>1. z # None  BY <2>1, Capacity
    <3> QED  BY <2>2, <3>1 DEF Behind, Listing
  <2>5. Behind(z, r) /\ Listing(z, r) = {z} \cup Elements(f)
    <3>1. Elements(f) \cap Listing(z, l) = {}  BY <2>1, <2>4
    <3> QED  BY <2>1, <2>4, <3>1, PushesToGroup
  <2>6. Listing(bg, l) = {}  BY <1>1, <2>2 DEF Listing
  <2> HIDE DEF r
  <2> QED  BY <2>1, <2>3, <2>5, <2>6 DEF GoodClass, p
<1>2. CASE bg # None
  <2> DEFINE r == B!pushToGroup(bg, l, array)
  <2>1. p.bg = bg /\ p.list = r  BY <1>2 DEF B!pushBatchClassBlocks
  <2>2. bg \in Ids /\ Behind(bg, l)  BY <1>2 DEF GoodClass
  <2>3. Behind(bg, r) /\ Listing(bg, r) = Listing(bg, l) \cup Elements(array)  BY <2>2, PushesToGroup
  <2> HIDE DEF r, p
  <2> QED  BY <2>1, <2>2, <2>3 DEF GoodClass, p
<1> QED  BY <1>1, <1>2

\* popBlocksImpl() of the batch class takes all blocks that a batch lists, its own
\* included, and with the last batch that of the group.
LEMMA PopsClass ==
  ASSUME NEW bg, NEW l, GoodClass(bg, l), bg # None
  PROVE  LET p == B!popBlocksImpl(bg, l) IN
         /\ GoodClass(p.bg, p.list) /\ p.popped # {}
         /\ Listing(bg, l) = p.popped \cup Listing(p.bg, p.list)
         /\ p.popped \cap Listing(p.bg, p.list) = {}
<1> DEFINE p == B!popBlocksImpl(bg, l)
<1>0. bg \in Ids /\ Behind(bg, l)  BY DEF GoodClass
<1>1. CASE l = <<>>
  <2>1. p = [popped |-> {bg}, bg |-> None, list |-> <<>>]  BY <1>1 DEF B!popBlocksImpl
  <2>2. p.popped = {bg} /\ p.bg = None /\ p.list = <<>>  BY <2>1
  <2> HIDE DEF p
  <2>3. Listing(p.bg, p.list) = {} /\ Listing(bg, l) = {bg}  BY <1>1, <2>2 DEF Listing
  <2> QED  BY <2>2, <2>3 DEF GoodClass, p
<1>2. CASE l # <<>>
  <2> DEFINE x == Head(l)
             t == Tail(l)
             e == B!ToSet(x.blocks)
             g == IF t = <<>> THEN None ELSE bg
  <2>1. GoodBatches(bg, l)  BY <1>0, <1>2 DEF Behind
  <2>2. /\ GoodBatch(x) /\ Behind(bg, t) /\ Elements(x.blocks) \cap ClassBlocks(t) = {}
        /\ ClassBlocks(l) = Elements(x.blocks) \cup ClassBlocks(t)
    BY <2>1, SplitBatch
  <2>3. p = [popped |-> e, list |-> t, bg |-> g]  BY <1>2, Zenon DEF B!popBlocksImpl
  <2>4. e = Elements(x.blocks)  BY DEF B!ToSet, Elements
  <2> HIDE DEF x, t, e, g, p
  <2>5. p.popped = e /\ p.list = t /\ p.bg = g  BY <2>3
  <2>6. e # {}
    <3>1. Len(x.blocks) \in 1 .. MaxCachedPerBatch /\ x.blocks \in Seq(Ids)  BY <2>2, BatchFields DEF GoodBatch
    <3>2. 1 \in DOMAIN x.blocks  BY <3>1
    <3> QED  BY <2>4, <3>2 DEF Elements
  <2>7. Listing(bg, l) = ClassBlocks(l)  BY <1>2 DEF Listing
  <2>8. Listing(g, t) = ClassBlocks(t)
    <3>1. ClassBlocks(<<>>) = {}  BY DEF ClassBlocks
    <3> QED  BY <3>1 DEF Listing, g
  <2>9. GoodClass(g, t)  BY <1>0, <2>2 DEF GoodClass, g
  <2> QED  BY <2>2, <2>4, <2>5, <2>6, <2>7, <2>8, <2>9 DEF p
<1> QED  BY <1>1, <1>2

LEMMA ClassCardinality == \A S : B!Cardinality(S) = Cardinality(S)
BY DEF B!Cardinality, Cardinality

LEMMA IsSequence ==
  ASSUME NEW S, NEW n \in Nat, NEW f \in [1 .. n -> S]
  PROVE  f \in Seq(S) /\ Len(f) = n
<1>1. f \in Seq(S)  OBVIOUS
<1>2. DOMAIN f = 1 .. Len(f) /\ Len(f) \in Nat /\ DOMAIN f = 1 .. n  BY <1>1
<1> QED  BY <1>1, <1>2

\* The arrays of the blocks of a set list each of them once.
LEMMA ArrayOf ==
  ASSUME NEW S \in SUBSET Ids, IsFiniteSet(S), NEW array \in B!SetToSeqs(S)
  PROVE  /\ array \in Seq(Ids) /\ Distinct(array) /\ Len(array) = Cardinality(S)
         /\ Elements(array) = S
<1> DEFINE n == Cardinality(S)
<1>1. n \in Nat  BY FS_CardinalityType
<1>2. array \in [1 .. n -> S] /\ \A i, j \in 1 .. n : i # j => array[i] # array[j]
  BY ClassCardinality DEF B!SetToSeqs
<1> HIDE DEF n
<1>3. array \in Seq(S) /\ Len(array) = n  BY <1>1, <1>2, IsSequence
<1>4. array \in Injection(1 .. n, S)  BY <1>2 DEF Injection, IsInjective
<1>5. IsFiniteSet(1 .. n) /\ Cardinality(1 .. n) = n  BY <1>1, FS_Interval
<1>6. array \in Surjection(1 .. n, S)  BY <1>4, <1>5, FS_Injection DEF n
<1>7. Elements(array) = S  BY <1>2, <1>6 DEF Elements, Surjection
<1>8. Distinct(array)  BY <1>2 DEF Distinct
<1>9. array \in Seq(Ids)
  <2>1. array \in [1 .. n -> Ids]  BY <1>2
  <2> QED  BY <1>1, <2>1, IsSequence
<1> QED  BY <1>3, <1>7, <1>8, <1>9 DEF n

Cells(l, b) ==
  {x \in (DOMAIN l) \X (1 .. MaxCachedPerBatch) :
     x[2] =< Len(l[x[1]].blocks) /\ l[x[1]].blocks[x[2]] = b}

\* A block of good batches is in one place of them.
LEMMA CellsOf ==
  ASSUME NEW bg, NEW l, GoodBatches(bg, l), NEW b
  PROVE  Cardinality(Cells(l, b)) = IF b \in ClassBlocks(l) THEN 1 ELSE 0
<1> DEFINE C == Cells(l, b)
<1>1. /\ l \in Seq(BatchT) /\ \A i \in DOMAIN l : GoodBatch(l[i])
      /\ \A i, j \in DOMAIN l : i # j => Elements(l[i].blocks) \cap Elements(l[j].blocks) = {}
  BY DEF GoodBatches
<1>2. ASSUME NEW i \in DOMAIN l
      PROVE  /\ l[i].blocks \in Seq(Ids) /\ Distinct(l[i].blocks)
             /\ DOMAIN l[i].blocks = 1 .. Len(l[i].blocks) /\ Len(l[i].blocks) \in Nat
             /\ Len(l[i].blocks) =< MaxCachedPerBatch
  <2>1. l[i] \in BatchT /\ Distinct(l[i].blocks) /\ Len(l[i].blocks) \in 1 .. MaxCachedPerBatch
    BY <1>1 DEF GoodBatch
  <2>2. l[i].blocks \in Seq(Ids)  BY <2>1, BatchFields
  <2> DEFINE s == l[i].blocks
  <2> HIDE DEF s
  <2>3. s \in Seq(Ids) /\ Len(s) \in 1 .. MaxCachedPerBatch  BY <2>1, <2>2 DEF s
  <2>4. DOMAIN s = 1 .. Len(s) /\ Len(s) \in Nat /\ Len(s) =< MaxCachedPerBatch  BY <2>3, Capacity
  <2> QED  BY <2>1, <2>2, <2>4 DEF s
<1>3. ASSUME NEW x \in C PROVE x[1] \in DOMAIN l /\ x[2] \in DOMAIN l[x[1]].blocks /\ l[x[1]].blocks[x[2]] = b
                               /\ x = <<x[1], x[2]>>
  <2>1. x \in (DOMAIN l) \X (1 .. MaxCachedPerBatch) /\ x[2] =< Len(l[x[1]].blocks) /\ l[x[1]].blocks[x[2]] = b
    BY DEF Cells
  <2>2. x[1] \in DOMAIN l /\ x[2] \in 1 .. MaxCachedPerBatch /\ x = <<x[1], x[2]>>  BY <2>1
  <2>3. x[2] \in 1 .. Len(l[x[1]].blocks)
    <3>1. Len(l[x[1]].blocks) \in Nat  BY <1>2, <2>2
    <3> QED  BY <2>1, <2>2, <3>1, Capacity
  <2> QED  BY <1>2, <2>1, <2>2, <2>3
<1>4. CASE b \in ClassBlocks(l)
  <2>1. PICK i \in DOMAIN l : b \in Elements(l[i].blocks)  BY <1>4 DEF ClassBlocks
  <2>2. PICK j \in DOMAIN l[i].blocks : b = l[i].blocks[j]  BY <2>1 DEF Elements
  <2>3. <<i, j>> \in C
    <3>1. j \in 1 .. MaxCachedPerBatch /\ j =< Len(l[i].blocks)  BY <1>2, Capacity
    <3> QED  BY <2>2, <3>1 DEF Cells
  <2>4. ASSUME NEW x \in C PROVE x = <<i, j>>
    <3>1. x[1] \in DOMAIN l /\ x[2] \in DOMAIN l[x[1]].blocks /\ l[x[1]].blocks[x[2]] = b /\ x = <<x[1], x[2]>>
      BY <1>3
    <3>2. b \in Elements(l[x[1]].blocks)  BY <3>1 DEF Elements
    <3>3. x[1] = i  BY <1>1, <2>1, <3>1, <3>2
    <3>4. x[2] = j  BY <1>2, <2>2, <3>1, <3>3 DEF Distinct
    <3> QED  BY <3>1, <3>3, <3>4
  <2> HIDE DEF C
  <2>5. C = {<<i, j>>}  BY <2>3, <2>4
  <2>6. Cardinality({<<i, j>>}) = 1  BY FS_Singleton
  <2> QED  BY <1>4, <2>5, <2>6 DEF C
<1>5. CASE b \notin ClassBlocks(l)
  <2>1. ASSUME NEW x \in C PROVE FALSE
    <3>1. x[1] \in DOMAIN l /\ x[2] \in DOMAIN l[x[1]].blocks /\ l[x[1]].blocks[x[2]] = b  BY <1>3
    <3> QED  BY <1>5, <3>1 DEF ClassBlocks, Elements
  <2> HIDE DEF C
  <2>2. C = {}  BY <2>1
  <2>3. Cardinality({}) = 0  BY FS_EmptySet
  <2> QED  BY <1>5, <2>2, <2>3 DEF C
<1> QED  BY <1>4, <1>5

\* Listed counts one place for a free block and none for another.
LEMMA ListedIs ==
  ASSUME GoodClass(BG, batches), NEW b \in Ids
  PROVE  B!Listed(b) = IF b \in Listing(BG, batches) THEN 1 ELSE 0
<1>1. B!Listed(b) = (IF batches = <<>> /\ BG = b THEN 1 ELSE 0) + Cardinality(Cells(batches, b))
  BY ClassCardinality DEF B!Listed, Cells
<1>2. CASE batches = <<>>
  <2>1. Cells(batches, b) = {}  BY <1>2 DEF Cells
  <2>2. Cardinality({}) = 0  BY FS_EmptySet
  <2>3. b # None  BY Capacity
  <2>4. B!Listed(b) = (IF BG = b THEN 1 ELSE 0) + 0
    <3>1. Cardinality(Cells(batches, b)) = 0  BY <2>1, <2>2
    <3> QED  BY <1>1, <1>2, <3>1
  <2>5. b \in Listing(BG, batches) <=> BG = b  BY <1>2, <2>3 DEF Listing
  <2> QED  BY <2>4, <2>5
<1>3. CASE batches # <<>>
  <2>1. GoodBatches(BG, batches)  BY <1>3 DEF GoodClass, Behind
  <2>2. Cardinality(Cells(batches, b)) = IF b \in ClassBlocks(batches) THEN 1 ELSE 0  BY <2>1, CellsOf
  <2>3. B!Listed(b) = 0 + Cardinality(Cells(batches, b))  BY <1>1, <1>3
  <2>4. Listing(BG, batches) = ClassBlocks(batches)  BY <1>3 DEF Listing
  <2> QED  BY <2>2, <2>3, <2>4
<1> QED  BY <1>2, <1>3

\* The records of the freelist are in blocks that it lists.
LEMMA StructureListed ==
  ASSUME GoodClass(BG, batches)
  PROVE  B!Structure \subseteq Listing(BG, batches)
<1>1. CASE batches = <<>>  BY <1>1 DEF B!Structure, Listing
<1>2. CASE batches # <<>>
  <2>1. GoodBatches(BG, batches)  BY <1>2 DEF GoodClass, Behind
  <2>2. Listing(BG, batches) = ClassBlocks(batches)  BY <1>2 DEF Listing
  <2>3. /\ batches \in Seq(BatchT) /\ \A i \in DOMAIN batches : GoodBatch(batches[i])
        /\ Len(batches[Len(batches)].blocks) >= 2 /\ batches[Len(batches)].blocks[2] = BG
    BY <2>1 DEF GoodBatches
  <2>4. ASSUME NEW i \in DOMAIN batches
        PROVE  /\ \A j \in 1 .. Len(batches[i].blocks) : batches[i].blocks[j] \in ClassBlocks(batches)
               /\ Len(batches[i].blocks) \in Nat \ {0} /\ batches[i].self = batches[i].blocks[1]
    <3>1. /\ batches[i] \in BatchT /\ Len(batches[i].blocks) \in 1 .. MaxCachedPerBatch
          /\ batches[i].self = batches[i].blocks[1]
      BY <2>3 DEF GoodBatch
    <3>2. batches[i].blocks \in Seq(Ids)  BY <3>1, BatchFields
    <3>3. DOMAIN batches[i].blocks = 1 .. Len(batches[i].blocks)  BY <3>2
    <3>4. Len(batches[i].blocks) \in Nat \ {0}  BY <3>1, Capacity
    <3> QED  BY <3>1, <3>3, <3>4 DEF ClassBlocks, Elements
  <2>5. ASSUME NEW i \in DOMAIN batches PROVE batches[i].self \in ClassBlocks(batches)
    <3>1. 1 \in 1 .. Len(batches[i].blocks)  BY <2>4
    <3> QED  BY <2>4, <3>1
  <2>6. BG \in ClassBlocks(batches)
    <3>1. Len(batches) \in DOMAIN batches
      <4>1. Len(batches) \in Nat /\ Len(batches) # 0 /\ DOMAIN batches = 1 .. Len(batches)
        BY <1>2, <2>3
      <4> QED  BY <4>1
    <3>2. 2 \in 1 .. Len(batches[Len(batches)].blocks)  BY <2>3, <2>4, <3>1
    <3> QED  BY <2>3, <2>4, <3>1, <3>2
  <2> QED  BY <2>2, <2>5, <2>6 DEF B!Structure
<1> QED  BY <1>1, <1>2

\* What holds of the batch class: each of its blocks is listed as free or held.
BatchClassOk ==
  /\ GoodClass(BG, batches)
  /\ Listing(BG, batches) \cap batchesHeld = {}
  /\ Listing(BG, batches) \cup batchesHeld = 0 .. batchesAllocated - 1
  /\ batchesAllocated \in 0 .. NumBatchBlocks
  /\ batchesInUse = Cardinality(batchesHeld)
  /\ populating \in BOOLEAN
  /\ populating => batchesAllocated < NumBatchBlocks

ClassPush ==
  \E S \in SUBSET batchesHeld :
    S # {} /\ batchesHeld' = batchesHeld \ S /\ Listing(BG', batches') = Listing(BG, batches) \cup S
ClassPop ==
  /\ batchesHeld \subseteq batchesHeld' /\ batchesHeld # batchesHeld'
  /\ Listing(BG', batches') \cap batchesHeld' = {}
  /\ Listing(BG, batches) \cup batchesHeld \subseteq Listing(BG', batches') \cup batchesHeld'
ClassKept == batchesHeld' = batchesHeld /\ Listing(BG', batches') = Listing(BG, batches)

\* The sets of blocks are finite.
LEMMA ClassHeldFinite ==
  ASSUME BatchClassOk
  PROVE  /\ IsFiniteSet(batchesHeld) /\ batchesHeld \in SUBSET Ids
         /\ Listing(BG, batches) \in SUBSET Ids /\ IsFiniteSet(Listing(BG, batches))
         /\ batchesAllocated \in Nat /\ NumBatchBlocks \in Nat /\ batchesAllocated =< NumBatchBlocks
         /\ Cardinality(batchesHeld) \in Nat
<1>1. batchesAllocated \in Nat /\ NumBatchBlocks \in Nat /\ batchesAllocated =< NumBatchBlocks
  BY Capacity DEF BatchClassOk
<1>2. /\ batchesHeld \in SUBSET (0 .. batchesAllocated - 1)
      /\ Listing(BG, batches) \in SUBSET (0 .. batchesAllocated - 1)
  BY DEF BatchClassOk
<1>3. IsFiniteSet(0 .. batchesAllocated - 1)  BY <1>1, FS_Interval
<1>4. IsFiniteSet(batchesHeld) /\ IsFiniteSet(Listing(BG, batches))  BY <1>2, <1>3, FS_Subset
<1>5. 0 .. batchesAllocated - 1 \subseteq Ids  BY <1>1 DEF Ids
<1>6. Cardinality(batchesHeld) \in Nat  BY <1>4, FS_CardinalityType
<1> QED  BY <1>1, <1>2, <1>4, <1>5, <1>6

\* At the start there is no block.
LEMMA BatchClassInit == B!Init => BatchClassOk /\ Listing(BG, batches) = {} /\ batchesHeld = {}
<1> SUFFICES ASSUME B!Init PROVE BatchClassOk /\ Listing(BG, batches) = {} /\ batchesHeld = {}  OBVIOUS
<1>1. /\ BG = None /\ batches = <<>> /\ batchesHeld = {} /\ batchesAllocated = 0 /\ batchesInUse = 0
      /\ populating = FALSE
  BY DEF B!Init
<1>2. GoodClass(BG, batches) /\ Listing(BG, batches) = {}  BY <1>1 DEF GoodClass, Listing
<1>3. Cardinality({}) = 0  BY FS_EmptySet
<1>4. batchesInUse = Cardinality(batchesHeld)  BY <1>1, <1>3
<1>5. batchesAllocated \in 0 .. NumBatchBlocks /\ 0 .. batchesAllocated - 1 = {}  BY <1>1, Capacity
<1>6. populating \in BOOLEAN /\ ~populating  BY <1>1
<1>7. /\ Listing(BG, batches) \cap batchesHeld = {}
      /\ Listing(BG, batches) \cup batchesHeld = 0 .. batchesAllocated - 1
  BY <1>1, <1>2, <1>5
<1> QED  BY <1>1, <1>2, <1>4, <1>5, <1>6, <1>7 DEF BatchClassOk

\* A pop takes out a whole batch, or the block of a group that has none.
LEMMA BatchClassPop ==
  ASSUME BatchClassOk, B!Pop
  PROVE  BatchClassOk' /\ ClassPop
<1> DEFINE p == B!popBlocksImpl(BG, batches)
           L == Listing(BG, batches)
           M1 == Listing(p.bg, p.list)
<1>1. /\ BG # None /\ BG' = p.bg /\ batches' = p.list /\ batchesHeld' = batchesHeld \cup p.popped
      /\ batchesInUse' = batchesInUse + B!Cardinality(p.popped)
      /\ batchesAllocated' = batchesAllocated /\ populating' = populating
  BY DEF B!Pop
<1>2. /\ GoodClass(BG, batches) /\ L \cap batchesHeld = {}
      /\ L \cup batchesHeld = 0 .. batchesAllocated - 1
  BY DEF BatchClassOk
<1>3. /\ GoodClass(p.bg, p.list) /\ p.popped # {} /\ L = p.popped \cup M1 /\ p.popped \cap M1 = {}
  BY <1>1, <1>2, PopsClass
<1>4. Listing(BG', batches') = M1  BY <1>1
<1> HIDE DEF p, L, M1
<1>5. batchesInUse' = Cardinality(batchesHeld')
  <2>1. IsFiniteSet(p.popped)  BY <1>3, ClassHeldFinite, FS_Subset DEF L
  <2>2. batchesHeld \cap p.popped = {}  BY <1>2, <1>3
  <2>3. Cardinality(batchesHeld \cup p.popped) = Cardinality(batchesHeld) + Cardinality(p.popped)
    BY <2>1, <2>2, ClassHeldFinite, CardinalityOfUnion
  <2>4. B!Cardinality(p.popped) = Cardinality(p.popped)  BY ClassCardinality
  <2>5. batchesInUse = Cardinality(batchesHeld)  BY DEF BatchClassOk
  <2> QED  BY <1>1, <2>3, <2>4, <2>5
<1>6. GoodClass(BG', batches')  BY <1>1, <1>3
<1>7. M1 \cap batchesHeld' = {} /\ M1 \cup batchesHeld' = 0 .. batchesAllocated' - 1  BY <1>1, <1>2, <1>3
<1>8. BatchClassOk'  BY <1>1, <1>4, <1>5, <1>6, <1>7 DEF BatchClassOk
<1>9. ClassPop
  <2>1. batchesHeld \subseteq batchesHeld' /\ batchesHeld # batchesHeld'  BY <1>1, <1>2, <1>3
  <2>2. L \cup batchesHeld \subseteq M1 \cup batchesHeld'  BY <1>1, <1>2, <1>7
  <2> QED  BY <1>4, <1>7, <2>1, <2>2 DEF ClassPop, L
<1> QED  BY <1>8, <1>9

\* pushBatchClassBlocks() lists the blocks of the caller.
LEMMA BatchClassPush ==
  ASSUME BatchClassOk, NEW S \in SUBSET batchesHeld, NEW array \in B!SetToSeqs(S), B!Push(array)
  PROVE  BatchClassOk' /\ ClassPush
<1> DEFINE p == B!pushBatchClassBlocks(BG, batches, array)
           L == Listing(BG, batches)
           M1 == Listing(p.bg, p.list)
<1>1. /\ array # <<>> /\ BG' = p.bg /\ batches' = p.list /\ batchesHeld' = batchesHeld \ B!ToSet(array)
      /\ batchesInUse' = batchesInUse - Len(array)
      /\ batchesAllocated' = batchesAllocated /\ populating' = populating
  BY DEF B!Push
<1>2. /\ GoodClass(BG, batches) /\ L \cap batchesHeld = {}
      /\ L \cup batchesHeld = 0 .. batchesAllocated - 1
  BY DEF BatchClassOk
<1>3. S \in SUBSET Ids /\ IsFiniteSet(S)  BY ClassHeldFinite, FS_Subset
<1>4. array \in Seq(Ids) /\ Distinct(array) /\ Len(array) = Cardinality(S) /\ Elements(array) = S
  BY <1>3, ArrayOf
<1>5. B!ToSet(array) = S  BY <1>4 DEF B!ToSet, Elements
<1>6. S # {}
  <2>1. 1 \in DOMAIN array  BY <1>1, <1>4
  <2> QED  BY <1>4, <2>1 DEF Elements
<1>7. GoodClass(p.bg, p.list) /\ M1 = L \cup S
  <2>1. Elements(array) \cap Listing(BG, batches) = {}  BY <1>2, <1>4
  <2>2. GoodClass(p.bg, p.list) /\ M1 = L \cup Elements(array)
    BY <1>1, <1>2, <1>4, <2>1, PushesClass
  <2> QED  BY <1>4, <2>2
<1>8. Listing(BG', batches') = M1  BY <1>1
<1> HIDE DEF p, L, M1
<1>9. batchesInUse' = Cardinality(batchesHeld')
  <2>1. Cardinality(batchesHeld \ S) = Cardinality(batchesHeld) - Cardinality(S)
    BY ClassHeldFinite, CardinalityOfRest
  <2>2. batchesInUse = Cardinality(batchesHeld)  BY DEF BatchClassOk
  <2> QED  BY <1>1, <1>4, <1>5, <2>1, <2>2
<1>10. GoodClass(BG', batches')  BY <1>1, <1>7
<1>11. M1 \cap batchesHeld' = {} /\ M1 \cup batchesHeld' = 0 .. batchesAllocated' - 1
  BY <1>1, <1>2, <1>5, <1>7
<1>12. BatchClassOk'  BY <1>1, <1>8, <1>9, <1>10, <1>11 DEF BatchClassOk
<1>13. ClassPush
  <2>1. batchesHeld' = batchesHeld \ S  BY <1>1, <1>5
  <2> QED  BY <1>6, <1>7, <1>8, <2>1 DEF ClassPush, L
<1> QED  BY <1>12, <1>13

\* Beginning to populate changes no list.
LEMMA BatchClassStartPopulate ==
  ASSUME BatchClassOk, B!StartPopulate
  PROVE  BatchClassOk' /\ ClassKept
<1>1. /\ batchesAllocated < NumBatchBlocks /\ populating' = TRUE /\ BG' = BG /\ batches' = batches
      /\ batchesHeld' = batchesHeld /\ batchesAllocated' = batchesAllocated /\ batchesInUse' = batchesInUse
  BY DEF B!StartPopulate
<1>2. GoodClass(BG', batches') /\ Listing(BG', batches') = Listing(BG, batches)
  BY <1>1 DEF BatchClassOk
<1> QED  BY <1>1, <1>2 DEF BatchClassOk, ClassKept

\* Populating lists new blocks and takes some.
LEMMA BatchClassPopulate ==
  ASSUME BatchClassOk, B!Populate, NumPopulate \in Nat \ {0}
  PROVE  BatchClassOk' /\ ClassPop
<1> DEFINE N == B!Min({NumPopulate, NumBatchBlocks - batchesAllocated})
           a == batchesAllocated
           array == [i \in 1 .. N |-> a + i - 1]
           q == B!pushBatchClassBlocks(BG, batches, array)
           p == B!popBlocksImpl(q.bg, q.list)
           L == Listing(BG, batches)
           K == Listing(q.bg, q.list)
           M1 == Listing(p.bg, p.list)
           new == a .. a + N - 1
<1>1. /\ populating /\ BG' = p.bg /\ batches' = p.list /\ batchesHeld' = batchesHeld \cup p.popped
      /\ batchesInUse' = batchesInUse + B!Cardinality(p.popped)
      /\ batchesAllocated' = a + N /\ populating' = FALSE
  BY DEF B!Populate
<1>2. /\ GoodClass(BG, batches) /\ L \cap batchesHeld = {} /\ L \cup batchesHeld = 0 .. a - 1
  BY DEF BatchClassOk
<1>3. N \in Nat \ {0} /\ N =< NumBatchBlocks - a /\ a \in Nat /\ NumBatchBlocks \in Nat
  <2>1. NumBatchBlocks \in Nat /\ a \in Nat /\ a < NumBatchBlocks  BY <1>1, Capacity DEF BatchClassOk
  <2>2. N = F!Min({NumPopulate, NumBatchBlocks - a})  BY DEF B!Min, F!Min
  <2>3. N = IF NumPopulate =< NumBatchBlocks - a THEN NumPopulate ELSE NumBatchBlocks - a
    BY <2>1, <2>2, MinPair
  <2> QED  BY <2>1, <2>3
<1>0. Listing(BG', batches') = M1  BY <1>1
<1> HIDE DEF N
<1>4. /\ array \in Seq(Ids) /\ Distinct(array) /\ array # <<>> /\ Elements(array) = new
  <2>1. array \in [1 .. N -> Ids]  BY <1>3 DEF Ids
  <2>2. \A i \in 1 .. N : array[i] = a + i - 1  OBVIOUS
  <2> HIDE DEF array, a
  <2>3. array \in Seq(Ids) /\ Len(array) = N /\ DOMAIN array = 1 .. N  BY <1>3, <2>1, IsSequence
  <2>4. Distinct(array)  BY <1>3, <2>2, <2>3 DEF Distinct
  <2>5. array # <<>>
    <3>1. Len(array) # Len(<<>>)  BY <1>3, <2>3
    <3> QED  BY <3>1
  <2>6. Elements(array) = new
    <3>1. Elements(array) \subseteq new  BY <1>3, <2>2, <2>3 DEF Elements
    <3>2. ASSUME NEW b \in new PROVE b \in Elements(array)
      <4>1. b - a + 1 \in 1 .. N /\ a + (b - a + 1) - 1 = b  BY <1>3
      <4>2. array[b - a + 1] = b  BY <2>2, <4>1
      <4> QED  BY <2>3, <4>1, <4>2 DEF Elements
    <3> QED  BY <3>1, <3>2
  <2> QED  BY <2>3, <2>4, <2>5, <2>6
<1>5. new \cap (0 .. a - 1) = {} /\ (0 .. a - 1) \cup new = 0 .. a + N - 1  BY <1>3
<1>6. IsFiniteSet(new) /\ new # {}
  <2>1. a \in new  BY <1>3
  <2>2. a \in Int /\ a + N - 1 \in Int  BY <1>3
  <2>3. IsFiniteSet(new)  BY <2>2, FS_Interval
  <2> QED  BY <2>1, <2>3
<1> HIDE DEF array, new
<1>7. GoodClass(q.bg, q.list) /\ K = L \cup new
  <2>1. Elements(array) \cap Listing(BG, batches) = {}  BY <1>2, <1>4, <1>5
  <2>2. GoodClass(q.bg, q.list) /\ K = L \cup Elements(array)  BY <1>2, <1>4, <2>1, PushesClass
  <2> QED  BY <1>4, <2>2
<1>8. q.bg # None
  <2> SUFFICES ASSUME q.bg = None PROVE FALSE  OBVIOUS
  <2>1. q.list = <<>>  BY <1>7, Capacity DEF GoodClass
  <2>2. K = {}  BY <2>1 DEF Listing
  <2> QED  BY <1>6, <1>7, <2>2
<1>9. /\ GoodClass(p.bg, p.list) /\ p.popped # {} /\ K = p.popped \cup M1 /\ p.popped \cap M1 = {}
  <2> DEFINE bg == q.bg
             l == q.list
  <2>1. GoodClass(bg, l) /\ bg # None  BY <1>7, <1>8
  <2> HIDE DEF bg, l
  <2>2. LET pp == B!popBlocksImpl(bg, l) IN
        /\ GoodClass(pp.bg, pp.list) /\ pp.popped # {}
        /\ Listing(bg, l) = pp.popped \cup Listing(pp.bg, pp.list)
        /\ pp.popped \cap Listing(pp.bg, pp.list) = {}
    BY <2>1, PopsClass
  <2> QED  BY <2>2 DEF bg, l
<1> HIDE DEF p, q, L, K, M1
<1>10. batchesHeld \cap p.popped = {}  BY <1>2, <1>5, <1>7, <1>9
<1>11. batchesInUse' = Cardinality(batchesHeld')
  <2>1. IsFiniteSet(p.popped)
    <3>1. IsFiniteSet(L)  BY ClassHeldFinite DEF L
    <3>2. IsFiniteSet(L \cup new)  BY <1>6, <3>1, FS_Union
    <3>3. p.popped \in SUBSET (L \cup new)  BY <1>7, <1>9
    <3> QED  BY <3>2, <3>3, FS_Subset
  <2>2. Cardinality(batchesHeld \cup p.popped) = Cardinality(batchesHeld) + Cardinality(p.popped)
    BY <1>10, <2>1, ClassHeldFinite, CardinalityOfUnion
  <2>3. B!Cardinality(p.popped) = Cardinality(p.popped)  BY ClassCardinality
  <2>4. batchesInUse = Cardinality(batchesHeld)  BY DEF BatchClassOk
  <2> QED  BY <1>1, <2>2, <2>3, <2>4
<1>12. GoodClass(BG', batches')  BY <1>1, <1>9
<1>13. batchesAllocated' \in 0 .. NumBatchBlocks /\ batchesAllocated' = a + N  BY <1>1, <1>3
<1>14. batchesHeld' = batchesHeld \cup p.popped  BY <1>1
<1>15. M1 \cap batchesHeld' = {} /\ M1 \cup batchesHeld' = 0 .. a + N - 1
  BY <1>2, <1>5, <1>7, <1>9, <1>14
<1>16. BatchClassOk'
  <2>1. (populating \in BOOLEAN)' /\ ~populating'  BY <1>1
  <2>2. /\ Listing(BG', batches') \cap batchesHeld' = {}
        /\ Listing(BG', batches') \cup batchesHeld' = 0 .. batchesAllocated' - 1
    <3>1. M1 \cap batchesHeld' = {} /\ M1 \cup batchesHeld' = 0 .. a + N - 1  BY <1>15
    <3>2. batchesAllocated' = a + N  BY <1>13
    <3> HIDE DEF a
    <3> DEFINE z == Listing(BG', batches')
    <3>3. z = M1  BY <1>0
    <3>4. 0 .. a + N - 1 = 0 .. batchesAllocated' - 1  BY <1>3, <3>2
    <3> HIDE DEF z
    <3>5. z \cap batchesHeld' = {}  BY ONLY <3>3, <3>1, Zenon
    <3>6. z \cup batchesHeld' = 0 .. batchesAllocated' - 1  BY ONLY <3>3, <3>1, <3>4, Zenon
    <3> QED  BY <3>5, <3>6 DEF z
  <2> QED  BY <1>11, <1>12, <1>13, <2>1, <2>2 DEF BatchClassOk
<1>17. ClassPop
  <2>1. batchesHeld \subseteq batchesHeld' /\ batchesHeld # batchesHeld'  BY <1>9, <1>10, <1>14
  <2>2. L \cup batchesHeld \subseteq M1 \cup batchesHeld'  BY <1>2, <1>5, <1>15
  <2> QED  BY <1>0, <1>15, <2>1, <2>2 DEF ClassPop, L
<1> QED  BY <1>16, <1>17

\* The batch class keeps its form and its blocks, as a pool to the freelists and caches.
LEMMA BatchClassNext ==
  ASSUME BatchClassOk, B!Next
  PROVE  BatchClassOk' /\ (ClassPush \/ ClassPop \/ ClassKept)
<1>1. CASE B!Pop  BY <1>1, BatchClassPop
<1>2. CASE B!StartPopulate  BY <1>2, BatchClassStartPopulate
<1>3. CASE B!Populate  BY <1>3, FreeListAssumption, BatchClassPopulate
<1>4. ASSUME NEW S \in SUBSET batchesHeld, NEW array \in B!SetToSeqs(S), B!Push(array)
      PROVE  BatchClassOk' /\ ClassPush
  BY <1>4, BatchClassPush
<1> QED  BY <1>1, <1>2, <1>3, <1>4 DEF B!Next

\* What the invariant of the batch class says in terms of the properties.
LEMMA BatchClassForm == BatchClassOk => B!StructureNotHeld /\ B!ListedOnce
<1> SUFFICES ASSUME BatchClassOk PROVE B!StructureNotHeld /\ B!ListedOnce  OBVIOUS
<1>1. /\ GoodClass(BG, batches) /\ Listing(BG, batches) \cap batchesHeld = {}
      /\ Listing(BG, batches) \cup batchesHeld = 0 .. batchesAllocated - 1
      /\ batchesInUse = Cardinality(batchesHeld)
  BY DEF BatchClassOk
<1>2. B!StructureNotHeld  BY <1>1, StructureListed DEF B!StructureNotHeld
<1>3. ASSUME NEW b \in 0 .. batchesAllocated - 1
      PROVE  B!Listed(b) = IF b \in batchesHeld THEN 0 ELSE 1
  <2>1. b \in Ids  BY ClassHeldFinite DEF Ids
  <2>2. B!Listed(b) = IF b \in Listing(BG, batches) THEN 1 ELSE 0  BY <1>1, <2>1, ListedIs
  <2>3. b \in Listing(BG, batches) <=> b \notin batchesHeld  BY <1>1
  <2> QED  BY <2>2, <2>3
<1>4. batchesInUse = B!Cardinality(batchesHeld)  BY <1>1, ClassCardinality
<1>5. B!ListedOnce  BY <1>3, <1>4 DEF B!ListedOnce
<1> QED  BY <1>2, <1>5

ClassFree == {b \in 0 .. NumBatchBlocks - 1 : B!Listed(b) > 0}

\* The free blocks of the pool are those listed.
LEMMA ClassFreeIs == BatchClassOk => ClassFree = Listing(BG, batches)
<1> SUFFICES ASSUME BatchClassOk PROVE ClassFree = Listing(BG, batches)  OBVIOUS
<1>1. GoodClass(BG, batches) /\ Listing(BG, batches) \in SUBSET Ids  BY ClassHeldFinite DEF BatchClassOk
<1>2. ASSUME NEW b \in Ids PROVE B!Listed(b) > 0 <=> b \in Listing(BG, batches)
  <2>1. B!Listed(b) = IF b \in Listing(BG, batches) THEN 1 ELSE 0  BY <1>1, ListedIs
  <2> QED  BY <2>1
<1> QED  BY <1>1, <1>2 DEF ClassFree, Ids

\* The batch class refines BlockPool: a push and a pop.
LEMMA ClassPoolStep ==
  ASSUME ClassFree = Listing(BG, batches), ClassFree' = Listing(BG', batches')
  PROVE  /\ ClassPush => B!Pool!Push
         /\ ClassPop => B!Pool!Pop
         /\ ClassKept => batchesHeld' = batchesHeld /\ ClassFree' = ClassFree
<1> DEFINE f == ClassFree
<1>1. f = {b \in 0 .. NumBatchBlocks - 1 : B!Listed(b) > 0}  BY DEF ClassFree
<1>2. ClassPush => B!Pool!Push
  <2>1. B!Pool!Push <=> \E S \in SUBSET batchesHeld :
          S # {} /\ batchesHeld' = batchesHeld \ S /\ ClassFree' = ClassFree \cup S
    BY DEF B!Pool!Push, ClassFree
  <2> QED  BY <2>1 DEF ClassPush
<1>3. ClassPop => B!Pool!Pop
  <2>1. B!Pool!Pop <=>
          /\ batchesHeld \subseteq batchesHeld' /\ batchesHeld # batchesHeld'
          /\ ClassFree' \cap batchesHeld' = {}
          /\ ClassFree \cup batchesHeld \subseteq ClassFree' \cup batchesHeld'
    BY DEF B!Pool!Pop, ClassFree
  <2> QED  BY <2>1 DEF ClassPop
<1>4. ClassKept => batchesHeld' = batchesHeld /\ ClassFree' = ClassFree  BY DEF ClassKept
<1> QED  BY <1>2, <1>3, <1>4

\* Steps of other subjects change no freelist.
LEMMA FreeListStutter ==
  ASSUME FreeListOk, UNCHANGED fvars
  PROVE  FreeListOk' /\ PoolKept
<1>1. /\ list' = list /\ releasing' = releasing /\ held' = held /\ allocated' = allocated
      /\ inUse' = inUse /\ records' = records /\ mm' = mm
  BY DEF fvars
<1>2. FreeListOk'  BY <1>1 DEF FreeListOk
<1>3. PoolKept  BY <1>1 DEF PoolKept, FreeBlocks
<1> QED  BY <1>2, <1>3

LEMMA BatchClassStutter ==
  ASSUME BatchClassOk, UNCHANGED bvars
  PROVE  BatchClassOk' /\ ClassKept
<1>1. /\ BG' = BG /\ batches' = batches /\ batchesHeld' = batchesHeld
      /\ batchesAllocated' = batchesAllocated /\ batchesInUse' = batchesInUse
      /\ populating' = populating
  BY DEF bvars
<1>2. BatchClassOk'  BY <1>1 DEF BatchClassOk
<1>3. ClassKept  BY <1>1 DEF ClassKept
<1> QED  BY <1>2, <1>3
=============================================================================
