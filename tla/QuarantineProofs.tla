-------------------------- MODULE QuarantineProofs --------------------------
(***************************************************************************)
(* Proofs about Quarantine, for any finite number of TSDs and any chunks,  *)
(* sizes and limits: every chunk that is freed is in one place of the      *)
(* quarantine, the sizes add up, and the global cache is first in, first   *)
(* out, merging included.                                                  *)
(***************************************************************************)
EXTENDS Quarantine, FiniteSetTheorems, SequenceTheorems, WellFoundedInduction, TLAPS
-----------------------------------------------------------------------------
\* Sums.  SumFunction is a fold over a finite set; what it does is shown by
\* induction over the sets, with the recursive function of the fold unfolded.

LEMMA Least ==
  ASSUME NEW T \in SUBSET Nat, T # {}
  PROVE  \E x \in T : \A y \in T : x =< y
<1>1. IsWellFoundedOn(OpToRel(<, Nat), Nat)  BY NatLessThanWellFounded
<1>2. \E x \in T : \A y \in T : ~(<<y, x>> \in OpToRel(<, Nat))  BY <1>1, WFMin
<1>3. \A x, y \in Nat : ~(<<y, x>> \in OpToRel(<, Nat)) => x =< y  BY DEF OpToRel
<1> QED  BY <1>2, <1>3

LEMMA Induction ==
  ASSUME NEW T, 0 \in T, \A n \in Nat : n \in T => n + 1 \in T
  PROVE  Nat \subseteq T
<1>1. SUFFICES ASSUME Nat \ T # {} PROVE FALSE  OBVIOUS
<1>2. PICK x \in Nat \ T : \A y \in Nat \ T : x =< y  BY <1>1, Least
<1>3. x # 0 /\ x - 1 \in Nat  BY <1>2
<1>4. x - 1 \in T  BY <1>2, <1>3
<1>5. (x - 1) + 1 \in T  BY <1>3, <1>4
<1> QED  BY <1>2, <1>3, <1>5

Pick(s) == CHOOSE x \in s : TRUE

LEMMA PickOne ==
  ASSUME NEW s, IsFiniteSet(s)
  PROVE  /\ Cardinality(s) \in Nat
         /\ s = {} => Cardinality(s) = 0
         /\ s # {} => /\ Cardinality(s) # 0
                      /\ Pick(s) \in s
         /\ \A x \in s : Cardinality(s \ {x}) = Cardinality(s) - 1
<1>1. s # {} => Pick(s) \in s  BY DEF Pick
<1>2. Cardinality(s) = 0 <=> s = {}  BY FS_EmptySet
<1> QED  BY <1>1, <1>2, FS_CardinalityType, FS_RemoveElement

Step(f, g, s) == IF s = {} THEN 0 ELSE f[Pick(s)] + g[s \ {Pick(s)}]

Sums(f, T, g) == g = [s \in SUBSET T |-> Step(f, g, s)]

LEMMA SumsExist ==
  ASSUME NEW T, IsFiniteSet(T), NEW f
  PROVE  \E g : Sums(f, T, g)
<1> DEFINE Upto(n) == {s \in SUBSET T : Cardinality(s) =< n}
           P == {n \in Nat : \E g : \A s \in Upto(n) : g[s] = Step(f, g, s)}
<1>0. \A s \in SUBSET T : IsFiniteSet(s)  BY FS_Subset
<1>1. 0 \in P
  <2>1. ASSUME NEW s \in Upto(0) PROVE s = {}
    BY <1>0, PickOne
  <2>2. \A s \in Upto(0) : [x \in SUBSET T |-> 0][s] = Step(f, [x \in SUBSET T |-> 0], s)
    BY <2>1 DEF Step
  <2> QED  BY <2>2
<1>2. ASSUME NEW n \in Nat, n \in P PROVE n + 1 \in P
  <2>1. PICK g : \A s \in Upto(n) : g[s] = Step(f, g, s)  BY <1>2
  <2> DEFINE h == [s \in SUBSET T |-> Step(f, g, s)]
  <2>2. \A s \in Upto(n) : h[s] = g[s]  BY <2>1
  <2>3. ASSUME NEW s \in Upto(n + 1) PROVE h[s] = Step(f, h, s)
    <3>1. CASE s = {}  BY <3>1 DEF Step
    <3>2. CASE s # {}
      <4>1. s \ {Pick(s)} \in Upto(n)  BY <1>0, <3>2, PickOne
      <4>2. h[s \ {Pick(s)}] = g[s \ {Pick(s)}]  BY <2>2, <4>1
      <4>3. h[s] = Step(f, g, s)  OBVIOUS
      <4> QED  BY <4>2, <4>3, Zenon DEF Step
    <3> QED  BY <3>1, <3>2
  <2>4. \E gg : \A s \in Upto(n + 1) : gg[s] = Step(f, gg, s)  BY <2>3
  <2> QED  BY <2>4
<1>3. Nat \subseteq P
  <2> HIDE DEF P
  <2> QED  BY <1>1, <1>2, Induction
<1>4. Cardinality(T) \in P  BY <1>3, PickOne
<1>5. Upto(Cardinality(T)) = SUBSET T  BY FS_Subset
<1>6. PICK g : \A s \in SUBSET T : g[s] = Step(f, g, s)  BY <1>4, <1>5, Zenon
<1> DEFINE h == [s \in SUBSET T |-> g[s]]
<1>7. \A s \in SUBSET T : Step(f, h, s) = Step(f, g, s)  BY DEF Step
<1>8. h = [s \in SUBSET T |-> Step(f, h, s)]  BY <1>6, <1>7
<1> QED  BY <1>8, Zenon DEF Sums

LEMMA SumIsSums ==
  ASSUME NEW T, IsFiniteSet(T), NEW f
  PROVE  \E g : Sums(f, T, g) /\ SumFunctionOnSet(f, T) = g[T]
<1> DEFINE h == CHOOSE g : Sums(f, T, g)
<1>1. Sums(f, T, h)  BY SumsExist, Zenon
<1>2. SumFunctionOnSet(f, T) = h[T]
  BY Zenon DEF SumFunctionOnSet, FoldFunctionOnSet, MapThenFoldSet, Sums, Step, Pick
<1> QED  BY <1>1, <1>2, Zenon

LEMMA SumOfNothing ==
  ASSUME NEW f
  PROVE  SumFunctionOnSet(f, {}) = 0
BY SumIsSums, FS_EmptySet, Zenon DEF Sums, Step

LEMMA SumsAgree ==
  ASSUME NEW T, IsFiniteSet(T), NEW U, NEW f, NEW g, NEW u, NEW v,
         Sums(f, T, u), Sums(g, U, v), NEW A \in SUBSET T, A \subseteq U,
         \A x \in A : f[x] = g[x]
  PROVE  u[A] = v[A]
<1> DEFINE P == {n \in Nat : \A s \in SUBSET A : Cardinality(s) =< n => u[s] = v[s]}
<1>0. IsFiniteSet(A) /\ \A s \in SUBSET A : IsFiniteSet(s)  BY FS_Subset
<1>1. ASSUME NEW s \in SUBSET A, s # {} => u[s \ {Pick(s)}] = v[s \ {Pick(s)}]
      PROVE  u[s] = v[s]
  <2>1. u[s] = Step(f, u, s) /\ v[s] = Step(g, v, s)  BY DEF Sums
  <2>2. s # {} => f[Pick(s)] = g[Pick(s)]  BY <1>0, PickOne
  <2> QED  BY <1>1, <2>1, <2>2, Zenon DEF Step
<1>2. 0 \in P
  <2> SUFFICES ASSUME NEW s \in SUBSET A, Cardinality(s) =< 0 PROVE u[s] = v[s]  OBVIOUS
  <2>1. s = {}  BY <1>0, PickOne
  <2> QED  BY <1>1, <2>1
<1>3. ASSUME NEW n \in Nat, n \in P PROVE n + 1 \in P
  <2> SUFFICES ASSUME NEW s \in SUBSET A, Cardinality(s) =< n + 1 PROVE u[s] = v[s]  OBVIOUS
  <2>1. s # {} => Cardinality(s \ {Pick(s)}) =< n  BY <1>0, PickOne
  <2> QED  BY <1>1, <1>3, <2>1
<1>4. Nat \subseteq P
  <2> HIDE DEF P
  <2> QED  BY <1>2, <1>3, Induction
<1>5. Cardinality(A) \in P  BY <1>0, <1>4, PickOne
<1> QED  BY <1>0, <1>5, PickOne

\* Equal values, equal sum.
LEMMA SumsEqual ==
  ASSUME NEW T, IsFiniteSet(T), NEW f, NEW g, \A x \in T : f[x] = g[x]
  PROVE  SumFunctionOnSet(f, T) = SumFunctionOnSet(g, T)
<1>1. PICK u : Sums(f, T, u) /\ SumFunctionOnSet(f, T) = u[T]  BY SumIsSums
<1>2. PICK v : Sums(g, T, v) /\ SumFunctionOnSet(g, T) = v[T]  BY SumIsSums
<1>3. u[T] = v[T]  BY <1>1, <1>2, SumsAgree
<1> QED  BY <1>1, <1>2, <1>3

\* A sum may be begun with the value that CHOOSE picks.
LEMMA SumFirst ==
  ASSUME NEW T, IsFiniteSet(T), T # {}, NEW f
  PROVE  SumFunctionOnSet(f, T) = f[Pick(T)] + SumFunctionOnSet(f, T \ {Pick(T)})
<1> DEFINE U == T \ {Pick(T)}
<1>1. IsFiniteSet(U)  BY FS_RemoveElement
<1>2. PICK u : Sums(f, T, u) /\ SumFunctionOnSet(f, T) = u[T]  BY SumIsSums
<1>3. PICK v : Sums(f, U, v) /\ SumFunctionOnSet(f, U) = v[U]  BY <1>1, SumIsSums
<1>4. u[U] = v[U]  BY <1>1, <1>2, <1>3, SumsAgree
<1>5. u[T] = Step(f, u, T)  BY <1>2 DEF Sums
<1> QED  BY <1>2, <1>3, <1>4, <1>5, Zenon DEF Step

\* ... or with any other.
LEMMA SumRemove ==
  ASSUME NEW T, IsFiniteSet(T), NEW f, \A x \in T : f[x] \in Int
  PROVE  /\ SumFunctionOnSet(f, T) \in Int
         /\ \A y \in T : SumFunctionOnSet(f, T) = f[y] + SumFunctionOnSet(f, T \ {y})
<1> DEFINE S(A) == SumFunctionOnSet(f, A)
           Good(A) == S(A) \in Int /\ \A y \in A : S(A) = f[y] + S(A \ {y})
           P == {n \in Nat : \A A \in SUBSET T : Cardinality(A) =< n => Good(A)}
<1>0. \A A \in SUBSET T : IsFiniteSet(A)  BY FS_Subset
<1>1. S({}) = 0  BY SumOfNothing
<1>2. \A A \in SUBSET T : A # {} => S(A) = f[Pick(A)] + S(A \ {Pick(A)})  BY <1>0, SumFirst
<1> HIDE DEF S
<1>3. 0 \in P
  <2> SUFFICES ASSUME NEW A \in SUBSET T, Cardinality(A) =< 0 PROVE Good(A)  OBVIOUS
  <2>1. A = {}  BY <1>0, PickOne
  <2> QED  BY <1>1, <2>1
<1>4. ASSUME NEW n \in Nat, n \in P PROVE n + 1 \in P
  <2> SUFFICES ASSUME NEW A \in SUBSET T, Cardinality(A) =< n + 1, A # {} PROVE Good(A)
    BY <1>1
  <2> DEFINE p == Pick(A)
  <2>1. p \in A /\ S(A) = f[p] + S(A \ {p})  BY <1>0, <1>2, PickOne
  <2> HIDE DEF p
  <2>2. \A y \in A : Cardinality(A \ {y}) =< n  BY <1>0, PickOne
  <2>3. \A y \in A : Good(A \ {y})  BY <1>4, <2>2
  <2>4. S(A) \in Int  BY <2>1, <2>3
  <2>5. ASSUME NEW y \in A, y # p PROVE S(A) = f[y] + S(A \ {y})
    <3> DEFINE R == A \ {p, y}
    <3>1. (A \ {p}) \ {y} = R /\ (A \ {y}) \ {p} = R  OBVIOUS
    <3>2. S(A \ {p}) = f[y] + S(R) /\ S(A \ {y}) = f[p] + S(R)
      BY <2>1, <2>3, <2>5, <3>1
    <3>3. Cardinality(R) =< n
      <4>1. IsFiniteSet(A \ {p}) /\ y \in A \ {p}  BY <1>0, <2>5
      <4>2. Cardinality(R) = Cardinality(A \ {p}) - 1 /\ Cardinality(A \ {p}) \in Nat
        BY <3>1, <4>1, PickOne
      <4> QED  BY <2>1, <2>2, <4>2
    <3>4. Good(R)  BY <1>4, <3>3
    <3> HIDE DEF R
    <3> QED  BY <2>1, <3>2, <3>4
  <2> QED  BY <2>1, <2>4, <2>5
<1>5. Nat \subseteq P
  <2> HIDE DEF P
  <2> QED  BY <1>3, <1>4, Induction
<1>6. Cardinality(T) \in P  BY <1>5, PickOne
<1>7. Good(T)  BY <1>6, PickOne
<1> QED  BY <1>7 DEF S

\* Sums of naturals are naturals, no less than what they add up.
LEMMA SumOfNaturals ==
  ASSUME NEW T, IsFiniteSet(T), NEW f, \A x \in T : f[x] \in Nat
  PROVE  /\ SumFunctionOnSet(f, T) \in Nat
         /\ \A y \in T : f[y] =< SumFunctionOnSet(f, T)
<1> DEFINE S(A) == SumFunctionOnSet(f, A)
           P == {n \in Nat : \A A \in SUBSET T : Cardinality(A) =< n => S(A) \in Nat}
<1>0. \A A \in SUBSET T : IsFiniteSet(A)  BY FS_Subset
<1>1. S({}) = 0  BY SumOfNothing
<1>2. ASSUME NEW A \in SUBSET T, NEW y \in A PROVE S(A) = f[y] + S(A \ {y})
  <2>1. \A x \in A : f[x] \in Int  OBVIOUS
  <2> QED  BY <1>0, <2>1, SumRemove
<1> HIDE DEF S
<1>3. 0 \in P
  <2> SUFFICES ASSUME NEW A \in SUBSET T, Cardinality(A) =< 0 PROVE S(A) \in Nat  OBVIOUS
  <2>1. A = {}  BY <1>0, PickOne
  <2> QED  BY <1>1, <2>1
<1>4. ASSUME NEW n \in Nat, n \in P PROVE n + 1 \in P
  <2> SUFFICES ASSUME NEW A \in SUBSET T, Cardinality(A) =< n + 1, NEW y \in A
               PROVE  S(A) \in Nat
    BY <1>1
  <2>1. Cardinality(A \ {y}) =< n  BY <1>0, PickOne
  <2>2. S(A \ {y}) \in Nat  BY <1>4, <2>1
  <2> QED  BY <1>2, <2>2
<1>5. Nat \subseteq P
  <2> HIDE DEF P
  <2> QED  BY <1>3, <1>4, Induction
<1>6. \A A \in SUBSET T : S(A) \in Nat  BY <1>0, <1>5, PickOne
<1>7. \A y \in T : f[y] =< S(T)
  <2> TAKE y \in T
  <2>1. S(T) = f[y] + S(T \ {y}) /\ S(T \ {y}) \in Nat  BY <1>2, <1>6
  <2> QED  BY <2>1
<1>8. S(T) \in Nat  BY <1>6
<1> QED  BY <1>7, <1>8 DEF S

\* What a sum becomes when one value changes.
LEMMA SumChange ==
  ASSUME NEW T, IsFiniteSet(T), NEW f \in [T -> Int], NEW g \in [T -> Int], NEW k \in T,
         \A x \in T \ {k} : g[x] = f[x]
  PROVE  /\ SumFunction(f) \in Int
         /\ SumFunction(g) = (SumFunction(f) - f[k]) + g[k]
<1> DEFINE U == T \ {k}
           F == SumFunctionOnSet(f, U)
           G == SumFunctionOnSet(g, U)
<1>1. IsFiniteSet(U)  BY FS_RemoveElement
<1>2. F \in Int /\ F = G  BY <1>1, SumRemove, SumsEqual
<1>3. SumFunction(f) = f[k] + F /\ SumFunction(f) \in Int  BY SumRemove DEF SumFunction
<1>4. SumFunction(g) = g[k] + G  BY SumRemove DEF SumFunction
<1> HIDE DEF F, G
<1> QED  BY <1>2, <1>3, <1>4

\* The sum over a sequence of numbers.
LEMMA SumOfSequence ==
  /\ SumFunction(<<>>) = 0
  /\ \A s \in Seq(Int) : SumFunction(s) \in Int
  /\ \A s \in Seq(Nat) : SumFunction(s) \in Nat
<1>1. DOMAIN <<>> = {}  BY EmptySeq, LenProperties
<1>2. ASSUME NEW s \in Seq(Int) PROVE SumFunction(s) \in Int
  <2>1. IsFiniteSet(1 .. Len(s))  BY FS_Interval
  <2> QED  BY <2>1, SumRemove DEF SumFunction
<1>3. ASSUME NEW s \in Seq(Nat) PROVE SumFunction(s) \in Nat
  <2>1. IsFiniteSet(1 .. Len(s))  BY FS_Interval
  <2> QED  BY <2>1, SumOfNaturals DEF SumFunction
<1> QED  BY <1>1, <1>2, <1>3, SumOfNothing DEF SumFunction

LEMMA SumAppend ==
  ASSUME NEW s \in Seq(Int), NEW x \in Int
  PROVE  SumFunction(Append(s, x)) = SumFunction(s) + x
<1> DEFINE t == Append(s, x)
           n == Len(s) + 1
<1>1. t \in Seq(Int) /\ Len(t) = n /\ t[n] = x /\ \A i \in 1 .. Len(s) : t[i] = s[i]
  BY AppendProperties
<1>2. IsFiniteSet(1 .. n) /\ IsFiniteSet(1 .. Len(s))  BY FS_Interval
<1>3. DOMAIN t = 1 .. n /\ DOMAIN s = 1 .. Len(s) /\ (1 .. n) \ {n} = 1 .. Len(s)
  BY <1>1
<1> HIDE DEF t, n
<1>4. SumFunctionOnSet(t, 1 .. n) = t[n] + SumFunctionOnSet(t, (1 .. n) \ {n})
  <2>1. \A i \in 1 .. n : t[i] \in Int  BY <1>1, <1>3
  <2>2. n \in 1 .. n  BY DEF n
  <2> QED  BY <1>2, <2>1, <2>2, SumRemove
<1>5. SumFunctionOnSet(t, 1 .. Len(s)) = SumFunctionOnSet(s, 1 .. Len(s))
  BY <1>1, <1>2, SumsEqual
<1>6. SumFunction(s) \in Int  BY SumOfSequence
<1>7. /\ SumFunction(t) = SumFunctionOnSet(t, 1 .. n)
      /\ SumFunction(s) = SumFunctionOnSet(s, 1 .. Len(s))
  BY <1>3, Zenon DEF SumFunction
<1>8. SumFunction(t) = x + SumFunction(s)  BY <1>1, <1>3, <1>4, <1>5, <1>7, Zenon
<1>9. SumFunction(t) = SumFunction(s) + x  BY <1>6, <1>8
<1> QED  BY <1>9 DEF t

\* Induction over sequences.
LEMMA SequenceInduction ==
  ASSUME NEW S, NEW T, <<>> \in T,
         \A s \in Seq(S), e \in S : s \in T => Append(s, e) \in T
  PROVE  Seq(S) \subseteq T
<1> DEFINE P == {n \in Nat : \A s \in Seq(S) : Len(s) = n => s \in T}
<1>1. 0 \in P  BY EmptySeq
<1>2. ASSUME NEW n \in Nat, n \in P PROVE n + 1 \in P
  <2> SUFFICES ASSUME NEW s \in Seq(S), Len(s) = n + 1 PROVE s \in T  OBVIOUS
  <2>1. PICK t \in Seq(S), e \in S : s = Append(t, e)  BY SequenceEmptyOrAppend, EmptySeq
  <2>2. Len(t) = n  BY <2>1, AppendProperties
  <2> QED  BY <1>2, <2>1, <2>2
<1>3. Nat \subseteq P
  <2> HIDE DEF P
  <2> QED  BY <1>1, <1>2, Induction
<1> QED  BY <1>3, LenProperties

LEMMA ConcatAppend ==
  ASSUME NEW S, NEW s \in Seq(S), NEW t \in Seq(S), NEW e \in S
  PROVE  s \o Append(t, e) = Append(s \o t, e)
<1>1. s \o t \in Seq(S) /\ <<e>> \in Seq(S)  BY ConcatProperties
<1>2. Append(t, e) = t \o <<e>> /\ Append(s \o t, e) = (s \o t) \o <<e>>
  BY <1>1, AppendIsConcat
<1> QED  BY <1>1, <1>2, ConcatAssociative

LEMMA SumConcat ==
  ASSUME NEW s \in Seq(Int), NEW t \in Seq(Int)
  PROVE  SumFunction(s \o t) = SumFunction(s) + SumFunction(t)
<1> DEFINE P == {u \in Seq(Int) : SumFunction(s \o u) = SumFunction(s) + SumFunction(u)}
<1>1. <<>> \in P
  BY SumOfSequence, ConcatEmptySeq, EmptySeq
<1>2. ASSUME NEW u \in Seq(Int), NEW e \in Int, u \in P PROVE Append(u, e) \in P
  <2>1. Append(u, e) \in Seq(Int) /\ s \o u \in Seq(Int)  BY AppendProperties, ConcatProperties
  <2>2. SumFunction(s \o Append(u, e)) = SumFunction(s \o u) + e
    <3>1. s \o Append(u, e) = Append(s \o u, e)  BY ConcatAppend
    <3> QED  BY <2>1, <3>1, SumAppend
  <2>3. SumFunction(Append(u, e)) = SumFunction(u) + e  BY SumAppend
  <2>4. SumFunction(s) \in Int /\ SumFunction(u) \in Int  BY SumOfSequence
  <2> QED  BY <1>2, <2>1, <2>2, <2>3, <2>4
<1>3. Seq(Int) \subseteq P
  <2> HIDE DEF P
  <2> QED  BY <1>1, <1>2, SequenceInduction
<1> QED  BY <1>3
-----------------------------------------------------------------------------
\* FlattenSeq, the same way.

\* The recursive function of FlattenSeq.
Flat(q, n, f) == f = [i \in 1 .. n |-> IF i = 1 THEN q[i] ELSE f[i - 1] \o q[i]]

LEMMA FlatExists ==
  ASSUME NEW q, NEW m \in Nat
  PROVE  \E f : Flat(q, m, f)
<1> DEFINE P == {n \in Nat : \E f : Flat(q, n, f)}
<1>1. 0 \in P
  <2> DEFINE f == [i \in 1 .. 0 |-> <<>>]
  <2>1. f = [i \in 1 .. 0 |-> IF i = 1 THEN q[i] ELSE f[i - 1] \o q[i]]  OBVIOUS
  <2>2. Flat(q, 0, f)  BY <2>1, Zenon DEF Flat
  <2> QED  BY <2>2
<1>2. ASSUME NEW n \in Nat, n \in P PROVE n + 1 \in P
  <2>1. PICK f : Flat(q, n, f)  BY <1>2
  <2> DEFINE last == IF n = 0 THEN q[1] ELSE f[n] \o q[n + 1]
             g == [i \in 1 .. n + 1 |-> IF i = n + 1 THEN last ELSE f[i]]
  <2>2. ASSUME NEW i \in 1 .. n + 1 PROVE g[i] = IF i = 1 THEN q[i] ELSE g[i - 1] \o q[i]
    <3>1. CASE i = n + 1 /\ n = 0  BY <3>1
    <3>2. CASE i = n + 1 /\ n # 0
      <4>1. n \in 1 .. n + 1 /\ n # n + 1 /\ i - 1 = n /\ i # 1  BY <3>2
      <4> QED  BY <3>2, <4>1
    <3>3. CASE i # n + 1
      <4>1. i \in 1 .. n /\ (i # 1 => i - 1 \in 1 .. n + 1 /\ i - 1 # n + 1)  BY <3>3
      <4>2. f[i] = IF i = 1 THEN q[i] ELSE f[i - 1] \o q[i]  BY <2>1, <4>1, Zenon DEF Flat
      <4>3. g[i] = f[i] /\ (i # 1 => g[i - 1] = f[i - 1])  BY <3>3, <4>1
      <4> QED  BY <4>2, <4>3, Zenon
    <3> QED  BY <3>1, <3>2, <3>3
  <2>3. g = [i \in 1 .. n + 1 |-> g[i]]  BY Zenon
  <2> HIDE DEF g
  <2>4. Flat(q, n + 1, g)  BY <2>2, <2>3, Zenon DEF Flat
  <2> QED  BY <2>4
<1>3. Nat \subseteq P
  <2> HIDE DEF P
  <2> QED  BY <1>1, <1>2, Induction
<1> QED  BY <1>3

LEMMA FlatAgree ==
  ASSUME NEW q, NEW p, NEW m \in Nat, NEW f, NEW g,
         Flat(q, m, f), Flat(p, m + 1, g), \A i \in 1 .. m : q[i] = p[i]
  PROVE  \A i \in 1 .. m : f[i] = g[i]
<1> DEFINE P == {n \in Nat : n \in 1 .. m => f[n] = g[n]}
<1>1. 0 \in P  OBVIOUS
<1>2. ASSUME NEW n \in Nat, n \in P PROVE n + 1 \in P
  <2> DEFINE k == n + 1
  <2> SUFFICES ASSUME k \in 1 .. m PROVE f[k] = g[k]  OBVIOUS
  <2>1. k \in 1 .. m + 1 /\ q[k] = p[k] /\ k - 1 = n /\ (k # 1 => f[n] = g[n])  BY <1>2
  <2> HIDE DEF k
  <2>2. f[k] = IF k = 1 THEN q[k] ELSE f[k - 1] \o q[k]  BY Zenon DEF Flat
  <2>3. g[k] = IF k = 1 THEN p[k] ELSE g[k - 1] \o p[k]  BY <2>1, Zenon DEF Flat
  <2> QED  BY <2>1, <2>2, <2>3, Zenon
<1>3. Nat \subseteq P
  <2> HIDE DEF P
  <2> QED  BY <1>1, <1>2, Induction
<1> QED  BY <1>3

LEMMA FlattenIsFlat ==
  ASSUME NEW q, Len(q) \in Nat
  PROVE  \E f : Flat(q, Len(q), f) /\ FlattenSeq(q) = IF Len(q) = 0 THEN q ELSE f[Len(q)]
<1> DEFINE h == CHOOSE f : Flat(q, Len(q), f)
<1>1. Flat(q, Len(q), h)  BY FlatExists, Zenon
<1>2. FlattenSeq(q) = IF Len(q) = 0 THEN q ELSE h[Len(q)]
  BY Zenon DEF FlattenSeq, Flat
<1> QED  BY <1>1, <1>2, Zenon

\* What FlattenSeq does: one more sequence goes to the end.
LEMMA FlattenOneMore ==
  ASSUME NEW p, NEW q, NEW n \in Nat, Len(q) = n, Len(p) = n + 1,
         \A i \in 1 .. n : q[i] = p[i]
  PROVE  FlattenSeq(p) = IF n = 0 THEN p[n + 1] ELSE FlattenSeq(q) \o p[n + 1]
<1>1. PICK f : Flat(p, n + 1, f) /\ FlattenSeq(p) = f[n + 1]
  <2>1. Len(p) \in Nat /\ n + 1 # 0  OBVIOUS
  <2> QED  BY <2>1, FlattenIsFlat
<1>2. PICK g : Flat(q, n, g) /\ (n # 0 => FlattenSeq(q) = g[n])
  BY FlattenIsFlat
<1>3. f[n + 1] = IF n + 1 = 1 THEN p[n + 1] ELSE f[(n + 1) - 1] \o p[n + 1]
  <2>1. n + 1 \in 1 .. n + 1  OBVIOUS
  <2> QED  BY <1>1, <2>1, Zenon DEF Flat
<1>4. (n + 1) - 1 = n /\ (n = 0 <=> n + 1 = 1)  OBVIOUS
<1>5. n # 0 => g[n] = f[n]
  <2>1. \A i \in 1 .. n : g[i] = f[i]  BY <1>1, <1>2, FlatAgree
  <2> QED  BY <2>1
<1> QED  BY <1>1, <1>2, <1>3, <1>4, <1>5, Zenon

LEMMA FlattenAppend ==
  ASSUME NEW A, NEW q \in Seq(Seq(A)), NEW x \in Seq(A)
  PROVE  FlattenSeq(Append(q, x)) = IF q = <<>> THEN x ELSE FlattenSeq(q) \o x
<1>1. PICK n \in Nat : n = Len(q)  BY LenProperties
<1>2. PICK p : p = Append(q, x)  OBVIOUS
<1>3. /\ Len(p) = n + 1 /\ p[n + 1] = x /\ \A i \in 1 .. n : q[i] = p[i]
      /\ q = <<>> <=> n = 0
  BY <1>1, <1>2, AppendProperties, EmptySeq
<1>4. FlattenSeq(p) = IF n = 0 THEN p[n + 1] ELSE FlattenSeq(q) \o p[n + 1]
  BY <1>1, <1>3, FlattenOneMore
<1> QED  BY <1>2, <1>3, <1>4, Zenon

LEMMA FlattenType ==
  ASSUME NEW A
  PROVE  /\ FlattenSeq(<<>>) = <<>>
         /\ \A q \in Seq(Seq(A)) : FlattenSeq(q) \in Seq(A)
<1>1. FlattenSeq(<<>>) = <<>>  BY EmptySeq, FlattenIsFlat
<1> DEFINE P == {q \in Seq(Seq(A)) : FlattenSeq(q) \in Seq(A)}
<1>2. <<>> \in P  BY <1>1, EmptySeq
<1>3. ASSUME NEW q \in Seq(Seq(A)), NEW x \in Seq(A), q \in P PROVE Append(q, x) \in P
  <2>1. Append(q, x) \in Seq(Seq(A))  BY AppendProperties
  <2>2. FlattenSeq(q) \o x \in Seq(A)  BY <1>3, ConcatProperties
  <2> QED  BY <2>1, <2>2, FlattenAppend
<1>4. Seq(Seq(A)) \subseteq P
  <2> HIDE DEF P
  <2> QED  BY <1>2, <1>3, SequenceInduction
<1> QED  BY <1>1, <1>4

LEMMA Associative ==
  ASSUME NEW A
  PROVE  \A u, v, w \in Seq(A) : (u \o v) \o w = u \o (v \o w)
BY ConcatAssociative, SMTT(30), ZenonT(20)

LEMMA FlattenConcat ==
  ASSUME NEW A, NEW p \in Seq(Seq(A)), NEW q \in Seq(Seq(A))
  PROVE  FlattenSeq(p \o q) = FlattenSeq(p) \o FlattenSeq(q)
<1> DEFINE F(s) == FlattenSeq(s)
           P == {s \in Seq(Seq(A)) : F(p \o s) = F(p) \o F(s)}
<1>0. F(<<>>) = <<>> /\ \A s \in Seq(Seq(A)) : F(s) \in Seq(A)  BY FlattenType
<1>1. ASSUME NEW s \in Seq(Seq(A)), NEW x \in Seq(A) PROVE F(Append(s, x)) = F(s) \o x
  <2>1. F(Append(s, x)) = IF s = <<>> THEN x ELSE F(s) \o x  BY FlattenAppend
  <2>2. <<>> \o x = x  BY ConcatEmptySeq
  <2> QED  BY <1>0, <2>1, <2>2, Zenon
<1> HIDE DEF F
<1>2. <<>> \in P  BY <1>0, EmptySeq, ConcatEmptySeq
<1>3. ASSUME NEW s \in Seq(Seq(A)), NEW x \in Seq(A), s \in P PROVE Append(s, x) \in P
  <2>1. p \o Append(s, x) = Append(p \o s, x)  BY ConcatAppend, SMTT(30), ZenonT(20)
  <2>2. p \o s \in Seq(Seq(A)) /\ Append(s, x) \in Seq(Seq(A))  BY ConcatProperties, AppendProperties
  <2>3. F(p \o Append(s, x)) = F(p \o s) \o x  BY <1>1, <2>1, <2>2
  <2>4. F(p) \o F(Append(s, x)) = F(p) \o (F(s) \o x)  BY <1>1
  <2>5. F(p) \o (F(s) \o x) = (F(p) \o F(s)) \o x
    <3>1. F(p) \in Seq(A) /\ F(s) \in Seq(A)  BY <1>0
    <3>2. \A u, v \in Seq(A) : u \o (v \o x) = (u \o v) \o x  BY Associative, SMTT(30), ZenonT(20)
    <3> QED  BY <3>1, <3>2
  <2> QED  BY <1>3, <2>2, <2>3, <2>4, <2>5
<1>4. Seq(Seq(A)) \subseteq P
  <2> HIDE DEF P
  <2> QED  BY <1>2, <1>3, SequenceInduction
<1> QED  BY <1>4 DEF F
-----------------------------------------------------------------------------
\* Sums over sequences, and sequences of sequences.

\* A function applied to every element of a sequence.
Map(h, s) == [i \in DOMAIN s |-> h[s[i]]]

LEMMA MapType ==
  ASSUME NEW h, NEW A, NEW s \in Seq(A)
  PROVE  /\ Map(h, s) \in Seq({h[x] : x \in A})
         /\ Len(Map(h, s)) = Len(s)
         /\ \A i \in 1 .. Len(s) : Map(h, s)[i] = h[s[i]]
         /\ Map(h, <<>>) = <<>>
BY DEF Map

LEMMA MapConcat ==
  ASSUME NEW h, NEW A, NEW s \in Seq(A), NEW t \in Seq(A)
  PROVE  Map(h, s \o t) = Map(h, s) \o Map(h, t)
<1> DEFINE B == {h[x] : x \in A}
<1>1. PICK u : u = s \o t  OBVIOUS
<1>2. /\ u \in Seq(A) /\ Len(u) = Len(s) + Len(t)
      /\ \A i \in 1 .. Len(s) + Len(t) : u[i] = IF i =< Len(s) THEN s[i] ELSE t[i - Len(s)]
  BY <1>1, ConcatProperties
<1>3. PICK x : x = Map(h, s)  OBVIOUS
<1>4. PICK y : y = Map(h, t)  OBVIOUS
<1>5. PICK z : z = Map(h, u)  OBVIOUS
<1>6. /\ x \in Seq(B) /\ Len(x) = Len(s)
      /\ y \in Seq(B) /\ Len(y) = Len(t)
      /\ z \in Seq(B) /\ Len(z) = Len(u)
  <2>1. x \in Seq(B) /\ Len(x) = Len(s)
    <3>1. Map(h, s) \in Seq({h[a] : a \in A}) /\ Len(Map(h, s)) = Len(s)  BY DEF Map
    <3> QED  BY <1>3, <3>1
  <2>2. y \in Seq(B) /\ Len(y) = Len(t)  BY <1>4, MapType
  <2>3. z \in Seq(B) /\ Len(z) = Len(u)  BY <1>2, <1>5, MapType
  <2> QED  BY <2>1, <2>2, <2>3
<1>7. \A i \in 1 .. Len(s) : x[i] = h[s[i]]  BY <1>3 DEF Map
<1>8. \A i \in 1 .. Len(t) : y[i] = h[t[i]]  BY <1>4 DEF Map
<1>9. \A i \in 1 .. Len(u) : z[i] = h[u[i]]  BY <1>2, <1>5 DEF Map
<1>10. PICK v : v = x \o y  OBVIOUS
<1>11. /\ v \in Seq(B) /\ Len(v) = Len(x) + Len(y)
       /\ \A i \in 1 .. Len(x) + Len(y) : v[i] = IF i =< Len(x) THEN x[i] ELSE y[i - Len(x)]
  <2>1. x \in Seq(B) /\ y \in Seq(B)  BY <1>6
  <2> QED  BY <1>10, <2>1, ConcatProperties
<1>12. ASSUME NEW i \in 1 .. Len(z) PROVE z[i] = v[i]
  <2>0. Len(s) \in Nat /\ Len(t) \in Nat  BY LenProperties
  <2>1. CASE i =< Len(s)
    <3>1. i \in 1 .. Len(s)  BY <2>1
    <3>2. z[i] = h[s[i]] /\ v[i] = x[i]  BY <1>2, <1>6, <1>9, <1>11, <2>0, <3>1
    <3> QED  BY <1>7, <3>1, <3>2
  <2>2. CASE i > Len(s)
    <3>1. i - Len(s) \in 1 .. Len(t)  BY <1>2, <1>6, <2>0, <2>2
    <3>2. z[i] = h[t[i - Len(s)]] /\ v[i] = y[i - Len(s)]
      BY <1>2, <1>6, <1>9, <1>11, <2>0, <2>2
    <3> QED  BY <1>8, <3>1, <3>2
  <2> QED  BY <2>0, <2>1, <2>2
<1>13. z = v  BY <1>2, <1>6, <1>11, <1>12, SeqEqual
<1> QED  BY <1>1, <1>3, <1>4, <1>5, <1>10, <1>13, Zenon

LEMMA MapAppend ==
  ASSUME NEW h, NEW A, NEW s \in Seq(A), NEW e \in A
  PROVE  Map(h, Append(s, e)) = Append(Map(h, s), h[e])
<1>1. Map(h, <<e>>) = <<h[e]>>  BY DEF Map
<1>2. Map(h, s) \in Seq({h[x] : x \in A}) /\ h[e] \in {h[x] : x \in A} /\ <<e>> \in Seq(A)  BY MapType
<1>3. Map(h, s \o <<e>>) = Map(h, s) \o Map(h, <<e>>)
  <2>1. PICK w \in Seq(A) : w = <<e>>  BY <1>2
  <2>2. Map(h, s \o w) = Map(h, s) \o Map(h, w)  BY MapConcat
  <2> QED  BY <2>1, <2>2, Zenon
<1>4. Append(s, e) = s \o <<e>> /\ Append(Map(h, s), h[e]) = Map(h, s) \o <<h[e]>>
  BY <1>2, AppendIsConcat
<1> QED  BY <1>1, <1>3, <1>4, Zenon

\* The sum of what a function makes of the elements of a sequence.
Weight(h, s) == SumFunction(Map(h, s))

LEMMA WeightType ==
  ASSUME NEW h, NEW A, \A x \in A : h[x] \in Nat, NEW s \in Seq(A)
  PROVE  Weight(h, s) \in Nat /\ Weight(h, <<>>) = 0
<1>1. Map(h, s) \in Seq({h[x] : x \in A}) /\ Map(h, <<>>) = <<>>  BY MapType
<1>2. {h[x] : x \in A} \subseteq Nat  OBVIOUS
<1>3. Map(h, s) \in Seq(Nat)  BY <1>1, <1>2, SeqMonotonic
<1>4. SumFunction(Map(h, s)) \in Nat  BY <1>3, SumOfSequence
<1>5. SumFunction(Map(h, <<>>)) = 0  BY <1>1, SumOfSequence
<1> QED  BY <1>4, <1>5 DEF Weight

LEMMA WeightConcat ==
  ASSUME NEW h, NEW A, \A x \in A : h[x] \in Nat, NEW s \in Seq(A), NEW t \in Seq(A)
  PROVE  Weight(h, s \o t) = Weight(h, s) + Weight(h, t)
<1>0. {h[x] : x \in A} \subseteq Int  OBVIOUS
<1>1. Map(h, s) \in Seq({h[x] : x \in A}) /\ Map(h, t) \in Seq({h[x] : x \in A})  BY MapType
<1>2. Map(h, s) \in Seq(Int) /\ Map(h, t) \in Seq(Int)  BY <1>0, <1>1, SeqMonotonic
<1>3. Map(h, s \o t) = Map(h, s) \o Map(h, t)  BY MapConcat
<1>4. SumFunction(Map(h, s) \o Map(h, t)) = SumFunction(Map(h, s)) + SumFunction(Map(h, t))
  BY <1>2, SumConcat
<1> QED  BY <1>3, <1>4, Zenon DEF Weight

LEMMA WeightAppend ==
  ASSUME NEW h, NEW A, \A x \in A : h[x] \in Nat, NEW s \in Seq(A), NEW e \in A
  PROVE  Weight(h, Append(s, e)) = Weight(h, s) + h[e]
<1>0. {h[x] : x \in A} \subseteq Int /\ h[e] \in Int  OBVIOUS
<1>1. Map(h, s) \in Seq({h[x] : x \in A})  BY MapType
<1>2. Map(h, s) \in Seq(Int)  BY <1>0, <1>1, SeqMonotonic
<1>3. Map(h, Append(s, e)) = Append(Map(h, s), h[e])  BY MapAppend
<1>4. SumFunction(Append(Map(h, s), h[e])) = SumFunction(Map(h, s)) + h[e]
  BY <1>0, <1>2, SumAppend
<1> QED  BY <1>3, <1>4, Zenon DEF Weight

LEMMA WeightZero ==
  ASSUME NEW h, NEW A, \A x \in A : h[x] \in Nat, NEW s \in Seq(A)
  PROVE  Weight(h, s) = 0 <=> \A i \in 1 .. Len(s) : h[s[i]] = 0
<1> DEFINE P == {u \in Seq(A) : Weight(h, u) = 0 <=> \A i \in 1 .. Len(u) : h[u[i]] = 0}
<1>1. <<>> \in P  BY WeightType
<1>2. ASSUME NEW u \in Seq(A), NEW e \in A, u \in P PROVE Append(u, e) \in P
  <2>1. PICK v : v = Append(u, e)  OBVIOUS
  <2>2. /\ v \in Seq(A) /\ Len(v) = Len(u) + 1 /\ Len(u) \in Nat
        /\ \A i \in 1 .. Len(u) : v[i] = u[i]
        /\ v[Len(u) + 1] = e
    BY <2>1, AppendProperties, LenProperties
  <2>3. Weight(h, v) = Weight(h, u) + h[e]  BY <2>1, WeightAppend
  <2>4. Weight(h, u) \in Nat /\ h[e] \in Nat  BY WeightType
  <2>5. Weight(h, v) = 0 <=> Weight(h, u) = 0 /\ h[e] = 0  BY <2>3, <2>4
  <2>6. (\A i \in 1 .. Len(v) : h[v[i]] = 0)
          <=> (\A i \in 1 .. Len(u) : h[u[i]] = 0) /\ h[e] = 0
    <3>1. ASSUME \A i \in 1 .. Len(v) : h[v[i]] = 0
          PROVE  (\A i \in 1 .. Len(u) : h[u[i]] = 0) /\ h[e] = 0
      BY <2>2, <3>1
    <3>2. ASSUME \A i \in 1 .. Len(u) : h[u[i]] = 0, h[e] = 0, NEW i \in 1 .. Len(v)
          PROVE  h[v[i]] = 0
      BY <2>2, <3>2
    <3> QED  BY <3>1, <3>2
  <2> QED  BY <1>2, <2>1, <2>2, <2>5, <2>6
<1>3. Seq(A) \subseteq P
  <2> HIDE DEF P
  <2> QED  BY <1>1, <1>2, SequenceInduction
<1> QED  BY <1>3
-----------------------------------------------------------------------------
\* What they say of chunks and batches.

\* Values of chunks and of batches that are added up or put together.
Is(c) == [d \in Chunks |-> IF d = c THEN 1 ELSE 0]

Batch == [chunks : Seq(Chunks), size : Nat]

SizeOf == [B \in Batch |-> B.size]

ChunksIn == [B \in Batch |-> B.chunks]

Bytes(chunks) == SumFunction([j \in DOMAIN chunks |-> ChunkSize[chunks[j]]])

Total(list) == SumFunction(BatchSizes(list))

LEMMA Weights ==
  /\ \A c, s : s \in Seq(Chunks) => Times(c, s) = Weight(Is(c), s)
  /\ \A s : Bytes(s) = Weight(ChunkSize, s)
  /\ \A list \in Seq(Batch) : Total(list) = Weight(SizeOf, list)
  /\ \A list \in Seq(Batch) : ChunksOf(list) = FlattenSeq(Map(ChunksIn, list))
<1>1. ASSUME NEW c, NEW s \in Seq(Chunks) PROVE Times(c, s) = Weight(Is(c), s)
  <2>1. [i \in DOMAIN s |-> IF s[i] = c THEN 1 ELSE 0] = Map(Is(c), s)  BY DEF Map, Is
  <2> QED  BY <2>1, Zenon DEF Times, Weight
<1>2. \A s : Bytes(s) = Weight(ChunkSize, s)  BY Zenon DEF Bytes, Weight, Map
<1>3. ASSUME NEW list \in Seq(Batch) PROVE Total(list) = Weight(SizeOf, list)
  <2>1. BatchSizes(list) = Map(SizeOf, list)  BY DEF Map, SizeOf, BatchSizes
  <2> QED  BY <2>1, Zenon DEF Total, Weight
<1>4. ASSUME NEW list \in Seq(Batch) PROVE ChunksOf(list) = FlattenSeq(Map(ChunksIn, list))
  <2>1. [i \in DOMAIN list |-> list[i].chunks] = Map(ChunksIn, list)  BY DEF Map, ChunksIn
  <2> QED  BY <2>1, Zenon DEF ChunksOf
<1> QED  BY <1>1, <1>2, <1>3, <1>4

LEMMA TimesOf ==
  ASSUME NEW c
  PROVE  /\ Times(c, <<>>) = 0
         /\ \A s \in Seq(Chunks) : Times(c, s) \in Nat
         /\ \A s, t \in Seq(Chunks) : Times(c, s \o t) = Times(c, s) + Times(c, t)
         /\ \A s \in Seq(Chunks), d \in Chunks :
              Times(c, Append(s, d)) = Times(c, s) + (IF d = c THEN 1 ELSE 0)
         /\ \A s \in Seq(Chunks) : Times(c, s) = 0 <=> c \notin ToSet(s)
<1> DEFINE h == Is(c)
<1>1. \A d \in Chunks : h[d] \in Nat /\ h[d] = IF d = c THEN 1 ELSE 0  BY DEF Is
<1>2. <<>> \in Seq(Chunks)  BY EmptySeq
<1>3. \A s \in Seq(Chunks) : Times(c, s) = Weight(h, s)  BY Weights
<1> HIDE DEF h
<1>4. Times(c, <<>>) = 0  BY <1>1, <1>2, <1>3, WeightType
<1>5. \A s \in Seq(Chunks) : Times(c, s) \in Nat  BY <1>1, <1>3, WeightType
<1>6. ASSUME NEW s \in Seq(Chunks), NEW t \in Seq(Chunks)
      PROVE  Times(c, s \o t) = Times(c, s) + Times(c, t)
  <2>1. s \o t \in Seq(Chunks)  BY ConcatProperties
  <2>2. Weight(h, s \o t) = Weight(h, s) + Weight(h, t)  BY <1>1, WeightConcat
  <2> QED  BY <1>3, <2>1, <2>2
<1>7. ASSUME NEW s \in Seq(Chunks), NEW d \in Chunks
      PROVE  Times(c, Append(s, d)) = Times(c, s) + (IF d = c THEN 1 ELSE 0)
  <2>1. Append(s, d) \in Seq(Chunks)  BY AppendProperties
  <2>2. Weight(h, Append(s, d)) = Weight(h, s) + h[d]  BY <1>1, WeightAppend
  <2> QED  BY <1>1, <1>3, <2>1, <2>2
<1>8. ASSUME NEW s \in Seq(Chunks) PROVE Times(c, s) = 0 <=> c \notin ToSet(s)
  <2>1. Weight(h, s) = 0 <=> \A i \in 1 .. Len(s) : h[s[i]] = 0  BY <1>1, WeightZero, SMTT(30), ZenonT(20)
  <2>2. \A i \in 1 .. Len(s) : h[s[i]] = 0 <=> s[i] # c  BY <1>1
  <2>3. ToSet(s) = {s[i] : i \in 1 .. Len(s)}  BY DEF ToSet
  <2> QED  BY <1>3, <2>1, <2>2, <2>3
<1> QED  BY <1>4, <1>5, <1>6, <1>7, <1>8

LEMMA BytesOf ==
  ASSUME QuarantineAssumption
  PROVE  /\ Bytes(<<>>) = 0
         /\ \A s \in Seq(Chunks) : Bytes(s) \in Nat
         /\ \A s, t \in Seq(Chunks) : Bytes(s \o t) = Bytes(s) + Bytes(t)
         /\ \A s \in Seq(Chunks), c \in Chunks : Bytes(Append(s, c)) = Bytes(s) + ChunkSize[c]
<1>1. \A c \in Chunks : ChunkSize[c] \in Nat  BY DEF QuarantineAssumption
<1>2. \A s : Bytes(s) = Weight(ChunkSize, s)  BY Weights
<1>3. Bytes(<<>>) = 0  BY <1>1, <1>2, EmptySeq, WeightType
<1>4. \A s \in Seq(Chunks) : Bytes(s) \in Nat  BY <1>1, <1>2, WeightType
<1>5. ASSUME NEW s \in Seq(Chunks), NEW t \in Seq(Chunks)
      PROVE  Bytes(s \o t) = Bytes(s) + Bytes(t)
  <2>1. Weight(ChunkSize, s \o t) = Weight(ChunkSize, s) + Weight(ChunkSize, t)
    BY <1>1, WeightConcat
  <2> QED  BY <1>2, <2>1
<1>6. ASSUME NEW s \in Seq(Chunks), NEW c \in Chunks
      PROVE  Bytes(Append(s, c)) = Bytes(s) + ChunkSize[c]
  <2>1. Weight(ChunkSize, Append(s, c)) = Weight(ChunkSize, s) + ChunkSize[c]
    BY <1>1, WeightAppend
  <2> QED  BY <1>2, <2>1
<1> QED  BY <1>3, <1>4, <1>5, <1>6

LEMMA TotalOf ==
  /\ Total(<<>>) = 0
  /\ \A L \in Seq(Batch) : Total(L) \in Nat
  /\ \A L, M \in Seq(Batch) : Total(L \o M) = Total(L) + Total(M)
  /\ \A L \in Seq(Batch), B \in Batch : Total(Append(L, B)) = Total(L) + B.size
<1>1. \A B \in Batch : SizeOf[B] \in Nat /\ SizeOf[B] = B.size  BY DEF SizeOf, Batch
<1>2. \A L \in Seq(Batch) : Total(L) = Weight(SizeOf, L)  BY Weights
<1>3. Total(<<>>) = 0  BY <1>1, <1>2, EmptySeq, WeightType
<1>4. \A L \in Seq(Batch) : Total(L) \in Nat  BY <1>1, <1>2, WeightType
<1>5. ASSUME NEW L \in Seq(Batch), NEW M \in Seq(Batch)
      PROVE  Total(L \o M) = Total(L) + Total(M)
  <2>1. L \o M \in Seq(Batch)  BY ConcatProperties
  <2>2. Weight(SizeOf, L \o M) = Weight(SizeOf, L) + Weight(SizeOf, M)
    BY <1>1, WeightConcat
  <2> QED  BY <1>2, <2>1, <2>2
<1>6. ASSUME NEW L \in Seq(Batch), NEW B \in Batch
      PROVE  Total(Append(L, B)) = Total(L) + B.size
  <2>1. Append(L, B) \in Seq(Batch)  BY AppendProperties
  <2>2. Weight(SizeOf, Append(L, B)) = Weight(SizeOf, L) + SizeOf[B]
    BY <1>1, WeightAppend
  <2> QED  BY <1>1, <1>2, <2>1, <2>2
<1> QED  BY <1>3, <1>4, <1>5, <1>6

LEMMA ChunksOfList ==
  /\ ChunksOf(<<>>) = <<>>
  /\ \A L \in Seq(Batch) : ChunksOf(L) \in Seq(Chunks)
  /\ \A L, M \in Seq(Batch) : ChunksOf(L \o M) = ChunksOf(L) \o ChunksOf(M)
  /\ \A L \in Seq(Batch), B \in Batch : ChunksOf(Append(L, B)) = ChunksOf(L) \o B.chunks
<1> DEFINE R == {ChunksIn[B] : B \in Batch}
<1>1. \A B \in Batch : ChunksIn[B] = B.chunks /\ B.chunks \in Seq(Chunks)  BY DEF ChunksIn, Batch
<1>2. \A L \in Seq(Batch) : ChunksOf(L) = FlattenSeq(Map(ChunksIn, L))  BY Weights
<1>3. ASSUME NEW L \in Seq(Batch) PROVE Map(ChunksIn, L) \in Seq(Seq(Chunks))
  <2>1. Map(ChunksIn, L) \in Seq(R)  BY MapType
  <2>2. R \subseteq Seq(Chunks)  BY <1>1
  <2> HIDE DEF R
  <2> QED  BY <2>1, <2>2, SeqMonotonic
<1>4. <<>> \in Seq(Batch) /\ Map(ChunksIn, <<>>) = <<>>  BY EmptySeq, MapType
<1>5. ChunksOf(<<>>) = <<>>  BY <1>2, <1>4, FlattenType
<1>6. \A L \in Seq(Batch) : ChunksOf(L) \in Seq(Chunks)  BY <1>2, <1>3, FlattenType
<1>7. ASSUME NEW L \in Seq(Batch), NEW M \in Seq(Batch)
      PROVE  ChunksOf(L \o M) = ChunksOf(L) \o ChunksOf(M)
  <2>1. L \o M \in Seq(Batch)  BY ConcatProperties
  <2>2. Map(ChunksIn, L \o M) = Map(ChunksIn, L) \o Map(ChunksIn, M)  BY MapConcat
  <2>3. FlattenSeq(Map(ChunksIn, L) \o Map(ChunksIn, M))
          = FlattenSeq(Map(ChunksIn, L)) \o FlattenSeq(Map(ChunksIn, M))
    BY <1>3, FlattenConcat
  <2> QED  BY <1>2, <2>1, <2>2, <2>3
<1>8. ASSUME NEW L \in Seq(Batch), NEW B \in Batch
      PROVE  ChunksOf(Append(L, B)) = ChunksOf(L) \o B.chunks
  <2>1. Append(L, B) \in Seq(Batch)  BY AppendProperties
  <2>2. Map(ChunksIn, Append(L, B)) = Append(Map(ChunksIn, L), ChunksIn[B])  BY MapAppend
  <2>3. PICK q \in Seq(Seq(Chunks)) : q = Map(ChunksIn, L)  BY <1>3
  <2>4. PICK x \in Seq(Chunks) : x = B.chunks  BY <1>1
  <2>5. FlattenSeq(Append(q, x)) = IF q = <<>> THEN x ELSE FlattenSeq(q) \o x
    BY FlattenAppend
  <2>6. FlattenSeq(<<>>) = <<>> /\ <<>> \o x = x  BY FlattenType, ConcatEmptySeq
  <2>7. FlattenSeq(Append(q, x)) = FlattenSeq(q) \o x  BY <2>5, <2>6, Zenon
  <2> QED  BY <1>1, <1>2, <2>1, <2>2, <2>3, <2>4, <2>7, Zenon
<1> QED  BY <1>5, <1>6, <1>7, <1>8
-----------------------------------------------------------------------------
\* The operations on caches: what they keep of the chunks, their order, the
\* batches and the sizes.

\* A batch and a cache as they should be.
SoundBatch == {B \in Batch : Len(B.chunks) =< MaxCount /\ B.size = BatchSize + Bytes(B.chunks)}

SoundCache == {C \in [list : Seq(SoundBatch), size : Nat] : C.size = Total(C.list)}

LEMMA SoundTypes ==
  ASSUME QuarantineAssumption
  PROVE  /\ SoundBatch \subseteq Batch /\ Seq(SoundBatch) \subseteq Seq(Batch)
         /\ EmptyBatch \in SoundBatch /\ EmptyBatch.chunks = <<>> /\ EmptyBatch.size = BatchSize
         /\ Empty \in SoundCache /\ Empty.list = <<>> /\ ChunksOf(<<>>) = <<>>
         /\ BatchSize \in Nat \ {0} /\ MaxCount \in Nat \ {0} /\ MaxCacheSize \in Nat \ {0}
<1>1. BatchSize \in Nat \ {0} /\ MaxCount \in Nat \ {0} /\ MaxCacheSize \in Nat \ {0}
  BY DEF QuarantineAssumption
<1>2. SoundBatch \subseteq Batch  BY DEF SoundBatch
<1>3. Seq(SoundBatch) \subseteq Seq(Batch)  BY <1>2, SeqMonotonic
<1>4. EmptyBatch \in Batch /\ Len(EmptyBatch.chunks) = 0
  BY <1>1, EmptySeq DEF Batch, EmptyBatch
<1>5. EmptyBatch.chunks = <<>> /\ EmptyBatch.size = BatchSize  BY DEF EmptyBatch
<1>6. EmptyBatch \in SoundBatch  BY <1>1, <1>4, <1>5, BytesOf DEF SoundBatch
<1>7. Empty \in SoundCache /\ Empty.list = <<>>
  BY EmptySeq, TotalOf DEF Empty, SoundCache
<1> QED  BY <1>1, <1>2, <1>3, <1>5, <1>6, <1>7, ChunksOfList

\* What the operations on lists need to know of a list that is not empty.
LEMMA LastBatch ==
  ASSUME NEW S, NEW L \in Seq(S), L # <<>>
  PROVE  /\ Last(L) \in S /\ Front(L) \in Seq(S)
         /\ L = Append(Front(L), Last(L))
         /\ Len(Front(L)) = Len(L) - 1
<1>1. PICK F \in Seq(S), e \in S : L = Append(F, e)  BY SequenceEmptyOrAppend
<1>2. /\ Len(L) = Len(F) + 1 /\ L[Len(L)] = e /\ Len(F) \in Nat
      /\ \A i \in 1 .. Len(F) : L[i] = F[i]
  BY <1>1, AppendProperties, LenProperties
<1>3. SubSeq(L, 1, Len(L) - 1) = F
  <2>1. PICK G : G = SubSeq(L, 1, Len(F))  OBVIOUS
  <2>2. \A i \in 1 .. Len(F) : L[i] \in S  BY <1>2
  <2>3. /\ G \in Seq(S) /\ Len(G) = Len(F)
        /\ \A i \in 1 .. Len(F) : G[i] = L[i]
    BY <1>2, <2>1, <2>2, SubSeqProperties
  <2>4. G = F  BY <1>2, <2>3, SeqEqual
  <2> QED  BY <1>2, <2>1, <2>4
<1> QED  BY <1>1, <1>2, <1>3 DEF Front, Last

LEMMA FirstBatch ==
  ASSUME NEW S, NEW L \in Seq(S), L # <<>>
  PROVE  /\ Head(L) \in S /\ Tail(L) \in Seq(S)
         /\ L = <<Head(L)>> \o Tail(L)
         /\ Len(Tail(L)) = Len(L) - 1
OBVIOUS

\* A chunk put into a cache goes to its end.
LEMMA EnqueueSound ==
  ASSUME QuarantineAssumption, NEW C \in SoundCache, NEW c \in Chunks
  PROVE  /\ enqueue(C, c) \in SoundCache
         /\ ChunksOf(enqueue(C, c).list) = Append(ChunksOf(C.list), c)
         /\ Len(enqueue(C, c).list) = Len(C.list) + (IF NeedsBatch(C) THEN 1 ELSE 0)
<1> DEFINE e == enqueue(C, c)
           L == C.list
<1>0. /\ L \in Seq(SoundBatch) /\ L \in Seq(Batch) /\ C.size \in Nat /\ C.size = Total(L)
      /\ ChunkSize[c] \in Nat
  BY SoundTypes DEF SoundCache, QuarantineAssumption
<1>1. ChunksOf(L) \in Seq(Chunks)  BY <1>0, ChunksOfList
<1>2. CASE NeedsBatch(C)
  <2> DEFINE B == init(c)
  <2>1. B.chunks = <<c>> /\ B.size = ChunkSize[c] + BatchSize  BY DEF init
  <2>2. e.list = Append(L, B) /\ e.size = C.size + B.size /\ e = [list |-> e.list, size |-> e.size]
    BY <1>2 DEF enqueue, enqueueBatch
  <2>3. B \in Batch /\ Len(B.chunks) = 1
    BY <1>0, <2>1, SoundTypes DEF Batch, init
  <2>4. Bytes(<<c>>) = ChunkSize[c]
    <3>1. Append(<<>>, c) = <<c>> /\ <<>> \in Seq(Chunks)  BY EmptySeq, AppendIsConcat
    <3>2. Bytes(Append(<<>>, c)) = Bytes(<<>>) + ChunkSize[c]  BY <3>1, BytesOf
    <3> QED  BY <1>0, <3>1, <3>2, BytesOf
  <2>5. B \in SoundBatch
    <3>1. B.size = BatchSize + Bytes(B.chunks)  BY <1>0, <2>1, <2>4, SoundTypes
    <3>2. Len(B.chunks) =< MaxCount  BY <2>3, SoundTypes
    <3> QED  BY <2>3, <3>1, <3>2, Zenon DEF SoundBatch
  <2> HIDE DEF B, e, L
  <2>6. e.list \in Seq(SoundBatch) /\ Len(e.list) = Len(L) + 1
    BY <1>0, <2>2, <2>5, AppendProperties
  <2>7. Total(Append(L, B)) = Total(L) + B.size  BY <1>0, <2>3, TotalOf
  <2>8. ChunksOf(Append(L, B)) = ChunksOf(L) \o B.chunks  BY <1>0, <2>3, ChunksOfList
  <2>9. ChunksOf(e.list) = Append(ChunksOf(L), c)
    BY <1>1, <2>1, <2>2, <2>8, AppendIsConcat
  <2>10. e.size = Total(e.list) /\ e.size \in Nat
    BY <1>0, <2>2, <2>3, <2>7 DEF Batch
  <2>11. e \in SoundCache  BY <2>2, <2>6, <2>10 DEF SoundCache
  <2> QED  BY <1>2, <2>6, <2>9, <2>11 DEF e, L
<1>3. CASE ~NeedsBatch(C)
  <2> DEFINE B == Last(L)
             D == [chunks |-> Append(B.chunks, c), size |-> B.size + ChunkSize[c]]
             F == Front(L)
  <2>1. L # <<>> /\ Len(B.chunks) # MaxCount  BY <1>3 DEF NeedsBatch
  <2>2. B \in SoundBatch /\ F \in Seq(SoundBatch) /\ L = Append(F, B) /\ Len(F) = Len(L) - 1
    BY <1>0, <2>1, LastBatch
  <2>3. e.list = Append(F, D) /\ e.size = C.size + ChunkSize[c] /\ e = [list |-> e.list, size |-> e.size]
    BY <1>3 DEF enqueue
  <2>4. D.chunks = Append(B.chunks, c) /\ D.size = B.size + ChunkSize[c] OBVIOUS
  <2> HIDE DEF B, D, F, e, L
  <2>5. B \in Batch /\ B.chunks \in Seq(Chunks) /\ B.size \in Nat /\ F \in Seq(Batch)
        /\ Len(B.chunks) =< MaxCount /\ B.size = BatchSize + Bytes(B.chunks)
    BY <2>2, SoundTypes DEF SoundBatch, Batch
  <2>6. D.chunks \in Seq(Chunks) /\ Len(D.chunks) = Len(B.chunks) + 1 /\ Len(B.chunks) \in Nat
    BY <2>4, <2>5, AppendProperties, LenProperties
  <2>7. Bytes(D.chunks) = Bytes(B.chunks) + ChunkSize[c] /\ Bytes(B.chunks) \in Nat
    BY <2>4, <2>5, BytesOf
  <2>8. D \in Batch
    <3>1. D.size \in Nat  BY <1>0, <2>4, <2>5
    <3> QED  BY <2>6, <3>1 DEF Batch, D
  <2>9. D \in SoundBatch
    <3>1. D.size = BatchSize + Bytes(D.chunks)  BY <1>0, <2>4, <2>5, <2>7, SoundTypes
    <3>2. Len(D.chunks) =< MaxCount  BY <2>1, <2>5, <2>6, SoundTypes
    <3> QED  BY <2>8, <3>1, <3>2, Zenon DEF SoundBatch
  <2>10. e.list \in Seq(SoundBatch) /\ Len(e.list) = Len(L)
    BY <1>0, <2>2, <2>3, <2>9, AppendProperties, LenProperties
  <2>11. Total(Append(F, D)) = Total(F) + D.size /\ Total(L) = Total(F) + B.size /\ Total(F) \in Nat
    BY <2>2, <2>5, <2>8, TotalOf
  <2>12. ChunksOf(Append(F, D)) = ChunksOf(F) \o D.chunks /\ ChunksOf(L) = ChunksOf(F) \o B.chunks
         /\ ChunksOf(F) \in Seq(Chunks)
    BY <2>2, <2>5, <2>8, ChunksOfList
  <2>13. ChunksOf(e.list) = Append(ChunksOf(L), c)
    <3>0. \A u, v \in Seq(Chunks) : u \o Append(v, c) = Append(u \o v, c)  BY ConcatAppend
    <3>1. ChunksOf(F) \o Append(B.chunks, c) = Append(ChunksOf(F) \o B.chunks, c)
      BY <2>5, <2>12, <3>0
    <3> QED  BY <2>3, <2>4, <2>12, <3>1, Zenon
  <2>14. e.size = Total(e.list) /\ e.size \in Nat
    <3>1. Total(e.list) = Total(F) + D.size  BY <2>3, <2>11, Zenon
    <3>2. e.size = Total(L) + ChunkSize[c]  BY <1>0, <2>3
    <3>3. D.size = B.size + ChunkSize[c] /\ Total(L) = Total(F) + B.size
      BY <2>4, <2>11, Zenon
    <3>4. B.size \in Nat /\ ChunkSize[c] \in Nat /\ Total(F) \in Nat  BY <1>0, <2>5, <2>11
    <3> QED  BY <3>1, <3>2, <3>3, <3>4
  <2>15. e \in SoundCache  BY <2>3, <2>10, <2>14 DEF SoundCache
  <2> QED  BY <1>0, <1>3, <2>10, <2>13, <2>15, LenProperties DEF e, L
<1> QED  BY <1>2, <1>3

LEMMA TransferSound ==
  ASSUME QuarantineAssumption, NEW C \in SoundCache, NEW D \in SoundCache
  PROVE  /\ transfer(C, D) \in SoundCache
         /\ ChunksOf(transfer(C, D).list) = ChunksOf(C.list) \o ChunksOf(D.list)
         /\ Len(transfer(C, D).list) = Len(C.list) + Len(D.list)
<1>1. /\ C.list \in Seq(SoundBatch) /\ C.list \in Seq(Batch) /\ C.size \in Nat /\ C.size = Total(C.list)
      /\ D.list \in Seq(SoundBatch) /\ D.list \in Seq(Batch) /\ D.size \in Nat /\ D.size = Total(D.list)
  BY SoundTypes DEF SoundCache
<1>2. transfer(C, D).list = C.list \o D.list /\ transfer(C, D).size = C.size + D.size
      /\ transfer(C, D) = [list |-> C.list \o D.list, size |-> C.size + D.size]
  BY DEF transfer
<1>3. C.list \o D.list \in Seq(SoundBatch) /\ Len(C.list \o D.list) = Len(C.list) + Len(D.list)
  BY <1>1, ConcatProperties
<1>4. Total(C.list \o D.list) = Total(C.list) + Total(D.list)  BY <1>1, TotalOf
<1>5. ChunksOf(C.list \o D.list) = ChunksOf(C.list) \o ChunksOf(D.list)  BY <1>1, ChunksOfList
<1>6. transfer(C, D) \in SoundCache
  <2>1. C.size + D.size \in Nat /\ C.size + D.size = Total(C.list \o D.list)  BY <1>1, <1>4
  <2> QED  BY <1>2, <1>3, <2>1 DEF SoundCache
<1> QED  BY <1>2, <1>3, <1>5, <1>6

\* What mergeBatches() has made of the batches L so far.
Merged(r, L) ==
  /\ r.kept \in Seq(SoundBatch) /\ r.extracted \in Seq(SoundBatch)
  /\ ChunksOf(r.kept) = ChunksOf(L) /\ ChunksOf(r.extracted) = <<>>
  /\ Len(r.kept) + Len(r.extracted) = Len(L)
  /\ Total(r.kept) + Total(r.extracted) = Total(L)
  /\ Total(r.extracted) = Len(r.extracted) * BatchSize

LEMMA ExtractOne ==
  ASSUME QuarantineAssumption, NEW E \in Seq(SoundBatch), ChunksOf(E) = <<>>,
         Total(E) = Len(E) * BatchSize
  PROVE  LET G == Append(E, EmptyBatch) IN
         /\ G \in Seq(SoundBatch) /\ ChunksOf(G) = <<>> /\ Len(G) = Len(E) + 1
         /\ Total(G) = Total(E) + BatchSize /\ Total(G) = Len(G) * BatchSize
<1> DEFINE G == Append(E, EmptyBatch)
<1>1. EmptyBatch \in SoundBatch /\ EmptyBatch \in Batch /\ E \in Seq(Batch)
      /\ EmptyBatch.chunks = <<>> /\ EmptyBatch.size = BatchSize
  BY SoundTypes
<1>2. G \in Seq(SoundBatch) /\ Len(G) = Len(E) + 1  BY <1>1, AppendProperties
<1>3. ChunksOf(G) = ChunksOf(E) \o EmptyBatch.chunks  BY <1>1, ChunksOfList
<1>4. ChunksOf(G) = <<>>
  <2>1. <<>> \o <<>> = <<>>  OBVIOUS
  <2> QED  BY <1>1, <1>3, <2>1, Zenon
<1>5. Total(G) = Total(E) + EmptyBatch.size  BY <1>1, TotalOf
<1>6. Total(G) = Total(E) + BatchSize  BY <1>1, <1>5, Zenon
<1>7. \A l, b \in Nat : (l + 1) * b = l * b + b  OBVIOUS
<1>8. Len(E) \in Nat /\ BatchSize \in Nat  BY SoundTypes, LenProperties
<1>9. (Len(E) + 1) * BatchSize = Len(E) * BatchSize + BatchSize  BY <1>7, <1>8
<1>10. Total(G) = Len(G) * BatchSize  BY <1>2, <1>6, <1>9, Zenon
<1> HIDE DEF G
<1>11. QED  BY <1>2, <1>4, <1>6, <1>10 DEF G

LEMMA MergeStep ==
  ASSUME QuarantineAssumption, NEW r, NEW L \in Seq(SoundBatch), NEW B \in SoundBatch,
         Merged(r, L)
  PROVE  Merged(MergeNext(r, B), Append(L, B))
<1>1. PICK K, E : K = r.kept /\ E = r.extracted  OBVIOUS
<1>2. PICK M : M = Append(L, B)  OBVIOUS
<1>3. PICK new : new = MergeNext(r, B)  OBVIOUS
<1>4. PICK b \in Nat : b = BatchSize  BY SoundTypes
<1>5. /\ K \in Seq(SoundBatch) /\ E \in Seq(SoundBatch) /\ ChunksOf(K) = ChunksOf(L)
      /\ ChunksOf(E) = <<>> /\ Len(K) + Len(E) = Len(L) /\ Total(K) + Total(E) = Total(L)
      /\ Total(E) = Len(E) * BatchSize
  BY <1>1 DEF Merged
<1>6. /\ B \in Batch /\ B.chunks \in Seq(Chunks) /\ B.size \in Nat
      /\ Len(B.chunks) =< MaxCount /\ B.size = b + Bytes(B.chunks)
      /\ K \in Seq(Batch) /\ E \in Seq(Batch) /\ L \in Seq(Batch)
  BY <1>4, <1>5, SoundTypes DEF SoundBatch, Batch
<1>7. PICK s \in Nat, n \in Nat : s = B.size /\ n = Bytes(B.chunks) /\ s = b + n
  BY <1>6, BytesOf
<1>8. ChunksOf(M) = ChunksOf(L) \o B.chunks /\ Total(M) = Total(L) + s /\ Len(M) = Len(L) + 1
  <2>1. L \in Seq(Batch) /\ B \in Batch  BY <1>6
  <2>2. ChunksOf(M) = ChunksOf(L) \o B.chunks  BY <1>2, <2>1, ChunksOfList
  <2>3. Total(M) = Total(L) + B.size  BY <1>2, <2>1, TotalOf
  <2>4. Len(M) = Len(L) + 1  BY <1>2, AppendProperties
  <2> QED  BY <1>7, <2>2, <2>3, <2>4
<1>9. PICK tk \in Nat, te \in Nat, tl \in Nat :
        tk = Total(K) /\ te = Total(E) /\ tl = Total(L) /\ tk + te = tl
  <2>1. Total(K) \in Nat /\ Total(E) \in Nat /\ Total(L) \in Nat  BY <1>6, TotalOf, Zenon
  <2> QED  BY <1>5, <2>1
<1>10. PICK lk \in Nat, le \in Nat, ll \in Nat :
         lk = Len(K) /\ le = Len(E) /\ ll = Len(L) /\ lk + le = ll
  BY <1>5, LenProperties
<1>N. tk + te = tl /\ lk + le = ll  BY <1>9, <1>10, Zenon
<1>11. CASE K # <<>> /\ canMerge(Last(K), B)
  <2>1. PICK A, F : A = Last(K) /\ F = Front(K)  OBVIOUS
  <2>2. PICK D : D = merge(A, B)  OBVIOUS
  <2>3. PICK G : G = Append(E, EmptyBatch)  OBVIOUS
  <2>4. PICK J : J = Append(F, D)  OBVIOUS
  <2>5. new.kept = J /\ new.extracted = G
    BY <1>1, <1>3, <1>11, <2>1, <2>2, <2>3, <2>4 DEF MergeNext
  <2>6. A \in SoundBatch /\ F \in Seq(SoundBatch) /\ K = Append(F, A) /\ Len(F) = Len(K) - 1
    BY <1>5, <1>11, <2>1, LastBatch
  <2>7. G \in Seq(SoundBatch) /\ ChunksOf(G) = <<>> /\ Len(G) = le + 1
        /\ Total(G) = te + b /\ Total(G) = Len(G) * BatchSize
    BY <1>4, <1>5, <1>9, <1>10, <2>3, ExtractOne
  <2>8. D.chunks = A.chunks \o B.chunks /\ D.size = A.size + B.size - BatchSize
        /\ D = [chunks |-> D.chunks, size |-> D.size]
    BY <2>2 DEF merge
  <2>9. Len(A.chunks) + Len(B.chunks) =< MaxCount  BY <1>11, <2>1 DEF canMerge
  <2>10. /\ A \in Batch /\ A.chunks \in Seq(Chunks) /\ A.size \in Nat /\ F \in Seq(Batch)
         /\ A.size = b + Bytes(A.chunks)
    BY <1>4, <2>6, SoundTypes DEF SoundBatch, Batch
  <2>11. /\ D.chunks \in Seq(Chunks) /\ Len(D.chunks) = Len(A.chunks) + Len(B.chunks)
         /\ Bytes(D.chunks) = Bytes(A.chunks) + Bytes(B.chunks)
    <3>1. PICK u \in Seq(Chunks) : u = A.chunks  BY <2>10
    <3>2. PICK v \in Seq(Chunks) : v = B.chunks  BY <1>6
    <3>3. u \o v \in Seq(Chunks) /\ Len(u \o v) = Len(u) + Len(v)  BY ConcatProperties
    <3>4. Bytes(u \o v) = Bytes(u) + Bytes(v)  BY BytesOf
    <3> QED  BY <2>8, <3>1, <3>2, <3>3, <3>4, Zenon
  <2>12. PICK a \in Nat, m \in Nat : a = A.size /\ m = Bytes(A.chunks) /\ a = b + m
    BY <2>10, BytesOf
  <2>13. D.size = a + s - b  BY <1>4, <1>7, <2>8, <2>12, Zenon
  <2>14. PICK d \in Nat : d = D.size /\ d = b + (m + n) /\ d = (a + s) - b
    <3>1. s = b + n /\ a = b + m  BY <1>7, <2>12, Zenon
    <3>2. PICK d \in Nat : d = a + s - b /\ d = b + (m + n) /\ d = (a + s) - b
      BY ONLY <3>1, b \in Nat, m \in Nat, n \in Nat
    <3> QED  BY <2>13, <3>2, Zenon
  <2>15. D \in Batch  BY <2>8, <2>11, <2>14 DEF Batch
  <2>16. D \in SoundBatch
    <3>1. Bytes(D.chunks) = m + n  BY <1>7, <2>11, <2>12, Zenon
    <3>2. D.size = BatchSize + Bytes(D.chunks)  BY <1>4, <2>14, <3>1
    <3>3. Len(D.chunks) =< MaxCount  BY <2>9, <2>11, Zenon
    <3> QED  BY <2>15, <3>2, <3>3, Zenon DEF SoundBatch
  <2>17. J \in Seq(SoundBatch) /\ Len(J) = lk
    <3>1. J \in Seq(SoundBatch) /\ Len(J) = Len(F) + 1  BY <2>4, <2>6, <2>16, AppendProperties
    <3> QED  BY <1>10, <2>6, <3>1
  <2>18. ChunksOf(J) = ChunksOf(M)
    <3>1. ChunksOf(J) = ChunksOf(F) \o D.chunks /\ ChunksOf(F) \in Seq(Chunks)
      BY <2>4, <2>10, <2>15, ChunksOfList
    <3>2. ChunksOf(K) = ChunksOf(F) \o A.chunks  BY <2>6, <2>10, ChunksOfList
    <3>3. (ChunksOf(F) \o A.chunks) \o B.chunks = ChunksOf(F) \o (A.chunks \o B.chunks)
      <4>1. \A u, v, w \in Seq(Chunks) : (u \o v) \o w = u \o (v \o w)
        BY ONLY Associative, SMTT(30), ZenonT(20)
      <4> QED  BY <1>6, <2>10, <3>1, <4>1, Zenon
    <3> QED  BY <1>5, <1>8, <2>8, <3>1, <3>2, <3>3, Zenon
  <2>19. Total(J) + Total(G) = Total(M)
    <3>1. Total(J) = Total(F) + D.size /\ Total(K) = Total(F) + A.size /\ Total(F) \in Nat
      BY <2>4, <2>6, <2>10, <2>15, TotalOf
    <3>2. PICK tf \in Nat : tf = Total(F) /\ tk = tf + a /\ Total(J) = tf + d
      BY <1>9, <2>12, <2>14, <3>1
    <3>3. tk = tf + a /\ d = (a + s) - b  BY <2>14, <3>2, Zenon
    <3>4. (tf + d) + (te + b) = tl + s  BY <1>N, <3>3
    <3> QED  BY <1>8, <1>9, <2>7, <3>2, <3>4, Zenon
  <2>20. Len(J) + Len(G) = Len(M)
    <3>1. lk + (le + 1) = ll + 1  BY <1>N
    <3> QED  BY <1>8, <1>10, <2>7, <2>17, <3>1, Zenon
  <2> QED  BY <1>2, <1>3, <2>5, <2>7, <2>17, <2>18, <2>19, <2>20, Zenon DEF Merged
<1>12. CASE ~(K # <<>> /\ canMerge(Last(K), B))
  <2>1. PICK J : J = Append(K, B)  OBVIOUS
  <2>2. new.kept = J /\ new.extracted = E  BY <1>1, <1>3, <1>12, <2>1 DEF MergeNext
  <2>3. J \in Seq(SoundBatch) /\ Len(J) = lk + 1  BY <1>5, <1>10, <2>1, AppendProperties
  <2>4. ChunksOf(J) = ChunksOf(K) \o B.chunks /\ Total(J) = tk + s
    BY <1>6, <1>7, <1>9, <2>1, ChunksOfList, TotalOf, SMTT(30), ZenonT(20)
  <2>5. ChunksOf(J) = ChunksOf(M)  BY <1>5, <1>8, <2>4, Zenon
  <2>6. (tk + s) + te = tl + s /\ (lk + 1) + le = ll + 1  BY <1>N
  <2>7. Total(J) + Total(E) = Total(M) /\ Len(J) + Len(E) = Len(M)
    BY <1>8, <1>9, <1>10, <2>3, <2>4, <2>6, Zenon
  <2> QED  BY <1>2, <1>3, <1>5, <2>2, <2>3, <2>5, <2>7, Zenon DEF Merged
<1> QED  BY <1>11, <1>12

\* The recursive function of mergeBatches().
MergeFun(L, n, f) ==
  f = [i \in 0 .. n |-> IF i = 0 THEN [kept |-> <<>>, extracted |-> <<>>]
                                 ELSE MergeNext(f[i - 1], L[i])]

LEMMA MergeFunExists ==
  ASSUME NEW L, NEW m \in Nat
  PROVE  \E f : MergeFun(L, m, f)
<1> DEFINE zero == [kept |-> <<>>, extracted |-> <<>>]
           P == {n \in Nat : \E f : MergeFun(L, n, f)}
<1>1. 0 \in P
  <2> DEFINE f == [i \in 0 .. 0 |-> zero]
  <2>1. f = [i \in 0 .. 0 |-> IF i = 0 THEN zero ELSE MergeNext(f[i - 1], L[i])]  OBVIOUS
  <2> HIDE DEF f
  <2>2. MergeFun(L, 0, f)  BY <2>1, Zenon DEF MergeFun
  <2> QED  BY <2>2
<1>2. ASSUME NEW n \in Nat, n \in P PROVE n + 1 \in P
  <2>1. PICK f : MergeFun(L, n, f)  BY <1>2
  <2> DEFINE g == [i \in 0 .. n + 1 |-> IF i = n + 1 THEN MergeNext(f[n], L[n + 1]) ELSE f[i]]
  <2>2. ASSUME NEW i \in 0 .. n + 1
        PROVE  g[i] = IF i = 0 THEN zero ELSE MergeNext(g[i - 1], L[i])
    <3>1. CASE i = n + 1
      <4>1. n \in 0 .. n + 1 /\ n # n + 1 /\ i - 1 = n /\ i # 0  BY <3>1
      <4>2. g[n] = f[n] /\ g[i] = MergeNext(f[n], L[n + 1])  BY <3>1, <4>1
      <4> QED  BY <3>1, <4>1, <4>2, Zenon
    <3>2. CASE i # n + 1
      <4>1. i \in 0 .. n /\ (i # 0 => i - 1 \in 0 .. n + 1 /\ i - 1 # n + 1)  BY <3>2
      <4>2. f[i] = IF i = 0 THEN zero ELSE MergeNext(f[i - 1], L[i])
        BY <2>1, <4>1, Zenon DEF MergeFun
      <4>3. g[i] = f[i] /\ (i # 0 => g[i - 1] = f[i - 1])  BY <3>2, <4>1
      <4> QED  BY <4>2, <4>3, Zenon
    <3> QED  BY <3>1, <3>2
  <2>3. g = [i \in 0 .. n + 1 |-> g[i]]  BY Zenon
  <2> HIDE DEF g
  <2>4. MergeFun(L, n + 1, g)  BY <2>2, <2>3, Zenon DEF MergeFun
  <2> QED  BY <2>4
<1>3. Nat \subseteq P
  <2> HIDE DEF P
  <2> QED  BY <1>1, <1>2, Induction
<1> QED  BY <1>3

\* mergeBatches() keeps the chunks, their order and the sizes, and turns every
\* batch that it empties over to the caller.
LEMMA MergeSound ==
  ASSUME QuarantineAssumption, NEW C, C.list \in Seq(SoundBatch)
  PROVE  Merged(mergeBatches(C), C.list)
<1>1. PICK L \in Seq(SoundBatch) : L = C.list  OBVIOUS
<1>2. PICK n \in Nat : n = Len(L)  BY LenProperties
<1> DEFINE h == CHOOSE f : MergeFun(L, n, f)
           P == {i \in Nat : i =< n => Merged(h[i], SubSeq(L, 1, i))}
<1>3. MergeFun(L, n, h)  BY MergeFunExists, Zenon
<1>4. mergeBatches(C) = h[n]  BY <1>1, <1>2, Zenon DEF mergeBatches, MergeFun
<1> HIDE DEF h
<1>5. \A i \in 0 .. n : h[i] = IF i = 0 THEN [kept |-> <<>>, extracted |-> <<>>]
                                        ELSE MergeNext(h[i - 1], L[i])
  BY <1>3, Zenon DEF MergeFun
<1>6. 0 \in P
  <2>1. SubSeq(L, 1, 0) = <<>>  BY SubSeqEmpty
  <2>2. h[0] = [kept |-> <<>>, extracted |-> <<>>]  BY <1>5
  <2>3. h[0].kept = <<>> /\ h[0].extracted = <<>>  BY <2>2
  <2>4. Len(<<>>) = 0 /\ <<>> \in Seq(SoundBatch)  BY EmptySeq
  <2>5. Total(<<>>) = 0 /\ ChunksOf(<<>>) = <<>>  BY TotalOf, ChunksOfList
  <2>6. 0 = 0 * BatchSize /\ 0 + 0 = 0  BY SoundTypes
  <2>7. Merged(h[0], <<>>)  BY <2>3, <2>4, <2>5, <2>6, Zenon DEF Merged
  <2> QED  BY <2>1, <2>7
<1>7. ASSUME NEW i \in Nat, i \in P PROVE i + 1 \in P
  <2> SUFFICES ASSUME i + 1 =< n PROVE Merged(h[i + 1], SubSeq(L, 1, i + 1))  OBVIOUS
  <2>1. i + 1 \in 0 .. n /\ i + 1 # 0 /\ (i + 1) - 1 = i /\ i + 1 \in 1 .. n  OBVIOUS
  <2>2. h[i + 1] = MergeNext(h[i], L[i + 1])  BY <1>5, <2>1
  <2>3. L[i + 1] \in SoundBatch  BY <1>2, <2>1, ElementOfSeq
  <2>4. SubSeq(L, 1, i) \in Seq(SoundBatch)  BY <1>2, <2>1
  <2>5. SubSeq(L, 1, i + 1) = SubSeq(L, 1, i) \o <<L[i + 1]>>
    BY <1>2, <2>1, SubSeqRecursiveSecond
  <2>6. SubSeq(L, 1, i + 1) = Append(SubSeq(L, 1, i), L[i + 1])
    BY <2>3, <2>4, <2>5, AppendIsConcat
  <2>7. Merged(h[i], SubSeq(L, 1, i))  BY <1>7
  <2>8. Merged(MergeNext(h[i], L[i + 1]), Append(SubSeq(L, 1, i), L[i + 1]))
    BY <2>3, <2>4, <2>7, MergeStep
  <2> QED  BY <2>2, <2>6, <2>8, Zenon
<1>8. Nat \subseteq P
  <2> HIDE DEF P
  <2> QED  BY <1>6, <1>7, Induction
<1>9. Merged(h[n], SubSeq(L, 1, n))  BY <1>8
<1>10. SubSeq(L, 1, n) = L  BY <1>2, SubSeqFull
<1> QED  BY <1>1, <1>4, <1>9, <1>10, Zenon

\* A list cut in two.
LEMMA Cut ==
  ASSUME QuarantineAssumption, NEW L \in Seq(SoundBatch), NEW n \in 0 .. Len(L)
  PROVE  /\ SubSeq(L, 1, n) \in Seq(SoundBatch) /\ SubSeq(L, n + 1, Len(L)) \in Seq(SoundBatch)
         /\ L = SubSeq(L, 1, n) \o SubSeq(L, n + 1, Len(L))
         /\ Len(L) = Len(SubSeq(L, 1, n)) + Len(SubSeq(L, n + 1, Len(L)))
         /\ ChunksOf(L) = ChunksOf(SubSeq(L, 1, n)) \o ChunksOf(SubSeq(L, n + 1, Len(L)))
         /\ Total(L) = Total(SubSeq(L, 1, n)) + Total(SubSeq(L, n + 1, Len(L)))
         /\ SumFunction(SubSeq(BatchSizes(L), 1, n)) = Total(SubSeq(L, 1, n))
<1>1. PICK m \in Nat : m = Len(L)  BY LenProperties
<1>2. PICK H : H = SubSeq(L, 1, n)  OBVIOUS
<1>3. PICK R : R = SubSeq(L, n + 1, m)  OBVIOUS
<1>4. n \in Nat /\ n =< m  BY <1>1
<1>5. \A i \in 1 .. m : L[i] \in SoundBatch  BY <1>1, ElementOfSeq
<1>6. /\ H \in Seq(SoundBatch) /\ Len(H) = n
      /\ \A i \in 1 .. n : H[i] = L[i]
  <2>1. \A i \in 1 .. n : L[i] \in SoundBatch  BY <1>4, <1>5
  <2> QED  BY <1>2, <1>4, <2>1, SubSeqProperties
<1>7. R \in Seq(SoundBatch)
  <2>1. \A i \in n + 1 .. m : L[i] \in SoundBatch  BY <1>4, <1>5
  <2> QED  BY <1>3, <1>4, <2>1, SubSeqProperties
<1>8. L = H \o R
  <2>1. 1 \in 1 .. Len(L) + 1 /\ n \in 1 - 1 .. Len(L) /\ m \in n .. Len(L)  BY <1>1
  <2>2. H \o R = SubSeq(L, 1, m)  BY <1>2, <1>3, <2>1, ConcatAdjacentSubSeq
  <2> QED  BY <1>1, <2>2, SubSeqFull
<1>9. H \in Seq(Batch) /\ R \in Seq(Batch) /\ L \in Seq(Batch)  BY <1>6, <1>7, SoundTypes
<1>10. Len(L) = Len(H) + Len(R)  BY <1>6, <1>7, <1>8, ConcatProperties, SMTT(30), ZenonT(20)
<1>11. ChunksOf(H \o R) = ChunksOf(H) \o ChunksOf(R) /\ Total(H \o R) = Total(H) + Total(R)
  BY <1>9, ChunksOfList, TotalOf
<1>12. SubSeq(BatchSizes(L), 1, n) = BatchSizes(H)
  <2>1. PICK b : b = BatchSizes(L)  OBVIOUS
  <2>2. PICK h : h = BatchSizes(H)  OBVIOUS
  <2>3. \A B \in Batch : B.size \in Nat  BY DEF Batch
  <2>4. \A i \in 1 .. m : b[i] = L[i].size /\ L[i].size \in Nat
    <3>1. DOMAIN L = 1 .. m  BY <1>1, <1>9
    <3>2. \A i \in 1 .. m : b[i] = L[i].size  BY <2>1, <3>1 DEF BatchSizes
    <3> QED  BY <1>5, <2>3, <3>2, SoundTypes
  <2>5. \A i \in 1 .. n : b[i] \in Nat  BY <1>4, <2>4
  <2>6. PICK x : x = SubSeq(b, 1, n)  OBVIOUS
  <2>7. x \in Seq(Nat) /\ Len(x) = n /\ \A i \in 1 .. n : x[i] = b[i]
    BY <1>4, <2>5, <2>6, SubSeqProperties
  <2>8. h \in Seq(Nat) /\ Len(h) = n /\ \A i \in 1 .. n : h[i] = H[i].size
    <3>1. DOMAIN H = 1 .. n  BY <1>6
    <3>2. h = [i \in 1 .. n |-> H[i].size]  BY <2>2, <3>1 DEF BatchSizes
    <3>3. \A i \in 1 .. n : H[i].size \in Nat  BY <1>4, <1>6, <2>4
    <3> QED  BY <1>4, <3>2, <3>3
  <2>9. ASSUME NEW i \in 1 .. n PROVE x[i] = h[i]
    <3>1. i \in 1 .. m  BY <1>4
    <3>2. x[i] = b[i] /\ b[i] = L[i].size  BY <2>4, <2>7, <3>1, Zenon
    <3>3. h[i] = H[i].size /\ H[i] = L[i]  BY <1>6, <2>8, Zenon
    <3> QED  BY <3>2, <3>3, Zenon
  <2>10. x = h  BY <2>7, <2>8, <2>9, SeqEqual
  <2> QED  BY <2>1, <2>2, <2>6, <2>10
<1>13. SumFunction(SubSeq(BatchSizes(L), 1, n)) = Total(H)  BY <1>12, Zenon DEF Total
<1> QED  BY <1>1, <1>2, <1>3, <1>6, <1>7, <1>8, <1>10, <1>11, <1>13, Zenon

\* The batches of L in two caches: d.tmp, after those of E, and d.cache.
Dequeued(L, E, d) ==
  /\ d.cache \in SoundCache /\ d.tmp \in SoundCache
  /\ \E T \in Seq(Chunks) : /\ ChunksOf(L) = T \o ChunksOf(d.cache.list)
                            /\ ChunksOf(d.tmp.list) = ChunksOf(E) \o T
  /\ Len(d.tmp.list) + Len(d.cache.list) = Len(E) + Len(L)

\* What the loop of recycle() does: the oldest batches go to the end of Tmp,
\* the others stay, and both sizes are right.
LEMMA DequeueSound ==
  ASSUME QuarantineAssumption, NEW L \in Seq(SoundBatch), NEW size, size = Total(L),
         NEW minSize \in Nat, NEW E \in Seq(SoundBatch),
         NEW d, d = Dequeue(L, size, minSize, E)
  PROVE  Dequeued(L, E, d)
<1> DEFINE Left(i) == size - SumFunction(SubSeq(BatchSizes(L), 1, i))
           N == {i \in 0 .. Len(L) : Left(i) =< minSize}
           n == Min(N)
<1>0. Len(L) \in Nat /\ Len(E) \in Nat  BY LenProperties
<1>1. \A i \in 0 .. Len(L) :
        /\ Left(i) = Total(L) - Total(SubSeq(L, 1, i))
        /\ Total(L) = Total(SubSeq(L, 1, i)) + Total(SubSeq(L, i + 1, Len(L)))
        /\ Total(SubSeq(L, 1, i)) \in Nat /\ Total(SubSeq(L, i + 1, Len(L))) \in Nat
  <2> TAKE i \in 0 .. Len(L)
  <2>1. /\ SubSeq(L, 1, i) \in Seq(SoundBatch) /\ SubSeq(L, i + 1, Len(L)) \in Seq(SoundBatch)
        /\ Total(L) = Total(SubSeq(L, 1, i)) + Total(SubSeq(L, i + 1, Len(L)))
        /\ SumFunction(SubSeq(BatchSizes(L), 1, i)) = Total(SubSeq(L, 1, i))
    BY Cut
  <2>2. Total(SubSeq(L, 1, i)) \in Nat /\ Total(SubSeq(L, i + 1, Len(L))) \in Nat
    BY <2>1, SoundTypes, TotalOf
  <2> QED  BY <2>1, <2>2, Zenon
<1>2. \A i \in 0 .. Len(L) : Left(i) = Total(SubSeq(L, i + 1, Len(L)))
  <2> HIDE DEF Left
  <2> TAKE i \in 0 .. Len(L)
  <2>1. PICK x \in Nat, y \in Nat :
          x = Total(SubSeq(L, 1, i)) /\ y = Total(SubSeq(L, i + 1, Len(L)))
    BY <1>1
  <2>2. Left(i) = Total(L) - x /\ Total(L) = x + y  BY <1>1, <2>1, Zenon
  <2>3. (x + y) - x = y  OBVIOUS
  <2> QED  BY <2>1, <2>2, <2>3, Zenon
<1> HIDE DEF Left
<1>3. Len(L) \in N
  <2>1. SubSeq(L, Len(L) + 1, Len(L)) = <<>>  BY <1>0, SubSeqEmpty
  <2>2. Len(L) \in 0 .. Len(L)  BY <1>0
  <2>3. Left(Len(L)) = 0  BY <1>2, <2>1, <2>2, TotalOf, Zenon
  <2>4. 0 =< minSize  OBVIOUS
  <2> QED  BY <2>2, <2>3, <2>4, Zenon
<1>4. n \in 0 .. Len(L)
  <2>1. N \in SUBSET Nat /\ N # {}  BY <1>3
  <2> HIDE DEF N
  <2>2. \E x \in N : \A y \in N : x =< y  BY <2>1, Least
  <2>3. n \in N  BY <2>2, Zenon DEF Min
  <2> QED  BY <2>3 DEF N
<1>5. PICK H, R : H = SubSeq(L, 1, n) /\ R = SubSeq(L, n + 1, Len(L))  OBVIOUS
<1>6. /\ H \in Seq(SoundBatch) /\ R \in Seq(SoundBatch)
      /\ Len(L) = Len(H) + Len(R) /\ ChunksOf(L) = ChunksOf(H) \o ChunksOf(R)
  <2> HIDE DEF n
  <2> QED  BY <1>4, <1>5, Cut
<1>7. Left(n) = Total(R)  BY <1>2, <1>4, <1>5, Zenon
<1>8. Dequeue(L, size, minSize, E)
        = [cache |-> [list |-> R, size |-> Left(n)],
           tmp   |-> [list |-> E \o H, size |-> Total(E \o H)]]
  BY <1>5, Zenon DEF Dequeue, Left, Total
<1> HIDE DEF n
<1>9. PICK x, y : x = [list |-> R, size |-> Total(R)] /\ y = [list |-> E \o H, size |-> Total(E \o H)]
  OBVIOUS
<1>10. Dequeue(L, size, minSize, E) = [cache |-> x, tmp |-> y]  BY <1>7, <1>8, <1>9, Zenon
<1>11. /\ H \in Seq(Batch) /\ R \in Seq(Batch) /\ E \in Seq(Batch)
       /\ E \o H \in Seq(SoundBatch) /\ Len(E \o H) = Len(E) + Len(H)
  BY <1>6, SoundTypes, ConcatProperties
<1>12. E \o H \in Seq(Batch)  BY <1>11, SoundTypes
<1>13. Total(R) \in Nat /\ Total(E \o H) \in Nat  BY <1>11, <1>12, TotalOf
<1>14. x \in SoundCache /\ x.list = R  BY <1>6, <1>9, <1>13 DEF SoundCache
<1>15. y \in SoundCache /\ y.list = E \o H  BY <1>9, <1>11, <1>13 DEF SoundCache
<1>16. ChunksOf(E \o H) = ChunksOf(E) \o ChunksOf(H) /\ ChunksOf(H) \in Seq(Chunks)
  BY <1>11, ChunksOfList
<1>17. Len(E \o H) + Len(R) = Len(E) + Len(L)
  <2>1. PICK a \in Nat, b \in Nat, c \in Nat : a = Len(E) /\ b = Len(H) /\ c = Len(R)
    BY <1>6, LenProperties
  <2>2. (a + b) + c = a + (b + c)  OBVIOUS
  <2> QED  BY <1>6, <1>11, <2>1, <2>2, Zenon
<1>18. d.cache = x /\ d.tmp = y  BY <1>10
<1> QED  BY <1>6, <1>14, <1>15, <1>16, <1>17, <1>18, Zenon DEF Dequeued

\* The CacheMutex section of recycle(): what goes to Tmp is what was oldest.
LEMMA ExtractSound ==
  ASSUME QuarantineAssumption, NEW C \in SoundCache, NEW minSize \in Nat,
         NEW e, e = Extract(C, minSize)
  PROVE  /\ e.cache \in SoundCache /\ e.tmp \in SoundCache
         /\ ChunksOf(C.list) = ChunksOf(e.tmp.list) \o ChunksOf(e.cache.list)
         /\ Len(C.list) = Len(e.cache.list) + Len(e.tmp.list)
<1>1. C.list \in Seq(SoundBatch) /\ C.size = Total(C.list)  BY DEF SoundCache
<1>2. PICK L : L = C.list  OBVIOUS
<1>3. PICK m : m = mergeBatches(C)  OBVIOUS
<1>4. Merged(m, L)  BY <1>1, <1>2, <1>3, MergeSound
<1>5. PICK K, X : K = m.kept /\ X = m.extracted  OBVIOUS
<1>6. /\ K \in Seq(SoundBatch) /\ X \in Seq(SoundBatch)
      /\ ChunksOf(K) = ChunksOf(L) /\ ChunksOf(X) = <<>>
      /\ Len(K) + Len(X) = Len(L) /\ Total(K) + Total(X) = Total(L)
      /\ Total(X) = Len(X) * BatchSize
  BY <1>4, <1>5 DEF Merged
<1>8. \A l, a, b \in Nat : a + b = l => b + a = l  OBVIOUS
<1>9. <<>> \in Seq(SoundBatch) /\ Len(<<>>) = 0 /\ ChunksOf(<<>>) = <<>>
  BY EmptySeq, ChunksOfList
<1>10. CASE WorthMerging(C)
  <2>1. e = Dequeue(K, C.size - Len(X) * BatchSize, minSize, X)
    BY <1>3, <1>5, <1>10, Zenon DEF Extract
  <2>2. C.size - Len(X) * BatchSize = Total(K)
    <3>1. Total(K) \in Nat /\ Total(X) \in Nat  BY <1>6, SoundTypes, TotalOf
    <3>2. PICK a \in Nat, b \in Nat : a = Total(K) /\ b = Total(X)  BY <3>1
    <3>3. C.size = a + b /\ Len(X) * BatchSize = b  BY <1>1, <1>2, <1>6, <3>2, Zenon
    <3>4. (a + b) - b = a  OBVIOUS
    <3> QED  BY <3>2, <3>3, <3>4, Zenon
  <2>3. PICK z : z = C.size - Len(X) * BatchSize  OBVIOUS
  <2>D. Dequeued(K, X, e)
    <3>1. e = Dequeue(K, z, minSize, X) /\ z = Total(K)  BY <2>1, <2>2, <2>3, Zenon
    <3> QED  BY <1>6, <3>1, DequeueSound, Zenon
  <2>4. /\ e.cache \in SoundCache /\ e.tmp \in SoundCache
        /\ Len(e.tmp.list) + Len(e.cache.list) = Len(X) + Len(K)
    BY <2>D DEF Dequeued
  <2>5. PICK T \in Seq(Chunks) : /\ ChunksOf(K) = T \o ChunksOf(e.cache.list)
                                 /\ ChunksOf(e.tmp.list) = ChunksOf(X) \o T
    BY <2>D DEF Dequeued
  <2>6. ChunksOf(e.tmp.list) = T
    <3>1. <<>> \o T = T  BY ConcatEmptySeq
    <3> QED  BY <1>6, <2>5, <3>1, Zenon
  <2>7. Len(L) = Len(e.cache.list) + Len(e.tmp.list)
    <3>1. e.cache.list \in Seq(SoundBatch) /\ e.tmp.list \in Seq(SoundBatch)
      BY <2>4 DEF SoundCache
    <3>2. Len(e.cache.list) \in Nat /\ Len(e.tmp.list) \in Nat /\ Len(K) \in Nat /\ Len(X) \in Nat
      BY <1>6, <3>1, LenProperties
    <3>3. PICK a \in Nat, b \in Nat, k \in Nat, x \in Nat :
            a = Len(e.cache.list) /\ b = Len(e.tmp.list) /\ k = Len(K) /\ x = Len(X)
      BY <3>2
    <3>4. b + a = x + k /\ k + x = Len(L)  BY <1>6, <2>4, <3>3, Zenon
    <3>5. a + b = k + x  BY <3>4
    <3> QED  BY <3>3, <3>4, <3>5, Zenon
  <2> QED  BY <1>2, <1>6, <2>4, <2>5, <2>6, <2>7, Zenon
<1>11. CASE ~WorthMerging(C)
  <2>1. e = Dequeue(L, C.size, minSize, <<>>)
    BY <1>2, <1>11, Zenon DEF Extract
  <2>2. PICK z : z = C.size  OBVIOUS
  <2>3. PICK E \in Seq(SoundBatch) : E = <<>>  BY <1>9
  <2>D. Dequeued(L, E, e)
    <3>1. e = Dequeue(L, z, minSize, E) /\ z = Total(L) /\ L \in Seq(SoundBatch)
      BY <1>1, <1>2, <2>1, <2>2, <2>3, Zenon
    <3> QED  BY <3>1, DequeueSound, Zenon
  <2>4. /\ e.cache \in SoundCache /\ e.tmp \in SoundCache
        /\ Len(e.tmp.list) + Len(e.cache.list) = Len(E) + Len(L)
    BY <2>D DEF Dequeued
  <2>5. PICK T \in Seq(Chunks) : /\ ChunksOf(L) = T \o ChunksOf(e.cache.list)
                                 /\ ChunksOf(e.tmp.list) = ChunksOf(E) \o T
    BY <2>D DEF Dequeued
  <2>6. ChunksOf(e.tmp.list) = T
    <3>1. <<>> \o T = T  BY ConcatEmptySeq
    <3> QED  BY <1>9, <2>3, <2>5, <3>1, Zenon
  <2>7. Len(L) = Len(e.cache.list) + Len(e.tmp.list)
    <3>1. e.cache.list \in Seq(SoundBatch) /\ e.tmp.list \in Seq(SoundBatch) /\ L \in Seq(SoundBatch)
      BY <1>1, <1>2, <2>4 DEF SoundCache
    <3>2. PICK a \in Nat, b \in Nat, l \in Nat :
            a = Len(e.cache.list) /\ b = Len(e.tmp.list) /\ l = Len(L)
      BY <3>1, LenProperties
    <3>3. b + a = 0 + l  BY <1>9, <2>3, <2>4, <3>2, Zenon
    <3>4. l = a + b  BY <3>3
    <3> QED  BY <3>2, <3>4, Zenon
  <2> QED  BY <1>2, <2>4, <2>5, <2>6, <2>7, Zenon
<1> QED  BY <1>10, <1>11
-----------------------------------------------------------------------------
\* The inductive invariant, and the steps.

ForkerAt == {"idle", "disabling", "disabled", "enabling"}

\* Every cache is a sound one, whoever holds it.
Types ==
  /\ state \in [Chunks -> {"Available", "Allocated", "Quarantined"}]
  /\ cache \in SoundCache
  /\ local \in [Caches -> SoundCache] /\ tmp \in [Caches -> SoundCache]
  /\ current \in [Caches -> SUBSET Chunks]
  /\ target \in [Caches -> {0, MinSize}]
  /\ pc \in [Caches \cup {Forker} -> Workers \cup ForkerAt]
  /\ pc[Forker] \in ForkerAt /\ \A k \in Caches : pc[k] \in Workers
  /\ {cacheMutex, recycleMutex} \subseteq Caches \cup {Forker, NoOwner}
  /\ batches \in Int

\* Tmp is filled by the extraction, and a batch is open only in doRecycle().
Phases ==
  \A k \in Caches :
    /\ pc[k] \notin {"unlock", "recycle", "batch"} => tmp[k].list = <<>>
    /\ pc[k] # "batch" => current[k] = {}

OnePlace == \A c \in Chunks : TimesQuarantined(c) = IF state[c] = "Quarantined" THEN 1 ELSE 0

IInv == Types /\ Phases /\ OnePlace /\ batches = BatchesQuarantined

\* What the workers hold of a chunk, and of the batches.
TimesWithWorkers(c) == SumFunction([k \in Caches |-> TimesHeld(c, k)])

BatchesWithWorkers == SumFunction([k \in Caches |-> BatchesHeld(k)])

LEMMA Places ==
  /\ \A c : TimesQuarantined(c) = Times(c, ChunksOf(cache.list)) + TimesWithWorkers(c)
  /\ BatchesQuarantined = Len(cache.list) + BatchesWithWorkers
BY Zenon DEF TimesQuarantined, TimesWithWorkers, BatchesQuarantined, BatchesWithWorkers

LEMMA SoundCaches ==
  ASSUME QuarantineAssumption, NEW C \in SoundCache
  PROVE  /\ C.list \in Seq(SoundBatch) /\ C.list \in Seq(Batch) /\ C.size \in Nat
         /\ C.size = Total(C.list)
         /\ ChunksOf(C.list) \in Seq(Chunks) /\ Len(C.list) \in Nat
         /\ \A c : Times(c, ChunksOf(C.list)) \in Nat
<1>1. C.list \in Seq(SoundBatch) /\ C.size \in Nat /\ C.size = Total(C.list)
  BY DEF SoundCache
<1>2. C.list \in Seq(Batch) /\ Len(C.list) \in Nat  BY <1>1, SoundTypes, LenProperties
<1>3. ChunksOf(C.list) \in Seq(Chunks)  BY <1>2, ChunksOfList
<1> QED  BY <1>1, <1>2, <1>3, TimesOf

LEMMA HeldNumbers ==
  ASSUME QuarantineAssumption, NEW C \in SoundCache, NEW D \in SoundCache
  PROVE  /\ \A c, s : Times(c, ChunksOf(C.list)) + Times(c, ChunksOf(D.list))
                        + (IF c \in s THEN 1 ELSE 0) \in Nat
         /\ \A p : Len(C.list) + Len(D.list) + (IF p = "batch" THEN 1 ELSE 0) \in Nat
<1>1. ASSUME NEW c, NEW s
      PROVE  Times(c, ChunksOf(C.list)) + Times(c, ChunksOf(D.list))
               + (IF c \in s THEN 1 ELSE 0) \in Nat
  <2>1. PICK x \in Nat, y \in Nat : x = Times(c, ChunksOf(C.list)) /\ y = Times(c, ChunksOf(D.list))
    BY SoundCaches
  <2>2. x + y + (IF c \in s THEN 1 ELSE 0) \in Nat  OBVIOUS
  <2> QED  BY <2>1, <2>2, Zenon
<1>2. PICK x \in Nat, y \in Nat : x = Len(C.list) /\ y = Len(D.list)
  BY SoundCaches
<1>3. \A p : x + y + (IF p = "batch" THEN 1 ELSE 0) \in Nat  OBVIOUS
<1> QED  BY <1>1, <1>2, <1>3, Zenon

LEMMA HeldTypes ==
  ASSUME QuarantineAssumption
  PROVE  /\ Types => \A k \in Caches : (\A c : TimesHeld(c, k) \in Nat) /\ BatchesHeld(k) \in Nat
         /\ Types' => \A k \in Caches : (\A c : TimesHeld(c, k)' \in Nat) /\ BatchesHeld(k)' \in Nat
<1>1. ASSUME Types, NEW k \in Caches
      PROVE  (\A c : TimesHeld(c, k) \in Nat) /\ BatchesHeld(k) \in Nat
  <2>1. local[k] \in SoundCache /\ tmp[k] \in SoundCache  BY <1>1 DEF Types
  <2> QED  BY <2>1, HeldNumbers, Zenon DEF TimesHeld, BatchesHeld
<1>2. ASSUME Types', NEW k \in Caches
      PROVE  (\A c : TimesHeld(c, k)' \in Nat) /\ BatchesHeld(k)' \in Nat
  <2>1. local'[k] \in SoundCache /\ tmp'[k] \in SoundCache  BY <1>2 DEF Types
  <2> QED  BY <2>1, HeldNumbers, Zenon DEF TimesHeld, BatchesHeld
<1> QED  BY <1>1, <1>2

\* The sums over the workers, as numbers.
LEMMA WorkersTypes ==
  ASSUME QuarantineAssumption, Types
  PROVE  /\ \A c : TimesWithWorkers(c) \in Nat
         /\ \A c : \A k \in Caches : TimesHeld(c, k) =< TimesWithWorkers(c)
         /\ BatchesWithWorkers \in Nat
<1>1. IsFiniteSet(Caches)  BY DEF QuarantineAssumption
<1>2. ASSUME NEW c
      PROVE  /\ TimesWithWorkers(c) \in Nat
             /\ \A k \in Caches : TimesHeld(c, k) =< TimesWithWorkers(c)
  <2>1. PICK f : f = [k \in Caches |-> TimesHeld(c, k)]  OBVIOUS
  <2>2. \A k \in Caches : f[k] \in Nat  BY <2>1, HeldTypes
  <2>3. SumFunctionOnSet(f, Caches) \in Nat /\ \A k \in Caches : f[k] =< SumFunctionOnSet(f, Caches)
    BY <1>1, <2>2, SumOfNaturals
  <2>4. SumFunction(f) = SumFunctionOnSet(f, Caches)  BY <2>1 DEF SumFunction
  <2>5. TimesWithWorkers(c) = SumFunction(f)  BY <2>1, Zenon DEF TimesWithWorkers
  <2>6. \A k \in Caches : f[k] = TimesHeld(c, k)  BY <2>1
  <2> QED  BY <2>3, <2>4, <2>5, <2>6
<1>3. BatchesWithWorkers \in Nat
  <2>1. PICK f : f = [k \in Caches |-> BatchesHeld(k)]  OBVIOUS
  <2>2. \A k \in Caches : f[k] \in Nat  BY <2>1, HeldTypes
  <2>3. SumFunctionOnSet(f, Caches) \in Nat  BY <1>1, <2>2, SumOfNaturals
  <2>4. SumFunction(f) = SumFunctionOnSet(f, Caches)  BY <2>1 DEF SumFunction
  <2> QED  BY <2>1, <2>3, <2>4, Zenon DEF BatchesWithWorkers
<1> QED  BY <1>2, <1>3

\* A step in which one worker's lists change.
LEMMA OneWorker ==
  ASSUME QuarantineAssumption, Types, Types', NEW k \in Caches,
         \A j \in Caches \ {k} : /\ local'[j] = local[j] /\ tmp'[j] = tmp[j]
                                 /\ current'[j] = current[j] /\ pc'[j] = pc[j]
  PROVE  /\ \A c : TimesWithWorkers(c)' = (TimesWithWorkers(c) - TimesHeld(c, k)) + TimesHeld(c, k)'
         /\ BatchesWithWorkers' = (BatchesWithWorkers - BatchesHeld(k)) + BatchesHeld(k)'
<1>1. IsFiniteSet(Caches)  BY DEF QuarantineAssumption
<1>2. ASSUME NEW c
      PROVE  TimesWithWorkers(c)' = (TimesWithWorkers(c) - TimesHeld(c, k)) + TimesHeld(c, k)'
  <2>1. PICK f : f = [j \in Caches |-> TimesHeld(c, j)]  OBVIOUS
  <2>2. PICK g : g = [j \in Caches |-> TimesHeld(c, j)']  OBVIOUS
  <2>3. \A j \in Caches : TimesHeld(c, j) \in Nat  BY HeldTypes
  <2>4. \A j \in Caches : TimesHeld(c, j)' \in Nat  BY HeldTypes
  <2>5. f \in [Caches -> Int] /\ g \in [Caches -> Int]  BY <2>1, <2>2, <2>3, <2>4
  <2>6. \A j \in Caches \ {k} : TimesHeld(c, j)' = TimesHeld(c, j)  BY DEF TimesHeld
  <2>7. \A j \in Caches \ {k} : g[j] = f[j]  BY <2>1, <2>2, <2>6
  <2>8. SumFunction(g) = (SumFunction(f) - f[k]) + g[k]  BY <1>1, <2>5, <2>7, SumChange
  <2>9. TimesWithWorkers(c) = SumFunction(f) /\ TimesWithWorkers(c)' = SumFunction(g)
    BY <2>1, <2>2, Zenon DEF TimesWithWorkers
  <2>10. f[k] = TimesHeld(c, k) /\ g[k] = TimesHeld(c, k)'  BY <2>1, <2>2
  <2> QED  BY <2>8, <2>9, <2>10, Zenon
<1>3. BatchesWithWorkers' = (BatchesWithWorkers - BatchesHeld(k)) + BatchesHeld(k)'
  <2>1. PICK f : f = [j \in Caches |-> BatchesHeld(j)]  OBVIOUS
  <2>2. PICK g : g = [j \in Caches |-> BatchesHeld(j)']  OBVIOUS
  <2>3. \A j \in Caches : BatchesHeld(j) \in Nat  BY HeldTypes
  <2>4. \A j \in Caches : BatchesHeld(j)' \in Nat  BY HeldTypes
  <2>5. f \in [Caches -> Int] /\ g \in [Caches -> Int]  BY <2>1, <2>2, <2>3, <2>4
  <2>6. \A j \in Caches \ {k} : BatchesHeld(j)' = BatchesHeld(j)  BY DEF BatchesHeld
  <2>7. \A j \in Caches \ {k} : g[j] = f[j]  BY <2>1, <2>2, <2>6
  <2>8. SumFunction(g) = (SumFunction(f) - f[k]) + g[k]  BY <1>1, <2>5, <2>7, SumChange
  <2>9. BatchesWithWorkers = SumFunction(f) /\ BatchesWithWorkers' = SumFunction(g)
    BY <2>1, <2>2, Zenon DEF BatchesWithWorkers
  <2>10. f[k] = BatchesHeld(k) /\ g[k] = BatchesHeld(k)'  BY <2>1, <2>2
  <2> QED  BY <2>8, <2>9, <2>10, Zenon
<1> QED  BY <1>2, <1>3

\* A step in which none does.
LEMMA NoWorker ==
  ASSUME UNCHANGED <<local, tmp, current>>,
         \A k \in Caches : pc'[k] = "batch" <=> pc[k] = "batch"
  PROVE  /\ \A c : TimesWithWorkers(c)' = TimesWithWorkers(c)
         /\ BatchesWithWorkers' = BatchesWithWorkers
<1>1. ASSUME NEW c PROVE TimesWithWorkers(c)' = TimesWithWorkers(c)
  <2>1. \A k \in Caches : TimesHeld(c, k)' = TimesHeld(c, k)  BY DEF TimesHeld
  <2>2. [k \in Caches |-> TimesHeld(c, k)'] = [k \in Caches |-> TimesHeld(c, k)]  BY <2>1
  <2> QED  BY <2>2, Zenon DEF TimesWithWorkers
<1>2. \A k \in Caches : BatchesHeld(k)' = BatchesHeld(k)  BY DEF BatchesHeld
<1>3. [k \in Caches |-> BatchesHeld(k)'] = [k \in Caches |-> BatchesHeld(k)]  BY <1>2
<1> QED  BY <1>1, <1>3, Zenon DEF BatchesWithWorkers

\* A step that moves no chunk and no batch.
LEMMA NothingMoves ==
  ASSUME UNCHANGED <<cache, local, tmp, current, batches>>,
         \A k \in Caches : pc'[k] = "batch" <=> pc[k] = "batch",
         \A c \in Chunks : state'[c] = "Quarantined" <=> state[c] = "Quarantined",
         OnePlace, batches = BatchesQuarantined
  PROVE  OnePlace' /\ (batches = BatchesQuarantined)'
<1>1. /\ \A c : TimesWithWorkers(c)' = TimesWithWorkers(c)
      /\ BatchesWithWorkers' = BatchesWithWorkers
  BY NoWorker
<1>2. \A c : TimesQuarantined(c)' = TimesQuarantined(c)
  BY <1>1, Zenon DEF TimesQuarantined, TimesWithWorkers
<1>3. BatchesQuarantined' = BatchesQuarantined
  BY <1>1, Zenon DEF BatchesQuarantined, BatchesWithWorkers
<1>4. OnePlace'
  <2>1. \A c \in Chunks : TimesQuarantined(c) = IF state[c] = "Quarantined" THEN 1 ELSE 0
    BY DEF OnePlace
  <2>2. \A c \in Chunks : TimesQuarantined(c)' = IF state'[c] = "Quarantined" THEN 1 ELSE 0
    BY <1>2, <2>1, Zenon
  <2> QED  BY <2>2, Zenon DEF OnePlace
<1> QED  BY <1>3, <1>4

LEMMA ForkerIsNoWorker ==
  ASSUME QuarantineAssumption
  PROVE  /\ Forker \notin Caches
         /\ MinSize \in Nat
BY DEF QuarantineAssumption, MinSize

LEMMA ControlSteps ==
  ASSUME QuarantineAssumption, IInv,
         \/ \E c \in Chunks : Allocate(c)
         \/ \E k \in Caches : TryLock(k) \/ LockRecycle(k) \/ UnlockRecycle(k)
         \/ Disable
         \/ Enable
         \/ UNCHANGED vars
  PROVE  IInv'
<1>0. Types /\ Phases /\ OnePlace /\ batches = BatchesQuarantined /\ Forker \notin Caches
  BY ForkerIsNoWorker DEF IInv
<1>1. ASSUME NEW c \in Chunks, Allocate(c) PROVE IInv'
  <2>1. Types'  BY <1>0, <1>1 DEF Types, Allocate
  <2>2. Phases'  BY <1>0, <1>1 DEF Phases, Allocate
  <2>3. \A d \in Chunks : state'[d] = "Quarantined" <=> state[d] = "Quarantined"
    BY <1>0, <1>1 DEF Types, Allocate
  <2>4. UNCHANGED <<cache, local, tmp, current, batches, pc>>  BY <1>1 DEF Allocate
  <2>5. OnePlace' /\ (batches = BatchesQuarantined)'  BY <1>0, <2>3, <2>4, NothingMoves
  <2> QED  BY <2>1, <2>2, <2>5 DEF IInv
<1>2. ASSUME NEW k \in Caches, TryLock(k) \/ LockRecycle(k) \/ UnlockRecycle(k) PROVE IInv'
  <2>0. \E loc \in {"idle", "extract", "recycle"} :
          /\ pc[k] \in {"tryLock", "lock", "unlock"} /\ (loc = "recycle" <=> pc[k] = "unlock")
          /\ pc' = [pc EXCEPT ![k] = loc]
    BY <1>2 DEF TryLock, LockRecycle, UnlockRecycle, Goto
  <2>1. Types'
    <3>1. UNCHANGED <<state, cache, local, tmp, current, batches, cacheMutex>>
          /\ target' \in [Caches -> {0, MinSize}]
          /\ recycleMutex' \in Caches \cup {Forker, NoOwner}
      BY <1>0, <1>2 DEF Types, TryLock, LockRecycle, UnlockRecycle
    <3>2. /\ pc' \in [Caches \cup {Forker} -> Workers \cup ForkerAt]
          /\ pc'[Forker] \in ForkerAt /\ \A j \in Caches : pc'[j] \in Workers
      BY <1>0, <2>0 DEF Types, Workers
    <3> QED  BY <1>0, <3>1, <3>2 DEF Types
  <2>2. Phases'
    <3>1. UNCHANGED <<tmp, current>>  BY <1>2 DEF TryLock, LockRecycle, UnlockRecycle
    <3> QED  BY <1>0, <2>0, <3>1 DEF Phases, Types
  <2>3. \A j \in Caches : pc'[j] = "batch" <=> pc[j] = "batch"
    BY <1>0, <2>0 DEF Types
  <2>4. UNCHANGED <<state, cache, local, tmp, current, batches>>
    BY <1>2 DEF TryLock, LockRecycle, UnlockRecycle
  <2>5. OnePlace' /\ (batches = BatchesQuarantined)'  BY <1>0, <2>3, <2>4, NothingMoves
  <2> QED  BY <2>1, <2>2, <2>5 DEF IInv
<1>3. ASSUME Disable \/ Enable \/ UNCHANGED vars PROVE IInv'
  <2>0. \A j \in Caches : pc'[j] = pc[j]
    BY <1>0, <1>3 DEF Types, Disable, Enable, Goto, vars
  <2>1. UNCHANGED <<state, cache, local, tmp, current, batches, target>>
    BY <1>3 DEF Disable, Enable, vars
  <2>2. Types'
    <3>1. /\ pc' \in [Caches \cup {Forker} -> Workers \cup ForkerAt]
          /\ pc'[Forker] \in ForkerAt /\ \A j \in Caches : pc'[j] \in Workers
      BY <1>0, <1>3 DEF Types, Disable, Enable, Goto, vars, ForkerAt
    <3>2. {cacheMutex', recycleMutex'} \subseteq Caches \cup {Forker, NoOwner}
      BY <1>0, <1>3 DEF Types, Disable, Enable, vars
    <3> QED  BY <1>0, <2>1, <3>1, <3>2 DEF Types
  <2>3. Phases'  BY <1>0, <2>0, <2>1 DEF Phases
  <2>4. OnePlace' /\ (batches = BatchesQuarantined)'  BY <1>0, <2>0, <2>1, NothingMoves
  <2> QED  BY <2>2, <2>3, <2>4 DEF IInv
<1> QED  BY <1>1, <1>2, <1>3

LEMMA PutKeeps ==
  ASSUME QuarantineAssumption, IInv, NEW k \in Caches, NEW c \in Chunks, Put(k, c)
  PROVE  IInv'
<1>0. Types /\ Phases /\ OnePlace /\ batches = BatchesQuarantined /\ Forker \notin Caches
  BY ForkerIsNoWorker DEF IInv
<1>1. PICK C \in SoundCache : C = local[k]  BY <1>0 DEF Types
<1>2. PICK D : D = enqueue(C, c)  OBVIOUS
<1>3. /\ D \in SoundCache
      /\ ChunksOf(D.list) = Append(ChunksOf(C.list), c)
      /\ Len(D.list) = Len(C.list) + (IF NeedsBatch(C) THEN 1 ELSE 0)
  BY <1>2, EnqueueSound
<1>4. /\ pc[k] = "idle" /\ state[c] = "Allocated"
      /\ state' = [state EXCEPT ![c] = "Quarantined"]
      /\ local' = [local EXCEPT ![k] = D]
      /\ batches' = batches + IF NeedsBatch(C) THEN 1 ELSE 0
      /\ UNCHANGED <<cache, tmp, current, target, cacheMutex, recycleMutex>>
  BY <1>1, <1>2 DEF Put
<1>5. \E loc \in {"drain", "idle"} : pc' = [pc EXCEPT ![k] = loc]
  BY DEF Put, Goto
<1>6. Types'
  <2>1. /\ pc' \in [Caches \cup {Forker} -> Workers \cup ForkerAt]
        /\ pc'[Forker] \in ForkerAt /\ \A j \in Caches : pc'[j] \in Workers
    BY <1>0, <1>5 DEF Types, Workers
  <2>2. local' \in [Caches -> SoundCache]  BY <1>0, <1>3, <1>4 DEF Types
  <2>3. batches' \in Int  BY <1>0, <1>4 DEF Types
  <2>4. state' \in [Chunks -> {"Available", "Allocated", "Quarantined"}]
    BY <1>0, <1>4 DEF Types
  <2> QED  BY <1>0, <1>4, <2>1, <2>2, <2>3, <2>4 DEF Types
<1>7. Phases'  BY <1>0, <1>4, <1>5 DEF Phases, Types
<1>8. /\ \A d : TimesWithWorkers(d)' = (TimesWithWorkers(d) - TimesHeld(d, k)) + TimesHeld(d, k)'
      /\ BatchesWithWorkers' = (BatchesWithWorkers - BatchesHeld(k)) + BatchesHeld(k)'
  <2>1. \A j \in Caches \ {k} : /\ local'[j] = local[j] /\ tmp'[j] = tmp[j]
                                /\ current'[j] = current[j] /\ pc'[j] = pc[j]
    BY <1>0, <1>4, <1>5 DEF Types
  <2> QED  BY <1>0, <1>6, <2>1, OneWorker
<1>9. local'[k] = D /\ tmp'[k] = tmp[k] /\ current'[k] = current[k] /\ pc[k] # "batch" /\ pc'[k] # "batch"
  BY <1>0, <1>4, <1>5 DEF Types
<1>10. PICK t : t = tmp[k]  OBVIOUS
<1>11. C \in SoundCache /\ D \in SoundCache /\ t \in SoundCache  BY <1>0, <1>3, <1>10 DEF Types
<1>12. OnePlace'
  <2> SUFFICES ASSUME NEW d \in Chunks
               PROVE  TimesQuarantined(d)' = IF state'[d] = "Quarantined" THEN 1 ELSE 0
    BY DEF OnePlace
  <2>1. PICK x \in Nat, y \in Nat, z \in Nat :
          /\ x = Times(d, ChunksOf(C.list)) /\ y = Times(d, ChunksOf(t.list))
          /\ z = Times(d, ChunksOf(cache.list))
    BY <1>0, <1>11, SoundCaches DEF Types
  <2>2. PICK i \in {0, 1} : i = IF d \in current[k] THEN 1 ELSE 0  OBVIOUS
  <2>3. PICK w \in Nat : w = TimesWithWorkers(d)  BY <1>0, WorkersTypes
  <2>4. TimesHeld(d, k) = x + y + i
    BY <1>1, <1>10, <2>1, <2>2, Zenon DEF TimesHeld
  <2>5. PICK e \in {0, 1} : e = IF c = d THEN 1 ELSE 0  OBVIOUS
  <2>6. Times(d, ChunksOf(D.list)) = x + e
    <3>1. PICK q \in Seq(Chunks) : q = ChunksOf(C.list)  BY SoundCaches
    <3>2. Times(d, Append(q, c)) = Times(d, q) + (IF c = d THEN 1 ELSE 0)  BY TimesOf
    <3> QED  BY <1>3, <2>1, <2>5, <3>1, <3>2, Zenon
  <2>7. TimesHeld(d, k)' = (x + e) + y + i
    BY <1>9, <1>10, <2>1, <2>2, <2>6, Zenon DEF TimesHeld
  <2>8. TimesWithWorkers(d)' = (w - (x + y + i)) + ((x + e) + y + i)
    BY <1>8, <2>3, <2>4, <2>7, Zenon
  <2>9. TimesWithWorkers(d)' = w + e  BY <2>8
  <2>10. TimesQuarantined(d)' = z + (w + e)
    BY <1>4, <2>1, <2>9, Zenon DEF TimesQuarantined, TimesWithWorkers
  <2>11. TimesQuarantined(d) = z + w
    BY <2>1, <2>3, Zenon DEF TimesQuarantined, TimesWithWorkers
  <2>12. z + w = IF state[d] = "Quarantined" THEN 1 ELSE 0  BY <1>0, <2>11 DEF OnePlace
  <2>13. CASE c = d
    <3>1. z + w = 0 /\ e = 1 /\ state'[d] = "Quarantined"
      BY <1>0, <1>4, <2>5, <2>12, <2>13 DEF Types
    <3> QED  BY <2>10, <3>1
  <2>14. CASE c # d
    <3>1. e = 0 /\ state'[d] = state[d]  BY <1>0, <1>4, <2>5, <2>14 DEF Types
    <3> QED  BY <2>10, <2>12, <3>1
  <2> QED  BY <2>13, <2>14
<1>13. (batches = BatchesQuarantined)'
  <2>1. PICK x \in Nat, y \in Nat, z \in Nat :
          x = Len(C.list) /\ y = Len(t.list) /\ z = Len(cache.list)
    BY <1>0, <1>11, SoundCaches DEF Types
  <2>2. PICK w \in Nat : w = BatchesWithWorkers  BY <1>0, WorkersTypes
  <2>3. PICK e \in {0, 1} : e = IF NeedsBatch(C) THEN 1 ELSE 0  OBVIOUS
  <2>4. BatchesHeld(k) = x + y + 0
    BY <1>1, <1>9, <1>10, <2>1, Zenon DEF BatchesHeld
  <2>5. BatchesHeld(k)' = (x + e) + y + 0
    BY <1>3, <1>9, <1>10, <2>1, <2>3, Zenon DEF BatchesHeld
  <2>6. BatchesWithWorkers' = (w - (x + y + 0)) + ((x + e) + y + 0)
    BY <1>8, <2>2, <2>4, <2>5, Zenon
  <2>7. batches = z + w /\ batches' = batches + e
    BY <1>0, <1>4, <2>1, <2>2, <2>3, Zenon DEF BatchesQuarantined, BatchesWithWorkers
  <2>8. BatchesQuarantined' = z + BatchesWithWorkers'
    BY <1>4, <2>1, Zenon DEF BatchesQuarantined, BatchesWithWorkers
  <2>9. z + ((w - (x + y + 0)) + ((x + e) + y + 0)) = (z + w) + e  OBVIOUS
  <2> QED  BY <2>6, <2>7, <2>8, <2>9, Zenon
<1> QED  BY <1>6, <1>7, <1>12, <1>13 DEF IInv

\* What the cache and worker k have of a chunk, and of the batches.
Near(c, k) == Times(c, ChunksOf(cache.list)) + TimesHeld(c, k)

BatchesNear(k) == Len(cache.list) + BatchesHeld(k)

LEMMA NearTypes ==
  ASSUME QuarantineAssumption
  PROVE  /\ Types => \A k \in Caches : (\A c : Near(c, k) \in Nat) /\ BatchesNear(k) \in Nat
         /\ Types' => \A k \in Caches : (\A c : Near(c, k)' \in Nat) /\ BatchesNear(k)' \in Nat
<1>1. ASSUME Types, NEW k \in Caches
      PROVE  (\A c : Near(c, k) \in Nat) /\ BatchesNear(k) \in Nat
  <2>1. cache \in SoundCache  BY <1>1 DEF Types
  <2>2. (\A c : Times(c, ChunksOf(cache.list)) \in Nat) /\ Len(cache.list) \in Nat
    BY <2>1, SoundCaches
  <2>3. (\A c : TimesHeld(c, k) \in Nat) /\ BatchesHeld(k) \in Nat  BY <1>1, HeldTypes
  <2> QED  BY <2>2, <2>3 DEF Near, BatchesNear
<1>2. ASSUME Types', NEW k \in Caches
      PROVE  (\A c : Near(c, k)' \in Nat) /\ BatchesNear(k)' \in Nat
  <2>1. cache' \in SoundCache  BY <1>2 DEF Types
  <2>2. (\A c : Times(c, ChunksOf(cache'.list)) \in Nat) /\ Len(cache'.list) \in Nat
    BY <2>1, SoundCaches
  <2>3. (\A c : TimesHeld(c, k)' \in Nat) /\ BatchesHeld(k)' \in Nat  BY <1>2, HeldTypes
  <2> QED  BY <2>2, <2>3 DEF Near, BatchesNear
<1> QED  BY <1>1, <1>2

\* A step of worker k changes the whole by what it changes near k.
LEMMA Balance ==
  ASSUME QuarantineAssumption, Types, Types', NEW k \in Caches,
         \A j \in Caches \ {k} : /\ local'[j] = local[j] /\ tmp'[j] = tmp[j]
                                 /\ current'[j] = current[j] /\ pc'[j] = pc[j]
  PROVE  /\ \A c : TimesQuarantined(c)' = TimesQuarantined(c) + (Near(c, k)' - Near(c, k))
         /\ BatchesQuarantined' = BatchesQuarantined + (BatchesNear(k)' - BatchesNear(k))
<1>0. cache \in SoundCache /\ cache' \in SoundCache  BY DEF Types
<1>1. /\ \A c : TimesWithWorkers(c)' = (TimesWithWorkers(c) - TimesHeld(c, k)) + TimesHeld(c, k)'
      /\ BatchesWithWorkers' = (BatchesWithWorkers - BatchesHeld(k)) + BatchesHeld(k)'
  BY OneWorker
<1>2. \A w, h, i, z, y \in Int : y + ((w - h) + i) = (z + w) + ((y + i) - (z + h))
  OBVIOUS
<1>3. ASSUME NEW c
      PROVE  TimesQuarantined(c)' = TimesQuarantined(c) + (Near(c, k)' - Near(c, k))
  <2>1. PICK w \in Nat : w = TimesWithWorkers(c)  BY WorkersTypes
  <2>2. PICK h \in Nat, i \in Nat : h = TimesHeld(c, k) /\ i = TimesHeld(c, k)'  BY HeldTypes
  <2>3. PICK z \in Nat, y \in Nat :
          z = Times(c, ChunksOf(cache.list)) /\ y = Times(c, ChunksOf(cache'.list))
    BY <1>0, SoundCaches
  <2>4. TimesQuarantined(c) = z + w
    BY <2>1, <2>3, Zenon DEF TimesQuarantined, TimesWithWorkers
  <2>5. TimesQuarantined(c)' = y + TimesWithWorkers(c)'
    BY <2>3, Zenon DEF TimesQuarantined, TimesWithWorkers
  <2>6. TimesWithWorkers(c)' = (w - h) + i  BY <1>1, <2>1, <2>2, Zenon
  <2>7. Near(c, k) = z + h /\ Near(c, k)' = y + i  BY <2>2, <2>3, Zenon DEF Near
  <2>8. y + ((w - h) + i) = (z + w) + ((y + i) - (z + h))  BY <1>2
  <2> QED  BY <2>4, <2>5, <2>6, <2>7, <2>8, Zenon
<1>4. BatchesQuarantined' = BatchesQuarantined + (BatchesNear(k)' - BatchesNear(k))
  <2>1. PICK w \in Nat : w = BatchesWithWorkers  BY WorkersTypes
  <2>2. PICK h \in Nat, i \in Nat : h = BatchesHeld(k) /\ i = BatchesHeld(k)'  BY HeldTypes
  <2>3. PICK z \in Nat, y \in Nat : z = Len(cache.list) /\ y = Len(cache'.list)
    BY <1>0, SoundCaches
  <2>4. BatchesQuarantined = z + w
    BY <2>1, <2>3, Zenon DEF BatchesQuarantined, BatchesWithWorkers
  <2>5. BatchesQuarantined' = y + BatchesWithWorkers'
    BY <2>3, Zenon DEF BatchesQuarantined, BatchesWithWorkers
  <2>6. BatchesWithWorkers' = (w - h) + i  BY <1>1, <2>1, <2>2, Zenon
  <2>7. BatchesNear(k) = z + h /\ BatchesNear(k)' = y + i  BY <2>2, <2>3, Zenon DEF BatchesNear
  <2>8. y + ((w - h) + i) = (z + w) + ((y + i) - (z + h))  BY <1>2
  <2> QED  BY <2>4, <2>5, <2>6, <2>7, <2>8, Zenon
<1> QED  BY <1>3, <1>4

\* ... and not at all if it only moves chunks and batches.
LEMMA OnlyMoves ==
  ASSUME QuarantineAssumption, Types, Types', NEW k \in Caches,
         \A j \in Caches \ {k} : /\ local'[j] = local[j] /\ tmp'[j] = tmp[j]
                                 /\ current'[j] = current[j] /\ pc'[j] = pc[j],
         OnePlace, batches = BatchesQuarantined,
         UNCHANGED <<state, batches>>,
         \A c \in Chunks : Near(c, k)' = Near(c, k), BatchesNear(k)' = BatchesNear(k)
  PROVE  OnePlace' /\ (batches = BatchesQuarantined)'
<1>1. /\ \A c : TimesQuarantined(c)' = TimesQuarantined(c) + (Near(c, k)' - Near(c, k))
      /\ BatchesQuarantined' = BatchesQuarantined + (BatchesNear(k)' - BatchesNear(k))
  BY Balance
<1>2. ASSUME NEW c \in Chunks PROVE TimesQuarantined(c)' = TimesQuarantined(c)
  <2>1. PICK n \in Nat : n = Near(c, k)  BY NearTypes
  <2>2. TimesQuarantined(c) \in {0, 1}  BY DEF OnePlace
  <2>3. PICK t \in {0, 1} : t = TimesQuarantined(c)  BY <2>2
  <2>4. TimesQuarantined(c)' = t + (n - n)  BY <1>1, <2>1, <2>3, Zenon
  <2>5. t + (n - n) = t  OBVIOUS
  <2> QED  BY <2>3, <2>4, <2>5, Zenon
<1>3. BatchesQuarantined' = BatchesQuarantined
  <2>1. PICK n \in Nat : n = BatchesNear(k)  BY NearTypes
  <2>2. PICK b \in Int : b = batches  BY DEF Types
  <2>3. BatchesQuarantined' = b + (n - n)  BY <1>1, <2>1, <2>2, Zenon
  <2>4. b + (n - n) = b  OBVIOUS
  <2> QED  BY <2>2, <2>3, <2>4, Zenon
<1>4. OnePlace'
  <2>1. \A c \in Chunks : TimesQuarantined(c) = IF state[c] = "Quarantined" THEN 1 ELSE 0
    BY DEF OnePlace
  <2>2. \A c \in Chunks : TimesQuarantined(c)' = IF state'[c] = "Quarantined" THEN 1 ELSE 0
    BY <1>2, <2>1, Zenon
  <2> QED  BY <2>2, Zenon DEF OnePlace
<1> QED  BY <1>3, <1>4

LEMMA DrainKeeps ==
  ASSUME QuarantineAssumption, IInv, NEW k \in Caches, Drain(k) \/ DrainAndRecycle(k)
  PROVE  /\ IInv'
         /\ Contents' = Contents \o ChunksOf(local[k].list)
         /\ Contents \in Seq(Chunks) /\ ChunksOf(local[k].list) \in Seq(Chunks)
<1>0. Types /\ Phases /\ OnePlace /\ batches = BatchesQuarantined /\ Forker \notin Caches
  BY ForkerIsNoWorker DEF IInv
<1>1. PICK C \in SoundCache, D \in SoundCache, t \in SoundCache :
        C = cache /\ D = local[k] /\ t = tmp[k]
  BY <1>0 DEF Types
<1>2. PICK n : n = transfer(C, D)  OBVIOUS
<1>3. /\ n \in SoundCache
      /\ ChunksOf(n.list) = ChunksOf(C.list) \o ChunksOf(D.list)
      /\ Len(n.list) = Len(C.list) + Len(D.list)
  BY <1>2, TransferSound
<1>4. Empty \in SoundCache /\ Empty.list = <<>> /\ ChunksOf(<<>>) = <<>> /\ Len(<<>>) = 0
      /\ \A c : Times(c, <<>>) = 0
  BY SoundTypes, TimesOf
<1>5. /\ cache' = n /\ local' = [local EXCEPT ![k] = Empty]
      /\ UNCHANGED <<state, tmp, current, batches, target, cacheMutex, recycleMutex>>
      /\ pc[k] \in {"drain", "idle"}
  BY <1>1, <1>2 DEF Drain, DrainAndRecycle
<1>6. \E loc \in {"tryLock", "idle", "lock"} : pc' = [pc EXCEPT ![k] = loc]
  BY DEF Drain, DrainAndRecycle, Goto
<1>7. Types'
  <2>1. /\ pc' \in [Caches \cup {Forker} -> Workers \cup ForkerAt]
        /\ pc'[Forker] \in ForkerAt /\ \A j \in Caches : pc'[j] \in Workers
    BY <1>0, <1>6 DEF Types, Workers
  <2>2. local' \in [Caches -> SoundCache]  BY <1>0, <1>4, <1>5 DEF Types
  <2> QED  BY <1>0, <1>3, <1>5, <2>1, <2>2 DEF Types
<1>8. Phases'  BY <1>0, <1>5, <1>6 DEF Phases, Types
<1>9. /\ \A j \in Caches \ {k} : /\ local'[j] = local[j] /\ tmp'[j] = tmp[j]
                                 /\ current'[j] = current[j] /\ pc'[j] = pc[j]
      /\ local'[k] = Empty /\ tmp'[k] = t /\ current'[k] = current[k]
      /\ pc[k] # "batch" /\ pc'[k] # "batch"
  BY <1>0, <1>1, <1>5, <1>6 DEF Types
<1>10. ASSUME NEW c \in Chunks PROVE Near(c, k)' = Near(c, k)
  <2>1. PICK z \in Nat, x \in Nat, y \in Nat :
          /\ z = Times(c, ChunksOf(C.list)) /\ x = Times(c, ChunksOf(D.list))
          /\ y = Times(c, ChunksOf(t.list))
    BY SoundCaches
  <2>2. PICK i \in Nat : i = IF c \in current[k] THEN 1 ELSE 0  OBVIOUS
  <2>3. Times(c, ChunksOf(n.list)) = z + x
    <3>1. PICK u \in Seq(Chunks), v \in Seq(Chunks) : u = ChunksOf(C.list) /\ v = ChunksOf(D.list)
      BY SoundCaches
    <3>2. Times(c, u \o v) = Times(c, u) + Times(c, v)  BY TimesOf
    <3> QED  BY <1>3, <2>1, <3>1, <3>2, Zenon
  <2>4. Near(c, k) = z + (x + y + i)
    BY <1>1, <2>1, <2>2, Zenon DEF Near, TimesHeld
  <2>5. /\ Times(c, ChunksOf(cache'.list)) = z + x /\ Times(c, ChunksOf(local'[k].list)) = 0
        /\ Times(c, ChunksOf(tmp'[k].list)) = y /\ i = IF c \in current'[k] THEN 1 ELSE 0
    <3>1. Times(c, ChunksOf(local'[k].list)) = 0  BY <1>4, <1>9, Zenon
    <3>2. Times(c, ChunksOf(cache'.list)) = z + x  BY <1>5, <2>3, Zenon
    <3>3. Times(c, ChunksOf(tmp'[k].list)) = y  BY <1>9, <2>1, Zenon
    <3>4. i = IF c \in current'[k] THEN 1 ELSE 0  BY <1>9, <2>2, Zenon
    <3> QED  BY <3>1, <3>2, <3>3, <3>4, Zenon
  <2>6. Near(c, k)' = (z + x) + (0 + y + i)
    BY <2>5, Zenon DEF Near, TimesHeld
  <2>7. (z + x) + (0 + y + i) = z + (x + y + i)  OBVIOUS
  <2> QED  BY <2>4, <2>6, <2>7, Zenon
<1>11. BatchesNear(k)' = BatchesNear(k)
  <2>1. PICK z \in Nat, x \in Nat, y \in Nat :
          z = Len(C.list) /\ x = Len(D.list) /\ y = Len(t.list)
    BY SoundCaches
  <2>2. BatchesNear(k) = z + (x + y + 0)
    BY <1>1, <1>9, <2>1, Zenon DEF BatchesNear, BatchesHeld
  <2>3. BatchesNear(k)' = (z + x) + (0 + y + 0)
    BY <1>3, <1>4, <1>5, <1>9, <2>1, Zenon DEF BatchesNear, BatchesHeld
  <2>4. (z + x) + (0 + y + 0) = z + (x + y + 0)  OBVIOUS
  <2> QED  BY <2>2, <2>3, <2>4, Zenon
<1>12. OnePlace' /\ (batches = BatchesQuarantined)'
  <2>1. UNCHANGED <<state, batches>>  BY <1>5
  <2> QED  BY <1>0, <1>7, <1>9, <1>10, <1>11, <2>1, OnlyMoves
<1>13. Contents' = Contents \o ChunksOf(local[k].list)
  BY <1>1, <1>3, <1>5, Zenon DEF Contents
<1>14. ChunksOf(C.list) \in Seq(Chunks) /\ ChunksOf(D.list) \in Seq(Chunks)  BY SoundCaches
<1> QED  BY <1>0, <1>1, <1>7, <1>8, <1>12, <1>13, <1>14, Zenon DEF IInv, Contents

LEMMA ExtractKeeps ==
  ASSUME QuarantineAssumption, IInv, NEW k \in Caches, RecycleExtract(k)
  PROVE  /\ IInv'
         /\ Contents = ChunksOf(tmp'[k].list) \o Contents'
         /\ Contents' \in Seq(Chunks) /\ ChunksOf(tmp'[k].list) \in Seq(Chunks)
<1>0. Types /\ Phases /\ OnePlace /\ batches = BatchesQuarantined /\ Forker \notin Caches
  BY ForkerIsNoWorker DEF IInv
<1>1. PICK C \in SoundCache, D \in SoundCache : C = cache /\ D = local[k]
  BY <1>0 DEF Types
<1>2. PICK e : e = Extract(C, target[k])  OBVIOUS
<1>3. /\ e.cache \in SoundCache /\ e.tmp \in SoundCache
      /\ ChunksOf(C.list) = ChunksOf(e.tmp.list) \o ChunksOf(e.cache.list)
      /\ Len(C.list) = Len(e.cache.list) + Len(e.tmp.list)
  <2>1. target[k] \in Nat  BY <1>0, ForkerIsNoWorker DEF Types
  <2> QED  BY <1>2, <2>1, ExtractSound
<1>4. PICK n \in SoundCache, t \in SoundCache : n = e.cache /\ t = e.tmp  BY <1>3
<1>5. /\ cache' = n /\ tmp' = [tmp EXCEPT ![k] = t]
      /\ UNCHANGED <<state, local, current, batches, target, cacheMutex, recycleMutex>>
      /\ pc[k] = "extract" /\ pc' = [pc EXCEPT ![k] = "unlock"]
  BY <1>1, <1>2, <1>4, Zenon DEF RecycleExtract, Goto
<1>6. tmp[k].list = <<>> /\ ChunksOf(<<>>) = <<>> /\ Len(<<>>) = 0 /\ \A c : Times(c, <<>>) = 0
  BY <1>0, <1>5, SoundTypes, TimesOf DEF Phases
<1>7. Types'
  <2>1. /\ pc' \in [Caches \cup {Forker} -> Workers \cup ForkerAt]
        /\ pc'[Forker] \in ForkerAt /\ \A j \in Caches : pc'[j] \in Workers
    BY <1>0, <1>5 DEF Types, Workers
  <2>2. tmp' \in [Caches -> SoundCache]  BY <1>0, <1>5 DEF Types
  <2> QED  BY <1>0, <1>5, <2>1, <2>2 DEF Types
<1>8. Phases'  BY <1>0, <1>5 DEF Phases, Types
<1>9. /\ \A j \in Caches \ {k} : /\ local'[j] = local[j] /\ tmp'[j] = tmp[j]
                                 /\ current'[j] = current[j] /\ pc'[j] = pc[j]
      /\ local'[k] = D /\ tmp'[k] = t /\ current'[k] = current[k]
      /\ pc[k] # "batch" /\ pc'[k] # "batch"
  BY <1>0, <1>1, <1>5 DEF Types
<1>10. ASSUME NEW c \in Chunks PROVE Near(c, k)' = Near(c, k)
  <2>1. PICK z \in Nat, x \in Nat, y \in Nat :
          /\ z = Times(c, ChunksOf(n.list)) /\ x = Times(c, ChunksOf(D.list))
          /\ y = Times(c, ChunksOf(t.list))
    BY SoundCaches
  <2>2. PICK i \in Nat : i = IF c \in current[k] THEN 1 ELSE 0  OBVIOUS
  <2>3. Times(c, ChunksOf(C.list)) = y + z
    <3>1. PICK u \in Seq(Chunks), v \in Seq(Chunks) : u = ChunksOf(t.list) /\ v = ChunksOf(n.list)
      BY SoundCaches
    <3>2. Times(c, u \o v) = Times(c, u) + Times(c, v)  BY TimesOf
    <3> QED  BY <1>3, <1>4, <2>1, <3>1, <3>2, Zenon
  <2>4. Near(c, k) = (y + z) + (x + 0 + i)
    <3>1. Times(c, ChunksOf(tmp[k].list)) = 0  BY <1>6, Zenon
    <3> QED  BY <1>1, <2>1, <2>2, <2>3, <3>1, Zenon DEF Near, TimesHeld
  <2>5. Near(c, k)' = z + (x + y + i)
    BY <1>5, <1>9, <2>1, <2>2, Zenon DEF Near, TimesHeld
  <2>6. (y + z) + (x + 0 + i) = z + (x + y + i)  OBVIOUS
  <2> QED  BY <2>4, <2>5, <2>6, Zenon
<1>11. BatchesNear(k)' = BatchesNear(k)
  <2>1. PICK z \in Nat, x \in Nat, y \in Nat :
          z = Len(n.list) /\ x = Len(D.list) /\ y = Len(t.list)
    BY SoundCaches
  <2>2. BatchesNear(k) = (z + y) + (x + 0 + 0)
    BY <1>1, <1>3, <1>4, <1>6, <1>9, <2>1, Zenon DEF BatchesNear, BatchesHeld
  <2>3. BatchesNear(k)' = z + (x + y + 0)
    BY <1>5, <1>9, <2>1, Zenon DEF BatchesNear, BatchesHeld
  <2>4. (z + y) + (x + 0 + 0) = z + (x + y + 0)  OBVIOUS
  <2> QED  BY <2>2, <2>3, <2>4, Zenon
<1>12. OnePlace' /\ (batches = BatchesQuarantined)'
  <2>1. UNCHANGED <<state, batches>>  BY <1>5
  <2> QED  BY <1>0, <1>7, <1>9, <1>10, <1>11, <2>1, OnlyMoves
<1>13. Contents = ChunksOf(tmp'[k].list) \o Contents'
  BY <1>1, <1>3, <1>4, <1>5, <1>9, Zenon DEF Contents
<1>14. ChunksOf(n.list) \in Seq(Chunks) /\ ChunksOf(t.list) \in Seq(Chunks)  BY SoundCaches
<1> QED  BY <1>0, <1>5, <1>7, <1>8, <1>9, <1>12, <1>13, <1>14, Zenon DEF IInv, Contents

LEMMA MakeCache ==
  ASSUME QuarantineAssumption, NEW T \in Seq(SoundBatch)
  PROVE  [list |-> T, size |-> Total(T)] \in SoundCache
<1>1. Total(T) \in Nat  BY SoundTypes, TotalOf
<1> QED  BY <1>1 DEF SoundCache

\* C is the cache D with the batch B before its own.
Taken(C, B, D) ==
  /\ D \in SoundCache /\ B.chunks \in Seq(Chunks)
  /\ ChunksOf(C.list) = B.chunks \o ChunksOf(D.list)
  /\ Len(C.list) = Len(D.list) + 1

\* The oldest batch of Tmp is taken off.
LEMMA TakeBatch ==
  ASSUME QuarantineAssumption, NEW C \in SoundCache, C.list # <<>>,
         NEW B, B = Head(C.list),
         NEW D, D = [list |-> Tail(C.list), size |-> C.size - B.size]
  PROVE  Taken(C, B, D)
<1>1. PICK L \in Seq(SoundBatch) : L = C.list /\ C.size = Total(L)  BY SoundCaches
<1>2. PICK T \in Seq(SoundBatch) : T = Tail(L)  BY <1>1, FirstBatch
<1>3. B \in SoundBatch /\ L = <<B>> \o T /\ Len(T) = Len(L) - 1  BY <1>1, <1>2, FirstBatch
<1>4. /\ B \in Batch /\ B.chunks \in Seq(Chunks) /\ B.size \in Nat
      /\ T \in Seq(Batch) /\ <<>> \in Seq(Batch) /\ <<B>> \in Seq(Batch)
  <2>1. B \in Batch /\ T \in Seq(Batch)  BY <1>3, SoundTypes
  <2>2. B.chunks \in Seq(Chunks) /\ B.size \in Nat  BY <2>1 DEF Batch
  <2>3. <<>> \in Seq(Batch) /\ <<B>> \in Seq(Batch)  BY <2>1
  <2> QED  BY <2>1, <2>2, <2>3
<1>5. PICK S \in Seq(Batch) : S = <<B>>  BY <1>4
<1>6. Total(S) = B.size /\ ChunksOf(S) = B.chunks
  <2>1. Append(<<>>, B) = S  BY <1>5
  <2>2. Total(Append(<<>>, B)) = Total(<<>>) + B.size /\ Total(<<>>) = 0  BY <1>4, TotalOf
  <2>3. ChunksOf(Append(<<>>, B)) = ChunksOf(<<>>) \o B.chunks /\ ChunksOf(<<>>) = <<>>
    BY <1>4, ChunksOfList
  <2>4. <<>> \o B.chunks = B.chunks  BY <1>4, ConcatEmptySeq
  <2>5. 0 + B.size = B.size  BY <1>4
  <2> QED  BY <2>1, <2>2, <2>3, <2>4, <2>5, Zenon
<1>7. Total(S \o T) = Total(S) + Total(T) /\ ChunksOf(S \o T) = ChunksOf(S) \o ChunksOf(T)
      /\ Total(T) \in Nat
  BY <1>4, TotalOf, ChunksOfList
<1>8. C.size - B.size = Total(T)
  <2>1. PICK b \in Nat, t \in Nat : b = B.size /\ t = Total(T)  BY <1>4, <1>7
  <2>2. C.size = b + t  BY <1>1, <1>3, <1>5, <1>6, <1>7, <2>1, Zenon
  <2>3. (b + t) - b = t  OBVIOUS
  <2> QED  BY <2>1, <2>2, <2>3, Zenon
<1>9. D = [list |-> T, size |-> Total(T)]  BY <1>1, <1>2, <1>8, Zenon
<1>10. D \in SoundCache /\ D.list = T
  <2>1. [list |-> T, size |-> Total(T)] \in SoundCache  BY <1>2, MakeCache
  <2>2. D.list = T  BY <1>9
  <2> QED  BY <1>9, <2>1, <2>2, Zenon
<1>11. Len(L) = Len(T) + 1
  <2>1. PICK l \in Nat, t \in Nat : l = Len(L) /\ t = Len(T)  BY LenProperties
  <2>2. t = l - 1  BY <1>3, <2>1, Zenon
  <2>3. l = t + 1  BY <2>2
  <2> QED  BY <2>1, <2>3, Zenon
<1> QED  BY <1>1, <1>3, <1>4, <1>5, <1>6, <1>7, <1>10, <1>11, Zenon DEF Taken

\* A worker holds a chunk at most once, and only if it is Quarantined.
LEMMA HeldAtMostOnce ==
  ASSUME QuarantineAssumption, Types, OnePlace, NEW k \in Caches, NEW c \in Chunks
  PROVE  TimesHeld(c, k) =< IF state[c] = "Quarantined" THEN 1 ELSE 0
<1>1. PICK h \in Nat : h = TimesHeld(c, k)  BY HeldTypes
<1>2. PICK w \in Nat : w = TimesWithWorkers(c)  BY WorkersTypes
<1>3. PICK z \in Nat : z = Times(c, ChunksOf(cache.list))  BY SoundCaches DEF Types
<1>4. h =< w  BY <1>1, <1>2, WorkersTypes
<1>5. TimesQuarantined(c) = z + w
  BY <1>2, <1>3, Zenon DEF TimesQuarantined, TimesWithWorkers
<1>6. z + w = IF state[c] = "Quarantined" THEN 1 ELSE 0  BY <1>5 DEF OnePlace
<1> QED  BY <1>1, <1>4, <1>6

LEMMA NextBatchKeeps ==
  ASSUME QuarantineAssumption, IInv, NEW k \in Caches, NextBatch(k)
  PROVE  IInv' /\ cache' = cache
<1>0. Types /\ Phases /\ OnePlace /\ batches = BatchesQuarantined /\ Forker \notin Caches
      /\ pc[k] = "recycle" /\ current[k] = {}
      /\ UNCHANGED <<state, cache, local, batches, target, cacheMutex, recycleMutex>>
  BY ForkerIsNoWorker DEF IInv, Phases, NextBatch
<1>1. CASE tmp[k].list = <<>>
  <2>1. UNCHANGED <<tmp, current>> /\ pc' = [pc EXCEPT ![k] = "idle"]
    BY <1>1 DEF NextBatch, Goto
  <2>2. Types'
    <3>1. /\ pc' \in [Caches \cup {Forker} -> Workers \cup ForkerAt]
          /\ pc'[Forker] \in ForkerAt /\ \A j \in Caches : pc'[j] \in Workers
      BY <1>0, <2>1 DEF Types, Workers
    <3> QED  BY <1>0, <2>1, <3>1 DEF Types
  <2>3. Phases'  BY <1>0, <1>1, <2>1 DEF Phases, Types
  <2>4. \A j \in Caches : pc'[j] = "batch" <=> pc[j] = "batch"  BY <1>0, <2>1 DEF Types
  <2>5. UNCHANGED <<cache, local, tmp, current, batches>> /\ state' = state  BY <1>0, <2>1
  <2>6. OnePlace' /\ (batches = BatchesQuarantined)'  BY <1>0, <2>4, <2>5, NothingMoves
  <2> QED  BY <1>0, <2>2, <2>3, <2>6 DEF IInv
<1>2. CASE tmp[k].list # <<>>
  <2>1. PICK C \in SoundCache, D \in SoundCache, t \in SoundCache :
          C = cache /\ D = local[k] /\ t = tmp[k]
    BY <1>0 DEF Types
  <2>2. PICK B : B = Head(t.list)  OBVIOUS
  <2>3. PICK u : u = [list |-> Tail(t.list), size |-> t.size - B.size]  OBVIOUS
  <2>4. /\ u \in SoundCache /\ B.chunks \in Seq(Chunks)
        /\ ChunksOf(t.list) = B.chunks \o ChunksOf(u.list)
        /\ Len(t.list) = Len(u.list) + 1
    <3>1. t.list # <<>>  BY <1>2, <2>1, Zenon
    <3>2. Taken(t, B, u)  BY <2>2, <2>3, <3>1, TakeBatch, Zenon
    <3> QED  BY <3>2 DEF Taken
  <2>5. /\ tmp' = [tmp EXCEPT ![k] = u] /\ current' = [current EXCEPT ![k] = ToSet(B.chunks)]
        /\ pc' = [pc EXCEPT ![k] = "batch"]
    BY <1>2, <2>1, <2>2, <2>3 DEF NextBatch, Goto
  <2>6. ToSet(B.chunks) \subseteq Chunks  BY <2>4 DEF ToSet
  <2>7. Types'
    <3>1. /\ pc' \in [Caches \cup {Forker} -> Workers \cup ForkerAt]
          /\ pc'[Forker] \in ForkerAt /\ \A j \in Caches : pc'[j] \in Workers
      BY <1>0, <2>5 DEF Types, Workers
    <3>2. tmp' \in [Caches -> SoundCache]  BY <1>0, <2>4, <2>5 DEF Types
    <3>3. current' \in [Caches -> SUBSET Chunks]  BY <1>0, <2>5, <2>6 DEF Types
    <3> QED  BY <1>0, <3>1, <3>2, <3>3 DEF Types
  <2>8. Phases'  BY <1>0, <2>5 DEF Phases, Types
  <2>9. /\ \A j \in Caches \ {k} : /\ local'[j] = local[j] /\ tmp'[j] = tmp[j]
                                   /\ current'[j] = current[j] /\ pc'[j] = pc[j]
        /\ local'[k] = D /\ tmp'[k] = u /\ current'[k] = ToSet(B.chunks)
        /\ pc[k] # "batch" /\ pc'[k] = "batch"
    BY <1>0, <2>1, <2>5 DEF Types
  <2>10. ASSUME NEW c \in Chunks PROVE Near(c, k)' = Near(c, k)
    <3>1. PICK z \in Nat, x \in Nat, y \in Nat :
            /\ z = Times(c, ChunksOf(C.list)) /\ x = Times(c, ChunksOf(D.list))
            /\ y = Times(c, ChunksOf(u.list))
      BY <2>4, SoundCaches
    <3>2. PICK b \in Nat : b = Times(c, B.chunks)  BY <2>4, TimesOf
    <3>3. Times(c, ChunksOf(t.list)) = b + y
      <4>1. PICK v \in Seq(Chunks), w \in Seq(Chunks) : v = B.chunks /\ w = ChunksOf(u.list)
        BY <2>4, SoundCaches
      <4>2. Times(c, v \o w) = Times(c, v) + Times(c, w)  BY TimesOf
      <4> QED  BY <2>4, <3>1, <3>2, <4>1, <4>2, Zenon
    <3>4. TimesHeld(c, k) = x + (b + y) + 0
      <4>1. (IF c \in current[k] THEN 1 ELSE 0) = 0  BY <1>0
      <4> QED  BY <2>1, <3>1, <3>3, <4>1, Zenon DEF TimesHeld
    <3>5. b \in {0, 1}
      <4>1. TimesHeld(c, k) =< IF state[c] = "Quarantined" THEN 1 ELSE 0
        BY <1>0, HeldAtMostOnce, Zenon
      <4>2. PICK h : h = TimesHeld(c, k)  OBVIOUS
      <4>3. h =< IF state[c] = "Quarantined" THEN 1 ELSE 0  BY <4>1, <4>2, Zenon
      <4>4. h = x + (b + y) + 0  BY <3>4, <4>2, Zenon
      <4> QED  BY <4>3, <4>4
    <3>6. b = IF c \in ToSet(B.chunks) THEN 1 ELSE 0
      <4>1. b = 0 <=> c \notin ToSet(B.chunks)  BY <2>4, <3>2, TimesOf
      <4> QED  BY <3>5, <4>1
    <3>7. TimesHeld(c, k)' = x + y + b
      BY <2>9, <3>1, <3>6, Zenon DEF TimesHeld
    <3>8. x + y + b = x + (b + y) + 0  OBVIOUS
    <3>9. TimesHeld(c, k)' = TimesHeld(c, k)  BY <3>4, <3>7, <3>8, Zenon
    <3> QED  BY <1>0, <3>9, Zenon DEF Near
  <2>11. BatchesNear(k)' = BatchesNear(k)
    <3>1. PICK x \in Nat, y \in Nat : x = Len(D.list) /\ y = Len(u.list)
      BY <2>4, SoundCaches
    <3>2. BatchesHeld(k) = x + (y + 1) + 0
      BY <2>1, <2>4, <2>9, <3>1, Zenon DEF BatchesHeld
    <3>3. BatchesHeld(k)' = x + y + 1
      BY <2>9, <3>1, Zenon DEF BatchesHeld
    <3>4. x + (y + 1) + 0 = x + y + 1  OBVIOUS
    <3>5. BatchesHeld(k)' = BatchesHeld(k)  BY <3>2, <3>3, <3>4, Zenon
    <3> QED  BY <1>0, <3>5, Zenon DEF BatchesNear
  <2>12. OnePlace' /\ (batches = BatchesQuarantined)'
    <3>1. UNCHANGED <<state, batches>>  BY <1>0
    <3> QED  BY <1>0, <2>7, <2>9, <2>10, <2>11, <3>1, OnlyMoves
  <2> QED  BY <1>0, <2>7, <2>8, <2>12 DEF IInv
<1> QED  BY <1>1, <1>2

LEMMA RecycleKeeps ==
  ASSUME QuarantineAssumption, IInv, NEW k \in Caches, Recycle(k)
  PROVE  IInv' /\ cache' = cache
<1>0. Types /\ Phases /\ OnePlace /\ batches = BatchesQuarantined
      /\ pc[k] = "batch"
      /\ UNCHANGED <<cache, local, tmp, batches, target, pc, cacheMutex, recycleMutex>>
  BY DEF IInv, Recycle
<1>1. PICK c \in current[k] :
        /\ state' = [state EXCEPT ![c] = IF @ = "Quarantined" THEN "Available" ELSE "Invalid"]
        /\ current' = [current EXCEPT ![k] = @ \ {c}]
  BY DEF Recycle
<1>2. c \in Chunks  BY <1>0 DEF Types
<1>3. PICK x \in Nat, y \in Nat :
        x = Times(c, ChunksOf(local[k].list)) /\ y = Times(c, ChunksOf(tmp[k].list))
  <2>1. local[k] \in SoundCache /\ tmp[k] \in SoundCache  BY <1>0 DEF Types
  <2> QED  BY <2>1, SoundCaches
<1>4. TimesHeld(c, k) = x + y + 1  BY <1>1, <1>3, Zenon DEF TimesHeld
<1>5. state[c] = "Quarantined"
  <2>1. TimesHeld(c, k) =< IF state[c] = "Quarantined" THEN 1 ELSE 0
    BY <1>0, <1>2, HeldAtMostOnce
  <2>2. PICK h : h = TimesHeld(c, k)  OBVIOUS
  <2>3. h = x + y + 1 /\ h =< IF state[c] = "Quarantined" THEN 1 ELSE 0
    BY <1>4, <2>1, <2>2, Zenon
  <2> QED  BY <2>3
<1>6. state' = [state EXCEPT ![c] = "Available"]  BY <1>1, <1>5
<1>7. Types'
  <2>1. state' \in [Chunks -> {"Available", "Allocated", "Quarantined"}]
    BY <1>0, <1>6 DEF Types
  <2>2. current' \in [Caches -> SUBSET Chunks]  BY <1>0, <1>1 DEF Types
  <2> QED  BY <1>0, <2>1, <2>2 DEF Types
<1>8. Phases'  BY <1>0, <1>1 DEF Phases, Types
<1>9. /\ \A j \in Caches \ {k} : /\ local'[j] = local[j] /\ tmp'[j] = tmp[j]
                                 /\ current'[j] = current[j] /\ pc'[j] = pc[j]
      /\ current'[k] = current[k] \ {c}
  BY <1>0, <1>1 DEF Types
<1>10. /\ \A d : TimesQuarantined(d)' = TimesQuarantined(d) + (Near(d, k)' - Near(d, k))
       /\ BatchesQuarantined' = BatchesQuarantined + (BatchesNear(k)' - BatchesNear(k))
  BY <1>0, <1>7, <1>9, Balance
<1>11. ASSUME NEW d \in Chunks
       PROVE  TimesQuarantined(d)' = IF state'[d] = "Quarantined" THEN 1 ELSE 0
  <2>0. TimesQuarantined(d) = IF state[d] = "Quarantined" THEN 1 ELSE 0  BY <1>0 DEF OnePlace
  <2>1. PICK n \in Nat : n = Near(d, k)  BY <1>0, NearTypes
  <2>2. PICK z \in Nat : z = Times(c, ChunksOf(cache.list))  BY <1>0, SoundCaches DEF Types
  <2>3. CASE d = c
    <3>1. Near(c, k) = z + (x + y + 1)  BY <1>4, <2>2, Zenon DEF Near
    <3>2. TimesHeld(c, k)' = x + y + 0
      <4>1. c \notin current'[k]  BY <1>9
      <4> QED  BY <1>0, <1>3, <4>1, Zenon DEF TimesHeld
    <3>3. Near(c, k)' = z + (x + y + 0)  BY <1>0, <2>2, <3>2, Zenon DEF Near
    <3>4. (z + (x + y + 0)) - (z + (x + y + 1)) = -1  OBVIOUS
    <3>5. TimesQuarantined(c) = 1  BY <1>5, <2>0, <2>3
    <3>6. TimesQuarantined(c)' = 1 + (-1)  BY <1>10, <3>1, <3>3, <3>4, <3>5, Zenon
    <3>7. state'[c] # "Quarantined"  BY <1>0, <1>2, <1>6 DEF Types
    <3> QED  BY <2>3, <3>6, <3>7
  <2>4. CASE d # c
    <3>1. state'[d] = state[d]  BY <1>0, <1>6, <2>4 DEF Types
    <3>2. d \in current'[k] <=> d \in current[k]  BY <1>9, <2>4
    <3>3. (IF d \in current'[k] THEN 1 ELSE 0) = (IF d \in current[k] THEN 1 ELSE 0)
      BY <3>2
    <3>4. TimesHeld(d, k)' = TimesHeld(d, k)  BY <1>0, <3>3, Zenon DEF TimesHeld
    <3>5. Near(d, k)' = Near(d, k)  BY <1>0, <3>4, Zenon DEF Near
    <3>6. PICK q \in {0, 1} : q = TimesQuarantined(d)  BY <2>0
    <3>7. TimesQuarantined(d)' = q + (n - n)  BY <1>10, <2>1, <3>5, <3>6, Zenon
    <3>8. q + (n - n) = q  OBVIOUS
    <3> QED  BY <2>0, <3>1, <3>6, <3>7, <3>8, Zenon
  <2> QED  BY <2>3, <2>4
<1>12. OnePlace'  BY <1>11, Zenon DEF OnePlace
<1>13. (batches = BatchesQuarantined)'
  <2>1. PICK n \in Nat : n = BatchesNear(k)  BY <1>0, NearTypes
  <2>2. BatchesNear(k)' = n  BY <1>0, <2>1, Zenon DEF BatchesNear, BatchesHeld
  <2>3. PICK b \in Int : b = batches  BY <1>0 DEF Types
  <2>4. BatchesQuarantined' = b + (n - n)  BY <1>0, <1>10, <2>1, <2>2, <2>3, Zenon
  <2>5. b + (n - n) = b  OBVIOUS
  <2> QED  BY <1>0, <2>3, <2>4, <2>5, Zenon
<1> QED  BY <1>0, <1>7, <1>8, <1>12, <1>13 DEF IInv

LEMMA DeallocateKeeps ==
  ASSUME QuarantineAssumption, IInv, NEW k \in Caches, DeallocateBatch(k)
  PROVE  IInv' /\ cache' = cache
<1>0. Types /\ Phases /\ OnePlace /\ batches = BatchesQuarantined /\ Forker \notin Caches
      /\ pc[k] = "batch" /\ current[k] = {}
      /\ batches' = batches - 1 /\ pc' = [pc EXCEPT ![k] = "recycle"]
      /\ UNCHANGED <<state, cache, local, tmp, current, target, cacheMutex, recycleMutex>>
  BY ForkerIsNoWorker DEF IInv, DeallocateBatch, Goto
<1>1. Types'
  <2>1. /\ pc' \in [Caches \cup {Forker} -> Workers \cup ForkerAt]
        /\ pc'[Forker] \in ForkerAt /\ \A j \in Caches : pc'[j] \in Workers
    BY <1>0 DEF Types, Workers
  <2>2. batches' \in Int  BY <1>0 DEF Types
  <2> QED  BY <1>0, <2>1, <2>2 DEF Types
<1>2. Phases'  BY <1>0 DEF Phases, Types
<1>3. /\ \A j \in Caches \ {k} : /\ local'[j] = local[j] /\ tmp'[j] = tmp[j]
                                 /\ current'[j] = current[j] /\ pc'[j] = pc[j]
      /\ pc'[k] # "batch"
  BY <1>0 DEF Types
<1>4. /\ \A d : TimesQuarantined(d)' = TimesQuarantined(d) + (Near(d, k)' - Near(d, k))
      /\ BatchesQuarantined' = BatchesQuarantined + (BatchesNear(k)' - BatchesNear(k))
  BY <1>0, <1>1, <1>3, Balance
<1>5. ASSUME NEW d \in Chunks
      PROVE  TimesQuarantined(d)' = IF state'[d] = "Quarantined" THEN 1 ELSE 0
  <2>0. TimesQuarantined(d) = IF state[d] = "Quarantined" THEN 1 ELSE 0  BY <1>0 DEF OnePlace
  <2>1. PICK n \in Nat : n = Near(d, k)  BY <1>0, NearTypes
  <2>2. Near(d, k)' = n  BY <1>0, <2>1, Zenon DEF Near, TimesHeld
  <2>3. PICK q \in {0, 1} : q = TimesQuarantined(d)  BY <2>0
  <2>4. TimesQuarantined(d)' = q + (n - n)  BY <1>4, <2>1, <2>2, <2>3, Zenon
  <2>5. q + (n - n) = q  OBVIOUS
  <2> QED  BY <1>0, <2>0, <2>3, <2>4, <2>5, Zenon
<1>6. OnePlace'  BY <1>5, Zenon DEF OnePlace
<1>7. (batches = BatchesQuarantined)'
  <2>1. PICK x \in Nat, y \in Nat, z \in Nat :
          x = Len(local[k].list) /\ y = Len(tmp[k].list) /\ z = Len(cache.list)
    <3>1. local[k] \in SoundCache /\ tmp[k] \in SoundCache /\ cache \in SoundCache
      BY <1>0 DEF Types
    <3> QED  BY <3>1, SoundCaches
  <2>2. BatchesNear(k) = z + (x + y + 1)  BY <1>0, <2>1, Zenon DEF BatchesNear, BatchesHeld
  <2>3. BatchesNear(k)' = z + (x + y + 0)
    BY <1>0, <1>3, <2>1, Zenon DEF BatchesNear, BatchesHeld
  <2>4. PICK b \in Int : b = batches  BY <1>0 DEF Types
  <2>5. BatchesQuarantined' = b + ((z + (x + y + 0)) - (z + (x + y + 1)))
    BY <1>0, <1>4, <2>2, <2>3, <2>4, Zenon
  <2>6. b + ((z + (x + y + 0)) - (z + (x + y + 1))) = b - 1  OBVIOUS
  <2> QED  BY <1>0, <2>4, <2>5, <2>6, Zenon
<1> QED  BY <1>0, <1>1, <1>2, <1>6, <1>7 DEF IInv
-----------------------------------------------------------------------------
\* What Fifo says, and the theorems.

LEMMA PrefixOf ==
  ASSUME NEW S, NEW s \in Seq(S), NEW t \in Seq(S)
  PROVE  IsPrefix(s, s \o t)
<1>1. PICK u : u = s \o t  OBVIOUS
<1>2. PICK l \in Nat, m \in Nat : l = Len(s) /\ m = Len(t)  BY LenProperties
<1>3. /\ u \in Seq(S) /\ Len(u) = l + m
      /\ \A i \in 1 .. l : u[i] = s[i] /\ u[i] \in S
  BY <1>1, <1>2, ConcatProperties
<1>4. PICK v : v = SubSeq(u, 1, l)  OBVIOUS
<1>5. v \in Seq(S) /\ Len(v) = l /\ \A i \in 1 .. l : v[i] = u[i]
  BY <1>3, <1>4, SubSeqProperties
<1>6. v = s  BY <1>2, <1>3, <1>5, SeqEqual
<1>7. SubSeq(s, 1, Len(s)) = s  BY SubSeqFull
<1>8. l =< l + m  OBVIOUS
<1> QED  BY <1>1, <1>2, <1>3, <1>4, <1>6, <1>7, <1>8, Zenon DEF IsPrefix

LEMMA ReverseType ==
  ASSUME NEW S, NEW s \in Seq(S)
  PROVE  /\ Reverse(s) \in Seq(S) /\ Len(Reverse(s)) = Len(s)
         /\ \A i \in 1 .. Len(s) : Reverse(s)[i] = s[(Len(s) - i) + 1]
<1>1. PICK l \in Nat : l = Len(s)  BY LenProperties
<1>2. \A i \in 1 .. l : (l - i) + 1 \in 1 .. l  OBVIOUS
<1>3. \A i \in 1 .. l : s[(l - i) + 1] \in S  BY <1>1, <1>2, ElementOfSeq
<1>4. PICK r : r = [i \in 1 .. l |-> s[(l - i) + 1]]  OBVIOUS
<1>5. r \in Seq(S) /\ Len(r) = l  BY <1>3, <1>4
<1>6. Reverse(s) = r  BY <1>1, <1>4, Zenon DEF Reverse
<1> QED  BY <1>1, <1>4, <1>5, <1>6

LEMMA SuffixOf ==
  ASSUME NEW S, NEW s \in Seq(S), NEW t \in Seq(S)
  PROVE  IsSuffix(t, s \o t)
<1>1. PICK u : u = s \o t  OBVIOUS
<1>2. PICK l \in Nat, m \in Nat : l = Len(s) /\ m = Len(t)  BY LenProperties
<1>3. /\ u \in Seq(S) /\ Len(u) = l + m
      /\ \A i \in 1 .. l : u[i] = s[i]
      /\ \A i \in 1 .. m : u[l + i] = t[i]
  BY <1>1, <1>2, ConcatProperties
<1>4. PICK x, y, z : x = Reverse(s) /\ y = Reverse(t) /\ z = Reverse(u)  OBVIOUS
<1>5. x \in Seq(S) /\ Len(x) = l /\ \A i \in 1 .. l : x[i] = s[(l - i) + 1]
  BY <1>2, <1>4, ReverseType
<1>6. y \in Seq(S) /\ Len(y) = m /\ \A i \in 1 .. m : y[i] = t[(m - i) + 1]
  BY <1>2, <1>4, ReverseType
<1>7. /\ z \in Seq(S) /\ Len(z) = l + m
      /\ \A i \in 1 .. l + m : z[i] = u[((l + m) - i) + 1]
  <2>1. /\ Reverse(u) \in Seq(S) /\ Len(Reverse(u)) = Len(u)
        /\ \A i \in 1 .. Len(u) : Reverse(u)[i] = u[(Len(u) - i) + 1]
    BY <1>3, ReverseType
  <2> QED  BY <1>3, <1>4, <2>1, Zenon
<1>8. PICK w : w = y \o x  OBVIOUS
<1>9. /\ w \in Seq(S) /\ Len(w) = m + l
      /\ \A i \in 1 .. m : w[i] = y[i]
      /\ \A i \in 1 .. l : w[m + i] = x[i]
  <2>1. x \in Seq(S) /\ y \in Seq(S) /\ Len(x) = l /\ Len(y) = m  BY <1>5, <1>6
  <2>2. /\ w \in Seq(S) /\ Len(w) = Len(y) + Len(x)
        /\ \A i \in 1 .. Len(y) + Len(x) : w[i] = IF i =< Len(y) THEN y[i] ELSE x[i - Len(y)]
    BY <1>8, <2>1, ConcatProperties
  <2>3. Len(w) = m + l /\ \A i \in 1 .. m + l : w[i] = IF i =< m THEN y[i] ELSE x[i - m]
    BY <2>1, <2>2, Zenon
  <2>4. \A i \in 1 .. m : w[i] = y[i]  BY <2>3
  <2>5. ASSUME NEW i \in 1 .. l PROVE w[m + i] = x[i]
    <3>1. m + i \in 1 .. m + l /\ ~(m + i =< m) /\ (m + i) - m = i  OBVIOUS
    <3> QED  BY <2>3, <3>1, Zenon
  <2> QED  BY <2>2, <2>3, <2>4, <2>5
<1>10. ASSUME NEW i \in 1 .. l + m PROVE z[i] = w[i]
  <2>1. CASE i =< m
    <3>1. i \in 1 .. m /\ (m - i) + 1 \in 1 .. m /\ ((l + m) - i) + 1 = l + ((m - i) + 1)
      BY <2>1
    <3>2. z[i] = u[l + ((m - i) + 1)]  BY <1>7, <3>1
    <3>3. z[i] = t[(m - i) + 1]  BY <1>3, <3>1, <3>2, Zenon
    <3>4. w[i] = t[(m - i) + 1]  BY <1>6, <1>9, <3>1, Zenon
    <3> QED  BY <3>3, <3>4, Zenon
  <2>2. CASE i > m
    <3>1. PICK j \in 1 .. l : i = m + j  BY <2>2
    <3>2. (l - j) + 1 \in 1 .. l /\ ((l + m) - i) + 1 = (l - j) + 1  BY <3>1
    <3>3. z[i] = s[(l - j) + 1]  BY <1>3, <1>7, <3>2, Zenon
    <3>4. w[i] = s[(l - j) + 1]  BY <1>5, <1>9, <3>1, Zenon
    <3> QED  BY <3>3, <3>4, Zenon
  <2> QED  BY <2>1, <2>2
<1>11. z = w
  <2>1. Len(z) = Len(w)  BY <1>7, <1>9
  <2> QED  BY <1>7, <1>9, <1>10, <2>1, SeqEqual
<1>12. IsPrefix(y, y \o x)  BY <1>5, <1>6, PrefixOf
<1> QED  BY <1>1, <1>4, <1>8, <1>11, <1>12, Zenon DEF IsSuffix
LEMMA InitIInv ==
  ASSUME QuarantineAssumption, Init
  PROVE  IInv
<1>1. Empty \in SoundCache /\ Empty.list = <<>> /\ ChunksOf(<<>>) = <<>> /\ Len(<<>>) = 0
      /\ \A c : Times(c, <<>>) = 0
  BY SoundTypes, TimesOf
<1>2. Types
  BY <1>1, ForkerIsNoWorker DEF Init, Types, Workers, ForkerAt
<1>3. Phases  BY <1>1 DEF Init, Phases
<1>4. IsFiniteSet(Caches)  BY DEF QuarantineAssumption
<1>5. PICK zero : zero = [k \in Caches |-> 0]  OBVIOUS
<1>6. SumFunction(zero) = 0
  <2> DEFINE P == {n \in Nat : \A s \in SUBSET Caches : Cardinality(s) =< n => SumFunctionOnSet(zero, s) = 0}
  <2>0. \A s \in SUBSET Caches : IsFiniteSet(s)  BY <1>4, FS_Subset
  <2>1. 0 \in P
    <3> SUFFICES ASSUME NEW s \in SUBSET Caches, Cardinality(s) =< 0
                 PROVE  SumFunctionOnSet(zero, s) = 0
      OBVIOUS
    <3>1. s = {}  BY <2>0, PickOne
    <3> QED  BY <3>1, SumOfNothing
  <2>2. ASSUME NEW n \in Nat, n \in P PROVE n + 1 \in P
    <3> SUFFICES ASSUME NEW s \in SUBSET Caches, Cardinality(s) =< n + 1
                 PROVE  SumFunctionOnSet(zero, s) = 0
      OBVIOUS
    <3>1. CASE s = {}  BY <3>1, SumOfNothing
    <3>2. CASE s # {}
      <4>1. Pick(s) \in s /\ Cardinality(s \ {Pick(s)}) =< n  BY <2>0, <3>2, PickOne
      <4>2. SumFunctionOnSet(zero, s \ {Pick(s)}) = 0  BY <2>2, <4>1
      <4>3. SumFunctionOnSet(zero, s) = zero[Pick(s)] + SumFunctionOnSet(zero, s \ {Pick(s)})
        BY <2>0, <3>2, SumFirst
      <4>4. zero[Pick(s)] = 0  BY <1>5, <4>1
      <4> QED  BY <4>2, <4>3, <4>4
    <3> QED  BY <3>1, <3>2
  <2>3. Nat \subseteq P
    <3> HIDE DEF P
    <3> QED  BY <2>1, <2>2, Induction
  <2>4. Cardinality(Caches) \in P  BY <1>4, <2>3, PickOne
  <2>5. SumFunctionOnSet(zero, Caches) = 0  BY <1>4, <2>4, PickOne
  <2>6. DOMAIN zero = Caches  BY <1>5
  <2> QED  BY <2>5, <2>6, Zenon DEF SumFunction
<1>7. OnePlace
  <2> SUFFICES ASSUME NEW c \in Chunks
               PROVE  TimesQuarantined(c) = IF state[c] = "Quarantined" THEN 1 ELSE 0
    BY DEF OnePlace
  <2>1. ASSUME NEW k \in Caches PROVE TimesHeld(c, k) = 0
    <3>1. local[k].list = <<>> /\ tmp[k].list = <<>> /\ c \notin current[k]
      BY <1>1 DEF Init
    <3>2. Times(c, ChunksOf(local[k].list)) = 0 /\ Times(c, ChunksOf(tmp[k].list)) = 0
      BY <1>1, <3>1, Zenon
    <3>3. TimesHeld(c, k) = 0 + 0 + 0  BY <3>1, <3>2, Zenon DEF TimesHeld
    <3> QED  BY <3>3
  <2>2. [k \in Caches |-> TimesHeld(c, k)] = zero  BY <1>5, <2>1
  <2>3. Times(c, ChunksOf(cache.list)) = 0
    <3>1. cache.list = <<>>  BY <1>1 DEF Init
    <3> QED  BY <1>1, <3>1, Zenon
  <2>4. TimesQuarantined(c) = 0 + 0  BY <1>6, <2>2, <2>3, Zenon DEF TimesQuarantined
  <2>5. state[c] # "Quarantined"  BY DEF Init
  <2> QED  BY <2>4, <2>5
<1>8. batches = BatchesQuarantined
  <2>1. ASSUME NEW k \in Caches PROVE BatchesHeld(k) = 0
    <3>1. local[k].list = <<>> /\ tmp[k].list = <<>> /\ pc[k] # "batch"
      BY <1>1 DEF Init
    <3>2. BatchesHeld(k) = 0 + 0 + 0  BY <1>1, <3>1, Zenon DEF BatchesHeld
    <3> QED  BY <3>2
  <2>2. [k \in Caches |-> BatchesHeld(k)] = zero  BY <1>5, <2>1
  <2>3. Len(cache.list) = 0  BY <1>1 DEF Init
  <2>4. BatchesQuarantined = 0 + 0  BY <1>6, <2>2, <2>3, Zenon DEF BatchesQuarantined
  <2> QED  BY <2>4 DEF Init
<1> QED  BY <1>2, <1>3, <1>7, <1>8 DEF IInv

LEMMA NextIInv ==
  ASSUME QuarantineAssumption, IInv, [Next]_vars
  PROVE  IInv'
<1>1. CASE \/ \E c \in Chunks : Allocate(c)
           \/ \E k \in Caches : TryLock(k) \/ LockRecycle(k) \/ UnlockRecycle(k)
           \/ Disable
           \/ Enable
           \/ UNCHANGED vars
  BY <1>1, ControlSteps
<1>2. ASSUME NEW k \in Caches, NEW c \in Chunks, Put(k, c) PROVE IInv'
  BY <1>2, PutKeeps
<1>3. ASSUME NEW k \in Caches, Drain(k) \/ DrainAndRecycle(k) PROVE IInv'
  BY <1>3, DrainKeeps
<1>4. ASSUME NEW k \in Caches, RecycleExtract(k) PROVE IInv'  BY <1>4, ExtractKeeps
<1>5. ASSUME NEW k \in Caches, NextBatch(k) PROVE IInv'  BY <1>5, NextBatchKeeps
<1>6. ASSUME NEW k \in Caches, Recycle(k) PROVE IInv'  BY <1>6, RecycleKeeps
<1>7. ASSUME NEW k \in Caches, DeallocateBatch(k) PROVE IInv'  BY <1>7, DeallocateKeeps
<1> QED  BY <1>1, <1>2, <1>3, <1>4, <1>5, <1>6, <1>7, Zenon DEF Next, Work

\* What IInv says of the caches.
LEMMA CachesAreSound ==
  ASSUME QuarantineAssumption, IInv
  PROVE  TypeOK /\ SizesAddUp
<1>1. Types  BY DEF IInv
<1>2. \A C \in {cache} \cup Range(local) \cup Range(tmp) : C \in SoundCache
  BY <1>1 DEF Types, Range
<1>3. ASSUME NEW C \in SoundCache
      PROVE  /\ C.size \in Nat /\ C.size = SumFunction(BatchSizes(C.list))
             /\ \A i \in DOMAIN C.list :
                  /\ Len(C.list[i].chunks) \in 0 .. MaxCount
                  /\ C.list[i].size = BatchSize + Bytes(C.list[i].chunks)
  <2>1. PICK L \in Seq(SoundBatch) : L = C.list  BY SoundCaches
  <2>2. C.size \in Nat /\ C.size = SumFunction(BatchSizes(C.list))
    BY SoundCaches DEF Total
  <2>3. ASSUME NEW i \in DOMAIN L
        PROVE  /\ Len(L[i].chunks) \in 0 .. MaxCount
               /\ L[i].size = BatchSize + Bytes(L[i].chunks)
    <3>1. PICK B \in SoundBatch : B = L[i]  OBVIOUS
    <3>2. B \in Batch /\ Len(B.chunks) =< MaxCount /\ B.size = BatchSize + Bytes(B.chunks)
      BY DEF SoundBatch
    <3>3. B.chunks \in Seq(Chunks)  BY <3>2 DEF Batch
    <3>4. Len(B.chunks) \in Nat  BY <3>3, LenProperties
    <3>5. Len(B.chunks) \in 0 .. MaxCount  BY <3>2, <3>4, SoundTypes
    <3> QED  BY <3>1, <3>2, <3>5, Zenon
  <2> QED  BY <2>1, <2>2, <2>3, Zenon
<1>4. TypeOK
  <2>1. \A C \in {cache} \cup Range(local) \cup Range(tmp) :
          C.size \in Nat /\ \A i \in DOMAIN C.list : Len(C.list[i].chunks) \in 0 .. MaxCount
    BY <1>2, <1>3, Zenon
  <2>2. pc[Forker] \in {"idle", "disabling", "disabled", "enabling"}  BY <1>1 DEF Types, ForkerAt
  <2> QED  BY <1>1, <2>1, <2>2, Zenon DEF TypeOK, Types
<1>5. SizesAddUp  BY <1>2, <1>3, Zenon DEF SizesAddUp, Bytes
<1> QED  BY <1>4, <1>5

\* The inductive invariant: sound caches, Tmp filled only between extraction and
\* the end of doRecycle(), and the two counts.
THEOREM InductiveInvariant == Spec => []IInv
<1>1. Init => IInv  BY QuarantineAssumption, InitIInv
<1>2. IInv /\ [Next]_vars => IInv'  BY QuarantineAssumption, NextIInv
<1> QED  BY <1>1, <1>2, PTL DEF Spec

\* A chunk freed once is in one place of the quarantine until it is recycled,
\* and no batch is lost: put(), drain(), the merging and extraction of recycle()
\* and doRecycle() lose and duplicate nothing.
THEOREM OnceInQuarantine == Spec => []QuarantinedOnce
<1>1. IInv => QuarantinedOnce
  <2>1. IInv => TypeOK  BY QuarantineAssumption, CachesAreSound
  <2> QED  BY <2>1 DEF IInv, OnePlace, QuarantinedOnce
<1> QED  BY <1>1, InductiveInvariant, PTL

\* The size of every cache and batch is the size of what is in it, merging and
\* extraction included.
THEOREM SizesAreRight == Spec => []SizesAddUp
<1>1. IInv => SizesAddUp  BY QuarantineAssumption, CachesAreSound
<1> QED  BY <1>1, InductiveInvariant, PTL

\* The global cache is first in, first out: drain() appends, recycle() takes
\* from the front, and mergeBatches() keeps the order.
THEOREM FirstInFirstOut == Spec => Fifo
<1> DEFINE Moved == IsPrefix(Contents, Contents') \/ IsSuffix(Contents', Contents)
<1>1. ASSUME QuarantineAssumption, IInv, [Next]_vars PROVE [Moved]_cache
  <2>1. CASE cache' = cache  BY <2>1
  <2>2. ASSUME NEW k \in Caches, Drain(k) \/ DrainAndRecycle(k) PROVE Moved
    <3>1. PICK x \in Seq(Chunks), y \in Seq(Chunks) : x = Contents /\ Contents' = x \o y
      BY <1>1, <2>2, DrainKeeps
    <3>2. IsPrefix(x, x \o y)  BY PrefixOf
    <3> QED  BY <3>1, <3>2, Zenon
  <2>3. ASSUME NEW k \in Caches, RecycleExtract(k) PROVE Moved
    <3>1. PICK x \in Seq(Chunks), y \in Seq(Chunks) : y = Contents' /\ Contents = x \o y
      BY <1>1, <2>3, ExtractKeeps
    <3>2. IsSuffix(y, x \o y)  BY SuffixOf
    <3> QED  BY <3>1, <3>2, Zenon
  <2>4. \/ cache' = cache
        \/ \E k \in Caches : Drain(k) \/ DrainAndRecycle(k)
        \/ \E k \in Caches : RecycleExtract(k)
    <3>1. \A k \in Caches : TryLock(k) \/ LockRecycle(k) \/ UnlockRecycle(k) \/ NextBatch(k)
                              \/ Recycle(k) \/ DeallocateBatch(k) => cache' = cache
      BY DEF TryLock, LockRecycle, UnlockRecycle, NextBatch, Recycle, DeallocateBatch
    <3>2. \A c \in Chunks : Allocate(c) => cache' = cache  BY DEF Allocate
    <3>3. \A k \in Caches, c \in Chunks : Put(k, c) => cache' = cache  BY DEF Put
    <3>4. Disable \/ Enable \/ UNCHANGED vars => cache' = cache  BY DEF Disable, Enable, vars
    <3> QED  BY <1>1, <3>1, <3>2, <3>3, <3>4, Zenon DEF Next, Work
  <2> QED  BY <2>1, <2>2, <2>3, <2>4, Zenon
<1>2. IInv /\ [Next]_vars => [Moved]_cache  BY <1>1, QuarantineAssumption
<1> QED  BY <1>2, InductiveInvariant, PTL DEF Spec, Fifo
=============================================================================
