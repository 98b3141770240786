----------------------------- MODULE ThreadsProofs -----------------------------
(***************************************************************************)
(* The two registries of TSDs, for every set of threads.  A shared one of  *)
(* any size: whatever threads walk, start and change the number of TSDs at *)
(* once, a walk tries a new TSD every time and no thread uses a TSD that   *)
(* drainCaches() and getStats() do not reach.  An exclusive one with any   *)
(* PTHREAD_DESTRUCTOR_ITERATIONS: a thread with a TSD of its own leaves    *)
(* nothing behind in it.  The stack traces, from the theorems about their  *)
(* own module, and the locks of the whole allocator.                       *)
(***************************************************************************)
EXTENDS MCThreads, SequenceTheorems, TLAPS

\* TSDsArraySize and DefaultTSDCount of a configuration.
RegistryAssumption == TSDsArraySize \in Nat \ {0} /\ DefaultTSDCount \in Nat \ {0} /\ MaxTime \in Nat

SharedPlaces == {"idle", "init", "assign", "wait", "using", "slow", "walk", "drain", "disable"}

Walks ==
  [N : Nat, Inc : Nat, Index : Nat, tried : Seq(Nat), candidate : 0 .. TSDsArraySize, lowest : Nat]

SharedTypeOK ==
  /\ Precedence \in [S!Indices -> Nat]
  /\ NumberOfTSDs \in 0 .. TSDsArraySize
  /\ CoPrimes \subseteq Nat
  /\ CurrentIndex \in Nat
  /\ CurrentTSD \in [Threads -> 0 .. TSDsArraySize]
  /\ pc \in [Threads -> SharedPlaces]
  /\ walk \in [Threads -> Walks]

\* A thread past initOnceMaybe() finds a number of TSDs.
InitializedFirst == \A t \in Threads : pc[t] = "assign" => NumberOfTSDs > 0

\* A walk stays below the number that it began with, which has only grown since.
WalkWithin ==
  \A t \in Threads : LET w == walk[t] IN
    /\ pc[t] = "walk" => w.Index < w.N /\ w.N <= NumberOfTSDs
    /\ w.candidate # S!NoTSD => w.candidate < NumberOfTSDs

CoPrimesKnown == CoPrimes = S!CoPrimesOf(NumberOfTSDs)

\* From each TSD that a walk tried it went on by its step, up to where it is.
Chained(w) ==
  \A k \in 1 .. Len(w.tried) :
    /\ w.tried[k] < w.N
    /\ (w.tried[k] + w.Inc) % w.N = IF k = Len(w.tried) THEN w.Index ELSE w.tried[k + 1]

\* The step of a walk is one of the co-primes of the number that it began with,
\* whatever they are now.
WalkSteps ==
  \A t \in Threads : LET w == walk[t] IN
    pc[t] = "walk" => w.Inc \in S!CoPrimesOf(w.N) /\ Len(w.tried) <= S!MaxTries(w) /\ Chained(w)

\* The inductive invariant of a shared registry.
SharedIInv ==
  /\ SharedTypeOK /\ InitializedFirst /\ WalkWithin /\ S!DrainReachesAll
  /\ CoPrimesKnown /\ WalkSteps
-----------------------------------------------------------------------------
\* A remainder is smaller than its divisor.
LEMMA Remainder == ASSUME NEW i \in Nat, NEW n \in Nat \ {0} PROVE i % n \in 0 .. n - 1
  BY Z3

LEMMA SharedInit == ASSUME RegistryAssumption, S!Init PROVE SharedIInv
<1>1. CoPrimesKnown
  <2>1. S!CoPrimesOf(0) = {}
    BY DEF S!CoPrimesOf
  <2>2. QED
    BY <2>1 DEF S!Init, CoPrimesKnown
<1>2. SharedTypeOK /\ InitializedFirst /\ WalkWithin /\ S!DrainReachesAll
  BY DEF RegistryAssumption, S!Init, SharedTypeOK, InitializedFirst, WalkWithin, S!DrainReachesAll,
         SharedPlaces, S!Indices, S!NoTSD, S!NoWalk, Walks
<1>3. WalkSteps
  BY DEF S!Init, WalkSteps
<1>4. QED
  BY <1>1, <1>2, <1>3 DEF SharedIInv

\* Multiples leave no remainder.
LEMMA Multiples == \A m \in Nat \ {0} : m % m = 0 /\ (2 * m) % m = 0 /\ (3 * m) % m = 0
  BY Z3

LEMMA StepLength == ASSUME NEW n \in Nat, NEW d \in S!CoPrimesOf(n) PROVE d \in Nat /\ d > 0 /\ d <= n
<1>1. d \in 1 .. n
  BY Zenon DEF S!CoPrimesOf
<1>2. QED
  BY <1>1

\* One step within n places.
LEMMA StepAround ==
  \A n, x, d \in Nat : x < n /\ d > 0 /\ d <= n => (x + d) % n = IF x + d < n THEN x + d ELSE x + d - n
  BY Z3

\* A step that has no divisor with n in common comes to a new place for as long as
\* no more than four, or n, were visited.
LEMMA StepsDiffer ==
  ASSUME NEW n \in Nat, NEW d \in S!CoPrimesOf(n), n > 1, NEW x \in 0 .. n - 1, NEW y \in 0 .. n - 1,
         NEW z \in 0 .. n - 1, y = (x + d) % n, z = (y + d) % n
  PROVE  /\ y # x
         /\ n > 2 => z # x
         /\ n > 3 => (z + d) % n # x
<1>1. d \in Nat /\ d > 0 /\ d <= n /\ \A m \in 2 .. n : d % m # 0 \/ n % m # 0
  <2>1. d \in 1 .. n /\ \A m \in 2 .. n : d % m # 0 \/ n % m # 0
    BY Zenon DEF S!CoPrimesOf
  <2>2. d \in Nat /\ d > 0 /\ d <= n
    BY StepLength
  <2>3. QED
    BY <2>1, <2>2
<1>2. /\ y = IF x + d < n THEN x + d ELSE x + d - n
      /\ z = IF y + d < n THEN y + d ELSE y + d - n
      /\ (z + d) % n = IF z + d < n THEN z + d ELSE z + d - n
  <2>1. x \in Nat /\ x < n /\ y \in Nat /\ y < n /\ z \in Nat /\ z < n
    OBVIOUS
  <2>2. QED
    BY <1>1, <2>1, StepAround, Zenon
<1>3. d # n
  <2>1. n % n = 0
    BY <1>1, Multiples
  <2>2. QED
    BY <1>1, <2>1
<1>4. n > 2 => n # 2 * d
  <2>1. d % d = 0 /\ (2 * d) % d = 0
    BY <1>1, Multiples
  <2>2. QED
    BY <1>1, <2>1
<1>5. n > 3 => n # 3 * d
  <2>1. d % d = 0 /\ (3 * d) % d = 0
    BY <1>1, Multiples
  <2>2. QED
    BY <1>1, <2>1
<1>6. n > 3 => 2 * n # 3 * d
  <2>1. SUFFICES ASSUME n > 3, 2 * n = 3 * d PROVE FALSE
    OBVIOUS
  <2>2. PICK m \in Nat : n = 3 * m /\ d = 2 * m
    <3>1. d - (n - d) \in Nat /\ n - d \in Nat
      BY <1>1, <2>1
    <3>2. n = 3 * (n - d) /\ d = 2 * (n - d)
      BY <1>1, <2>1
    <3>3. QED
      BY <3>1, <3>2
  <2>3. m \in 2 .. n /\ m > 0
    BY <2>1, <2>2
  <2>4. (3 * m) % m = 0 /\ (2 * m) % m = 0
    BY <2>3, Multiples
  <2>5. QED
    BY <1>1, <2>2, <2>3, <2>4
<1>7. QED
  BY <1>1, <1>2, <1>3, <1>4, <1>5, <1>6

\* A walk that goes on comes to a TSD that it did not try.
LEMMA WalkGoesOn ==
  ASSUME NEW w \in Walks, w.Index < w.N, w.Inc \in S!CoPrimesOf(w.N), Chained(w),
         Len(w.tried) <= S!MaxTries(w), ~S!WalkEnds(w), NEW k \in DOMAIN w.tried
  PROVE  w.tried[k] # w.Index
<1> DEFINE n == w.N
           d == w.Inc
           s == w.tried
<1>1. n \in Nat /\ w.Index \in 0 .. n - 1 /\ s \in Seq(Nat) /\ d \in S!CoPrimesOf(n)
  BY DEF Walks
<1>2. n > 1 /\ Len(s) < n /\ Len(s) < 4 /\ Len(s) \in Nat /\ k \in 1 .. Len(s)
  BY <1>1, SMTT(30), ZenonT(20) DEF S!MaxTries, S!WalkEnds
<1>3. \A j \in 1 .. Len(s) : s[j] \in 0 .. n - 1 /\ (s[j] + d) % n = IF j = Len(s) THEN w.Index ELSE s[j + 1]
  <2>1. \A j \in 1 .. Len(s) : s[j] < n /\ (s[j] + d) % n = IF j = Len(s) THEN w.Index ELSE s[j + 1]
    BY Zenon DEF Chained
  <2> HIDE DEF n, d, s
  <2>2. \A j \in 1 .. Len(s) : s[j] \in Nat
    BY <1>1
  <2>3. \A j \in 1 .. Len(s) : s[j] \in 0 .. n - 1
    <3>1. TAKE j \in 1 .. Len(s)
    <3>2. s[j] \in Nat /\ s[j] < n
      BY <2>1, <2>2, Zenon
    <3>3. QED
      BY <1>1, <3>2
  <2>4. QED
    BY <2>1, <2>3, Zenon
<1> HIDE DEF n, d, s
<1>4. CASE k = Len(s)
  <2>1. s[k] \in 0 .. n - 1 /\ (s[k] + d) % n = w.Index
    BY <1>2, <1>3, <1>4
  <2>2. PICK z \in 0 .. n - 1 : z = (w.Index + d) % n
    <3>1. d \in Nat
      BY <1>1, StepLength
    <3>2. w.Index + d \in Nat /\ n \in Nat \ {0}
      BY <1>1, <1>2, <3>1
    <3>3. QED
      BY <3>2, Remainder
  <2>3. QED
    BY <1>1, <1>2, <2>1, <2>2, StepsDiffer, Zenon DEF s
<1>5. CASE k = Len(s) - 1
  <2>1. /\ k + 1 = Len(s) /\ k + 1 \in 1 .. Len(s) /\ k # Len(s) /\ n > 2
    BY <1>1, <1>2, <1>5
  <2>2. /\ s[k] \in 0 .. n - 1 /\ s[k + 1] \in 0 .. n - 1
        /\ s[k + 1] = (s[k] + d) % n /\ w.Index = (s[k + 1] + d) % n
    BY <1>2, <1>3, <2>1, Zenon
  <2>3. QED
    BY <1>1, <1>2, <2>1, <2>2, StepsDiffer, Zenon DEF s
<1>6. CASE k = Len(s) - 2
  <2>1. /\ k + 1 \in 1 .. Len(s) /\ k # Len(s) /\ k + 1 # Len(s) /\ n > 3
        /\ (k + 1) + 1 = Len(s) /\ (k + 1) + 1 \in 1 .. Len(s)
    BY <1>1, <1>2, <1>6
  <2>2. /\ s[k] \in 0 .. n - 1 /\ s[k + 1] \in 0 .. n - 1 /\ s[(k + 1) + 1] \in 0 .. n - 1
        /\ s[k + 1] = (s[k] + d) % n /\ s[(k + 1) + 1] = (s[k + 1] + d) % n
        /\ w.Index = (s[(k + 1) + 1] + d) % n
    BY <1>2, <1>3, <2>1, Zenon
  <2>3. QED
    BY <1>1, <1>2, <2>1, <2>2, StepsDiffer, Zenon DEF s
<1>7. QED
  BY <1>2, <1>4, <1>5, <1>6

\* A walk goes on from where it is to its next TSD.
LEMMA ChainGrows ==
  ASSUME NEW w \in Walks, w.Index < w.N, w.Inc \in S!CoPrimesOf(w.N), Chained(w), Len(w.tried) <= S!MaxTries(w),
         ~S!WalkEnds(w), NEW v, v.N = w.N, v.Inc = w.Inc, v.tried = Append(w.tried, w.Index),
         v.Index = (w.Index + w.Inc) % w.N
  PROVE  v.Inc \in S!CoPrimesOf(v.N) /\ Len(v.tried) <= S!MaxTries(v) /\ Chained(v)
<1>1. w.tried \in Seq(Nat) /\ w.N \in Nat /\ w.Index \in Nat
  BY DEF Walks
<1>2. /\ Len(v.tried) = Len(w.tried) + 1 /\ v.tried[Len(v.tried)] = w.Index
      /\ \A k \in 1 .. Len(w.tried) : v.tried[k] = w.tried[k]
  BY <1>1
<1>3. Len(v.tried) <= S!MaxTries(v)
  BY <1>1, <1>2 DEF S!MaxTries, S!WalkEnds
<1>4. ASSUME NEW k \in 1 .. Len(v.tried)
      PROVE  /\ v.tried[k] < v.N
             /\ (v.tried[k] + v.Inc) % v.N = IF k = Len(v.tried) THEN v.Index ELSE v.tried[k + 1]
  <2>1. CASE k = Len(v.tried)
    BY <1>2, <2>1, Zenon
  <2>2. CASE k # Len(v.tried)
    <3>1. k \in 1 .. Len(w.tried) /\ (k = Len(w.tried) <=> k + 1 = Len(v.tried)) /\ k + 1 \in 1 .. Len(v.tried)
          /\ (k # Len(w.tried) => k + 1 \in 1 .. Len(w.tried))
      BY <1>1, <1>2, <2>2, SMTT(30), ZenonT(20)
    <3>2. v.tried[k] = w.tried[k] /\ v.tried[k + 1] = IF k = Len(w.tried) THEN w.Index ELSE w.tried[k + 1]
      BY <1>2, <3>1
    <3>3. w.tried[k] < w.N /\ (w.tried[k] + w.Inc) % w.N = IF k = Len(w.tried) THEN w.Index ELSE w.tried[k + 1]
      BY <3>1, Zenon DEF Chained
    <3>4. QED
      BY <2>2, <3>2, <3>3, Zenon
  <2>3. QED
    BY <2>1, <2>2
<1>5. QED
  BY <1>3, <1>4 DEF Chained

\* Threads that walk go on with the same walks, and no other begins one.
LEMMA WalkStepsKept ==
  ASSUME WalkSteps, \A u \in Threads : pc'[u] = "walk" => pc[u] = "walk" /\ walk'[u] = walk[u]
  PROVE  WalkSteps'
  BY SMTT(30), ZenonT(20) DEF WalkSteps, Chained, S!MaxTries, S!CoPrimesOf

\* One thread walks with v.
LEMMA WalkStepsChange ==
  ASSUME WalkSteps, NEW t \in Threads, NEW v, walk'[t] = v,
         v.Inc \in S!CoPrimesOf(v.N), Len(v.tried) <= S!MaxTries(v), Chained(v),
         \A u \in Threads : u # t => pc'[u] = pc[u] /\ walk'[u] = walk[u]
  PROVE  WalkSteps'
<1>1. ASSUME NEW u \in Threads, pc'[u] = "walk"
      PROVE  /\ walk'[u].Inc \in S!CoPrimesOf(walk'[u].N)
             /\ Len(walk'[u].tried) <= S!MaxTries(walk'[u]) /\ Chained(walk'[u])
  <2>1. CASE u = t
    BY <2>1, Zenon
  <2>2. CASE u # t
    <3>1. walk'[u] = walk[u] /\ pc[u] = "walk"
      BY <1>1, <2>2
    <3>2. /\ walk[u].Inc \in S!CoPrimesOf(walk[u].N)
          /\ Len(walk[u].tried) <= S!MaxTries(walk[u]) /\ Chained(walk[u])
      BY <3>1, Zenon DEF WalkSteps
    <3>3. QED
      BY <3>1, <3>2, Zenon
  <2>3. QED
    BY <2>1, <2>2
<1>2. QED
  BY <1>1, Zenon DEF WalkSteps, Chained, S!MaxTries, S!CoPrimesOf

\* The number of TSDs does not shrink below the index of a TSD in use, and stays
\* within the array.
LEMMA SetNumberGrows ==
  ASSUME RegistryAssumption, SharedTypeOK, CoPrimesKnown, NEW n \in Nat, S!setNumberOfTSDs(n)
  PROVE  /\ NumberOfTSDs' \in NumberOfTSDs .. TSDsArraySize
         /\ CoPrimes' \subseteq Nat /\ CoPrimesKnown'
         /\ n > 0 => NumberOfTSDs' > 0
<1> USE DEF RegistryAssumption, SharedTypeOK
<1>1. CASE n < NumberOfTSDs
  <2>1. NumberOfTSDs' = NumberOfTSDs /\ CoPrimes' = CoPrimes
    BY <1>1 DEF S!setNumberOfTSDs, S!sizes
  <2>2. QED
    BY <1>1, <2>1 DEF CoPrimesKnown
<1>2. CASE n >= NumberOfTSDs
  <2>1. NumberOfTSDs' = IF n > TSDsArraySize THEN TSDsArraySize ELSE n
    BY <1>2 DEF S!setNumberOfTSDs
  <2>2. CoPrimes' = S!CoPrimesOf(NumberOfTSDs')
    BY <1>2 DEF S!setNumberOfTSDs
  <2>3. CoPrimes' \subseteq 1 .. NumberOfTSDs'
    BY <2>2, Zenon DEF S!CoPrimesOf
  <2>4. QED
    BY <1>2, <2>1, <2>2, <2>3 DEF CoPrimesKnown
<1>3. QED
  BY <1>1, <1>2

LEMMA TryLockTyped ==
  ASSUME RegistryAssumption, SharedTypeOK, NEW t \in Threads, NEW i \in S!Indices, S!tryLock(t, i)
  PROVE  Precedence' \in [S!Indices -> Nat]
<1>1. CASE Precedence' = Precedence
  BY <1>1 DEF SharedTypeOK
<1>2. CASE \E now \in 0 .. MaxTime : Precedence' = [Precedence EXCEPT ![i] = now]
  BY <1>2 DEF RegistryAssumption, SharedTypeOK
<1>3. QED
  BY <1>1, <1>2 DEF S!tryLock, RegistryAssumption

\* Changes of a walk.
LEMMA IndexChanges ==
  ASSUME NEW w \in Walks, NEW i \in Nat
  PROVE  [w EXCEPT !.Index = i] \in Walks /\ [w EXCEPT !.Index = i].candidate = w.candidate
  BY DEF Walks

LEMMA AppendTyped == ASSUME NEW s \in Seq(Nat), NEW i \in Nat PROVE Append(s, i) \in Seq(Nat)
  OBVIOUS

\* Steps that leave the number of TSDs and the TSD of every thread alone, and in
\* which no thread walks that did not before.
LEMMA OtherSteps ==
  ASSUME RegistryAssumption, SharedIInv, NEW t \in Threads, NEW l \in SharedPlaces \ {"assign", "walk"},
         pc' = [pc EXCEPT ![t] = l], walk' = walk \/ walk' = [walk EXCEPT ![t] = S!NoWalk],
         UNCHANGED <<S!sizes, CurrentIndex, CurrentTSD>>, Precedence' \in [S!Indices -> Nat]
  PROVE  SharedIInv'
<1>1. S!NoWalk \in Walks /\ S!NoWalk.candidate = S!NoTSD
  BY DEF RegistryAssumption, S!NoWalk, S!NoTSD, Walks
<1>2. SharedTypeOK'
  BY <1>1 DEF SharedIInv, SharedTypeOK, S!sizes
<1>3. InitializedFirst'
  BY DEF SharedIInv, SharedTypeOK, InitializedFirst, S!sizes
<1>4. WalkWithin'
  BY <1>1 DEF SharedIInv, SharedTypeOK, WalkWithin, S!sizes
<1>5. S!DrainReachesAll'
  BY DEF SharedIInv, S!DrainReachesAll, S!sizes
<1>6. CoPrimesKnown'
  BY DEF SharedIInv, CoPrimesKnown, S!sizes, S!CoPrimesOf
<1>7. WalkSteps'
  BY WalkStepsKept DEF SharedIInv, SharedTypeOK
<1>8. QED
  BY <1>2, <1>3, <1>4, <1>5, <1>6, <1>7 DEF SharedIInv

\* A larger number of TSDs does not disturb threads that walk.
LEMMA WalkWithinGrows ==
  ASSUME RegistryAssumption, SharedTypeOK, WalkWithin, NumberOfTSDs' \in NumberOfTSDs .. TSDsArraySize,
         walk' = walk, \A u \in Threads : pc'[u] = "walk" => pc[u] = "walk"
  PROVE  WalkWithin'
<1> SUFFICES ASSUME NEW u \in Threads
             PROVE  /\ pc'[u] = "walk" => walk[u].Index < walk[u].N /\ walk[u].N <= NumberOfTSDs'
                    /\ walk[u].candidate # S!NoTSD => walk[u].candidate < NumberOfTSDs'
  BY DEF WalkWithin
<1>1. walk[u].N \in Nat /\ walk[u].candidate \in 0 .. TSDsArraySize
  BY DEF SharedTypeOK, Walks
<1>2. NumberOfTSDs \in Nat /\ NumberOfTSDs' \in Nat /\ NumberOfTSDs <= NumberOfTSDs'
  BY DEF SharedTypeOK, RegistryAssumption
<1>3. /\ pc[u] = "walk" => walk[u].Index < walk[u].N /\ walk[u].N <= NumberOfTSDs
      /\ walk[u].candidate # S!NoTSD => walk[u].candidate < NumberOfTSDs
  BY DEF WalkWithin
<1>4. QED
  BY <1>1, <1>2, <1>3 DEF RegistryAssumption

\* The inductive step.  DrainReachesAll is at stake in the three steps that give a
\* thread another TSD, and in the two that change the number.
LEMMA SharedStep == ASSUME RegistryAssumption, SharedIInv, [S!Next]_(S!vars) PROVE SharedIInv'
<1> SharedTypeOK /\ InitializedFirst /\ WalkWithin /\ S!DrainReachesAll /\ CoPrimesKnown /\ WalkSteps
  BY DEF SharedIInv
<1> S!NoWalk \in Walks /\ S!NoWalk.candidate = S!NoTSD
  BY DEF RegistryAssumption, S!NoWalk, S!NoTSD, Walks
<1>1. CASE UNCHANGED S!vars
  <2>1. SharedTypeOK' /\ InitializedFirst' /\ WalkWithin' /\ S!DrainReachesAll'
    BY <1>1 DEF S!vars, S!sizes, SharedTypeOK, InitializedFirst, WalkWithin, S!DrainReachesAll
  <2>2. CoPrimesKnown'
    BY <1>1 DEF S!vars, S!sizes, CoPrimesKnown, S!CoPrimesOf
  <2>3. WalkSteps'
    BY <1>1, WalkStepsKept DEF S!vars
  <2>4. QED
    BY <2>1, <2>2, <2>3 DEF SharedIInv
<1>2. ASSUME NEW t \in Threads, S!LockRegistry(t) PROVE SharedIInv'
  BY <1>2, OtherSteps DEF S!LockRegistry, S!Goto, SharedPlaces, SharedTypeOK
<1>3. ASSUME NEW t \in Threads, S!initOnceMaybe(t) PROVE SharedIInv'
  <2>1. /\ NumberOfTSDs' \in NumberOfTSDs .. TSDsArraySize /\ CoPrimes' \subseteq Nat /\ NumberOfTSDs' > 0
        /\ CoPrimesKnown'
    <3>1. CASE S!setNumberOfTSDs(DefaultTSDCount)
      BY <3>1, SetNumberGrows DEF RegistryAssumption
    <3>2. CASE NumberOfTSDs # 0 /\ NumberOfTSDs' = NumberOfTSDs /\ CoPrimes' = CoPrimes
      BY <3>2 DEF SharedTypeOK, RegistryAssumption, CoPrimesKnown, S!CoPrimesOf
    <3>3. QED
      BY <1>3, <3>1, <3>2 DEF S!initOnceMaybe, S!sizes
  <2>2. SharedTypeOK'
    BY <1>3, <2>1 DEF S!initOnceMaybe, SharedTypeOK, S!Goto, SharedPlaces, RegistryAssumption
  <2>3. InitializedFirst'
    BY <1>3, <2>1 DEF InitializedFirst
  <2>4. WalkWithin'
    BY <1>3, <2>1, WalkWithinGrows DEF S!initOnceMaybe, S!Goto, SharedTypeOK
  <2>5. S!DrainReachesAll'
    BY <1>3, <2>1 DEF S!initOnceMaybe, SharedTypeOK, S!DrainReachesAll, RegistryAssumption
  <2>6. WalkSteps'
    BY <1>3, WalkStepsKept DEF S!initOnceMaybe, S!Goto, SharedTypeOK
  <2>7. QED
    BY <2>1, <2>2, <2>3, <2>4, <2>5, <2>6 DEF SharedIInv
<1>4. ASSUME NEW t \in Threads, S!AssignTSD(t) PROVE SharedIInv'
  <2>1. NumberOfTSDs > 0 /\ NumberOfTSDs \in Nat /\ NumberOfTSDs <= TSDsArraySize /\ CurrentIndex \in Nat
    BY <1>4 DEF S!AssignTSD, InitializedFirst, SharedTypeOK, RegistryAssumption
  <2>2. CurrentIndex % NumberOfTSDs \in 0 .. NumberOfTSDs - 1
    BY <2>1, Remainder
  <2>3. PICK i \in 0 .. NumberOfTSDs - 1 : CurrentTSD' = [CurrentTSD EXCEPT ![t] = i]
    BY <1>4, <2>2 DEF S!AssignTSD
  <2>4. SharedTypeOK'
    BY <1>4, <2>1, <2>3 DEF S!AssignTSD, SharedTypeOK, S!Goto, SharedPlaces, RegistryAssumption, S!sizes
  <2>5. InitializedFirst' /\ WalkWithin'
    BY <1>4 DEF S!AssignTSD, InitializedFirst, WalkWithin, SharedTypeOK, S!Goto, S!sizes
  <2>6. S!DrainReachesAll'
    BY <1>4, <2>1, <2>3 DEF S!AssignTSD, S!DrainReachesAll, SharedTypeOK, S!sizes
  <2>7. CoPrimesKnown'
    BY <1>4 DEF S!AssignTSD, S!sizes, CoPrimesKnown, S!CoPrimesOf
  <2>8. WalkSteps'
    BY <1>4, WalkStepsKept DEF S!AssignTSD, S!Goto, SharedTypeOK
  <2>9. QED
    BY <2>4, <2>5, <2>6, <2>7, <2>8 DEF SharedIInv
<1>5. ASSUME NEW t \in Threads, S!getTSDAndLock(t) PROVE SharedIInv'
  <2>1. CurrentTSD[t] \in S!Indices
    BY <1>5 DEF S!getTSDAndLock, S!Indices, SharedTypeOK, S!NoTSD, RegistryAssumption
  <2>2. Precedence' \in [S!Indices -> Nat]
    BY <1>5, <2>1, TryLockTyped DEF S!getTSDAndLock
  <2>3. QED
    BY <1>5, <2>2, OtherSteps DEF S!getTSDAndLock, S!Goto, SharedPlaces
<1>6. ASSUME NEW t \in Threads, S!StartWalk(t) PROVE SharedIInv'
  <2>1. PICK Index \in 0 .. NumberOfTSDs - 1, Inc \in CoPrimes :
          walk' = [walk EXCEPT ![t] = [S!NoWalk EXCEPT !.N = NumberOfTSDs, !.Index = Index, !.Inc = Inc]]
    BY <1>6 DEF S!StartWalk
  <2>2. PICK w : w = [S!NoWalk EXCEPT !.N = NumberOfTSDs, !.Index = Index, !.Inc = Inc]
    OBVIOUS
  <2>3. w \in Walks /\ w.N = NumberOfTSDs /\ w.Index < NumberOfTSDs /\ w.candidate = S!NoTSD
    <3>1. NumberOfTSDs \in Nat /\ Index \in Nat /\ Inc \in Nat /\ Index < NumberOfTSDs
      BY <2>1 DEF SharedTypeOK, RegistryAssumption
    <3>2. w \in Walks /\ w.N = NumberOfTSDs /\ w.Index = Index /\ w.candidate = S!NoWalk.candidate
      BY <2>2, <3>1 DEF Walks
    <3>3. QED
      BY <3>1, <3>2
  <2>4. walk' = [walk EXCEPT ![t] = w]
    BY <2>1, <2>2
  <2>5. SharedTypeOK'
    BY <1>6, <2>3, <2>4 DEF S!StartWalk, SharedTypeOK, S!Goto, SharedPlaces, S!sizes
  <2>6. InitializedFirst' /\ S!DrainReachesAll'
    BY <1>6 DEF S!StartWalk, InitializedFirst, S!DrainReachesAll, SharedTypeOK, S!Goto, S!sizes
  <2>7. WalkWithin'
    BY <1>6, <2>3, <2>4 DEF S!StartWalk, WalkWithin, SharedTypeOK, S!Goto, S!sizes
  <2>8. CoPrimesKnown'
    BY <1>6 DEF S!StartWalk, S!sizes, CoPrimesKnown, S!CoPrimesOf
  <2>9. WalkSteps'
    <3>1. w.Inc \in S!CoPrimesOf(w.N) /\ w.tried = <<>>
      <4>1. w.Inc = Inc /\ w.N = NumberOfTSDs /\ w.tried = <<>>
        BY <2>2 DEF S!NoWalk
      <4>2. QED
        BY <2>1, <4>1, Zenon DEF CoPrimesKnown
    <3>2. Len(w.tried) <= S!MaxTries(w) /\ Chained(w)
      BY <2>3, <3>1 DEF S!MaxTries, Chained, Walks
    <3>3. \A u \in Threads : u # t => pc'[u] = pc[u] /\ walk'[u] = walk[u]
      BY <1>6, <2>4 DEF S!StartWalk, S!Goto, SharedTypeOK
    <3>4. walk'[t] = w
      BY <2>4 DEF SharedTypeOK
    <3>5. QED
      BY <3>1, <3>2, <3>3, <3>4, WalkStepsChange, Zenon
  <2>10. QED
    BY <2>5, <2>6, <2>7, <2>8, <2>9 DEF SharedIInv
<1>7. ASSUME NEW t \in Threads, S!TryNext(t) PROVE SharedIInv'
  <2> DEFINE w == walk[t]
  <2>1. /\ w \in Walks /\ w.Index < w.N /\ w.N <= NumberOfTSDs /\ pc[t] = "walk"
        /\ NumberOfTSDs \in 0 .. TSDsArraySize
    BY <1>7 DEF S!TryNext, SharedTypeOK, WalkWithin
  <2>2. w.Index \in S!Indices /\ w.N \in Nat \ {0} /\ w.Inc \in Nat /\ w.Index \in 0 .. NumberOfTSDs - 1
    <3>1. w.N \in Nat /\ w.Inc \in Nat /\ w.Index \in Nat
      BY <2>1 DEF Walks
    <3>2. QED
      BY <2>1, <3>1 DEF S!Indices, RegistryAssumption
  <2>3. Precedence' \in [S!Indices -> Nat]
    BY <1>7, <2>2, TryLockTyped DEF S!TryNext
  <2>4. CASE TSDs[w.Index] = NoThread
    <3>1. /\ CurrentTSD' = [CurrentTSD EXCEPT ![t] = w.Index]
          /\ walk' = [walk EXCEPT ![t] = S!NoWalk] /\ pc' = [pc EXCEPT ![t] = "using"]
      BY <1>7, <2>4 DEF S!TryNext, S!Goto
    <3>2. UNCHANGED <<NumberOfTSDs, CoPrimes, CurrentIndex>>
      BY <1>7 DEF S!TryNext, S!sizes
    <3>3. w.Index \in 0 .. TSDsArraySize
      BY <2>1, <2>2 DEF RegistryAssumption
    <3> HIDE DEF w
    <3>4. SharedTypeOK'
      BY <2>3, <3>1, <3>2, <3>3 DEF SharedTypeOK, SharedPlaces
    <3>5. InitializedFirst' /\ WalkWithin'
      BY <3>1, <3>2 DEF InitializedFirst, WalkWithin, SharedTypeOK
    <3>6. S!DrainReachesAll'
      BY <2>1, <2>2, <3>1, <3>2 DEF S!DrainReachesAll, SharedTypeOK
    <3>7. CoPrimesKnown'
      BY <3>2 DEF CoPrimesKnown, S!CoPrimesOf
    <3>8. WalkSteps'
      BY <3>1, WalkStepsKept DEF SharedTypeOK
    <3>9. QED
      BY <3>4, <3>5, <3>6, <3>7, <3>8 DEF SharedIInv
  <2>5. CASE TSDs[w.Index] # NoThread
    <3>1. (w.Index + w.Inc) % w.N \in 0 .. w.N - 1
      <4>1. w.Index + w.Inc \in Nat
        BY <2>1, <2>2 DEF RegistryAssumption
      <4>2. QED
        BY <2>2, <4>1, Remainder, Zenon
    <3>2. PICK i \in 0 .. w.N - 1 : i = (w.Index + w.Inc) % w.N
      BY <3>1
    <3>3. PICK c \in {w.Index, w.candidate} :
            c = IF S!Better(w, Precedence'[w.Index]) THEN w.Index ELSE w.candidate
      OBVIOUS
    <3>4. PICK p \in {Precedence'[w.Index], w.lowest} :
            p = IF S!Better(w, Precedence'[w.Index]) THEN Precedence'[w.Index] ELSE w.lowest
      OBVIOUS
    <3>5. PICK s \in Seq(Nat) : s = Append(w.tried, w.Index)
      <4>1. w.tried \in Seq(Nat) /\ w.Index \in Nat
        BY <2>1 DEF Walks
      <4>2. QED
        BY <4>1, AppendTyped
    <3>0. PICK next : next = [w EXCEPT !.tried = s, !.Index = i, !.candidate = c, !.lowest = p]
      OBVIOUS
    <3>6. i \in Nat /\ c \in 0 .. TSDsArraySize /\ p \in Nat
      <4>1. w.candidate \in 0 .. TSDsArraySize /\ w.lowest \in Nat
        BY <2>1 DEF Walks
      <4>2. Precedence'[w.Index] \in Nat
        BY <2>2, <2>3
      <4>3. w.Index \in 0 .. TSDsArraySize
        BY <2>1, <2>2 DEF RegistryAssumption
      <4>4. QED
        BY <2>2, <3>2, <3>3, <3>4, <4>1, <4>2, <4>3
    <3>7. next \in Walks /\ next.N = w.N /\ next.Index = i /\ next.candidate = c
      BY <2>1, <3>0, <3>5, <3>6 DEF Walks
    <3>8. UNCHANGED <<NumberOfTSDs, CoPrimes, CurrentIndex, CurrentTSD, pc>> /\ walk' = [walk EXCEPT ![t] = next]
      BY <1>7, <2>5, <3>0, <3>2, <3>3, <3>4, <3>5 DEF S!TryNext, S!sizes
    <3>9. SharedTypeOK'
      BY <2>3, <3>7, <3>8 DEF SharedTypeOK
    <3>10. InitializedFirst' /\ S!DrainReachesAll'
      BY <3>8 DEF InitializedFirst, S!DrainReachesAll
    <3>11. WalkWithin'
      <4>1. next.Index < next.N /\ next.N <= NumberOfTSDs
        BY <2>1, <2>2, <3>2, <3>7
      <4>2. next.candidate # S!NoTSD => next.candidate < NumberOfTSDs
        BY <2>1, <2>2, <3>3, <3>7 DEF WalkWithin
      <4>3. QED
        BY <3>8, <4>1, <4>2 DEF WalkWithin, SharedTypeOK
    <3>12. CoPrimesKnown'
      BY <3>8 DEF CoPrimesKnown, S!CoPrimesOf
    <3>13. WalkSteps'
      <4>1. next.Inc = w.Inc /\ next.tried = Append(w.tried, w.Index)
        BY <2>1, <3>0, <3>5 DEF Walks
      <4>2. w.Inc \in S!CoPrimesOf(w.N) /\ Len(w.tried) <= S!MaxTries(w) /\ Chained(w) /\ ~S!WalkEnds(w)
        BY <1>7, <2>1, Zenon DEF WalkSteps, S!TryNext
      <4>3. next.Inc \in S!CoPrimesOf(next.N) /\ Len(next.tried) <= S!MaxTries(next) /\ Chained(next)
        BY <2>1, <3>2, <3>7, <4>1, <4>2, ChainGrows, Zenon
      <4>4. \A u \in Threads : u # t => walk'[u] = walk[u]
        BY <3>8 DEF SharedTypeOK
      <4>5. walk'[t] = next /\ pc' = pc
        BY <3>8 DEF SharedTypeOK
      <4>6. QED
        BY <4>3, <4>4, <4>5, WalkStepsChange, Zenon
    <3>14. QED
      BY <3>9, <3>10, <3>11, <3>12, <3>13 DEF SharedIInv
  <2>6. QED
    BY <2>4, <2>5
<1>8. ASSUME NEW t \in Threads, S!StopWalk(t) PROVE SharedIInv'
  <2>1. PICK i \in 0 .. TSDsArraySize :
          /\ CurrentTSD' = [CurrentTSD EXCEPT ![t] = i] /\ Precedence' = [Precedence EXCEPT ![i] = 0]
          /\ i # S!NoTSD => i < NumberOfTSDs
    BY <1>8 DEF S!StopWalk, S!ClearPrecedence, SharedTypeOK, Walks, WalkWithin, S!DrainReachesAll
  <2>2. /\ walk' = [walk EXCEPT ![t] = S!NoWalk] /\ pc' = [pc EXCEPT ![t] = "wait"]
        /\ UNCHANGED <<NumberOfTSDs, CoPrimes, CurrentIndex>>
    BY <1>8 DEF S!StopWalk, S!ClearPrecedence, S!Goto, S!sizes
  <2>3. SharedTypeOK'
    BY <2>1, <2>2 DEF SharedTypeOK, SharedPlaces
  <2>4. InitializedFirst' /\ WalkWithin'
    BY <2>2 DEF InitializedFirst, WalkWithin, SharedTypeOK
  <2>5. S!DrainReachesAll'
    BY <2>1, <2>2 DEF S!DrainReachesAll, SharedTypeOK
  <2>6. CoPrimesKnown'
    BY <2>2 DEF CoPrimesKnown, S!CoPrimesOf
  <2>7. WalkSteps'
    BY <2>2, WalkStepsKept DEF SharedTypeOK
  <2>8. QED
    BY <2>3, <2>4, <2>5, <2>6, <2>7 DEF SharedIInv
<1>9. ASSUME NEW t \in Threads, S!LockTSD(t) PROVE SharedIInv'
  BY <1>9, OtherSteps DEF S!LockTSD, S!Goto, SharedPlaces, SharedTypeOK
<1>10. ASSUME NEW t \in Threads, S!UnlockTSD(t) PROVE SharedIInv'
  BY <1>10, OtherSteps DEF S!UnlockTSD, S!Goto, SharedPlaces, SharedTypeOK
<1>11. ASSUME NEW t \in Threads, S!setOption(t) PROVE SharedIInv'
  <2>1. PICK n \in 1 .. TSDsArraySize + 1 : S!setNumberOfTSDs(n)
    BY <1>11 DEF S!setOption
  <2>2. NumberOfTSDs' \in NumberOfTSDs .. TSDsArraySize /\ CoPrimes' \subseteq Nat /\ CoPrimesKnown'
    BY <2>1, SetNumberGrows DEF RegistryAssumption
  <2>3. SharedTypeOK'
    BY <1>11, <2>2 DEF S!setOption, SharedTypeOK, RegistryAssumption
  <2>4. InitializedFirst' /\ S!DrainReachesAll'
    BY <1>11, <2>2 DEF S!setOption, InitializedFirst, S!DrainReachesAll, SharedTypeOK, RegistryAssumption
  <2>5. WalkWithin'
    BY <1>11, <2>2, WalkWithinGrows DEF S!setOption
  <2>6. WalkSteps'
    BY <1>11, WalkStepsKept DEF S!setOption
  <2>7. QED
    BY <2>2, <2>3, <2>4, <2>5, <2>6 DEF SharedIInv
<1>12. ASSUME NEW t \in Threads, S!StartDrain(t) PROVE SharedIInv'
  BY <1>12, OtherSteps DEF S!StartDrain, S!Goto, SharedPlaces, SharedTypeOK
<1>13. ASSUME NEW t \in Threads, S!DrainTSD(t) PROVE SharedIInv'
  <2> DEFINE w == [walk[t] EXCEPT !.Index = @ + 1]
  <2>1. w \in Walks /\ w.candidate = walk[t].candidate
    <3>1. walk[t] \in Walks /\ walk[t].Index + 1 \in Nat
      BY DEF SharedTypeOK, Walks
    <3>2. QED
      BY <3>1, IndexChanges
  <2>2. /\ walk' = [walk EXCEPT ![t] = w] /\ pc[t] = "drain"
        /\ UNCHANGED <<NumberOfTSDs, CoPrimes, CurrentIndex, CurrentTSD, pc>>
    BY <1>13 DEF S!DrainTSD, S!sizes
  <2> HIDE DEF w
  <2>3. SharedTypeOK'
    BY <1>13, <2>1, <2>2 DEF S!DrainTSD, SharedTypeOK
  <2>4. InitializedFirst' /\ WalkWithin' /\ S!DrainReachesAll'
    BY <2>1, <2>2 DEF InitializedFirst, WalkWithin, S!DrainReachesAll, SharedTypeOK
  <2>5. CoPrimesKnown'
    BY <2>2 DEF CoPrimesKnown, S!CoPrimesOf
  <2>6. WalkSteps'
    BY <2>2, WalkStepsKept DEF SharedTypeOK
  <2>7. QED
    BY <2>3, <2>4, <2>5, <2>6 DEF SharedIInv
<1>14. ASSUME NEW t \in Threads, S!EndDrain(t) PROVE SharedIInv'
  BY <1>14, OtherSteps DEF S!EndDrain, S!Goto, SharedPlaces, SharedTypeOK, S!sizes
<1>15. ASSUME NEW t \in Threads, S!disable(t) PROVE SharedIInv'
  BY <1>15, OtherSteps DEF S!disable, S!Goto, SharedPlaces, SharedTypeOK
<1>16. ASSUME NEW t \in Threads, S!DisableTSD(t) PROVE SharedIInv'
  <2>1. Precedence' \in [S!Indices -> Nat] /\ pc' = [pc EXCEPT ![t] = "disable"]
    BY <1>16 DEF S!DisableTSD, SharedTypeOK
  <2>2. QED
    BY <1>16, <2>1, OtherSteps DEF S!DisableTSD, SharedPlaces
<1>17. ASSUME NEW t \in Threads, S!enable(t) PROVE SharedIInv'
  BY <1>17, OtherSteps DEF S!enable, S!Goto, SharedPlaces, SharedTypeOK
<1>18. QED
  BY <1>1, <1>2, <1>3, <1>4, <1>5, <1>6, <1>7, <1>8, <1>9, <1>10, <1>11, <1>12, <1>13, <1>14,
     <1>15, <1>16, <1>17 DEF S!Next, S!Step

\* A step of any subject is one of the shared registry or leaves it alone.
LEMMA SharedSteps == ASSUME [Next]_<<subject, lvars, svars, xvars, tvars, cvars>> PROVE [S!Next]_(S!vars)
<1>1. S!Next \/ UNCHANGED svars
  BY DEF Next, lvars, svars, xvars, tvars, cvars
<1>2. QED
  BY <1>1 DEF svars, S!vars, S!locks, S!sizes

\* The inductive invariant holds in every reachable state.
LEMMA SharedInvariance == ASSUME RegistryAssumption PROVE Spec => []SharedIInv
<1>1. Init => SharedIInv
  BY SharedInit DEF Init
<1>2. SharedIInv /\ [Next]_<<subject, lvars, svars, xvars, tvars, cvars>> => SharedIInv'
  BY SharedStep, SharedSteps
<1>3. QED
  BY <1>1, <1>2, PTL DEF Spec

\* The loops of drainCaches() and getStats() over NumberOfTSDs reach the TSD of
\* every thread, with setOption() and initThread() at any moment.
THEOREM DrainComplete == ASSUME RegistryAssumption PROVE Spec => []DrainReachesAll
<1>1. SharedIInv => DrainReachesAll
  BY DEF SharedIInv, DrainReachesAll
<1>2. QED
  BY SharedInvariance, <1>1, PTL

\* getTSDAndLockSlow() goes on with the number and the co-prime that it read, so
\* it does not come back to a TSD, whoever changes them meanwhile, and the TSD is
\* one of those in use, of which there are never fewer.
THEOREM NeverTriedTwice == ASSUME RegistryAssumption PROVE Spec => []WalkVisitsNew
<1>1. ASSUME SharedIInv, NEW t \in Threads, pc[t] = "walk", ~S!WalkEnds(walk[t])
      PROVE  walk[t].Index < NumberOfTSDs /\ \A k \in DOMAIN walk[t].tried : walk[t].tried[k] # walk[t].Index
  <2>1. walk[t] \in Walks /\ walk[t].Index < walk[t].N /\ walk[t].N <= NumberOfTSDs /\ NumberOfTSDs \in Nat
    BY <1>1 DEF SharedIInv, SharedTypeOK, WalkWithin
  <2>2. /\ walk[t].Inc \in S!CoPrimesOf(walk[t].N) /\ Len(walk[t].tried) <= S!MaxTries(walk[t])
        /\ Chained(walk[t])
    BY <1>1, Zenon DEF SharedIInv, WalkSteps
  <2>3. walk[t].Index < NumberOfTSDs
    BY <2>1 DEF Walks
  <2>4. QED
    BY <1>1, <2>1, <2>2, <2>3, WalkGoesOn, Zenon
<1>2. SharedIInv => WalkVisitsNew
  BY <1>1, Zenon DEF WalkVisitsNew, S!WalkVisitsNew
<1>3. QED
  BY SharedInvariance, <1>2, PTL
-----------------------------------------------------------------------------
\* The C library calls a thread-specific destructor at least once.
RoundsAssumption == Iterations \in Nat \ {0}

ExclusiveTypeOK ==
  /\ InitState \in [Threads -> {"NotInitialized", "Initialized", "TornDown"}]
  /\ DestructorIterations \in [Threads -> 0 .. Iterations]
  /\ cached \in [Threads -> BOOLEAN] /\ linked \in [Threads -> BOOLEAN]
  /\ keys \in [Threads -> SUBSET {X!Scudo, X!App}]
  /\ pending \in [Threads -> SUBSET {X!Scudo, X!App}]
  /\ phase \in [Threads -> {"run", "exit", "late", "ended"}]
  /\ round \in [Threads -> 0 .. Iterations]
  /\ lateInit \in [Threads -> BOOLEAN]

\* A ThreadTSD is in the list of statistics, and its key is set, from its
\* initThread() to its teardownThread(); only then does it cache anything.
StateMatches ==
  \A t \in Threads :
    /\ linked[t] <=> InitState[t] = "Initialized"
    /\ linked[t] <=> X!Scudo \in keys[t]
    /\ InitState[t] = "NotInitialized" <=> DestructorIterations[t] = 0
    /\ cached[t] => linked[t]
    /\ X!Scudo \in pending[t] => linked[t]

\* The calls of teardownThread() that are left are as many as the rounds that are
\* left, the current one included until its call, for a thread that was
\* initialized before its first round.
RoundsCounted ==
  \A t \in Threads : linked[t] /\ ~lateInit[t] =>
    /\ phase[t] \in {"run", "exit"}
    /\ phase[t] = "run" => DestructorIterations[t] = Iterations
    /\ phase[t] = "exit" =>
         DestructorIterations[t] = Iterations - round[t] + (IF X!Scudo \in pending[t] THEN 1 ELSE 0)

\* The inductive invariant.
ExclusiveIInv == ExclusiveTypeOK /\ StateMatches /\ RoundsCounted
-----------------------------------------------------------------------------
LEMMA ExclusiveInit == ASSUME RoundsAssumption, X!Init PROVE ExclusiveIInv
<1>1. keys \in [Threads -> SUBSET {X!Scudo, X!App}] /\ \A t \in Threads : X!Scudo \notin keys[t]
  <2>1. {{}, {X!App}} \subseteq SUBSET {X!Scudo, X!App} /\ X!Scudo # X!App
    BY DEF X!Scudo, X!App
  <2>2. \A t \in Threads : keys[t] \in {{}, {X!App}}
    BY DEF X!Init
  <2>3. QED
    BY <2>1, <2>2 DEF X!Init
<1>2. ExclusiveTypeOK
  BY <1>1 DEF RoundsAssumption, X!Init, ExclusiveTypeOK
<1>3. StateMatches /\ RoundsCounted
  BY <1>1 DEF X!Init, StateMatches, RoundsCounted
<1>4. QED
  BY <1>2, <1>3 DEF ExclusiveIInv

\* initThreadMaybe() at the beginning of an operation, which then may cache
\* something in a TSD that is in use.
LEMMA InitThreadKeeps ==
  ASSUME RoundsAssumption, ExclusiveIInv, NEW t \in Threads, NEW MinimalInit \in BOOLEAN,
         X!Runs(t), X!initThreadMaybe(t, MinimalInit), phase[t] = "late" => MinimalInit,
         UNCHANGED <<phase, round>>,
         cached' \in [Threads -> BOOLEAN], \A u \in Threads : cached'[u] => linked'[u]
  PROVE  ExclusiveIInv'
<1> USE DEF RoundsAssumption, ExclusiveIInv, ExclusiveTypeOK, StateMatches, RoundsCounted
<1>1. CASE UNCHANGED <<InitState, DestructorIterations, linked, keys, lateInit, pending>>
  BY <1>1
<1>2. CASE InitState[t] = "NotInitialized" /\ ~MinimalInit /\ X!initThread(t)
  <2>1. ExclusiveTypeOK'
    <3>1. keys[t] \cup {X!Scudo} \in SUBSET {X!Scudo, X!App} /\ pending[t] \cup {X!Scudo} \in SUBSET {X!Scudo, X!App}
      OBVIOUS
    <3>2. keys' \in [Threads -> SUBSET {X!Scudo, X!App}] /\ pending' \in [Threads -> SUBSET {X!Scudo, X!App}]
      BY <1>2, <3>1 DEF X!initThread
    <3>3. lateInit' \in [Threads -> BOOLEAN]
      BY <1>2, Zenon DEF X!initThread
    <3>4. QED
      BY <1>2, <3>2, <3>3 DEF X!initThread
  <2>2. StateMatches'
    <3> SUFFICES ASSUME NEW u \in Threads
                 PROVE  /\ linked'[u] <=> InitState'[u] = "Initialized"
                        /\ linked'[u] <=> X!Scudo \in keys'[u]
                        /\ InitState'[u] = "NotInitialized" <=> DestructorIterations'[u] = 0
                        /\ cached'[u] => linked'[u]
                        /\ X!Scudo \in pending'[u] => linked'[u]
      BY Zenon DEF StateMatches
    <3>1. CASE u = t
      BY <1>2, <3>1 DEF X!initThread
    <3>2. CASE u # t
      <4>1. /\ DestructorIterations'[u] = DestructorIterations[u] /\ linked'[u] = linked[u]
            /\ InitState'[u] = InitState[u] /\ keys'[u] = keys[u] /\ pending'[u] = pending[u]
        BY <1>2, <3>2 DEF X!initThread
      <4>2. QED
        BY <4>1
    <3>3. QED
      BY <3>1, <3>2
  <2>3. RoundsCounted'
    <3> SUFFICES ASSUME NEW u \in Threads, linked'[u], ~lateInit'[u]
                 PROVE  /\ phase'[u] \in {"run", "exit"}
                        /\ phase'[u] = "run" => DestructorIterations'[u] = Iterations
                        /\ phase'[u] = "exit" =>
                             DestructorIterations'[u] =
                               Iterations - round'[u] + (IF X!Scudo \in pending'[u] THEN 1 ELSE 0)
      BY Zenon DEF RoundsCounted
    <3>1. CASE u = t
      BY <1>2, <3>1 DEF X!initThread
    <3>2. CASE u # t
      <4>1. /\ DestructorIterations'[u] = DestructorIterations[u] /\ linked'[u] = linked[u]
            /\ lateInit'[u] = lateInit[u] /\ pending'[u] = pending[u]
        BY <1>2, <3>2 DEF X!initThread
      <4>2. QED
        BY <4>1
    <3>3. QED
      BY <3>1, <3>2
  <2>4. QED
    BY <2>1, <2>2, <2>3
<1>3. QED
  BY <1>1, <1>2 DEF X!initThreadMaybe

\* The inductive step.  RoundsCounted is at stake in NextRound(), which begins a
\* round with one call less to go, and in teardownThread(), which counts it.
LEMMA ExclusiveStep == ASSUME RoundsAssumption, ExclusiveIInv, [X!Next]_(X!vars) PROVE ExclusiveIInv'
<1> USE DEF RoundsAssumption, ExclusiveIInv, ExclusiveTypeOK, StateMatches, RoundsCounted
<1>1. CASE UNCHANGED X!vars
  BY <1>1 DEF X!vars, X!local, X!ending
<1>2. ASSUME NEW t \in Threads, X!enable(t) PROVE ExclusiveIInv'
  BY <1>2 DEF X!enable, X!local, X!ending
<1>3. ASSUME NEW t \in Threads, NEW MinimalInit \in BOOLEAN, X!Operate(t, MinimalInit),
             phase[t] = "late" => MinimalInit
      PROVE  ExclusiveIInv'
  <2>1. cached' \in [Threads -> BOOLEAN] /\ \A u \in Threads : cached'[u] => linked'[u]
    <3>1. CASE cached' = cached
      BY <1>3, <3>1 DEF X!Operate, X!initThreadMaybe, X!initThread
    <3>2. CASE cached' = [cached EXCEPT ![t] = TRUE] /\ InitState'[t] = "Initialized"
      BY <1>3, <3>2 DEF X!Operate, X!initThreadMaybe, X!initThread
    <3>3. QED
      BY <1>3, <3>1, <3>2 DEF X!Operate, X!Use
  <2>2. QED
    BY <1>3, <2>1, InitThreadKeeps DEF X!Operate
<1>4. ASSUME NEW t \in Threads, X!allocate(t) PROVE ExclusiveIInv'
  BY <1>3, <1>4 DEF X!allocate
<1>5. ASSUME NEW t \in Threads, X!deallocate(t) PROVE ExclusiveIInv'
  BY <1>3, <1>5 DEF X!deallocate
<1>6. ASSUME NEW t \in Threads, X!UnlockFallback(t) PROVE ExclusiveIInv'
  BY <1>6 DEF X!UnlockFallback, X!local, X!ending
<1>7. ASSUME NEW t \in Threads, X!drainCaches(t) PROVE ExclusiveIInv'
  <2>1. cached' \in [Threads -> BOOLEAN] /\ \A u \in Threads : cached'[u] => linked'[u]
    BY <1>7 DEF X!drainCaches, X!initThreadMaybe, X!initThread
  <2>2. QED
    BY <1>7, <2>1, InitThreadKeeps DEF X!drainCaches
<1>8. ASSUME NEW t \in Threads, X!Exit(t) PROVE ExclusiveIInv'
  BY <1>8 DEF X!Exit, X!local
<1>9. ASSUME NEW t \in Threads, X!teardownThread(t) PROVE ExclusiveIInv'
  <2>1. pending[t] \ {X!Scudo} \in SUBSET {X!Scudo, X!App} /\ keys[t] \ {X!Scudo} \in SUBSET {X!Scudo, X!App}
    OBVIOUS
  <2>2. CASE X!Waits(t) /\ UNCHANGED <<InitState, cached, linked, keys>>
    BY <1>9, <2>1, <2>2 DEF X!teardownThread, X!CountDown, X!Waits
  <2>3. CASE X!commits(t) /\ keys' = [keys EXCEPT ![t] = @ \ {X!Scudo}]
    BY <1>9, <2>1, <2>3 DEF X!teardownThread, X!CountDown, X!Waits, X!commits
  <2>4. QED
    BY <1>9, <2>2, <2>3 DEF X!teardownThread
<1>10. ASSUME NEW t \in Threads, X!AppDestructorReturns(t) PROVE ExclusiveIInv'
  <2>1. /\ pending[t] \ {X!App} \in SUBSET {X!Scudo, X!App} /\ keys[t] \ {X!App} \in SUBSET {X!Scudo, X!App}
        /\ X!Scudo # X!App
    BY DEF X!Scudo, X!App
  <2>2. QED
    BY <1>10, <2>1 DEF X!AppDestructorReturns, X!local
<1>11. ASSUME NEW t \in Threads, X!NextRound(t) PROVE ExclusiveIInv'
  <2>1. CASE keys[t] # {} /\ round[t] < Iterations
    BY <1>11, <2>1 DEF X!NextRound, X!local
  <2>2. CASE ~(keys[t] # {} /\ round[t] < Iterations)
    BY <1>11, <2>2 DEF X!NextRound, X!local
  <2>3. QED
    BY <2>1, <2>2
<1>12. ASSUME NEW t \in Threads, X!End(t) PROVE ExclusiveIInv'
  BY <1>12 DEF X!End, X!local
<1>13. ASSUME NEW t \in Threads, X!disable(t) PROVE ExclusiveIInv'
  BY <1>13 DEF X!disable, X!local, X!ending
<1>14. QED
  BY <1>1, <1>2, <1>4, <1>5, <1>6, <1>7, <1>8, <1>9, <1>10, <1>11, <1>12, <1>13 DEF X!Next, X!Step

\* A step of any subject is one of the exclusive registry or leaves it alone.
LEMMA ExclusiveSteps == ASSUME [Next]_<<subject, lvars, svars, xvars, tvars, cvars>> PROVE [X!Next]_(X!vars)
<1>1. X!Next \/ UNCHANGED xvars
  BY DEF Next, lvars, svars, xvars, tvars, cvars
<1>2. QED
  BY <1>1 DEF xvars, X!vars, X!local, X!ending

\* The inductive invariant holds in every reachable state.
LEMMA ExclusiveInvariance == ASSUME RoundsAssumption PROVE Spec => []ExclusiveIInv
<1>1. Init => ExclusiveIInv
  BY ExclusiveInit DEF Init
<1>2. ExclusiveIInv /\ [Next]_<<subject, lvars, svars, xvars, tvars, cvars>> => ExclusiveIInv'
  BY ExclusiveStep, ExclusiveSteps
<1>3. QED
  BY <1>1, <1>2, PTL DEF Spec

\* teardownThread() commits the TSD of every thread that was initialized before
\* its end, whatever its other destructors do and however many there are.
THEOREM Committed == ASSUME RoundsAssumption PROVE Spec => []EndedCommitted
<1>1. ExclusiveIInv => EndedCommitted
  BY DEF ExclusiveIInv, StateMatches, RoundsCounted, EndedCommitted, X!EndedCommitted, ExclusiveTypeOK
<1>2. QED
  BY ExclusiveInvariance, <1>1, PTL

\* The destructors and the frees that come after it put nothing into a TSD that
\* teardownThread() has committed.
THEOREM NotRefilled == ASSUME RoundsAssumption PROVE Spec => []NothingAfterTeardown
<1>1. ExclusiveIInv => NothingAfterTeardown
  BY DEF ExclusiveIInv, StateMatches, NothingAfterTeardown, X!NothingAfterTeardown
<1>2. QED
  BY ExclusiveInvariance, <1>1, PTL
-----------------------------------------------------------------------------
(***************************************************************************)
(* The stack traces of this instance, from the theorems for all instances. *)
(***************************************************************************)
TP == INSTANCE StackTracesProofs WITH
  Recorders <- {1, 2}, Traces <- Stacks, TabPos <- [t \in Stacks |-> Len(t) - 2],
  RingSize <- 8, TabSize <- 2, RingBufferElements <- 2,
  PrimaryBlocks <- 0 .. 2, SecondaryBlocks <- {100, 101},
  FirstTags <- [b \in 0 .. 2 |-> IF b = 1 THEN 2 ELSE 1], Tags <- {1, 2},
  NumErrorReports <- 3, WordMod <- 8, MaxOps <- 3

\* What the theorems assume holds of this instance.
LEMMA BuffersExist == TP!BuffersAssumption
<1>1. Stacks \subseteq Seq(Nat) /\ \A t \in Stacks : Len(t) - 2 \in 0 .. 1
  BY DEF Stacks
<1>2. QED
  BY <1>1 DEF TP!BuffersAssumption

\* The same actions under the names of both instances.
LEMMA TracesSteps == ASSUME [Next]_<<subject, lvars, svars, xvars, tvars, cvars>> PROVE [TP!Next]_(TP!tvars)
<1>1. ASSUME T!Next PROVE TP!Next
  <2> USE DEF T!Goto, TP!Goto, T!depotVars, TP!depotVars, T!bufferVars, TP!bufferVars, T!NoTid, TP!NoTid,
              T!NoTrace, TP!NoTrace, T!Null, TP!Null
  <2>1. ASSUME NEW t, NEW b, NEW trace
        PROVE  /\ T!Allocate(t, b, trace) => TP!Allocate(t, b, trace)
               /\ T!Deallocate(t, b, trace) => TP!Deallocate(t, b, trace)
    BY Zenon DEF T!Allocate, TP!Allocate, T!Deallocate, TP!Deallocate, T!Start, TP!Start, T!Entry, TP!Entry
  <2>2. ASSUME NEW t, T!Check(t) PROVE TP!Check(t)
    BY <2>2, Zenon DEF T!Check, TP!Check, T!Marker, TP!Marker
  <2>3. ASSUME NEW t, T!LockDepot(t) PROVE TP!LockDepot(t)
    BY <2>3, Zenon DEF T!LockDepot, TP!LockDepot
  <2>4. ASSUME NEW t, T!StoreTab(t) PROVE TP!StoreTab(t)
    BY <2>4, Zenon DEF T!StoreTab, TP!StoreTab
  <2>5. ASSUME NEW t, T!StoreMarker(t) PROVE TP!StoreMarker(t)
    BY <2>5, Zenon DEF T!StoreMarker, TP!StoreMarker, T!Marker, TP!Marker
  <2>6. ASSUME NEW t, T!StoreFrame(t) PROVE TP!StoreFrame(t)
    BY <2>6, Zenon DEF T!StoreFrame, TP!StoreFrame, T!Frame, TP!Frame
  <2>7. ASSUME NEW t, T!UnlockDepot(t) PROVE TP!UnlockDepot(t)
    BY <2>7, Zenon DEF T!UnlockDepot, TP!UnlockDepot, T!Filled, TP!Filled, T!Last, TP!Last
  <2>8. ASSUME NEW t, T!Record(t) PROVE TP!Record(t)
    BY <2>8, Zenon DEF T!Record, TP!Record, T!IsAllocation, TP!IsAllocation, T!Writing, TP!Writing, T!OtherWrites, TP!OtherWrites
  <2>9. ASSUME NEW t, T!Invalidate(t) PROVE TP!Invalidate(t)
    BY <2>9, Zenon DEF T!Invalidate, TP!Invalidate, T!OtherWrites, TP!OtherWrites, T!Writing, TP!Writing
  <2>10. ASSUME NEW t, T!StoreAllocation(t) PROVE TP!StoreAllocation(t)
    BY <2>10, Zenon DEF T!StoreAllocation, TP!StoreAllocation
  <2>11. ASSUME NEW t, T!StoreDeallocation(t) PROVE TP!StoreDeallocation(t)
    BY <2>11, Zenon DEF T!StoreDeallocation, TP!StoreDeallocation
  <2>12. ASSUME NEW t, T!Publish(t) PROVE TP!Publish(t)
    BY <2>12, Zenon DEF T!Publish, TP!Publish
  <2>13. ASSUME NEW t, T!End(t) PROVE TP!End(t)
    BY <2>13, Zenon DEF T!End, TP!End, T!IsAllocation, TP!IsAllocation
  <2>14. QED
    BY <1>1, <2>1, <2>2, <2>3, <2>4, <2>5, <2>6, <2>7, <2>8, <2>9, <2>10, <2>11, <2>12, <2>13, SMT
       DEF T!Next, TP!Next
<1>2. CASE UNCHANGED tvars
  BY <1>2 DEF tvars, TP!tvars, TP!depotVars, TP!bufferVars
<1>3. QED
  BY <1>1, <1>2 DEF Next, lvars, svars, xvars, tvars, cvars

\* Every behaviour is one of the stack traces.
LEMMA TracesInvariance == Spec => TP!Spec
<1>1. Init => TP!Init
  BY DEF Init, T!Init, TP!Init, T!NoTid, TP!NoTid, T!NoTrace, TP!NoTrace, T!Null, TP!Null, T!Entry,
         TP!Entry, T!Frame, TP!Frame
<1>2. [Next]_<<subject, lvars, svars, xvars, tvars, cvars>> => [TP!Next]_(TP!tvars)
  BY TracesSteps
<1>3. QED
  BY <1>1, <1>2, PTL DEF Spec, TP!Spec

\* Whatever writers race in storeRingBufferEntry(), no entry with a pointer is a
\* mixture of two records unless a lap of the buffer overtook its writer.
THEOREM WholeEntries == Spec => []EntriesWhole
<1>1. TP!EntriesWhole => EntriesWhole
  BY DEF EntriesWhole, T!EntriesWhole, TP!EntriesWhole, T!Null, TP!Null
<1>2. TP!BuffersAssumption /\ (TP!BuffersAssumption => (TP!Spec => []TP!EntriesWhole))
  BY BuffersExist, TP!WholeEntries
<1>3. QED
  BY <1>1, <1>2, TracesInvariance, PTL

\* Whatever inserts race, StackDepot::find() returns every trace that was stored,
\* until the ring has come round to it or another one took its place in the table.
THEOREM StoredAreFound == Spec => []StoredFound
<1>1. TP!StoredFound => StoredFound
  BY DEF StoredFound, T!StoredFound, TP!StoredFound, T!RoomFrom, TP!RoomFrom, T!Filled, TP!Filled,
         T!Last, TP!Last, T!find, TP!find, T!Marker, TP!Marker, T!NoTid, TP!NoTid, T!NoTrace, TP!NoTrace
<1>2. TP!BuffersAssumption /\ (TP!BuffersAssumption => (TP!Spec => []TP!StoredFound))
  BY BuffersExist, TP!StoredAreFound
<1>3. QED
  BY <1>1, <1>2, TracesInvariance, PTL

\* A use after free is reported as one before anything else, with the threads and
\* traces of the last deallocation of the stale pointer.
THEOREM FreedAreReported == Spec => []FreedIsReported
<1>1. TP!FreedIsReported => FreedIsReported
  BY ZenonT(60) DEF FreedIsReported, T!FreedIsReported, TP!FreedIsReported, T!WornNextTo, TP!WornNextTo,
               T!NoTid, TP!NoTid, T!NoTrace, TP!NoTrace, T!Null, TP!Null, T!Entry, TP!Entry, T!Marker, TP!Marker,
               T!find, TP!find, T!Report, TP!Report, T!Fault, TP!Fault, T!getErrorInfo, TP!getErrorInfo,
               T!getRingBufferErrorInfo, TP!getRingBufferErrorInfo, T!CheckEntry, TP!CheckEntry,
               T!Explains, TP!Explains, T!TypeOf, TP!TypeOf, T!NewestFirst, TP!NewestFirst,
               T!getInlineErrorInfo, TP!getInlineErrorInfo, T!CheckOneChunk, TP!CheckOneChunk,
               T!Distances, TP!Distances, T!Max, TP!Max, T!FoldLeft, TP!FoldLeft,
               T!MapThenFoldSet, TP!MapThenFoldSet
<1>2. TP!ReportsAssumption
  BY DEF TP!ReportsAssumption
<1>3. TP!BuffersAssumption /\ TP!ReportsAssumption => (TP!Spec => []TP!FreedIsReported)
  BY TP!FreedAreReported
<1>4. QED
  BY <1>1, <1>2, <1>3, BuffersExist, TracesInvariance, PTL
-----------------------------------------------------------------------------
(***************************************************************************)
(* The locks of the whole allocator, for any number of threads, TSDs and   *)
(* size classes.  Every lock has a level, and an operation that holds some *)
(* waits only for one of a higher level: shown once for every function     *)
(* that locks, from the functions it calls, over the tree of choices that  *)
(* it may take.  A thread is then orderly in every state, whatever others  *)
(* do, and the highest lock that is waited for is one whose owner goes on. *)
(***************************************************************************)
\* The registry has a TSD and there is a class.
LocksAssumption == NoThread \notin Threads /\ NumTSDs \in Nat \ {0} /\ NumClasses \in Nat \ {0}

\* The order in which locks are taken inside each other: the one of disable(), with
\* MutexTSDs before the TSDs and the buffers of a release behind everything.
Level(l) ==
  CASE l[1] = "Mutex" -> 0
    [] l[1] = "MutexTSDs" -> 1
    [] l[1] = "TSD" -> 1 + l[2]
    [] l[1] = "GlobalStats" -> NumTSDs + 2
    [] l[1] = "RecycleMutex" -> NumTSDs + 3
    [] l[1] = "CacheMutex" -> NumTSDs + 4
    [] l[1] = "MMLock" -> NumTSDs + 5 + 2 * (NumClasses - l[2])
    [] l[1] = "FLLock" -> NumTSDs + 6 + 2 * (NumClasses - l[2])
    [] l[1] = "MapAllocator" -> NumTSDs + 2 * NumClasses + 7
    [] l[1] = "MapAllocatorCache" -> NumTSDs + 2 * NumClasses + 8
    [] l[1] = "RingBufferInit" -> NumTSDs + 2 * NumClasses + 9
    [] l[1] = "RingEndMu" -> NumTSDs + 2 * NumClasses + 10
    [] l[1] = "BufferPool" -> NumTSDs + 2 * NumClasses + 11

\* The exclusive registry has one TSD with a lock.
UsedLocks(s) == L!Locks \ {L!TSDLock(i) : i \in L!RegistryTSDs(s) + 1 .. NumTSDs}

\* The locks of a thread: it takes a buffer only in a release.
Sound(s, H) == H \subseteq UsedLocks(s) /\ (L!Buffers \in H => \E c \in L!AllClasses : L!MM(c) \in H)

\* What disable() has taken when fork() comes.
ForkHeld(s) == UsedLocks(s) \ {L!MutexTSDs, L!Buffers}

IsSeq(a) == \E A : a \in Seq(A)

Above(H, n) == \A h \in H : Level(h) < n

\* A thread that holds H may go on with step x and then rest: it waits for locks in
\* their order, unlocks what it holds, and forks with enough. R says what it may do next.
Allowed(s, R, H, x, rest) ==
  /\ x.op = "lock" => Above(H, Level(x.lock)) /\ <<H \cup {x.lock}, rest>> \in R
  /\ x.op = "unlock" => x.lock \in H /\ <<H \ {x.lock}, rest>> \in R
  /\ x.op = "try" => <<H, rest>> \in R /\ (x.lock \notin H => <<H \cup {x.lock}, x.then \o rest>> \in R)
  /\ x.op = "choose" => \A a \in x.among : <<H, a \o rest>> \in R
  /\ x.op = "fork" => ForkHeld(s) \subseteq H /\ <<H, rest>> \in R

Closed(s, R) ==
  \A p \in R :
    /\ Sound(s, p[1]) /\ IsSeq(p[2])
    /\ IF p[2] = <<>> THEN p[1] = {} ELSE Allowed(s, R, p[1], Head(p[2]), Tail(p[2]))

\* A thread that holds H ends the steps of a in order and with nothing locked.
Orderly(s, H, a) == \E R : Closed(s, R) /\ <<H, a>> \in R

\* From H the steps of a lead to H2.
Leads(s, H, a, H2) ==
  IsSeq(a) /\ \A k : IsSeq(k) /\ Orderly(s, H2, k) => Orderly(s, H, a \o k)

LEMMA Concatenation ==
  ASSUME NEW a, NEW b, IsSeq(a), IsSeq(b)
  PROVE  /\ IsSeq(a \o b) /\ <<>> \o a = a /\ a \o <<>> = a
         /\ \A c : IsSeq(c) => (a \o b) \o c = a \o (b \o c)
<1>1. PICK E, F : a \in Seq(E) /\ b \in Seq(F)
  BY DEF IsSeq
<1>2. a \in Seq(E \cup F) /\ b \in Seq(E \cup F)
  BY <1>1
<1>3. a \o b \in Seq(E \cup F)
  BY <1>2
<1>4. <<>> \o a = a /\ a \o <<>> = a
  BY <1>1, ConcatEmptySeq
<1>5. ASSUME NEW c, IsSeq(c) PROVE (a \o b) \o c = a \o (b \o c)
  <2>1. PICK G : c \in Seq(G)
    BY <1>5 DEF IsSeq
  <2>2. a \in Seq(E \cup F \cup G) /\ b \in Seq(E \cup F \cup G) /\ c \in Seq(E \cup F \cup G)
    BY <1>1, <2>1
  <2>3. QED
    BY <2>2, ConcatAssociative
<1>6. QED
  BY <1>3, <1>4, <1>5, Zenon DEF IsSeq

LEMMA OneStep ==
  ASSUME NEW x, NEW k, IsSeq(k)
  PROVE  /\ IsSeq(<<x>>) /\ IsSeq(<<x>> \o k) /\ <<x>> \o k # <<>>
         /\ Head(<<x>> \o k) = x /\ Tail(<<x>> \o k) = k
<1>1. PICK E : k \in Seq(E)
  BY DEF IsSeq
<1>2. <<x>> \in Seq(E \cup {x}) /\ Len(<<x>>) = 1 /\ <<x>>[1] = x
  OBVIOUS
<1>3. k \in Seq(E \cup {x})
  BY <1>1
<1>4. PICK z : z = <<x>>
  OBVIOUS
<1>5. PICK y : y = z \o k
  OBVIOUS
<1>6. /\ y \in Seq(E \cup {x}) /\ Len(y) = 1 + Len(k)
      /\ \A i \in 1 .. 1 + Len(k) : y[i] = IF i <= 1 THEN z[i] ELSE k[i - 1]
  <2>1. /\ y \in Seq(E \cup {x}) /\ Len(y) = Len(z) + Len(k)
        /\ \A i \in 1 .. Len(z) + Len(k) : y[i] = IF i <= Len(z) THEN z[i] ELSE k[i - Len(z)]
    BY <1>2, <1>3, <1>4, <1>5, ConcatProperties, ZenonT(30)
  <2>2. QED
    BY <1>2, <1>4, <2>1
<1>7. y # <<>> /\ Head(y) = x
  BY <1>2, <1>3, <1>4, <1>6
<1>8. Tail(y) = k
  <2>1. Tail(y) \in Seq(E \cup {x}) /\ Len(Tail(y)) = Len(k) /\ \A i \in 1 .. Len(k) : Tail(y)[i] = y[i + 1]
    BY <1>3, <1>6, <1>7
  <2>2. \A i \in 1 .. Len(k) : y[i + 1] = k[i]
    BY <1>3, <1>6
  <2>3. QED
    BY <1>3, <2>1, <2>2, SeqEqual
<1>9. QED
  BY <1>2, <1>4, <1>5, <1>6, <1>7, <1>8, Zenon DEF IsSeq

LEMMA Associative ==
  ASSUME NEW a, NEW b, NEW c, IsSeq(a), IsSeq(b), IsSeq(c)
  PROVE  (a \o b) \o c = a \o (b \o c)
BY Concatenation

LEMMA ClosedGrows ==
  ASSUME NEW s, NEW R, NEW R2, NEW H, NEW x, NEW rest, Allowed(s, R, H, x, rest), R \subseteq R2
  PROVE  Allowed(s, R2, H, x, rest)
BY DEF Allowed

LEMMA ClosedUnion ==
  ASSUME NEW s, NEW F, \A R \in F : Closed(s, R)
  PROVE  Closed(s, UNION F)
<1>1. SUFFICES ASSUME NEW p \in UNION F
               PROVE  /\ Sound(s, p[1]) /\ IsSeq(p[2])
                      /\ IF p[2] = <<>> THEN p[1] = {} ELSE Allowed(s, UNION F, p[1], Head(p[2]), Tail(p[2]))
  BY Zenon DEF Closed
<1>2. PICK R \in F : p \in R
  BY Zenon
<1>3. /\ Sound(s, p[1]) /\ IsSeq(p[2])
      /\ IF p[2] = <<>> THEN p[1] = {} ELSE Allowed(s, R, p[1], Head(p[2]), Tail(p[2]))
  BY <1>2, Zenon DEF Closed
<1>4. R \subseteq UNION F
  BY Zenon
<1>5. Allowed(s, R, p[1], Head(p[2]), Tail(p[2])) => Allowed(s, UNION F, p[1], Head(p[2]), Tail(p[2]))
  BY <1>4, ClosedGrows, Zenon
<1>6. QED
  BY <1>3, <1>5, Zenon

\* A step that leads to an orderly end.
LEMMA StepOrderly ==
  ASSUME NEW s, NEW R, NEW H, NEW x, NEW k, IsSeq(k), Closed(s, R), Sound(s, H), Allowed(s, R, H, x, k)
  PROVE  Orderly(s, H, <<x>> \o k)
<1>1. PICK a : a = <<x>> \o k
  OBVIOUS
<1>2. IsSeq(a) /\ a # <<>> /\ Head(a) = x /\ Tail(a) = k
  BY <1>1, OneStep, Zenon
<1>3. PICK Q : Q = R \cup {<<H, a>>}
  OBVIOUS
<1>4. R \subseteq Q /\ <<H, a>> \in Q
  BY <1>3
<1>5. ASSUME NEW p \in Q
      PROVE  /\ Sound(s, p[1]) /\ IsSeq(p[2])
             /\ IF p[2] = <<>> THEN p[1] = {} ELSE Allowed(s, Q, p[1], Head(p[2]), Tail(p[2]))
  <2>1. CASE p \in R
    <3>1. /\ Sound(s, p[1]) /\ IsSeq(p[2])
          /\ IF p[2] = <<>> THEN p[1] = {} ELSE Allowed(s, R, p[1], Head(p[2]), Tail(p[2]))
      BY <2>1, Zenon DEF Closed
    <3>2. Allowed(s, R, p[1], Head(p[2]), Tail(p[2])) => Allowed(s, Q, p[1], Head(p[2]), Tail(p[2]))
      BY <1>4, ClosedGrows, Zenon
    <3>3. QED
      BY <3>1, <3>2, Zenon
  <2>2. CASE p = <<H, a>>
    <3>1. p[1] = H /\ p[2] = a
      BY <2>2
    <3>2. Allowed(s, Q, H, x, k)
      BY <1>4, ClosedGrows, Zenon
    <3>3. QED
      BY <1>2, <3>1, <3>2, Zenon
  <2>3. QED
    BY <1>3, <2>1, <2>2
<1>6. Closed(s, Q)
  BY <1>5, Zenon DEF Closed
<1>7. QED
  BY <1>1, <1>4, <1>6, Zenon DEF Orderly

LEMMA LeadsNowhere == ASSUME NEW s, NEW H PROVE Leads(s, H, <<>>, H)
<1>1. IsSeq(<<>>)
  <2>1. <<>> \in Seq({})
    OBVIOUS
  <2>2. QED
    BY <2>1, Zenon DEF IsSeq
<1>2. \A k : IsSeq(k) => <<>> \o k = k
  BY <1>1, Concatenation, Zenon
<1>3. QED
  BY <1>1, <1>2, Zenon DEF Leads

LEMMA LeadsOn ==
  ASSUME NEW s, NEW H, NEW a, NEW H2, NEW b, NEW H3, Leads(s, H, a, H2), Leads(s, H2, b, H3)
  PROVE  Leads(s, H, a \o b, H3)
<1>1. IsSeq(a) /\ IsSeq(b)
  BY Zenon DEF Leads
<1>2. IsSeq(a \o b) /\ \A k : IsSeq(k) => (a \o b) \o k = a \o (b \o k) /\ IsSeq(b \o k)
  <2>1. IsSeq(a \o b) /\ \A k : IsSeq(k) => (a \o b) \o k = a \o (b \o k)
    BY <1>1, Concatenation, Associative
  <2>2. ASSUME NEW k, IsSeq(k) PROVE IsSeq(b \o k)
    BY <1>1, <2>2, Concatenation, Zenon
  <2>3. QED
    BY <2>1, <2>2, Zenon
<1>3. ASSUME NEW k, IsSeq(k), Orderly(s, H3, k) PROVE Orderly(s, H, (a \o b) \o k)
  <2>1. Orderly(s, H2, b \o k)
    BY <1>3, Zenon DEF Leads
  <2>2. Orderly(s, H, a \o (b \o k))
    BY <1>2, <1>3, <2>1, Zenon DEF Leads
  <2>3. QED
    BY <1>2, <1>3, <2>2, Zenon
<1>4. QED
  BY <1>2, <1>3, Zenon DEF Leads

\* A step of any other kind than a choice, from what each k behind it needs.
LEMMA StepLeads ==
  ASSUME NEW s, NEW H, NEW x, NEW H2, Sound(s, H),
         \A k : IsSeq(k) /\ Orderly(s, H2, k) => \E R : Closed(s, R) /\ Allowed(s, R, H, x, k)
  PROVE  Leads(s, H, <<x>>, H2)
<1>1. IsSeq(<<x>>)
  <2>1. IsSeq(<<>>)
    BY LeadsNowhere, Zenon DEF Leads
  <2>2. QED
    BY <2>1, OneStep, Zenon
<1>2. ASSUME NEW k, IsSeq(k), Orderly(s, H2, k) PROVE Orderly(s, H, <<x>> \o k)
  BY <1>2, StepOrderly, Zenon
<1>3. QED
  BY <1>1, <1>2, Zenon DEF Leads

LEMMA LeadsLock ==
  ASSUME NEW s, NEW H, NEW l, Sound(s, H), Above(H, Level(l))
  PROVE  Leads(s, H, L!Does("lock", l), H \cup {l})
<1>1. PICK x : x = [op |-> "lock", lock |-> l]
  OBVIOUS
<1>2. x.op = "lock" /\ x.lock = l
  BY <1>1
<1>3. ASSUME NEW k, Orderly(s, H \cup {l}, k) PROVE \E R : Closed(s, R) /\ Allowed(s, R, H, x, k)
  <2>1. PICK R : Closed(s, R) /\ <<H \cup {l}, k>> \in R
    BY <1>3, Zenon DEF Orderly
  <2>2. Allowed(s, R, H, x, k)
    BY <1>2, <2>1 DEF Allowed
  <2>3. QED
    BY <2>1, <2>2, Zenon
<1>4. Leads(s, H, <<x>>, H \cup {l})
  BY <1>3, StepLeads, Zenon
<1>5. QED
  BY <1>1, <1>4, Zenon DEF L!Does

LEMMA LeadsUnlock ==
  ASSUME NEW s, NEW H, NEW l, Sound(s, H), l \in H
  PROVE  Leads(s, H, L!Does("unlock", l), H \ {l})
<1>1. PICK x : x = [op |-> "unlock", lock |-> l]
  OBVIOUS
<1>2. x.op = "unlock" /\ x.lock = l
  BY <1>1
<1>3. ASSUME NEW k, Orderly(s, H \ {l}, k) PROVE \E R : Closed(s, R) /\ Allowed(s, R, H, x, k)
  <2>1. PICK R : Closed(s, R) /\ <<H \ {l}, k>> \in R
    BY <1>3, Zenon DEF Orderly
  <2>2. Allowed(s, R, H, x, k)
    BY <1>2, <2>1 DEF Allowed
  <2>3. QED
    BY <2>1, <2>2, Zenon
<1>4. Leads(s, H, <<x>>, H \ {l})
  BY <1>3, StepLeads, Zenon
<1>5. QED
  BY <1>1, <1>4, Zenon DEF L!Does

LEMMA LeadsFork ==
  ASSUME NEW s, NEW H, Sound(s, H), ForkHeld(s) \subseteq H
  PROVE  Leads(s, H, <<[op |-> "fork"]>>, H)
<1>1. PICK x : x = [op |-> "fork"]
  OBVIOUS
<1>2. x.op = "fork"
  BY <1>1
<1>3. ASSUME NEW k, Orderly(s, H, k) PROVE \E R : Closed(s, R) /\ Allowed(s, R, H, x, k)
  <2>1. PICK R : Closed(s, R) /\ <<H, k>> \in R
    BY <1>3, Zenon DEF Orderly
  <2>2. Allowed(s, R, H, x, k)
    BY <1>2, <2>1 DEF Allowed
  <2>3. QED
    BY <2>1, <2>2, Zenon
<1>4. Leads(s, H, <<x>>, H)
  BY <1>3, StepLeads, Zenon
<1>5. QED
  BY <1>1, <1>4, Zenon

LEMMA LeadsTry ==
  ASSUME NEW s, NEW H, NEW l, NEW a, Sound(s, H), l \notin H => Leads(s, H \cup {l}, a, H)
  PROVE  Leads(s, H, L!Trying(l, a), H)
<1>1. PICK x : x = [op |-> "try", lock |-> l, then |-> a]
  OBVIOUS
<1>2. x.op = "try" /\ x.lock = l /\ x.then = a
  BY <1>1
<1>3. ASSUME NEW k, IsSeq(k), Orderly(s, H, k) PROVE \E R : Closed(s, R) /\ Allowed(s, R, H, x, k)
  <2>1. PICK R : Closed(s, R) /\ <<H, k>> \in R
    BY <1>3, Zenon DEF Orderly
  <2>2. CASE l \in H
    <3>1. Allowed(s, R, H, x, k)
      BY <1>2, <2>1, <2>2 DEF Allowed
    <3>2. QED
      BY <2>1, <3>1, Zenon
  <2>3. CASE l \notin H
    <3>1. Orderly(s, H \cup {l}, a \o k)
      BY <1>3, <2>3, Zenon DEF Leads
    <3>2. PICK Q : Closed(s, Q) /\ <<H \cup {l}, a \o k>> \in Q
      BY <3>1, Zenon DEF Orderly
    <3>3. Closed(s, UNION {R, Q})
      <4>1. \A P \in {R, Q} : Closed(s, P)
        BY <2>1, <3>2, Zenon
      <4>2. QED
        BY <4>1, ClosedUnion, Zenon
    <3>4. <<H, k>> \in UNION {R, Q} /\ <<H \cup {l}, a \o k>> \in UNION {R, Q}
      BY <2>1, <3>2
    <3>5. Allowed(s, UNION {R, Q}, H, x, k)
      BY <1>2, <3>4 DEF Allowed
    <3>6. QED
      BY <3>3, <3>5, Zenon
  <2>4. QED
    BY <2>2, <2>3
<1>4. Leads(s, H, <<x>>, H)
  BY <1>3, StepLeads, Zenon
<1>5. QED
  BY <1>1, <1>4, Zenon DEF L!Trying

LEMMA LeadsOneOf ==
  ASSUME NEW s, NEW H, NEW A, NEW H2, Sound(s, H), \A a \in A : Leads(s, H, a, H2)
  PROVE  Leads(s, H, L!OneOf(A), H2)
<1>1. PICK x : x = [op |-> "choose", among |-> A]
  OBVIOUS
<1>2. x.op = "choose" /\ x.among = A
  BY <1>1
<1>3. ASSUME NEW k, IsSeq(k), Orderly(s, H2, k) PROVE \E R : Closed(s, R) /\ Allowed(s, R, H, x, k)
  <2> DEFINE Of(a) == CHOOSE R : Closed(s, R) /\ <<H, a \o k>> \in R
  <2>1. ASSUME NEW a \in A PROVE Closed(s, Of(a)) /\ <<H, a \o k>> \in Of(a)
    <3>1. Orderly(s, H, a \o k)
      BY <1>3, Zenon DEF Leads
    <3>2. \E R : Closed(s, R) /\ <<H, a \o k>> \in R
      BY <3>1, Zenon DEF Orderly
    <3>3. QED
      BY <3>2, Zenon
  <2> HIDE DEF Of
  <2>2. PICK F : F = {Of(a) : a \in A}
    OBVIOUS
  <2>3. Closed(s, UNION F)
    <3>1. \A R \in F : Closed(s, R)
      BY <2>1, <2>2, Zenon
    <3>2. QED
      BY <3>1, ClosedUnion, Zenon
  <2>4. \A a \in A : <<H, a \o k>> \in UNION F
    BY <2>1, <2>2, Zenon
  <2>5. Allowed(s, UNION F, H, x, k)
    BY <1>2, <2>4 DEF Allowed
  <2>6. QED
    BY <2>3, <2>5, Zenon
<1>4. Leads(s, H, <<x>>, H2)
  BY <1>3, StepLeads, Zenon
<1>5. QED
  BY <1>1, <1>4, Zenon DEF L!OneOf

\* The levels of the locks.
LEMMA Levels ==
  ASSUME LocksAssumption
  PROVE  /\ Level(L!Registry) = 0 /\ Level(L!MutexTSDs) = 1
         /\ \A i \in L!TSDs : Level(L!TSDLock(i)) = 1 + i
         /\ Level(L!Stats) = NumTSDs + 2 /\ Level(L!Recycle) = NumTSDs + 3 /\ Level(L!QCache) = NumTSDs + 4
         /\ \A c \in L!AllClasses : /\ Level(L!MM(c)) = NumTSDs + 5 + 2 * (NumClasses - c)
                                    /\ Level(L!FL(c)) = NumTSDs + 6 + 2 * (NumClasses - c)
         /\ Level(L!Secondary) = NumTSDs + 2 * NumClasses + 7
         /\ Level(L!Cache) = NumTSDs + 2 * NumClasses + 8
         /\ Level(L!RingInit) = NumTSDs + 2 * NumClasses + 9
         /\ Level(L!Depot) = NumTSDs + 2 * NumClasses + 10
         /\ Level(L!Buffers) = NumTSDs + 2 * NumClasses + 11
<1> USE DEF L!Single
<1>1. Level(L!Registry) = 0 /\ Level(L!MutexTSDs) = 1 /\ \A i \in L!TSDs : Level(L!TSDLock(i)) = 1 + i
  BY DEF Level, L!Registry, L!MutexTSDs, L!TSDLock
<1>2. Level(L!Stats) = NumTSDs + 2 /\ Level(L!Recycle) = NumTSDs + 3 /\ Level(L!QCache) = NumTSDs + 4
  BY DEF Level, L!Stats, L!Recycle, L!QCache
<1>3. ASSUME NEW c \in L!AllClasses
      PROVE  /\ Level(L!MM(c)) = NumTSDs + 5 + 2 * (NumClasses - c)
             /\ Level(L!FL(c)) = NumTSDs + 6 + 2 * (NumClasses - c)
  BY DEF Level, L!MM, L!FL
<1>4. Level(L!Secondary) = NumTSDs + 2 * NumClasses + 7 /\ Level(L!Cache) = NumTSDs + 2 * NumClasses + 8
  BY DEF Level, L!Secondary, L!Cache
<1>5. /\ Level(L!RingInit) = NumTSDs + 2 * NumClasses + 9 /\ Level(L!Depot) = NumTSDs + 2 * NumClasses + 10
      /\ Level(L!Buffers) = NumTSDs + 2 * NumClasses + 11
  BY DEF Level, L!RingInit, L!Depot, L!Buffers
<1>6. QED
  BY <1>1, <1>2, <1>3, <1>4, <1>5

LEMMA LocksUsed ==
  ASSUME LocksAssumption, NEW s \in BOOLEAN
  PROVE  /\ \A i \in 1 .. L!RegistryTSDs(s) : L!TSDLock(i) \in UsedLocks(s) \ {L!Buffers}
         /\ \A c \in L!AllClasses : L!MM(c) \in UsedLocks(s) \ {L!Buffers} /\ L!FL(c) \in UsedLocks(s) \ {L!Buffers}
         /\ {L!Registry, L!MutexTSDs, L!Stats, L!Recycle, L!QCache, L!Secondary, L!Cache, L!RingInit, L!Depot}
              \subseteq UsedLocks(s) \ {L!Buffers}
         /\ L!Buffers \in UsedLocks(s)
         /\ \A l \in UsedLocks(s) : Level(l) \in Nat
<1> USE DEF L!Single, L!TSDLock, L!MM, L!FL, L!Registry, L!MutexTSDs, L!Stats, L!Recycle, L!QCache, L!Secondary,
            L!Cache, L!RingInit, L!Depot, L!Buffers
<1>1. L!RegistryTSDs(s) \in L!TSDs /\ L!TSDs = 1 .. NumTSDs
  BY DEF LocksAssumption, L!RegistryTSDs, L!TSDs
<1>2. ASSUME NEW i \in 1 .. L!RegistryTSDs(s) PROVE L!TSDLock(i) \in UsedLocks(s) \ {L!Buffers}
  <2>1. PICK r \in 1 .. NumTSDs : r = L!RegistryTSDs(s)
    BY <1>1
  <2>2. i \in L!TSDs /\ i \notin r + 1 .. NumTSDs
    BY <1>1, <2>1 DEF LocksAssumption
  <2>3. L!TSDLock(i) \in L!Locks \ {L!Buffers}
    BY <2>2 DEF L!Locks
  <2>4. \A j \in r + 1 .. NumTSDs : L!TSDLock(j) # L!TSDLock(i)
    BY <2>2
  <2>5. QED
    BY <2>1, <2>3, <2>4, Zenon DEF UsedLocks
<1>3. ASSUME NEW c \in L!AllClasses
      PROVE  L!MM(c) \in UsedLocks(s) \ {L!Buffers} /\ L!FL(c) \in UsedLocks(s) \ {L!Buffers}
  BY DEF UsedLocks, L!Locks
<1>4. /\ {L!Registry, L!MutexTSDs, L!Stats, L!Recycle, L!QCache, L!Secondary, L!Cache, L!RingInit, L!Depot}
           \subseteq UsedLocks(s) \ {L!Buffers}
      /\ L!Buffers \in UsedLocks(s)
  BY DEF UsedLocks, L!Locks
<1>5. ASSUME NEW l \in UsedLocks(s) PROVE Level(l) \in Nat
  <2>1. l \in L!Locks
    BY DEF UsedLocks
  <2>2. QED
    BY <2>1 DEF L!Locks, Level, LocksAssumption, L!TSDs, L!AllClasses
<1>6. QED
  BY <1>2, <1>3, <1>4, <1>5

\* A thread that holds K at least and nothing from level n on may do a, and then
\* holds what it held before.
Runs(s, K, n, a) ==
  IsSeq(a) /\ \A H : Sound(s, H) /\ K \subseteq H /\ Above(H, n) => Leads(s, H, a, H)

\* Where l is locked too, a unlocks it.
RunsOff(s, K, n, l, a) ==
  /\ IsSeq(a)
  /\ \A H : Sound(s, H) /\ Sound(s, H \cup {l}) /\ l \notin H /\ K \subseteq H /\ Above(H, n) =>
              Leads(s, H \cup {l}, a, H)

LEMMA RunsNothing == ASSUME NEW s, NEW K, NEW n PROVE Runs(s, K, n, L!Nothing)
BY LeadsNowhere, Zenon DEF Runs, Leads, L!Nothing

LEMMA RunsBoth ==
  ASSUME NEW s, NEW K, NEW n, NEW a, NEW b, Runs(s, K, n, a), Runs(s, K, n, b)
  PROVE  Runs(s, K, n, a \o b)
<1>1. IsSeq(a \o b)
  BY Concatenation, Zenon DEF Runs
<1>2. ASSUME NEW H, Sound(s, H), K \subseteq H, Above(H, n) PROVE Leads(s, H, a \o b, H)
  <2>1. Leads(s, H, a, H) /\ Leads(s, H, b, H)
    BY <1>2, Zenon DEF Runs
  <2>2. QED
    BY <2>1, LeadsOn, Zenon
<1>3. QED
  BY <1>1, <1>2, Zenon DEF Runs

LEMMA RunsOneOf ==
  ASSUME NEW s, NEW K, NEW n, NEW A, \A a \in A : Runs(s, K, n, a)
  PROVE  Runs(s, K, n, L!OneOf(A))
<1>1. IsSeq(L!OneOf(A))
  BY OneStep, LeadsNowhere, Zenon DEF L!OneOf, Leads
<1>2. ASSUME NEW H, Sound(s, H), K \subseteq H, Above(H, n) PROVE Leads(s, H, L!OneOf(A), H)
  <2>1. \A a \in A : Leads(s, H, a, H)
    BY <1>2, Zenon DEF Runs
  <2>2. QED
    BY <1>2, <2>1, LeadsOneOf, Zenon
<1>3. QED
  BY <1>1, <1>2, Zenon DEF Runs

LEMMA RunsMaybe ==
  ASSUME NEW s, NEW K, NEW n, NEW a, Runs(s, K, n, a)
  PROVE  Runs(s, K, n, L!Maybe(a))
<1>1. \A b \in {L!Nothing, a} : Runs(s, K, n, b)
  BY RunsNothing, Zenon
<1>2. QED
  BY <1>1, RunsOneOf, Zenon DEF L!Maybe

\* Steps until l is unlocked, then others.
LEMMA RunsUnlock ==
  ASSUME LocksAssumption, NEW s \in BOOLEAN, NEW K, NEW n \in Int, NEW l, NEW m \in Int, NEW a, NEW b,
         n <= Level(l), Level(l) < m, Runs(s, K \cup {l}, m, a), Runs(s, K, n, b)
  PROVE  RunsOff(s, K, n, l, a \o L!Does("unlock", l) \o b)
<1>1. IsSeq(a) /\ IsSeq(b) /\ IsSeq(L!Does("unlock", l))
  BY OneStep, LeadsNowhere, Zenon DEF Runs, L!Does, Leads
<1>2. IsSeq(a \o L!Does("unlock", l) \o b)
  BY <1>1, Concatenation, Zenon
<1>3. ASSUME NEW H, Sound(s, H), Sound(s, H \cup {l}), l \notin H, K \subseteq H, Above(H, n)
      PROVE  Leads(s, H \cup {l}, a \o L!Does("unlock", l) \o b, H)
  <2>1. \A h \in H \cup {l} : Level(h) \in Nat
    BY <1>3, LocksUsed, Zenon DEF Sound
  <2>2. Above(H \cup {l}, m)
    BY <1>3, <2>1 DEF Above
  <2>3. K \cup {l} \subseteq H \cup {l}
    BY <1>3
  <2>4. Leads(s, H \cup {l}, a, H \cup {l})
    BY <1>3, <2>2, <2>3, Zenon DEF Runs
  <2>5. (H \cup {l}) \ {l} = H /\ l \in H \cup {l}
    BY <1>3
  <2>6. Leads(s, H \cup {l}, L!Does("unlock", l), (H \cup {l}) \ {l})
    BY <1>3, <2>5, LeadsUnlock, Zenon
  <2>7. Leads(s, H, b, H)
    BY <1>3, Zenon DEF Runs
  <2>8. QED
    BY <2>4, <2>5, <2>6, <2>7, LeadsOn, Zenon
<1>4. QED
  BY <1>2, <1>3, Zenon DEF RunsOff

LEMMA SoundWith ==
  ASSUME NEW s, NEW H, NEW l, Sound(s, H), l \in UsedLocks(s),
         l = L!Buffers => \E c \in L!AllClasses : L!MM(c) \in H
  PROVE  Sound(s, H \cup {l})
BY DEF Sound

\* May be locked by who holds K.
Lockable(s, K, l) ==
  l \in UsedLocks(s) /\ (l = L!Buffers => \E c \in L!AllClasses : L!MM(c) \in K)

LEMMA RunsLock ==
  ASSUME LocksAssumption, NEW s \in BOOLEAN, NEW K, NEW n \in Int, NEW l, NEW a,
         Lockable(s, K, l), n <= Level(l), RunsOff(s, K, n, l, a)
  PROVE  Runs(s, K, n, L!Does("lock", l) \o a) /\ Runs(s, K, n, L!Trying(l, a))
<1>1. IsSeq(L!Does("lock", l)) /\ IsSeq(a) /\ IsSeq(L!Trying(l, a))
  BY OneStep, LeadsNowhere, Zenon DEF RunsOff, L!Does, L!Trying, Leads
<1>2. IsSeq(L!Does("lock", l) \o a)
  BY <1>1, Concatenation, Zenon
<1>3. ASSUME NEW H, Sound(s, H), K \subseteq H, Above(H, n)
      PROVE  Leads(s, H, L!Does("lock", l) \o a, H) /\ Leads(s, H, L!Trying(l, a), H)
  <2>1. \A h \in UsedLocks(s) : Level(h) \in Nat
    BY LocksUsed, Zenon
  <2>2. Above(H, Level(l)) /\ l \notin H
    BY <1>3, <2>1 DEF Above, Sound, Lockable
  <2>3. Sound(s, H \cup {l})
    <3>1. l = L!Buffers => \E c \in L!AllClasses : L!MM(c) \in H
      BY <1>3 DEF Lockable
    <3>2. QED
      BY <1>3, <3>1, SoundWith, Zenon DEF Lockable
  <2>4. Leads(s, H \cup {l}, a, H)
    BY <1>3, <2>2, <2>3, Zenon DEF RunsOff
  <2>5. Leads(s, H, L!Does("lock", l), H \cup {l})
    BY <1>3, <2>2, LeadsLock, Zenon
  <2>6. Leads(s, H, L!Does("lock", l) \o a, H)
    BY <2>4, <2>5, LeadsOn, Zenon
  <2>7. Leads(s, H, L!Trying(l, a), H)
    BY <1>3, <2>4, LeadsTry, Zenon
  <2>8. QED
    BY <2>6, <2>7
<1>4. QED
  BY <1>1, <1>2, <1>3, Zenon DEF Runs

LEMMA RunsHolding ==
  ASSUME LocksAssumption, NEW s \in BOOLEAN, NEW K, NEW n \in Int, NEW l, NEW m \in Int, NEW a,
         Lockable(s, K, l), n <= Level(l), Level(l) < m, Runs(s, K \cup {l}, m, a)
  PROVE  Runs(s, K, n, L!Holding(l, a))
<1>1. RunsOff(s, K, n, l, a \o L!Does("unlock", l) \o L!Nothing)
  BY RunsNothing, RunsUnlock, Zenon
<1>2. IsSeq(a) /\ IsSeq(L!Does("lock", l)) /\ IsSeq(L!Does("unlock", l)) /\ IsSeq(L!Nothing)
  BY OneStep, LeadsNowhere, Zenon DEF Runs, L!Does, Leads, L!Nothing
<1>3. IsSeq(a \o L!Does("unlock", l))
  BY <1>2, Concatenation, Zenon
<1>4. a \o L!Does("unlock", l) \o L!Nothing = a \o L!Does("unlock", l)
  BY <1>3, Concatenation, Zenon DEF L!Nothing
<1>5. Runs(s, K, n, L!Does("lock", l) \o (a \o L!Does("unlock", l)))
  BY <1>1, <1>4, RunsLock, Zenon
<1>6. L!Does("lock", l) \o a \o L!Does("unlock", l) = L!Does("lock", l) \o (a \o L!Does("unlock", l))
  BY <1>2, Associative, SMTT(30)
<1>7. QED
  BY <1>5, <1>6, Zenon DEF L!Holding

LEMMA RunsBriefly ==
  ASSUME LocksAssumption, NEW s \in BOOLEAN, NEW K, NEW n \in Int, NEW l, Lockable(s, K, l), n <= Level(l)
  PROVE  Runs(s, K, n, L!Briefly(l))
<1>1. Level(l) \in Nat
  BY LocksUsed, Zenon DEF Lockable
<1>2. Level(l) + 1 \in Int /\ Level(l) < Level(l) + 1
  BY <1>1
<1>3. QED
  BY <1>2, RunsHolding, RunsNothing, Zenon DEF L!Briefly

\* u is what a loop has put together, turn by turn.
Turns(u, body, from, to) ==
  u[from - 1] = L!Nothing /\ \A i \in from .. to : u[i] = u[i - 1] \o body[i]

LEMMA LoopTurns ==
  ASSUME NEW body, NEW from \in Int, NEW m \in Nat
  PROVE  \E u : Turns(u, body, from, from - 1 + m) /\ L!Loop(body, from, from - 1 + m) = u[from - 1 + m]
<1> DEFINE Is(u, j) == u = [i \in from - 1 .. from - 1 + j |-> IF i < from THEN L!Nothing ELSE u[i - 1] \o body[i]]
           P == {j \in Nat : \E u : Is(u, j)}
<1>1. 0 \in P
  <2>1. PICK u : u = [i \in from - 1 .. from - 1 |-> L!Nothing]
    OBVIOUS
  <2>2. u = [i \in from - 1 .. from - 1 + 0 |-> IF i < from THEN L!Nothing ELSE u[i - 1] \o body[i]]
    <3>1. from - 1 + 0 = from - 1 /\ \A i \in from - 1 .. from - 1 : i < from
      OBVIOUS
    <3>2. QED
      BY <2>1, <3>1
  <2>3. QED
    BY <2>2
<1>2. ASSUME NEW j \in Nat, j \in P PROVE j + 1 \in P
  <2>1. PICK u : Is(u, j)
    BY <1>2
  <2>2. PICK w : w = [i \in from - 1 .. from - 1 + (j + 1) |-> IF i < from THEN L!Nothing ELSE u[i - 1] \o body[i]]
    OBVIOUS
  <2>3. ASSUME NEW i \in from - 1 .. from - 1 + (j + 1), ~(i < from) PROVE w[i - 1] = u[i - 1]
    <3>1. i - 1 \in from - 1 .. from - 1 + j /\ i - 1 \in from - 1 .. from - 1 + (j + 1)
      BY <2>3
    <3>2. QED
      BY <2>1, <2>2, <3>1
  <2>4. Is(w, j + 1)
    BY <2>2, <2>3, Zenon
  <2>5. \E v : Is(v, j + 1)
    BY <2>4, Zenon
  <2>6. j + 1 \in Nat
    OBVIOUS
  <2> HIDE DEF Is
  <2>7. QED
    BY <2>5, <2>6
<1>3. Nat \subseteq P
  <2> HIDE DEF P
  <2>1. QED
    BY <1>1, <1>2, TP!Induction
<1>4. \E v : Is(v, m)
  <2> HIDE DEF Is
  <2>1. QED
    BY <1>3
<1>5. PICK to \in Int : to = from - 1 + m
  OBVIOUS
<1> DEFINE turns == CHOOSE u : u = [i \in from - 1 .. to |-> IF i < from THEN L!Nothing ELSE u[i - 1] \o body[i]]
<1>6. turns = [i \in from - 1 .. to |-> IF i < from THEN L!Nothing ELSE turns[i - 1] \o body[i]]
  <2>1. \E u : u = [i \in from - 1 .. to |-> IF i < from THEN L!Nothing ELSE u[i - 1] \o body[i]]
    BY <1>4, <1>5, Zenon
  <2>2. QED
    BY <2>1, Zenon
<1>7. L!Loop(body, from, to) = turns[to]
  BY Zenon DEF L!Loop
<1> HIDE DEF turns
<1>8. turns[from - 1] = L!Nothing
  <2>1. from - 1 \in from - 1 .. to /\ from - 1 < from
    BY <1>5
  <2>2. QED
    BY <1>6, <2>1, Zenon
<1>9. ASSUME NEW i \in from .. to PROVE turns[i] = turns[i - 1] \o body[i]
  <2>1. i \in from - 1 .. to /\ ~(i < from)
    BY <1>5
  <2>2. QED
    BY <1>6, <2>1, Zenon
<1>10. Turns(turns, body, from, to)
  BY <1>8, <1>9, Zenon DEF Turns
<1>11. QED
  BY <1>5, <1>7, <1>10, Zenon

LEMMA LeadsLoop ==
  ASSUME NEW s, NEW body, NEW from \in Int, NEW m \in Nat, NEW G,
         \A i \in from .. from - 1 + m : Leads(s, G[i - 1], body[i], G[i])
  PROVE  Leads(s, G[from - 1], L!Loop(body, from, from - 1 + m), G[from - 1 + m])
<1>1. PICK u : Turns(u, body, from, from - 1 + m) /\ L!Loop(body, from, from - 1 + m) = u[from - 1 + m]
  BY LoopTurns, Zenon
<1> DEFINE P == {j \in Nat : j <= m => Leads(s, G[from - 1], u[from - 1 + j], G[from - 1 + j])}
<1>2. 0 \in P
  <2>1. from - 1 + 0 = from - 1
    OBVIOUS
  <2>2. Leads(s, G[from - 1], u[from - 1], G[from - 1])
    BY <1>1, LeadsNowhere, Zenon DEF L!Nothing, Turns
  <2>3. QED
    BY <2>1, <2>2
<1>3. ASSUME NEW j \in Nat, j \in P PROVE j + 1 \in P
  <2>1. j + 1 \in Nat
    OBVIOUS
  <2>2. ASSUME j + 1 <= m PROVE Leads(s, G[from - 1], u[from - 1 + (j + 1)], G[from - 1 + (j + 1)])
    <3>1. PICK i \in from .. from - 1 + m : i = from - 1 + (j + 1) /\ i - 1 = from - 1 + j
      BY <2>2
    <3>2. j <= m
      BY <2>2
    <3>3. Leads(s, G[from - 1], u[i - 1], G[i - 1])
      BY <1>3, <3>1, <3>2
    <3>4. Leads(s, G[i - 1], body[i], G[i]) /\ u[i] = u[i - 1] \o body[i]
      BY <1>1, Zenon DEF Turns
    <3>5. Leads(s, G[from - 1], u[i], G[i])
      BY <3>3, <3>4, LeadsOn, Zenon
    <3>6. QED
      BY <3>1, <3>5
  <2>3. QED
    BY <2>1, <2>2
<1>4. Nat \subseteq P
  <2> HIDE DEF P
  <2>1. QED
    BY <1>2, <1>3, TP!Induction
<1>5. m \in P /\ m <= m
  BY <1>4
<1>6. Leads(s, G[from - 1], u[from - 1 + m], G[from - 1 + m])
  BY <1>5
<1>7. QED
  BY <1>1, <1>6, Zenon

LEMMA RunsLoop ==
  ASSUME NEW s, NEW K, NEW n, NEW body, NEW from \in Int, NEW to \in Int, to >= from - 1,
         \A i \in from .. to : Runs(s, K, n, body[i])
  PROVE  Runs(s, K, n, L!Loop(body, from, to))
<1>1. PICK m \in Nat : to = from - 1 + m
  <2>1. to - (from - 1) \in Nat /\ to = from - 1 + (to - (from - 1))
    OBVIOUS
  <2>2. QED
    BY <2>1
<1>2. ASSUME NEW H, \A i \in from .. to : Leads(s, H, body[i], H) PROVE Leads(s, H, L!Loop(body, from, to), H)
  <2>1. PICK G : G = [i \in from - 1 .. to |-> H]
    OBVIOUS
  <2>2. \A i \in from .. to : G[i - 1] = H /\ G[i] = H
    BY <2>1
  <2>3. G[from - 1] = H /\ G[to] = H
    BY <1>1, <2>1
  <2>4. \A i \in from .. to : Leads(s, G[i - 1], body[i], G[i])
    BY <1>2, <2>2, Zenon
  <2>5. Leads(s, G[from - 1], L!Loop(body, from, to), G[to])
    BY <1>1, <2>4, LeadsLoop, Zenon
  <2>6. QED
    BY <2>3, <2>5, Zenon
<1>3. IsSeq(L!Loop(body, from, to))
  <2>1. PICK u : Turns(u, body, from, from - 1 + m) /\ L!Loop(body, from, from - 1 + m) = u[from - 1 + m]
    BY LoopTurns, Zenon
  <2> DEFINE P == {j \in Nat : j <= m => IsSeq(u[from - 1 + j])}
  <2>2. 0 \in P
    <3>1. from - 1 + 0 = from - 1
      OBVIOUS
    <3>2. IsSeq(u[from - 1])
      BY <2>1, LeadsNowhere, Zenon DEF Leads, L!Nothing, Turns
    <3>3. QED
      BY <3>1, <3>2
  <2>3. ASSUME NEW j \in Nat, j \in P PROVE j + 1 \in P
    <3>1. j + 1 \in Nat
      OBVIOUS
    <3>2. ASSUME j + 1 <= m PROVE IsSeq(u[from - 1 + (j + 1)])
      <4>1. PICK i \in from .. from - 1 + m : i = from - 1 + (j + 1) /\ i - 1 = from - 1 + j
        BY <3>2
      <4>2. j <= m
        BY <3>2
      <4>3. IsSeq(u[i - 1])
        BY <2>3, <4>1, <4>2
      <4>4. IsSeq(body[i]) /\ u[i] = u[i - 1] \o body[i]
        BY <1>1, <2>1, <4>1, Zenon DEF Runs, Turns
      <4>5. IsSeq(u[i])
        BY <4>3, <4>4, Concatenation, Zenon
      <4>6. QED
        BY <4>1, <4>5
    <3>3. QED
      BY <3>1, <3>2
  <2>4. Nat \subseteq P
    <3> HIDE DEF P
    <3>1. QED
      BY <2>2, <2>3, TP!Induction
  <2>5. m \in P /\ m <= m
    BY <2>4
  <2>6. IsSeq(u[from - 1 + m])
    BY <2>5
  <2>7. QED
    BY <1>1, <2>1, <2>6, Zenon
<1>4. QED
  BY <1>2, <1>3, Zenon DEF Runs

\* The locks that anyone may take in their turn.
Free(s) == UsedLocks(s) \ {L!Buffers}

LEMMA FreeLocks ==
  ASSUME LocksAssumption, NEW s \in BOOLEAN
  PROVE  /\ \A i \in 1 .. L!RegistryTSDs(s) : L!TSDLock(i) \in Free(s)
         /\ \A c \in L!AllClasses : L!MM(c) \in Free(s) /\ L!FL(c) \in Free(s)
         /\ {L!Registry, L!MutexTSDs, L!Stats, L!Recycle, L!QCache, L!Secondary, L!Cache, L!RingInit, L!Depot}
              \subseteq Free(s)
         /\ \A l \in Free(s) : Level(l) \in Int /\ Level(l) + 1 \in Int /\ \A K : Lockable(s, K, l)
<1>1. \A l \in Free(s) : Level(l) \in Nat /\ \A K : Lockable(s, K, l)
  BY LocksUsed, Zenon DEF Free, Lockable
<1>2. QED
  BY <1>1, LocksUsed DEF Free

LEMMA RunsInside ==
  ASSUME LocksAssumption, NEW s \in BOOLEAN, NEW K, NEW n \in Int, NEW l \in Free(s), NEW a,
         n <= Level(l), Runs(s, K \cup {l}, Level(l) + 1, a)
  PROVE  Runs(s, K, n, L!Holding(l, a)) /\ Runs(s, K, n, L!Trying(l, a \o L!Does("unlock", l)))
<1>1. Level(l) \in Int /\ Level(l) + 1 \in Int /\ Level(l) < Level(l) + 1 /\ Lockable(s, K, l)
  BY FreeLocks
<1>2. Runs(s, K, n, L!Holding(l, a))
  BY <1>1, RunsHolding, Zenon
<1>3. RunsOff(s, K, n, l, a \o L!Does("unlock", l) \o L!Nothing)
  BY <1>1, RunsNothing, RunsUnlock, Zenon
<1>4. a \o L!Does("unlock", l) \o L!Nothing = a \o L!Does("unlock", l)
  <2>1. IsSeq(a) /\ IsSeq(L!Does("unlock", l)) /\ IsSeq(L!Nothing)
    BY OneStep, LeadsNowhere, Zenon DEF Runs, L!Does, Leads, L!Nothing
  <2>2. IsSeq(a \o L!Does("unlock", l))
    BY <2>1, Concatenation, Zenon
  <2>3. QED
    BY <2>1, <2>2, Concatenation, Zenon DEF L!Nothing
<1>5. Runs(s, K, n, L!Trying(l, a \o L!Does("unlock", l)))
  BY <1>1, <1>3, <1>4, RunsLock, Zenon
<1>6. QED
  BY <1>2, <1>5

LEMMA RunsShortly ==
  ASSUME LocksAssumption, NEW s \in BOOLEAN, NEW K, NEW n \in Int, NEW l \in Free(s), n <= Level(l)
  PROVE  Runs(s, K, n, L!Briefly(l))
BY FreeLocks, RunsBriefly, Zenon

LEMMA RunsBatchClass ==
  ASSUME LocksAssumption, NEW s \in BOOLEAN, NEW K, NEW n \in Int
  PROVE  /\ n <= Level(L!FL(0)) => Runs(s, K, n, L!pushBatchClassBlocks)
         /\ n <= Level(L!MM(0)) => Runs(s, K, n, L!popBatchClassBlocks)
<1>1. 0 \in L!AllClasses /\ L!MM(0) \in Free(s) /\ L!FL(0) \in Free(s)
  BY FreeLocks DEF L!AllClasses, LocksAssumption
<1>2. Level(L!FL(0)) = Level(L!MM(0)) + 1 /\ Level(L!MM(0)) \in Int
  BY <1>1, Levels, FreeLocks DEF LocksAssumption
<1>3. ASSUME n <= Level(L!FL(0)) PROVE Runs(s, K, n, L!pushBatchClassBlocks)
  BY <1>1, <1>3, RunsShortly, Zenon DEF L!pushBatchClassBlocks, L!BatchClassId
<1>4. ASSUME n <= Level(L!MM(0)) PROVE Runs(s, K, n, L!popBatchClassBlocks)
  <2>1. Level(L!MM(0)) + 1 \in Int /\ Level(L!MM(0)) + 1 <= Level(L!FL(0)) /\ n <= Level(L!FL(0))
    BY <1>2, <1>4
  <2>2. Runs(s, K \cup {L!MM(0)}, Level(L!MM(0)) + 1, L!Briefly(L!FL(0)))
    BY <1>1, <2>1, RunsShortly, Zenon
  <2>3. Runs(s, K \cup {L!MM(0)}, Level(L!MM(0)) + 1, L!Briefly(L!FL(0)) \o L!Maybe(L!Briefly(L!FL(0))))
    BY <2>2, RunsBoth, RunsMaybe, Zenon
  <2>4. Runs(s, K, n, L!Maybe(L!Holding(L!MM(0), L!Briefly(L!FL(0)) \o L!Maybe(L!Briefly(L!FL(0))))))
    BY <1>1, <1>4, <2>3, RunsInside, RunsMaybe, Zenon
  <2>5. Runs(s, K, n, L!Briefly(L!FL(0)))
    BY <1>1, <2>1, RunsShortly, Zenon
  <2>6. QED
    BY <2>4, <2>5, RunsBoth, Zenon DEF L!popBatchClassBlocks, L!BatchClassId
<1>5. QED
  BY <1>3, <1>4

\* What is known of the locks of a class that is not the batch class.
LEMMA ClassLocks ==
  ASSUME LocksAssumption, NEW s \in BOOLEAN, NEW c \in L!Classes
  PROVE  /\ L!MM(c) \in Free(s) /\ L!FL(c) \in Free(s) /\ Level(L!MM(c)) \in Int /\ Level(L!FL(c)) \in Int
         /\ NumTSDs + 5 <= Level(L!MM(c)) /\ Level(L!FL(c)) = Level(L!MM(c)) + 1
         /\ Level(L!FL(c)) + 1 \in Int /\ Level(L!FL(c)) + 1 <= Level(L!MM(0))
         /\ Level(L!FL(c)) + 1 <= Level(L!FL(0))
<1>1. c \in L!AllClasses /\ 0 \in L!AllClasses /\ c \in 1 .. NumClasses
  BY DEF L!AllClasses, L!Classes, LocksAssumption
<1>2. L!MM(c) \in Free(s) /\ L!FL(c) \in Free(s)
  BY <1>1, FreeLocks
<1>3. /\ Level(L!MM(c)) = NumTSDs + 5 + 2 * (NumClasses - c) /\ Level(L!FL(c)) = NumTSDs + 6 + 2 * (NumClasses - c)
      /\ Level(L!MM(0)) = NumTSDs + 5 + 2 * (NumClasses - 0) /\ Level(L!FL(0)) = NumTSDs + 6 + 2 * (NumClasses - 0)
  BY <1>1, Levels, Zenon
<1>4. QED
  BY <1>1, <1>2, <1>3 DEF LocksAssumption

LEMMA RunsClass ==
  ASSUME LocksAssumption, NEW s \in BOOLEAN, NEW K, NEW n \in Int, NEW c \in L!Classes
  PROVE  /\ n <= Level(L!FL(c)) => /\ Runs(s, K, n, L!pushBlocks(c)) /\ Runs(s, K, n, L!popBlocksImpl(c))
                                   /\ Runs(s, K, n, L!populateFreeListAndPopBlocks(c))
         /\ n <= Level(L!MM(c)) => Runs(s, K, n, L!popBlocks(c))
<1>1. ASSUME NEW J, NEW k \in Int, k <= Level(L!FL(c))
      PROVE  /\ Runs(s, J, k, L!pushBlocks(c)) /\ Runs(s, J, k, L!popBlocksImpl(c))
             /\ Runs(s, J, k, L!populateFreeListAndPopBlocks(c))
  <2>1. /\ Runs(s, J \cup {L!FL(c)}, Level(L!FL(c)) + 1, L!popBatchClassBlocks)
        /\ Runs(s, J \cup {L!FL(c)}, Level(L!FL(c)) + 1, L!pushBatchClassBlocks)
    BY ClassLocks, RunsBatchClass, Zenon
  <2>2. /\ Runs(s, J, k, L!Holding(L!FL(c), L!Maybe(L!popBatchClassBlocks)))
        /\ Runs(s, J, k, L!Holding(L!FL(c), L!Maybe(L!pushBatchClassBlocks)))
    BY <1>1, <2>1, ClassLocks, RunsInside, RunsMaybe, Zenon
  <2>3. QED
    BY <2>2, Zenon DEF L!pushBlocks, L!popBlocksImpl, L!populateFreeListAndPopBlocks
<1>2. ASSUME n <= Level(L!MM(c)) PROVE Runs(s, K, n, L!popBlocks(c))
  <2>1. /\ n <= Level(L!FL(c)) /\ Level(L!MM(c)) + 1 <= Level(L!FL(c)) /\ Level(L!MM(c)) + 1 \in Int
    BY <1>2, ClassLocks
  <2>2. /\ Runs(s, K \cup {L!MM(c)}, Level(L!MM(c)) + 1, L!popBlocksImpl(c))
        /\ Runs(s, K \cup {L!MM(c)}, Level(L!MM(c)) + 1, L!populateFreeListAndPopBlocks(c))
        /\ Runs(s, K, n, L!popBlocksImpl(c))
    BY <1>1, <2>1, Zenon
  <2>3. Runs(s, K \cup {L!MM(c)}, Level(L!MM(c)) + 1,
             L!popBlocksImpl(c) \o L!Maybe(L!populateFreeListAndPopBlocks(c)))
    BY <2>2, RunsBoth, RunsMaybe, Zenon
  <2>4. Runs(s, K, n, L!Maybe(L!Holding(L!MM(c), L!popBlocksImpl(c) \o L!Maybe(L!populateFreeListAndPopBlocks(c)))))
    BY <1>2, <2>3, ClassLocks, RunsInside, RunsMaybe, Zenon
  <2>5. QED
    BY <2>2, <2>4, RunsBoth, Zenon DEF L!popBlocks
<1>3. QED
  BY <1>1, <1>2, Zenon

\* A release, which its caller runs with MMLock of the class held.
LEMMA RunsRelease ==
  ASSUME LocksAssumption, NEW s \in BOOLEAN, NEW K, NEW n \in Int, NEW c \in L!Classes
  PROVE  /\ Runs(s, K \cup {L!MM(c)}, Level(L!MM(c)) + 1, L!releaseToOSMaybe(c))
         /\ n <= Level(L!MM(c)) => Runs(s, K, n, L!tryReleaseToOS(c))
<1>1. PICK J : J = K \cup {L!MM(c)}
  OBVIOUS
<1>2. PICK m \in Int : m = Level(L!MM(c)) + 1
  BY ClassLocks
<1>3. m <= Level(L!FL(c)) /\ m <= Level(L!Buffers)
  <2>1. Level(L!Buffers) = NumTSDs + 2 * NumClasses + 11 /\ Level(L!FL(0)) = NumTSDs + 6 + 2 * (NumClasses - 0)
    BY Levels DEF L!AllClasses, LocksAssumption
  <2>2. QED
    BY <1>2, <2>1, ClassLocks DEF LocksAssumption
<1>4. Runs(s, J, m, L!Briefly(L!FL(c)))
  BY <1>3, ClassLocks, RunsShortly, Zenon
<1>5. Runs(s, J, m, L!Briefly(L!Buffers))
  <2>1. Lockable(s, J, L!Buffers)
    <3>1. c \in L!AllClasses
      BY DEF L!AllClasses, L!Classes
    <3>2. QED
      BY <1>1, <3>1, LocksUsed DEF Lockable
  <2>2. QED
    BY <1>3, <2>1, RunsBriefly, Zenon
<1>6. Runs(s, J, m, L!Holding(L!FL(c), L!Maybe(L!pushBatchClassBlocks)))
  <2>1. Runs(s, J \cup {L!FL(c)}, Level(L!FL(c)) + 1, L!pushBatchClassBlocks)
    BY ClassLocks, RunsBatchClass, Zenon
  <2>2. QED
    BY <1>3, <2>1, ClassLocks, RunsInside, RunsMaybe, Zenon
<1>7. Runs(s, J, m, L!releaseToOSMaybe(c))
  <2>1. Runs(s, J, m, L!Briefly(L!Buffers) \o L!Holding(L!FL(c), L!Maybe(L!pushBatchClassBlocks)) \o L!Briefly(L!Buffers))
    BY <1>5, <1>6, RunsBoth, Zenon
  <2>2. QED
    BY <1>4, <2>1, RunsBoth, RunsMaybe, Zenon DEF L!releaseToOSMaybe
<1>8. ASSUME n <= Level(L!MM(c)) PROVE Runs(s, K, n, L!tryReleaseToOS(c))
  BY <1>1, <1>2, <1>7, <1>8, ClassLocks, RunsInside, Zenon DEF L!tryReleaseToOS
<1>9. QED
  BY <1>1, <1>2, <1>7, <1>8, Zenon

\* Loops over the classes.
LEMMA RunsPrimary ==
  ASSUME LocksAssumption, NEW s \in BOOLEAN, NEW K, NEW n \in Int, n <= NumTSDs + 5
  PROVE  /\ Runs(s, K, n, L!PrimaryReleaseToOS) /\ Runs(s, K, n, L!PrimaryGetStats)
         /\ Runs(s, K, n, L!getFragmentationInfo)
<1>1. /\ 1 \in Int /\ 0 \in Int /\ NumClasses \in Int /\ NumClasses >= 1 - 1 /\ NumClasses >= 0 - 1
      /\ 1 .. NumClasses = L!Classes /\ 0 .. NumClasses = L!AllClasses /\ L!Classes \subseteq L!AllClasses
  BY DEF LocksAssumption, L!Classes, L!AllClasses
<1>2. ASSUME NEW c \in L!Classes
      PROVE  /\ Runs(s, K, n, L!Holding(L!MM(c), L!releaseToOSMaybe(c)))
             /\ Runs(s, K, n, L!Holding(L!MM(c), L!releaseToOSMaybe(c) \o L!Briefly(L!FL(c))))
  <2>1. n <= Level(L!MM(c)) /\ Level(L!MM(c)) + 1 <= Level(L!FL(c)) /\ Level(L!MM(c)) + 1 \in Int
    BY ClassLocks DEF LocksAssumption
  <2>2. /\ Runs(s, K \cup {L!MM(c)}, Level(L!MM(c)) + 1, L!releaseToOSMaybe(c))
        /\ Runs(s, K \cup {L!MM(c)}, Level(L!MM(c)) + 1, L!Briefly(L!FL(c)))
    BY <2>1, ClassLocks, RunsRelease, RunsShortly, Zenon
  <2>3. Runs(s, K \cup {L!MM(c)}, Level(L!MM(c)) + 1, L!releaseToOSMaybe(c) \o L!Briefly(L!FL(c)))
    BY <2>2, RunsBoth, Zenon
  <2>4. QED
    BY <2>1, <2>2, <2>3, ClassLocks, RunsInside, Zenon
<1>3. ASSUME NEW c \in L!AllClasses
      PROVE  /\ Runs(s, K, n, L!Briefly(L!MM(c)) \o L!Briefly(L!FL(c)))
             /\ Runs(s, K, n, L!Holding(L!MM(c), L!Briefly(L!FL(c))))
  <2>1. /\ L!MM(c) \in Free(s) /\ L!FL(c) \in Free(s)
        /\ Level(L!MM(c)) = NumTSDs + 5 + 2 * (NumClasses - c) /\ Level(L!FL(c)) = NumTSDs + 6 + 2 * (NumClasses - c)
    BY FreeLocks, Levels, Zenon
  <2>2. c \in 0 .. NumClasses
    BY DEF L!AllClasses
  <2>3. /\ n <= Level(L!MM(c)) /\ n <= Level(L!FL(c))
        /\ Level(L!MM(c)) + 1 <= Level(L!FL(c)) /\ Level(L!MM(c)) + 1 \in Int
    BY <2>1, <2>2 DEF LocksAssumption
  <2>4. /\ Runs(s, K \cup {L!MM(c)}, Level(L!MM(c)) + 1, L!Briefly(L!FL(c)))
        /\ Runs(s, K, n, L!Briefly(L!FL(c))) /\ Runs(s, K, n, L!Briefly(L!MM(c)))
    BY <2>1, <2>3, RunsShortly, Zenon
  <2>5. QED
    BY <2>1, <2>3, <2>4, RunsBoth, RunsInside, Zenon
<1>4. Runs(s, K, n, L!PrimaryReleaseToOS)
  <2>1. PICK body : body = [c \in L!Classes |-> L!Holding(L!MM(c), L!releaseToOSMaybe(c))]
    OBVIOUS
  <2>2. \A c \in 1 .. NumClasses : Runs(s, K, n, body[c])
    BY <1>1, <1>2, <2>1, Zenon
  <2>3. Runs(s, K, n, L!Loop(body, 1, NumClasses))
    BY <1>1, <2>2, RunsLoop, Zenon
  <2>4. QED
    BY <2>1, <2>3, Zenon DEF L!PrimaryReleaseToOS
<1>5. Runs(s, K, n, L!getFragmentationInfo)
  <2>1. PICK body : body = [c \in L!Classes |-> L!Holding(L!MM(c), L!releaseToOSMaybe(c) \o L!Briefly(L!FL(c)))]
    OBVIOUS
  <2>2. \A c \in 1 .. NumClasses : Runs(s, K, n, body[c])
    BY <1>1, <1>2, <2>1, Zenon
  <2>3. Runs(s, K, n, L!Loop(body, 1, NumClasses))
    BY <1>1, <2>2, RunsLoop, Zenon
  <2>4. QED
    BY <2>1, <2>3, Zenon DEF L!getFragmentationInfo
<1>6. Runs(s, K, n, L!PrimaryGetStats)
  <2>1. PICK b1 : b1 = [c \in L!AllClasses |-> L!Briefly(L!MM(c)) \o L!Briefly(L!FL(c))]
    OBVIOUS
  <2>2. PICK b2 : b2 = [c \in L!AllClasses |-> L!Holding(L!MM(c), L!Briefly(L!FL(c)))]
    OBVIOUS
  <2>3. \A c \in 0 .. NumClasses : Runs(s, K, n, b1[c]) /\ Runs(s, K, n, b2[c])
    BY <1>1, <1>3, <2>1, <2>2, Zenon
  <2>4. Runs(s, K, n, L!Loop(b1, 0, NumClasses)) /\ Runs(s, K, n, L!Loop(b2, 0, NumClasses))
    BY <1>1, <2>3, RunsLoop, Zenon
  <2>5. QED
    BY <2>1, <2>2, <2>4, RunsBoth, Zenon DEF L!PrimaryGetStats
<1>7. QED
  BY <1>4, <1>5, <1>6

\* The local caches and the quarantine.
LEMMA RunsCache ==
  ASSUME LocksAssumption, NEW s \in BOOLEAN, NEW K, NEW n \in Int, n <= NumTSDs + 5
  PROVE  /\ \A c \in L!Classes : Runs(s, K, n, L!cacheAllocate(c)) /\ Runs(s, K, n, L!cacheDeallocate(c))
         /\ Runs(s, K, n, L!cacheDrain) /\ Runs(s, K, n, L!doRecycle)
<1>1. ASSUME NEW c \in L!Classes
      PROVE  Runs(s, K, n, L!cacheAllocate(c)) /\ Runs(s, K, n, L!cacheDeallocate(c))
  <2>1. n <= Level(L!MM(c)) /\ n <= Level(L!FL(c))
    BY ClassLocks DEF LocksAssumption
  <2>2. QED
    BY <2>1, RunsClass, RunsMaybe, Zenon DEF L!cacheAllocate, L!cacheDeallocate
<1>2. /\ 1 \in Int /\ NumClasses \in Int /\ NumClasses >= 1 - 1 /\ 1 .. NumClasses = L!Classes /\ 1 \in L!Classes
  BY DEF LocksAssumption, L!Classes
<1>3. Runs(s, K, n, L!cacheDrain)
  <2>1. PICK body : body = [c \in L!Classes |-> L!cacheDeallocate(c)]
    OBVIOUS
  <2>2. \A c \in 1 .. NumClasses : Runs(s, K, n, body[c])
    BY <1>1, <1>2, <2>1, Zenon
  <2>3. Runs(s, K, n, L!Loop(body, 1, NumClasses))
    BY <1>2, <2>2, RunsLoop, Zenon
  <2>4. n <= Level(L!FL(0))
    <3>1. /\ NumTSDs + 5 <= Level(L!MM(1)) /\ Level(L!FL(1)) = Level(L!MM(1)) + 1 /\ Level(L!MM(1)) \in Int
          /\ Level(L!FL(1)) + 1 <= Level(L!FL(0))
      BY <1>2, ClassLocks, Zenon
    <3>2. Level(L!FL(0)) \in Int
      BY FreeLocks DEF L!AllClasses, LocksAssumption
    <3>3. QED
      BY <3>1, <3>2 DEF LocksAssumption
  <2>5. Runs(s, K, n, L!Maybe(L!pushBatchClassBlocks))
    BY <2>4, RunsBatchClass, RunsMaybe, Zenon
  <2>6. QED
    BY <2>1, <2>3, <2>5, RunsBoth, Zenon DEF L!cacheDrain
<1>4. Runs(s, K, n, L!doRecycle)
  BY <1>1, <1>2, Zenon DEF L!doRecycle
<1>5. QED
  BY <1>1, <1>3, <1>4

LEMMA RunsQuarantine ==
  ASSUME LocksAssumption, NEW s \in BOOLEAN, NEW K, NEW n \in Int, n <= NumTSDs + 3
  PROVE  Runs(s, K, n, L!drain) /\ Runs(s, K, n, L!drainAndRecycle) /\ Runs(s, K, n, L!put)
<1>1. /\ L!Recycle \in Free(s) /\ L!QCache \in Free(s)
      /\ Level(L!Recycle) = NumTSDs + 3 /\ Level(L!QCache) = NumTSDs + 4
  BY FreeLocks, Levels, Zenon
<1>2. /\ n <= Level(L!Recycle) /\ n <= Level(L!QCache) /\ n <= NumTSDs + 5 /\ Level(L!Recycle) \in Int
      /\ Level(L!Recycle) < NumTSDs + 4 /\ NumTSDs + 4 \in Int /\ NumTSDs + 4 <= Level(L!QCache)
  BY <1>1 DEF LocksAssumption
<1>3. Runs(s, K, n, L!Briefly(L!QCache)) /\ Runs(s, K \cup {L!Recycle}, NumTSDs + 4, L!Briefly(L!QCache))
  BY <1>1, <1>2, RunsShortly, Zenon
<1>4. RunsOff(s, K, n, L!Recycle, L!recycle)
  <2>1. Runs(s, K, n, L!doRecycle)
    BY <1>2, RunsCache, Zenon
  <2>2. QED
    BY <1>2, <1>3, <2>1, RunsUnlock, Zenon DEF L!recycle
<1>5. Runs(s, K, n, L!Does("lock", L!Recycle) \o L!recycle) /\ Runs(s, K, n, L!Trying(L!Recycle, L!recycle))
  BY <1>1, <1>2, <1>4, FreeLocks, RunsLock, Zenon
<1>6. Runs(s, K, n, L!drain)
  BY <1>3, <1>5, RunsBoth, RunsMaybe, Zenon DEF L!drain
<1>7. Runs(s, K, n, L!drainAndRecycle)
  <2>1. Runs(s, K, n, L!Briefly(L!QCache) \o (L!Does("lock", L!Recycle) \o L!recycle))
    BY <1>3, <1>5, RunsBoth, Zenon
  <2>2. IsSeq(L!Briefly(L!QCache)) /\ IsSeq(L!recycle) /\ IsSeq(L!Does("lock", L!Recycle))
    BY <1>3, <1>4, OneStep, LeadsNowhere, Zenon DEF Runs, RunsOff, L!Does, Leads
  <2>3. L!Briefly(L!QCache) \o L!Does("lock", L!Recycle) \o L!recycle
          = L!Briefly(L!QCache) \o (L!Does("lock", L!Recycle) \o L!recycle)
    BY <2>2, Associative, SMTT(30)
  <2>4. QED
    BY <2>1, <2>3, Zenon DEF L!drainAndRecycle
<1>8. Runs(s, K, n, L!put)
  <2>1. 1 \in L!Classes
    BY DEF L!Classes, LocksAssumption
  <2>2. Runs(s, K, n, L!cacheAllocate(1))
    BY <1>2, <2>1, RunsCache, Zenon
  <2>3. QED
    BY <1>6, <2>2, RunsBoth, RunsMaybe, Zenon DEF L!put
<1>9. QED
  BY <1>6, <1>7, <1>8

\* The locks of the registries, and what is done behind them.
LEMMA TSDLocks ==
  ASSUME LocksAssumption
  PROVE  /\ \A i \in L!TSDs : /\ 2 <= Level(L!TSDLock(i)) /\ Level(L!TSDLock(i)) \in Int
                              /\ Level(L!TSDLock(i)) + 1 \in Int /\ Level(L!TSDLock(i)) + 1 <= NumTSDs + 2
                              /\ L!TSDLock(i) \in Free(TRUE)
         /\ 1 \in L!TSDs /\ 1 .. NumTSDs = L!TSDs /\ \A s \in BOOLEAN : L!TSDLock(1) \in Free(s)
<1>1. 1 \in L!TSDs /\ 1 .. NumTSDs = L!TSDs
  BY DEF LocksAssumption, L!TSDs
<1>2. \A i \in L!TSDs : L!TSDLock(i) \in Free(TRUE)
  BY <1>1, FreeLocks, Zenon DEF L!RegistryTSDs
<1>3. \A s \in BOOLEAN : L!TSDLock(1) \in Free(s)
  <2>1. \A s \in BOOLEAN : 1 \in 1 .. L!RegistryTSDs(s)
    BY DEF LocksAssumption, L!RegistryTSDs
  <2>2. QED
    BY <2>1, FreeLocks, Zenon
<1>4. ASSUME NEW i \in L!TSDs
      PROVE  /\ 2 <= Level(L!TSDLock(i)) /\ Level(L!TSDLock(i)) \in Int
             /\ Level(L!TSDLock(i)) + 1 \in Int /\ Level(L!TSDLock(i)) + 1 <= NumTSDs + 2
  <2>1. Level(L!TSDLock(i)) = 1 + i
    BY Levels, Zenon
  <2>2. i \in 1 .. NumTSDs
    BY DEF L!TSDs
  <2>3. QED
    BY <2>1, <2>2 DEF LocksAssumption
<1>5. QED
  BY <1>1, <1>2, <1>3, <1>4

LEMMA RunsScopedTSD ==
  ASSUME LocksAssumption, NEW s \in BOOLEAN, NEW K, NEW n \in Int, n <= 1, NEW a,
         \A J : \A m \in Int : m <= NumTSDs + 2 => Runs(s, J, m, a)
  PROVE  Runs(s, K, n, L!ScopedTSD(s, a))
<1>1. ASSUME NEW i \in L!TSDs, L!TSDLock(i) \in Free(s) PROVE Runs(s, K, n, L!Holding(L!TSDLock(i), a))
  <2>1. n <= Level(L!TSDLock(i))
    <3>1. 2 <= Level(L!TSDLock(i)) /\ Level(L!TSDLock(i)) \in Int
      BY TSDLocks, Zenon
    <3>2. QED
      BY <3>1
  <2>2. Runs(s, K \cup {L!TSDLock(i)}, Level(L!TSDLock(i)) + 1, a)
    BY TSDLocks, Zenon
  <2>3. QED
    BY <1>1, <2>1, <2>2, RunsInside, Zenon
<1>2. CASE s
  <2>1. s = TRUE
    BY <1>2, Zenon
  <2>2. \A b \in {L!Holding(L!TSDLock(i), a) : i \in L!TSDs} : Runs(s, K, n, b)
    BY <1>1, <2>1, TSDLocks, Zenon
  <2>3. Runs(s, K, n, L!OneOf({L!Holding(L!TSDLock(i), a) : i \in L!TSDs}))
    BY <2>2, RunsOneOf, Zenon
  <2>4. n <= Level(L!MutexTSDs) /\ L!MutexTSDs \in Free(s)
    BY Levels, FreeLocks
  <2>5. Runs(s, K, n, L!Maybe(L!Briefly(L!MutexTSDs)))
    BY <2>4, RunsShortly, RunsMaybe, Zenon
  <2>6. QED
    BY <1>2, <2>3, <2>5, RunsBoth, Zenon DEF L!ScopedTSD
<1>3. CASE ~s
  <2>1. n <= NumTSDs + 2
    BY DEF LocksAssumption
  <2>2. \A b \in {a, L!Holding(L!TSDLock(1), a)} : Runs(s, K, n, b)
    BY <1>1, <2>1, TSDLocks, Zenon
  <2>3. QED
    BY <1>3, <2>2, RunsOneOf, Zenon DEF L!ScopedTSD
<1>4. QED
  BY <1>2, <1>3, Zenon

\* The registries.
LEMMA RunsRegistry ==
  ASSUME LocksAssumption, NEW s \in BOOLEAN, NEW K, NEW n \in Int, n <= 1
  PROVE  /\ Runs(s, K, n, L!drainCaches(s)) /\ Runs(s, K, n, L!RegistryGetStats(s))
         /\ Runs(s, K, n, L!RegistrySetOption(s)) /\ Runs(s, K, n, L!commitBack)
         /\ n <= 0 => Runs(s, K, n, L!initThread(s))
<1>1. /\ L!MutexTSDs \in Free(s) /\ L!Registry \in Free(s) /\ L!Stats \in Free(s)
      /\ Level(L!MutexTSDs) = 1 /\ Level(L!Registry) = 0 /\ Level(L!Stats) = NumTSDs + 2
  BY FreeLocks, Levels, Zenon
<1>2. /\ n <= NumTSDs + 3 /\ n <= NumTSDs + 5 /\ n <= Level(L!MutexTSDs) /\ n <= Level(L!Stats)
      /\ Level(L!MutexTSDs) + 1 = 2 /\ 2 \in Int /\ Level(L!Registry) + 1 = 1 /\ 1 \in Int
      /\ 1 <= Level(L!MutexTSDs) /\ 1 <= Level(L!Stats)
  BY <1>1 DEF LocksAssumption
<1>3. /\ 1 \in Int /\ NumTSDs \in Int /\ NumTSDs >= 1 - 1
  BY DEF LocksAssumption
<1>4. ASSUME NEW J, NEW m \in Int, m <= NumTSDs + 2 PROVE Runs(s, J, m, L!drainCache)
  <2>1. m <= NumTSDs + 3 /\ m <= NumTSDs + 5
    BY <1>4 DEF LocksAssumption
  <2>2. QED
    BY <2>1, RunsQuarantine, RunsCache, RunsBoth, Zenon DEF L!drainCache
<1>5. ASSUME NEW J, NEW m \in Int, NEW i \in L!TSDs, L!TSDLock(i) \in Free(s), m <= 2
      PROVE  Runs(s, J, m, L!Holding(L!TSDLock(i), L!drainCache)) /\ Runs(s, J, m, L!Briefly(L!TSDLock(i)))
  <2>1. m <= Level(L!TSDLock(i))
    <3>1. 2 <= Level(L!TSDLock(i)) /\ Level(L!TSDLock(i)) \in Int
      BY TSDLocks, Zenon
    <3>2. QED
      BY <1>5, <3>1
  <2>2. Runs(s, J \cup {L!TSDLock(i)}, Level(L!TSDLock(i)) + 1, L!drainCache)
    BY <1>4, TSDLocks, Zenon
  <2>3. QED
    BY <1>5, <2>1, <2>2, RunsInside, RunsShortly, Zenon
<1>6. Runs(s, K, n, L!commitBack)
  <2>1. Runs(s, K, n, L!drain) /\ Runs(s, K, n, L!cacheDrain) /\ Runs(s, K, n, L!Briefly(L!Stats))
    BY <1>1, <1>2, RunsQuarantine, RunsCache, RunsShortly, Zenon
  <2>2. QED
    BY <2>1, RunsBoth, Zenon DEF L!commitBack
<1>7. CASE s
  <2>1. s = TRUE
    BY <1>7, Zenon
  <2>2. PICK b1 : b1 = [i \in L!TSDs |-> L!Holding(L!TSDLock(i), L!drainCache)]
    OBVIOUS
  <2>3. PICK b2 : b2 = [i \in L!TSDs |-> L!Briefly(L!TSDLock(i))]
    OBVIOUS
  <2>4. 2 <= 2
    OBVIOUS
  <2>5. \A i \in 1 .. NumTSDs : Runs(s, K \cup {L!MutexTSDs}, 2, b1[i]) /\ Runs(s, K \cup {L!MutexTSDs}, 2, b2[i])
    BY <1>2, <1>5, <2>1, <2>2, <2>3, <2>4, TSDLocks, Zenon
  <2>6. /\ Runs(s, K \cup {L!MutexTSDs}, 2, L!Loop(b1, 1, NumTSDs))
        /\ Runs(s, K \cup {L!MutexTSDs}, 2, L!Loop(b2, 1, NumTSDs))
    BY <1>3, <2>5, RunsLoop, Zenon
  <2>7. Runs(s, K, n, L!drainCaches(s)) /\ Runs(s, K, n, L!RegistryGetStats(s))
    BY <1>1, <1>2, <1>7, <2>2, <2>3, <2>6, RunsInside, Zenon DEF L!drainCaches, L!RegistryGetStats
  <2>8. Runs(s, K, n, L!RegistrySetOption(s))
    BY <1>1, <1>2, <1>7, RunsShortly, Zenon DEF L!RegistrySetOption
  <2>9. ASSUME n <= 0 PROVE Runs(s, K, n, L!initThread(s))
    <3>1. n <= Level(L!Registry)
      BY <1>1, <2>9
    <3>2. /\ Runs(s, K \cup {L!Registry}, 1, L!Briefly(L!Stats))
          /\ Runs(s, K \cup {L!Registry}, 1, L!Briefly(L!MutexTSDs))
      BY <1>1, <1>2, RunsShortly, Zenon
    <3>3. Runs(s, K \cup {L!Registry}, 1, L!Maybe(L!Briefly(L!Stats) \o L!Briefly(L!MutexTSDs)))
      BY <3>2, RunsBoth, RunsMaybe, Zenon
    <3>4. QED
      BY <1>1, <1>2, <1>7, <3>1, <3>3, RunsInside, Zenon DEF L!initThread
  <2>10. QED
    BY <1>6, <2>7, <2>8, <2>9, Zenon
<1>8. CASE ~s
  <2>1. n <= NumTSDs + 2 /\ n <= 2
    BY DEF LocksAssumption
  <2>2. Runs(s, K, n, L!Holding(L!TSDLock(1), L!drainCache)) /\ Runs(s, K, n, L!drainCache)
    BY <1>4, <1>5, <2>1, TSDLocks, Zenon
  <2>3. Runs(s, K, n, L!drainCaches(s))
    BY <1>8, <2>2, RunsBoth, Zenon DEF L!drainCaches
  <2>4. Runs(s, K, n, L!RegistryGetStats(s)) /\ Runs(s, K, n, L!RegistrySetOption(s))
    BY <1>8, RunsNothing, Zenon DEF L!RegistryGetStats, L!RegistrySetOption
  <2>5. ASSUME n <= 0 PROVE Runs(s, K, n, L!initThread(s))
    <3>1. n <= Level(L!Registry)
      BY <1>1, <2>5
    <3>2. Runs(s, K \cup {L!Registry}, 1, L!Briefly(L!Stats)) /\ Runs(s, K, n, L!Briefly(L!Stats))
      BY <1>1, <1>2, RunsShortly, Zenon
    <3>3. Runs(s, K, n, L!Holding(L!Registry, L!Maybe(L!Briefly(L!Stats))))
      BY <1>1, <1>2, <3>1, <3>2, RunsMaybe, RunsInside, Zenon
    <3>4. QED
      BY <1>8, <3>2, <3>3, RunsBoth, RunsMaybe, Zenon DEF L!initThread
  <2>6. QED
    BY <1>6, <2>3, <2>4, <2>5, Zenon
<1>9. QED
  BY <1>7, <1>8, Zenon

\* The Secondary and the ring buffer.
LEMMA RunsSecondary ==
  ASSUME LocksAssumption, NEW s \in BOOLEAN, NEW K, NEW n \in Int, n <= NumTSDs + 5
  PROVE  /\ Runs(s, K, n, L!SecondaryAllocate) /\ Runs(s, K, n, L!SecondaryDeallocate)
         /\ Runs(s, K, n, L!insertStack) /\ Runs(s, K, n, L!initRingBufferMaybe)
         /\ Runs(s, K, n, L!Briefly(L!Cache)) /\ Runs(s, K, n, L!Briefly(L!Secondary))
         /\ Runs(s, K, n, L!Holding(L!Secondary, L!Briefly(L!Cache)))
<1>1. /\ L!Secondary \in Free(s) /\ L!Cache \in Free(s) /\ L!RingInit \in Free(s) /\ L!Depot \in Free(s)
      /\ Level(L!Secondary) = NumTSDs + 2 * NumClasses + 7 /\ Level(L!Cache) = NumTSDs + 2 * NumClasses + 8
      /\ Level(L!RingInit) = NumTSDs + 2 * NumClasses + 9 /\ Level(L!Depot) = NumTSDs + 2 * NumClasses + 10
  BY FreeLocks, Levels, Zenon
<1>2. /\ n <= Level(L!Secondary) /\ n <= Level(L!Cache) /\ n <= Level(L!RingInit) /\ n <= Level(L!Depot)
      /\ Level(L!Secondary) + 1 <= Level(L!Cache) /\ Level(L!Secondary) + 1 \in Int
  BY <1>1 DEF LocksAssumption
<1>3. /\ Runs(s, K, n, L!Briefly(L!Cache)) /\ Runs(s, K, n, L!Briefly(L!Secondary))
      /\ Runs(s, K, n, L!Briefly(L!RingInit)) /\ Runs(s, K, n, L!Briefly(L!Depot))
      /\ Runs(s, K \cup {L!Secondary}, Level(L!Secondary) + 1, L!Briefly(L!Cache))
  BY <1>1, <1>2, RunsShortly, Zenon
<1>4. Runs(s, K, n, L!Holding(L!Secondary, L!Briefly(L!Cache)))
  BY <1>1, <1>2, <1>3, RunsInside, Zenon
<1>5. Runs(s, K, n, L!Trying(L!Cache, L!Does("unlock", L!Cache)))
  <2>1. IsSeq(L!Does("unlock", L!Cache)) /\ IsSeq(<<>>)
    BY OneStep, LeadsNowhere, Zenon DEF L!Does, Leads
  <2>2. L!Nothing \o L!Does("unlock", L!Cache) = L!Does("unlock", L!Cache)
    BY <2>1, Concatenation, Zenon DEF L!Nothing
  <2>3. Runs(s, K \cup {L!Cache}, Level(L!Cache) + 1, L!Nothing)
    BY RunsNothing, Zenon
  <2>4. QED
    BY <1>1, <1>2, <2>2, <2>3, RunsInside, Zenon
<1>6. Runs(s, K, n, L!store)
  BY <1>3, <1>5, RunsBoth, RunsMaybe, Zenon DEF L!store
<1>7. QED
  BY <1>3, <1>4, <1>6, RunsBoth, RunsMaybe, Zenon
  DEF L!SecondaryAllocate, L!SecondaryDeallocate, L!insertStack, L!initRingBufferMaybe

\* The operations of the allocator; fork() apart.
LEMMA RunsAllocator ==
  ASSUME LocksAssumption, NEW s \in BOOLEAN, NEW K, NEW n \in Int, n <= 1
  PROVE  /\ \A c \in L!Classes : Runs(s, K, n, L!allocate(s, c)) /\ Runs(s, K, n, L!deallocate(s, c))
         /\ Runs(s, K, n, L!releaseToOS(s)) /\ Runs(s, K, n, L!getStats(s))
<1>1. n <= NumTSDs + 5
  BY DEF LocksAssumption
<1>2. ASSUME NEW c \in L!Classes PROVE Runs(s, K, n, L!allocate(s, c))
  <2>1. c \in Int /\ NumClasses \in Int /\ NumClasses >= c - 1 /\ c .. NumClasses \subseteq L!Classes
    BY DEF L!Classes, LocksAssumption
  <2>2. PICK body : body = [d \in L!Classes |-> L!cacheAllocate(d)]
    OBVIOUS
  <2>3. ASSUME NEW J, NEW m \in Int, m <= NumTSDs + 2 PROVE Runs(s, J, m, L!Loop(body, c, NumClasses))
    <3>1. m <= NumTSDs + 5
      BY <2>3 DEF LocksAssumption
    <3>2. \A d \in c .. NumClasses : Runs(s, J, m, body[d])
      BY <2>1, <2>2, <3>1, RunsCache, Zenon
    <3>3. QED
      BY <2>1, <3>2, RunsLoop, Zenon
  <2>4. Runs(s, K, n, L!ScopedTSD(s, L!Loop(body, c, NumClasses)))
    BY <2>3, RunsScopedTSD, Zenon
  <2>5. /\ Runs(s, K, n, L!Briefly(L!Cache)) /\ Runs(s, K, n, L!Briefly(L!Secondary))
        /\ Runs(s, K, n, L!insertStack)
    BY <1>1, RunsSecondary, Zenon
  <2>6. /\ Runs(s, K, n, L!Maybe(L!Briefly(L!Cache) \o L!Maybe(L!Briefly(L!Secondary))))
        /\ Runs(s, K, n, L!Maybe(L!insertStack))
    BY <2>5, RunsBoth, RunsMaybe, Zenon
  <2>7. QED
    BY <2>2, <2>4, <2>6, RunsBoth, Zenon DEF L!allocate
<1>3. ASSUME NEW c \in L!Classes PROVE Runs(s, K, n, L!deallocate(s, c))
  <2>1. ASSUME NEW J, NEW m \in Int, m <= NumTSDs + 2
        PROVE  Runs(s, J, m, L!put) /\ Runs(s, J, m, L!cacheDeallocate(c))
    <3>1. m <= NumTSDs + 5 /\ m <= NumTSDs + 3
      BY <2>1 DEF LocksAssumption
    <3>2. QED
      BY <3>1, RunsCache, RunsQuarantine, Zenon
  <2>2. Runs(s, K, n, L!ScopedTSD(s, L!put)) /\ Runs(s, K, n, L!ScopedTSD(s, L!cacheDeallocate(c)))
    BY <2>1, RunsScopedTSD, Zenon
  <2>3. n <= Level(L!MM(c))
    BY <1>1, ClassLocks DEF LocksAssumption
  <2>4. Runs(s, K, n, L!tryReleaseToOS(c))
    BY <2>3, RunsRelease, Zenon
  <2>5. \A b \in {L!ScopedTSD(s, L!put), L!ScopedTSD(s, L!cacheDeallocate(c)) \o L!Maybe(L!tryReleaseToOS(c))} :
          Runs(s, K, n, b)
    BY <2>2, <2>4, RunsBoth, RunsMaybe, Zenon
  <2>6. Runs(s, K, n, L!Maybe(L!insertStack))
    BY <1>1, RunsSecondary, RunsMaybe, Zenon
  <2>7. QED
    BY <2>5, <2>6, RunsOneOf, RunsBoth, Zenon DEF L!deallocate
<1>4. Runs(s, K, n, L!releaseToOS(s))
  BY <1>1, RunsRegistry, RunsPrimary, RunsSecondary, RunsBoth, RunsMaybe, Zenon DEF L!releaseToOS
<1>5. Runs(s, K, n, L!getStats(s))
  <2>1. Runs(s, K, n, L!Briefly(L!QCache))
    <3>1. L!QCache \in Free(s) /\ Level(L!QCache) = NumTSDs + 4
      BY FreeLocks, Levels, Zenon
    <3>2. n <= Level(L!QCache)
      BY <3>1 DEF LocksAssumption
    <3>3. QED
      BY <3>1, <3>2, RunsShortly, Zenon
  <2>2. QED
    BY <1>1, <2>1, RunsRegistry, RunsPrimary, RunsSecondary, RunsBoth, Zenon DEF L!getStats
<1>6. QED
  BY <1>2, <1>3, <1>4, <1>5

\* No two locks are of one level.
LEMMA Distinct ==
  ASSUME LocksAssumption, NEW l \in L!Locks, NEW k \in L!Locks, Level(l) = Level(k)
  PROVE  l = k
<1> USE DEF L!Single, L!TSDLock, L!MM, L!FL, L!Registry, L!MutexTSDs, L!Stats, L!Recycle, L!QCache, L!Secondary,
            L!Cache, L!RingInit, L!Depot, L!Buffers
<1> DEFINE Upper == {L!Secondary, L!Cache, L!RingInit, L!Depot, L!Buffers}
           Lower == {L!Registry, L!MutexTSDs, L!Stats, L!Recycle, L!QCache}
           Region == {L!MM(c) : c \in L!AllClasses} \cup {L!FL(c) : c \in L!AllClasses}
           Slots == {L!TSDLock(i) : i \in L!TSDs}
<1>1. ASSUME NEW x \in L!Locks
      PROVE  /\ x \in Slots <=> Level(x) \in 2 .. NumTSDs + 1
             /\ x \in Lower <=> Level(x) \in {0, 1, NumTSDs + 2, NumTSDs + 3, NumTSDs + 4}
             /\ x \in Region <=> Level(x) \in NumTSDs + 5 .. NumTSDs + 2 * NumClasses + 6
             /\ x \in Upper <=> Level(x) \in NumTSDs + 2 * NumClasses + 7 .. NumTSDs + 2 * NumClasses + 11
             /\ x \in Slots \cup Lower \cup Region \cup Upper
  <2>1. CASE x \in Slots
    <3>1. PICK i \in 1 .. NumTSDs : x = L!TSDLock(i)
      BY <2>1 DEF L!TSDs
    <3>2. Level(x) = 1 + i
      BY <3>1 DEF Level
    <3>3. x[1] = "TSD"
      BY <3>1
    <3>4. x \notin Lower /\ x \notin Region /\ x \notin Upper
      BY <3>3
    <3>5. QED
      BY <2>1, <3>2, <3>4 DEF LocksAssumption
  <2>2. CASE x \in Lower
    <3>1. x \notin Slots /\ x \notin Region /\ x \notin Upper
      BY <2>2
    <3>2. Level(x) \in {0, 1, NumTSDs + 2, NumTSDs + 3, NumTSDs + 4}
      BY <2>2 DEF Level
    <3>3. QED
      BY <2>2, <3>1, <3>2 DEF LocksAssumption
  <2>3. CASE x \in Region
    <3>1. x \notin Slots /\ x \notin Lower /\ x \notin Upper
      BY <2>3
    <3>2. PICK c \in 0 .. NumClasses : x = L!MM(c) \/ x = L!FL(c)
      BY <2>3 DEF L!AllClasses
    <3>3. Level(x) \in {NumTSDs + 5 + 2 * (NumClasses - c), NumTSDs + 6 + 2 * (NumClasses - c)}
      BY <3>2 DEF Level
    <3>4. QED
      BY <2>3, <3>1, <3>3 DEF LocksAssumption
  <2>4. CASE x \in Upper
    <3>1. x \notin Slots /\ x \notin Lower /\ x \notin Region
      BY <2>4
    <3>2. \E j \in 7 .. 11 : Level(x) = NumTSDs + 2 * NumClasses + j
      BY <2>4 DEF Level
    <3>3. QED
      BY <2>4, <3>1, <3>2 DEF LocksAssumption
  <2>5. QED
    BY <2>1, <2>2, <2>3, <2>4 DEF L!Locks
<1>2. ASSUME l \in Slots, k \in Slots PROVE l = k
  <2>1. PICK i \in 1 .. NumTSDs, j \in 1 .. NumTSDs : l = L!TSDLock(i) /\ k = L!TSDLock(j)
    BY <1>2 DEF L!TSDs
  <2>2. Level(l) = 1 + i /\ Level(k) = 1 + j
    BY <2>1 DEF Level
  <2>3. 1 + i = 1 + j
    BY <2>2, Zenon
  <2>4. i = j
    BY <2>3
  <2>5. QED
    BY <2>1, <2>4, Zenon
<1>3. ASSUME l \in Lower, k \in Lower PROVE l = k
  BY <1>3 DEF Level, LocksAssumption
<1>4. ASSUME l \in Upper, k \in Upper PROVE l = k
  BY <1>4 DEF Level, LocksAssumption
<1>5. ASSUME l \in Region, k \in Region PROVE l = k
  <2>1. PICK c \in 0 .. NumClasses, d \in 0 .. NumClasses :
          (l = L!MM(c) \/ l = L!FL(c)) /\ (k = L!MM(d) \/ k = L!FL(d))
    BY <1>5 DEF L!AllClasses
  <2>2. /\ l = L!MM(c) => Level(l) = NumTSDs + 5 + 2 * (NumClasses - c)
        /\ l = L!FL(c) => Level(l) = NumTSDs + 6 + 2 * (NumClasses - c)
        /\ k = L!MM(d) => Level(k) = NumTSDs + 5 + 2 * (NumClasses - d)
        /\ k = L!FL(d) => Level(k) = NumTSDs + 6 + 2 * (NumClasses - d)
    BY <2>1 DEF Level
  <2>3. QED
    BY <2>1, <2>2 DEF LocksAssumption
<1> HIDE DEF Upper, Lower, Region, Slots
<1>6. QED
  BY <1>1, <1>2, <1>3, <1>4, <1>5 DEF LocksAssumption

\* What disable() holds when it is about to take the lock of level n.
Below(s, n) == {l \in ForkHeld(s) : Level(l) < n}

LEMMA BelowSound == ASSUME NEW s, NEW n PROVE Sound(s, Below(s, n)) /\ Above(Below(s, n), n)
BY DEF Sound, Above, Below, ForkHeld

LEMMA LeadsRung ==
  ASSUME LocksAssumption, NEW s \in BOOLEAN, NEW l \in ForkHeld(s), NEW n \in Int, NEW m \in Int, Level(l) = n, m = n + 1
  PROVE  /\ Leads(s, Below(s, n), L!Does("lock", l), Below(s, m))
         /\ Leads(s, Below(s, m), L!Does("unlock", l), Below(s, n))
<1>1. l \in L!Locks /\ \A k \in ForkHeld(s) : k \in L!Locks /\ Level(k) \in Nat
  BY LocksUsed DEF ForkHeld, UsedLocks
<1>2. \A k \in ForkHeld(s) : Level(k) = n => k = l
  BY <1>1, Distinct, Zenon
<1>3. /\ Below(s, m) = Below(s, n) \cup {l}
      /\ Below(s, n) = Below(s, m) \ {l}
      /\ l \in Below(s, m)
  BY <1>1, <1>2 DEF Below
<1>4. Sound(s, Below(s, n)) /\ Sound(s, Below(s, m)) /\ Above(Below(s, n), Level(l))
  BY BelowSound
<1>5. Leads(s, Below(s, n), L!Does("lock", l), Below(s, n) \cup {l})
  BY <1>4, LeadsLock, Zenon
<1>6. Leads(s, Below(s, m), L!Does("unlock", l), Below(s, m) \ {l})
  BY <1>3, <1>4, LeadsUnlock, Zenon
<1>7. QED
  BY <1>3, <1>5, <1>6, Zenon

\* Where the locks of disable() begin and end, and the levels that it passes over.
LEMMA Rungs ==
  ASSUME LocksAssumption, NEW s \in BOOLEAN
  PROVE  /\ Below(s, 0) = {} /\ Below(s, 1) = Below(s, 2)
         /\ Below(s, L!RegistryTSDs(s) + 2) = Below(s, NumTSDs + 2)
         /\ Below(s, NumTSDs + 2 * NumClasses + 11) = ForkHeld(s)
         /\ \A i \in 1 .. L!RegistryTSDs(s) : L!TSDLock(i) \in ForkHeld(s)
         /\ \A c \in L!AllClasses : L!MM(c) \in ForkHeld(s) /\ L!FL(c) \in ForkHeld(s)
         /\ {L!Registry, L!Stats, L!Recycle, L!QCache, L!Secondary, L!Cache, L!RingInit, L!Depot} \subseteq ForkHeld(s)
<1> USE DEF L!Single, L!TSDLock, L!MM, L!FL, L!Registry, L!MutexTSDs, L!Stats, L!Recycle, L!QCache, L!Secondary,
            L!Cache, L!RingInit, L!Depot, L!Buffers
<1>1. PICK r \in 1 .. NumTSDs : r = L!RegistryTSDs(s)
  BY DEF LocksAssumption, L!RegistryTSDs
<1>2. ASSUME NEW l \in ForkHeld(s)
      PROVE  /\ Level(l) \in Nat /\ Level(l) # 1 /\ Level(l) < NumTSDs + 2 * NumClasses + 11
             /\ Level(l) < r + 2 \/ Level(l) >= NumTSDs + 2
  <2>1. l \in L!Locks /\ l # L!MutexTSDs /\ l # L!Buffers
    BY DEF ForkHeld, UsedLocks
  <2>2. CASE \E i \in L!TSDs : l = L!TSDLock(i)
    <3>1. PICK i \in 1 .. NumTSDs : l = L!TSDLock(i)
      BY <2>2 DEF L!TSDs
    <3>2. i \notin r + 1 .. NumTSDs
      BY <1>1, <3>1, Zenon DEF ForkHeld, UsedLocks
    <3>3. Level(l) = 1 + i
      BY <3>1 DEF Level
    <3>4. QED
      BY <3>2, <3>3 DEF LocksAssumption
  <2>3. CASE \E c \in L!AllClasses : l = L!MM(c) \/ l = L!FL(c)
    <3>1. PICK c \in 0 .. NumClasses : l = L!MM(c) \/ l = L!FL(c)
      BY <2>3 DEF L!AllClasses
    <3>2. Level(l) \in {NumTSDs + 5 + 2 * (NumClasses - c), NumTSDs + 6 + 2 * (NumClasses - c)}
      BY <3>1 DEF Level
    <3>3. QED
      BY <3>2 DEF LocksAssumption
  <2>4. CASE l \in {L!Registry, L!Stats, L!Recycle, L!QCache, L!Secondary, L!Cache, L!RingInit, L!Depot}
    <3>1. \/ Level(l) = 0
          \/ \E j \in 2 .. 4 : Level(l) = NumTSDs + j
          \/ \E j \in 7 .. 10 : Level(l) = NumTSDs + 2 * NumClasses + j
      <4>1. /\ Level(L!Registry) = 0
            /\ Level(L!Stats) = NumTSDs + 2 /\ Level(L!Recycle) = NumTSDs + 3 /\ Level(L!QCache) = NumTSDs + 4
        BY Levels, Zenon
      <4>2. /\ Level(L!Secondary) = NumTSDs + 2 * NumClasses + 7 /\ Level(L!Cache) = NumTSDs + 2 * NumClasses + 8
            /\ Level(L!RingInit) = NumTSDs + 2 * NumClasses + 9 /\ Level(L!Depot) = NumTSDs + 2 * NumClasses + 10
        BY Levels, Zenon
      <4> HIDE DEF L!Registry, L!Stats, L!Recycle, L!QCache, L!Secondary, L!Cache, L!RingInit, L!Depot
      <4>3. QED
        BY <2>4, <4>1, <4>2
    <3>2. QED
      BY <3>1 DEF LocksAssumption
  <2>5. QED
    BY <2>1, <2>2, <2>3, <2>4 DEF L!Locks
<1>3. /\ Below(s, 0) = {} /\ Below(s, 1) = Below(s, 2) /\ Below(s, r + 2) = Below(s, NumTSDs + 2)
      /\ Below(s, NumTSDs + 2 * NumClasses + 11) = ForkHeld(s)
  BY <1>2 DEF Below, LocksAssumption
<1>4. \A i \in 1 .. L!RegistryTSDs(s) : L!TSDLock(i) \in ForkHeld(s)
  BY LocksUsed DEF ForkHeld
<1>5. \A c \in L!AllClasses : L!MM(c) \in ForkHeld(s) /\ L!FL(c) \in ForkHeld(s)
  BY LocksUsed DEF ForkHeld
<1>6. {L!Registry, L!Stats, L!Recycle, L!QCache, L!Secondary, L!Cache, L!RingInit, L!Depot} \subseteq ForkHeld(s)
  BY LocksUsed DEF ForkHeld
<1>7. QED
  BY <1>1, <1>3, <1>4, <1>5, <1>6

\* disable() takes the locks of its operations level by level, enable() undoes it.
LEMMA LeadsRegistry ==
  ASSUME LocksAssumption, NEW s \in BOOLEAN
  PROVE  /\ Leads(s, {}, L!RegistryDisable(s), Below(s, NumTSDs + 2))
         /\ Leads(s, Below(s, NumTSDs + 2), L!RegistryEnable(s), {})
<1>1. PICK r \in 1 .. NumTSDs : r = L!RegistryTSDs(s)
  BY DEF LocksAssumption, L!RegistryTSDs
<1>2. 1 \in Int /\ r \in Nat /\ r \in Int /\ 1 - 1 = 0 /\ 1 - 1 + r = r /\ 1 .. r \subseteq L!TSDs
  BY <1>1 DEF LocksAssumption, L!TSDs
<1>3. ASSUME NEW i \in 1 .. r
      PROVE  /\ Leads(s, Below(s, i + 1), L!Does("lock", L!TSDLock(i)), Below(s, i + 2))
             /\ Leads(s, Below(s, i + 2), L!Does("unlock", L!TSDLock(i)), Below(s, i + 1))
  <2>1. Level(L!TSDLock(i)) = 1 + i
    BY <1>2, Levels, Zenon
  <2>2. L!TSDLock(i) \in ForkHeld(s)
    BY <1>1, Rungs, Zenon
  <2>3. Level(L!TSDLock(i)) = i + 1 /\ i + 1 \in Int /\ i + 2 \in Int /\ i + 2 = i + 1 + 1
    BY <1>2, <2>1
  <2>4. QED
    BY <2>2, <2>3, LeadsRung, Zenon
<1>4. Leads(s, Below(s, 2), L!Loop([i \in L!TSDs |-> L!Does("lock", L!TSDLock(i))], 1, r), Below(s, r + 2))
  <2>1. PICK body : body = [i \in L!TSDs |-> L!Does("lock", L!TSDLock(i))]
    OBVIOUS
  <2>2. PICK G : G = [i \in 0 .. r |-> Below(s, i + 2)]
    OBVIOUS
  <2>3. ASSUME NEW i \in 1 .. 1 - 1 + r PROVE Leads(s, G[i - 1], body[i], G[i])
    <3>1. i \in 1 .. r /\ i - 1 \in 0 .. r /\ i \in 0 .. r /\ i - 1 + 2 = i + 1
      BY <1>2
    <3>2. G[i - 1] = Below(s, i - 1 + 2) /\ G[i] = Below(s, i + 2) /\ body[i] = L!Does("lock", L!TSDLock(i))
      BY <1>2, <2>1, <2>2, <3>1
    <3>3. QED
      BY <1>3, <3>1, <3>2
  <2>4. Leads(s, G[1 - 1], L!Loop(body, 1, 1 - 1 + r), G[1 - 1 + r])
    BY <1>2, <2>3, LeadsLoop, Zenon
  <2>5. G[0] = Below(s, 2) /\ G[r] = Below(s, r + 2)
    <3>1. 0 \in 0 .. r /\ r \in 0 .. r /\ 0 + 2 = 2
      BY <1>2
    <3>2. G[0] = Below(s, 0 + 2) /\ G[r] = Below(s, r + 2)
      BY <2>2, <3>1, Zenon
    <3>3. QED
      BY <3>1, <3>2, Zenon
  <2>6. QED
    BY <1>2, <2>1, <2>4, <2>5, Zenon
<1>5. Leads(s, Below(s, r + 2), L!Loop([i \in L!TSDs |-> L!Does("unlock", L!TSDLock(r + 1 - i))], 1, r), Below(s, 2))
  <2>1. PICK body : body = [i \in L!TSDs |-> L!Does("unlock", L!TSDLock(r + 1 - i))]
    OBVIOUS
  <2>2. PICK G : G = [i \in 0 .. r |-> Below(s, r + 2 - i)]
    OBVIOUS
  <2>3. ASSUME NEW i \in 1 .. 1 - 1 + r PROVE Leads(s, G[i - 1], body[i], G[i])
    <3>1. PICK j \in 1 .. r : j = r + 1 - i
      BY <1>2
    <3>2. /\ i - 1 \in 0 .. r /\ i \in 0 .. r /\ i \in 1 .. r
          /\ r + 2 - (i - 1) = j + 2 /\ r + 2 - i = j + 1
      BY <1>2, <3>1
    <3>3. /\ G[i - 1] = Below(s, r + 2 - (i - 1)) /\ G[i] = Below(s, r + 2 - i)
          /\ body[i] = L!Does("unlock", L!TSDLock(j))
      BY <1>2, <2>1, <2>2, <3>1, <3>2, Zenon
    <3>4. QED
      BY <1>3, <3>2, <3>3, Zenon
  <2>4. Leads(s, G[1 - 1], L!Loop(body, 1, 1 - 1 + r), G[1 - 1 + r])
    BY <1>2, <2>3, LeadsLoop, Zenon
  <2>5. G[0] = Below(s, r + 2) /\ G[r] = Below(s, 2)
    <3>1. 0 \in 0 .. r /\ r \in 0 .. r /\ r + 2 - 0 = r + 2 /\ r + 2 - r = 2
      BY <1>2
    <3>2. G[0] = Below(s, r + 2 - 0) /\ G[r] = Below(s, r + 2 - r)
      BY <2>2, <3>1, Zenon
    <3>3. QED
      BY <3>1, <3>2, Zenon
  <2>6. QED
    BY <1>2, <2>1, <2>4, <2>5, Zenon
<1>6. /\ Leads(s, Below(s, 0), L!Does("lock", L!Registry), Below(s, 1))
      /\ Leads(s, Below(s, 1), L!Does("unlock", L!Registry), Below(s, 0))
  <2>1. Level(L!Registry) = 0 /\ 0 \in Int /\ 1 \in Int /\ 1 = 0 + 1
    BY Levels
  <2>2. L!Registry \in ForkHeld(s)
    BY Rungs
  <2>3. QED
    BY <2>1, <2>2, LeadsRung, Zenon
<1>7. Below(s, 0) = {} /\ Below(s, 1) = Below(s, 2) /\ Below(s, r + 2) = Below(s, NumTSDs + 2)
  BY <1>1, Rungs, Zenon
<1>8. QED
  BY <1>1, <1>4, <1>5, <1>6, <1>7, LeadsOn, Zenon DEF L!RegistryDisable, L!RegistryEnable

LEMMA LeadsRegion ==
  ASSUME LocksAssumption, NEW s \in BOOLEAN, NEW c \in L!AllClasses, NEW n \in Int, NEW m \in Int,
         n = NumTSDs + 5 + 2 * (NumClasses - c), m = n + 2
  PROVE  /\ Leads(s, Below(s, n), L!LockRegion(c), Below(s, m))
         /\ Leads(s, Below(s, m), L!Does("unlock", L!FL(c)) \o L!Does("unlock", L!MM(c)), Below(s, n))
<1>1. /\ Level(L!MM(c)) = NumTSDs + 5 + 2 * (NumClasses - c) /\ Level(L!FL(c)) = NumTSDs + 6 + 2 * (NumClasses - c)
      /\ L!MM(c) \in ForkHeld(s) /\ L!FL(c) \in ForkHeld(s)
  BY Levels, Rungs, Zenon
<1>2. n + 1 \in Int /\ Level(L!MM(c)) = n /\ Level(L!FL(c)) = n + 1 /\ m = n + 1 + 1
  BY <1>1 DEF LocksAssumption, L!AllClasses
<1>3. /\ Leads(s, Below(s, n), L!Does("lock", L!MM(c)), Below(s, n + 1))
      /\ Leads(s, Below(s, n + 1), L!Does("unlock", L!MM(c)), Below(s, n))
      /\ Leads(s, Below(s, n + 1), L!Does("lock", L!FL(c)), Below(s, m))
      /\ Leads(s, Below(s, m), L!Does("unlock", L!FL(c)), Below(s, n + 1))
  BY <1>1, <1>2, LeadsRung, Zenon
<1>4. QED
  BY <1>3, LeadsOn, Zenon DEF L!LockRegion

LEMMA LeadsPrimary ==
  ASSUME LocksAssumption, NEW s \in BOOLEAN
  PROVE  /\ Leads(s, Below(s, NumTSDs + 5), L!PrimaryDisable, Below(s, NumTSDs + 2 * NumClasses + 7))
         /\ Leads(s, Below(s, NumTSDs + 2 * NumClasses + 7), L!PrimaryEnable, Below(s, NumTSDs + 5))
<1>1. /\ 1 \in Int /\ 0 \in Int /\ NumClasses \in Nat /\ NumClasses + 1 \in Nat /\ NumTSDs \in Nat
      /\ 1 - 1 = 0 /\ 1 - 1 + NumClasses = NumClasses /\ 0 - 1 + (NumClasses + 1) = NumClasses
      /\ L!Classes = 1 .. NumClasses /\ L!AllClasses = 0 .. NumClasses
  BY DEF LocksAssumption, L!Classes, L!AllClasses
<1>2. Leads(s, Below(s, NumTSDs + 5), L!Loop([i \in L!Classes |-> L!LockRegion(NumClasses + 1 - i)], 1, NumClasses),
            Below(s, NumTSDs + 5 + 2 * NumClasses))
  <2>1. PICK body : body = [i \in L!Classes |-> L!LockRegion(NumClasses + 1 - i)]
    OBVIOUS
  <2>2. PICK G : G = [i \in 0 .. NumClasses |-> Below(s, NumTSDs + 5 + 2 * i)]
    OBVIOUS
  <2>3. ASSUME NEW i \in 1 .. 1 - 1 + NumClasses PROVE Leads(s, G[i - 1], body[i], G[i])
    <3>1. PICK c \in L!AllClasses : c = NumClasses + 1 - i
      BY <1>1
    <3>2. PICK n \in Int : n = NumTSDs + 5 + 2 * (i - 1)
      BY <1>1
    <3>3. /\ i \in 0 .. NumClasses /\ i - 1 \in 0 .. NumClasses /\ i \in L!Classes
          /\ n = NumTSDs + 5 + 2 * (NumClasses - c) /\ NumTSDs + 5 + 2 * i = n + 2 /\ n + 2 \in Int
      BY <1>1, <3>1, <3>2
    <3>4. /\ G[i - 1] = Below(s, NumTSDs + 5 + 2 * (i - 1)) /\ G[i] = Below(s, NumTSDs + 5 + 2 * i)
          /\ body[i] = L!LockRegion(c)
      BY <2>1, <2>2, <3>1, <3>3, Zenon
    <3>5. Leads(s, Below(s, n), L!LockRegion(c), Below(s, n + 2))
      BY <3>3, LeadsRegion, Zenon
    <3>6. QED
      BY <3>2, <3>3, <3>4, <3>5, Zenon
  <2>4. Leads(s, G[1 - 1], L!Loop(body, 1, 1 - 1 + NumClasses), G[1 - 1 + NumClasses])
    BY <1>1, <2>3, LeadsLoop, Zenon
  <2>5. G[0] = Below(s, NumTSDs + 5) /\ G[NumClasses] = Below(s, NumTSDs + 5 + 2 * NumClasses)
    <3>1. 0 \in 0 .. NumClasses /\ NumClasses \in 0 .. NumClasses /\ NumTSDs + 5 + 2 * 0 = NumTSDs + 5
      BY <1>1
    <3>2. G[0] = Below(s, NumTSDs + 5 + 2 * 0) /\ G[NumClasses] = Below(s, NumTSDs + 5 + 2 * NumClasses)
      BY <2>2, <3>1, Zenon
    <3>3. QED
      BY <3>1, <3>2, Zenon
  <2>6. QED
    BY <1>1, <2>1, <2>4, <2>5, Zenon
<1>3. Leads(s, Below(s, NumTSDs + 5 + 2 * NumClasses), L!LockRegion(0), Below(s, NumTSDs + 2 * NumClasses + 7))
  <2>1. PICK n \in Int : n = NumTSDs + 5 + 2 * NumClasses
    BY <1>1
  <2>2. PICK m \in Int : m = NumTSDs + 2 * NumClasses + 7
    BY <1>1
  <2>3. 0 \in L!AllClasses /\ n = NumTSDs + 5 + 2 * (NumClasses - 0) /\ m = n + 2
    BY <1>1, <2>1, <2>2
  <2>4. Leads(s, Below(s, n), L!LockRegion(0), Below(s, m))
    BY <2>3, LeadsRegion, Zenon
  <2>5. QED
    BY <2>1, <2>2, <2>4, Zenon
<1>4. Leads(s, Below(s, NumTSDs + 2 * NumClasses + 7), L!PrimaryEnable, Below(s, NumTSDs + 5))
  <2>1. PICK body : body = [c \in L!AllClasses |-> L!Does("unlock", L!FL(c)) \o L!Does("unlock", L!MM(c))]
    OBVIOUS
  <2>2. PICK G : G = [c \in 0 - 1 .. NumClasses |-> Below(s, NumTSDs + 5 + 2 * (NumClasses - c))]
    OBVIOUS
  <2>3. ASSUME NEW c \in 0 .. 0 - 1 + (NumClasses + 1) PROVE Leads(s, G[c - 1], body[c], G[c])
    <3>1. PICK n \in Int : n = NumTSDs + 5 + 2 * (NumClasses - c)
      BY <1>1
    <3>2. /\ c \in L!AllClasses /\ c \in 0 - 1 .. NumClasses /\ c - 1 \in 0 - 1 .. NumClasses
          /\ NumTSDs + 5 + 2 * (NumClasses - (c - 1)) = n + 2 /\ n + 2 \in Int
      BY <1>1, <3>1
    <3>3. /\ G[c - 1] = Below(s, NumTSDs + 5 + 2 * (NumClasses - (c - 1)))
          /\ G[c] = Below(s, NumTSDs + 5 + 2 * (NumClasses - c))
          /\ body[c] = L!Does("unlock", L!FL(c)) \o L!Does("unlock", L!MM(c))
      BY <2>1, <2>2, <3>2, Zenon
    <3>4. Leads(s, Below(s, n + 2), L!Does("unlock", L!FL(c)) \o L!Does("unlock", L!MM(c)), Below(s, n))
      BY <3>1, <3>2, LeadsRegion, Zenon
    <3>5. QED
      BY <3>1, <3>2, <3>3, <3>4, Zenon
  <2>4. Leads(s, G[0 - 1], L!Loop(body, 0, 0 - 1 + (NumClasses + 1)), G[0 - 1 + (NumClasses + 1)])
    BY <1>1, <2>3, LeadsLoop, Zenon
  <2>5. G[0 - 1] = Below(s, NumTSDs + 2 * NumClasses + 7) /\ G[NumClasses] = Below(s, NumTSDs + 5)
    <3>1. /\ 0 - 1 \in 0 - 1 .. NumClasses /\ NumClasses \in 0 - 1 .. NumClasses
          /\ NumTSDs + 5 + 2 * (NumClasses - (0 - 1)) = NumTSDs + 2 * NumClasses + 7
          /\ NumTSDs + 5 + 2 * (NumClasses - NumClasses) = NumTSDs + 5
      BY <1>1
    <3>2. /\ G[0 - 1] = Below(s, NumTSDs + 5 + 2 * (NumClasses - (0 - 1)))
          /\ G[NumClasses] = Below(s, NumTSDs + 5 + 2 * (NumClasses - NumClasses))
      BY <2>2, <3>1, Zenon
    <3>3. QED
      BY <3>1, <3>2, Zenon
  <2>6. QED
    BY <1>1, <2>1, <2>4, <2>5, Zenon DEF L!PrimaryEnable
<1>5. QED
  BY <1>2, <1>3, <1>4, LeadsOn, Zenon DEF L!PrimaryDisable, L!BatchClassId

\* The whole of disable(), fork() and enable().
LEMMA LeadsForking == ASSUME LocksAssumption, NEW s \in BOOLEAN PROVE Leads(s, {}, L!fork(s), {})
<1>1. PICK n \in Nat : n = NumTSDs
  BY DEF LocksAssumption
<1>2. PICK m \in Nat : m = NumTSDs + 2 * NumClasses
  BY DEF LocksAssumption
<1>3. /\ {L!Registry, L!Stats, L!Recycle, L!QCache, L!Secondary, L!Cache, L!RingInit, L!Depot} \subseteq ForkHeld(s)
      /\ Below(s, m + 11) = ForkHeld(s)
      /\ Level(L!Stats) = n + 2 /\ Level(L!Recycle) = n + 3 /\ Level(L!QCache) = n + 4
      /\ Level(L!Secondary) = m + 7 /\ Level(L!Cache) = m + 8
      /\ Level(L!RingInit) = m + 9 /\ Level(L!Depot) = m + 10
  BY <1>1, <1>2, Rungs, Levels, Zenon
<1>4. \A i \in 2 .. 11 : n + i \in Int /\ m + i \in Int /\ n + (i + 1) = n + i + 1 /\ m + (i + 1) = m + i + 1
  BY <1>1, <1>2
<1>5. /\ Leads(s, Below(s, n + 2), L!Does("lock", L!Stats), Below(s, n + 3))
      /\ Leads(s, Below(s, n + 3), L!Does("unlock", L!Stats), Below(s, n + 2))
      /\ Leads(s, Below(s, n + 3), L!Does("lock", L!Recycle), Below(s, n + 4))
      /\ Leads(s, Below(s, n + 4), L!Does("unlock", L!Recycle), Below(s, n + 3))
      /\ Leads(s, Below(s, n + 4), L!Does("lock", L!QCache), Below(s, n + 5))
      /\ Leads(s, Below(s, n + 5), L!Does("unlock", L!QCache), Below(s, n + 4))
  BY <1>3, <1>4, LeadsRung
<1>6. /\ Leads(s, Below(s, m + 7), L!Does("lock", L!Secondary), Below(s, m + 8))
      /\ Leads(s, Below(s, m + 8), L!Does("unlock", L!Secondary), Below(s, m + 7))
      /\ Leads(s, Below(s, m + 8), L!Does("lock", L!Cache), Below(s, m + 9))
      /\ Leads(s, Below(s, m + 9), L!Does("unlock", L!Cache), Below(s, m + 8))
      /\ Leads(s, Below(s, m + 9), L!Does("lock", L!RingInit), Below(s, m + 10))
      /\ Leads(s, Below(s, m + 10), L!Does("unlock", L!RingInit), Below(s, m + 9))
      /\ Leads(s, Below(s, m + 10), L!Does("lock", L!Depot), Below(s, m + 11))
      /\ Leads(s, Below(s, m + 11), L!Does("unlock", L!Depot), Below(s, m + 10))
  BY <1>3, <1>4, LeadsRung
<1>7. /\ Leads(s, {}, L!RegistryDisable(s), Below(s, n + 2)) /\ Leads(s, Below(s, n + 2), L!RegistryEnable(s), {})
      /\ Leads(s, Below(s, n + 5), L!PrimaryDisable, Below(s, m + 7))
      /\ Leads(s, Below(s, m + 7), L!PrimaryEnable, Below(s, n + 5))
  BY <1>1, <1>2, LeadsRegistry, LeadsPrimary, Zenon
<1>8. /\ Leads(s, Below(s, m + 7), L!SecondaryDisable, Below(s, m + 9))
      /\ Leads(s, Below(s, m + 9), L!SecondaryEnable, Below(s, m + 7))
  BY <1>6, LeadsOn, Zenon DEF L!SecondaryDisable, L!SecondaryEnable
<1>9. Leads(s, {}, L!disable(s), Below(s, m + 11))
  <2>1. PICK a : a = L!RegistryDisable(s)
    OBVIOUS
  <2>2. Leads(s, {}, a, Below(s, n + 2))
    BY <1>7, <2>1, Zenon
  <2>3. PICK b : b = a \o L!Does("lock", L!Stats)
    OBVIOUS
  <2>4. Leads(s, {}, b, Below(s, n + 3))
    BY <1>5, <2>2, <2>3, LeadsOn, Zenon
  <2>5. PICK c : c = b \o L!Does("lock", L!Recycle)
    OBVIOUS
  <2>6. Leads(s, {}, c, Below(s, n + 4))
    BY <1>5, <2>4, <2>5, LeadsOn, Zenon
  <2>7. PICK d : d = c \o L!Does("lock", L!QCache)
    OBVIOUS
  <2>8. Leads(s, {}, d, Below(s, n + 5))
    BY <1>5, <2>6, <2>7, LeadsOn, Zenon
  <2>9. PICK e : e = d \o L!PrimaryDisable
    OBVIOUS
  <2>10. Leads(s, {}, e, Below(s, m + 7))
    BY <1>7, <2>8, <2>9, LeadsOn, Zenon
  <2>11. PICK f : f = e \o L!SecondaryDisable
    OBVIOUS
  <2>12. Leads(s, {}, f, Below(s, m + 9))
    BY <1>8, <2>10, <2>11, LeadsOn, Zenon
  <2>13. PICK g : g = f \o L!Does("lock", L!RingInit)
    OBVIOUS
  <2>14. Leads(s, {}, g, Below(s, m + 10))
    BY <1>6, <2>12, <2>13, LeadsOn, Zenon
  <2>15. PICK h : h = g \o L!Does("lock", L!Depot)
    OBVIOUS
  <2>16. Leads(s, {}, h, Below(s, m + 11))
    BY <1>6, <2>14, <2>15, LeadsOn, Zenon
  <2>17. h = L!disable(s)
    BY <2>1, <2>3, <2>5, <2>7, <2>9, <2>11, <2>13, <2>15, Zenon DEF L!disable
  <2>18. QED
    BY <2>16, <2>17, Zenon
<1>10. Leads(s, Below(s, m + 11), L!enable(s), {})
  <2>1. Leads(s, Below(s, m + 11), L!Does("unlock", L!Depot) \o L!Does("unlock", L!RingInit) \o L!SecondaryEnable,
              Below(s, m + 7))
    BY <1>6, <1>8, LeadsOn, Zenon
  <2>2. Leads(s, Below(s, m + 11), L!Does("unlock", L!Depot) \o L!Does("unlock", L!RingInit) \o L!SecondaryEnable
                                     \o L!PrimaryEnable \o L!Does("unlock", L!QCache), Below(s, n + 4))
    BY <1>5, <1>7, <2>1, LeadsOn, Zenon
  <2>3. QED
    BY <1>5, <1>7, <2>2, LeadsOn, Zenon DEF L!enable
<1>11. Leads(s, Below(s, m + 11), <<[op |-> "fork"]>>, Below(s, m + 11))
  <2>1. ForkHeld(s) \subseteq Below(s, m + 11)
    BY <1>3
  <2>2. QED
    BY <2>1, BelowSound, LeadsFork, Zenon
<1>12. QED
  BY <1>9, <1>10, <1>11, LeadsOn, Zenon DEF L!fork

LEMMA LevelsEnd ==
  ASSUME LocksAssumption, NEW s \in BOOLEAN, NEW l \in UsedLocks(s)
  PROVE  Level(l) \in 0 .. NumTSDs + 2 * NumClasses + 11
<1>1. Level(l) \in Nat
  BY LocksUsed, Zenon
<1>2. Level(L!Buffers) = NumTSDs + 2 * NumClasses + 11 /\ Level(L!MutexTSDs) = 1
  BY Levels, Zenon
<1>3. CASE l \in ForkHeld(s)
  <2>1. l \in Below(s, NumTSDs + 2 * NumClasses + 11)
    BY <1>3, Rungs
  <2>2. QED
    BY <1>1, <2>1 DEF Below, LocksAssumption
<1>4. CASE l \in {L!MutexTSDs, L!Buffers}
  BY <1>2, <1>4 DEF LocksAssumption
<1>5. QED
  BY <1>3, <1>4 DEF ForkHeld

LEMMA OrderlyEnd == ASSUME NEW s PROVE Orderly(s, {}, <<>>)
<1>1. PICK R : R = {<<{}, <<>>>>}
  OBVIOUS
<1>2. IsSeq(<<>>)
  BY LeadsNowhere, Zenon DEF Leads
<1>3. Sound(s, {})
  BY DEF Sound
<1>4. ASSUME NEW p \in R PROVE p[1] = {} /\ p[2] = <<>>
  BY <1>1
<1>5. Closed(s, R)
  BY <1>2, <1>3, <1>4, Zenon DEF Closed
<1>6. QED
  BY <1>1, <1>5 DEF Orderly

\* Every operation of the allocator takes its locks in order and gives them back.
LEMMA OperationsOrderly ==
  ASSUME LocksAssumption, NEW s \in BOOLEAN, NEW o \in L!Operations(s)
  PROVE  Orderly(s, {}, o)
<1>1. Sound(s, {}) /\ {} \subseteq {} /\ Above({}, 0) /\ 0 \in Int /\ 0 <= 0 /\ 0 <= 1 /\ 0 <= NumTSDs + 5
  BY DEF Sound, Above, LocksAssumption
<1>2. ASSUME o = L!fork(s) PROVE Leads(s, {}, o, {})
  BY <1>2, LeadsForking, Zenon
<1>3. ASSUME Runs(s, {}, 0, o) PROVE Leads(s, {}, o, {})
  BY <1>1, <1>3, Zenon DEF Runs
<1>4. o # L!fork(s) => Runs(s, {}, 0, o)
  <2>1. /\ o \in {L!initThread(s), L!SecondaryAllocate, L!SecondaryDeallocate, L!releaseToOS(s), L!getStats(s),
                  L!getFragmentationInfo, L!RegistrySetOption(s), L!initRingBufferMaybe, L!commitBack}
           => Runs(s, {}, 0, o)
    BY <1>1, RunsRegistry, RunsSecondary, RunsAllocator, RunsPrimary, Zenon
  <2>2. ASSUME NEW c \in L!Classes, o = L!allocate(s, c) \/ o = L!deallocate(s, c) PROVE Runs(s, {}, 0, o)
    BY <1>1, <2>2, RunsAllocator, Zenon
  <2>3. QED
    BY <2>1, <2>2 DEF L!Operations
<1>5. Leads(s, {}, o, {})
  BY <1>2, <1>3, <1>4
<1>6. IsSeq(<<>>)
  BY LeadsNowhere, Zenon DEF Leads
<1>7. Orderly(s, {}, o \o <<>>)
  BY <1>5, <1>6, OrderlyEnd, Zenon DEF Leads
<1>8. o \o <<>> = o
  BY <1>5, <1>6, Concatenation, Zenon DEF Leads
<1>9. QED
  BY <1>7, <1>8, Zenon

\* What an orderly thread may rely on before and after its next step.
LEMMA OrderlyStep ==
  ASSUME NEW s, NEW H, NEW a, Orderly(s, H, a)
  PROVE  /\ Sound(s, H) /\ IsSeq(a) /\ (a = <<>> => H = {})
         /\ a # <<>> =>
              /\ IsSeq(Tail(a))
              /\ Head(a).op = "lock" =>
                   /\ Above(H, Level(Head(a).lock)) /\ Head(a).lock \in UsedLocks(s)
                   /\ Orderly(s, H \cup {Head(a).lock}, Tail(a))
              /\ Head(a).op = "unlock" => Head(a).lock \in H /\ Orderly(s, H \ {Head(a).lock}, Tail(a))
              /\ Head(a).op = "try" =>
                   /\ Orderly(s, H, Tail(a))
                   /\ Head(a).lock \notin H => Orderly(s, H \cup {Head(a).lock}, Head(a).then \o Tail(a))
              /\ Head(a).op = "choose" => \A b \in Head(a).among : Orderly(s, H, b \o Tail(a))
              /\ Head(a).op = "fork" => ForkHeld(s) \subseteq H /\ Orderly(s, H, Tail(a))
<1>1. PICK R : Closed(s, R) /\ <<H, a>> \in R
  BY Zenon DEF Orderly
<1>2. <<H, a>>[1] = H /\ <<H, a>>[2] = a
  OBVIOUS
<1>3. /\ Sound(s, H) /\ IsSeq(a)
      /\ IF a = <<>> THEN H = {} ELSE Allowed(s, R, H, Head(a), Tail(a))
  BY <1>1, <1>2, Zenon DEF Closed
<1>4. ASSUME NEW J, NEW b, <<J, b>> \in R PROVE Orderly(s, J, b) /\ Sound(s, J)
  <2>1. <<J, b>>[1] = J
    OBVIOUS
  <2>2. QED
    BY <1>1, <1>4, <2>1, Zenon DEF Orderly, Closed
<1>5. ASSUME a # <<>> PROVE IsSeq(Tail(a))
  <2>1. PICK A : a \in Seq(A)
    BY <1>3 DEF IsSeq
  <2>2. Tail(a) \in Seq(A)
    BY <1>5, <2>1
  <2>3. QED
    BY <2>2, Zenon DEF IsSeq
<1>6. PICK x, k : x = Head(a) /\ k = Tail(a)
  OBVIOUS
<1>7. ASSUME Allowed(s, R, H, x, k)
      PROVE  /\ x.op = "lock" => /\ Above(H, Level(x.lock)) /\ x.lock \in UsedLocks(s)
                                 /\ Orderly(s, H \cup {x.lock}, k)
             /\ x.op = "unlock" => x.lock \in H /\ Orderly(s, H \ {x.lock}, k)
             /\ x.op = "try" => Orderly(s, H, k) /\ (x.lock \notin H => Orderly(s, H \cup {x.lock}, x.then \o k))
             /\ x.op = "choose" => \A b \in x.among : Orderly(s, H, b \o k)
             /\ x.op = "fork" => ForkHeld(s) \subseteq H /\ Orderly(s, H, k)
  <2>1. ASSUME x.op = "lock"
        PROVE  Above(H, Level(x.lock)) /\ x.lock \in UsedLocks(s) /\ Orderly(s, H \cup {x.lock}, k)
    <3>1. Above(H, Level(x.lock)) /\ <<H \cup {x.lock}, k>> \in R
      BY <1>7, <2>1, Zenon DEF Allowed
    <3>2. Orderly(s, H \cup {x.lock}, k) /\ Sound(s, H \cup {x.lock})
      BY <1>4, <3>1, Zenon
    <3>3. x.lock \in UsedLocks(s)
      BY <3>2 DEF Sound
    <3>4. QED
      BY <3>1, <3>2, <3>3
  <2>2. QED
    BY <1>4, <1>7, <2>1, Zenon DEF Allowed
<1>8. QED
  BY <1>3, <1>5, <1>6, <1>7, Zenon

Held(t) == {l \in L!Locks : owner[l] = t}

\* The inductive invariant of the locks: every thread is in order with what it holds.
LocksIInv ==
  /\ shared \in BOOLEAN
  /\ owner \in [L!Locks -> Threads \cup {NoThread}]
  /\ todo = [t \in Threads |-> todo[t]]
  /\ \A t \in Threads : Orderly(shared, Held(t), todo[t])

LEMMA LocksInit == ASSUME LocksAssumption, L!Init PROVE LocksIInv
<1>1. shared \in BOOLEAN /\ owner \in [L!Locks -> Threads \cup {NoThread}] /\ todo = [t \in Threads |-> todo[t]]
  BY DEF L!Init
<1>2. ASSUME NEW t \in Threads PROVE Held(t) = {} /\ todo[t] = <<>>
  BY DEF L!Init, LocksAssumption, Held, L!Nothing
<1>3. QED
  BY <1>1, <1>2, OrderlyEnd, Zenon DEF LocksIInv

\* A thread goes on with a, and takes or gives back at most what is its own.
LEMMA StepOfOne ==
  ASSUME LocksIInv, NEW t \in Threads, NEW a, NEW H, UNCHANGED shared,
         todo' = [todo EXCEPT ![t] = a], owner' \in [L!Locks -> Threads \cup {NoThread}],
         \A u \in Threads : Held(u)' = IF u = t THEN H ELSE Held(u),
         Orderly(shared, H, a)
  PROVE  LocksIInv'
<1>1. todo' = [u \in Threads |-> todo'[u]] /\ \A u \in Threads : todo'[u] = IF u = t THEN a ELSE todo[u]
  BY DEF LocksIInv
<1>2. ASSUME NEW u \in Threads PROVE Orderly(shared', Held(u)', todo'[u])
  BY <1>1, Zenon DEF LocksIInv
<1>3. QED
  BY <1>1, <1>2 DEF LocksIInv

LEMMA LocksStep == ASSUME LocksAssumption, LocksIInv, [L!Next]_(L!vars) PROVE LocksIInv'
<1>1. CASE UNCHANGED L!vars
  <2>1. shared' = shared /\ owner' = owner /\ todo' = todo
    BY <1>1 DEF L!vars
  <2>2. QED
    BY <2>1 DEF LocksIInv, Held
<1>2. ASSUME NEW t \in Threads
      PROVE  /\ Orderly(shared, Held(t), todo[t])
             /\ todo[t] # <<>> => L!Nothing \o Tail(todo[t]) = Tail(todo[t])
             /\ UNCHANGED owner => \A u \in Threads : Held(u)' = IF u = t THEN Held(t) ELSE Held(u)
  <2>1. Orderly(shared, Held(t), todo[t])
    BY DEF LocksIInv
  <2>2. ASSUME todo[t] # <<>> PROVE L!Nothing \o Tail(todo[t]) = Tail(todo[t])
    <3>1. IsSeq(Tail(todo[t]))
      BY <2>1, <2>2, OrderlyStep, Zenon
    <3>2. QED
      BY <3>1, Concatenation, Zenon DEF L!Nothing
  <2>3. QED
    BY <2>1, <2>2 DEF Held
<1>3. ASSUME NEW t \in Threads, L!Begin(t) PROVE LocksIInv'
  <2>1. todo[t] = <<>> /\ UNCHANGED <<shared, owner>>
    BY <1>3 DEF L!Begin, L!Nothing
  <2>2. PICK o \in L!Operations(shared) : todo' = [todo EXCEPT ![t] = o]
    BY <1>3, Zenon DEF L!Begin
  <2>3. Held(t) = {}
    BY <1>2, <2>1, OrderlyStep, Zenon
  <2>4. Orderly(shared, Held(t), o)
    BY <2>2, <2>3, OperationsOrderly DEF LocksIInv
  <2>5. owner' \in [L!Locks -> Threads \cup {NoThread}] /\ UNCHANGED shared /\ UNCHANGED owner
    BY <2>1 DEF LocksIInv
  <2>6. QED
    BY <1>2, <2>2, <2>4, <2>5, StepOfOne, Zenon
<1>4. ASSUME NEW t \in Threads, L!Choose(t) PROVE LocksIInv'
  <2>1. todo[t] # <<>> /\ Head(todo[t]).op = "choose" /\ UNCHANGED <<shared, owner>>
    BY <1>4 DEF L!Choose, L!At, L!Nothing
  <2>2. PICK a \in Head(todo[t]).among : todo' = [todo EXCEPT ![t] = a \o Tail(@)]
    BY <1>4, Zenon DEF L!Choose, L!Now, L!Continue
  <2>3. Orderly(shared, Held(t), a \o Tail(todo[t]))
    BY <1>2, <2>1, <2>2, OrderlyStep, Zenon
  <2>4. todo' = [todo EXCEPT ![t] = a \o Tail(todo[t])]
    BY <2>2
  <2>5. owner' \in [L!Locks -> Threads \cup {NoThread}] /\ UNCHANGED shared /\ UNCHANGED owner
    BY <2>1 DEF LocksIInv
  <2>6. QED
    BY <1>2, <2>3, <2>4, <2>5, StepOfOne, Zenon
\* The owner of a free lock is t now.
<1>5. ASSUME NEW t \in Threads, NEW l \in L!Locks, owner[l] = NoThread, owner' = [owner EXCEPT ![l] = t]
      PROVE  /\ l \notin Held(t) /\ owner' \in [L!Locks -> Threads \cup {NoThread}]
             /\ \A u \in Threads : Held(u)' = IF u = t THEN Held(t) \cup {l} ELSE Held(u)
  BY <1>5 DEF LocksIInv, LocksAssumption, Held
<1>6. ASSUME NEW t \in Threads, L!Lock(t) PROVE LocksIInv'
  <2>1. /\ todo[t] # <<>> /\ Head(todo[t]).op = "lock" /\ UNCHANGED shared
        /\ owner[Head(todo[t]).lock] = NoThread /\ owner' = [owner EXCEPT ![Head(todo[t]).lock] = t]
        /\ todo' = [todo EXCEPT ![t] = L!Nothing \o Tail(todo[t])]
    BY <1>6 DEF L!Lock, L!At, L!Nothing, L!Now, L!Continue
  <2>2. PICK l : l = Head(todo[t]).lock
    OBVIOUS
  <2>3. l \in UsedLocks(shared) /\ Orderly(shared, Held(t) \cup {l}, Tail(todo[t]))
    BY <1>2, <2>1, <2>2, OrderlyStep, Zenon
  <2>4. l \in L!Locks
    BY <2>3 DEF UsedLocks
  <2>5. todo' = [todo EXCEPT ![t] = Tail(todo[t])]
    BY <1>2, <2>1, Zenon
  <2>6. PICK H : H = Held(t) \cup {l}
    OBVIOUS
  <2>7. /\ owner' \in [L!Locks -> Threads \cup {NoThread}]
        /\ \A u \in Threads : Held(u)' = IF u = t THEN H ELSE Held(u)
    BY <1>5, <2>1, <2>2, <2>4, <2>6, Zenon
  <2>8. Orderly(shared, H, Tail(todo[t]))
    BY <2>3, <2>6, Zenon
  <2>9. QED
    BY <2>1, <2>5, <2>7, <2>8, StepOfOne, Zenon
<1>7. ASSUME NEW t \in Threads, L!TryLock(t) PROVE LocksIInv'
  <2>1. /\ todo[t] # <<>> /\ Head(todo[t]).op = "try" /\ UNCHANGED shared
        /\ \/ /\ owner[Head(todo[t]).lock] = NoThread
              /\ owner' = [owner EXCEPT ![Head(todo[t]).lock] = t]
              /\ todo' = [todo EXCEPT ![t] = Head(todo[t]).then \o Tail(todo[t])]
           \/ todo' = [todo EXCEPT ![t] = L!Nothing \o Tail(todo[t])] /\ UNCHANGED owner
    BY <1>7 DEF L!TryLock, L!At, L!Nothing, L!Now, L!Continue
  <2>2. PICK l : l = Head(todo[t]).lock
    OBVIOUS
  <2>3. /\ Orderly(shared, Held(t), Tail(todo[t]))
        /\ l \notin Held(t) => Orderly(shared, Held(t) \cup {l}, Head(todo[t]).then \o Tail(todo[t]))
    BY <1>2, <2>1, <2>2, OrderlyStep, Zenon
  <2>4. CASE /\ owner[l] = NoThread /\ owner' = [owner EXCEPT ![l] = t]
             /\ todo' = [todo EXCEPT ![t] = Head(todo[t]).then \o Tail(todo[t])]
    <3>1. l \notin Held(t)
      BY <2>4 DEF Held, LocksAssumption
    <3>2. PICK a, H : a = Head(todo[t]).then \o Tail(todo[t]) /\ H = Held(t) \cup {l}
      OBVIOUS
    <3>3. Orderly(shared, H, a)
      BY <2>3, <3>1, <3>2
    <3>4. Sound(shared, H)
      BY <3>3, OrderlyStep, Zenon
    <3>5. l \in L!Locks
      BY <3>2, <3>4 DEF Sound, UsedLocks
    <3>6. /\ todo' = [todo EXCEPT ![t] = a] /\ owner' \in [L!Locks -> Threads \cup {NoThread}]
          /\ \A u \in Threads : Held(u)' = IF u = t THEN H ELSE Held(u)
      BY <1>5, <2>4, <3>2, <3>5, Zenon
    <3>7. QED
      BY <2>1, <3>3, <3>6, StepOfOne, Zenon
  <2>5. CASE todo' = [todo EXCEPT ![t] = L!Nothing \o Tail(todo[t])] /\ UNCHANGED owner
    <3>1. todo' = [todo EXCEPT ![t] = Tail(todo[t])]
      BY <1>2, <2>1, <2>5, Zenon
    <3>2. owner' \in [L!Locks -> Threads \cup {NoThread}]
      BY <2>5 DEF LocksIInv
    <3>3. QED
      BY <1>2, <2>1, <2>3, <2>5, <3>1, <3>2, StepOfOne, Zenon
  <2>6. QED
    BY <2>1, <2>2, <2>4, <2>5
<1>8. ASSUME NEW t \in Threads, L!Unlock(t) PROVE LocksIInv'
  <2>1. /\ todo[t] # <<>> /\ Head(todo[t]).op = "unlock" /\ UNCHANGED shared
        /\ owner' = [owner EXCEPT ![Head(todo[t]).lock] = NoThread]
        /\ todo' = [todo EXCEPT ![t] = L!Nothing \o Tail(todo[t])]
    BY <1>8 DEF L!Unlock, L!At, L!Nothing, L!Now, L!Continue
  <2>2. PICK l : l = Head(todo[t]).lock
    OBVIOUS
  <2>3. l \in Held(t) /\ Orderly(shared, Held(t) \ {l}, Tail(todo[t]))
    BY <1>2, <2>1, <2>2, OrderlyStep, Zenon
  <2>4. /\ owner' \in [L!Locks -> Threads \cup {NoThread}]
        /\ \A u \in Threads : Held(u)' = IF u = t THEN Held(t) \ {l} ELSE Held(u)
    BY <2>1, <2>2, <2>3 DEF LocksIInv, LocksAssumption, Held
  <2>5. todo' = [todo EXCEPT ![t] = Tail(todo[t])]
    BY <1>2, <2>1, Zenon
  <2>6. QED
    BY <2>1, <2>3, <2>4, <2>5, StepOfOne, Zenon
<1>9. ASSUME NEW t \in Threads, L!Fork(t) PROVE LocksIInv'
  <2>1. /\ todo[t] # <<>> /\ Head(todo[t]).op = "fork" /\ UNCHANGED <<shared, owner>>
        /\ todo' = [todo EXCEPT ![t] = L!Nothing \o Tail(todo[t])]
    BY <1>9 DEF L!Fork, L!At, L!Nothing, L!Now, L!Continue
  <2>2. Orderly(shared, Held(t), Tail(todo[t]))
    BY <1>2, <2>1, OrderlyStep, Zenon
  <2>3. todo' = [todo EXCEPT ![t] = Tail(todo[t])]
    BY <1>2, <2>1, Zenon
  <2>4. owner' \in [L!Locks -> Threads \cup {NoThread}] /\ UNCHANGED shared /\ UNCHANGED owner
    BY <2>1 DEF LocksIInv
  <2>5. QED
    BY <1>2, <2>2, <2>3, <2>4, StepOfOne, Zenon
<1>10. QED
  BY <1>1, <1>3, <1>4, <1>6, <1>7, <1>8, <1>9 DEF L!Next

\* A step of any subject is one of the locks or leaves them alone.
LEMMA LocksSteps == ASSUME [Next]_<<subject, lvars, svars, xvars, tvars, cvars>> PROVE [L!Next]_(L!vars)
<1>1. L!Next \/ UNCHANGED lvars
  BY DEF Next, lvars, svars, xvars, tvars, cvars
<1>2. QED
  BY <1>1 DEF lvars, L!vars

\* The inductive invariant holds in every reachable state.
LEMMA LocksInvariance == ASSUME LocksAssumption PROVE Spec => []LocksIInv
<1>1. Init => LocksIInv
  BY LocksInit DEF Init
<1>2. LocksIInv /\ [Next]_<<subject, lvars, svars, xvars, tvars, cvars>> => LocksIInv'
  BY LocksStep, LocksSteps
<1>3. QED
  BY <1>1, <1>2, PTL DEF Spec

\* However many threads run however many operations of the allocator, with the
\* locks that these take inside each other, no set of threads waits for itself.
THEOREM NoDeadlock == ASSUME LocksAssumption PROVE Spec => []NoWaitCycle
<1>1. LocksIInv => L!NoWaitCycle
  <2>1. SUFFICES ASSUME LocksIInv, NEW W \in (SUBSET Threads) \ {{}},
                        \A t \in W : \E u \in W : L!WaitsFor(t, u)
                 PROVE  FALSE
    BY Zenon DEF L!NoWaitCycle
  <2> DEFINE Awaited(t) == Head(todo[t]).lock
             Top == NumTSDs + 2 * NumClasses + 11
             Depths == {n \in Nat : \E t \in W : n = Top - Level(Awaited(t))}
  <2>2. ASSUME NEW t \in W, NEW u \in W, L!WaitsFor(t, u)
        PROVE  /\ todo[t] # <<>> /\ Head(todo[t]).op = "lock" /\ owner[Awaited(t)] = u
               /\ Above(Held(t), Level(Awaited(t)))
               /\ Awaited(t) \in UsedLocks(shared) /\ Level(Awaited(t)) \in 0 .. Top
    <3>1. todo[t] # <<>> /\ Head(todo[t]).op = "lock" /\ owner[Awaited(t)] = u /\ t \in Threads
      BY <2>2 DEF L!WaitsFor, L!At, L!Now, L!Nothing
    <3>2. Orderly(shared, Held(t), todo[t])
      BY <2>1, <3>1 DEF LocksIInv
    <3>3. Above(Held(t), Level(Awaited(t))) /\ Awaited(t) \in UsedLocks(shared)
      BY <3>1, <3>2, OrderlyStep, Zenon
    <3>4. shared \in BOOLEAN
      BY <2>1 DEF LocksIInv
    <3>5. Level(Awaited(t)) \in 0 .. Top
      BY <3>3, <3>4, LevelsEnd, Zenon
    <3>6. QED
      BY <3>1, <3>3, <3>5, Zenon
  <2>3. PICK t0 \in W : TRUE
    BY <2>1
  <2>4. \A t \in W : Top - Level(Awaited(t)) \in Depths
    <3>1. SUFFICES ASSUME NEW t \in W PROVE Top - Level(Awaited(t)) \in Depths
      BY Zenon
    <3>2. Level(Awaited(t)) \in 0 .. Top
      BY <2>1, <2>2, Zenon
    <3>3. Top - Level(Awaited(t)) \in Nat
      BY <3>2 DEF LocksAssumption
    <3>4. QED
      BY <3>3, Zenon
  <2>5. PICK n \in Depths : \A k \in Depths : n <= k
    BY <2>3, <2>4, TP!Least
  <2>6. PICK t \in W : n = Top - Level(Awaited(t))
    BY <2>5, Zenon
  <2>7. PICK u \in W : L!WaitsFor(t, u)
    BY <2>1, Zenon
  <2>8. Awaited(t) \in Held(u)
    BY <2>2, <2>7 DEF Held, UsedLocks
  <2>9. Level(Awaited(t)) < Level(Awaited(u))
    <3>1. Above(Held(u), Level(Awaited(u)))
      BY <2>1, <2>2, Zenon
    <3>2. QED
      BY <2>8, <3>1, Zenon DEF Above
  <2>10. n <= Top - Level(Awaited(u)) /\ Level(Awaited(u)) \in 0 .. Top /\ Level(Awaited(t)) \in 0 .. Top
    BY <2>1, <2>2, <2>4, <2>5, Zenon
  <2>11. QED
    BY <2>6, <2>9, <2>10 DEF LocksAssumption
<1>2. LocksIInv => NoWaitCycle
  BY <1>1 DEF NoWaitCycle
<1>3. QED
  BY <1>2, LocksInvariance, PTL

\* The child of a fork() between disable() and enable() finds no lock but MutexTSDs
\* held by a thread that it does not have.
THEOREM SafeToFork == ASSUME LocksAssumption PROVE Spec => []ForkSafe
<1>1. ASSUME LocksIInv, NEW l \in L!LeftLocked PROVE l = L!MutexTSDs
  <2>1. l \in L!Locks
    BY DEF L!LeftLocked
  <2>2. PICK t \in Threads, u \in Threads : t # u /\ L!At(t, "fork") /\ owner[l] = u
    BY DEF L!LeftLocked
  <2>3. Orderly(shared, Held(t), todo[t]) /\ Orderly(shared, Held(u), todo[u]) /\ shared \in BOOLEAN
    BY <1>1 DEF LocksIInv
  <2>4. ForkHeld(shared) \subseteq Held(t)
    <3>1. todo[t] # <<>> /\ Head(todo[t]).op = "fork"
      BY <2>2 DEF L!At, L!Nothing
    <3>2. QED
      BY <2>3, <3>1, OrderlyStep, Zenon
  <2>5. Sound(shared, Held(u))
    BY <2>3, OrderlyStep, Zenon
  <2>6. \A k \in Held(u) : k \notin ForkHeld(shared)
    BY <2>2, <2>4 DEF Held
  <2>7. l \in Held(u)
    BY <2>1, <2>2 DEF Held
  <2>8. l # L!Buffers
    <3>1. ASSUME l = L!Buffers PROVE FALSE
      <4>1. PICK c \in L!AllClasses : L!MM(c) \in Held(u)
        BY <2>5, <2>7, <3>1 DEF Sound
      <4>2. L!MM(c) \in ForkHeld(shared)
        BY <2>3, Rungs, Zenon
      <4>3. QED
        BY <2>6, <4>1, <4>2
    <3>2. QED
      BY <3>1
  <2>9. QED
    BY <2>5, <2>6, <2>7, <2>8 DEF Sound, ForkHeld
<1>2. LocksIInv => ForkSafe
  BY <1>1 DEF ForkSafe, L!ForkSafe
<1>3. QED
  BY <1>2, LocksInvariance, PTL
=============================================================================
