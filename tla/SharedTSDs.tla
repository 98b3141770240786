------------------------------ MODULE SharedTSDs ------------------------------
(***************************************************************************)
(* TSDRegistrySharedT: threads share an array of TSDs, of which the first  *)
(* NumberOfTSDs are in use.  A thread that finds its TSD locked walks over *)
(* others and stays with the one it gets.  A hold of MutexTSDs in which    *)
(* the thread takes no other lock is one step.  The array has more than    *)
(* one TSD.                                                                *)
(***************************************************************************)
EXTENDS Integers, Sequences

CONSTANTS
  Threads, NoThread,
  TSDsArraySize, DefaultTSDCount,
  MaxTime         \* bound: clock values that a Precedence can be

VARIABLES
  Mutex, MutexTSDs, TSDs,       \* the owners of the locks
  Precedence,
  NumberOfTSDs, CoPrimes,
  CurrentIndex,
  CurrentTSD,     \* of every thread, NoTSD before initThread()
  pc, walk        \* where a thread is and the locals of getTSDAndLockSlow()

locks == <<Mutex, MutexTSDs, TSDs>>
sizes == <<NumberOfTSDs, CoPrimes>>
vars == <<locks, Precedence, sizes, CurrentIndex, CurrentTSD, pc, walk>>

Indices == 0 .. TSDsArraySize - 1
NoTSD == TSDsArraySize

NoWalk == [N |-> 0, Inc |-> 0, Index |-> 0, tried |-> <<>>, candidate |-> NoTSD, lowest |-> 0]

Goto(t, l) == pc' = [pc EXCEPT ![t] = l]

Init ==
  /\ Mutex = NoThread /\ MutexTSDs = NoThread
  /\ TSDs = [i \in Indices |-> NoThread]
  /\ Precedence = [i \in Indices |-> 0]
  /\ NumberOfTSDs = 0 /\ CoPrimes = {} /\ CurrentIndex = 0
  /\ CurrentTSD = [t \in Threads |-> NoTSD]
  /\ pc = [t \in Threads |-> "idle"]
  /\ walk = [t \in Threads |-> NoWalk]

\* Mutant: every step length counts as a co-prime.
AllNumbers(n) == 1 .. n

\* The numbers up to n that have no divisor with n in common.
CoPrimesOf(n) == {a \in 1 .. n : \A d \in 2 .. n : a % d # 0 \/ n % d # 0}

\* Mutant: the number of TSDs can be lowered.
setAnyNumberOfTSDs(n) ==
  /\ MutexTSDs = NoThread
  /\ NumberOfTSDs' = n /\ CoPrimes' = CoPrimesOf(NumberOfTSDs')
  /\ UNCHANGED MutexTSDs

\* The number never goes down, so a smaller one changes nothing.
setNumberOfTSDs(n) ==
  /\ MutexTSDs = NoThread
  /\ IF n < NumberOfTSDs THEN UNCHANGED sizes
     ELSE /\ NumberOfTSDs' = IF n > TSDsArraySize THEN TSDsArraySize ELSE n
          /\ CoPrimes' = CoPrimesOf(NumberOfTSDs')
  /\ UNCHANGED MutexTSDs

(***************************************************************************)
(* initThread().  NumberOfTSDs = 0 stands for Initialized = false.         *)
(***************************************************************************)
LockRegistry(t) ==
  /\ pc[t] = "idle" /\ CurrentTSD[t] = NoTSD
  /\ Mutex = NoThread /\ Mutex' = t
  /\ Goto(t, "init")
  /\ UNCHANGED <<MutexTSDs, TSDs, Precedence, sizes, CurrentIndex, CurrentTSD, walk>>

initOnceMaybe(t) ==
  /\ pc[t] = "init"
  /\ IF NumberOfTSDs = 0 THEN setNumberOfTSDs(DefaultTSDCount) ELSE UNCHANGED <<MutexTSDs, sizes>>
  /\ Mutex' = NoThread
  /\ Goto(t, "assign")
  /\ UNCHANGED <<TSDs, Precedence, CurrentIndex, CurrentTSD, walk>>

\* Without MutexTSDs.
AssignTSD(t) ==
  /\ pc[t] = "assign"
  /\ CurrentTSD' = [CurrentTSD EXCEPT ![t] = CurrentIndex % NumberOfTSDs]
  /\ CurrentIndex' = CurrentIndex + 1
  /\ Goto(t, "idle")
  /\ UNCHANGED <<locks, Precedence, sizes, walk>>

(***************************************************************************)
(* TSD.                                                                    *)
(***************************************************************************)
\* t gets TSD i and goes on at ok, or marks i as busy since now.
tryLock(t, i) ==
  IF TSDs[i] = NoThread
  THEN TSDs' = [TSDs EXCEPT ![i] = t] /\ Precedence' = [Precedence EXCEPT ![i] = 0]
  ELSE /\ UNCHANGED TSDs
       /\ IF Precedence[i] # 0 THEN UNCHANGED Precedence
          ELSE \E now \in 1 .. MaxTime : Precedence' = [Precedence EXCEPT ![i] = now]

\* The first half of lock(); the thread goes on to wait for its current TSD.
ClearPrecedence(t, i) ==
  /\ Precedence' = [Precedence EXCEPT ![i] = 0]
  /\ CurrentTSD' = [CurrentTSD EXCEPT ![t] = i]
  /\ Goto(t, "wait")

LockTSD(t) ==
  /\ pc[t] = "wait" /\ TSDs[CurrentTSD[t]] = NoThread
  /\ TSDs' = [TSDs EXCEPT ![CurrentTSD[t]] = t]
  /\ Goto(t, "using")
  /\ UNCHANGED <<Mutex, MutexTSDs, Precedence, sizes, CurrentIndex, CurrentTSD, walk>>

\* ~ScopedTSD(), after an operation that may have left something in the TSD.
UnlockTSD(t) ==
  /\ pc[t] = "using"
  /\ TSDs' = [TSDs EXCEPT ![CurrentTSD[t]] = NoThread]
  /\ Goto(t, "idle")
  /\ UNCHANGED <<Mutex, MutexTSDs, Precedence, sizes, CurrentIndex, CurrentTSD, walk>>

(***************************************************************************)
(* getTSDAndLock().                                                        *)
(***************************************************************************)
getTSDAndLock(t) ==
  /\ pc[t] = "idle" /\ CurrentTSD[t] # NoTSD
  /\ tryLock(t, CurrentTSD[t])
  /\ Goto(t, IF TSDs[CurrentTSD[t]] = NoThread THEN "using" ELSE "slow")
  /\ UNCHANGED <<Mutex, MutexTSDs, sizes, CurrentIndex, CurrentTSD, walk>>

\* The remainders of R, a time stamp that is read before MutexTSDs is locked, say
\* where to begin and in which steps to go on.
StartWalk(t) ==
  /\ pc[t] = "slow" /\ MutexTSDs = NoThread
  /\ \E Index \in 0 .. NumberOfTSDs - 1, Inc \in CoPrimes :
       walk' = [walk EXCEPT ![t] = [NoWalk EXCEPT !.N = NumberOfTSDs, !.Index = Index, !.Inc = Inc]]
  /\ Goto(t, "walk")
  /\ UNCHANGED <<locks, Precedence, sizes, CurrentIndex, CurrentTSD>>

MaxTries(w) == IF w.N > 4 THEN 4 ELSE w.N
WalkEnds(w) == w.N = 1 \/ Len(w.tried) = MaxTries(w)

\* Whether a TSD with Precedence p is a better candidate.
Better(w, p) == p # 0 /\ (w.candidate = NoTSD \/ p < w.lowest)

\* The Precedence of a TSD that is locked is read after its tryLock().
TryNext(t) ==
  LET w == walk[t] i == w.Index IN
  /\ pc[t] = "walk" /\ ~WalkEnds(w)
  /\ tryLock(t, i)
  /\ IF TSDs[i] = NoThread
     THEN /\ CurrentTSD' = [CurrentTSD EXCEPT ![t] = i]
          /\ walk' = [walk EXCEPT ![t] = NoWalk] /\ Goto(t, "using")
     ELSE /\ walk' = [walk EXCEPT ![t] =
               [w EXCEPT !.tried = Append(@, i),
                         !.Index = (i + w.Inc) % w.N,
                         !.candidate = IF Better(w, Precedence'[i]) THEN i ELSE @,
                         !.lowest = IF Better(w, Precedence'[i]) THEN Precedence'[i] ELSE @]]
          /\ UNCHANGED <<CurrentTSD, pc>>
  /\ UNCHANGED <<Mutex, MutexTSDs, sizes, CurrentIndex>>

\* The candidate, or the last resort.
StopWalk(t) ==
  LET w == walk[t] IN
  /\ pc[t] = "walk" /\ WalkEnds(w)
  /\ ClearPrecedence(t, IF w.candidate # NoTSD THEN w.candidate ELSE CurrentTSD[t])
  /\ walk' = [walk EXCEPT ![t] = NoWalk]
  /\ UNCHANGED <<locks, sizes, CurrentIndex>>

(***************************************************************************)
(* Options, drainCaches() and disable().                                   *)
(***************************************************************************)
setOption(t) ==
  /\ pc[t] = "idle" /\ CurrentTSD[t] # NoTSD
  /\ \E n \in 1 .. TSDsArraySize + 1 : setNumberOfTSDs(n)
  /\ UNCHANGED <<Mutex, TSDs, Precedence, CurrentIndex, CurrentTSD, pc, walk>>

StartDrain(t) ==
  /\ pc[t] = "idle" /\ CurrentTSD[t] # NoTSD
  /\ MutexTSDs = NoThread /\ MutexTSDs' = t
  /\ walk' = [walk EXCEPT ![t] = NoWalk]
  /\ Goto(t, "drain")
  /\ UNCHANGED <<Mutex, TSDs, Precedence, sizes, CurrentIndex, CurrentTSD>>

\* One TSD is locked, drained and unlocked again.
DrainTSD(t) ==
  LET i == walk[t].Index IN
  /\ pc[t] = "drain" /\ i < NumberOfTSDs /\ TSDs[i] = NoThread
  /\ Precedence' = [Precedence EXCEPT ![i] = 0]
  /\ walk' = [walk EXCEPT ![t].Index = @ + 1]
  /\ UNCHANGED <<locks, sizes, CurrentIndex, CurrentTSD, pc>>

EndDrain(t) ==
  /\ pc[t] = "drain" /\ walk[t].Index = NumberOfTSDs
  /\ MutexTSDs' = NoThread
  /\ walk' = [walk EXCEPT ![t] = NoWalk]
  /\ Goto(t, "idle")
  /\ UNCHANGED <<Mutex, TSDs, Precedence, sizes, CurrentIndex, CurrentTSD>>

disable(t) ==
  /\ pc[t] = "idle" /\ CurrentTSD[t] # NoTSD
  /\ Mutex = NoThread /\ Mutex' = t
  /\ Goto(t, "disable")
  /\ UNCHANGED <<MutexTSDs, TSDs, Precedence, sizes, CurrentIndex, CurrentTSD, walk>>

\* All of the array, in its order.
DisableTSD(t) ==
  \E i \in Indices :
    /\ pc[t] = "disable"
    /\ TSDs[i] = NoThread /\ \A j \in 0 .. i - 1 : TSDs[j] = t
    /\ TSDs' = [TSDs EXCEPT ![i] = t] /\ Precedence' = [Precedence EXCEPT ![i] = 0]
    /\ UNCHANGED <<Mutex, MutexTSDs, sizes, CurrentIndex, CurrentTSD, pc, walk>>

\* The order of the unlock() calls does not matter to anyone.
enable(t) ==
  /\ pc[t] = "disable" /\ \A i \in Indices : TSDs[i] = t
  /\ TSDs' = [i \in Indices |-> NoThread]
  /\ Mutex' = NoThread
  /\ Goto(t, "idle")
  /\ UNCHANGED <<MutexTSDs, Precedence, sizes, CurrentIndex, CurrentTSD, walk>>

Step(t) ==
  \/ LockRegistry(t) \/ initOnceMaybe(t) \/ AssignTSD(t)
  \/ getTSDAndLock(t) \/ StartWalk(t) \/ TryNext(t) \/ StopWalk(t) \/ LockTSD(t) \/ UnlockTSD(t)
  \/ setOption(t) \/ StartDrain(t) \/ DrainTSD(t) \/ EndDrain(t)
  \/ disable(t) \/ DisableTSD(t) \/ enable(t)

Next == \E t \in Threads : Step(t)

Spec == Init /\ [][Next]_vars

(***************************************************************************)
(* Properties.                                                             *)
(***************************************************************************)
\* getTSDAndLockSlow() tries a different TSD of those in use every time, although
\* the number of TSDs and their co-primes may change while it walks.
WalkVisitsNew ==
  \A t \in Threads : LET w == walk[t] IN
    pc[t] = "walk" /\ ~WalkEnds(w) => w.Index < NumberOfTSDs /\ \A k \in DOMAIN w.tried : w.tried[k] # w.Index

\* drainCaches() and getStats() reach every TSD that a thread uses, and with it
\* every one in which blocks can be left, whatever the order of setOption() and
\* of initThread(), which reads NumberOfTSDs without its lock.
DrainReachesAll ==
  \A t \in Threads : CurrentTSD[t] # NoTSD => CurrentTSD[t] < NumberOfTSDs
=============================================================================
