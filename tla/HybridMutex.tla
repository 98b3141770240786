---------------------------- MODULE HybridMutex -----------------------------
(***************************************************************************)
(* scudo::HybridMutex on Linux: the spinning fast path of mutex.h and the  *)
(* futex slow path of linux.cpp.  One step is one atomic access to M or    *)
(* one system call.                                                        *)
(***************************************************************************)
EXTENDS Naturals

CONSTANTS
  Threads,         \* the threads that use this mutex
  NumberOfTries    \* spins before lockSlow()

VARIABLES
  M,       \* the futex word
  pc,      \* where each thread is
  tries    \* the loop counter I of lock(), per thread

vars == <<M, pc, tries>>

Unlocked == 0
Locked   == 1
Sleeping == 2

(***************************************************************************)
(* "out"      not using the mutex         "owner"  in the critical section *)
(* "spin"     about to tryLock() in lock()                                 *)
(* "slowCAS", "slowXchg", "wait", "asleep"   the stages of lockSlow()      *)
(* "store", "wake"                           the slow stages of unlock()   *)
(***************************************************************************)
Locations == {"out", "spin", "owner", "slowCAS", "slowXchg", "wait",
              "asleep", "store", "wake"}

Goto(t, loc) == pc' = [pc EXCEPT ![t] = loc]

Asleep == {t \in Threads : pc[t] = "asleep"}

Init ==
  /\ M = Unlocked
  /\ pc = [t \in Threads |-> "out"]
  /\ tries = [t \in Threads |-> 0]

\* tryLock() on its own, as TSD::tryLock and GlobalQuarantine::drain use it.
\* A failed attempt changes nothing.
TryLock(t) ==
  /\ pc[t] = "out"
  /\ M = Unlocked
  /\ M' = Locked
  /\ Goto(t, "owner")
  /\ UNCHANGED tries

Lock(t) ==
  /\ pc[t] = "out"
  /\ Goto(t, "spin")
  /\ tries' = [tries EXCEPT ![t] = 0]
  /\ UNCHANGED M

\* The first tryLock() of lock() and then at most NumberOfTries more.
Spin(t) ==
  /\ pc[t] = "spin"
  /\ \/ /\ M = Unlocked
        /\ M' = Locked
        /\ Goto(t, "owner")
        /\ UNCHANGED tries
     \/ /\ M # Unlocked
        /\ tries[t] < NumberOfTries
        /\ tries' = [tries EXCEPT ![t] = @ + 1]
        /\ UNCHANGED <<M, pc>>
     \/ /\ M # Unlocked
        /\ tries[t] = NumberOfTries
        /\ Goto(t, "slowCAS")
        /\ UNCHANGED <<M, tries>>

SlowCAS(t) ==
  /\ pc[t] = "slowCAS"
  /\ \/ M = Unlocked /\ M' = Locked   /\ Goto(t, "owner")
     \/ M = Locked   /\ UNCHANGED M   /\ Goto(t, "slowXchg")
     \/ M = Sleeping /\ UNCHANGED M   /\ Goto(t, "wait")
  /\ UNCHANGED tries

\* Mutant: only a Sleeping word is taken for a lock that is held.
SlowXchgTakesLocked(t) ==
  /\ pc[t] = "slowXchg"
  /\ M' = Sleeping
  /\ Goto(t, IF M # Sleeping THEN "owner" ELSE "wait")
  /\ UNCHANGED tries

\* atomic_exchange(&M, Sleeping): the old value says whether t owns M now.
SlowXchg(t) ==
  /\ pc[t] = "slowXchg"
  /\ M' = Sleeping
  /\ Goto(t, IF M = Unlocked THEN "owner" ELSE "wait")
  /\ UNCHANGED tries

\* FUTEX_WAIT compares and enqueues atomically; a stale value returns at once.
FutexWait(t) ==
  /\ pc[t] = "wait"
  /\ Goto(t, IF M = Sleeping THEN "asleep" ELSE "slowXchg")
  /\ UNCHANGED <<M, tries>>

\* A signal or a stray wake ends FUTEX_WAIT; its result is not looked at.
SpuriousWake(t) ==
  /\ pc[t] = "asleep"
  /\ Goto(t, "slowXchg")
  /\ UNCHANGED <<M, tries>>

\* Mutant: the slow unlock() clears M and forgets the wake.
UnlockWithoutWake(t) ==
  /\ pc[t] = "owner"
  /\ M' = Unlocked
  /\ Goto(t, "out")
  /\ UNCHANGED tries

\* Mutant: the store comes before the fetch_sub's result is known.
UnlockStoresFirst(t) ==
  /\ pc[t] = "owner"
  /\ M' = Unlocked
  /\ Goto(t, IF M = Locked THEN "out" ELSE "store")
  /\ UNCHANGED tries

\* The atomic_fetch_sub of unlock().
Unlock(t) ==
  /\ pc[t] = "owner"
  /\ M' = M - 1
  /\ Goto(t, IF M = Locked THEN "out" ELSE "store")
  /\ UNCHANGED tries

UnlockStore(t) ==
  /\ pc[t] = "store"
  /\ M' = Unlocked
  /\ Goto(t, "wake")
  /\ UNCHANGED tries

\* FUTEX_WAKE of one waiter, if there is one.
UnlockWake(t) ==
  /\ pc[t] = "wake"
  /\ \/ /\ Asleep = {}
        /\ Goto(t, "out")
     \/ \E w \in Asleep :
          pc' = [pc EXCEPT ![t] = "out", ![w] = "slowXchg"]
  /\ UNCHANGED <<M, tries>>

\* The steps a running thread takes once it has called lock() or unlock().
Run(t) == Spin(t) \/ SlowCAS(t) \/ SlowXchg(t) \/ FutexWait(t)
            \/ Unlock(t) \/ UnlockStore(t) \/ UnlockWake(t)

Next == \E t \in Threads : TryLock(t) \/ Lock(t) \/ SpuriousWake(t) \/ Run(t)

Spec == Init /\ [][Next]_vars

\* The kernel runs every runnable thread; no thread has to call lock() again
\* and no signal has to arrive, so these stay without fairness.
Fairness == \A t \in Threads : WF_vars(Run(t))

FairSpec == Spec /\ Fairness
-----------------------------------------------------------------------------
\* The futex word stays in the enum State of linux.cpp: in particular the
\* fetch_sub of unlock() never wraps the u32 below zero.
TypeOK ==
  /\ M \in {Unlocked, Locked, Sleeping}
  /\ pc \in [Threads -> Locations]
  /\ tries \in [Threads -> 0 .. NumberOfTries]

\* A thread owns the mutex until the write of Unlocked to M.
Owns(t) == pc[t] \in {"owner", "store"}

\* unlock() of linux.cpp never lets a second thread in between the fetch_sub
\* and the store that follows it, whatever lockSlow() exchanges meanwhile.
MutualExclusion == \A s, t \in Threads : Owns(s) /\ Owns(t) => s = t

\* M is Unlocked exactly when nobody owns the mutex.
WordMatchesOwner == (M = Unlocked) <=> (\A t \in Threads : ~Owns(t))

\* Whenever a thread is inside lock(), some thread gets the mutex.
LockProgress ==
  (\E t \in Threads : pc[t] \in {"spin", "slowCAS", "slowXchg", "wait", "asleep"})
    ~> (\E t \in Threads : pc[t] = "owner")

\* HybridMutex is a lock.
Abstract == INSTANCE AbstractLock WITH owners <- {t \in Threads : Owns(t)}

ImplementsLock == Abstract!Spec
=============================================================================
