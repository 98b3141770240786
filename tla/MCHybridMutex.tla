--------------------------- MODULE MCHybridMutex ----------------------------
(* HybridMutex with three threads: one owner, one sleeper and one thread   *)
(* that barges in are needed for the lost-wakeup cases.  Its variables and *)
(* properties have names here that a module can use next to those of the   *)
(* condition variable.                                                     *)
EXTENDS Naturals

CONSTANTS Lockers, NumberOfTries

ASSUME NumberOfTriesAssumption == NumberOfTries \in Nat

VARIABLES M, mutexPc, tries

Mutex == INSTANCE HybridMutex WITH Threads <- Lockers, pc <- mutexPc

MutexSpec == Mutex!FairSpec
-----------------------------------------------------------------------------
\* unlock() of linux.cpp never lets a second thread in.
MutualExclusion == Mutex!MutualExclusion

\* Whenever a thread is inside lock(), some thread gets the mutex.
LockProgress == Mutex!LockProgress

\* HybridMutex is the lock that other modules take it for.
ImplementsLock == Mutex!ImplementsLock
=============================================================================
