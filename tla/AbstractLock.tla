---------------------------- MODULE AbstractLock ----------------------------
(***************************************************************************)
(* What a mutex promises its callers: at most one thread is between the    *)
(* return of lock() (or a successful tryLock()) and the effect of its      *)
(* unlock().  HybridMutex implements this specification, and the modules   *)
(* of the components that take a HybridMutex use it in this abstract form. *)
(***************************************************************************)
CONSTANT Threads

VARIABLE owners   \* the threads that own the mutex

Init == owners = {}

Acquire(t) == owners = {} /\ owners' = {t}

Release(t) == owners = {t} /\ owners' = {}

Next == \E t \in Threads : Acquire(t) \/ Release(t)

Spec == Init /\ [][Next]_owners
=============================================================================
