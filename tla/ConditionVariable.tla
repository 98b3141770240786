-------------------------- MODULE ConditionVariable -------------------------
(***************************************************************************)
(* scudo::ConditionVariableLinux: a condition variable in one futex word,  *)
(* Counter.  notifyAll() skips the system call when LastNotifyAll says     *)
(* that nobody called wait() since the previous notifyAll().  Both calls   *)
(* are made with the mutex M held; M itself is the abstract lock that      *)
(* HybridMutex implements.  One step is one access to Counter that other   *)
(* threads can see, one system call, or taking or leaving M.               *)
(***************************************************************************)
EXTENDS Integers

CONSTANTS
  Threads,     \* the threads that use the condition variable
  NoThread,    \* the owner of a free M
  Modulus,     \* 2^32 for the u32 Counter: the values wrap around
  Starts,      \* values Counter may have in the quiet state we start in
  MaxCalls     \* bound: calls of wait() and notifyAll() in a behaviour

\* A thread suspended between its unlock of M and its FUTEX_WAIT would miss
\* Modulus calls in between; the bound leaves that case out.
ASSUME ConstantsAssumption ==
  /\ NoThread \notin Threads
  /\ Modulus \in Nat \ {0}
  /\ Starts \subseteq 0 .. Modulus - 1
  /\ MaxCalls \in 0 .. Modulus - 1

VARIABLES
  owner,          \* the thread that owns M, or NoThread
  Counter,        \* the futex word
  LastNotifyAll,  \* Counter as the last notifyAll() left it
  pc,             \* where each thread is
  V,              \* the local V of waitImpl() and notifyAllImpl()
  notified,       \* threads in wait() that a notifyAll() has come after
  calls           \* calls made so far

vars == <<owner, Counter, LastNotifyAll, pc, V, notified, calls>>

(***************************************************************************)
(* "out"      without M                  "in"       owns M                 *)
(* "futex"    in wait(), about to call FUTEX_WAIT                          *)
(* "asleep"   in FUTEX_WAIT              "relock"   in wait(), at M.lock() *)
(* "wake"     in notifyAll(), Counter stored                               *)
(***************************************************************************)
Locations == {"out", "in", "futex", "asleep", "relock", "wake"}

Waiting == {t \in Threads : pc[t] \in {"futex", "asleep"}}

Plus1(n) == (n + 1) % Modulus

Init ==
  /\ owner = NoThread
  /\ Counter \in Starts
  /\ LastNotifyAll = Counter
  /\ pc = [t \in Threads |-> "out"]
  /\ V = [t \in Threads |-> Counter]
  /\ notified = {}
  /\ calls = 0

Lock(t) ==
  /\ pc[t] \in {"out", "relock"}
  /\ owner = NoThread
  /\ owner' = t
  /\ pc' = [pc EXCEPT ![t] = "in"]
  /\ UNCHANGED <<Counter, LastNotifyAll, V, notified, calls>>

Unlock(t) ==
  /\ pc[t] = "in"
  /\ owner' = NoThread
  /\ pc' = [pc EXCEPT ![t] = "out"]
  /\ UNCHANGED <<Counter, LastNotifyAll, V, notified, calls>>

\* Mutant: wait() does not announce itself in Counter.
WaitSilently(t) ==
  /\ pc[t] = "in"
  /\ calls < MaxCalls
  /\ calls' = calls + 1
  /\ V' = [V EXCEPT ![t] = Counter]
  /\ owner' = NoThread
  /\ pc' = [pc EXCEPT ![t] = "futex"]
  /\ notified' = notified \ {t}
  /\ UNCHANGED <<Counter, LastNotifyAll>>

\* waitImpl() up to the unlock of M.
Wait(t) ==
  /\ pc[t] = "in"
  /\ calls < MaxCalls
  /\ calls' = calls + 1
  /\ Counter' = Plus1(Counter)
  /\ V' = [V EXCEPT ![t] = Plus1(Counter)]
  /\ owner' = NoThread
  /\ pc' = [pc EXCEPT ![t] = "futex"]
  /\ notified' = notified \ {t}
  /\ UNCHANGED LastNotifyAll

\* The kernel compares Counter with V and enqueues in one step.
FutexWait(t) ==
  /\ pc[t] = "futex"
  /\ pc' = [pc EXCEPT ![t] = IF Counter = V[t] THEN "asleep" ELSE "relock"]
  /\ UNCHANGED <<owner, Counter, LastNotifyAll, V, notified, calls>>

\* A signal ends FUTEX_WAIT.
SpuriousWake(t) ==
  /\ pc[t] = "asleep"
  /\ pc' = [pc EXCEPT ![t] = "relock"]
  /\ UNCHANGED <<owner, Counter, LastNotifyAll, V, notified, calls>>

\* Mutant: notifyAllImpl() leaves the store to Counter for the end.
NotifyWithoutStore(t) ==
  /\ pc[t] = "in"
  /\ calls < MaxCalls
  /\ calls' = calls + 1
  /\ V' = [V EXCEPT ![t] = Counter]
  /\ notified' = notified \cup Waiting
  /\ pc' = [pc EXCEPT ![t] = "wake"]
  /\ UNCHANGED <<owner, Counter, LastNotifyAll>>

\* The load and the store of notifyAllImpl(): from here on every thread that
\* is in wait() has been notified.
Notify(t) ==
  /\ pc[t] = "in"
  /\ calls < MaxCalls
  /\ calls' = calls + 1
  /\ V' = [V EXCEPT ![t] = Counter]
  /\ Counter' = Plus1(Counter)
  /\ notified' = notified \cup Waiting
  /\ pc' = [pc EXCEPT ![t] = "wake"]
  /\ UNCHANGED <<owner, LastNotifyAll>>

\* FUTEX_WAKE of every sleeper, skipped when Counter did not move since the
\* last notifyAll().
WakeAll(t) ==
  /\ pc[t] = "wake"
  /\ pc' = [s \in Threads |->
              CASE s = t -> "in"
                [] s # t /\ pc[s] = "asleep" /\ LastNotifyAll # V[t] -> "relock"
                [] OTHER -> pc[s]]
  /\ LastNotifyAll' = Plus1(V[t])
  /\ UNCHANGED <<owner, Counter, V, notified, calls>>

Run(t) == FutexWait(t) \/ WakeAll(t)

Next ==
  \E t \in Threads : Lock(t) \/ Unlock(t) \/ Wait(t) \/ Notify(t)
                       \/ SpuriousWake(t) \/ Run(t)

Spec == Init /\ [][Next]_vars

\* A thread inside a system call, or between two instructions of notifyAll(),
\* is eventually run by the kernel.  Nothing is assumed of M or of signals.
FairSpec == Spec /\ \A t \in Threads : WF_vars(Run(t))
-----------------------------------------------------------------------------
\* The u32s stay u32s and owner is the thread that pc says owns M.
TypeOK ==
  /\ owner \in Threads \cup {NoThread}
  /\ Counter \in 0 .. Modulus - 1
  /\ LastNotifyAll \in 0 .. Modulus - 1
  /\ pc \in [Threads -> Locations]
  /\ V \in [Threads -> 0 .. Modulus - 1]
  /\ notified \subseteq Threads
  /\ calls \in 0 .. MaxCalls
  /\ \A t \in Threads : pc[t] \in {"in", "wake"} <=> owner = t

\* The LastNotifyAll shortcut of notifyAllImpl() never skips a FUTEX_WAKE that
\* someone needs: once notifyAll() is done, no thread that had called wait()
\* before it is asleep, and one that has not reached FUTEX_WAIT yet will find
\* that Counter is no longer its V.
NoLostNotification ==
  (\A n \in Threads : pc[n] # "wake") =>
    \A t \in notified : /\ pc[t] # "asleep"
                        /\ pc[t] = "futex" => Counter # V[t]

\* A notified wait() comes back to M.lock(), even if M is never free again.
NotifiedReturns ==
  \A t \in Threads :
    (t \in notified /\ pc[t] \in {"futex", "asleep"}) ~> pc[t] = "relock"
=============================================================================
