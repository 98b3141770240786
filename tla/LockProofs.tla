------------------------------ MODULE LockProofs ------------------------------
(***************************************************************************)
(* The condition variable, the mutex and the region that stands on both.   *)
(* For every set of threads and every width of the counter: the shortcut   *)
(* of notifyAllImpl() skips no wake that a waiter needs, as long as fewer  *)
(* calls are made than the counter has values.  For every set of threads   *)
(* and every NumberOfTries: HybridMutex excludes, keeps its futex word in  *)
(* range and implements AbstractLock.  For every set of threads and every  *)
(* size of the region: the two locks and the refill flag of                *)
(* SizeClassAllocator64 keep its blocks together.                          *)
(***************************************************************************)
EXTENDS ConditionVariable, MCHybridMutex, MCRegion, FiniteSetTheorems, TLAPS

\* How often the counter was incremented to get from v to c.
Ahead(c, v) == IF c >= v THEN c - v ELSE c - v + Modulus

\* The counter has not been around since V or LastNotifyAll was read.
Recent ==
  /\ Ahead(Counter, LastNotifyAll) <= calls
  /\ \A t \in Waiting : Ahead(Counter, V[t]) <= calls

\* notifyAll() is in its second half only on behalf of everybody in wait(); it
\* is one increment ahead of the value that it compares with LastNotifyAll.
NotifyPending ==
  \A n \in Threads : pc[n] = "wake" =>
    Waiting \subseteq notified /\ Ahead(Counter, V[n]) = 1

\* A thread that a notifyAll() has come after sees another counter, and one in
\* wait() for which no FUTEX_WAKE was due yet has counted past LastNotifyAll.
WaitersCounted ==
  \A t \in Waiting :
    /\ t \in notified => Ahead(Counter, V[t]) >= 1
    /\ t \notin notified \/ pc[t] = "asleep" =>
         Ahead(Counter, V[t]) < Ahead(Counter, LastNotifyAll)

\* Whoever is notified and asleep is about to be woken.
WakeDue ==
  (\E t \in notified : pc[t] = "asleep") => \E n \in Threads : pc[n] = "wake"

\* The inductive invariant: what the comparison in notifyAllImpl() relies on.
IInv == TypeOK /\ Recent /\ NotifyPending /\ WaitersCounted /\ WakeDue
-----------------------------------------------------------------------------
\* The increment of a u32: one more, or around to zero.
LEMMA Plus1Value ==
  ASSUME NEW n \in 0 .. Modulus - 1
  PROVE  /\ Plus1(n) = (IF n = Modulus - 1 THEN 0 ELSE n + 1)
         /\ Plus1(n) \in 0 .. Modulus - 1
<1>1. Modulus \in Nat /\ Modulus > 0
  BY ConstantsAssumption
<1>2. CASE n = Modulus - 1
  <2>1. n + 1 = Modulus
    BY <1>1, <1>2
  <2>2. Modulus % Modulus = 0
    BY <1>1
  <2> QED  BY <1>1, <1>2, <2>1, <2>2 DEF Plus1
<1>3. CASE n # Modulus - 1
  <2>1. n + 1 \in 0 .. Modulus - 1
    BY <1>1, <1>3
  <2>2. (n + 1) % Modulus = n + 1
    BY <1>1, <2>1
  <2> QED  BY <1>1, <1>3, <2>1, <2>2 DEF Plus1
<1> QED  BY <1>2, <1>3

\* Incrementing the counter moves it one further from any value that it has
\* not been around since.
LEMMA AheadOfPlus1 ==
  ASSUME NEW c \in 0 .. Modulus - 1, NEW v \in 0 .. Modulus - 1
  PROVE  /\ Ahead(c, v) \in 0 .. Modulus - 1
         /\ Ahead(c, v) = 0 <=> c = v
         /\ Ahead(c, v) = 1 => Plus1(v) = c
         /\ Ahead(c, v) + 1 < Modulus => Ahead(Plus1(c), v) = Ahead(c, v) + 1
<1>1. Modulus \in Nat /\ Modulus > 0
  BY ConstantsAssumption
<1>2. Plus1(c) = (IF c = Modulus - 1 THEN 0 ELSE c + 1)
  BY Plus1Value
<1>3. Plus1(v) = (IF v = Modulus - 1 THEN 0 ELSE v + 1)
  BY Plus1Value
<1> QED  BY <1>1, <1>2, <1>3 DEF Ahead

\* In the quiet state the counter is where the last notifyAll() left it.
LEMMA InitIInv == Init => IInv
<1> SUFFICES ASSUME Init PROVE IInv
  OBVIOUS
<1>1. /\ NoThread \notin Threads /\ Modulus \in Nat \ {0}
      /\ MaxCalls \in 0 .. Modulus - 1 /\ Counter \in 0 .. Modulus - 1
  BY ConstantsAssumption DEF Init
<1>2. TypeOK
  BY <1>1 DEF Init, TypeOK, Locations
<1>3. Ahead(Counter, LastNotifyAll) = 0 /\ Waiting = {}
  BY <1>1 DEF Init, Ahead, Waiting
<1>4. Recent /\ WaitersCounted
  BY <1>1, <1>3 DEF Init, Recent, WaitersCounted
<1>5. NotifyPending /\ WakeDue
  BY DEF Init, NotifyPending, WakeDue
<1> QED  BY <1>2, <1>4, <1>5 DEF IInv

\* Every step of wait(), notifyAll(), the kernel and M keeps IInv.
LEMMA StepIInv == IInv /\ [Next]_vars => IInv'
<1> SUFFICES ASSUME IInv, [Next]_vars PROVE IInv'
  OBVIOUS
<1>c. /\ NoThread \notin Threads /\ Modulus \in Nat \ {0}
      /\ MaxCalls \in 0 .. Modulus - 1
  BY ConstantsAssumption
<1>t. TypeOK
  BY DEF IInv
<1>r. Recent
  BY DEF IInv
<1>p. NotifyPending
  BY DEF IInv
<1>w. WaitersCounted
  BY DEF IInv
<1>d. WakeDue
  BY DEF IInv
<1>1. ASSUME NEW t \in Threads, Lock(t) PROVE IInv'
  <2>t. TypeOK'
    BY <1>c, <1>t, <1>1 DEF Lock, TypeOK, Locations
  <2>r. Recent'
    BY <1>t, <1>r, <1>1 DEF Lock, TypeOK, Recent, Waiting
  <2>p. NotifyPending'
    BY <1>t, <1>p, <1>1 DEF Lock, TypeOK, NotifyPending, Waiting
  <2>w. WaitersCounted'
    BY <1>t, <1>w, <1>1 DEF Lock, TypeOK, WaitersCounted, Waiting
  <2>d. WakeDue'
    BY <1>t, <1>d, <1>1 DEF Lock, TypeOK, WakeDue
  <2> QED  BY <2>t, <2>r, <2>p, <2>w, <2>d DEF IInv
<1>2. ASSUME NEW t \in Threads, Unlock(t) PROVE IInv'
  <2>t. TypeOK'
    BY <1>c, <1>t, <1>2 DEF Unlock, TypeOK, Locations
  <2>r. Recent'
    BY <1>t, <1>r, <1>2 DEF Unlock, TypeOK, Recent, Waiting
  <2>p. NotifyPending'
    BY <1>t, <1>p, <1>2 DEF Unlock, TypeOK, NotifyPending, Waiting
  <2>w. WaitersCounted'
    BY <1>t, <1>w, <1>2 DEF Unlock, TypeOK, WaitersCounted, Waiting
  <2>d. WakeDue'
    BY <1>t, <1>d, <1>2 DEF Unlock, TypeOK, WakeDue
  <2> QED  BY <2>t, <2>r, <2>p, <2>w, <2>d DEF IInv
<1>3. ASSUME NEW t \in Threads, Wait(t) PROVE IInv'
  <2>1. /\ calls \in Nat /\ calls' = calls + 1 /\ calls' < Modulus
        /\ Counter' = Plus1(Counter)
    BY <1>c, <1>t, <1>3 DEF TypeOK, Wait
  <2>2. Counter' \in 0 .. Modulus - 1
    BY <1>t, <2>1, Plus1Value DEF TypeOK
  <2>3. /\ Ahead(Counter, LastNotifyAll) \in Nat
        /\ Ahead(Counter', LastNotifyAll) = Ahead(Counter, LastNotifyAll) + 1
    BY <1>c, <1>t, <1>r, <2>1, AheadOfPlus1 DEF TypeOK, Recent
  <2>4. \A s \in Waiting :
          /\ Ahead(Counter, V[s]) \in Nat
          /\ Ahead(Counter', V[s]) = Ahead(Counter, V[s]) + 1
    <3> TAKE s \in Waiting
    <3>1. /\ Counter \in 0 .. Modulus - 1 /\ V[s] \in 0 .. Modulus - 1
          /\ Ahead(Counter, V[s]) <= calls
      BY <1>t, <1>r DEF TypeOK, Recent, Waiting
    <3>2. Ahead(Counter, V[s]) \in 0 .. Modulus - 1
      BY <3>1, AheadOfPlus1
    <3>3. Ahead(Counter, V[s]) + 1 < Modulus
      BY <1>c, <2>1, <3>1, <3>2
    <3>4. Ahead(Plus1(Counter), V[s]) = Ahead(Counter, V[s]) + 1
      BY <3>1, <3>3, AheadOfPlus1
    <3>5. Ahead(Counter, V[s]) \in Nat
      BY <1>c, <3>2
    <3> QED  BY <2>1, <3>4, <3>5
  <2>5. /\ V' = [V EXCEPT ![t] = Counter'] /\ Ahead(Counter', V'[t]) = 0
        /\ Waiting' = Waiting \cup {t} /\ t \notin Waiting
    <3>1. V' = [V EXCEPT ![t] = Counter'] /\ V'[t] = Counter'
      BY <1>t, <1>3 DEF TypeOK, Wait
    <3>2. Ahead(Counter', Counter') = 0
      BY <2>2, AheadOfPlus1
    <3>3. Waiting' = Waiting \cup {t} /\ t \notin Waiting
      BY <1>t, <1>3 DEF TypeOK, Wait, Waiting
    <3> QED  BY <3>1, <3>2, <3>3
  <2>6. \A m \in Threads : pc[m] # "wake" /\ pc'[m] # "wake"
    BY <1>t, <1>3 DEF TypeOK, Wait
  <2>t. TypeOK'
    BY <1>c, <1>t, <1>3, <2>2 DEF Wait, TypeOK, Locations
  <2>r. Recent'
    BY <1>c, <1>t, <1>r, <1>3, <2>1, <2>3, <2>4, <2>5
    DEF Wait, TypeOK, Recent, Waiting
  <2>p. NotifyPending'
    BY <1>c, <1>t, <1>3, <2>6 DEF Wait, TypeOK, NotifyPending, Waiting
  <2>w. WaitersCounted'
    BY <1>c, <1>t, <1>w, <1>3, <2>3, <2>4, <2>5
    DEF Wait, TypeOK, WaitersCounted, Waiting
  <2>d. WakeDue'
    BY <1>c, <1>t, <1>d, <1>3, <2>5, <2>6 DEF Wait, TypeOK, WakeDue
  <2> QED  BY <2>t, <2>r, <2>p, <2>w, <2>d DEF IInv
<1>4. ASSUME NEW t \in Threads, Notify(t) PROVE IInv'
  <2>1. /\ calls \in Nat /\ calls' = calls + 1 /\ calls' < Modulus
        /\ Counter' = Plus1(Counter)
    BY <1>c, <1>t, <1>4 DEF TypeOK, Notify
  <2>2. Counter' \in 0 .. Modulus - 1
    BY <1>t, <2>1, Plus1Value DEF TypeOK
  <2>3. /\ Ahead(Counter, LastNotifyAll) \in Nat
        /\ Ahead(Counter', LastNotifyAll) = Ahead(Counter, LastNotifyAll) + 1
    BY <1>c, <1>t, <1>r, <2>1, AheadOfPlus1 DEF TypeOK, Recent
  <2>4. \A s \in Waiting :
          /\ Ahead(Counter, V[s]) \in Nat
          /\ Ahead(Counter', V[s]) = Ahead(Counter, V[s]) + 1
    <3> TAKE s \in Waiting
    <3>1. /\ Counter \in 0 .. Modulus - 1 /\ V[s] \in 0 .. Modulus - 1
          /\ Ahead(Counter, V[s]) <= calls
      BY <1>t, <1>r DEF TypeOK, Recent, Waiting
    <3>2. Ahead(Counter, V[s]) \in 0 .. Modulus - 1
      BY <3>1, AheadOfPlus1
    <3>3. Ahead(Counter, V[s]) + 1 < Modulus
      BY <1>c, <2>1, <3>1, <3>2
    <3>4. Ahead(Plus1(Counter), V[s]) = Ahead(Counter, V[s]) + 1
      BY <3>1, <3>3, AheadOfPlus1
    <3>5. Ahead(Counter, V[s]) \in Nat
      BY <1>c, <3>2
    <3> QED  BY <2>1, <3>4, <3>5
  <2>5. /\ V' = [V EXCEPT ![t] = Counter] /\ Waiting' = Waiting
        /\ t \notin Waiting /\ LastNotifyAll' = LastNotifyAll
    BY <1>t, <1>4 DEF TypeOK, Notify, Waiting
  <2>6. \A m \in Threads : pc'[m] = "wake" <=> m = t
    BY <1>c, <1>t, <1>4 DEF TypeOK, Notify
  <2>7. Ahead(Counter', V'[t]) = 1
    <3>1. Counter \in 0 .. Modulus - 1 /\ V'[t] = Counter
      BY <1>t, <2>5 DEF TypeOK
    <3>2. Ahead(Counter, Counter) = 0
      BY <3>1, AheadOfPlus1
    <3>3. Ahead(Counter, Counter) + 1 < Modulus
      BY <1>c, <2>1, <3>2
    <3>4. Ahead(Plus1(Counter), Counter) = Ahead(Counter, Counter) + 1
      BY <3>1, <3>3, AheadOfPlus1
    <3>5. Ahead(Plus1(Counter), Counter) = 1
      BY <3>2, <3>4
    <3> QED  BY <2>1, <3>1, <3>5
  <2>t. TypeOK'
    BY <1>c, <1>t, <1>4, <2>2 DEF Notify, TypeOK, Locations, Waiting
  <2>r. Recent'
    BY <1>c, <1>t, <1>r, <1>4, <2>1, <2>3, <2>4, <2>5
    DEF Notify, TypeOK, Recent, Waiting
  <2>p. NotifyPending'
    BY <1>c, <1>t, <1>p, <1>4, <2>6, <2>7
    DEF Notify, TypeOK, NotifyPending, Waiting
  <2>w. WaitersCounted'
    BY <1>c, <1>t, <1>w, <1>4, <2>3, <2>4, <2>5
    DEF Notify, TypeOK, WaitersCounted, Waiting
  <2>d. WakeDue'
    BY <1>c, <1>t, <1>d, <1>4, <2>5, <2>6 DEF Notify, TypeOK, WakeDue
  <2> QED  BY <2>t, <2>r, <2>p, <2>w, <2>d DEF IInv
<1>5. ASSUME NEW t \in Threads, SpuriousWake(t) PROVE IInv'
  <2>t. TypeOK'
    BY <1>c, <1>t, <1>5 DEF SpuriousWake, TypeOK, Locations
  <2>r. Recent'
    BY <1>t, <1>r, <1>5 DEF SpuriousWake, TypeOK, Recent, Waiting
  <2>p. NotifyPending'
    BY <1>t, <1>p, <1>5 DEF SpuriousWake, TypeOK, NotifyPending, Waiting
  <2>w. WaitersCounted'
    BY <1>t, <1>w, <1>5 DEF SpuriousWake, TypeOK, WaitersCounted, Waiting
  <2>d. WakeDue'
    BY <1>t, <1>d, <1>5 DEF SpuriousWake, TypeOK, WakeDue
  <2> QED  BY <2>t, <2>r, <2>p, <2>w, <2>d DEF IInv
<1>6. ASSUME NEW t \in Threads, FutexWait(t) PROVE IInv'
  <2>1. pc'[t] = "asleep" => Counter = V[t] /\ t \notin notified
    <3>1. t \in Waiting
      BY <1>6 DEF FutexWait, Waiting
    <3>2. Counter \in 0 .. Modulus - 1 /\ V[t] \in 0 .. Modulus - 1
      BY <1>t DEF TypeOK
    <3>3. t \in notified => Ahead(Counter, V[t]) >= 1
      BY <1>w, <3>1 DEF WaitersCounted
    <3>5. Counter = V[t] => Ahead(Counter, V[t]) = 0
      BY <3>2, AheadOfPlus1
    <3>4. t \in notified => Counter # V[t]
      BY <3>3, <3>5
    <3> QED  BY <1>t, <1>6, <3>4 DEF FutexWait, TypeOK
  <2>2. Waiting' \subseteq Waiting
    BY <1>t, <1>6 DEF FutexWait, TypeOK, Waiting
  <2>t. TypeOK'
    BY <1>c, <1>t, <1>6 DEF FutexWait, TypeOK, Locations
  <2>r. Recent'
    BY <1>t, <1>r, <1>6, <2>2 DEF FutexWait, TypeOK, Recent, Waiting
  <2>p. NotifyPending'
    BY <1>t, <1>p, <1>6, <2>2 DEF FutexWait, TypeOK, NotifyPending, Waiting
  <2>w. WaitersCounted'
    BY <1>t, <1>w, <1>6, <2>1, <2>2
    DEF FutexWait, TypeOK, WaitersCounted, Waiting
  <2>d. WakeDue'
    BY <1>t, <1>d, <1>6, <2>1 DEF FutexWait, TypeOK, WakeDue
  <2> QED  BY <2>t, <2>r, <2>p, <2>w, <2>d DEF IInv
<1>7. ASSUME NEW t \in Threads, WakeAll(t) PROVE IInv'
  <2>1. /\ pc[t] = "wake" /\ owner = t /\ owner' = t /\ pc'[t] = "in"
        /\ \A s \in Threads : pc[s] = "wake" => s = t
    BY <1>c, <1>t, <1>7 DEF TypeOK, WakeAll
  <2>2. Counter \in 0 .. Modulus - 1 /\ V[t] \in 0 .. Modulus - 1
    BY <1>t DEF TypeOK
  <2>3. Ahead(Counter, V[t]) = 1 /\ Waiting \subseteq notified
    BY <1>p, <2>1 DEF NotifyPending
  <2>4. LastNotifyAll' = Counter /\ Ahead(Counter, LastNotifyAll') = 0
    BY <1>7, <2>2, <2>3, AheadOfPlus1 DEF WakeAll
  \* The wake is skipped only when nobody sleeps: a sleeper has counted past
  \* LastNotifyAll and this notifyAll() has counted past the sleeper.
  <2>5. ASSUME NEW s \in Threads, pc[s] = "asleep" PROVE LastNotifyAll # V[t]
    <3>1. s \in Waiting /\ s \in notified
      BY <2>3, <2>5 DEF Waiting
    <3>2. /\ Ahead(Counter, V[s]) >= 1
          /\ Ahead(Counter, V[s]) < Ahead(Counter, LastNotifyAll)
      BY <1>w, <2>5, <3>1 DEF WaitersCounted
    <3>3. /\ Ahead(Counter, V[s]) \in 0 .. Modulus - 1
          /\ Ahead(Counter, LastNotifyAll) \in 0 .. Modulus - 1
      <4>1. /\ V[s] \in 0 .. Modulus - 1 /\ Counter \in 0 .. Modulus - 1
            /\ LastNotifyAll \in 0 .. Modulus - 1
        BY <1>t DEF TypeOK
      <4> QED  BY <4>1, AheadOfPlus1
    <3>4. Ahead(Counter, LastNotifyAll) # 1
      BY <1>c, <3>2, <3>3
    <3> QED  BY <2>3, <3>4
  <2>6. \A s \in Threads :
          /\ pc'[s] # "asleep" /\ pc'[s] # "wake"
          /\ pc'[s] = "futex" => pc[s] = "futex"
    BY <1>t, <1>7, <2>1, <2>5 DEF TypeOK, WakeAll, Locations
  <2>7. Waiting' \subseteq Waiting
    BY <1>t, <2>6, Zenon DEF TypeOK, Waiting
  <2>t. TypeOK'
    BY <1>c, <1>t, <1>7, <2>1, <2>2, <2>4 DEF WakeAll, TypeOK, Locations
  <2>r. Recent'
    BY <1>t, <1>r, <1>7, <2>4, <2>7 DEF WakeAll, TypeOK, Recent, Waiting
  <2>p. NotifyPending'
    BY <1>t, <1>p, <1>7, <2>1, <2>6 DEF WakeAll, TypeOK, NotifyPending, Waiting
  <2>w. WaitersCounted'
    BY <1>t, <1>w, <1>7, <2>3, <2>6, <2>7
    DEF WakeAll, TypeOK, WaitersCounted, Waiting
  <2>d. WakeDue'
    BY <1>t, <1>d, <1>7, <2>6 DEF WakeAll, TypeOK, WakeDue
  <2> QED  BY <2>t, <2>r, <2>p, <2>w, <2>d DEF IInv
<1>8. CASE UNCHANGED vars
  BY <1>8, <1>t, <1>r, <1>p, <1>w, <1>d
     DEF vars, IInv, TypeOK, Recent, NotifyPending, WaitersCounted, WakeDue,
         Waiting
<1> QED  BY <1>1, <1>2, <1>3, <1>4, <1>5, <1>6, <1>7, <1>8 DEF Next, Run

\* IInv holds in every reachable state of the condition variable.
LEMMA SpecIInv == Spec => []IInv
<1> QED  BY InitIInv, StepIInv, PTL DEF Spec

\* Counter and LastNotifyAll stay u32s, and whoever is between lock() and
\* unlock() of M, in notifyAll() too, is its owner.
THEOREM TypeCorrect == Spec => []TypeOK
<1>1. IInv => TypeOK
  BY DEF IInv
<1> QED  BY <1>1, SpecIInv, PTL

\* notifyAllImpl() loses nobody when it skips FUTEX_WAKE: after it, every
\* thread that had called wait() is awake or will not fall asleep.
THEOREM NothingLost == Spec => []NoLostNotification
<1>1. IInv => NoLostNotification
  <2> SUFFICES ASSUME IInv, \A n \in Threads : pc[n] # "wake",
                      NEW t \in notified
               PROVE  pc[t] # "asleep" /\ (pc[t] = "futex" => Counter # V[t])
    BY DEF NoLostNotification
  <2>1. pc[t] # "asleep"
    BY DEF IInv, WakeDue
  <2>2. ASSUME pc[t] = "futex" PROVE Counter # V[t]
    <3>1. /\ t \in Waiting /\ Counter \in 0 .. Modulus - 1
          /\ V[t] \in 0 .. Modulus - 1
      BY <2>2 DEF IInv, TypeOK, Waiting
    <3>2. Ahead(Counter, V[t]) >= 1
      BY <3>1 DEF IInv, WaitersCounted
    <3> QED  BY <3>1, <3>2, AheadOfPlus1, SMTT(30), ZenonT(20)
  <2> QED  BY <2>1, <2>2
<1> QED  BY <1>1, SpecIInv, PTL
-----------------------------------------------------------------------------
\* The strengthening that is inductive: a step of a thread that finds M
\* Unlocked may enter only because M is Unlocked exactly when nobody owns it.
MutexIInv == Mutex!TypeOK /\ Mutex!MutualExclusion /\ Mutex!WordMatchesOwner

LEMMA InitMutexIInv == Mutex!Init => MutexIInv
  BY NumberOfTriesAssumption
  DEF Mutex!Init, MutexIInv, Mutex!TypeOK, Mutex!MutualExclusion, Mutex!WordMatchesOwner,
      Mutex!Owns, Mutex!Locations, Mutex!Unlocked, Mutex!Locked, Mutex!Sleeping

LEMMA StepMutexIInv == MutexIInv /\ [Mutex!Next]_Mutex!vars => MutexIInv'
<1> SUFFICES ASSUME MutexIInv, [Mutex!Next]_Mutex!vars PROVE MutexIInv'
  OBVIOUS
<1> USE NumberOfTriesAssumption
    DEF MutexIInv, Mutex!TypeOK, Mutex!MutualExclusion, Mutex!WordMatchesOwner,
        Mutex!Owns, Mutex!Locations, Mutex!Unlocked, Mutex!Locked, Mutex!Sleeping, Mutex!Goto
<1>1. CASE UNCHANGED Mutex!vars
  BY <1>1 DEF Mutex!vars
<1>2. ASSUME NEW t \in Lockers, Mutex!TryLock(t) PROVE MutexIInv'
  BY <1>2 DEF Mutex!TryLock
<1>3. ASSUME NEW t \in Lockers, Mutex!Lock(t) PROVE MutexIInv'
  BY <1>3 DEF Mutex!Lock
<1>4. ASSUME NEW t \in Lockers, Mutex!Spin(t) PROVE MutexIInv'
  BY <1>4 DEF Mutex!Spin
<1>5. ASSUME NEW t \in Lockers, Mutex!SlowCAS(t) PROVE MutexIInv'
  BY <1>5 DEF Mutex!SlowCAS
<1>6. ASSUME NEW t \in Lockers, Mutex!SlowXchg(t) PROVE MutexIInv'
  BY <1>6 DEF Mutex!SlowXchg
<1>7. ASSUME NEW t \in Lockers, Mutex!FutexWait(t) PROVE MutexIInv'
  BY <1>7 DEF Mutex!FutexWait
<1>8. ASSUME NEW t \in Lockers, Mutex!SpuriousWake(t) PROVE MutexIInv'
  BY <1>8 DEF Mutex!SpuriousWake
<1>9. ASSUME NEW t \in Lockers, Mutex!Unlock(t) PROVE MutexIInv'
  BY <1>9 DEF Mutex!Unlock
<1>10. ASSUME NEW t \in Lockers, Mutex!UnlockStore(t) PROVE MutexIInv'
  BY <1>10 DEF Mutex!UnlockStore
<1>11. ASSUME NEW t \in Lockers, Mutex!UnlockWake(t) PROVE MutexIInv'
  BY <1>11 DEF Mutex!UnlockWake, Mutex!Asleep
<1>12. QED
  BY <1>1, <1>2, <1>3, <1>4, <1>5, <1>6, <1>7, <1>8, <1>9, <1>10, <1>11
  DEF Mutex!Next, Mutex!Run

\* The inductive invariant holds in every reachable state.
LEMMA MutexInvariance == Mutex!Spec => []MutexIInv
<1>1. QED
  BY InitMutexIInv, StepMutexIInv, PTL DEF Mutex!Spec

\* The futex word keeps to the enum State of linux.cpp: unlock()'s fetch_sub
\* never wraps, for any number of threads.
THEOREM MutexTypeCorrect == Mutex!Spec => []Mutex!TypeOK
<1>1. MutexIInv => Mutex!TypeOK
  BY DEF MutexIInv
<1>2. QED
  BY MutexInvariance, <1>1, PTL

\* Two threads are never both between lock() and the end of unlock().
THEOREM Exclusion == Mutex!Spec => []MutualExclusion
<1>1. MutexIInv => MutualExclusion
  BY DEF MutexIInv, MutualExclusion
<1>2. QED
  BY MutexInvariance, <1>1, PTL

\* Every step of the futex algorithm is an Acquire, a Release or invisible.
LEMMA StepRefines ==
  MutexIInv /\ MutexIInv' /\ [Mutex!Next]_Mutex!vars =>
    [Mutex!Abstract!Next]_({t \in Lockers : Mutex!Owns(t)})
<1> DEFINE O == {t \in Lockers : Mutex!Owns(t)}
<1> SUFFICES ASSUME MutexIInv, MutexIInv', [Mutex!Next]_Mutex!vars PROVE [Mutex!Abstract!Next]_O
  OBVIOUS
<1> USE DEF MutexIInv, Mutex!TypeOK, Mutex!MutualExclusion, Mutex!WordMatchesOwner,
        Mutex!Owns, Mutex!Locations, Mutex!Unlocked, Mutex!Locked, Mutex!Sleeping, Mutex!Goto
<1>a. ASSUME NEW t \in Lockers, M = Mutex!Unlocked, mutexPc' = [mutexPc EXCEPT ![t] = "owner"]
      PROVE Mutex!Abstract!Acquire(t)
  BY <1>a DEF Mutex!Abstract!Acquire
<1>b. ASSUME NEW t \in Lockers, Mutex!Owns(t), M' = Mutex!Unlocked
      PROVE Mutex!Abstract!Release(t)
  BY <1>b DEF Mutex!Abstract!Release
<1>c. ASSUME NEW t \in Lockers, NEW loc \in Mutex!Locations, ~Mutex!Owns(t),
             loc \notin {"owner", "store"}, mutexPc' = [mutexPc EXCEPT ![t] = loc]
      PROVE O' = O
  BY <1>c
<1>1. CASE UNCHANGED Mutex!vars
  BY <1>1 DEF Mutex!vars
<1>2. ASSUME NEW t \in Lockers, Mutex!TryLock(t) PROVE [Mutex!Abstract!Next]_O
  BY <1>2, <1>a DEF Mutex!TryLock, Mutex!Abstract!Next
<1>3. ASSUME NEW t \in Lockers, Mutex!Lock(t) PROVE [Mutex!Abstract!Next]_O
  BY <1>3, <1>c DEF Mutex!Lock
<1>4. ASSUME NEW t \in Lockers, Mutex!Spin(t) PROVE [Mutex!Abstract!Next]_O
  BY <1>4, <1>a, <1>c DEF Mutex!Spin, Mutex!Abstract!Next
<1>5. ASSUME NEW t \in Lockers, Mutex!SlowCAS(t) PROVE [Mutex!Abstract!Next]_O
  BY <1>5, <1>a, <1>c DEF Mutex!SlowCAS, Mutex!Abstract!Next
<1>6. ASSUME NEW t \in Lockers, Mutex!SlowXchg(t) PROVE [Mutex!Abstract!Next]_O
  <2>1. CASE M = Mutex!Unlocked
    BY <1>6, <2>1, <1>a DEF Mutex!SlowXchg, Mutex!Abstract!Next
  <2>2. CASE M # Mutex!Unlocked
    BY <1>6, <2>2, <1>c DEF Mutex!SlowXchg
  <2>3. QED
    BY <2>1, <2>2
<1>7. ASSUME NEW t \in Lockers, Mutex!FutexWait(t) PROVE [Mutex!Abstract!Next]_O
  BY <1>7, <1>c DEF Mutex!FutexWait
<1>8. ASSUME NEW t \in Lockers, Mutex!SpuriousWake(t) PROVE [Mutex!Abstract!Next]_O
  BY <1>8, <1>c DEF Mutex!SpuriousWake
<1>9. ASSUME NEW t \in Lockers, Mutex!Unlock(t) PROVE [Mutex!Abstract!Next]_O
  <2>1. CASE M = Mutex!Locked
    BY <1>9, <2>1, <1>b DEF Mutex!Unlock, Mutex!Abstract!Next
  <2>2. CASE M # Mutex!Locked
    BY <1>9, <2>2 DEF Mutex!Unlock
  <2>3. QED
    BY <2>1, <2>2
<1>10. ASSUME NEW t \in Lockers, Mutex!UnlockStore(t) PROVE [Mutex!Abstract!Next]_O
  BY <1>10, <1>b DEF Mutex!UnlockStore, Mutex!Abstract!Next
<1>11. ASSUME NEW t \in Lockers, Mutex!UnlockWake(t) PROVE [Mutex!Abstract!Next]_O
  BY <1>11 DEF Mutex!UnlockWake, Mutex!Asleep
<1>12. QED
  BY <1>1, <1>2, <1>3, <1>4, <1>5, <1>6, <1>7, <1>8, <1>9, <1>10, <1>11
  DEF Mutex!Next, Mutex!Run

\* HybridMutex implements the abstract lock that the other modules of this
\* project take a HybridMutex for.
THEOREM Refinement == Mutex!Spec => ImplementsLock
<1>1. Mutex!Init => Mutex!Abstract!Init
  BY DEF Mutex!Init, Mutex!Abstract!Init, Mutex!Owns
<1>2. QED
  BY <1>1, StepRefines, MutexInvariance, PTL
  DEF Mutex!Spec, ImplementsLock, Mutex!ImplementsLock, Mutex!Abstract!Spec
-----------------------------------------------------------------------------
(***************************************************************************)
(* The region: what its two locks and its refill flag keep together.       *)
(***************************************************************************)
\* The places of a thread that owns MMLock, and that owns FLLock as well.
MMHeld == {"recheck", "finish", "map", "fill", "collect", "merge",
           "disabling", "disabled", "enabling"}

OwnersMatch ==
  \A t \in Callers : /\ MMLock = t <=> regionPc[t] \in MMHeld
                     /\ FLLock = t <=> regionPc[t] = "disabled"

\* Each version of popBlocks() keeps to its own places.
ModeMatches ==
  IF useCV THEN \A t \in Callers : regionPc[t] # "recheck"
  ELSE /\ ~isPopulatingFreeList
       /\ \A t \in Callers : regionPc[t] \notin {"claimed", "wait", "asleep", "woken", "finish"}

\* The flag stands for the one populator, and nobody sleeps without it.
FlagMatches ==
  /\ \A s, t \in Primary!Populators : s = t
  /\ useCV => (isPopulatingFreeList <=> \E t \in Callers : t \in Primary!Populators)
  /\ ~isPopulatingFreeList => \A t \in Callers : regionPc[t] # "asleep"

\* Groups are out of the freelist only in a release, and a populator that is
\* about to map has found the region not exhausted.
PlaceMatches ==
  \A t \in Callers : /\ extracted[t] # 0 => regionPc[t] = "merge"
                     /\ regionPc[t] = "map" => ~exhausted

EmptinessSeen == free = 0 => emptied

RegionIInv ==
  /\ Primary!TypeOK /\ OwnersMatch /\ ModeMatches /\ FlagMatches /\ PlaceMatches
  /\ EmptinessSeen /\ Primary!BlocksConserved

LEMMA PrimaryCardinality == \A S : Primary!Cardinality(S) = Cardinality(S)
  BY DEF Primary!Cardinality, Cardinality

\* The bound on how many blocks are popped, pushed or added is a minimum of two.
LEMMA MinOfTwo ==
  ASSUME NEW a \in Int, NEW b \in Int
  PROVE  Primary!Min({a, b}) \in {a, b} /\ Primary!Min({a, b}) <= a /\ Primary!Min({a, b}) <= b
  BY DEF Primary!Min

\* What is mapped at once is a multiple of the increment, so never negative.
LEMMA MapSizeNat ==
  ASSUME Primary!TypeOK, allocated + MaxCount > mapped
  PROVE  Primary!MapSize \in Nat
<1> DEFINE x == allocated + MaxCount - mapped + MapSizeIncrement - 1
<1>1. x \in Nat /\ MapSizeIncrement \in Nat \ {0}
  BY RegionAssumption DEF Primary!TypeOK
<1>2. x \div MapSizeIncrement \in Nat
  BY <1>1
<1>3. QED
  BY <1>1, <1>2 DEF Primary!MapSize

\* A refill stays within what is mapped.
LEMMA NumberOfBlocksNat ==
  ASSUME Primary!TypeOK, allocated <= mapped
  PROVE  Primary!NumberOfBlocks \in Nat /\ allocated + Primary!NumberOfBlocks <= mapped
<1>1. MaxNumBatches * MaxCount \in Nat /\ mapped - allocated \in Nat
  BY RegionAssumption DEF Primary!TypeOK
<1>2. /\ Primary!NumberOfBlocks \in {MaxNumBatches * MaxCount, mapped - allocated}
      /\ Primary!NumberOfBlocks <= mapped - allocated
  <2>1. MaxNumBatches * MaxCount \in Int /\ mapped - allocated \in Int
    BY <1>1
  <2>2. QED
    BY <2>1, MinOfTwo, Zenon DEF Primary!NumberOfBlocks
<1>3. QED
  BY <1>1, <1>2 DEF Primary!TypeOK

\* What a look at the freelist does, whether it finds blocks or not.
Moved ==
  /\ free' \in Nat /\ held' \in Nat /\ free' + held' = free + held
  /\ emptied' \in BOOLEAN /\ (emptied => emptied') /\ (free' = 0 => emptied')

\* Popping moves blocks from the freelist to the caller and loses none.
LEMMA PopMoves ==
  ASSUME Primary!TypeOK, EmptinessSeen, Primary!popBlocksImpl \/ Primary!FindsEmpty
  PROVE  Moved
<1>1. CASE Primary!popBlocksImpl
  <2>1. /\ Primary!Min({MaxCount, free}) \in {MaxCount, free}
        /\ Primary!Min({MaxCount, free}) <= free
    <3>1. MaxCount \in Int /\ free \in Int
      BY RegionAssumption DEF Primary!TypeOK
    <3>2. QED
      BY <3>1, MinOfTwo, Zenon
  <2>2. PICK n \in 1 .. Primary!Min({MaxCount, free}) :
          free' = free - n /\ held' = held + n /\ emptied' = (emptied \/ free = n)
    BY <1>1 DEF Primary!popBlocksImpl
  <2>3. n \in Nat /\ n <= free
    BY <2>1, RegionAssumption DEF Primary!TypeOK
  <2>4. emptied' \in BOOLEAN /\ (emptied => emptied') /\ (free = n => emptied')
    BY <2>2, Zenon
  <2>5. QED
    BY <2>2, <2>3, <2>4 DEF Primary!TypeOK, Moved
<1>2. CASE Primary!FindsEmpty
  BY <1>2 DEF Primary!FindsEmpty, Primary!list, Primary!TypeOK, EmptinessSeen, Moved
<1>3. QED
  BY <1>1, <1>2

\* A refill gives what it allocates to the freelist and to its caller.
LEMMA FillMoves ==
  ASSUME Primary!TypeOK, allocated <= mapped, NEW t \in Callers, Primary!Fill(t)
  PROVE  /\ allocated' \in Nat /\ allocated' <= mapped
         /\ free' \in Nat /\ held' \in Nat
         /\ free' + held' - allocated' = free + held - allocated
         /\ emptied' \in BOOLEAN /\ (free' = 0 => emptied')
<1> DEFINE m == Primary!Min({MaxCount, free + Primary!NumberOfBlocks})
<1>1. Primary!NumberOfBlocks \in Nat /\ allocated + Primary!NumberOfBlocks <= mapped
  BY NumberOfBlocksNat
<1>2. m \in {MaxCount, free + Primary!NumberOfBlocks} /\ m <= free + Primary!NumberOfBlocks
  <2>1. MaxCount \in Int /\ free + Primary!NumberOfBlocks \in Int
    BY <1>1, RegionAssumption DEF Primary!TypeOK
  <2>2. QED
    BY <2>1, MinOfTwo, Zenon
<1>3. PICK n \in 1 .. m :
        free' = free + Primary!NumberOfBlocks - n /\ held' = held + n /\ emptied' = (free' = 0)
  BY DEF Primary!Fill
<1>4. n \in Nat /\ n <= free + Primary!NumberOfBlocks
  BY <1>1, <1>2, RegionAssumption DEF Primary!TypeOK
<1>5. emptied' \in BOOLEAN /\ (free' = 0 => emptied')
  BY <1>3, Zenon
<1>6. allocated' = allocated + Primary!NumberOfBlocks
  BY DEF Primary!Fill
<1>7. QED
  BY <1>1, <1>3, <1>4, <1>5, <1>6 DEF Primary!TypeOK

\* A thread pushes blocks that local caches hold.
LEMMA PushMoves ==
  ASSUME Primary!TypeOK, NEW n \in 1 .. Primary!Pushable
  PROVE  n \in Nat \ {0} /\ n <= held
<1>1. Primary!Pushable \in {MaxCount, held} /\ Primary!Pushable <= held
  <2>1. MaxCount \in Int /\ held \in Int
    BY RegionAssumption DEF Primary!TypeOK
  <2>2. QED
    BY <2>1, MinOfTwo, Zenon DEF Primary!Pushable
<1>2. QED
  BY <1>1, RegionAssumption DEF Primary!TypeOK

\* The region starts empty, with both locks free.
LEMMA InitRegionIInv == Primary!Init => RegionIInv
<1> SUFFICES ASSUME Primary!Init PROVE RegionIInv
  OBVIOUS
<1>1. Primary!TypeOK
  <2>1. {useCV, exhausted, isPopulatingFreeList, emptied} \subseteq BOOLEAN
    BY Zenon DEF Primary!Init
  <2>2. extracted \in [Callers -> Nat] /\ regionPc \in [Callers -> Primary!Locations]
    BY DEF Primary!Init, Primary!Locations
  <2>3. /\ {MMLock, FLLock} \subseteq Callers \cup {NoCaller}
        /\ {free, held, allocated, mapped, pauses, reports} \subseteq Nat
    BY DEF Primary!Init
  <2>4. QED
    BY <2>1, <2>2, <2>3 DEF Primary!TypeOK
<1>2. OwnersMatch /\ ModeMatches /\ FlagMatches /\ PlaceMatches
  BY RegionAssumption
  DEF Primary!Init, OwnersMatch, MMHeld, ModeMatches, FlagMatches, Primary!Populators,
      PlaceMatches
<1>3. EmptinessSeen /\ Primary!BlocksConserved
  BY RegionAssumption DEF Primary!Init, EmptinessSeen, Primary!BlocksConserved
<1>4. QED
  BY <1>1, <1>2, <1>3 DEF RegionIInv

\* Every step keeps the invariant: one case per action.
LEMMA StepRegionIInv == RegionIInv /\ [Primary!Next]_Primary!vars => RegionIInv'
<1> SUFFICES ASSUME RegionIInv, [Primary!Next]_Primary!vars PROVE RegionIInv'
  OBVIOUS
<1> USE RegionAssumption DEF RegionIInv, Primary!Goto, Primary!locks, Primary!list,
     Primary!memory, Primary!rest
<1>0. CASE UNCHANGED Primary!vars
  BY <1>0
  DEF Primary!vars, Primary!TypeOK, OwnersMatch, ModeMatches, FlagMatches, PlaceMatches,
      EmptinessSeen, Primary!BlocksConserved, Primary!Populators
<1>1. ASSUME NEW t \in Callers, Primary!Pop(t) PROVE RegionIInv'
  <2>0. Moved
    <3>1. Primary!popBlocksImpl \/ Primary!FindsEmpty
      BY <1>1 DEF Primary!Pop
    <3>2. QED
      BY <3>1, PopMoves
  <2>1. Primary!TypeOK'
    BY <1>1, <2>0
    DEF Primary!Pop, Primary!FindsEmpty, Moved, Primary!TypeOK, Primary!Locations,
        Primary!BlocksConserved
  <2>2. OwnersMatch'
    BY <1>1 DEF Primary!Pop, Primary!FindsEmpty, Primary!TypeOK, OwnersMatch, MMHeld
  <2>3. ModeMatches'
    BY <1>1 DEF Primary!Pop, Primary!FindsEmpty, Primary!TypeOK, OwnersMatch, ModeMatches
  <2>4. FlagMatches'
    BY <1>1
    DEF Primary!Pop, Primary!FindsEmpty, Primary!TypeOK, OwnersMatch, MMHeld,
        ModeMatches, FlagMatches, Primary!Populators
  <2>5. PlaceMatches'
    BY <1>1
    DEF Primary!Pop, Primary!FindsEmpty, Primary!TypeOK, OwnersMatch, MMHeld, PlaceMatches
  <2>6. EmptinessSeen'
    BY <1>1, <2>0 DEF Primary!Pop, Primary!FindsEmpty, Moved, Primary!TypeOK, EmptinessSeen
  <2>7. Primary!BlocksConserved'
    BY <1>1, <2>0
    DEF Primary!Pop, Primary!FindsEmpty, Moved, Primary!TypeOK, OwnersMatch, MMHeld,
        PlaceMatches, Primary!BlocksConserved
  <2>8. QED
    BY <2>1, <2>2, <2>3, <2>4, <2>5, <2>6, <2>7
<1>2. ASSUME NEW t \in Callers, Primary!Push(t) PROVE RegionIInv'
  <2>1. Primary!TypeOK'
    BY <1>2, PushMoves
    DEF Primary!Push, Primary!NotifyAndGoto, Primary!NotifyAll, Primary!TypeOK,
        Primary!Locations, Primary!BlocksConserved
  <2>2. OwnersMatch'
    BY <1>2
    DEF Primary!Push, Primary!NotifyAndGoto, Primary!NotifyAll, Primary!TypeOK,
        OwnersMatch, MMHeld
  <2>3. ModeMatches'
    BY <1>2
    DEF Primary!Push, Primary!NotifyAndGoto, Primary!NotifyAll, Primary!TypeOK,
        OwnersMatch, ModeMatches
  <2>4. FlagMatches'
    BY <1>2
    DEF Primary!Push, Primary!NotifyAndGoto, Primary!NotifyAll, Primary!TypeOK,
        OwnersMatch, MMHeld, ModeMatches, FlagMatches, Primary!Populators
  <2>5. PlaceMatches'
    BY <1>2
    DEF Primary!Push, Primary!NotifyAndGoto, Primary!NotifyAll, Primary!TypeOK,
        OwnersMatch, MMHeld, PlaceMatches
  <2>6. EmptinessSeen'
    BY <1>2, PushMoves
    DEF Primary!Push, Primary!NotifyAndGoto, Primary!NotifyAll, Primary!TypeOK,
        EmptinessSeen
  <2>7. Primary!BlocksConserved'
    BY <1>2, PushMoves
    DEF Primary!Push, Primary!NotifyAndGoto, Primary!NotifyAll, Primary!TypeOK,
        OwnersMatch, MMHeld, PlaceMatches, Primary!BlocksConserved
  <2>8. QED
    BY <2>1, <2>2, <2>3, <2>4, <2>5, <2>6, <2>7
<1>3. ASSUME NEW t \in Callers, Primary!StartRelease(t) PROVE RegionIInv'
  <2>1. Primary!TypeOK'
    BY <1>3
    DEF Primary!StartRelease, Primary!TypeOK, Primary!Locations, Primary!BlocksConserved
  <2>2. OwnersMatch'
    BY <1>3 DEF Primary!StartRelease, Primary!TypeOK, OwnersMatch, MMHeld
  <2>3. ModeMatches'
    BY <1>3 DEF Primary!StartRelease, Primary!TypeOK, OwnersMatch, ModeMatches
  <2>4. FlagMatches'
    BY <1>3
    DEF Primary!StartRelease, Primary!TypeOK, OwnersMatch, MMHeld, ModeMatches,
        FlagMatches, Primary!Populators
  <2>5. PlaceMatches'
    BY <1>3 DEF Primary!StartRelease, Primary!TypeOK, OwnersMatch, MMHeld, PlaceMatches
  <2>6. EmptinessSeen'
    BY <1>3 DEF Primary!StartRelease, Primary!TypeOK, EmptinessSeen
  <2>7. Primary!BlocksConserved'
    BY <1>3
    DEF Primary!StartRelease, Primary!TypeOK, OwnersMatch, MMHeld, PlaceMatches,
        Primary!BlocksConserved
  <2>8. QED
    BY <2>1, <2>2, <2>3, <2>4, <2>5, <2>6, <2>7
<1>4. ASSUME NEW t \in Callers, Primary!Disable(t) PROVE RegionIInv'
  <2>1. Primary!TypeOK'
    BY <1>4 DEF Primary!Disable, Primary!TypeOK, Primary!Locations, Primary!BlocksConserved
  <2>2. OwnersMatch'
    BY <1>4 DEF Primary!Disable, Primary!TypeOK, OwnersMatch, MMHeld
  <2>3. ModeMatches'
    BY <1>4 DEF Primary!Disable, Primary!TypeOK, OwnersMatch, ModeMatches
  <2>4. FlagMatches'
    BY <1>4
    DEF Primary!Disable, Primary!TypeOK, OwnersMatch, MMHeld, ModeMatches, FlagMatches,
        Primary!Populators
  <2>5. PlaceMatches'
    BY <1>4 DEF Primary!Disable, Primary!TypeOK, OwnersMatch, MMHeld, PlaceMatches
  <2>6. EmptinessSeen'
    BY <1>4 DEF Primary!Disable, Primary!TypeOK, EmptinessSeen
  <2>7. Primary!BlocksConserved'
    BY <1>4
    DEF Primary!Disable, Primary!TypeOK, OwnersMatch, MMHeld, PlaceMatches,
        Primary!BlocksConserved
  <2>8. QED
    BY <2>1, <2>2, <2>3, <2>4, <2>5, <2>6, <2>7
<1>5. ASSUME NEW t \in Callers, Primary!WakeSpuriously(t) PROVE RegionIInv'
  <2>1. Primary!TypeOK'
    BY <1>5
    DEF Primary!WakeSpuriously, Primary!TypeOK, Primary!Locations, Primary!BlocksConserved
  <2>2. OwnersMatch'
    BY <1>5 DEF Primary!WakeSpuriously, Primary!TypeOK, OwnersMatch, MMHeld
  <2>3. ModeMatches'
    BY <1>5 DEF Primary!WakeSpuriously, Primary!TypeOK, OwnersMatch, ModeMatches
  <2>4. FlagMatches'
    BY <1>5
    DEF Primary!WakeSpuriously, Primary!TypeOK, OwnersMatch, MMHeld, ModeMatches,
        FlagMatches, Primary!Populators
  <2>5. PlaceMatches'
    BY <1>5 DEF Primary!WakeSpuriously, Primary!TypeOK, OwnersMatch, MMHeld, PlaceMatches
  <2>6. EmptinessSeen'
    BY <1>5 DEF Primary!WakeSpuriously, Primary!TypeOK, EmptinessSeen
  <2>7. Primary!BlocksConserved'
    BY <1>5
    DEF Primary!WakeSpuriously, Primary!TypeOK, OwnersMatch, MMHeld, PlaceMatches,
        Primary!BlocksConserved
  <2>8. QED
    BY <2>1, <2>2, <2>3, <2>4, <2>5, <2>6, <2>7
<1>6. ASSUME NEW t \in Callers, Primary!LockMM(t) PROVE RegionIInv'
  <2>1. Primary!TypeOK'
    BY <1>6 DEF Primary!LockMM, Primary!TypeOK, Primary!Locations, Primary!BlocksConserved
  <2>2. OwnersMatch'
    BY <1>6 DEF Primary!LockMM, Primary!TypeOK, OwnersMatch, MMHeld
  <2>3. ModeMatches'
    BY <1>6 DEF Primary!LockMM, Primary!TypeOK, OwnersMatch, ModeMatches
  <2>4. FlagMatches'
    BY <1>6
    DEF Primary!LockMM, Primary!TypeOK, OwnersMatch, MMHeld, ModeMatches, FlagMatches,
        Primary!Populators
  <2>5. PlaceMatches'
    BY <1>6 DEF Primary!LockMM, Primary!TypeOK, OwnersMatch, MMHeld, PlaceMatches
  <2>6. EmptinessSeen'
    BY <1>6 DEF Primary!LockMM, Primary!TypeOK, EmptinessSeen
  <2>7. Primary!BlocksConserved'
    BY <1>6
    DEF Primary!LockMM, Primary!TypeOK, OwnersMatch, MMHeld, PlaceMatches,
        Primary!BlocksConserved
  <2>8. QED
    BY <2>1, <2>2, <2>3, <2>4, <2>5, <2>6, <2>7
<1>7. ASSUME NEW t \in Callers, Primary!Recheck(t) PROVE RegionIInv'
  <2>0. Moved
    <3>1. Primary!popBlocksImpl \/ Primary!FindsEmpty
      BY <1>7 DEF Primary!Recheck
    <3>2. QED
      BY <3>1, PopMoves
  <2>1. Primary!TypeOK'
    BY <1>7, <2>0
    DEF Primary!Recheck, Primary!FindsEmpty, Moved, Primary!RegionIsExhausted,
        Primary!TypeOK, Primary!Locations, Primary!BlocksConserved
  <2>2. OwnersMatch'
    BY <1>7
    DEF Primary!Recheck, Primary!FindsEmpty, Primary!RegionIsExhausted, Primary!TypeOK,
        OwnersMatch, MMHeld
  <2>3. ModeMatches'
    BY <1>7
    DEF Primary!Recheck, Primary!FindsEmpty, Primary!RegionIsExhausted, Primary!TypeOK,
        OwnersMatch, ModeMatches
  <2>4. FlagMatches'
    BY <1>7
    DEF Primary!Recheck, Primary!FindsEmpty, Primary!RegionIsExhausted, Primary!TypeOK,
        OwnersMatch, MMHeld, ModeMatches, FlagMatches, Primary!Populators
  <2>5. PlaceMatches'
    BY <1>7
    DEF Primary!Recheck, Primary!FindsEmpty, Primary!RegionIsExhausted, Primary!TypeOK,
        OwnersMatch, MMHeld, PlaceMatches
  <2>6. EmptinessSeen'
    BY <1>7, <2>0
    DEF Primary!Recheck, Primary!FindsEmpty, Moved, Primary!RegionIsExhausted,
        Primary!TypeOK, EmptinessSeen
  <2>7. Primary!BlocksConserved'
    BY <1>7, <2>0
    DEF Primary!Recheck, Primary!FindsEmpty, Moved, Primary!RegionIsExhausted,
        Primary!TypeOK, OwnersMatch, MMHeld, PlaceMatches, Primary!BlocksConserved
  <2>8. QED
    BY <2>1, <2>2, <2>3, <2>4, <2>5, <2>6, <2>7
<1>8. ASSUME NEW t \in Callers, Primary!Claim(t) PROVE RegionIInv'
  <2>1. Primary!TypeOK'
    BY <1>8
    DEF Primary!Claim, Primary!AfterClaim, Primary!TypeOK, Primary!Locations,
        Primary!BlocksConserved
  <2>2. OwnersMatch'
    BY <1>8 DEF Primary!Claim, Primary!AfterClaim, Primary!TypeOK, OwnersMatch, MMHeld
  <2>3. ModeMatches'
    BY <1>8 DEF Primary!Claim, Primary!AfterClaim, Primary!TypeOK, OwnersMatch, ModeMatches
  <2>4. FlagMatches'
    BY <1>8
    DEF Primary!Claim, Primary!AfterClaim, Primary!TypeOK, OwnersMatch, MMHeld,
        ModeMatches, FlagMatches, Primary!Populators
  <2>5. PlaceMatches'
    BY <1>8
    DEF Primary!Claim, Primary!AfterClaim, Primary!TypeOK, OwnersMatch, MMHeld,
        PlaceMatches
  <2>6. EmptinessSeen'
    BY <1>8 DEF Primary!Claim, Primary!AfterClaim, Primary!TypeOK, EmptinessSeen
  <2>7. Primary!BlocksConserved'
    BY <1>8
    DEF Primary!Claim, Primary!AfterClaim, Primary!TypeOK, OwnersMatch, MMHeld,
        PlaceMatches, Primary!BlocksConserved
  <2>8. QED
    BY <2>1, <2>2, <2>3, <2>4, <2>5, <2>6, <2>7
<1>9. ASSUME NEW t \in Callers, Primary!LockMMClaimed(t) PROVE RegionIInv'
  <2>1. Primary!TypeOK'
    BY <1>9
    DEF Primary!LockMMClaimed, Primary!AfterLockMM, Primary!RegionIsExhausted,
        Primary!TypeOK, Primary!Locations, Primary!BlocksConserved
  <2>2. OwnersMatch'
    BY <1>9
    DEF Primary!LockMMClaimed, Primary!AfterLockMM, Primary!RegionIsExhausted,
        Primary!TypeOK, OwnersMatch, MMHeld
  <2>3. ModeMatches'
    BY <1>9
    DEF Primary!LockMMClaimed, Primary!AfterLockMM, Primary!RegionIsExhausted,
        Primary!TypeOK, OwnersMatch, ModeMatches
  <2>4. FlagMatches'
    BY <1>9
    DEF Primary!LockMMClaimed, Primary!AfterLockMM, Primary!RegionIsExhausted,
        Primary!TypeOK, OwnersMatch, MMHeld, ModeMatches, FlagMatches, Primary!Populators
  <2>5. PlaceMatches'
    BY <1>9
    DEF Primary!LockMMClaimed, Primary!AfterLockMM, Primary!RegionIsExhausted,
        Primary!TypeOK, OwnersMatch, MMHeld, PlaceMatches
  <2>6. EmptinessSeen'
    BY <1>9
    DEF Primary!LockMMClaimed, Primary!AfterLockMM, Primary!RegionIsExhausted,
        Primary!TypeOK, EmptinessSeen
  <2>7. Primary!BlocksConserved'
    BY <1>9
    DEF Primary!LockMMClaimed, Primary!AfterLockMM, Primary!RegionIsExhausted,
        Primary!TypeOK, OwnersMatch, MMHeld, PlaceMatches, Primary!BlocksConserved
  <2>8. QED
    BY <2>1, <2>2, <2>3, <2>4, <2>5, <2>6, <2>7
<1>10. ASSUME NEW t \in Callers, Primary!Finish(t) PROVE RegionIInv'
  <2>1. Primary!TypeOK'
    BY <1>10
    DEF Primary!Finish, Primary!NotifyAll, Primary!TypeOK, Primary!Locations,
        Primary!BlocksConserved
  <2>2. OwnersMatch'
    BY <1>10 DEF Primary!Finish, Primary!NotifyAll, Primary!TypeOK, OwnersMatch, MMHeld
  <2>3. ModeMatches'
    BY <1>10 DEF Primary!Finish, Primary!NotifyAll, Primary!TypeOK, OwnersMatch, ModeMatches
  <2>4. FlagMatches'
    BY <1>10
    DEF Primary!Finish, Primary!NotifyAll, Primary!TypeOK, OwnersMatch, MMHeld,
        ModeMatches, FlagMatches, Primary!Populators
  <2>5. PlaceMatches'
    BY <1>10
    DEF Primary!Finish, Primary!NotifyAll, Primary!TypeOK, OwnersMatch, MMHeld,
        PlaceMatches
  <2>6. EmptinessSeen'
    BY <1>10 DEF Primary!Finish, Primary!NotifyAll, Primary!TypeOK, EmptinessSeen
  <2>7. Primary!BlocksConserved'
    BY <1>10
    DEF Primary!Finish, Primary!NotifyAll, Primary!TypeOK, OwnersMatch, MMHeld,
        PlaceMatches, Primary!BlocksConserved
  <2>8. QED
    BY <2>1, <2>2, <2>3, <2>4, <2>5, <2>6, <2>7
<1>11. ASSUME NEW t \in Callers, Primary!Wait(t) PROVE RegionIInv'
  <2>0. Moved
    <3>1. Primary!popBlocksImpl \/ Primary!FindsEmpty
      BY <1>11 DEF Primary!Wait
    <3>2. QED
      BY <3>1, PopMoves
  <2>1. Primary!TypeOK'
    BY <1>11, <2>0
    DEF Primary!Wait, Primary!FindsEmpty, Moved, Primary!TypeOK, Primary!Locations,
        Primary!BlocksConserved
  <2>2. OwnersMatch'
    BY <1>11 DEF Primary!Wait, Primary!FindsEmpty, Primary!TypeOK, OwnersMatch, MMHeld
  <2>3. ModeMatches'
    BY <1>11 DEF Primary!Wait, Primary!FindsEmpty, Primary!TypeOK, OwnersMatch, ModeMatches
  <2>4. FlagMatches'
    BY <1>11
    DEF Primary!Wait, Primary!FindsEmpty, Primary!TypeOK, OwnersMatch, MMHeld,
        ModeMatches, FlagMatches, Primary!Populators
  <2>5. PlaceMatches'
    BY <1>11
    DEF Primary!Wait, Primary!FindsEmpty, Primary!TypeOK, OwnersMatch, MMHeld,
        PlaceMatches
  <2>6. EmptinessSeen'
    BY <1>11, <2>0
    DEF Primary!Wait, Primary!FindsEmpty, Moved, Primary!TypeOK, EmptinessSeen
  <2>7. Primary!BlocksConserved'
    BY <1>11, <2>0
    DEF Primary!Wait, Primary!FindsEmpty, Moved, Primary!TypeOK, OwnersMatch, MMHeld,
        PlaceMatches, Primary!BlocksConserved
  <2>8. QED
    BY <2>1, <2>2, <2>3, <2>4, <2>5, <2>6, <2>7
<1>12. ASSUME NEW t \in Callers, Primary!Woken(t) PROVE RegionIInv'
  <2>0. Moved
    <3>1. Primary!popBlocksImpl \/ Primary!FindsEmpty
      BY <1>12 DEF Primary!Woken
    <3>2. QED
      BY <3>1, PopMoves
  <2>1. Primary!TypeOK'
    BY <1>12, <2>0
    DEF Primary!Woken, Primary!FindsEmpty, Moved, Primary!TypeOK, Primary!Locations,
        Primary!BlocksConserved
  <2>2. OwnersMatch'
    BY <1>12 DEF Primary!Woken, Primary!FindsEmpty, Primary!TypeOK, OwnersMatch, MMHeld
  <2>3. ModeMatches'
    BY <1>12 DEF Primary!Woken, Primary!FindsEmpty, Primary!TypeOK, OwnersMatch, ModeMatches
  <2>4. FlagMatches'
    BY <1>12
    DEF Primary!Woken, Primary!FindsEmpty, Primary!TypeOK, OwnersMatch, MMHeld,
        ModeMatches, FlagMatches, Primary!Populators
  <2>5. PlaceMatches'
    BY <1>12
    DEF Primary!Woken, Primary!FindsEmpty, Primary!TypeOK, OwnersMatch, MMHeld,
        PlaceMatches
  <2>6. EmptinessSeen'
    BY <1>12, <2>0
    DEF Primary!Woken, Primary!FindsEmpty, Moved, Primary!TypeOK, EmptinessSeen
  <2>7. Primary!BlocksConserved'
    BY <1>12, <2>0
    DEF Primary!Woken, Primary!FindsEmpty, Moved, Primary!TypeOK, OwnersMatch, MMHeld,
        PlaceMatches, Primary!BlocksConserved
  <2>8. QED
    BY <2>1, <2>2, <2>3, <2>4, <2>5, <2>6, <2>7
<1>13. ASSUME NEW t \in Callers, Primary!Map(t) PROVE RegionIInv'
  <2>0. mapped' \in Nat
    BY <1>13, MapSizeNat DEF Primary!Map, Primary!TypeOK
  <2>1. Primary!TypeOK'
    <3>1. /\ exhausted' = TRUE \/ exhausted' = exhausted
          /\ reports' = reports + 1 \/ reports' = reports
      BY <1>13, Zenon DEF Primary!Map
    <3>2. exhausted' \in BOOLEAN
      BY <3>1 DEF Primary!TypeOK
    <3>3. reports' \in Nat
      BY <3>1 DEF Primary!TypeOK
    <3>4. QED
      BY <1>13, <2>0, <3>2, <3>3
      DEF Primary!Map, Primary!Return, Primary!TypeOK, Primary!Locations
  <2>2. OwnersMatch'
    BY <1>13 DEF Primary!Map, Primary!Return, Primary!TypeOK, OwnersMatch, MMHeld
  <2>3. ModeMatches'
    BY <1>13 DEF Primary!Map, Primary!Return, Primary!TypeOK, OwnersMatch, ModeMatches
  <2>4. FlagMatches'
    BY <1>13
    DEF Primary!Map, Primary!Return, Primary!TypeOK, OwnersMatch, MMHeld, ModeMatches,
        FlagMatches, Primary!Populators
  <2>5. PlaceMatches'
    BY <1>13
    DEF Primary!Map, Primary!Return, Primary!TypeOK, OwnersMatch, MMHeld, PlaceMatches
  <2>6. EmptinessSeen'
    BY <1>13 DEF Primary!Map, Primary!Return, Primary!TypeOK, EmptinessSeen
  <2>7. Primary!BlocksConserved'
    BY <1>13, MapSizeNat
    DEF Primary!Map, Primary!Return, Primary!TypeOK, OwnersMatch, MMHeld, PlaceMatches,
        Primary!BlocksConserved
  <2>8. QED
    BY <2>1, <2>2, <2>3, <2>4, <2>5, <2>6, <2>7
<1>14. ASSUME NEW t \in Callers, Primary!Fill(t) PROVE RegionIInv'
  <2>0. /\ allocated' \in Nat /\ allocated' <= mapped
        /\ free' \in Nat /\ held' \in Nat
        /\ free' + held' - allocated' = free + held - allocated
        /\ emptied' \in BOOLEAN /\ (free' = 0 => emptied')
    BY <1>14, FillMoves DEF Primary!Fill, Primary!BlocksConserved
  <2>1. Primary!TypeOK'
    BY <1>14, <2>0 DEF Primary!Fill, Primary!Return, Primary!TypeOK, Primary!Locations
  <2>2. OwnersMatch'
    BY <1>14 DEF Primary!Fill, Primary!Return, Primary!TypeOK, OwnersMatch, MMHeld
  <2>3. ModeMatches'
    BY <1>14 DEF Primary!Fill, Primary!Return, Primary!TypeOK, OwnersMatch, ModeMatches
  <2>4. FlagMatches'
    BY <1>14
    DEF Primary!Fill, Primary!Return, Primary!TypeOK, OwnersMatch, MMHeld, ModeMatches,
        FlagMatches, Primary!Populators
  <2>5. PlaceMatches'
    BY <1>14
    DEF Primary!Fill, Primary!Return, Primary!TypeOK, OwnersMatch, MMHeld, PlaceMatches
  <2>6. EmptinessSeen'
    BY <2>0 DEF EmptinessSeen
  <2>7. Primary!BlocksConserved'
    BY <1>14, <2>0
    DEF Primary!Fill, Primary!Return, Primary!TypeOK, OwnersMatch, MMHeld, PlaceMatches,
        Primary!BlocksConserved
  <2>8. QED
    BY <2>1, <2>2, <2>3, <2>4, <2>5, <2>6, <2>7
<1>15. ASSUME NEW t \in Callers, Primary!Collect(t) PROVE RegionIInv'
  <2>1. Primary!TypeOK'
    BY <1>15
    DEF Primary!Collect, Primary!AfterCollect, Primary!TypeOK, Primary!Locations,
        Primary!BlocksConserved
  <2>2. OwnersMatch'
    BY <1>15 DEF Primary!Collect, Primary!AfterCollect, Primary!TypeOK, OwnersMatch, MMHeld
  <2>3. ModeMatches'
    BY <1>15
    DEF Primary!Collect, Primary!AfterCollect, Primary!TypeOK, OwnersMatch, ModeMatches
  <2>4. FlagMatches'
    BY <1>15
    DEF Primary!Collect, Primary!AfterCollect, Primary!TypeOK, OwnersMatch, MMHeld,
        ModeMatches, FlagMatches, Primary!Populators
  <2>5. PlaceMatches'
    BY <1>15
    DEF Primary!Collect, Primary!AfterCollect, Primary!TypeOK, OwnersMatch, MMHeld,
        PlaceMatches
  <2>6. EmptinessSeen'
    <3>1. PICK n \in 0 .. free : free' = free - n /\ emptied' = (emptied \/ free = n)
      BY <1>15 DEF Primary!Collect
    <3>2. free = n => emptied'
      BY <3>1, Zenon
    <3>3. QED
      BY <3>1, <3>2 DEF Primary!TypeOK, EmptinessSeen
  <2>7. Primary!BlocksConserved'
    BY <1>15
    DEF Primary!Collect, Primary!AfterCollect, Primary!TypeOK, OwnersMatch, MMHeld,
        PlaceMatches, Primary!BlocksConserved
  <2>8. QED
    BY <2>1, <2>2, <2>3, <2>4, <2>5, <2>6, <2>7
<1>16. ASSUME NEW t \in Callers, Primary!MergeGroupsToReleaseBack(t) PROVE RegionIInv'
  <2>1. Primary!TypeOK'
    BY <1>16
    DEF Primary!MergeGroupsToReleaseBack, Primary!NotifyAndGoto, Primary!NotifyAll,
        Primary!TypeOK, Primary!Locations, Primary!BlocksConserved
  <2>2. OwnersMatch'
    BY <1>16
    DEF Primary!MergeGroupsToReleaseBack, Primary!NotifyAndGoto, Primary!NotifyAll,
        Primary!TypeOK, OwnersMatch, MMHeld
  <2>3. ModeMatches'
    BY <1>16
    DEF Primary!MergeGroupsToReleaseBack, Primary!NotifyAndGoto, Primary!NotifyAll,
        Primary!TypeOK, OwnersMatch, ModeMatches
  <2>4. FlagMatches'
    BY <1>16
    DEF Primary!MergeGroupsToReleaseBack, Primary!NotifyAndGoto, Primary!NotifyAll,
        Primary!TypeOK, OwnersMatch, MMHeld, ModeMatches, FlagMatches, Primary!Populators
  <2>5. PlaceMatches'
    BY <1>16
    DEF Primary!MergeGroupsToReleaseBack, Primary!NotifyAndGoto, Primary!NotifyAll,
        Primary!TypeOK, OwnersMatch, MMHeld, PlaceMatches
  <2>6. EmptinessSeen'
    BY <1>16
    DEF Primary!MergeGroupsToReleaseBack, Primary!NotifyAndGoto, Primary!NotifyAll,
        Primary!TypeOK, EmptinessSeen
  <2>7. Primary!BlocksConserved'
    BY <1>16
    DEF Primary!MergeGroupsToReleaseBack, Primary!NotifyAndGoto, Primary!NotifyAll,
        Primary!TypeOK, OwnersMatch, MMHeld, PlaceMatches, Primary!BlocksConserved
  <2>8. QED
    BY <2>1, <2>2, <2>3, <2>4, <2>5, <2>6, <2>7
<1>17. ASSUME NEW t \in Callers, Primary!Enable(t) PROVE RegionIInv'
  <2>1. Primary!TypeOK'
    BY <1>17 DEF Primary!Enable, Primary!TypeOK, Primary!Locations, Primary!BlocksConserved
  <2>2. OwnersMatch'
    BY <1>17 DEF Primary!Enable, Primary!TypeOK, OwnersMatch, MMHeld
  <2>3. ModeMatches'
    BY <1>17 DEF Primary!Enable, Primary!TypeOK, OwnersMatch, ModeMatches
  <2>4. FlagMatches'
    BY <1>17
    DEF Primary!Enable, Primary!TypeOK, OwnersMatch, MMHeld, ModeMatches, FlagMatches,
        Primary!Populators
  <2>5. PlaceMatches'
    BY <1>17 DEF Primary!Enable, Primary!TypeOK, OwnersMatch, MMHeld, PlaceMatches
  <2>6. EmptinessSeen'
    BY <1>17 DEF Primary!Enable, Primary!TypeOK, EmptinessSeen
  <2>7. Primary!BlocksConserved'
    BY <1>17
    DEF Primary!Enable, Primary!TypeOK, OwnersMatch, MMHeld, PlaceMatches,
        Primary!BlocksConserved
  <2>8. QED
    BY <2>1, <2>2, <2>3, <2>4, <2>5, <2>6, <2>7
<1>18. QED
  BY <1>0, <1>1, <1>2, <1>3, <1>4, <1>5, <1>6, <1>7, <1>8, <1>9, <1>10, <1>11, <1>12,
     <1>13, <1>14, <1>15, <1>16, <1>17
  DEF Primary!Next, Primary!Steps

\* The inductive invariant holds in every reachable state.
LEMMA RegionInvariance == Primary!Spec => []RegionIInv
<1>1. QED
  BY InitRegionIInv, StepRegionIInv, PTL DEF Primary!Spec

\* Nothing is ever counted below zero, whatever the sizes are.
THEOREM RegionTypeCorrect == Primary!Spec => []Primary!TypeOK
<1>1. RegionIInv => Primary!TypeOK
  BY DEF RegionIInv
<1>2. QED
  BY RegionInvariance, <1>1, PTL

\* No interleaving of refills, releases, pops and pushes loses or doubles a
\* block of the region or takes one from beyond what is mapped.
THEOREM Conservation == Primary!Spec => []BlocksConserved
<1>1. RegionIInv => BlocksConserved
  BY DEF RegionIInv, BlocksConserved
<1>2. QED
  BY RegionInvariance, <1>1, PTL

\* One thread refills, its flag is set exactly while it does, and nobody sleeps
\* on the condition variable without it.
THEOREM SinglePopulator == Primary!Spec => []OnePopulator
<1>1. ASSUME RegionIInv PROVE OnePopulator
  <2>1. CASE Primary!Populators = {}
    BY <1>1, <2>1, FS_EmptySet, PrimaryCardinality
    DEF RegionIInv, FlagMatches, OnePopulator, Primary!OnePopulator
  <2>2. ASSUME NEW t \in Primary!Populators PROVE OnePopulator
    <3>1. Primary!Populators = {t}
      BY <1>1, <2>2 DEF RegionIInv, FlagMatches
    <3>2. Primary!Cardinality(Primary!Populators) = 1
      BY <3>1, FS_Singleton, PrimaryCardinality
    <3>3. Primary!Populators # {} /\ t \in Callers
      BY <3>1, <2>2 DEF Primary!Populators
    <3>4. QED
      BY <1>1, <2>2, <3>2, <3>3
      DEF RegionIInv, FlagMatches, OnePopulator, Primary!OnePopulator
  <2>3. QED
    BY <2>1, <2>2
<1>2. QED
  BY RegionInvariance, <1>1, PTL

\* The region grows only while no release has groups out of its freelist.
THEOREM WholeGrowth == Primary!Spec => GrowsOnlyWhole
<1> DEFINE A == mapped' # mapped => \A t \in Callers : extracted[t] = 0
<1>1. ASSUME RegionIInv, [Primary!Next]_Primary!vars PROVE [A]_Primary!vars
  <2>1. SUFFICES ASSUME Primary!Next, mapped' # mapped PROVE \A t \in Callers : extracted[t] = 0
    BY <1>1
  <2>2. PICK s \in Callers : Primary!Map(s)
    BY <2>1
    DEF Primary!Next, Primary!Steps, Primary!memory, Primary!Pop, Primary!Push,
        Primary!StartRelease, Primary!Disable, Primary!WakeSpuriously, Primary!LockMM,
        Primary!Recheck, Primary!Claim, Primary!LockMMClaimed, Primary!Finish,
        Primary!Wait, Primary!Woken, Primary!Fill, Primary!Collect,
        Primary!MergeGroupsToReleaseBack, Primary!Enable
  <2>3. MMLock = s
    BY <1>1, <2>2 DEF Primary!Map, RegionIInv, OwnersMatch, MMHeld
  <2>4. QED
    BY <1>1, <2>2, <2>3 DEF Primary!Map, RegionIInv, OwnersMatch, MMHeld, PlaceMatches
<1>2. QED
  BY RegionInvariance, <1>1, PTL DEF Primary!Spec, GrowsOnlyWhole, Primary!GrowsOnlyWhole

\* Without the condition variable a thread starts to populate only when the
\* freelist was empty since the last refill: popBlocks() looks again with MMLock.
THEOREM RefillJustified == Primary!Spec => RefilledOnce
<1> DEFINE A ==
      ~useCV => \A t \in Callers : regionPc[t] # "map" /\ regionPc'[t] = "map" => emptied
<1>1. ASSUME RegionIInv, [Primary!Next]_Primary!vars PROVE [A]_Primary!vars
  <2>1. SUFFICES ASSUME Primary!Next, ~useCV, NEW t \in Callers,
                        regionPc[t] # "map", regionPc'[t] = "map"
                 PROVE  emptied
    BY <1>1
  <2>2. Primary!Recheck(t) \/ Primary!LockMMClaimed(t)
    BY <1>1, <2>1
    DEF Primary!Next, Primary!Steps, Primary!Goto, Primary!NotifyAll,
        Primary!NotifyAndGoto, Primary!Return, Primary!AfterClaim, Primary!AfterCollect,
        Primary!Pop, Primary!Push, Primary!StartRelease, Primary!Disable,
        Primary!WakeSpuriously, Primary!LockMM, Primary!Claim, Primary!Finish,
        Primary!Wait, Primary!Woken, Primary!Map, Primary!Fill, Primary!Collect,
        Primary!MergeGroupsToReleaseBack, Primary!Enable, Primary!Recheck,
        Primary!LockMMClaimed, Primary!AfterLockMM, RegionIInv, Primary!TypeOK
  <2>3. Primary!Recheck(t) /\ Primary!FindsEmpty
    BY <1>1, <2>1, <2>2
    DEF Primary!LockMMClaimed, Primary!Recheck, Primary!Goto, RegionIInv,
        Primary!TypeOK, ModeMatches
  <2>4. QED
    BY <1>1, <2>3 DEF Primary!FindsEmpty, RegionIInv, EmptinessSeen
<1>2. QED
  BY RegionInvariance, <1>1, PTL DEF Primary!Spec, RefilledOnce, Primary!RefilledOnce
=============================================================================
