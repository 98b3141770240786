---------------------------- MODULE ExclusiveTSDs -----------------------------
(***************************************************************************)
(* TSDRegistryExT: every thread has a TSD of its own and shares the        *)
(* fallback one before its initThread(), after its teardown and while the  *)
(* registry is disabled.  The rounds of thread-specific destructors at the *)
(* end of a thread are those of the C library: in every round it takes the *)
(* keys that are set, in any order, clears them and calls their            *)
(* destructors; it stops when none is set or after the last round.  The    *)
(* destructor of an application key may allocate and free.  Operations of  *)
(* different threads meet in FallbackTSD only.                             *)
(***************************************************************************)
EXTENDS Integers

CONSTANTS
  Threads, NoThread,
  Iterations   \* PTHREAD_DESTRUCTOR_ITERATIONS

VARIABLES
  FallbackTSD, Mutex,      \* the owners of the locks
  Disabled,
  InitState,               \* of every thread
  DestructorIterations,    \* of its ThreadTSD
  cached,                  \* whether its ThreadTSD has blocks cached or quarantined
  linked,                  \* whether the statistics of its ThreadTSD are in the global list
  keys,                    \* the keys that are set for it
  phase,                   \* "run", "exit" in the destructors, "late" after them, "ended"
  round, pending,          \* in the destructors: the round and the keys still to be taken
  lateInit,                \* ghost: its initThread() came after the end of its start routine
  fallback                 \* whether it is about to unlock FallbackTSD

local == <<InitState, DestructorIterations, cached, linked>>
ending == <<keys, phase, round, pending>>
vars == <<FallbackTSD, Mutex, Disabled, local, ending, lateInit, fallback>>

Scudo == "PThreadKey"
App == "application key"

Init ==
  /\ FallbackTSD = NoThread /\ Mutex = NoThread /\ Disabled = FALSE
  /\ InitState = [t \in Threads |-> "NotInitialized"]
  /\ DestructorIterations = [t \in Threads |-> 0]
  /\ cached = [t \in Threads |-> FALSE] /\ linked = [t \in Threads |-> FALSE]
  /\ keys \in [Threads -> {{}, {App}}]
  /\ phase = [t \in Threads |-> "run"]
  /\ round = [t \in Threads |-> 0] /\ pending = [t \in Threads |-> {}]
  /\ lateInit = [t \in Threads |-> FALSE]
  /\ fallback = [t \in Threads |-> FALSE]

\* Where the code of a thread can call the allocator: its own code, the
\* destructor of its key and, for deallocate(), what the library does last.
Runs(t) ==
  /\ ~fallback[t]
  /\ phase[t] = "exit" => App \in pending[t]
  /\ phase[t] # "ended"

\* A key that is set within a round may or may not be reached in it.
initThread(t) ==
  /\ Mutex = NoThread   \* initOnceMaybe() has it for a moment
  /\ InitState' = [InitState EXCEPT ![t] = "Initialized"]
  /\ DestructorIterations' = [DestructorIterations EXCEPT ![t] = Iterations]
  /\ linked' = [linked EXCEPT ![t] = TRUE]
  /\ keys' = [keys EXCEPT ![t] = @ \cup {Scudo}]
  /\ lateInit' = [lateInit EXCEPT ![t] = phase[t] # "run"]
  /\ \/ UNCHANGED pending
     \/ phase[t] = "exit" /\ pending' = [pending EXCEPT ![t] = @ \cup {Scudo}]

\* With MinimalInit a thread that is not initialized stays so.
initThreadMaybe(t, MinimalInit) ==
  IF InitState[t] = "NotInitialized" /\ ~MinimalInit THEN initThread(t)
  ELSE UNCHANGED <<InitState, DestructorIterations, linked, keys, lateInit, pending>>

\* One operation of t with its own TSD or, its first half, with FallbackTSD.
Use(t, state) ==
  IF state = "Initialized" /\ ~Disabled
  THEN cached' \in {cached, [cached EXCEPT ![t] = TRUE]} /\ UNCHANGED <<FallbackTSD, fallback>>
  ELSE /\ FallbackTSD = NoThread /\ FallbackTSD' = t
       /\ fallback' = [fallback EXCEPT ![t] = TRUE] /\ UNCHANGED cached

Operate(t, MinimalInit) ==
  /\ Runs(t)
  /\ initThreadMaybe(t, MinimalInit)
  /\ Use(t, InitState'[t])
  /\ UNCHANGED <<Mutex, Disabled, phase, round>>

allocate(t) == phase[t] # "late" /\ Operate(t, FALSE)

deallocate(t) == Operate(t, TRUE)

UnlockFallback(t) ==
  /\ fallback[t]
  /\ FallbackTSD' = NoThread /\ fallback' = [fallback EXCEPT ![t] = FALSE]
  /\ UNCHANGED <<Mutex, Disabled, local, ending, lateInit>>

\* The caller's own ThreadTSD, torn down or not, and FallbackTSD, which keeps
\* nothing here.
drainCaches(t) ==
  /\ Runs(t) /\ phase[t] # "late"
  /\ initThreadMaybe(t, FALSE)
  /\ FallbackTSD = NoThread
  /\ cached' = [cached EXCEPT ![t] = FALSE]
  /\ UNCHANGED <<FallbackTSD, Mutex, Disabled, phase, round, fallback>>

(***************************************************************************)
(* The end of a thread.                                                    *)
(***************************************************************************)
Exit(t) ==
  /\ phase[t] = "run" /\ ~fallback[t]
  /\ phase' = [phase EXCEPT ![t] = "exit"]
  /\ round' = [round EXCEPT ![t] = 1]
  /\ pending' = [pending EXCEPT ![t] = keys[t]]
  /\ UNCHANGED <<FallbackTSD, Mutex, Disabled, local, keys, lateInit, fallback>>

\* Mutant: the TSD is committed but can be used again.
commitsOnly(t) ==
  /\ cached' = [cached EXCEPT ![t] = FALSE] /\ linked' = [linked EXCEPT ![t] = FALSE]
  /\ UNCHANGED InitState

commits(t) ==
  /\ cached' = [cached EXCEPT ![t] = FALSE] /\ linked' = [linked EXCEPT ![t] = FALSE]
  /\ InitState' = [InitState EXCEPT ![t] = "TornDown"]

\* Mutant: waits for one call more.
WaitsLonger(t) == DestructorIterations[t] > 0

Waits(t) == DestructorIterations[t] > 1
CountDown(t) ==
  DestructorIterations' = [DestructorIterations EXCEPT ![t] = IF Waits(t) THEN @ - 1 ELSE @]

\* pthread_setspecific() may fail; the teardown then goes ahead.
teardownThread(t) ==
  /\ phase[t] = "exit" /\ Scudo \in pending[t] /\ ~fallback[t]
  /\ pending' = [pending EXCEPT ![t] = @ \ {Scudo}]
  /\ CountDown(t)
  /\ \/ Waits(t) /\ UNCHANGED <<InitState, cached, linked, keys>>
     \/ commits(t) /\ keys' = [keys EXCEPT ![t] = @ \ {Scudo}]
  /\ UNCHANGED <<FallbackTSD, Mutex, Disabled, phase, round, lateInit, fallback>>

\* The application's destructor returns; it may have set its key again.
AppDestructorReturns(t) ==
  /\ phase[t] = "exit" /\ App \in pending[t] /\ ~fallback[t]
  /\ pending' = [pending EXCEPT ![t] = @ \ {App}]
  /\ keys' \in {keys, [keys EXCEPT ![t] = @ \ {App}]}
  /\ UNCHANGED <<FallbackTSD, Mutex, Disabled, local, phase, round, lateInit, fallback>>

NextRound(t) ==
  /\ phase[t] = "exit" /\ pending[t] = {} /\ ~fallback[t]
  /\ IF keys[t] # {} /\ round[t] < Iterations
     THEN /\ round' = [round EXCEPT ![t] = @ + 1]
          /\ pending' = [pending EXCEPT ![t] = keys[t]] /\ UNCHANGED phase
     ELSE phase' = [phase EXCEPT ![t] = "late"] /\ UNCHANGED <<round, pending>>
  /\ UNCHANGED <<FallbackTSD, Mutex, Disabled, local, keys, lateInit, fallback>>

End(t) ==
  /\ phase[t] = "late" /\ ~fallback[t]
  /\ phase' = [phase EXCEPT ![t] = "ended"]
  /\ UNCHANGED <<FallbackTSD, Mutex, Disabled, local, keys, round, pending, lateInit, fallback>>

(***************************************************************************)
(* disable() and enable(), by a thread that then does nothing else.        *)
(***************************************************************************)
disable(t) ==
  /\ phase[t] = "run" /\ ~fallback[t] /\ InitState[t] = "Initialized"
  /\ Mutex = NoThread /\ Mutex' = t
  /\ FallbackTSD = NoThread /\ FallbackTSD' = t
  /\ Disabled' = TRUE
  /\ UNCHANGED <<local, ending, lateInit, fallback>>

enable(t) ==
  /\ Mutex = t
  /\ Disabled' = FALSE /\ FallbackTSD' = NoThread /\ Mutex' = NoThread
  /\ UNCHANGED <<local, ending, lateInit, fallback>>

Step(t) ==
  \/ enable(t)
  \/ /\ Mutex # t
     /\ \/ allocate(t) \/ deallocate(t) \/ UnlockFallback(t) \/ drainCaches(t)
        \/ Exit(t) \/ teardownThread(t) \/ AppDestructorReturns(t) \/ NextRound(t) \/ End(t)
        \/ disable(t)

Next == \E t \in Threads : Step(t)

Spec == Init /\ [][Next]_vars

(***************************************************************************)
(* Properties.                                                             *)
(***************************************************************************)
\* A thread that ends has nothing left in its ThreadTSD, neither blocks nor its
\* statistics in the global list, however its destructors allocate and free,
\* unless one of them was the first to initialize the thread: teardownThread()
\* counts its calls, not the rounds, and then does not come to its last call.
EndedCommitted ==
  \A t \in Threads : phase[t] = "ended" /\ (cached[t] \/ linked[t]) => lateInit[t]

\* Once teardownThread() has committed a ThreadTSD nothing is put into it, by the
\* destructors that run after it and by the frees after those.
NothingAfterTeardown ==
  \A t \in Threads :
    DestructorIterations[t] # 0 /\ ~linked[t] => ~cached[t]
=============================================================================
