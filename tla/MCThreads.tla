------------------------------- MODULE MCThreads -------------------------------
(***************************************************************************)
(* What the threads of the allocator share, one subject per behaviour: all *)
(* of its locks, a shared registry of TSDs, an exclusive one, the local    *)
(* caches with their statistics, and stack traces with their ring buffer.  *)
(***************************************************************************)
EXTENDS Integers, Sequences, TLC

CONSTANTS
  Subjects,
  Threads, NoThread,
  NumTSDs, NumClasses,
  TSDsArraySize, DefaultTSDCount, MaxTime,
  Iterations

VARIABLES
  subject,
  shared, owner, todo,
  Mutex, MutexTSDs, TSDs, Precedence, NumberOfTSDs, CoPrimes, CurrentIndex, CurrentTSD, pc, walk,
  FallbackTSD, registryMutex, Disabled, InitState, DestructorIterations, cached, linked,
  keys, phase, round, pending, lateInit, fallback,
  Tab, Ring, RingEnd, RingEndMu, stored, Pos, entries, mixed, made, chunks, at, op, ops,
  cache, stats, unused, inStatsList, global, list, batchList, carved, user

lvars == <<shared, owner, todo>>
svars == <<Mutex, MutexTSDs, TSDs, Precedence, NumberOfTSDs, CoPrimes, CurrentIndex, CurrentTSD,
           pc, walk>>
xvars == <<FallbackTSD, registryMutex, Disabled, InitState, DestructorIterations, cached, linked,
           keys, phase, round, pending, lateInit, fallback>>
tvars == <<Tab, Ring, RingEnd, RingEndMu, stored, Pos, entries, mixed, made, chunks, at, op, ops>>
cvars == <<cache, stats, unused, inStatsList, global, list, batchList, carved, user>>

L == INSTANCE AllocatorLocks
S == INSTANCE SharedTSDs
X == INSTANCE ExclusiveTSDs WITH Mutex <- registryMutex

\* Traces of three and four slots in a depot of eight, which holds both but no
\* third, two entries in the ring buffer, three neighbours in a region and two
\* blocks of the secondary.
Stacks == {<<1, 2>>, <<3, 4, 5>>}

T == INSTANCE StackTraces WITH
  Recorders <- {1, 2}, Traces <- Stacks, TabPos <- [t \in Stacks |-> Len(t) - 2],
  RingSize <- 8, TabSize <- 2, RingBufferElements <- 2,
  PrimaryBlocks <- 0 .. 2, SecondaryBlocks <- {100, 101},
  FirstTags <- [b \in 0 .. 2 |-> IF b = 1 THEN 2 ELSE 1], Tags <- {1, 2},
  NumErrorReports <- 3, WordMod <- 8, MaxOps <- 3

\* Two TSDs over caches and batches of two blocks, so that one operation drains
\* and refills the batch class several times, and over a class of two bytes.
C == INSTANCE LocalCaches WITH
  TSDs <- {1, 2}, MaxCached <- <<2, 2>>, MaxNumBlocksInBatch <- 2, NumPopulate <- <<2, 2>>,
  Size <- <<1, 2>>, StatMod <- 256, MaxUser <- 2, MaxForeign <- 1, linked <- inStatsList

Init ==
  /\ subject \in Subjects
  /\ L!Init /\ S!Init /\ X!Init /\ T!Init /\ C!Init
  /\ subject # "locks" => shared
  /\ subject # "exclusive" => keys = [t \in Threads |-> {}]

\* Every thread of the exclusive registry has ended.
Ended == \A t \in Threads : phase[t] = "ended"

\* The threads of all TSDs have ended.
Destroyed == unused = {} /\ inStatsList = {}

\* The operations are all over.
Recorded == ops = 3 /\ \A t \in {1, 2} : at[t] = "idle"

Next ==
  /\ \/ subject = "locks" /\ L!Next /\ UNCHANGED <<svars, xvars, tvars, cvars>>
     \/ subject = "shared" /\ S!Next /\ UNCHANGED <<lvars, xvars, tvars, cvars>>
     \/ subject = "exclusive" /\ X!Next /\ UNCHANGED <<lvars, svars, tvars, cvars>>
     \/ subject = "exclusive" /\ Ended /\ UNCHANGED <<lvars, svars, xvars, tvars, cvars>>
     \/ subject = "caches" /\ C!Next /\ UNCHANGED <<lvars, svars, xvars, tvars>>
     \/ subject = "caches" /\ Destroyed /\ UNCHANGED <<lvars, svars, xvars, tvars, cvars>>
     \/ subject = "traces" /\ T!Next /\ UNCHANGED <<lvars, svars, xvars, cvars>>
     \/ subject = "traces" /\ Recorded /\ UNCHANGED <<lvars, svars, xvars, tvars, cvars>>
  /\ UNCHANGED subject

Symmetry == Permutations(Threads)

Spec == Init /\ [][Next]_<<subject, lvars, svars, xvars, tvars, cvars>>

\* No threads wait in a circle for locks that they hold: all of the allocator's
\* operations, with the locks they take inside each other.
NoWaitCycle == subject = "locks" => L!NoWaitCycle

\* disable() leaves no lock but MutexTSDs to a thread that a fork() drops.
ForkSafe == subject = "locks" => L!ForkSafe

\* disable() leaves no lock at all to a thread that a fork() drops.
NothingLeftLocked == subject = "locks" => L!NothingLeftLocked

\* getTSDAndLockSlow() tries a different TSD every time.
WalkVisitsNew == subject = "shared" => S!WalkVisitsNew

\* drainCaches() reaches every TSD that a thread uses.
DrainReachesAll == subject = "shared" => S!DrainReachesAll

\* A thread that ends leaves no blocks and no statistics behind in its TSD, unless
\* it was initialized by one of its destructors.
EndedCommitted == subject = "exclusive" => X!EndedCommitted

\* Nothing is put into a TSD that teardownThread() has committed.
NothingAfterTeardown == subject = "exclusive" => X!NothingAfterTeardown

\* However draining a class takes records from the batch class and gives them back,
\* no block is lost, a TSD that destroy() drained is empty, and the statistics of
\* all TSDs add up, those that freed another's blocks included.
CommittedWhole == subject = "caches" => C!BlocksAccounted /\ C!CommittedWhole

\* StackDepot::find() returns every trace that was stored and not overwritten.
StoredFound == subject = "traces" => T!StoredFound

\* storeRingBufferEntry() leaves no entry that mixes two records.
EntriesWhole == subject = "traces" => T!EntriesWhole

\* getErrorInfo() takes a stale pointer for a use after free of its block.
FreedIsReported == subject = "traces" => T!FreedIsReported
=============================================================================
