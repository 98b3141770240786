------------------------------ MODULE StackTraces ------------------------------
(***************************************************************************)
(* The traces of allocations and deallocations, recorded without a lock    *)
(* around the whole: StackDepot keeps each stack trace once, in a ring     *)
(* with a table of positions, and the allocation ring buffer keeps the     *)
(* last operations.  A crash handler reads a snapshot of both, taken at    *)
(* any moment, to say what a faulting address was.  A stack trace is the   *)
(* sequence of its frames and is its own hash; a frame is what the hash    *)
(* takes from a return address, and is no marker, as it is aligned.        *)
(***************************************************************************)
EXTENDS Integers, FiniteSetsExt, SequencesExt

CONSTANTS
  Recorders,             \* thread ids, from 1
  Traces,                \* stack traces
  TabPos,                \* Hash & TabMask of each
  RingSize, TabSize,
  RingBufferElements,
  PrimaryBlocks,         \* neighbours in a region: 0, 1, 2 ...
  SecondaryBlocks,
  FirstTags,             \* the tags of the first chunks in the primary's blocks
  Tags,                  \* what selectRandomTag() may return, whatever its mask is
  NumErrorReports,
  WordMod,               \* 2^SCUDO_WORDSIZE
  MaxOps                 \* bound: allocations and deallocations

VARIABLES
  Tab, Ring, RingEnd, RingEndMu,
  stored,                \* history: the traces in the order in which they were stored
                         \* and how much of the ring, lap by lap, was filled before each
  Pos, entries,          \* AllocationRingBuffer
  mixed,                 \* history: entries that two threads have written at once
  made,                  \* history: the records that were made for entries
  chunks,                \* State, tag and Ptr32[] of each block
  at, op, ops            \* what each thread does; how many operations were started

depotVars == <<Tab, Ring, RingEnd, RingEndMu, stored>>
bufferVars == <<Pos, entries, mixed, made>>
tvars == <<depotVars, bufferVars, chunks, at, op, ops>>

NoTid == 0
NoTrace == <<>>
Null == <<>>

Entry(Ptr, trace, tid, DeallocationTrace, DeallocationTid) ==
  [Ptr |-> Ptr, AllocationTrace |-> trace, AllocationTid |-> tid,
   DeallocationTrace |-> DeallocationTrace, DeallocationTid |-> DeallocationTid]

\* What the ring of the depot holds: the marker of a trace, or a frame.
Marker(trace) == [hash |-> trace, frame |-> 0]
Frame(f) == [hash |-> NoTrace, frame |-> f]

\* initRingBufferMaybe(); all blocks are free.
Init ==
  /\ Tab = [i \in 0 .. TabSize - 1 |-> 0]
  /\ Ring = [i \in 0 .. RingSize - 1 |-> Frame(0)]
  /\ RingEnd = 0 /\ RingEndMu = NoTid /\ stored = <<>>
  /\ Pos = 0
  /\ entries = [i \in 0 .. RingBufferElements - 1 |-> Entry(Null, NoTrace, NoTid, NoTrace, NoTid)]
  /\ mixed = {} /\ made = {}
  /\ chunks = [b \in PrimaryBlocks \cup SecondaryBlocks |->
                 [State |-> "Available", trace |-> NoTrace, tid |-> NoTid,
                  tag |-> IF b \in PrimaryBlocks THEN FirstTags[b] ELSE 0]]
  /\ at = [t \in Recorders |-> "idle"]
  /\ op = [t \in Recorders |-> [block |-> 0, trace |-> NoTrace, i |-> 0, slot |-> 0,
                                entry |-> Entry(Null, NoTrace, NoTid, NoTrace, NoTid)]]
  /\ ops = 0

Goto(t, l) == at' = [at EXCEPT ![t] = l]

(***************************************************************************)
(* Operations of the allocator, up to collectStackTrace().                 *)
(***************************************************************************)
Start(t, b, trace, entry) ==
  /\ at[t] = "idle" /\ ops < MaxOps
  /\ op' = [op EXCEPT ![t] = [block |-> b, trace |-> trace, i |-> 0, slot |-> 0, entry |-> entry]]
  /\ ops' = ops + 1
  /\ Goto(t, "check")
  /\ UNCHANGED <<depotVars, bufferVars>>

\* storePrimaryAllocationStackMaybe(), storeSecondaryAllocationStackMaybe().
Allocate(t, b, trace) ==
  /\ chunks[b].State = "Available"
  /\ Start(t, b, trace, Entry(<<b, 0>>, trace, t, NoTrace, NoTid))
  /\ chunks' = [chunks EXCEPT ![b].State = "starting"]

\* storeDeallocationStackMaybe(): what the allocation left in front of the chunk
\* is read first.
Deallocate(t, b, trace) ==
  /\ chunks[b].State = "Allocated"
  /\ Start(t, b, trace, Entry(<<b, chunks[b].tag>>, chunks[b].trace, chunks[b].tid, trace, t))
  /\ chunks' = [chunks EXCEPT ![b].State = "ending"]

(***************************************************************************)
(* StackDepot::insert().                                                   *)
(***************************************************************************)
\* The trace is in the ring already, or it will be when its marker has been
\* stored; Tab and Ring are read without the lock.
Check(t) ==
  /\ at[t] = "check"
  /\ Goto(t, IF Ring[Tab[TabPos[op[t].trace]]] = Marker(op[t].trace) THEN "record" ELSE "lock")
  /\ UNCHANGED <<depotVars, bufferVars, chunks, op, ops>>

LockDepot(t) ==
  /\ at[t] = "lock" /\ RingEndMu = NoTid
  /\ RingEndMu' = t
  /\ Goto(t, "tab")
  /\ UNCHANGED <<Tab, Ring, RingEnd, stored, bufferVars, chunks, op, ops>>

StoreTab(t) ==
  /\ at[t] = "tab"
  /\ Tab' = [Tab EXCEPT ![TabPos[op[t].trace]] = RingEnd]
  /\ Goto(t, "marker")
  /\ UNCHANGED <<Ring, RingEnd, RingEndMu, stored, bufferVars, chunks, op, ops>>

StoreMarker(t) ==
  /\ at[t] = "marker"
  /\ Ring' = [Ring EXCEPT ![RingEnd] = Marker(op[t].trace)]
  /\ Goto(t, "frames")
  /\ UNCHANGED <<Tab, RingEnd, RingEndMu, stored, bufferVars, chunks, op, ops>>

StoreFrame(t) ==
  LET i == op[t].i + 1 IN
  /\ at[t] = "frames" /\ i =< Len(op[t].trace)
  /\ Ring' = [Ring EXCEPT ![(RingEnd + i) % RingSize] = Frame(op[t].trace[i])]
  /\ op' = [op EXCEPT ![t].i = i]
  /\ UNCHANGED <<Tab, RingEnd, RingEndMu, stored, bufferVars, chunks, at, ops>>

Filled == IF stored = <<>> THEN 0 ELSE Last(stored).start + Len(Last(stored).trace) + 1

\* Mutant: the next trace begins on the last frame.
UnlockDepotEarly(t) ==
  /\ at[t] = "frames" /\ op[t].i = Len(op[t].trace)
  /\ RingEnd' = (RingEnd + op[t].i) % RingSize
  /\ RingEndMu' = NoTid
  /\ stored' = Append(stored, [trace |-> op[t].trace, start |-> Filled])
  /\ Goto(t, "record")
  /\ UNCHANGED <<Tab, Ring, bufferVars, chunks, op, ops>>

UnlockDepot(t) ==
  /\ at[t] = "frames" /\ op[t].i = Len(op[t].trace)
  /\ RingEnd' = (RingEnd + op[t].i + 1) % RingSize
  /\ RingEndMu' = NoTid
  /\ stored' = Append(stored, [trace |-> op[t].trace, start |-> Filled])
  /\ Goto(t, "record")
  /\ UNCHANGED <<Tab, Ring, bufferVars, chunks, op, ops>>

(***************************************************************************)
(* storeRingBufferEntry(), and the end of the operation.                   *)
(***************************************************************************)
IsAllocation(t) == op[t].entry.DeallocationTid = NoTid
Writing == {"invalidate", "allocation", "deallocation", "publish"}
OtherWrites(t, slot) == \E u \in Recorders \ {t} : at[u] \in Writing /\ op[u].slot = slot

\* Allocations leave the trace in front of the chunk; those of the primary have
\* no entry in the ring buffer.
Record(t) ==
  /\ at[t] = "record"
  /\ chunks' = IF IsAllocation(t)
               THEN [chunks EXCEPT ![op[t].block].trace = op[t].trace, ![op[t].block].tid = t]
               ELSE chunks
  /\ IF IsAllocation(t) /\ op[t].block \in PrimaryBlocks
     THEN Goto(t, "end") /\ UNCHANGED <<Pos, mixed, made, op>>
     ELSE /\ Pos' = (Pos + 1) % WordMod
          /\ op' = [op EXCEPT ![t].slot = Pos % RingBufferElements]
          /\ mixed' = mixed \cup {s \in {Pos % RingBufferElements} : OtherWrites(t, s)}
          /\ made' = made \cup {op[t].entry}
          /\ Goto(t, "invalidate")
  /\ UNCHANGED <<depotVars, entries, ops>>

\* Mutant: the entry keeps its pointer while it is written.
InvalidateNot(t) ==
  /\ at[t] = "invalidate"
  /\ mixed' = IF OtherWrites(t, op[t].slot) THEN mixed ELSE mixed \ {op[t].slot}
  /\ Goto(t, "allocation")
  /\ UNCHANGED <<depotVars, Pos, entries, made, chunks, op, ops>>

Invalidate(t) ==
  /\ at[t] = "invalidate"
  /\ entries' = [entries EXCEPT ![op[t].slot].Ptr = Null]
  /\ mixed' = IF OtherWrites(t, op[t].slot) THEN mixed ELSE mixed \ {op[t].slot}
  /\ Goto(t, "allocation")
  /\ UNCHANGED <<depotVars, Pos, made, chunks, op, ops>>

StoreAllocation(t) ==
  /\ at[t] = "allocation"
  /\ entries' = [entries EXCEPT ![op[t].slot].AllocationTrace = op[t].entry.AllocationTrace,
                                ![op[t].slot].AllocationTid = op[t].entry.AllocationTid]
  /\ Goto(t, "deallocation")
  /\ UNCHANGED <<depotVars, Pos, mixed, made, chunks, op, ops>>

StoreDeallocation(t) ==
  /\ at[t] = "deallocation"
  /\ entries' = [entries EXCEPT ![op[t].slot].DeallocationTrace = op[t].entry.DeallocationTrace,
                                ![op[t].slot].DeallocationTid = op[t].entry.DeallocationTid]
  /\ Goto(t, "publish")
  /\ UNCHANGED <<depotVars, Pos, mixed, made, chunks, op, ops>>

Publish(t) ==
  /\ at[t] = "publish"
  /\ entries' = [entries EXCEPT ![op[t].slot].Ptr = op[t].entry.Ptr]
  /\ Goto(t, "end")
  /\ UNCHANGED <<depotVars, Pos, mixed, made, chunks, op, ops>>

\* A new chunk gets its header; a chunk of the primary that is freed gets a tag,
\* which may be its last one.
End(t) ==
  LET b == op[t].block IN
  /\ at[t] = "end"
  /\ IF IsAllocation(t) THEN chunks' = [chunks EXCEPT ![b].State = "Allocated"]
     ELSE \E tag \in IF b \in PrimaryBlocks THEN Tags ELSE {0} :
            chunks' = [chunks EXCEPT ![b].State = "Available", ![b].tag = tag]
  /\ Goto(t, "idle")
  /\ UNCHANGED <<depotVars, bufferVars, op, ops>>

Next ==
  \E t \in Recorders :
    \/ \E b \in PrimaryBlocks \cup SecondaryBlocks, trace \in Traces :
         Allocate(t, b, trace) \/ Deallocate(t, b, trace)
    \/ Check(t) \/ LockDepot(t) \/ StoreTab(t) \/ StoreMarker(t) \/ StoreFrame(t) \/ UnlockDepot(t)
    \/ Record(t) \/ Invalidate(t) \/ StoreAllocation(t) \/ StoreDeallocation(t) \/ Publish(t)
    \/ End(t)

Spec == Init /\ [][Next]_tvars

(***************************************************************************)
(* The crash handler, on a snapshot.                                       *)
(***************************************************************************)
\* StackDepot::find() and the frames that collectTraceMaybe() gets from it.
find(trace) ==
  LET RingPos == Tab[TabPos[trace]]
      frames  == [i \in 1 .. Len(trace) |-> Ring[(RingPos + i) % RingSize].frame]
  IN  IF trace # NoTrace /\ Ring[RingPos] = Marker(trace) /\ Len(trace) < RingSize /\ frames = trace
      THEN frames ELSE NoTrace

Report(type, b, e) ==
  [error_type |-> type, allocation |-> b,
   allocation_trace |-> find(e.AllocationTrace), allocation_tid |-> e.AllocationTid,
   deallocation_trace |-> find(e.DeallocationTrace), deallocation_tid |-> e.DeallocationTid]

\* A fault at an address of a block or a page around it, through a pointer tag.
Fault(b, tag, where) == [block |-> b, tag |-> tag, where |-> where]

\* getInlineErrorInfo(): allocated blocks with the tag of the pointer, the nearest
\* first.
Distances(Min_, Max_) ==
  LET first == Max({Min_, 1})
      Side(k) == first + (k - 1) \div 2
  IN  (IF Min_ = 0 THEN <<0>> ELSE <<>>)
        \o [k \in 1 .. 2 * (Max_ - first) |-> IF k % 2 = 1 THEN Side(k) ELSE -Side(k)]

CheckOneChunk(f, reports, d) ==
  LET b == f.block + d IN
  IF /\ Len(reports) < NumErrorReports /\ b \in PrimaryBlocks
     /\ chunks[b].State = "Allocated" /\ chunks[b].tag = f.tag
  THEN Append(reports, Report(IF d > 0 THEN "BUFFER_UNDERFLOW" ELSE "BUFFER_OVERFLOW", b,
                         Entry(<<b, f.tag>>, chunks[b].trace, chunks[b].tid, NoTrace, NoTid)))
  ELSE reports

getInlineErrorInfo(reports, f, MinDistance, MaxDistance) ==
  FoldLeft(LAMBDA rs, d : CheckOneChunk(f, rs, d), reports, Distances(MinDistance, MaxDistance))

\* What an entry of the ring buffer says of a fault.
Explains(rs, f, e) ==
  /\ e.Ptr = <<f.block, f.tag>>
  /\ IF e.DeallocationTid # NoTid THEN f.where = "inside"
     ELSE \A i \in DOMAIN rs : rs[i].allocation # f.block

TypeOf(f, e) ==
  IF e.DeallocationTid # NoTid THEN "USE_AFTER_FREE"
  ELSE IF f.where = "before" THEN "BUFFER_UNDERFLOW" ELSE "BUFFER_OVERFLOW"

\* getRingBufferErrorInfo() looks at as many entries as there are, from the one
\* before Pos down; a position is a word.
NewestFirst == [k \in 1 .. RingBufferElements |-> ((Pos - k) % WordMod) % RingBufferElements]

CheckEntry(f, reports, i) ==
  LET e == entries[i] IN
  IF Len(reports) < NumErrorReports /\ e.Ptr # Null /\ Explains(reports, f, e)
  THEN Append(reports, Report(TypeOf(f, e), f.block, e)) ELSE reports

getRingBufferErrorInfo(reports, f) ==
  FoldLeft(LAMBDA rs, i : CheckEntry(f, rs, i), reports, NewestFirst)

\* Mutant: the whole neighbourhood before the ring buffer.
NeighboursFirst(f) ==
  getRingBufferErrorInfo(IF f.tag # 0 THEN getInlineErrorInfo(<<>>, f, 0, 16) ELSE <<>>, f)

getErrorInfo(f) ==
  LET near == IF f.tag # 0 THEN getInlineErrorInfo(<<>>, f, 0, 2) ELSE <<>>
      ring == getRingBufferErrorInfo(near, f)
  IN  IF f.tag # 0 THEN getInlineErrorInfo(ring, f, 2, 16) ELSE ring
-----------------------------------------------------------------------------
\* The room that the i-th stored trace and those behind it take in the ring.
RoomFrom(i) == Filled - stored[i].start

\* find() is useful: whatever inserts raced, and although each looks for its
\* trace without the lock, a trace that was stored is found in full until the
\* ring has come round to it or another one has taken its place in the table.
StoredFound ==
  RingEndMu = NoTid =>
    \A i \in DOMAIN stored :
      RoomFrom(i) =< RingSize
        /\ (\A j \in i + 1 .. Len(stored) : TabPos[stored[j].trace] # TabPos[stored[i].trace])
        => find(stored[i].trace) = stored[i].trace

\* "First invalidate our entry so that we don't attempt to interpret a partially
\* written state": at any moment of any number of writers, an entry with a
\* pointer is one record as it was made, unless a writer was overtaken by a whole
\* lap of the ring buffer while it wrote the entry.
EntriesWhole ==
  \A i \in DOMAIN entries : i \notin mixed /\ entries[i].Ptr # Null => entries[i] \in made

\* The blocks next to b that a tag is taken for.
WornNextTo(b, tag) ==
  \E n \in {b - 1, b + 1} \cap PrimaryBlocks : chunks[n].State = "Allocated" /\ chunks[n].tag = tag

\* An access through a stale pointer whose deallocation is in the ring buffer is
\* reported as a use after free before anything else, with the threads and, as
\* far as the depot still has them, the traces of the last deallocation of this
\* pointer; unless a neighbour wears the same tag, which the mask of
\* computeOddEvenMaskForPointerMaybe() would exclude if selectRandomTag() used it.
FreedIsReported ==
  \A b \in PrimaryBlocks : \A tag \in Tags \ {chunks[b].tag} :
    LET Records == {i \in DOMAIN entries : entries[i].Ptr = <<b, tag>>}
        Age(i)  == (Pos - 1 - i) % RingBufferElements
        last    == entries[CHOOSE i \in Records : \A j \in Records : Age(i) =< Age(j)]
        r       == getErrorInfo(Fault(b, tag, "inside"))
    IN  Records # {} /\ mixed = {} /\ ~WornNextTo(b, tag) =>
          /\ r[1].error_type = "USE_AFTER_FREE" /\ r[1].allocation = b
          /\ r[1].allocation_tid = last.AllocationTid
          /\ r[1].deallocation_tid = last.DeallocationTid
          /\ r[1].allocation_trace \in {NoTrace, last.AllocationTrace}
          /\ r[1].deallocation_trace \in {NoTrace, last.DeallocationTrace}
=============================================================================
