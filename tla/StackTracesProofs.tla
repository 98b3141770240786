-------------------------- MODULE StackTracesProofs ---------------------------
(***************************************************************************)
(* For every number of threads, every ring buffer and every depot: however *)
(* allocations and deallocations interleave, an entry with a pointer is    *)
(* one record as it was made, a stored trace is found until it is          *)
(* overwritten or displaced, and the crash handler says of a use after     *)
(* free that it is one.                                                    *)
(***************************************************************************)
EXTENDS StackTraces, SequenceTheorems, WellFoundedInduction, TLAPS

\* The buffers exist; a trace has an index in the table, and threads are counted
\* from 1.
BuffersAssumption ==
  /\ Recorders \subseteq Nat \ {0}
  /\ Traces \subseteq Seq(Nat)
  /\ RingSize \in Nat \ {0} /\ TabSize \in Nat \ {0}
  /\ TabPos \in [Traces -> 0 .. TabSize - 1]
  /\ RingBufferElements \in Nat \ {0} /\ WordMod \in Nat \ {0}

Slots == 0 .. RingBufferElements - 1
Blocks == PrimaryBlocks \cup SecondaryBlocks
AllTags == Tags \cup {FirstTags[b] : b \in PrimaryBlocks} \cup {0}
Tids == Recorders \cup {NoTid}
MaybeTraces == Traces \cup {NoTrace}

Entries ==
  [Ptr : {Null} \cup (Blocks \X AllTags), AllocationTrace : MaybeTraces, AllocationTid : Tids,
   DeallocationTrace : MaybeTraces, DeallocationTid : Tids]

Chunks ==
  [State : {"Available", "starting", "Allocated", "ending"}, trace : MaybeTraces, tid : Tids, tag : AllTags]

Operations == [block : Blocks \cup {0}, trace : MaybeTraces, i : Nat, slot : Slots, entry : Entries]

Inserting == {"check", "lock", "tab", "marker", "frames"}
Labels == {"idle", "record", "end"} \cup Inserting \cup Writing

\* The ring buffer, the blocks and the threads.
BufferTypes ==
  /\ Pos \in Nat
  /\ entries \in [Slots -> Entries]
  /\ mixed \subseteq Slots
  /\ chunks \in [Blocks -> Chunks]
  /\ at \in [Recorders -> Labels]
  /\ op \in [Recorders -> Operations]
  /\ \A t \in Recorders : at[t] # "idle" => op[t].block \in Blocks /\ op[t].trace \in Traces

WritersMarked ==
  \A t, u \in Recorders :
    t # u /\ at[t] \in Writing /\ at[u] \in Writing /\ op[t].slot = op[u].slot => op[t].slot \in mixed

RecordsMade == \A t \in Recorders : at[t] \in Writing => op[t].entry \in made

\* What the writer of entry e has made of it when it comes to step l.
Made(l, e, record) ==
  /\ l # "invalidate" => e.Ptr = Null
  /\ l \in {"deallocation", "publish"} =>
       e.AllocationTrace = record.AllocationTrace /\ e.AllocationTid = record.AllocationTid
  /\ l = "publish" =>
       e.DeallocationTrace = record.DeallocationTrace /\ e.DeallocationTid = record.DeallocationTid

\* How far the only writer of an entry has come.
EntriesInProgress ==
  \A t \in Recorders :
    at[t] \in Writing /\ op[t].slot \notin mixed => Made(at[t], entries[op[t].slot], op[t].entry)

BufferIInv == BufferTypes /\ WritersMarked /\ RecordsMade /\ EntriesInProgress /\ EntriesWhole
-----------------------------------------------------------------------------
StoredTraces == [trace : Traces, start : Nat]

\* The slots of the ring that the thread in insert() has filled.
Written == IF RingEndMu # NoTid /\ at[RingEndMu] = "frames" THEN op[RingEndMu].i + 1 ELSE 0

DepotTypes ==
  /\ Tab \in [0 .. TabSize - 1 -> 0 .. RingSize - 1]
  /\ DOMAIN Ring = 0 .. RingSize - 1
  /\ stored \in Seq(StoredTraces)
  /\ RingEndMu \in Tids

\* RingEndMu is held from its lock() to its unlock().
DepotLocked ==
  /\ \A t \in Recorders : at[t] \in {"tab", "marker", "frames"} <=> RingEndMu = t
  /\ \A t \in Recorders : at[t] \in Inserting => op[t].i =< Len(op[t].trace)
  /\ \A t \in Recorders : at[t] \in Inserting \ {"frames"} => op[t].i = 0

\* Traces are stored one behind the other.
StoredInOrder ==
  /\ \A i \in DOMAIN stored : stored[i].start + Len(stored[i].trace) + 1 =< Filled
  /\ RingEnd = Filled % RingSize

\* The marker and the first n frames of a trace that begins at start.
Holds(trace, start, n) ==
  /\ Ring[start % RingSize] = Marker(trace)
  /\ \A k \in 1 .. n : Ring[(start + k) % RingSize] = Frame(trace[k])

\* A stored trace is there until the ring has come round to it, and so is the
\* part of the next one that has been written.
RingIntact ==
  /\ \A i \in DOMAIN stored :
       Filled + Written - stored[i].start =< RingSize =>
         Holds(stored[i].trace, stored[i].start, Len(stored[i].trace))
  /\ \A t \in Recorders :
       at[t] = "frames" /\ op[t].i + 1 =< RingSize => Holds(op[t].trace, Filled, op[t].i)

\* No trace that was stored later, or that is being stored, took the place of the
\* i-th in the table.
LastInTab(i) ==
  LET pos == TabPos[stored[i].trace] IN
  /\ \A j \in i + 1 .. Len(stored) : TabPos[stored[j].trace] # pos
  /\ \A t \in Recorders : at[t] \in {"marker", "frames"} => TabPos[op[t].trace] # pos

TabPoints ==
  /\ \A i \in DOMAIN stored : LastInTab(i) => Tab[TabPos[stored[i].trace]] = stored[i].start % RingSize
  /\ \A t \in Recorders : at[t] \in {"marker", "frames"} => Tab[TabPos[op[t].trace]] = RingEnd

DepotIInv == DepotTypes /\ DepotLocked /\ StoredInOrder /\ RingIntact /\ TabPoints

\* The inductive invariant.
IInv == BufferIInv /\ DepotIInv
-----------------------------------------------------------------------------
(***************************************************************************)
(* The ring buffer.                                                        *)
(***************************************************************************)
LEMMA Remainder == ASSUME NEW i \in Nat, NEW n \in Nat \ {0} PROVE i % n \in 0 .. n - 1
  BY Z3

LEMMA BufferInit == ASSUME BuffersAssumption, Init PROVE BufferIInv
<1> DEFINE none == Entry(Null, NoTrace, NoTid, NoTrace, NoTid)
<1>1. none \in Entries /\ none.Ptr = Null
  BY DEF Entries, Entry, MaybeTraces, Tids
<1>2. entries \in [Slots -> Entries] /\ \A i \in DOMAIN entries : entries[i].Ptr = Null
  BY <1>1 DEF Init, Slots
<1>3. op \in [Recorders -> Operations]
  <2>1. 0 \in Slots
    BY DEF Slots, BuffersAssumption
  <2>2. [block |-> 0, trace |-> NoTrace, i |-> 0, slot |-> 0, entry |-> none] \in Operations
    BY <1>1, <2>1 DEF Operations, MaybeTraces
  <2>3. QED
    BY <2>2 DEF Init
<1>4. chunks \in [Blocks -> Chunks]
  BY DEF Init, Blocks, Chunks, AllTags, MaybeTraces, Tids
<1>5. BufferTypes
  BY <1>2, <1>3, <1>4 DEF Init, BufferTypes, Labels
<1>6. WritersMarked /\ RecordsMade /\ EntriesInProgress
  BY DEF Init, WritersMarked, RecordsMade, EntriesInProgress, Writing
<1>7. EntriesWhole
  BY <1>2 DEF EntriesWhole
<1>8. QED
  BY <1>5, <1>6, <1>7 DEF BufferIInv

\* A step of a thread that does not write an entry, before it or after it.
LEMMA NoEntryWritten ==
  ASSUME BufferIInv, NEW t \in Recorders, NEW l \in Labels \ Writing, at[t] \notin Writing,
         at' = [at EXCEPT ![t] = l], op' \in [Recorders -> Operations],
         \A u \in Recorders : u # t => op'[u] = op[u],
         l # "idle" => op'[t].block \in Blocks /\ op'[t].trace \in Traces,
         chunks' \in [Blocks -> Chunks], UNCHANGED <<Pos, entries, mixed, made>>
  PROVE  BufferIInv'
<1>1. BufferTypes'
  BY DEF BufferIInv, BufferTypes
<1>2. \A u \in Recorders : at'[u] \in Writing => at[u] \in Writing /\ at'[u] = at[u] /\ op'[u] = op[u]
  BY DEF BufferIInv, BufferTypes
<1>3. WritersMarked' /\ RecordsMade'
  BY <1>2, Zenon DEF BufferIInv, WritersMarked, RecordsMade
<1>4. EntriesInProgress'
  BY <1>2 DEF BufferIInv, EntriesInProgress, Made
<1>5. EntriesWhole'
  BY DEF BufferIInv, EntriesWhole
<1>6. QED
  BY <1>1, <1>3, <1>4, <1>5 DEF BufferIInv

\* Steps of insert().
LEMMA InsertKeepsBuffer ==
  ASSUME BufferIInv, NEW t \in Recorders, NEW l \in Labels \ Writing, l # "idle", at[t] \in Inserting,
         at' = [at EXCEPT ![t] = l], op' = op \/ (\E i \in Nat : op' = [op EXCEPT ![t].i = i]),
         UNCHANGED <<bufferVars, chunks>>
  PROVE  BufferIInv'
<1>1. /\ op' \in [Recorders -> Operations] /\ \A u \in Recorders : u # t => op'[u] = op[u]
      /\ op'[t].block = op[t].block /\ op'[t].trace = op[t].trace
  <2>1. op \in [Recorders -> Operations] /\ op[t] \in Operations
    BY DEF BufferIInv, BufferTypes
  <2>2. CASE op' = op
    BY <2>1, <2>2
  <2>3. ASSUME NEW i \in Nat, op' = [op EXCEPT ![t].i = i]
        PROVE  <1>1!:
    <3>1. PICK o : o = [op[t] EXCEPT !.i = i]
      OBVIOUS
    <3>2. o \in Operations /\ o.block = op[t].block /\ o.trace = op[t].trace
      BY <2>1, <3>1 DEF Operations
    <3>3. op' = [op EXCEPT ![t] = o]
      BY <2>3, <3>1
    <3>4. QED
      BY <2>1, <3>2, <3>3
  <2>4. QED
    BY <2>2, <2>3
<1>2. at[t] \notin Writing /\ op[t].block \in Blocks /\ op[t].trace \in Traces
  BY DEF Inserting, Writing, BufferIInv, BufferTypes
<1>3. UNCHANGED <<Pos, entries, mixed, made>> /\ chunks' \in [Blocks -> Chunks]
  BY DEF bufferVars, BufferIInv, BufferTypes
<1>4. QED
  BY <1>1, <1>2, <1>3, NoEntryWritten

\* Allocate() and Deallocate() begin with an entry for their block.
LEMMA StartKeepsBuffer ==
  ASSUME BufferIInv, NEW t \in Recorders, NEW b \in Blocks, NEW trace \in Traces, NEW entry \in Entries,
         Start(t, b, trace, entry), chunks' \in [Blocks -> Chunks], BuffersAssumption
  PROVE  BufferIInv'
<1>1. PICK o : o = [block |-> b, trace |-> trace, i |-> 0, slot |-> 0, entry |-> entry]
  OBVIOUS
<1>2. o \in Operations /\ o.block \in Blocks /\ o.trace \in Traces
  BY <1>1 DEF Operations, Slots, MaybeTraces, BuffersAssumption
<1>3. op' = [op EXCEPT ![t] = o] /\ at' = [at EXCEPT ![t] = "check"] /\ at[t] = "idle"
  BY <1>1 DEF Start, Goto
<1>4. op' \in [Recorders -> Operations] /\ op'[t] = o /\ \A u \in Recorders : u # t => op'[u] = op[u]
  BY <1>2, <1>3 DEF BufferIInv, BufferTypes
<1>5. UNCHANGED <<Pos, entries, mixed, made>>
  BY DEF Start, bufferVars
<1>6. "check" \in Labels \ Writing /\ "idle" \notin Writing
  BY DEF Labels, Inserting, Writing
<1>7. QED
  BY <1>2, <1>3, <1>4, <1>5, <1>6, NoEntryWritten

LEMMA AllocateKeepsBuffer ==
  ASSUME BuffersAssumption, BufferIInv, NEW t \in Recorders, NEW b \in Blocks, NEW trace \in Traces,
         Allocate(t, b, trace)
  PROVE  BufferIInv'
<1>1. Entry(<<b, 0>>, trace, t, NoTrace, NoTid) \in Entries
  BY DEF Entries, Entry, AllTags, MaybeTraces, Tids
<1>2. chunks' \in [Blocks -> Chunks]
  BY DEF Allocate, BufferIInv, BufferTypes, Chunks
<1>3. QED
  BY <1>1, <1>2, StartKeepsBuffer DEF Allocate

LEMMA DeallocateKeepsBuffer ==
  ASSUME BuffersAssumption, BufferIInv, NEW t \in Recorders, NEW b \in Blocks, NEW trace \in Traces,
         Deallocate(t, b, trace)
  PROVE  BufferIInv'
<1>1. chunks[b].tag \in AllTags /\ chunks[b].trace \in MaybeTraces /\ chunks[b].tid \in Tids
  BY DEF BufferIInv, BufferTypes, Chunks
<1>2. Entry(<<b, chunks[b].tag>>, chunks[b].trace, chunks[b].tid, trace, t) \in Entries
  BY <1>1 DEF Entries, Entry, MaybeTraces, Tids
<1>3. chunks' \in [Blocks -> Chunks]
  BY DEF Deallocate, BufferIInv, BufferTypes, Chunks
<1>4. QED
  BY <1>2, <1>3, StartKeepsBuffer DEF Deallocate

LEMMA EndKeepsBuffer ==
  ASSUME BufferIInv, NEW t \in Recorders, End(t)
  PROVE  BufferIInv'
<1>1. at[t] = "end" /\ at' = [at EXCEPT ![t] = "idle"] /\ UNCHANGED <<op, Pos, entries, mixed, made>>
  BY DEF End, Goto, bufferVars
<1>2. op[t].block \in Blocks
  BY <1>1 DEF BufferIInv, BufferTypes
<1>3. PICK b \in Blocks : b = op[t].block
  BY <1>2
<1>4. chunks' \in [Blocks -> Chunks]
  <2>1. CASE chunks' = [chunks EXCEPT ![b].State = "Allocated"]
    BY <2>1 DEF BufferIInv, BufferTypes, Chunks
  <2>2. ASSUME NEW tag \in AllTags, chunks' = [chunks EXCEPT ![b].State = "Available", ![b].tag = tag]
        PROVE  chunks' \in [Blocks -> Chunks]
    BY <2>2 DEF BufferIInv, BufferTypes, Chunks
  <2>3. QED
    BY <1>3, <2>1, <2>2 DEF End, AllTags
<1>5. "idle" \in Labels \ Writing /\ "end" \notin Writing
  BY DEF Labels, Writing
<1>6. op' \in [Recorders -> Operations]
  BY <1>1 DEF BufferIInv, BufferTypes
<1>7. QED
  BY <1>1, <1>4, <1>5, <1>6, NoEntryWritten

\* Changes of a writer t in its slot s.  Others that write the same entry were
\* noticed, so that it is one of the mixed ones.
LEMMA OneWriter ==
  ASSUME BufferIInv, NEW t \in Recorders, NEW l \in Labels, l # "idle", NEW s \in Slots, NEW e \in Entries,
         at' = [at EXCEPT ![t] = l], op' = op, at[t] \in Writing, l \in Writing \/ l = "end",
         s = op[t].slot, entries' = [entries EXCEPT ![s] = e], mixed' \subseteq mixed,
         \A i \in mixed : i # s => i \in mixed',
         s \in mixed /\ s \notin mixed' => ~OtherWrites(t, s),
         s \notin mixed' =>
           /\ e.Ptr # Null => e \in made
           /\ l \in Writing => Made(l, e, op[t].entry),
         UNCHANGED <<Pos, made, chunks>>
  PROVE  BufferIInv'
<1>1. BufferTypes'
  <2>1. BufferTypes /\ op[t].block \in Blocks /\ op[t].trace \in Traces
    <3>1. at[t] # "idle"
      BY DEF Writing
    <3>2. QED
      BY <3>1 DEF BufferIInv, BufferTypes
  <2>2. entries' \in [Slots -> Entries] /\ mixed' \subseteq Slots /\ at' \in [Recorders -> Labels]
    BY <2>1 DEF BufferTypes
  <2>3. \A u \in Recorders : at'[u] # "idle" => op'[u].block \in Blocks /\ op'[u].trace \in Traces
    BY <2>1 DEF BufferTypes
  <2>4. QED
    BY <2>1, <2>2, <2>3 DEF BufferTypes
<1>2. \A u \in Recorders : at'[u] \in Writing => at[u] \in Writing /\ (u # t => at'[u] = at[u])
  BY DEF BufferIInv, BufferTypes
<1>3. ASSUME NEW u \in Recorders, u # t, at[u] \in Writing, op[u].slot = s
      PROVE  s \in mixed'
  <2>1. s \in mixed
    BY <1>3 DEF BufferIInv, WritersMarked
  <2>2. OtherWrites(t, s)
    BY <1>3 DEF OtherWrites
  <2>3. QED
    BY <2>1, <2>2
<1>4. WritersMarked'
  <2>1. ASSUME NEW u \in Recorders, NEW v \in Recorders, u # v, at'[u] \in Writing, at'[v] \in Writing,
               op[u].slot = op[v].slot
        PROVE  op[u].slot \in mixed'
    <3>1. op[u].slot \in mixed /\ at[u] \in Writing /\ at[v] \in Writing
      BY <1>2, <2>1 DEF BufferIInv, WritersMarked
    <3>2. CASE op[u].slot # s
      BY <3>1, <3>2
    <3>3. CASE op[u].slot = s
      BY <1>3, <2>1, <3>1, <3>3
    <3>4. QED
      BY <3>2, <3>3
  <2>2. QED
    BY <2>1, Zenon DEF WritersMarked
<1>5. RecordsMade'
  BY <1>2 DEF BufferIInv, RecordsMade
<1>6. \A i \in Slots : entries'[i] = IF i = s THEN e ELSE entries[i]
  BY DEF BufferIInv, BufferTypes
<1>7. EntriesInProgress'
  <2>1. ASSUME NEW u \in Recorders, at'[u] \in Writing, op[u].slot \notin mixed', u # t
        PROVE  at'[u] = at[u] /\ at[u] \in Writing /\ op[u].slot \notin mixed /\ entries'[op[u].slot] = entries[op[u].slot]
    <3>1. at'[u] = at[u] /\ at[u] \in Writing
      BY <1>2, <2>1
    <3>2. op[u].slot # s
      BY <1>3, <2>1, <3>1
    <3>3. op[u].slot \in Slots
      BY DEF BufferIInv, BufferTypes, Operations
    <3>4. QED
      BY <1>6, <2>1, <3>1, <3>2, <3>3
  <2>2. ASSUME NEW u \in Recorders, at'[u] \in Writing, op[u].slot \notin mixed'
        PROVE  Made(at'[u], entries'[op[u].slot], op[u].entry)
    <3>1. CASE u = t
      <4>1. at'[t] = l /\ entries'[s] = e
        BY <1>6 DEF BufferIInv, BufferTypes
      <4>2. QED
        BY <2>2, <3>1, <4>1
    <3>2. CASE u # t
      <4>1. /\ at'[u] = at[u] /\ at[u] \in Writing /\ op[u].slot \notin mixed
            /\ entries'[op[u].slot] = entries[op[u].slot]
        BY <2>1, <2>2, <3>2
      <4>2. Made(at[u], entries[op[u].slot], op[u].entry)
        BY <4>1, Zenon DEF BufferIInv, EntriesInProgress
      <4>3. QED
        BY <4>1, <4>2, Zenon
    <3>3. QED
      BY <3>1, <3>2
  <2>3. QED
    BY <2>2 DEF EntriesInProgress, Made
<1>8. EntriesWhole'
  <2>1. ASSUME NEW i \in Slots, i \notin mixed', entries'[i].Ptr # Null PROVE entries'[i] \in made
    <3>1. CASE i = s
      BY <1>6, <2>1, <3>1
    <3>2. CASE i # s
      <4>1. i \in DOMAIN entries /\ i \notin mixed /\ entries'[i] = entries[i]
        BY <1>6, <2>1, <3>2 DEF BufferIInv, BufferTypes
      <4>2. QED
        BY <2>1, <4>1 DEF BufferIInv, EntriesWhole
    <3>3. QED
      BY <3>1, <3>2
  <2>2. DOMAIN entries' = Slots
    BY <1>1 DEF BufferTypes
  <2>3. QED
    BY <2>1, <2>2 DEF EntriesWhole
<1>9. QED
  BY <1>1, <1>4, <1>5, <1>7, <1>8 DEF BufferIInv

LEMMA InvalidateKeepsBuffer == ASSUME BuffersAssumption, BufferIInv, NEW t \in Recorders, Invalidate(t) PROVE BufferIInv'
<1> DEFINE s == op[t].slot
           e == [entries[s] EXCEPT !.Ptr = Null]
<1>1. s \in Slots /\ entries[s] \in Entries
  BY DEF BufferIInv, BufferTypes, Operations
<1>2. e \in Entries /\ e.Ptr = Null
  BY <1>1 DEF Entries
<1>3. entries' = [entries EXCEPT ![s] = e]
  BY <1>1 DEF Invalidate, BufferIInv, BufferTypes
<1>4. at[t] = "invalidate" /\ at' = [at EXCEPT ![t] = "allocation"] /\ UNCHANGED <<op, Pos, made, chunks>>
  BY DEF Invalidate, Goto
<1>5. mixed' = IF OtherWrites(t, s) THEN mixed ELSE mixed \ {s}
  BY DEF Invalidate
<1>6. Made("allocation", e, op[t].entry)
  BY <1>2 DEF Made
<1>7. {"invalidate", "allocation"} \subseteq Writing /\ "allocation" \in Labels
  BY DEF Writing, Labels
<1> HIDE DEF s, e
<1>8. op[t].slot = s
  BY DEF s
<1>9. s \in Slots /\ at[t] \in Writing
  BY <1>1, <1>4, <1>7
<1>10. QED
  BY <1>2, <1>3, <1>4, <1>5, <1>6, <1>7, <1>8, <1>9, OneWriter

LEMMA StoreAllocationKeepsBuffer ==
  ASSUME BuffersAssumption, BufferIInv, NEW t \in Recorders, StoreAllocation(t) PROVE BufferIInv'
<1> DEFINE s == op[t].slot
           r == op[t].entry
           e == [entries[s] EXCEPT !.AllocationTrace = r.AllocationTrace, !.AllocationTid = r.AllocationTid]
<1>1. s \in Slots /\ entries[s] \in Entries /\ r \in Entries
  BY DEF BufferIInv, BufferTypes, Operations
<1>2. /\ e \in Entries /\ e.Ptr = entries[s].Ptr
      /\ e.AllocationTrace = r.AllocationTrace /\ e.AllocationTid = r.AllocationTid
  BY <1>1 DEF Entries
<1>3. entries' = [entries EXCEPT ![s] = e]
  BY <1>1 DEF StoreAllocation, BufferIInv, BufferTypes
<1>4. /\ at[t] = "allocation" /\ at' = [at EXCEPT ![t] = "deallocation"]
      /\ UNCHANGED <<op, Pos, mixed, made, chunks>>
  BY DEF StoreAllocation, Goto
<1>5. {"allocation", "deallocation"} \subseteq Writing /\ "deallocation" \in Labels
  BY DEF Writing, Labels
<1>6. s \notin mixed => entries[s].Ptr = Null
  BY <1>4, <1>5 DEF BufferIInv, EntriesInProgress, Made
<1>7. s \notin mixed => Made("deallocation", e, op[t].entry) /\ e.Ptr = Null
  BY <1>2, <1>6 DEF Made
<1> HIDE DEF s, e, r
<1>8. op[t].slot = s
  BY DEF s
<1>9. s \in Slots /\ at[t] \in Writing
  BY <1>1, <1>4, <1>5
<1>10. QED
  BY <1>2, <1>3, <1>4, <1>5, <1>7, <1>8, <1>9, OneWriter

LEMMA StoreDeallocationKeepsBuffer ==
  ASSUME BuffersAssumption, BufferIInv, NEW t \in Recorders, StoreDeallocation(t) PROVE BufferIInv'
<1> DEFINE s == op[t].slot
           r == op[t].entry
           e == [entries[s] EXCEPT !.DeallocationTrace = r.DeallocationTrace, !.DeallocationTid = r.DeallocationTid]
<1>1. s \in Slots /\ entries[s] \in Entries /\ r \in Entries
  BY DEF BufferIInv, BufferTypes, Operations
<1>2. /\ e \in Entries /\ e.Ptr = entries[s].Ptr
      /\ e.AllocationTrace = entries[s].AllocationTrace /\ e.AllocationTid = entries[s].AllocationTid
      /\ e.DeallocationTrace = r.DeallocationTrace /\ e.DeallocationTid = r.DeallocationTid
  BY <1>1 DEF Entries
<1>3. entries' = [entries EXCEPT ![s] = e]
  BY <1>1 DEF StoreDeallocation, BufferIInv, BufferTypes
<1>4. /\ at[t] = "deallocation" /\ at' = [at EXCEPT ![t] = "publish"]
      /\ UNCHANGED <<op, Pos, mixed, made, chunks>>
  BY DEF StoreDeallocation, Goto
<1>5. {"deallocation", "publish"} \subseteq Writing /\ "publish" \in Labels
  BY DEF Writing, Labels
<1>6. s \notin mixed => Made("deallocation", entries[s], r)
  BY <1>4, <1>5 DEF BufferIInv, EntriesInProgress
<1>7. s \notin mixed => Made("publish", e, op[t].entry) /\ e.Ptr = Null
  BY <1>2, <1>6 DEF Made
<1> HIDE DEF s, e, r
<1>8. op[t].slot = s
  BY DEF s
<1>9. s \in Slots /\ at[t] \in Writing
  BY <1>1, <1>4, <1>5
<1>10. QED
  BY <1>2, <1>3, <1>4, <1>5, <1>7, <1>8, <1>9, OneWriter

\* The entry is now the whole record.
LEMMA PublishKeepsBuffer == ASSUME BuffersAssumption, BufferIInv, NEW t \in Recorders, Publish(t) PROVE BufferIInv'
<1> DEFINE s == op[t].slot
           r == op[t].entry
           e == [entries[s] EXCEPT !.Ptr = r.Ptr]
<1>1. s \in Slots /\ entries[s] \in Entries /\ r \in Entries
  BY DEF BufferIInv, BufferTypes, Operations
<1>2. e \in Entries
  BY <1>1 DEF Entries
<1>3. entries' = [entries EXCEPT ![s] = e]
  BY <1>1 DEF Publish, BufferIInv, BufferTypes
<1>4. /\ at[t] = "publish" /\ at' = [at EXCEPT ![t] = "end"]
      /\ UNCHANGED <<op, Pos, mixed, made, chunks>>
  BY DEF Publish, Goto
<1>5. "publish" \in Writing /\ "end" \notin Writing /\ "end" \in Labels
  BY DEF Writing, Labels
<1>6. s \notin mixed => e \in made
  <2>1. r \in made
    BY <1>4, <1>5 DEF BufferIInv, RecordsMade
  <2>2. s \notin mixed => Made("publish", entries[s], r)
    BY <1>4, <1>5 DEF BufferIInv, EntriesInProgress
  <2>3. s \notin mixed => e = r
    BY <1>1, <2>2 DEF Entries, Made
  <2>4. QED
    BY <2>1, <2>3
<1> HIDE DEF s, e, r
<1>8. op[t].slot = s
  BY DEF s
<1>9. s \in Slots /\ at[t] \in Writing
  BY <1>1, <1>4, <1>5
<1>10. QED
  BY <1>2, <1>3, <1>4, <1>5, <1>6, <1>8, <1>9, OneWriter

\* A thread that records gets the next slot, with another writer or without.
LEMMA RecordKeepsBuffer == ASSUME BuffersAssumption, BufferIInv, NEW t \in Recorders, Record(t) PROVE BufferIInv'
<1>1. at[t] = "record" /\ op[t].block \in Blocks /\ op[t].trace \in Traces /\ entries' = entries
  BY DEF Record, BufferIInv, BufferTypes
<1>2. PICK b \in Blocks : b = op[t].block
  BY <1>1
<1>3. chunks' \in [Blocks -> Chunks]
  <2>1. PICK trace \in MaybeTraces : trace = op[t].trace
    BY <1>1 DEF MaybeTraces
  <2>2. t \in Tids
    BY DEF Tids
  <2>3. CASE chunks' = [chunks EXCEPT ![b].trace = trace, ![b].tid = t]
    BY <2>2, <2>3 DEF BufferIInv, BufferTypes, Chunks
  <2>4. CASE chunks' = chunks
    BY <2>4 DEF BufferIInv, BufferTypes
  <2>5. QED
    BY <1>2, <2>1, <2>3, <2>4 DEF Record
<1>4. {"record", "end"} \subseteq Labels \ Writing
  BY DEF Labels, Writing
<1>5. CASE IsAllocation(t) /\ op[t].block \in PrimaryBlocks
  <2>1. at' = [at EXCEPT ![t] = "end"] /\ UNCHANGED <<op, Pos, entries, mixed, made>>
    BY <1>5 DEF Record, Goto
  <2>2. op' \in [Recorders -> Operations]
    BY <2>1 DEF BufferIInv, BufferTypes
  <2>3. QED
    BY <1>1, <1>3, <1>4, <2>1, <2>2, NoEntryWritten
<1>6. CASE ~(IsAllocation(t) /\ op[t].block \in PrimaryBlocks)
  <2>1. Pos \in Nat /\ Pos % RingBufferElements \in Slots /\ (Pos + 1) % WordMod \in Nat
    <3>1. Pos \in Nat /\ Pos + 1 \in Nat /\ RingBufferElements \in Nat \ {0} /\ WordMod \in Nat \ {0}
      BY DEF BufferIInv, BufferTypes, BuffersAssumption
    <3>2. Pos % RingBufferElements \in 0 .. RingBufferElements - 1 /\ (Pos + 1) % WordMod \in 0 .. WordMod - 1
      BY <3>1, Remainder, Zenon
    <3>3. QED
      BY <3>1, <3>2 DEF Slots
  <2>2. PICK s \in Slots : s = Pos % RingBufferElements
    BY <2>1
  <2>3. PICK o : o = [op[t] EXCEPT !.slot = s]
    OBVIOUS
  <2>4. /\ Pos' = (Pos + 1) % WordMod
        /\ op' = [op EXCEPT ![t] = o]
        /\ mixed' = mixed \cup {i \in {s} : OtherWrites(t, i)}
        /\ made' = made \cup {op[t].entry}
        /\ at' = [at EXCEPT ![t] = "invalidate"]
    BY <1>6, <2>2, <2>3 DEF Record, Goto
  <2>5. /\ o \in Operations /\ o.slot = s /\ o.entry = op[t].entry
        /\ o.block = op[t].block /\ o.trace = op[t].trace
    BY <2>3 DEF BufferIInv, BufferTypes, Operations
  <2>6. /\ op' \in [Recorders -> Operations] /\ op'[t] = o
        /\ \A u \in Recorders : u # t => op'[u] = op[u] /\ at'[u] = at[u]
        /\ at'[t] = "invalidate" /\ at' \in [Recorders -> Labels]
    BY <2>4, <2>5 DEF BufferIInv, BufferTypes, Labels, Writing
  <2>7. BufferTypes'
    BY <1>1, <1>3, <2>1, <2>4, <2>5, <2>6 DEF BufferIInv, BufferTypes
  <2>8. \A u \in Recorders : u # t /\ at[u] \in Writing /\ op[u].slot = s => s \in mixed'
    BY <2>4 DEF OtherWrites
  <2>9. WritersMarked'
    <3>1. ASSUME NEW u \in Recorders, NEW v \in Recorders, u # v, at'[u] \in Writing, at'[v] \in Writing,
                 op'[u].slot = op'[v].slot
          PROVE  op'[u].slot \in mixed'
      <4>1. CASE u = t
        BY <2>5, <2>6, <2>8, <3>1, <4>1
      <4>2. CASE v = t
        BY <2>5, <2>6, <2>8, <3>1, <4>2
      <4>3. CASE u # t /\ v # t
        BY <2>4, <2>6, <3>1, <4>3 DEF BufferIInv, WritersMarked
      <4>4. QED
        BY <4>1, <4>2, <4>3
    <3>2. QED
      BY <3>1, Zenon DEF WritersMarked
  <2>10. RecordsMade'
    BY <2>4, <2>5, <2>6 DEF BufferIInv, RecordsMade
  <2>11. EntriesInProgress'
    <3>1. ASSUME NEW u \in Recorders, at'[u] \in Writing, op'[u].slot \notin mixed'
          PROVE  Made(at'[u], entries[op'[u].slot], op'[u].entry)
      <4>1. CASE u = t
        BY <2>6, <4>1 DEF Made
      <4>2. CASE u # t
        BY <2>4, <2>6, <3>1, <4>2 DEF BufferIInv, EntriesInProgress
      <4>3. QED
        BY <4>1, <4>2
    <3>2. QED
      BY <1>1, <3>1 DEF EntriesInProgress, Made
  <2>12. EntriesWhole'
    BY <1>1, <2>4 DEF BufferIInv, EntriesWhole
  <2>13. QED
    BY <2>7, <2>9, <2>10, <2>11, <2>12 DEF BufferIInv
<1>7. QED
  BY <1>5, <1>6

LEMMA BufferStep == ASSUME BuffersAssumption, BufferIInv, [Next]_tvars PROVE BufferIInv'
<1>1. CASE UNCHANGED tvars
  BY <1>1 DEF tvars, bufferVars, BufferIInv, BufferTypes, WritersMarked, RecordsMade, EntriesInProgress,
              EntriesWhole, Made, Writing
<1>2. ASSUME NEW t \in Recorders,
             Check(t) \/ LockDepot(t) \/ StoreTab(t) \/ StoreMarker(t) \/ StoreFrame(t) \/ UnlockDepot(t)
      PROVE  BufferIInv'
  <2>1. PICK l \in Labels \ Writing :
          /\ l # "idle" /\ at[t] \in Inserting /\ at' = [at EXCEPT ![t] = l]
          /\ op' = op \/ \E i \in Nat : op' = [op EXCEPT ![t].i = i]
    <3>1. {"lock", "tab", "marker", "frames", "record"} \subseteq Labels \ Writing
      BY DEF Labels, Inserting, Writing
    <3>2. CASE StoreFrame(t)
      <4>1. at[t] = "frames" /\ at' = at /\ op[t].i + 1 \in Nat /\ op' = [op EXCEPT ![t].i = op[t].i + 1]
        BY <3>2 DEF StoreFrame, BufferIInv, BufferTypes, Operations
      <4>2. at' = [at EXCEPT ![t] = "frames"]
        BY <4>1 DEF BufferIInv, BufferTypes
      <4>3. QED
        BY <3>1, <4>1, <4>2 DEF Inserting
    <3>3. CASE ~StoreFrame(t)
      <4>1. op' = op /\ at[t] \in Inserting
        BY <1>2, <3>3 DEF Check, LockDepot, StoreTab, StoreMarker, UnlockDepot, Inserting
      <4>2. \E l \in {"lock", "tab", "marker", "frames", "record"} : at' = [at EXCEPT ![t] = l]
        BY <1>2, <3>3 DEF Check, LockDepot, StoreTab, StoreMarker, UnlockDepot, Goto
      <4>3. QED
        BY <3>1, <4>1, <4>2
    <3>4. QED
      BY <3>2, <3>3
  <2>2. UNCHANGED <<bufferVars, chunks>>
    BY <1>2 DEF Check, LockDepot, StoreTab, StoreMarker, StoreFrame, UnlockDepot
  <2>3. QED
    BY <2>1, <2>2, InsertKeepsBuffer
<1>3. ASSUME NEW t \in Recorders, NEW b \in Blocks, NEW trace \in Traces,
             Allocate(t, b, trace) \/ Deallocate(t, b, trace)
      PROVE  BufferIInv'
  BY <1>3, AllocateKeepsBuffer, DeallocateKeepsBuffer
<1>4. ASSUME NEW t \in Recorders,
             Record(t) \/ Invalidate(t) \/ StoreAllocation(t) \/ StoreDeallocation(t) \/ Publish(t) \/ End(t)
      PROVE  BufferIInv'
  BY <1>4, RecordKeepsBuffer, InvalidateKeepsBuffer, StoreAllocationKeepsBuffer, StoreDeallocationKeepsBuffer,
     PublishKeepsBuffer, EndKeepsBuffer
<1>5. QED
  BY <1>1, <1>2, <1>3, <1>4, Zenon DEF Next, Blocks

LEMMA BufferInvariance == BuffersAssumption => (Spec => []BufferIInv)
<1> SUFFICES ASSUME BuffersAssumption PROVE Spec => []BufferIInv
  OBVIOUS
<1>1. Init => BufferIInv
  BY BufferInit
<1>2. BufferIInv /\ [Next]_tvars => BufferIInv'
  BY BufferStep
<1>3. QED
  BY <1>1, <1>2, PTL DEF Spec

\* The entries of the ring buffer are not read half written.
THEOREM WholeEntries == BuffersAssumption => (Spec => []EntriesWhole)
<1> SUFFICES ASSUME BuffersAssumption PROVE Spec => []EntriesWhole
  OBVIOUS
<1>1. BufferIInv => EntriesWhole
  BY DEF BufferIInv
<1>2. QED
  BY <1>1, BufferInvariance, PTL
-----------------------------------------------------------------------------
(***************************************************************************)
(* The stack depot.                                                        *)
(***************************************************************************)
LEMMA Division ==
  ASSUME NEW x \in Nat, NEW n \in Nat \ {0}
  PROVE  \E q \in Nat, r \in 0 .. n - 1 : x % n = r /\ x = n * q + r
<1>1. \A y \in Nat, m \in Nat \ {0}, q, r \in Int : q = y \div m /\ r = y % m => y = m * q + r
  BY Z3
<1>2. x \div n \in Nat
  BY Z3
<1>3. x % n \in 0 .. n - 1
  BY Remainder
<1>4. PICK q \in Nat, r \in 0 .. n - 1 : q = x \div n /\ x % n = r
  BY <1>2, <1>3, Zenon
<1>5. q \in Int /\ r \in Int /\ r = x % n
  BY <1>4
<1>6. x = n * q + r
  BY <1>1, <1>4, <1>5, ZenonT(40)
<1>7. QED
  BY <1>4, <1>6, Zenon

LEMMA SlotsDiffer ==
  ASSUME NEW x \in Nat, NEW y \in Nat, NEW n \in Nat \ {0}, x < y, y - x < n
  PROVE  x % n # y % n
<1>1. PICK q \in Nat, r \in 0 .. n - 1 : x % n = r /\ x = n * q + r
  BY Division
<1>2. PICK p \in Nat, s \in 0 .. n - 1 : y % n = s /\ y = n * p + s
  BY Division
<1>3. \A m \in Nat \ {0} : \A i, j, a, b \in Nat, c, d \in 0 .. m - 1 :
        a = m * i + c /\ b = m * j + d /\ a < b /\ b - a < m => c # d
  BY Z3
<1>4. r # s
  BY <1>1, <1>2, <1>3, Zenon
<1>5. QED
  BY <1>1, <1>2, <1>4, Zenon

LEMMA SlotBehind ==
  ASSUME NEW x \in Nat, NEW k \in Nat, NEW n \in Nat \ {0}
  PROVE  ((x % n) + k) % n = (x + k) % n
<1>1. PICK q \in Nat, r \in 0 .. n - 1 : x % n = r /\ x = n * q + r
  BY Division
<1>2. PICK y \in Nat, z \in Nat : y = r + k /\ z = x + k
  OBVIOUS
<1>3. PICK p \in Nat, s \in 0 .. n - 1 : y % n = s /\ y = n * p + s
  BY Division
<1>4. PICK u \in Nat, v \in 0 .. n - 1 : z % n = v /\ z = n * u + v
  BY Division
<1>5. r \in Nat /\ s \in Nat /\ v \in Nat /\ s < n /\ v < n /\ r + k = n * p + s /\ x + k = n * u + v
  BY <1>2, <1>3, <1>4
<1>6. n * (q + p) + s = n * u + v
  <2>1. \A m, i, j \in Nat : m * (i + j) = m * i + m * j /\ m * i \in Nat
    BY Z3
  <2>2. PICK a \in Nat, b \in Nat, c \in Nat : a = n * q /\ b = n * p /\ c = n * u
    BY <2>1
  <2>3. x = a + r /\ r + k = b + s /\ x + k = c + v
    BY <1>1, <1>5, <2>2, Zenon
  <2>4. a + b + s = c + v
    BY <1>5, <2>3
  <2>5. n * (q + p) = a + b
    BY <2>1, <2>2
  <2>6. QED
    BY <2>2, <2>4, <2>5, Zenon
<1>7. s = v
  <2>1. \A m \in Nat \ {0} : \A i, h, b, c \in Nat : m * i + b = m * h + c /\ b < m /\ c < m => b = c
    BY Z3
  <2>2. PICK i \in Nat : i = q + p
    OBVIOUS
  <2>3. n * i + s = n * u + v
    BY <1>6, <2>2, Zenon
  <2>4. QED
    BY <1>5, <2>1, <2>3, Zenon
<1>8. QED
  BY <1>1, <1>2, <1>3, <1>4, <1>7, Zenon

\* What is stored, and that the ring is filled up to a position.
LEMMA FilledType ==
  ASSUME BuffersAssumption, stored \in Seq(StoredTraces)
  PROVE  /\ Filled \in Nat
         /\ \A i \in DOMAIN stored :
              /\ i \in 1 .. Len(stored) /\ stored[i].trace \in Traces /\ stored[i].start \in Nat
              /\ Len(stored[i].trace) \in Nat
<1>1. \A trace \in Traces : Len(trace) \in Nat
  BY DEF BuffersAssumption
<1>2. \A i \in DOMAIN stored : i \in 1 .. Len(stored) /\ stored[i] \in StoredTraces
  OBVIOUS
<1>3. \A i \in DOMAIN stored : stored[i].trace \in Traces /\ stored[i].start \in Nat
  BY <1>2 DEF StoredTraces
<1>4. stored # <<>> => Len(stored) \in DOMAIN stored
  OBVIOUS
<1>5. Filled \in Nat
  BY <1>1, <1>3, <1>4 DEF Filled, Last
<1>6. QED
  BY <1>1, <1>2, <1>3, <1>5

LEMMA DepotInit == ASSUME BuffersAssumption, Init PROVE DepotIInv
<1>1. DepotTypes
  <2>1. 0 \in 0 .. RingSize - 1
    BY DEF BuffersAssumption
  <2>2. QED
    BY <2>1 DEF Init, DepotTypes, Tids
<1>2. \A t \in Recorders : at[t] = "idle" /\ RingEndMu # t
  BY DEF Init, BuffersAssumption, NoTid
<1>3. DepotLocked
  BY <1>2 DEF DepotLocked, Inserting
<1>4. Filled = 0 /\ DOMAIN stored = {} /\ RingEnd = 0
  BY DEF Init, Filled
<1>5. StoredInOrder
  <2>1. \A n \in Nat \ {0} : 0 % n = 0
    BY Z3
  <2>2. QED
    BY <1>4, <2>1 DEF StoredInOrder, BuffersAssumption
<1>6. RingIntact /\ TabPoints
  BY <1>2, <1>4, Zenon DEF RingIntact, TabPoints
<1>7. QED
  BY <1>1, <1>3, <1>5, <1>6 DEF DepotIInv

\* A step of a thread that holds no lock, before it or after it.
LEMMA DepotUntouched ==
  ASSUME BuffersAssumption, IInv, NEW t \in Recorders, NEW l \in Labels,
         at[t] \notin {"tab", "marker", "frames"}, l \notin {"tab", "marker", "frames"},
         at' = [at EXCEPT ![t] = l], op' \in [Recorders -> Operations],
         \A u \in Recorders : u # t => op'[u] = op[u],
         l \in Inserting => op'[t].i = 0 /\ op'[t].trace \in Traces,
         UNCHANGED depotVars
  PROVE  DepotIInv'
<1>1. /\ Tab' = Tab /\ Ring' = Ring /\ RingEnd' = RingEnd /\ RingEndMu' = RingEndMu /\ stored' = stored
      /\ Filled' = Filled
  BY DEF depotVars, Filled
<1>2. at \in [Recorders -> Labels] /\ DepotTypes /\ DepotLocked
  BY DEF IInv, BufferIInv, BufferTypes, DepotIInv
<1>3. /\ at'[t] = l
      /\ \A u \in Recorders : u # t => at'[u] = at[u] /\ op'[u] = op[u]
      /\ \A u \in Recorders : at'[u] \in {"tab", "marker", "frames"} <=> at[u] \in {"tab", "marker", "frames"}
      /\ \A u \in Recorders : at'[u] \in {"marker", "frames"} => at[u] = at'[u] /\ op'[u] = op[u]
      /\ \A u \in Recorders : at[u] \in {"marker", "frames"} => at[u] = at'[u] /\ op'[u] = op[u]
  BY <1>2
<1>4. DepotTypes'
  BY <1>1, <1>2 DEF DepotTypes
<1>5. DepotLocked'
  <2>1. Len(op'[t].trace) \in Nat \/ l \notin Inserting
    BY DEF BuffersAssumption
  <2>2. QED
    BY <1>1, <1>2, <1>3, <2>1 DEF DepotLocked, Inserting
<1>6. StoredInOrder'
  BY <1>1 DEF IInv, DepotIInv, StoredInOrder
<1>7. Written' = Written
  <2>1. RingEndMu # NoTid => RingEndMu \in Recorders
    BY <1>2 DEF DepotTypes, Tids
  <2>2. QED
    BY <1>1, <1>2, <1>3, <2>1 DEF DepotLocked, Written
<1>8. RingIntact'
  <2>1. RingIntact
    BY DEF IInv, DepotIInv
  <2>2. QED
    BY <1>1, <1>3, <1>7, <2>1 DEF RingIntact, Holds
<1>9. TabPoints'
  <2>1. TabPoints
    BY DEF IInv, DepotIInv
  <2>2. \A i \in DOMAIN stored : LastInTab(i)' => LastInTab(i)
    BY <1>1, <1>3 DEF LastInTab
  <2>3. QED
    BY <1>1, <1>3, <2>1, <2>2 DEF TabPoints
<1>10. QED
  BY <1>4, <1>5, <1>6, <1>8, <1>9 DEF DepotIInv

\* The thread in insert(), behind its lock().
LEMMA InsertsAlone ==
  ASSUME BuffersAssumption, IInv, NEW t \in Recorders, at[t] \in {"tab", "marker", "frames"}
  PROVE  /\ RingEndMu = t /\ t # NoTid
         /\ \A u \in Recorders : u # t => at[u] \notin {"tab", "marker", "frames"}
         /\ op[t].trace \in Traces /\ op[t].trace \in Seq(Nat) /\ op[t].i \in Nat
         /\ op[t].i =< Len(op[t].trace) /\ (at[t] # "frames" => op[t].i = 0)
         /\ TabPos[op[t].trace] \in 0 .. TabSize - 1
         /\ at \in [Recorders -> Labels] /\ op \in [Recorders -> Operations]
<1>1. RingEndMu = t /\ \A u \in Recorders : u # t => at[u] \notin {"tab", "marker", "frames"}
  BY DEF IInv, DepotIInv, DepotLocked
<1>2. t # NoTid
  BY DEF BuffersAssumption, NoTid
<1>3. op[t].trace \in Traces /\ op[t].i \in Nat
  BY DEF IInv, BufferIInv, BufferTypes, Operations
<1>4. op[t].i =< Len(op[t].trace) /\ (at[t] # "frames" => op[t].i = 0)
  BY DEF IInv, DepotIInv, DepotLocked, Inserting
<1>5. at \in [Recorders -> Labels] /\ op \in [Recorders -> Operations]
  BY DEF IInv, BufferIInv, BufferTypes
<1>6. QED
  BY <1>1, <1>2, <1>3, <1>4, <1>5 DEF BuffersAssumption

LEMMA LockKeepsDepot == ASSUME BuffersAssumption, IInv, NEW t \in Recorders, LockDepot(t) PROVE DepotIInv'
<1>1. /\ at[t] = "lock" /\ RingEndMu = NoTid /\ RingEndMu' = t /\ at' = [at EXCEPT ![t] = "tab"] /\ op' = op
      /\ Tab' = Tab /\ Ring' = Ring /\ RingEnd' = RingEnd /\ stored' = stored /\ Filled' = Filled
  BY DEF LockDepot, Goto, Filled
<1>2. at \in [Recorders -> Labels] /\ DepotTypes /\ DepotLocked
  BY DEF IInv, BufferIInv, BufferTypes, DepotIInv
<1>3. \A u \in Recorders : u # NoTid /\ at[u] \notin {"tab", "marker", "frames"}
  BY <1>1, <1>2 DEF DepotLocked, BuffersAssumption, NoTid
<1>4. at'[t] = "tab" /\ \A u \in Recorders : u # t => at'[u] = at[u]
  BY <1>1, <1>2
<1>5. DepotTypes'
  BY <1>1, <1>2 DEF DepotTypes, Tids
<1>6. DepotLocked'
  BY <1>1, <1>2, <1>3, <1>4 DEF DepotLocked, Inserting
<1>7. Written' = 0 /\ Written = 0
  BY <1>1, <1>3, <1>4 DEF Written
<1>8. StoredInOrder'
  BY <1>1 DEF IInv, DepotIInv, StoredInOrder
<1>9. \A u \in Recorders : at'[u] \notin {"marker", "frames"} /\ at[u] \notin {"marker", "frames"}
  BY <1>3, <1>4
<1>10. RingIntact'
  BY <1>1, <1>7, <1>9 DEF IInv, DepotIInv, RingIntact, Holds
<1>11. TabPoints'
  BY <1>1, <1>9 DEF IInv, DepotIInv, TabPoints, LastInTab
<1>12. QED
  BY <1>5, <1>6, <1>8, <1>10, <1>11 DEF DepotIInv

LEMMA TabKeepsDepot == ASSUME BuffersAssumption, IInv, NEW t \in Recorders, StoreTab(t) PROVE DepotIInv'
<1> DEFINE pos == TabPos[op[t].trace]
<1>1. /\ at[t] = "tab" /\ at' = [at EXCEPT ![t] = "marker"] /\ op' = op /\ Tab' = [Tab EXCEPT ![pos] = RingEnd]
      /\ Ring' = Ring /\ RingEnd' = RingEnd /\ RingEndMu' = RingEndMu /\ stored' = stored /\ Filled' = Filled
  BY DEF StoreTab, Goto, Filled
<1>2. /\ RingEndMu = t /\ t # NoTid /\ at \in [Recorders -> Labels] /\ op[t].i = 0
      /\ \A u \in Recorders : u # t => at[u] \notin {"tab", "marker", "frames"}
      /\ pos \in 0 .. TabSize - 1
  BY <1>1, InsertsAlone
<1>3. DepotTypes /\ DepotLocked /\ StoredInOrder /\ RingIntact /\ TabPoints
  BY DEF IInv, DepotIInv
<1>4. at'[t] = "marker" /\ \A u \in Recorders : u # t => at'[u] = at[u]
  BY <1>1, <1>2
<1>5. Filled \in Nat /\ RingEnd \in 0 .. RingSize - 1
  BY <1>3, FilledType, Remainder DEF DepotTypes, StoredInOrder, BuffersAssumption
<1>6. DepotTypes'
  BY <1>1, <1>2, <1>3, <1>5 DEF DepotTypes
<1>7. DepotLocked'
  BY <1>1, <1>2, <1>3, <1>4 DEF DepotLocked, Inserting
<1>8. StoredInOrder'
  BY <1>1, <1>3 DEF StoredInOrder
<1>9. Written' = 0 /\ Written = 0
  BY <1>1, <1>2, <1>4 DEF Written
<1>10. RingIntact'
  BY <1>1, <1>2, <1>3, <1>4, <1>9 DEF RingIntact, Holds
<1>11. TabPoints'
  <2>1. ASSUME NEW i \in DOMAIN stored, LastInTab(i)'
        PROVE  Tab'[TabPos[stored[i].trace]] = stored[i].start % RingSize
    <3>1. TabPos[stored[i].trace] # pos
      BY <1>1, <1>4, <2>1 DEF LastInTab
    <3>2. LastInTab(i)
      BY <1>1, <1>2, <2>1 DEF LastInTab
    <3>3. Tab[TabPos[stored[i].trace]] = stored[i].start % RingSize
      BY <1>3, <3>2 DEF TabPoints
    <3>4. stored[i].trace \in Traces
      BY <1>3, FilledType DEF DepotTypes
    <3>5. TabPos[stored[i].trace] \in 0 .. TabSize - 1
      BY <3>4 DEF BuffersAssumption
    <3>6. QED
      BY <1>1, <1>3, <3>1, <3>3, <3>5 DEF DepotTypes
  <2>2. \A u \in Recorders : at'[u] \in {"marker", "frames"} => u = t
    BY <1>2, <1>4
  <2>3. Tab'[pos] = RingEnd'
    BY <1>1, <1>2, <1>3 DEF DepotTypes
  <2>4. QED
    BY <1>1, <2>1, <2>2, <2>3 DEF TabPoints
<1>12. QED
  BY <1>6, <1>7, <1>8, <1>10, <1>11 DEF DepotIInv

\* What is written at y leaves a trace alone that ends before y and begins less
\* than a lap before it.
LEMMA HoldsApart ==
  ASSUME BuffersAssumption, NEW trace \in Seq(Nat), NEW start \in Nat, NEW n \in Nat, NEW y \in Nat, NEW x,
         Holds(trace, start, n), start + n < y, y - start < RingSize,
         DOMAIN Ring = 0 .. RingSize - 1, Ring' = [Ring EXCEPT ![y % RingSize] = x]
  PROVE  Holds(trace, start, n)'
<1>1. \A k \in 0 .. n : (start + k) % RingSize # y % RingSize
  <2>1. ASSUME NEW k \in 0 .. n PROVE (start + k) % RingSize # y % RingSize
    <3>1. start + k \in Nat /\ start + k < y /\ y - (start + k) < RingSize
      BY DEF BuffersAssumption
    <3>2. QED
      BY <3>1, SlotsDiffer DEF BuffersAssumption
  <2>2. QED
    BY <2>1
<1>2. \A k \in 0 .. n : (start + k) % RingSize \in 0 .. RingSize - 1
  <2>1. ASSUME NEW k \in 0 .. n PROVE (start + k) % RingSize \in 0 .. RingSize - 1
    <3>1. start + k \in Nat
      OBVIOUS
    <3>2. QED
      BY <3>1, Remainder DEF BuffersAssumption
  <2>2. QED
    BY <2>1
<1>3. \A k \in 0 .. n : Ring'[(start + k) % RingSize] = Ring[(start + k) % RingSize]
  BY <1>1, <1>2
<1>4. Ring'[start % RingSize] = Ring[start % RingSize]
  <2>1. start + 0 = start /\ 0 \in 0 .. n
    OBVIOUS
  <2>2. QED
    BY <1>3, <2>1, Zenon
<1>5. \A k \in 1 .. n : Ring'[(start + k) % RingSize] = Frame(trace[k])
  <2>1. ASSUME NEW k \in 1 .. n PROVE Ring'[(start + k) % RingSize] = Frame(trace[k])
    <3>1. k \in 0 .. n
      OBVIOUS
    <3>2. Ring[(start + k) % RingSize] = Frame(trace[k])
      BY <2>1, Zenon DEF Holds
    <3>3. QED
      BY <1>3, <3>1, <3>2, Zenon
  <2>2. QED
    BY <2>1
<1>6. QED
  BY <1>4, <1>5, Zenon DEF Holds

LEMMA MarkerKeepsDepot == ASSUME BuffersAssumption, IInv, NEW t \in Recorders, StoreMarker(t) PROVE DepotIInv'
<1>1. /\ at[t] = "marker" /\ at' = [at EXCEPT ![t] = "frames"] /\ op' = op /\ Tab' = Tab
      /\ Ring' = [Ring EXCEPT ![RingEnd] = Marker(op[t].trace)]
      /\ RingEnd' = RingEnd /\ RingEndMu' = RingEndMu /\ stored' = stored /\ Filled' = Filled
  BY DEF StoreMarker, Goto, Filled
<1>2. /\ RingEndMu = t /\ t # NoTid /\ at \in [Recorders -> Labels] /\ op[t].i = 0
      /\ \A u \in Recorders : u # t => at[u] \notin {"tab", "marker", "frames"}
  BY <1>1, InsertsAlone
<1>3. DepotTypes /\ DepotLocked /\ StoredInOrder /\ RingIntact /\ TabPoints
  BY DEF IInv, DepotIInv
<1>4. at'[t] = "frames" /\ \A u \in Recorders : u # t => at'[u] = at[u]
  BY <1>1, <1>2
<1>5. Filled \in Nat /\ RingEnd = Filled % RingSize /\ RingEnd \in 0 .. RingSize - 1
  BY <1>3, FilledType, Remainder DEF DepotTypes, StoredInOrder, BuffersAssumption
<1>6. DepotTypes'
  BY <1>1, <1>3 DEF DepotTypes
<1>7. DepotLocked'
  BY <1>1, <1>2, <1>3, <1>4 DEF DepotLocked, Inserting
<1>8. StoredInOrder'
  BY <1>1, <1>3 DEF StoredInOrder
<1>9. Written' = 1 /\ Written = 0
  BY <1>1, <1>2, <1>4 DEF Written
<1>10. RingIntact'
  <2>1. ASSUME NEW i \in DOMAIN stored, Filled + 1 - stored[i].start =< RingSize
        PROVE  Holds(stored[i].trace, stored[i].start, Len(stored[i].trace))'
    <3>1. PICK trace \in Traces, start \in Nat, n \in Nat :
            trace = stored[i].trace /\ start = stored[i].start /\ n = Len(trace)
      BY <1>3, FilledType DEF DepotTypes
    <3>2. start + n + 1 =< Filled
      BY <1>3, <3>1 DEF StoredInOrder
    <3>3. Filled \in Nat /\ RingSize \in Nat
      BY <1>5 DEF BuffersAssumption
    <3>4. Filled + 0 - start =< RingSize /\ start + n < Filled /\ Filled - start < RingSize
      BY <2>1, <3>1, <3>2, <3>3, SMTT(30), ZenonT(20)
    <3>5. Holds(trace, start, n)
      BY <1>3, <1>9, <3>1, <3>4 DEF RingIntact
    <3>6. Holds(trace, start, n)'
      BY <1>1, <1>3, <1>5, <3>4, <3>5, HoldsApart DEF DepotTypes, BuffersAssumption
    <3>7. QED
      BY <1>1, <3>1, <3>6 DEF Holds
  <2>2. \A u \in Recorders : at'[u] = "frames" => u = t
    BY <1>2, <1>4
  <2>3. Holds(op[t].trace, Filled, op[t].i)'
    BY <1>1, <1>2, <1>3, <1>5 DEF Holds, DepotTypes
  <2>4. QED
    BY <1>1, <1>9, <2>1, <2>2, <2>3 DEF RingIntact, Holds
<1>11. TabPoints'
  <2>1. \A u \in Recorders : at'[u] \in {"marker", "frames"} <=> at[u] \in {"marker", "frames"}
    BY <1>1, <1>4
  <2>2. QED
    BY <1>1, <1>3, <2>1 DEF TabPoints, LastInTab
<1>12. QED
  BY <1>6, <1>7, <1>8, <1>10, <1>11 DEF DepotIInv

LEMMA FrameKeepsDepot == ASSUME BuffersAssumption, IInv, NEW t \in Recorders, StoreFrame(t) PROVE DepotIInv'
<1>1. PICK i \in Nat, y \in Nat :
        /\ i = op[t].i + 1 /\ y = Filled + i
        /\ at[t] = "frames" /\ i =< Len(op[t].trace) /\ at' = at /\ op' = [op EXCEPT ![t].i = i]
        /\ Ring' = [Ring EXCEPT ![y % RingSize] = Frame(op[t].trace[i])]
        /\ Tab' = Tab /\ RingEnd' = RingEnd /\ RingEndMu' = RingEndMu /\ stored' = stored /\ Filled' = Filled
  <2>1. Filled \in Nat /\ RingEnd = Filled % RingSize
    BY FilledType DEF IInv, DepotIInv, DepotTypes, StoredInOrder
  <2>2. PICK i \in Nat : i = op[t].i + 1
    BY InsertsAlone DEF StoreFrame
  <2>3. (RingEnd + i) % RingSize = (Filled + i) % RingSize
    BY <2>1, SlotBehind DEF BuffersAssumption
  <2>4. PICK y \in Nat : y = Filled + i
    BY <2>1, <2>2
  <2>5. /\ at[t] = "frames" /\ i =< Len(op[t].trace) /\ at' = at /\ op' = [op EXCEPT ![t].i = i]
        /\ Ring' = [Ring EXCEPT ![(RingEnd + i) % RingSize] = Frame(op[t].trace[i])]
        /\ Tab' = Tab /\ RingEnd' = RingEnd /\ RingEndMu' = RingEndMu /\ stored' = stored
    BY <2>2 DEF StoreFrame
  <2>6. Filled' = Filled
    BY <2>5 DEF Filled
  <2>7. Ring' = [Ring EXCEPT ![y % RingSize] = Frame(op[t].trace[i])]
    BY <2>3, <2>4, <2>5
  <2>8. QED
    BY <2>2, <2>4, <2>5, <2>6, <2>7
<1>2. /\ RingEndMu = t /\ t # NoTid /\ at \in [Recorders -> Labels] /\ op \in [Recorders -> Operations]
      /\ \A u \in Recorders : u # t => at[u] \notin {"tab", "marker", "frames"}
      /\ op[t].trace \in Seq(Nat)
  BY <1>1, InsertsAlone
<1>3. DepotTypes /\ DepotLocked /\ StoredInOrder /\ RingIntact /\ TabPoints
  BY DEF IInv, DepotIInv
<1>4. /\ op'[t].i = i /\ \A u \in Recorders : op'[u].trace = op[u].trace /\ (u # t => op'[u] = op[u])
  BY <1>1, <1>2 DEF Operations
<1>5. Filled \in Nat /\ RingSize \in Nat \ {0}
  BY <1>3, FilledType DEF DepotTypes, BuffersAssumption
<1>6. i \in Nat /\ y = Filled + i
  BY <1>1
<1>7. DepotTypes'
  BY <1>1, <1>3 DEF DepotTypes
<1>8. DepotLocked'
  BY <1>1, <1>2, <1>3, <1>4 DEF DepotLocked, Inserting
<1>9. StoredInOrder'
  BY <1>1, <1>3 DEF StoredInOrder
<1>10. Written' = i + 1 /\ Written = i
  BY <1>1, <1>2, <1>4 DEF Written
<1>11. RingIntact'
  <2>1. ASSUME NEW j \in DOMAIN stored, Filled + (i + 1) - stored[j].start =< RingSize
        PROVE  Holds(stored[j].trace, stored[j].start, Len(stored[j].trace))'
    <3>1. PICK trace \in Traces, start \in Nat, n \in Nat :
            trace = stored[j].trace /\ start = stored[j].start /\ n = Len(trace)
      BY <1>3, FilledType DEF DepotTypes
    <3>2. start + n + 1 =< Filled
      BY <1>3, <3>1 DEF StoredInOrder
    <3>3. Filled + i - start =< RingSize /\ start + n < y /\ y - start < RingSize
      <4>1. Filled + (i + 1) - start =< RingSize
        BY <2>1, <3>1
      <4>2. QED
        BY <1>5, <1>6, <3>2, <4>1
    <3>4. Holds(trace, start, n)
      BY <1>3, <1>10, <3>1, <3>3 DEF RingIntact
    <3>5. Holds(trace, start, n)'
      BY <1>1, <1>3, <3>3, <3>4, HoldsApart DEF DepotTypes, BuffersAssumption
    <3>6. QED
      BY <1>1, <3>1, <3>5 DEF Holds
  <2>2. \A u \in Recorders : at'[u] = "frames" => u = t
    BY <1>1, <1>2
  <2>3. ASSUME i + 1 =< RingSize PROVE Holds(op[t].trace, Filled, op[t].i)'
    <3>1. PICK m \in Nat : m = op[t].i /\ i = m + 1
      BY <1>1, InsertsAlone
    <3>2. Holds(op[t].trace, Filled, m)
      BY <1>1, <1>3, <2>3, <3>1 DEF RingIntact, BuffersAssumption
    <3>3. Filled + m < y /\ y - Filled < RingSize
      BY <1>5, <1>6, <2>3, <3>1
    <3>4. Holds(op[t].trace, Filled, m)'
      <4>1. PICK trace \in Seq(Nat), start \in Nat : trace = op[t].trace /\ start = Filled
        BY <1>2, <1>5
      <4>2. Holds(trace, start, m)'
        BY <1>1, <1>3, <3>2, <3>3, <4>1, HoldsApart DEF DepotTypes
      <4>3. QED
        BY <1>1, <1>4, <4>1, <4>2 DEF Holds
    <3>5. Ring'[(Filled + i) % RingSize] = Frame(op[t].trace[i])
      <4>1. y % RingSize \in 0 .. RingSize - 1
        BY Remainder DEF BuffersAssumption
      <4>2. QED
        BY <1>1, <1>3, <4>1 DEF DepotTypes
    <3>6. \A k \in 1 .. i : k \in 1 .. m \/ k = i
      BY <3>1
    <3>7. QED
      BY <1>1, <1>4, <3>4, <3>5, <3>6 DEF Holds
  <2>4. QED
    BY <1>1, <1>4, <1>10, <2>1, <2>2, <2>3 DEF RingIntact, Holds
<1>12. TabPoints'
  BY <1>1, <1>3, <1>4 DEF TabPoints, LastInTab
<1>13. QED
  BY <1>7, <1>8, <1>9, <1>11, <1>12 DEF DepotIInv

LEMMA UnlockKeepsDepot == ASSUME BuffersAssumption, IInv, NEW t \in Recorders, UnlockDepot(t) PROVE DepotIInv'
<1>1. PICK trace \in Traces, n \in Nat, f \in Nat :
        trace = op[t].trace /\ n = Len(trace) /\ n = op[t].i /\ f = Filled
  <2>1. Filled \in Nat
    BY FilledType DEF IInv, DepotIInv, DepotTypes
  <2>2. at[t] = "frames" /\ op[t].i = Len(op[t].trace)
    BY DEF UnlockDepot
  <2>3. op[t].trace \in Traces /\ op[t].i \in Nat
    BY <2>2, InsertsAlone
  <2>4. QED
    BY <2>1, <2>2, <2>3
<1>2. PICK r : r = [trace |-> trace, start |-> f]
  OBVIOUS
<1>3. /\ at[t] = "frames" /\ at' = [at EXCEPT ![t] = "record"] /\ op' = op /\ Tab' = Tab /\ Ring' = Ring
      /\ RingEnd' = (RingEnd + n + 1) % RingSize /\ RingEndMu' = NoTid /\ stored' = Append(stored, r)
  BY <1>1, <1>2 DEF UnlockDepot, Goto
<1>4. /\ RingEndMu = t /\ t # NoTid /\ at \in [Recorders -> Labels]
      /\ \A u \in Recorders : u # t => at[u] \notin {"tab", "marker", "frames"}
  BY <1>3, InsertsAlone
<1>5. DepotTypes /\ DepotLocked /\ StoredInOrder /\ RingIntact /\ TabPoints
  BY DEF IInv, DepotIInv
<1>6. \A u \in Recorders : u # NoTid /\ at'[u] \notin {"tab", "marker", "frames"}
  BY <1>3, <1>4 DEF BuffersAssumption, NoTid
<1>7. r \in StoredTraces /\ r.trace = trace /\ r.start = f
  BY <1>2 DEF StoredTraces
<1>8. PICK m \in Nat : m = Len(stored)
  BY <1>5 DEF DepotTypes
<1>9. /\ stored' \in Seq(StoredTraces) /\ Len(stored') = m + 1 /\ DOMAIN stored' = 1 .. m + 1
      /\ DOMAIN stored = 1 .. m /\ stored'[m + 1] = r /\ \A i \in 1 .. m : stored'[i] = stored[i]
  BY <1>3, <1>5, <1>7, <1>8 DEF DepotTypes
<1>10. Filled' = f + n + 1
  <2>1. stored' # <<>> /\ Last(stored)' = r
    BY <1>9 DEF Last
  <2>2. Filled' = r.start + Len(r.trace) + 1
    BY <2>1 DEF Filled
  <2>3. QED
    BY <1>1, <1>7, <2>2
<1>11. \A i \in 1 .. m : /\ stored[i].trace \in Traces /\ stored[i].start \in Nat
                         /\ Len(stored[i].trace) \in Nat
                         /\ stored[i].start + Len(stored[i].trace) + 1 =< f
  BY <1>1, <1>5, <1>9, FilledType DEF DepotTypes, StoredInOrder
<1>12. DepotTypes'
  BY <1>3, <1>5, <1>9 DEF DepotTypes, Tids
<1>13. DepotLocked'
  <2>1. \A u \in Recorders : at'[u] \in Inserting => at'[u] = at[u]
    BY <1>3, <1>4 DEF Inserting
  <2>2. QED
    BY <1>3, <1>5, <1>6, <2>1 DEF DepotLocked
<1>14. StoredInOrder'
  <2>1. \A i \in DOMAIN stored' : stored'[i].start + Len(stored'[i].trace) + 1 =< Filled'
    <3>1. ASSUME NEW i \in 1 .. m + 1 PROVE stored'[i].start + Len(stored'[i].trace) + 1 =< Filled'
      <4>1. CASE i = m + 1
        <5>1. stored'[i].start = f /\ Len(stored'[i].trace) = n
          BY <1>1, <1>7, <1>9, <4>1
        <5>2. QED
          BY <1>10, <5>1
      <4>2. CASE i \in 1 .. m
        <5>1. stored[i].start + Len(stored[i].trace) + 1 =< f
          BY <1>11, <4>2
        <5>2. stored'[i] = stored[i] /\ stored[i].start \in Nat /\ Len(stored[i].trace) \in Nat
          BY <1>9, <1>11, <4>2
        <5>3. QED
          BY <1>10, <5>1, <5>2
      <4>3. QED
        BY <4>1, <4>2
    <3>2. QED
      BY <1>9, <3>1
  <2>2. RingEnd' = Filled' % RingSize
    <3>1. RingEnd = f % RingSize /\ RingEnd \in 0 .. RingSize - 1
      BY <1>1, <1>5, Remainder DEF StoredInOrder, BuffersAssumption
    <3>2. PICK k \in Nat : k = n + 1
      OBVIOUS
    <3>3. ((f % RingSize) + k) % RingSize = (f + k) % RingSize
      BY SlotBehind, SMTT(30), ZenonT(20) DEF BuffersAssumption
    <3>4. RingEnd + n + 1 = RingEnd + k /\ f + n + 1 = f + k
      BY <3>1, <3>2
    <3>5. QED
      BY <1>3, <1>10, <3>1, <3>3, <3>4, Zenon
  <2>3. QED
    BY <2>1, <2>2 DEF StoredInOrder
<1>15. Written' = 0 /\ Written = n + 1
  BY <1>1, <1>3, <1>4 DEF Written
<1>16. RingIntact'
  <2>1. ASSUME NEW i \in 1 .. m + 1, f + n + 1 - stored'[i].start =< RingSize
        PROVE  Holds(stored'[i].trace, stored'[i].start, Len(stored'[i].trace))
    <3>1. CASE i = m + 1
      <4>1. n + 1 =< RingSize
        BY <1>7, <1>9, <2>1, <3>1 DEF BuffersAssumption
      <4>2. Holds(trace, f, n)
        BY <1>1, <1>3, <1>5, <4>1 DEF RingIntact
      <4>3. QED
        BY <1>1, <1>7, <1>9, <3>1, <4>2
    <3>2. CASE i \in 1 .. m
      <4>1. stored'[i] = stored[i] /\ stored[i].start \in Nat
        BY <1>9, <1>11, <3>2
      <4>2. Filled + Written - stored[i].start =< RingSize
        BY <1>1, <1>15, <2>1, <4>1
      <4>3. QED
        BY <1>5, <1>9, <3>2, <4>1, <4>2 DEF RingIntact
    <3>3. QED
      BY <3>1, <3>2
  <2>2. ASSUME NEW i \in DOMAIN stored', Filled' + Written' - stored'[i].start =< RingSize
        PROVE  Holds(stored[i].trace, stored[i].start, Len(stored[i].trace))'
    <3>1. i \in 1 .. m + 1 /\ stored'[i].start \in Nat
      BY <1>7, <1>9, <1>11
    <3>2. f + n + 1 - stored'[i].start =< RingSize
      BY <1>10, <1>15, <2>2, <3>1
    <3>3. Holds(stored'[i].trace, stored'[i].start, Len(stored'[i].trace))
      BY <2>1, <3>1, <3>2
    <3>4. QED
      BY <1>3, <3>3 DEF Holds
  <2>3. QED
    BY <1>6, <2>2 DEF RingIntact
<1>17. TabPoints'
  <2>1. ASSUME NEW i \in 1 .. m + 1, LastInTab(i)'
        PROVE  Tab[TabPos[stored'[i].trace]] = stored'[i].start % RingSize
    <3>1. CASE i = m + 1
      <4>1. stored'[i].trace = trace /\ stored'[i].start = f
        BY <1>7, <1>9, <3>1
      <4>2. Tab[TabPos[trace]] = f % RingSize
        BY <1>1, <1>3, <1>5 DEF TabPoints, StoredInOrder
      <4>3. QED
        BY <4>1, <4>2
    <3>2. CASE i \in 1 .. m
      <4>1. \A j \in i + 1 .. m + 1 : TabPos[stored'[j].trace] # TabPos[stored'[i].trace]
        BY <1>9, <2>1 DEF LastInTab
      <4>2. \A j \in i + 1 .. m : TabPos[stored[j].trace] # TabPos[stored[i].trace]
        BY <1>9, <3>2, <4>1
      <4>3. TabPos[trace] # TabPos[stored[i].trace]
        BY <1>7, <1>9, <3>2, <4>1
      <4>4. LastInTab(i)
        BY <1>1, <1>4, <1>8, <4>2, <4>3 DEF LastInTab
      <4>5. QED
        BY <1>5, <1>9, <3>2, <4>4 DEF TabPoints
    <3>3. QED
      BY <3>1, <3>2
  <2>2. QED
    BY <1>3, <1>6, <1>9, <2>1 DEF TabPoints
<1>18. QED
  BY <1>12, <1>13, <1>14, <1>16, <1>17 DEF DepotIInv

LEMMA DepotStep == ASSUME BuffersAssumption, IInv, BufferIInv', [Next]_tvars PROVE DepotIInv'
<1>1. CASE UNCHANGED tvars
  <2>1. /\ Tab' = Tab /\ Ring' = Ring /\ RingEnd' = RingEnd /\ RingEndMu' = RingEndMu /\ stored' = stored
        /\ at' = at /\ op' = op
    BY <1>1 DEF tvars, depotVars
  <2>2. Filled' = Filled /\ Written' = Written
    BY <2>1 DEF Filled, Written
  <2>3. (DepotTypes /\ DepotLocked /\ StoredInOrder)'
    BY <2>1, <2>2 DEF IInv, DepotIInv, DepotTypes, DepotLocked, StoredInOrder
  <2>4. RingIntact'
    BY <2>1, <2>2 DEF IInv, DepotIInv, RingIntact, Holds
  <2>5. TabPoints'
    BY <2>1 DEF IInv, DepotIInv, TabPoints, LastInTab
  <2>6. QED
    BY <2>3, <2>4, <2>5 DEF DepotIInv
<1>2. at \in [Recorders -> Labels] /\ op \in [Recorders -> Operations] /\ op' \in [Recorders -> Operations]
  BY DEF IInv, BufferIInv, BufferTypes
<1>3. ASSUME NEW t \in Recorders, NEW b \in Blocks, NEW trace \in Traces,
             Allocate(t, b, trace) \/ Deallocate(t, b, trace)
      PROVE  DepotIInv'
  <2>1. PICK entry : Start(t, b, trace, entry)
    BY <1>3 DEF Allocate, Deallocate
  <2>2. PICK o : o = [block |-> b, trace |-> trace, i |-> 0, slot |-> 0, entry |-> entry]
    OBVIOUS
  <2>3. at[t] = "idle" /\ at' = [at EXCEPT ![t] = "check"] /\ op' = [op EXCEPT ![t] = o] /\ UNCHANGED depotVars
    BY <2>1, <2>2 DEF Start, Goto
  <2>4. op'[t] = o /\ o.i = 0 /\ o.trace = trace /\ \A u \in Recorders : u # t => op'[u] = op[u]
    BY <1>2, <2>2, <2>3
  <2>5. "check" \in Labels
    BY DEF Labels, Inserting
  <2>6. QED
    BY <1>2, <2>3, <2>4, <2>5, DepotUntouched
<1>4. ASSUME NEW t \in Recorders, Check(t) PROVE DepotIInv'
  <2>1. PICK l \in {"record", "lock"} : at' = [at EXCEPT ![t] = l]
    BY <1>4 DEF Check, Goto
  <2>2. at[t] = "check" /\ op' = op /\ UNCHANGED depotVars
    BY <1>4 DEF Check
  <2>3. op[t].i = 0 /\ op[t].trace \in Traces
    BY <2>2 DEF IInv, DepotIInv, DepotLocked, BufferIInv, BufferTypes, Inserting
  <2>4. l \in Labels
    BY DEF Labels, Inserting
  <2>5. QED
    BY <1>2, <2>1, <2>2, <2>3, <2>4, DepotUntouched
<1>5. ASSUME NEW t \in Recorders,
             Record(t) \/ Invalidate(t) \/ StoreAllocation(t) \/ StoreDeallocation(t) \/ Publish(t) \/ End(t)
      PROVE  DepotIInv'
  <2>1. /\ at[t] \in {"record", "end"} \cup Writing
        /\ \E l \in {"end", "idle"} \cup Writing : at' = [at EXCEPT ![t] = l]
        /\ UNCHANGED depotVars
    BY <1>5 DEF Record, Invalidate, StoreAllocation, StoreDeallocation, Publish, End, Goto, Writing
  <2>2. PICK l \in {"end", "idle"} \cup Writing : at' = [at EXCEPT ![t] = l]
    BY <2>1
  <2>3. \A u \in Recorders : u # t => op'[u] = op[u]
    <3>1. CASE op' = op
      BY <3>1
    <3>2. CASE op' # op
      <4>1. op' = [op EXCEPT ![t].slot = Pos % RingBufferElements]
        BY <1>5, <3>2 DEF Record, Invalidate, StoreAllocation, StoreDeallocation, Publish, End
      <4>2. QED
        BY <1>2, <4>1
    <3>3. QED
      BY <3>1, <3>2
  <2>4. l \in Labels /\ l \notin Inserting
    BY DEF Labels, Inserting, Writing
  <2>5. at[t] \notin {"tab", "marker", "frames"} /\ l \notin {"tab", "marker", "frames"}
    BY <2>1, <2>4 DEF Inserting, Writing
  <2>6. QED
    BY <1>2, <2>1, <2>2, <2>3, <2>4, <2>5, DepotUntouched
<1>6. ASSUME NEW t \in Recorders,
             LockDepot(t) \/ StoreTab(t) \/ StoreMarker(t) \/ StoreFrame(t) \/ UnlockDepot(t)
      PROVE  DepotIInv'
  BY <1>6, LockKeepsDepot, TabKeepsDepot, MarkerKeepsDepot, FrameKeepsDepot, UnlockKeepsDepot
<1>7. QED
  BY <1>1, <1>3, <1>4, <1>5, <1>6, Zenon DEF Next, Blocks

\* Both inductive invariants.
THEOREM InductiveInvariant == BuffersAssumption => (Spec => []IInv)
<1> SUFFICES ASSUME BuffersAssumption PROVE Spec => []IInv
  OBVIOUS
<1>1. Init => IInv
  BY BufferInit, DepotInit DEF IInv
<1>2. IInv /\ [Next]_tvars => IInv'
  <2>1. IInv /\ [Next]_tvars => BufferIInv'
    BY BufferStep DEF IInv
  <2>2. QED
    BY <2>1, DepotStep DEF IInv
<1>3. QED
  BY <1>1, <1>2, PTL DEF Spec

LEMMA IntactIsFound == ASSUME BuffersAssumption, IInv PROVE StoredFound
<1> SUFFICES ASSUME RingEndMu = NoTid, NEW i \in DOMAIN stored, RoomFrom(i) =< RingSize,
                    \A j \in i + 1 .. Len(stored) : TabPos[stored[j].trace] # TabPos[stored[i].trace]
             PROVE  find(stored[i].trace) = stored[i].trace
  BY DEF StoredFound
<1>1. PICK trace \in Traces, start \in Nat, n \in Nat :
        trace = stored[i].trace /\ start = stored[i].start /\ n = Len(trace)
  BY FilledType DEF IInv, DepotIInv, DepotTypes
<1>2. Written = 0 /\ Filled \in Nat /\ RingSize \in Nat \ {0}
  BY FilledType DEF Written, IInv, DepotIInv, DepotTypes, BuffersAssumption
<1>3. start + n + 1 =< Filled
  BY <1>1 DEF IInv, DepotIInv, StoredInOrder
<1>4. Filled - start =< RingSize
  BY <1>1 DEF RoomFrom
<1>5. n < RingSize
  BY <1>2, <1>3, <1>4
<1>6. Holds(trace, start, n)
  <2>1. Filled + Written - start =< RingSize
    BY <1>2, <1>4
  <2>2. QED
    BY <1>1, <2>1 DEF IInv, DepotIInv, RingIntact
<1>7. \A t \in Recorders : at[t] \notin {"tab", "marker", "frames"}
  BY DEF IInv, DepotIInv, DepotLocked, BuffersAssumption, NoTid
<1>8. Tab[TabPos[trace]] = start % RingSize
  <2>1. LastInTab(i)
    BY <1>7 DEF LastInTab
  <2>2. QED
    BY <1>1, <2>1 DEF IInv, DepotIInv, TabPoints
<1>9. \A k \in 1 .. n : Ring[((start % RingSize) + k) % RingSize].frame = trace[k]
  <2>1. ASSUME NEW k \in 1 .. n PROVE Ring[((start % RingSize) + k) % RingSize].frame = trace[k]
    <3>1. ((start % RingSize) + k) % RingSize = (start + k) % RingSize
      <4>1. k \in Nat
        OBVIOUS
      <4>2. QED
        BY <1>2, <4>1, SlotBehind
    <3>2. Ring[(start + k) % RingSize] = Frame(trace[k])
      BY <1>6 DEF Holds
    <3>3. QED
      BY <3>1, <3>2 DEF Frame
  <2>2. QED
    BY <2>1
<1>10. trace = [k \in 1 .. n |-> Ring[((start % RingSize) + k) % RingSize].frame]
  <2>1. trace \in Seq(Nat)
    BY DEF BuffersAssumption
  <2>2. trace = [k \in 1 .. n |-> trace[k]]
    BY <1>1, <2>1
  <2>3. QED
    BY <1>9, <2>2
<1>11. Ring[start % RingSize] = Marker(trace)
  BY <1>6 DEF Holds
<1>12. find(trace) = trace
  BY <1>1, <1>5, <1>8, <1>10, <1>11 DEF find
<1>13. QED
  BY <1>1, <1>12

\* A stored trace is found until it is overwritten or displaced.
THEOREM StoredAreFound == BuffersAssumption => (Spec => []StoredFound)
<1> SUFFICES ASSUME BuffersAssumption PROVE Spec => []StoredFound
  OBVIOUS
<1>1. IInv => StoredFound
  BY IntactIsFound
<1>2. QED
  BY <1>1, InductiveInvariant, PTL
-----------------------------------------------------------------------------
(***************************************************************************)
(* The crash handler.                                                      *)
(***************************************************************************)
\* A set of naturals that is not empty has a least element.
LEMMA Least ==
  ASSUME NEW S \in SUBSET Nat, S # {}
  PROVE  \E x \in S : \A y \in S : x =< y
<1>1. \E x \in S : \A y \in S : ~(<<y, x>> \in OpToRel(<, Nat))
  BY NatLessThanWellFounded, WFMin
<1>2. \A x, y \in Nat : ~(<<y, x>> \in OpToRel(<, Nat)) => x =< y
  BY DEF OpToRel
<1>3. QED
  BY <1>1, <1>2

\* Induction over the naturals, for a set.
LEMMA Induction ==
  ASSUME NEW S, 0 \in S, \A n \in Nat : n \in S => n + 1 \in S
  PROVE  Nat \subseteq S
<1>1. SUFFICES ASSUME Nat \ S # {} PROVE FALSE
  OBVIOUS
<1>2. PICK x \in Nat \ S : \A y \in Nat \ S : x =< y
  BY <1>1, Least
<1>3. x # 0 /\ x - 1 \in Nat
  BY <1>2
<1>4. x - 1 \in S
  BY <1>2, <1>3
<1>5. QED
  BY <1>2, <1>3, <1>4

\* A fold over a sequence begins with its last place, that is, the largest.
LEMMA MaxOfPlaces ==
  ASSUME NEW n \in Nat, NEW s \in SUBSET (1 .. n), s # {}
  PROVE  Max(s) \in s /\ \A x \in s : x =< Max(s)
<1> DEFINE below == {y \in Nat : n - y \in s}
<1>1. PICK d \in below : \A y \in below : d =< y
  <2>1. PICK x \in s : x \in 1 .. n
    OBVIOUS
  <2>2. n - x \in Nat /\ n - (n - x) = x
    BY <2>1
  <2>3. n - x \in below
    BY <2>2
  <2>4. below \in SUBSET Nat
    OBVIOUS
  <2>5. QED
    BY <2>3, <2>4, Least
<1>2. n - d \in s /\ \A x \in s : n - d >= x
  <2>1. ASSUME NEW x \in s PROVE n - d >= x
    <3>1. x \in 1 .. n /\ n - x \in Nat /\ n - (n - x) = x
      OBVIOUS
    <3>2. QED
      BY <1>1, <3>1
  <2>2. QED
    BY <1>1, <2>1
<1>3. Max(s) \in s /\ \A x \in s : Max(s) >= x
  BY <1>2, Zenon DEF Max
<1>4. QED
  BY <1>3

LEMMA MaxOfRange == ASSUME NEW n \in Nat PROVE Max(1 .. n + 1) = n + 1 /\ (1 .. n + 1) \ {n + 1} = 1 .. n
<1>0. n + 1 \in Nat /\ 1 .. n + 1 \in SUBSET (1 .. n + 1) /\ 1 .. n + 1 # {}
  OBVIOUS
<1>1. Max(1 .. n + 1) \in 1 .. n + 1 /\ \A x \in 1 .. n + 1 : x =< Max(1 .. n + 1)
  BY <1>0, MaxOfPlaces
<1>2. QED
  BY <1>1

\* The function that a fold of F over 1 .. n defines, with values in W.
FoldAt(base, F, g, s) == IF s = {} THEN base ELSE F[<<g[s \ {Max(s)}], Max(s)>>]

FoldOf(n, W, base, F, g) ==
  g \in [SUBSET (1 .. n) -> W] /\ \A s \in SUBSET (1 .. n) : g[s] = FoldAt(base, F, g, s)

\* There is such a function.
LEMMA FoldExists ==
  ASSUME NEW n \in Nat, NEW W, NEW base \in W, NEW F \in [W \X (1 .. n) -> W]
  PROVE  \E g : FoldOf(n, W, base, F, g)
<1> DEFINE Good(k, g) == \A s \in SUBSET (1 .. k) : g[s] = FoldAt(base, F, g, s)
           P == {k \in Nat : k =< n => \E g \in [SUBSET (1 .. n) -> W] : Good(k, g)}
<1>1. 0 \in P
  <2>1. \A s \in SUBSET (1 .. 0) : s = {}
    OBVIOUS
  <2>2. Good(0, [s \in SUBSET (1 .. n) |-> base])
    BY <2>1 DEF FoldAt
  <2>3. [s \in SUBSET (1 .. n) |-> base] \in [SUBSET (1 .. n) -> W]
    OBVIOUS
  <2>4. QED
    BY <2>2, <2>3
<1>2. ASSUME NEW k \in Nat, k \in P PROVE k + 1 \in P
  <2>1. SUFFICES ASSUME k + 1 =< n PROVE \E g \in [SUBSET (1 .. n) -> W] : Good(k + 1, g)
    <3>1. k + 1 \in Nat
      OBVIOUS
    <3>2. QED
      BY <3>1, Zenon
  <2>2. PICK g \in [SUBSET (1 .. n) -> W] : Good(k, g)
    <3>1. k =< n
      BY <2>1
    <3>2. QED
      BY <1>2, <3>1, Zenon
  <2> DEFINE h == [s \in SUBSET (1 .. n) |-> FoldAt(base, F, g, s)]
  <2>3. ASSUME NEW s \in SUBSET (1 .. n), s # {} PROVE Max(s) \in 1 .. n /\ s \ {Max(s)} \in SUBSET (1 .. n)
    BY <2>3, MaxOfPlaces
  <2>4. h \in [SUBSET (1 .. n) -> W]
    <3>1. ASSUME NEW s \in SUBSET (1 .. n) PROVE FoldAt(base, F, g, s) \in W
      <4>1. CASE s = {}
        BY <4>1 DEF FoldAt
      <4>2. CASE s # {}
        <5>1. <<g[s \ {Max(s)}], Max(s)>> \in W \X (1 .. n)
          BY <2>3, <4>2
        <5>2. QED
          BY <4>2, <5>1 DEF FoldAt
      <4>3. QED
        BY <4>1, <4>2
    <3>2. QED
      BY <3>1
  <2>5. \A s \in SUBSET (1 .. k) : h[s] = g[s]
    BY <2>1, <2>2
  <2>6. ASSUME NEW s \in SUBSET (1 .. k + 1) PROVE h[s] = FoldAt(base, F, h, s)
    <3>1. h[s] = FoldAt(base, F, g, s)
      BY <2>1
    <3>2. CASE s = {}
      BY <3>1, <3>2 DEF FoldAt
    <3>3. CASE s # {}
      <4>1. Max(s) \in s /\ \A x \in s : x =< Max(s)
        <5>1. k + 1 \in Nat
          OBVIOUS
        <5>2. QED
          BY <3>3, <5>1, MaxOfPlaces
      <4>2. s \ {Max(s)} \in SUBSET (1 .. k)
        <5>1. ASSUME NEW x \in s \ {Max(s)} PROVE x \in 1 .. k
          <6>1. PICK m \in 1 .. k + 1 : m = Max(s)
            BY <4>1
          <6>2. x \in 1 .. k + 1 /\ x =< m /\ x # m
            BY <4>1, <6>1
          <6>3. QED
            BY <6>2
        <5>2. QED
          BY <5>1
      <4>3. h[s \ {Max(s)}] = g[s \ {Max(s)}]
        BY <2>5, <4>2
      <4>4. QED
        BY <3>1, <3>3, <4>3, Zenon DEF FoldAt
    <3>4. QED
      BY <3>2, <3>3
  <2>7. QED
    BY <2>4, <2>6
<1>3. n \in P
  <2> HIDE DEF P
  <2>1. QED
    BY <1>1, <1>2, Induction
<1>4. n =< n
  OBVIOUS
<1>5. QED
  BY <1>3, <1>4, Zenon DEF FoldOf

\* Places of a sequence of n.
LEMMA FirstPlaces ==
  ASSUME NEW n \in Nat, NEW k \in 0 .. n - 1
  PROVE  /\ k \in Nat /\ k \in 0 .. n /\ k + 1 \in 0 .. n /\ k + 1 \in 1 .. n
         /\ 1 .. k + 1 \in SUBSET (1 .. n) /\ 1 .. k + 1 # {}
<1>1. 1 \in 1 .. k + 1
  OBVIOUS
<1>2. QED
  BY <1>1

\* getRingBufferErrorInfo() goes through the n entries one by one, in their order,
\* and has the reports h[k], a member of W, after k of them.
EntriesWithin(f, n, W) ==
  DOMAIN NewestFirst = 1 .. n /\ \A w \in W : \A i \in 1 .. n : CheckEntry(f, w, NewestFirst[i]) \in W

EntriesOneByOne(base, f, n, W, h) ==
  /\ h \in [0 .. n -> W] /\ h[0] = base
  /\ \A k \in 0 .. n - 1 : h[k + 1] = CheckEntry(f, h[k], NewestFirst[k + 1])
  /\ getRingBufferErrorInfo(base, f) = h[n]

LEMMA EntriesFolded ==
  ASSUME NEW f, NEW n \in Nat, NEW W, NEW base \in W, EntriesWithin(f, n, W)
  PROVE  \E h : EntriesOneByOne(base, f, n, W, h)
<1> USE DEF EntriesWithin
<1>0. PICK F : F = [p \in W \X (1 .. n) |-> CheckEntry(f, p[1], NewestFirst[p[2]])]
  OBVIOUS
<1> DEFINE At(g, s) == IF s = {} THEN base ELSE CheckEntry(f, g[s \ {Max(s)}], NewestFirst[Max(s)])
           Folded(g) == g = [s \in SUBSET (1 .. n) |-> At(g, s)]
           fold == CHOOSE g : Folded(g)
<1>1. F \in [W \X (1 .. n) -> W]
  BY <1>0
<1>2. \E g : Folded(g)
  <2>0. PICK g : FoldOf(n, W, base, F, g)
    BY <1>1, FoldExists, Zenon
  <2>1. g \in [SUBSET (1 .. n) -> W] /\ \A s \in SUBSET (1 .. n) : g[s] = FoldAt(base, F, g, s)
    BY <2>0 DEF FoldOf
  <2>2. ASSUME NEW s \in SUBSET (1 .. n) PROVE g[s] = At(g, s)
    <3>1. CASE s = {}
      BY <2>1, <3>1 DEF FoldAt
    <3>2. CASE s # {}
      <4>1. Max(s) \in 1 .. n /\ s \ {Max(s)} \in SUBSET (1 .. n)
        BY <3>2, MaxOfPlaces
      <4>2. g[s \ {Max(s)}] \in W
        BY <2>1, <4>1
      <4>3. F[<<g[s \ {Max(s)}], Max(s)>>] = CheckEntry(f, g[s \ {Max(s)}], NewestFirst[Max(s)])
        BY <1>0, <4>1, <4>2
      <4>4. QED
        BY <2>1, <3>2, <4>3, Zenon DEF FoldAt
    <3>3. QED
      BY <3>1, <3>2
  <2>3. g = [s \in SUBSET (1 .. n) |-> g[s]]
    BY <2>1
  <2>4. QED
    BY <2>2, <2>3, Zenon
<1>3. Folded(fold)
  BY <1>2, Zenon
<1>4. getRingBufferErrorInfo(base, f) = fold[1 .. n]
  BY Zenon DEF getRingBufferErrorInfo, FoldLeft, MapThenFoldSet
<1> DEFINE h == [k \in 0 .. n |-> fold[1 .. k]]
<1> HIDE DEF fold
<1>5. h[0] = base
  <2>1. {} \in SUBSET (1 .. n)
    OBVIOUS
  <2>2. fold[{}] = base
    BY <1>3, <2>1, Zenon
  <2>3. 0 \in 0 .. n /\ 1 .. 0 = {}
    OBVIOUS
  <2>4. QED
    BY <2>2, <2>3, Zenon
<1>6. ASSUME NEW k \in 0 .. n - 1 PROVE h[k + 1] = CheckEntry(f, h[k], NewestFirst[k + 1])
  <2>1. k \in Nat /\ k \in 0 .. n /\ k + 1 \in 0 .. n /\ 1 .. k + 1 \in SUBSET (1 .. n) /\ 1 .. k + 1 # {}
    BY FirstPlaces, Zenon
  <2>2. fold[1 .. k + 1] = At(fold, 1 .. k + 1)
    BY <1>3, <2>1, Zenon
  <2>3. Max(1 .. k + 1) = k + 1 /\ (1 .. k + 1) \ {k + 1} = 1 .. k
    BY <2>1, MaxOfRange
  <2>4. fold[1 .. k + 1] = CheckEntry(f, fold[1 .. k], NewestFirst[k + 1])
    BY <2>1, <2>2, <2>3, Zenon
  <2>5. QED
    BY <2>1, <2>4, Zenon
<1>7. h \in [0 .. n -> W]
  <2> DEFINE P == {k \in Nat : k =< n => h[k] \in W}
  <2>1. 0 \in P
    BY <1>5
  <2>2. ASSUME NEW k \in Nat, k \in P PROVE k + 1 \in P
    <3>1. ASSUME k + 1 =< n PROVE h[k + 1] \in W
      <4>1. k \in 0 .. n - 1 /\ k =< n /\ k + 1 \in 1 .. n
        BY <3>1
      <4>2. h[k] \in W
        BY <2>2, <4>1
      <4>3. QED
        BY <1>6, <4>1, <4>2, Zenon
    <3>2. QED
      BY <3>1
  <2>3. Nat \subseteq P
    <3> HIDE DEF P
    <3>1. QED
      BY <2>1, <2>2, Induction
  <2>4. ASSUME NEW k \in 0 .. n PROVE h[k] \in W
    <3>1. k \in Nat /\ k =< n
      OBVIOUS
    <3>2. k \in P
      BY <2>3, <3>1, Zenon
    <3>3. QED
      BY <3>1, <3>2, Zenon
  <2>5. QED
    BY <2>4
<1>8. getRingBufferErrorInfo(base, f) = h[n]
  <2>1. n \in 0 .. n
    OBVIOUS
  <2>2. QED
    BY <1>4, <2>1, Zenon
<1>9. QED
  BY <1>5, <1>6, <1>7, <1>8, Zenon DEF EntriesOneByOne

\* And getInlineErrorInfo() through the neighbours from near to far.
ChunksWithin(f, near, far, n, W) ==
  /\ DOMAIN Distances(near, far) = 1 .. n
  /\ \A w \in W : \A i \in 1 .. n : CheckOneChunk(f, w, Distances(near, far)[i]) \in W

ChunksOneByOne(base, f, near, far, n, W, h) ==
  /\ h \in [0 .. n -> W] /\ h[0] = base
  /\ \A k \in 0 .. n - 1 : h[k + 1] = CheckOneChunk(f, h[k], Distances(near, far)[k + 1])
  /\ getInlineErrorInfo(base, f, near, far) = h[n]

LEMMA ChunksFolded ==
  ASSUME NEW f, NEW near, NEW far, NEW n \in Nat, NEW W, NEW base \in W, ChunksWithin(f, near, far, n, W)
  PROVE  \E h : ChunksOneByOne(base, f, near, far, n, W, h)
<1> USE DEF ChunksWithin
<1>0. PICK F : F = [p \in W \X (1 .. n) |-> CheckOneChunk(f, p[1], Distances(near, far)[p[2]])]
  OBVIOUS
<1> DEFINE At(g, s) == IF s = {} THEN base ELSE CheckOneChunk(f, g[s \ {Max(s)}], Distances(near, far)[Max(s)])
           Folded(g) == g = [s \in SUBSET (1 .. n) |-> At(g, s)]
           fold == CHOOSE g : Folded(g)
<1>1. F \in [W \X (1 .. n) -> W]
  BY <1>0
<1>2. \E g : Folded(g)
  <2>0. PICK g : FoldOf(n, W, base, F, g)
    BY <1>1, FoldExists, Zenon
  <2>1. g \in [SUBSET (1 .. n) -> W] /\ \A s \in SUBSET (1 .. n) : g[s] = FoldAt(base, F, g, s)
    BY <2>0 DEF FoldOf
  <2>2. ASSUME NEW s \in SUBSET (1 .. n) PROVE g[s] = At(g, s)
    <3>1. CASE s = {}
      BY <2>1, <3>1 DEF FoldAt
    <3>2. CASE s # {}
      <4>1. Max(s) \in 1 .. n /\ s \ {Max(s)} \in SUBSET (1 .. n)
        BY <3>2, MaxOfPlaces
      <4>2. g[s \ {Max(s)}] \in W
        BY <2>1, <4>1
      <4>3. F[<<g[s \ {Max(s)}], Max(s)>>] = CheckOneChunk(f, g[s \ {Max(s)}], Distances(near, far)[Max(s)])
        BY <1>0, <4>1, <4>2
      <4>4. QED
        BY <2>1, <3>2, <4>3, Zenon DEF FoldAt
    <3>3. QED
      BY <3>1, <3>2
  <2>3. g = [s \in SUBSET (1 .. n) |-> g[s]]
    BY <2>1
  <2>4. QED
    BY <2>2, <2>3, Zenon
<1>3. Folded(fold)
  BY <1>2, Zenon
<1>4. getInlineErrorInfo(base, f, near, far) = fold[1 .. n]
  BY Zenon DEF getInlineErrorInfo, FoldLeft, MapThenFoldSet
<1> DEFINE h == [k \in 0 .. n |-> fold[1 .. k]]
<1> HIDE DEF fold
<1>5. h[0] = base
  <2>1. {} \in SUBSET (1 .. n)
    OBVIOUS
  <2>2. fold[{}] = base
    BY <1>3, <2>1, Zenon
  <2>3. 0 \in 0 .. n /\ 1 .. 0 = {}
    OBVIOUS
  <2>4. QED
    BY <2>2, <2>3, Zenon
<1>6. ASSUME NEW k \in 0 .. n - 1 PROVE h[k + 1] = CheckOneChunk(f, h[k], Distances(near, far)[k + 1])
  <2>1. k \in Nat /\ k \in 0 .. n /\ k + 1 \in 0 .. n /\ 1 .. k + 1 \in SUBSET (1 .. n) /\ 1 .. k + 1 # {}
    BY FirstPlaces, Zenon
  <2>2. fold[1 .. k + 1] = At(fold, 1 .. k + 1)
    BY <1>3, <2>1, Zenon
  <2>3. Max(1 .. k + 1) = k + 1 /\ (1 .. k + 1) \ {k + 1} = 1 .. k
    BY <2>1, MaxOfRange
  <2>4. fold[1 .. k + 1] = CheckOneChunk(f, fold[1 .. k], Distances(near, far)[k + 1])
    BY <2>1, <2>2, <2>3, Zenon
  <2>5. QED
    BY <2>1, <2>4, Zenon
<1>7. h \in [0 .. n -> W]
  <2> DEFINE P == {k \in Nat : k =< n => h[k] \in W}
  <2>1. 0 \in P
    BY <1>5
  <2>2. ASSUME NEW k \in Nat, k \in P PROVE k + 1 \in P
    <3>1. ASSUME k + 1 =< n PROVE h[k + 1] \in W
      <4>1. k \in 0 .. n - 1 /\ k =< n /\ k + 1 \in 1 .. n
        BY <3>1
      <4>2. h[k] \in W
        BY <2>2, <4>1
      <4>3. QED
        BY <1>6, <4>1, <4>2, Zenon
    <3>2. QED
      BY <3>1
  <2>3. Nat \subseteq P
    <3> HIDE DEF P
    <3>1. QED
      BY <2>1, <2>2, Induction
  <2>4. ASSUME NEW k \in 0 .. n PROVE h[k] \in W
    <3>1. k \in Nat /\ k =< n
      OBVIOUS
    <3>2. k \in P
      BY <2>3, <3>1, Zenon
    <3>3. QED
      BY <3>1, <3>2, Zenon
  <2>5. QED
    BY <2>4
<1>8. getInlineErrorInfo(base, f, near, far) = h[n]
  <2>1. n \in 0 .. n
    OBVIOUS
  <2>2. QED
    BY <1>4, <2>1, Zenon
<1>9. QED
  BY <1>5, <1>6, <1>7, <1>8, Zenon DEF ChunksOneByOne

\* Division with a remainder, of integers.
LEMMA AnyDivision ==
  ASSUME NEW x \in Int, NEW n \in Nat \ {0}
  PROVE  \E q \in Int, r \in 0 .. n - 1 : x % n = r /\ x = n * q + r
<1>1. \A y \in Int, m \in Nat \ {0}, q, r \in Int : q = y \div m /\ r = y % m => y = m * q + r
  BY Z3
<1>2. x \div n \in Int
  BY Z3
<1>3. x % n \in 0 .. n - 1
  BY Z3
<1>4. QED
  BY <1>1, <1>2, <1>3

LEMMA RemainderIs ==
  ASSUME NEW n \in Nat \ {0}, NEW q \in Int, NEW r \in 0 .. n - 1
  PROVE  (n * q + r) % n = r
<1>1. PICK x \in Int : x = n * q + r
  BY Z3
<1>2. PICK p \in Int, s \in 0 .. n - 1 : x % n = s /\ x = n * p + s
  BY AnyDivision
<1>3. \A m \in Nat \ {0} : \A i, j \in Int, c, d \in 0 .. m - 1 : m * i + c = m * j + d => c = d
  <2>1. ASSUME NEW m \in Nat \ {0}, NEW i \in Int, NEW j \in Int, NEW c \in 0 .. m - 1, NEW d \in 0 .. m - 1,
               m * i + c = m * j + d
        PROVE  c = d
    <3>1. i < j => m * j >= m * i + m
      BY Z3
    <3>2. j < i => m * i >= m * j + m
      BY Z3
    <3>3. PICK a \in Int, b \in Int : a = m * i /\ b = m * j
      BY Z3
    <3>4. QED
      BY <2>1, <3>1, <3>2, <3>3
  <2>2. QED
    BY <2>1
<1>4. QED
  BY <1>1, <1>2, <1>3

\* The slot of a position that is a word, if the slots divide the words.
LEMMA SlotOfWord ==
  ASSUME NEW m \in Nat \ {0}, NEW n \in Nat \ {0}, m % n = 0, NEW x \in Int
  PROVE  (x % m) % n = x % n
<1>1. PICK q \in Int, r \in 0 .. m - 1 : x % m = r /\ x = m * q + r
  BY AnyDivision
<1>2. PICK p \in Int : m = n * p
  <2>1. PICK p \in Int, s \in 0 .. n - 1 : m % n = s /\ m = n * p + s
    BY AnyDivision
  <2>2. PICK a \in Int : a = n * p
    BY Z3
  <2>3. QED
    BY <2>1, <2>2
<1>3. PICK s \in Int, t \in 0 .. n - 1 : r % n = t /\ r = n * s + t
  <2>1. r \in Int
    OBVIOUS
  <2>2. QED
    BY <2>1, AnyDivision
<1>4. PICK u \in Int : u = p * q + s
  BY Z3
<1>5. x = n * u + t
  <2>1. \A a, b, c, d, e \in Int : (a * b) * c + (a * d + e) = a * (b * c + d) + e
    BY Z3
  <2>2. QED
    BY <1>1, <1>2, <1>3, <1>4, <2>1
<1>6. (n * u + t) % n = t
  BY RemainderIs
<1>7. QED
  BY <1>1, <1>3, <1>5, <1>6, Zenon

\* getRingBufferErrorInfo() comes to every entry, in the order of age.
Age(i) == (Pos - 1 - i) % RingBufferElements

LEMMA NewestByAge ==
  ASSUME BuffersAssumption, Pos \in Nat, WordMod % RingBufferElements = 0
  PROVE  /\ \A k \in 1 .. RingBufferElements : NewestFirst[k] \in Slots /\ Age(NewestFirst[k]) = k - 1
         /\ \A i \in Slots : Age(i) + 1 \in 1 .. RingBufferElements /\ NewestFirst[Age(i) + 1] = i
<1>1. PICK n \in Nat \ {0} : n = RingBufferElements
  BY DEF BuffersAssumption
<1>2. PICK p \in Nat : p = Pos
  OBVIOUS
<1>3. ASSUME NEW k \in 1 .. n PROVE NewestFirst[k] = (p - k) % n
  <2>1. ((p - k) % WordMod) % n = (p - k) % n
    <3>1. WordMod \in Nat \ {0} /\ WordMod % n = 0 /\ p - k \in Int
      BY <1>1 DEF BuffersAssumption
    <3>2. QED
      BY <3>1, SlotOfWord
  <2>2. QED
    BY <1>1, <1>2, <2>1 DEF NewestFirst
<1>4. ASSUME NEW k \in 1 .. n PROVE \E i \in 0 .. n - 1 : i = (p - k) % n /\ (p - 1 - i) % n = k - 1
  <2>1. PICK q \in Int, r \in 0 .. n - 1 : (p - k) % n = r /\ p - k = n * q + r
    <3>1. p - k \in Int
      OBVIOUS
    <3>2. QED
      BY <3>1, AnyDivision
  <2>2. p - 1 - r = n * q + (k - 1) /\ k - 1 \in 0 .. n - 1
    <3>1. PICK a \in Int : a = n * q
      BY Z3
    <3>2. QED
      BY <2>1, <3>1
  <2>3. QED
    BY <2>1, <2>2, RemainderIs
<1>5. ASSUME NEW i \in 0 .. n - 1
      PROVE  ((p - 1 - i) % n) + 1 \in 1 .. n /\ (p - (((p - 1 - i) % n) + 1)) % n = i
  <2>1. PICK q \in Int, r \in 0 .. n - 1 : (p - 1 - i) % n = r /\ p - 1 - i = n * q + r
    <3>1. p - 1 - i \in Int
      OBVIOUS
    <3>2. QED
      BY <3>1, AnyDivision
  <2>2. p - (r + 1) = n * q + i /\ r + 1 \in 1 .. n
    <3>1. PICK a \in Int : a = n * q
      BY Z3
    <3>2. QED
      BY <2>1, <3>1
  <2>3. QED
    BY <2>1, <2>2, RemainderIs
<1>6. \A i : Age(i) = (p - 1 - i) % n
  BY <1>1, <1>2 DEF Age
<1>7. Slots = 0 .. n - 1
  BY <1>1 DEF Slots
<1>8. ASSUME NEW k \in 1 .. n PROVE NewestFirst[k] \in Slots /\ Age(NewestFirst[k]) = k - 1
  <2>1. PICK i \in 0 .. n - 1 : i = (p - k) % n /\ (p - 1 - i) % n = k - 1
    BY <1>4
  <2>2. (p - 1 - i) % n = k - 1
    BY <2>1
  <2>3. NewestFirst[k] = i
    BY <1>3, <2>1
  <2>4. Age(i) = k - 1
    BY <1>6, <2>2, Zenon
  <2>5. QED
    BY <1>7, <2>3, <2>4, Zenon
<1>9. ASSUME NEW i \in Slots PROVE Age(i) + 1 \in 1 .. n /\ NewestFirst[Age(i) + 1] = i
  BY <1>3, <1>5, <1>6, <1>7
<1>10. QED
  BY <1>1, <1>8, <1>9, Zenon

\* The blocks of the primary are numbered, there is a report to fill, and the
\* slots of the ring buffer divide the words that count its positions, as the
\* default number of entries does.
ReportsAssumption ==
  /\ PrimaryBlocks \subseteq Int
  /\ NumErrorReports \in Nat \ {0}
  /\ WordMod % RingBufferElements = 0

\* A record for an entry is of its block, and of one that is freed if the block is
\* the primary's.
RecordsOfFrees ==
  /\ \A e \in made : e.Ptr[1] \in PrimaryBlocks => e.DeallocationTid # NoTid
  /\ \A t \in Recorders : at[t] \in Inserting \cup {"record"} => op[t].entry.Ptr[1] = op[t].block

LEMMA RecordsKept ==
  ASSUME NEW t \in Recorders, RecordsOfFrees, at \in [Recorders -> Labels],
         \A u \in Recorders \ {t} : at'[u] = at[u] /\ op'[u] = op[u],
         at'[t] \in Inserting \cup {"record"} => op'[t].entry.Ptr[1] = op'[t].block,
         \A e \in made' \ made : e.Ptr[1] \in PrimaryBlocks => e.DeallocationTid # NoTid
  PROVE  RecordsOfFrees'
BY DEF RecordsOfFrees

LEMMA RecordsStep == ASSUME BufferIInv, RecordsOfFrees, [Next]_tvars PROVE RecordsOfFrees'
<1>1. /\ at \in [Recorders -> Labels] /\ op \in [Recorders -> Operations]
      /\ \A t \in Recorders : op[t] \in Operations
  BY DEF BufferIInv, BufferTypes
<1>2. CASE UNCHANGED tvars
  BY <1>2 DEF tvars, bufferVars, RecordsOfFrees
<1>3. ASSUME NEW t \in Recorders, NEW b, NEW trace, NEW tag, NEW first, NEW tid, NEW second, NEW freer,
             Start(t, b, trace, Entry(<<b, tag>>, first, tid, second, freer))
      PROVE  RecordsOfFrees'
  <2>1. PICK o : o = [block |-> b, trace |-> trace, i |-> 0, slot |-> 0,
                      entry |-> Entry(<<b, tag>>, first, tid, second, freer)]
    OBVIOUS
  <2>2. o.entry.Ptr[1] = o.block
    BY <2>1 DEF Entry
  <2>3. op' = [op EXCEPT ![t] = o] /\ at' = [at EXCEPT ![t] = "check"] /\ made' = made
    BY <1>3, <2>1 DEF Start, Goto, bufferVars
  <2>4. QED
    BY <1>1, <2>2, <2>3, RecordsKept
<1>4. ASSUME NEW t \in Recorders, NEW b, NEW trace, Allocate(t, b, trace) \/ Deallocate(t, b, trace)
      PROVE  RecordsOfFrees'
  BY <1>3, <1>4, Zenon DEF Allocate, Deallocate
<1>5. ASSUME NEW t \in Recorders,
             Check(t) \/ LockDepot(t) \/ StoreTab(t) \/ StoreMarker(t) \/ StoreFrame(t) \/ UnlockDepot(t)
      PROVE  RecordsOfFrees'
  <2>1. at[t] \in Inserting /\ made' = made
    BY <1>5 DEF Check, LockDepot, StoreTab, StoreMarker, StoreFrame, UnlockDepot, Inserting, bufferVars
  <2>2. \A u \in Recorders \ {t} : at'[u] = at[u] /\ op'[u] = op[u]
    BY <1>1, <1>5 DEF Check, LockDepot, StoreTab, StoreMarker, StoreFrame, UnlockDepot, Goto
  <2>3. op'[t].entry = op[t].entry /\ op'[t].block = op[t].block
    <3>1. CASE op' = op
      BY <3>1
    <3>2. CASE StoreFrame(t)
      BY <1>1, <3>2 DEF StoreFrame, Operations
    <3>3. QED
      BY <1>5, <3>1, <3>2 DEF Check, LockDepot, StoreTab, StoreMarker, UnlockDepot
  <2>4. op[t].entry.Ptr[1] = op[t].block
    BY <2>1 DEF RecordsOfFrees
  <2>5. QED
    BY <1>1, <2>1, <2>2, <2>3, <2>4, RecordsKept
<1>6. ASSUME NEW t \in Recorders, Record(t) PROVE RecordsOfFrees'
  <2>1. at[t] = "record" /\ op[t].entry.Ptr[1] = op[t].block
    BY <1>6 DEF Record, RecordsOfFrees
  <2>2. \A u \in Recorders \ {t} : at'[u] = at[u] /\ op'[u] = op[u]
    BY <1>1, <1>6 DEF Record, Goto
  <2>3. at'[t] \in {"end", "invalidate"}
    BY <1>1, <1>6 DEF Record, Goto
  <2>4. \A e \in made' \ made : e = op[t].entry /\ ~(IsAllocation(t) /\ op[t].block \in PrimaryBlocks)
    BY <1>6 DEF Record
  <2>5. \A e \in made' \ made : e.Ptr[1] \in PrimaryBlocks => e.DeallocationTid # NoTid
    BY <2>1, <2>4 DEF IsAllocation
  <2>6. QED
    BY <1>1, <2>2, <2>3, <2>5, RecordsKept DEF Inserting
<1>7. ASSUME NEW t \in Recorders,
             Invalidate(t) \/ StoreAllocation(t) \/ StoreDeallocation(t) \/ Publish(t) \/ End(t)
      PROVE  RecordsOfFrees'
  <2>1. made' = made /\ op' = op /\ \A u \in Recorders \ {t} : at'[u] = at[u]
    BY <1>1, <1>7 DEF Invalidate, StoreAllocation, StoreDeallocation, Publish, End, Goto, bufferVars
  <2>2. at'[t] \in {"allocation", "deallocation", "publish", "end", "idle"}
    BY <1>1, <1>7 DEF Invalidate, StoreAllocation, StoreDeallocation, Publish, End, Goto
  <2>3. QED
    BY <1>1, <2>1, <2>2, RecordsKept DEF Inserting
<1>8. QED
  BY <1>2, <1>4, <1>5, <1>6, <1>7, Zenon DEF Next

\* The neighbours that are looked at first.
LEMMA NearDistances ==
  /\ DOMAIN Distances(0, 2) = 1 .. 3
  /\ \A k \in 1 .. 3 : Distances(0, 2)[k] \in {0, 1, -1}
<1> DEFINE Side(k) == 1 + (k - 1) \div 2
           sides == [k \in 1 .. 2 |-> IF k % 2 = 1 THEN Side(k) ELSE -Side(k)]
<1>1. Max({0, 1}) = 1
  <2>1. 1 \in {0, 1} /\ \A y \in {0, 1} : 1 >= y
    OBVIOUS
  <2>2. Max({0, 1}) \in {0, 1} /\ \A y \in {0, 1} : Max({0, 1}) >= y
    BY <2>1, Zenon DEF Max
  <2>3. QED
    BY <2>2
<1>2. 2 * (2 - 1) = 2
  OBVIOUS
<1>3. Distances(0, 2) = <<0>> \o sides
  BY <1>1, <1>2 DEF Distances
<1>4. \A k \in 1 .. 2 : sides[k] \in {1, -1}
  <2>1. ASSUME NEW k \in 1 .. 2 PROVE Side(k) = 1
    <3>1. (1 - 1) \div 2 = 0 /\ (2 - 1) \div 2 = 0
      BY Z3
    <3>2. k = 1 \/ k = 2
      OBVIOUS
    <3>3. (k - 1) \div 2 = 0
      BY <3>1, <3>2
    <3>4. QED
      BY <3>3
  <2>2. QED
    BY <2>1
<1>5. sides \in Seq(Int) /\ Len(sides) = 2
  BY <1>4
<1>6. \A s \in Seq(Int) : Len(s) = 2 =>
        /\ DOMAIN (<<0>> \o s) = 1 .. 3
        /\ (<<0>> \o s)[1] = 0 /\ (<<0>> \o s)[2] = s[1] /\ (<<0>> \o s)[3] = s[2]
  <2>1. ASSUME NEW s \in Seq(Int), Len(s) = 2
        PROVE  /\ DOMAIN (<<0>> \o s) = 1 .. 3
               /\ (<<0>> \o s)[1] = 0 /\ (<<0>> \o s)[2] = s[1] /\ (<<0>> \o s)[3] = s[2]
    <3>0. <<0>> \in Seq(Int) /\ Len(<<0>>) = 1 /\ <<0>>[1] = 0
      OBVIOUS
    <3>1. PICK z \in Seq(Int) : z = <<0>>
      BY <3>0
    <3>2. Len(z) = 1 /\ z[1] = 0
      BY <3>0, <3>1
    <3>3. PICK y : y = z \o s
      OBVIOUS
    <3>4. y \in Seq(Int) /\ Len(y) = 3 /\ y[1] = z[1] /\ y[2] = s[1] /\ y[3] = s[2]
      <4>1. /\ y \in Seq(Int) /\ Len(y) = Len(z) + Len(s)
            /\ \A i \in 1 .. Len(z) + Len(s) : y[i] = IF i <= Len(z) THEN z[i] ELSE s[i - Len(z)]
        BY <3>3, ConcatProperties, Zenon
      <4>2. Len(z) + Len(s) = 3
        BY <2>1, <3>2
      <4>3. QED
        BY <2>1, <3>2, <4>1, <4>2
    <3>5. DOMAIN y = 1 .. 3
      BY <3>4
    <3>6. QED
      BY <3>1, <3>2, <3>3, <3>4, <3>5
  <2>2. QED
    BY <2>1
<1> HIDE DEF sides
<1>7. /\ DOMAIN (<<0>> \o sides) = 1 .. 3
      /\ \A k \in 1 .. 3 : (<<0>> \o sides)[k] \in {0, 1, -1}
  <2>1. \A k \in 1 .. 3 : k = 1 \/ k = 2 \/ k = 3
    OBVIOUS
  <2>2. 1 \in 1 .. 2 /\ 2 \in 1 .. 2
    OBVIOUS
  <2>3. sides[1] \in {1, -1} /\ sides[2] \in {1, -1}
    BY <1>4, <2>2, Zenon
  <2>4. QED
    BY <1>5, <1>6, <2>1, <2>3
<1>8. QED
  BY <1>3, <1>7, Zenon

LEMMA FarDistances == DOMAIN Distances(2, 16) = 1 .. 28
<1> DEFINE Side(k) == 2 + (k - 1) \div 2
           sides == [k \in 1 .. 28 |-> IF k % 2 = 1 THEN Side(k) ELSE -Side(k)]
<1>1. Max({2, 1}) = 2
  <2>1. 2 \in {2, 1} /\ \A y \in {2, 1} : 2 >= y
    OBVIOUS
  <2>2. Max({2, 1}) \in {2, 1} /\ \A y \in {2, 1} : Max({2, 1}) >= y
    BY <2>1, Zenon DEF Max
  <2>3. QED
    BY <2>2
<1>2. 2 * (16 - 2) = 28
  OBVIOUS
<1>3. Distances(2, 16) = <<>> \o sides
  BY <1>1, <1>2 DEF Distances
<1>4. sides \in Seq({sides[k] : k \in 1 .. 28}) /\ Len(sides) = 28
  OBVIOUS
<1> HIDE DEF sides
<1>5. QED
  BY <1>3, <1>4

\* No neighbour of the block wears the tag: there is nothing to report before the
\* ring buffer.
LEMMA NothingNear ==
  ASSUME ReportsAssumption, NEW b \in PrimaryBlocks, NEW tag, chunks[b].tag # tag, ~WornNextTo(b, tag)
  PROVE  getInlineErrorInfo(<<>>, Fault(b, tag, "inside"), 0, 2) = <<>>
<1>1. PICK f : f = Fault(b, tag, "inside")
  OBVIOUS
<1>2. f.block = b /\ f.tag = tag /\ b \in Int
  BY <1>1 DEF Fault, ReportsAssumption
<1>4. DOMAIN Distances(0, 2) = 1 .. 3 /\ \A k \in 1 .. 3 : Distances(0, 2)[k] \in {0, 1, -1}
  BY NearDistances
<1>5. ASSUME NEW d \in {0, 1, -1} PROVE CheckOneChunk(f, <<>>, d) = <<>>
  <2>1. CASE d = 0
    <3>1. f.block + d = b
      BY <1>2, <2>1
    <3>2. QED
      BY <1>2, <3>1, Zenon DEF CheckOneChunk
  <2>2. CASE d # 0
    <3>1. b + d \in {b - 1, b + 1}
      BY <1>2, <2>2
    <3>2. b + d \in PrimaryBlocks => ~(chunks[b + d].State = "Allocated" /\ chunks[b + d].tag = tag)
      BY <3>1, Zenon DEF WornNextTo
    <3>3. QED
      BY <1>2, <3>2, Zenon DEF CheckOneChunk
  <2>3. QED
    BY <2>1, <2>2
<1>6. ChunksWithin(f, 0, 2, 3, {<<>>})
  BY <1>4, <1>5 DEF ChunksWithin
<1>7. PICK h : ChunksOneByOne(<<>>, f, 0, 2, 3, {<<>>}, h)
  <2>1. 3 \in Nat /\ <<>> \in {<<>>}
    OBVIOUS
  <2>2. QED
    BY <1>6, <2>1, ChunksFolded, Zenon
<1>8. h[3] = <<>> /\ getInlineErrorInfo(<<>>, f, 0, 2) = h[3]
  BY <1>7 DEF ChunksOneByOne
<1>9. QED
  BY <1>1, <1>8, Zenon

\* Reports that begin with R.
Begins(S, R) == {s \in Seq(S) : s # <<>> /\ s[1] = R}

LEMMA AppendBegins ==
  ASSUME NEW S, NEW R, NEW s \in Begins(S, R), NEW x \in S
  PROVE  Append(s, x) \in Begins(S, R)
<1>1. s \in Seq(S) /\ s # <<>> /\ s[1] = R
  BY Zenon DEF Begins
<1>2. Len(s) \in Nat /\ Len(s) # 0
  BY <1>1
<1>3. Append(s, x) \in Seq(S) /\ Append(s, x) # <<>> /\ Append(s, x)[1] = R
  BY <1>1, <1>2
<1>4. QED
  BY <1>3, Zenon DEF Begins

\* The neighbours further away come behind what was found before.
LEMMA FarBehind ==
  ASSUME NEW f, NEW T, NEW R, NEW s \in Begins(T, R)
  PROVE  getInlineErrorInfo(s, f, 2, 16)[1] = R
<1> DEFINE Of(d) == Report(IF d > 0 THEN "BUFFER_UNDERFLOW" ELSE "BUFFER_OVERFLOW", f.block + d,
                           Entry(<<f.block + d, f.tag>>, chunks[f.block + d].trace, chunks[f.block + d].tid,
                                 NoTrace, NoTid))
<1> DEFINE seq == Distances(2, 16)
<1>2. DOMAIN seq = 1 .. 28
  BY FarDistances
<1>3. PICK S : S = T \cup {Of(seq[i]) : i \in 1 .. 28}
  OBVIOUS
<1>4. s \in Begins(S, R)
  <2>1. T \subseteq S
    BY <1>3, Zenon
  <2>2. QED
    BY <2>1 DEF Begins
<1>5. ASSUME NEW w \in Begins(S, R), NEW i \in 1 .. 28 PROVE CheckOneChunk(f, w, seq[i]) \in Begins(S, R)
  <2>1. Of(seq[i]) \in S
    BY <1>3, Zenon
  <2>2. Append(w, Of(seq[i])) \in Begins(S, R)
    BY <2>1, AppendBegins
  <2>3. CheckOneChunk(f, w, seq[i]) \in {w, Append(w, Of(seq[i]))}
    BY Zenon DEF CheckOneChunk
  <2>4. QED
    BY <2>2, <2>3
<1>6. ChunksWithin(f, 2, 16, 28, Begins(S, R))
  BY <1>2, <1>5, Zenon DEF ChunksWithin
<1>7. PICK h : ChunksOneByOne(s, f, 2, 16, 28, Begins(S, R), h)
  <2>1. 28 \in Nat
    OBVIOUS
  <2>2. QED
    BY <1>4, <1>6, <2>1, ChunksFolded, Zenon
<1>8. h[28] \in Begins(S, R) /\ getInlineErrorInfo(s, f, 2, 16) = h[28]
  BY <1>7 DEF ChunksOneByOne
<1>9. QED
  BY <1>8 DEF Begins

\* The entry of the last deallocation of a pointer is the first to be reported.
LEMMA RingBegins ==
  ASSUME BuffersAssumption, ReportsAssumption, BufferIInv, RecordsOfFrees, mixed = {},
         NEW b \in PrimaryBlocks, NEW tag, NEW l \in Slots, entries[l].Ptr = <<b, tag>>,
         \A j \in Slots : entries[j].Ptr = <<b, tag>> => Age(l) =< Age(j)
  PROVE  \E T : getRingBufferErrorInfo(<<>>, Fault(b, tag, "inside"))
                  \in Begins(T, Report("USE_AFTER_FREE", b, entries[l]))
<1>1. PICK f : f = Fault(b, tag, "inside")
  OBVIOUS
<1>2. f.block = b /\ f.tag = tag /\ f.where = "inside"
  BY <1>1 DEF Fault
<1>3. PICK n \in Nat \ {0} : n = RingBufferElements
  BY DEF BuffersAssumption
<1> DEFINE Of(i) == Report(TypeOf(f, entries[i]), f.block, entries[i])
<1>4. PICK T : T = {Of(i) : i \in Slots}
  OBVIOUS
<1>5. \A k \in 1 .. n : NewestFirst[k] \in Slots /\ Age(NewestFirst[k]) = k - 1
  BY <1>3, NewestByAge DEF BufferIInv, BufferTypes, ReportsAssumption
<1>6. ASSUME NEW i \in Slots, entries[i].Ptr = <<b, tag>> PROVE entries[i].DeallocationTid # NoTid
  <2>1. <<b, tag>> # Null /\ <<b, tag>>[1] = b
    BY DEF Null
  <2>2. DOMAIN entries = Slots
    BY DEF BufferIInv, BufferTypes
  <2>3. entries[i] \in made
    BY <1>6, <2>1, <2>2 DEF BufferIInv, EntriesWhole
  <2>4. QED
    BY <1>6, <2>1, <2>3 DEF RecordsOfFrees
<1>7. ASSUME NEW i \in Slots, NEW w, entries[i].Ptr # <<b, tag>> PROVE CheckEntry(f, w, i) = w
  BY <1>2, <1>7, Zenon DEF CheckEntry, Explains
<1>8. ASSUME NEW i \in Slots, NEW w, entries[i].Ptr = <<b, tag>>
      PROVE  CheckEntry(f, w, i) = IF Len(w) < NumErrorReports THEN Append(w, Of(i)) ELSE w
  <2>1. entries[i].Ptr # Null
    <3>1. <<b, tag>> # Null
      BY DEF Null
    <3>2. QED
      BY <1>8, <3>1, Zenon
  <2>2. Explains(w, f, entries[i])
    BY <1>2, <1>6, <1>8, Zenon DEF Explains
  <2>3. QED
    BY <2>1, <2>2, Zenon DEF CheckEntry
<1>9. EntriesWithin(f, n, Seq(T))
  <2>1. DOMAIN NewestFirst = 1 .. n
    BY <1>3 DEF NewestFirst
  <2>2. ASSUME NEW w \in Seq(T), NEW i \in 1 .. n PROVE CheckEntry(f, w, NewestFirst[i]) \in Seq(T)
    <3>1. PICK j \in Slots : j = NewestFirst[i]
      BY <1>5
    <3>2. Of(j) \in T
      BY <1>4, Zenon
    <3>3. Append(w, Of(j)) \in Seq(T)
      BY <3>2, AppendProperties, Zenon
    <3>4. CheckEntry(f, w, j) \in {w, Append(w, Of(j))}
      BY <1>7, <1>8, Zenon
    <3>5. QED
      BY <3>1, <3>3, <3>4
  <2>3. QED
    BY <2>1, <2>2, Zenon DEF EntriesWithin
<1>10. PICK h : EntriesOneByOne(<<>>, f, n, Seq(T), h)
  <2>1. n \in Nat /\ <<>> \in Seq(T)
    OBVIOUS
  <2>2. QED
    BY <1>9, <2>1, EntriesFolded, Zenon
<1>11. /\ h[0] = <<>> /\ \A k \in 0 .. n - 1 : h[k + 1] = CheckEntry(f, h[k], NewestFirst[k + 1])
       /\ getRingBufferErrorInfo(<<>>, f) = h[n]
  BY <1>10 DEF EntriesOneByOne
<1>12. PICK m \in 1 .. n : m = Age(l) + 1 /\ NewestFirst[m] = l /\ Age(l) = m - 1
  <2>1. PICK m \in 1 .. n : m = Age(l) + 1 /\ NewestFirst[m] = l
    BY <1>3, NewestByAge DEF BufferIInv, BufferTypes, ReportsAssumption
  <2>2. Age(l) = m - 1
    BY <1>5, <2>1
  <2>3. QED
    BY <2>1, <2>2, Zenon
<1>13. h[m - 1] = <<>>
  <2> DEFINE P == {k \in Nat : k < m => h[k] = <<>>}
  <2>1. 0 \in P
    BY <1>11
  <2>2. ASSUME NEW k \in Nat, k \in P PROVE k + 1 \in P
    <3>1. ASSUME k + 1 < m PROVE h[k + 1] = <<>>
      <4>1. k \in 0 .. n - 1 /\ k + 1 \in 1 .. n /\ k < m
        BY <3>1
      <4>2. h[k] = <<>> /\ h[k + 1] = CheckEntry(f, h[k], NewestFirst[k + 1])
        BY <1>11, <2>2, <4>1
      <4>3. PICK j \in Slots : j = NewestFirst[k + 1] /\ Age(j) = k + 1 - 1
        BY <1>5, <4>1
      <4>4. ~(Age(l) =< Age(j))
        BY <1>12, <3>1, <4>3
      <4>5. entries[j].Ptr # <<b, tag>>
        BY <4>4
      <4>6. CheckEntry(f, <<>>, j) = <<>>
        BY <1>7, <4>5
      <4>7. QED
        BY <4>2, <4>3, <4>6
    <3>2. QED
      BY <3>1
  <2>3. Nat \subseteq P
    <3> HIDE DEF P
    <3>1. QED
      BY <2>1, <2>2, Induction
  <2>4. m - 1 \in Nat /\ m - 1 < m
    OBVIOUS
  <2>5. QED
    BY <2>3, <2>4
<1> DEFINE R == Report("USE_AFTER_FREE", b, entries[l])
<1>14. Of(l) = R /\ R \in T
  <2>1. TypeOf(f, entries[l]) = "USE_AFTER_FREE"
    BY <1>6, Zenon DEF TypeOf
  <2>2. QED
    BY <1>2, <1>4, <2>1, Zenon
<1>15. h[m] = Append(<<>>, R)
  <2>1. m - 1 \in 0 .. n - 1 /\ m - 1 + 1 = m
    OBVIOUS
  <2>2. h[m] = CheckEntry(f, <<>>, l)
    BY <1>11, <1>12, <1>13, <2>1
  <2>3. Len(<<>>) < NumErrorReports
    BY DEF ReportsAssumption
  <2>4. QED
    BY <1>8, <1>14, <2>2, <2>3, Zenon
<1>16. PICK r : r = R
  OBVIOUS
<1>17. h[m] \in Begins(T, r)
  <2>1. Append(<<>>, r) \in Seq(T) /\ Append(<<>>, r) # <<>> /\ Append(<<>>, r)[1] = r
    BY <1>14, <1>16
  <2>2. QED
    BY <1>15, <1>16, <2>1, Zenon DEF Begins
<1>18. h[n] \in Begins(T, r)
  <2> DEFINE P == {k \in Nat : m =< k /\ k =< n => h[k] \in Begins(T, r)}
  <2>1. 0 \in P
    OBVIOUS
  <2>2. ASSUME NEW k \in Nat, k \in P PROVE k + 1 \in P
    <3>1. ASSUME m =< k + 1, k + 1 =< n, m # k + 1 PROVE h[k + 1] \in Begins(T, r)
      <4>1. k \in 0 .. n - 1 /\ k + 1 \in 1 .. n /\ m =< k /\ k =< n
        BY <3>1
      <4>2. h[k] \in Begins(T, r) /\ h[k + 1] = CheckEntry(f, h[k], NewestFirst[k + 1])
        BY <1>11, <2>2, <4>1
      <4>3. PICK j \in Slots : j = NewestFirst[k + 1]
        BY <1>5, <4>1
      <4>4. Of(j) \in T
        BY <1>4, Zenon
      <4>5. Append(h[k], Of(j)) \in Begins(T, r)
        BY <4>2, <4>4, AppendBegins, Zenon
      <4>6. CheckEntry(f, h[k], j) \in {h[k], Append(h[k], Of(j))}
        BY <1>7, <1>8, Zenon
      <4>7. QED
        BY <4>2, <4>3, <4>5, <4>6
    <3>2. QED
      BY <1>17, <3>1
  <2>3. Nat \subseteq P
    <3> HIDE DEF P
    <3>1. QED
      BY <2>1, <2>2, Induction
  <2>4. n \in Nat /\ m =< n /\ n =< n
    OBVIOUS
  <2>5. QED
    BY <2>3, <2>4
<1>19. QED
  BY <1>1, <1>11, <1>16, <1>18, Zenon

\* So is it by the whole of getErrorInfo().
LEMMA FreedFirst ==
  ASSUME BuffersAssumption, ReportsAssumption, BufferIInv, RecordsOfFrees
  PROVE  FreedIsReported
<1>0. SUFFICES ASSUME NEW b \in PrimaryBlocks, NEW tag \in Tags \ {chunks[b].tag}
               PROVE  LET Records == {i \in DOMAIN entries : entries[i].Ptr = <<b, tag>>}
                          last    == entries[CHOOSE i \in Records : \A j \in Records : Age(i) =< Age(j)]
                          r       == getErrorInfo(Fault(b, tag, "inside"))
                      IN  Records # {} /\ mixed = {} /\ ~WornNextTo(b, tag) =>
                            /\ r[1].error_type = "USE_AFTER_FREE" /\ r[1].allocation = b
                            /\ r[1].allocation_tid = last.AllocationTid
                            /\ r[1].deallocation_tid = last.DeallocationTid
                            /\ r[1].allocation_trace \in {NoTrace, last.AllocationTrace}
                            /\ r[1].deallocation_trace \in {NoTrace, last.DeallocationTrace}
  BY Zenon DEF FreedIsReported, Age
<1> DEFINE Records == {i \in DOMAIN entries : entries[i].Ptr = <<b, tag>>}
           Latest(i) == \A j \in Records : Age(i) =< Age(j)
           l == CHOOSE i \in Records : Latest(i)
           f == Fault(b, tag, "inside")
           As(R) == /\ R.error_type = "USE_AFTER_FREE" /\ R.allocation = b
                    /\ R.allocation_tid = entries[l].AllocationTid
                    /\ R.deallocation_tid = entries[l].DeallocationTid
                    /\ R.allocation_trace \in {NoTrace, entries[l].AllocationTrace}
                    /\ R.deallocation_trace \in {NoTrace, entries[l].DeallocationTrace}
<1>1. SUFFICES ASSUME Records # {}, mixed = {}, ~WornNextTo(b, tag) PROVE As(getErrorInfo(f)[1])
  BY Zenon
<1>2. DOMAIN entries = Slots /\ Pos \in Nat
  BY DEF BufferIInv, BufferTypes
<1>3. \E i \in Records : Latest(i)
  <2>1. PICK ages : ages = {Age(i) : i \in Records}
    OBVIOUS
  <2>2. ages \in SUBSET Nat
    <3>1. ASSUME NEW i \in Slots PROVE Age(i) \in Nat
      <4>1. Pos - 1 - i \in Int /\ RingBufferElements \in Nat \ {0}
        BY <1>2 DEF Slots, BuffersAssumption
      <4>2. QED
        BY <4>1, AnyDivision DEF Age
    <3>2. QED
      BY <1>2, <2>1, <3>1
  <2>3. ages # {}
    BY <1>1, <2>1
  <2>4. PICK a \in ages : \A c \in ages : a =< c
    BY <2>2, <2>3, Least
  <2>5. QED
    BY <2>1, <2>4, Zenon
<1>4. l \in Records /\ Latest(l)
  BY <1>3, Zenon
<1>5. PICK x \in Slots : x = l
  BY <1>2, <1>4
<1>6. entries[x].Ptr = <<b, tag>> /\ \A j \in Slots : entries[j].Ptr = <<b, tag>> => Age(x) =< Age(j)
  BY <1>2, <1>4, <1>5, Zenon
<1>7. PICK T : getRingBufferErrorInfo(<<>>, f) \in Begins(T, Report("USE_AFTER_FREE", b, entries[x]))
  BY <1>1, <1>6, RingBegins, Zenon
<1>8. PICK R : R = Report("USE_AFTER_FREE", b, entries[x])
  OBVIOUS
<1>9. PICK s : s = getRingBufferErrorInfo(<<>>, f)
  OBVIOUS
<1>10. s \in Begins(T, R)
  BY <1>7, <1>8, <1>9, Zenon
<1>11. getErrorInfo(f)[1] = R
  <2>1. f.tag = tag
    BY DEF Fault
  <2>2. CASE tag # 0
    <3>1. getInlineErrorInfo(<<>>, f, 0, 2) = <<>>
      BY <1>1, NothingNear, Zenon
    <3>2. PICK g : g = f
      OBVIOUS
    <3>3. getInlineErrorInfo(s, g, 2, 16)[1] = R
      BY <1>10, FarBehind, Zenon
    <3>4. getErrorInfo(f) = getInlineErrorInfo(s, f, 2, 16)
      <4> HIDE DEF f
      <4>1. QED
        BY <1>9, <2>1, <2>2, <3>1, Zenon DEF getErrorInfo
    <3>5. QED
      BY <3>2, <3>3, <3>4, Zenon
  <2>3. CASE tag = 0
    <3>1. getErrorInfo(f) = s
      <4> HIDE DEF f
      <4>1. QED
        BY <1>9, <2>1, <2>3, Zenon DEF getErrorInfo
    <3>2. QED
      BY <1>10, <3>1, Zenon DEF Begins
  <2>4. QED
    BY <2>2, <2>3
<1>12. \A trace : find(trace) \in {NoTrace, trace}
  BY Zenon DEF find
<1>13. As(R)
  <2> DEFINE e == entries[x]
  <2>1. /\ R.error_type = "USE_AFTER_FREE" /\ R.allocation = b
        /\ R.allocation_tid = e.AllocationTid
        /\ R.deallocation_tid = e.DeallocationTid
        /\ R.allocation_trace \in {NoTrace, e.AllocationTrace}
        /\ R.deallocation_trace \in {NoTrace, e.DeallocationTrace}
    BY <1>8, <1>12 DEF Report
  <2>2. QED
    BY <1>5, <2>1, Zenon
<1>14. QED
  BY <1>11, <1>13, Zenon

\* A stale pointer of which the ring buffer has the deallocation is reported as a
\* use after free before anything else, with the threads and traces of the last
\* deallocation of this pointer.
THEOREM FreedAreReported == BuffersAssumption /\ ReportsAssumption => (Spec => []FreedIsReported)
<1> SUFFICES ASSUME BuffersAssumption, ReportsAssumption PROVE Spec => []FreedIsReported
  OBVIOUS
<1>1. Init => RecordsOfFrees
  BY DEF Init, RecordsOfFrees, Inserting
<1>2. BufferIInv /\ RecordsOfFrees /\ [Next]_tvars => RecordsOfFrees'
  BY RecordsStep
<1>3. BufferIInv /\ RecordsOfFrees => FreedIsReported
  BY FreedFirst
<1>4. QED
  BY <1>1, <1>2, <1>3, BufferInvariance, PTL DEF Spec
=============================================================================
