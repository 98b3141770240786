--------------------------- MODULE BatchClassBlocks ---------------------------
(***************************************************************************)
(* The freelist of the batch class as a value.  It is kept in the free     *)
(* blocks themselves: a batch lists the block that it lives in, and the    *)
(* last batch lists the block of the only batch group.  The functions are  *)
(* the same text in SizeClassAllocator64 and SizeClassAllocator32.         *)
(***************************************************************************)
EXTENDS Integers, FiniteSetsExt, SequencesExt

CONSTANTS MaxCachedPerBatch, None

\* A batch lives in block self and lists blocks.
Batch(self, blocks) == [self |-> self, blocks |-> blocks]

\* The loop of pushBatchClassBlocks() from the front of the array on: a full
\* front batch makes the next block a batch that lists itself.
Fill(list, array) ==
  FoldLeft(LAMBDA l, b :
             IF Len(Head(l).blocks) = MaxCachedPerBatch
             THEN <<Batch(b, <<b>>)>> \o l
             ELSE <<[Head(l) EXCEPT !.blocks = Append(@, b)]>> \o Tail(l),
           list, array)

\* The second half: the first batch lists itself and the group bg.
pushToGroup(bg, list, array) ==
  IF array = <<>> THEN list
  ELSE IF list = <<>>
       THEN Fill(<<Batch(Last(array), <<Last(array), bg>>)>>, Front(array))
       ELSE Fill(list, array)

\* pushBatchClassBlocks(): the last block of the array becomes the batch group
\* when there is none.
pushBatchClassBlocks(bg, list, array) ==
  IF bg = None
  THEN [bg |-> Last(array), list |-> pushToGroup(Last(array), list, Front(array))]
  ELSE [bg |-> bg, list |-> pushToGroup(bg, list, array)]

\* popBlocksImpl() of the batch class: a whole batch, and with the last one the
\* group goes as well; a group without batches is popped as a block.
popBlocksImpl(bg, list) ==
  IF list = <<>> THEN [popped |-> {bg}, bg |-> None, list |-> <<>>]
  ELSE [popped |-> ToSet(Head(list).blocks), list |-> Tail(list),
        bg |-> IF Tail(list) = <<>> THEN None ELSE bg]
=============================================================================
