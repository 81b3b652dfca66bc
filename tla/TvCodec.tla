------------------------------- MODULE TvCodec -------------------------------
(***************************************************************************)
(* The tag/value codec of the configuration protocol (config.c).          *)
(*                                                                         *)
(* tv_table_decode walks a flat (tag, value)* byte stream and stores each  *)
(* value whose tag indexes the TV_TABLE_SIZE-byte settings table; a tag    *)
(* out of range is skipped and a trailing odd byte is ignored.  The walk  *)
(* is a RECURSIVE operator over the C loop index; DecodeRef says what the  *)
(* result should be without the loop: each tag takes the value of its     *)
(* last complete pair, and 0 (the zeroed tvtable_t) when it has none.     *)
(***************************************************************************)
EXTENDS Integers, Sequences, FiniteSetsExt

TV_TABLE_SIZE == 24

Tags == 0 .. TV_TABLE_SIZE - 1

\* tvtable_t config = {{0}};
ZeroTable == [t \in Tags |-> 0]

-----------------------------------------------------------------------------
(* Mutants.                                                                *)
DecodeStep_single(idx) == idx + 1
-----------------------------------------------------------------------------

\* tag = buffer[idx++]; ... ++idx;   one pair consumed per iteration
DecodeStep(idx) == idx + 2

\* if (tag < TV_TABLE_SIZE) table->bytes[tag] = buffer[idx];
StoreTag(table, tag, value) ==
  IF tag < TV_TABLE_SIZE THEN [table EXCEPT ![tag] = value] ELSE table

\* while (idx < size - 1) ... with idx the 0-based C index, so buffer[idx]
\* of the C code is buffer[idx + 1] here.
RECURSIVE DecodeFrom(_, _, _)
DecodeFrom(table, buffer, idx) ==
  IF idx < Len(buffer) - 1
  THEN DecodeFrom(StoreTag(table, buffer[idx + 1], buffer[idx + 2]),
                  buffer, DecodeStep(idx))
  ELSE table

tv_table_decode(table, buffer) == DecodeFrom(table, buffer, 0)

\* The reference: pairs start at the odd positions that have a successor.
PairStarts(buffer) == {p \in 1 .. Len(buffer) - 1 : p % 2 = 1}

DecodeRef(buffer) ==
  [t \in Tags |->
     LET ps == {p \in PairStarts(buffer) : buffer[p] = t}
     IN  IF ps = {} THEN 0 ELSE buffer[Max(ps) + 1]]
=============================================================================
