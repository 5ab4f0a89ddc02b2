------------------------------ MODULE Chunking ------------------------------
(* knowledge/chunking.py: paragraphs packed greedily into chunks, the tail   *)
(* of a chunk carried into the next one, an oversized paragraph split at its *)
(* words.  A document is a sequence of paragraphs, a paragraph a sequence of *)
(* words, a word a record of its place and its length.  The character        *)
(* offsets the code records beside a chunk are left out.                     *)
EXTENDS Integers, Sequences, SequencesExt, FiniteSetsExt

CONSTANTS ChunkSize,      \* chunk_size
          ChunkOverlap    \* chunk_overlap

ASSUME ChunkingAssumption == ChunkSize \in Nat \ {0} /\ ChunkOverlap \in Nat

-----------------------------------------------------------------------------
(* Lengths: words are joined by one space, paragraphs by a blank line.       *)
Total(lengths) == FoldLeft(LAMBDA sum, x : sum + x, 0, lengths)

ParagraphLen(words) == Total([i \in DOMAIN words |-> words[i].len + 1]) - 1
ChunkLen(paragraphs) ==
  Total([i \in DOMAIN paragraphs |-> ParagraphLen(paragraphs[i]) + 2]) - 2

-----------------------------------------------------------------------------
(* flush: the buffer becomes a chunk and its trailing paragraphs, as many as *)
(* the overlap holds, stay in it, unless they are the whole buffer.          *)
Empty == [chunks |-> <<>>, buffer |-> <<>>, len |-> 0]

Carried(buffer) ==
  LET tail(n) == SubSeq(buffer, Len(buffer) - n + 1, Len(buffer))
      fitting == {n \in 0..Len(buffer) : ChunkLen(tail(n)) + 2 <= ChunkOverlap}
      most    == Max({0} \cup fitting)
  IN IF most = Len(buffer) THEN <<>> ELSE tail(most)

Flush(s) ==
  LET carried == Carried(s.buffer)
  IN IF s.buffer = <<>> THEN s
     ELSE [chunks |-> Append(s.chunks, s.buffer),
           buffer |-> carried,
           len    |-> IF carried = <<>> THEN 0 ELSE ChunkLen(carried)]

-----------------------------------------------------------------------------
(* _hard_split: an oversized paragraph in pieces of whole words.             *)
SplitWord(s, word) ==
  IF s.len + word.len + 1 > ChunkSize /\ s.piece # <<>>
    THEN [pieces |-> Append(s.pieces, s.piece),
          piece  |-> <<word>>,
          len    |-> word.len]
  ELSE [s EXCEPT !.piece = Append(@, word), !.len = @ + word.len + 1]

HardSplit(words) ==
  LET s == FoldLeft(SplitWord, [pieces |-> <<>>, piece |-> <<>>, len |-> 0], words)
  IN IF s.piece = <<>> THEN s.pieces ELSE Append(s.pieces, s.piece)

-----------------------------------------------------------------------------
(* chunk_text.                                                               *)
Buffered(s, paragraph) ==
  [s EXCEPT !.buffer = Append(@, paragraph), !.len = @ + ParagraphLen(paragraph) + 2]

Pack(s, paragraph) ==
  IF ParagraphLen(paragraph) > ChunkSize
    THEN LET pieces == HardSplit(paragraph)
         IN [Flush(s) EXCEPT !.chunks = @ \o [i \in DOMAIN pieces |-> <<pieces[i]>>]]
  ELSE IF s.len + ParagraphLen(paragraph) + 2 > ChunkSize
    THEN Buffered(Flush(s), paragraph)
  ELSE Buffered(s, paragraph)

\* Mutant: without the flush after the last paragraph.
Chunks_Unflushed(document) == FoldLeft(Pack, Empty, document).chunks
Chunks(document) == Flush(FoldLeft(Pack, Empty, document)).chunks
=============================================================================
