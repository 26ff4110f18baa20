--------------------------- MODULE CircularBuffer ---------------------------
(* The index arithmetic of the class template CircularBuffer<Type, Size>    *)
(* (Buffer.h) as operators on the indices; the specifications that own a    *)
(* ring keep its cells and indices in their own variables.                  *)
EXTENDS Integers

(* Faulty variants, each the body of one mutant in PROJECT.json.             *)
AdvanceUnwrapped(i, size) == i + 1
AvailUncorrected(putIdx, getIdx, size) == putIdx - getIdx

\* (idx + 1) % Size, as Put and Get advance their index.
Advance(i, size) == (i + 1) % size

\* Avail(): the signed difference of the two unsigned indices, corrected once.
Avail(putIdx, getIdx, size) ==
    LET avail == putIdx - getIdx
    IN  IF avail < 0 THEN avail + size ELSE avail

\* Free(): one cell less than Size, so that full and empty differ.  No caller
\* of Put consults it.
Free(putIdx, getIdx, size) ==
    LET free == getIdx - putIdx - 1
    IN  IF free < 0 THEN free + size ELSE free
=============================================================================
