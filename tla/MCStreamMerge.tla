--------------------------- MODULE MCStreamMerge ----------------------------
(* StreamMerge for TLC: one-byte chunks, numbered in any order, so that a  *)
(* session of three lines can be contiguous, skip, repeat or go back, and  *)
(* chunk 3 reaches the end of a window that chunk 1 or 2 opened.           *)
EXTENDS StreamMerge

MCChunks ==
  {c \in [seq : 1..3, offset : 0..(MaxLines - 1), length : {1}, ts : {0, 2}] :
     c.ts = IF c.seq = 3 THEN 2 ELSE 0}
=============================================================================
