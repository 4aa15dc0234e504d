----------------------------- MODULE MCClipFsm ------------------------------
(* ClipFsm for TLC: one-byte chunks that are on schedule or one byte late, *)
(* an empty chunk, and timestamps on both sides of the window boundary.    *)
EXTENDS ClipFsm

MCChunks ==
  {c \in [seq : 0..2, offset : 0..2, length : {0, 1}, ts : {-1, 0, 1}] :
     c.length = 0 => c.seq = 1}
=============================================================================
