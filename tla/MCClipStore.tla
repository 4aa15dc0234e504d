---------------------------- MODULE MCClipStore -----------------------------
(* ClipStore for TLC. *)
EXTENDS ClipStore
=============================================================================
