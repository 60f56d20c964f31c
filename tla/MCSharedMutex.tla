--------------------------- MODULE MCSharedMutex ---------------------------
(* Three threads and three sections, of any kind.                            *)
EXTENDS SharedMutex
=============================================================================
