--------------------------- MODULE MCLoopThreads ---------------------------
(* Small instances of LoopThreads. *)
EXTENDS LoopThreads
=============================================================================
