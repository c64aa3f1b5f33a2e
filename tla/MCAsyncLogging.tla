--------------------------- MODULE MCAsyncLogging ---------------------------
(* Small instances of AsyncLogging. *)
EXTENDS AsyncLogging
=============================================================================
