---------------------------- MODULE MCThreadPool ----------------------------
(* Small instances of ThreadPool. *)
EXTENDS ThreadPool
=============================================================================
