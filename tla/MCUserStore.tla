---------------------------- MODULE MCUserStore ----------------------------
(* Small instances of UserStore. *)
EXTENDS UserStore, TLC

\* The ids of the second second sort before those of the first: "2024111..."
\* is both January 11th and November 1st, and "202499..." sorts after
\* "20241010...".
LaterIsSmaller == 0 :> 0 @@ 1 :> 2 @@ 2 :> 1

TwoMixes == {{"register", "upload"}, {"history", "collect"}}
=============================================================================
