---------------------------- MODULE MCTcpServer ----------------------------
(* Small instances of TcpServer. *)
EXTENDS TcpServer, TLC

CONSTANTS c1, c2

ImAndFile ==
  {[sessionOwns |-> TRUE, limit |-> 3], [sessionOwns |-> FALSE, limit |-> 2]}

TwoAndNone == c1 :> 2 @@ c2 :> 0
=============================================================================
