--------------------------- MODULE MCMySqlSchema ---------------------------
(* MySqlSchema has no sets to be made small: this module only names it. *)
EXTENDS MySqlSchema
=============================================================================
