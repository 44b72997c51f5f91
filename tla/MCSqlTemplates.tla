--------------------------- MODULE MCSqlTemplates ---------------------------
(***************************************************************************)
(* The User type of examples/schema.graphql, with a second field on the    *)
(* full_name column.                                                       *)
(***************************************************************************)
EXTENDS SqlTemplates

CONSTANTS id, name, nick, id_col, full_name

MCColumnOf == [f \in {id, name, nick} |-> IF f = id THEN id_col ELSE full_name]
=============================================================================
