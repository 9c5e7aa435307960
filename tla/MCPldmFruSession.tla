-------------------------- MODULE MCPldmFruSession --------------------------
(***************************************************************************)
(* Two controllers and the table of a card with four ports, whose serial    *)
(* number may print as nothing or as far as the field goes.                *)
(***************************************************************************)
EXTENDS PldmFruSession

MCVpdLens == {0, 20}
=============================================================================
