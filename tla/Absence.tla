------------------------------- MODULE Absence -------------------------------
(***************************************************************************)
(* An absent column, or an absent row.                                     *)
(***************************************************************************)
CONSTANT Nothing
=============================================================================
