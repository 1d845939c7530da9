------------------------------- MODULE MCCase -------------------------------
(***************************************************************************)
(* A small instance of CaseOpening; CaseOpen.cfg gives the constants their *)
(* values.                                                                 *)
(***************************************************************************)
EXTENDS CaseOpening
=============================================================================
