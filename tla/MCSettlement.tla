---------------------------- MODULE MCSettlement ----------------------------
(***************************************************************************)
(* A small instance of LeaderboardSettlement; Settlement.cfg gives the     *)
(* constants their values.                                                 *)
(***************************************************************************)
EXTENDS LeaderboardSettlement
=============================================================================
