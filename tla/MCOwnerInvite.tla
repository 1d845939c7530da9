---------------------------- MODULE MCOwnerInvite ----------------------------
(***************************************************************************)
(* A small instance of OwnerInviteMail; OwnerMail.cfg gives the constants  *)
(* their values.                                                           *)
(***************************************************************************)
EXTENDS OwnerInviteMail
=============================================================================
