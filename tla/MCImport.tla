------------------------------ MODULE MCImport ------------------------------
(* Two runs of the daily worker, a restart and a manual import of the club. *)
EXTENDS ExternalImport
=============================================================================
