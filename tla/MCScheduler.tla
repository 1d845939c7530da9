---------------------------- MODULE MCScheduler -----------------------------
(* The scheduler with three guests whose claims race its timer and its runs. *)
EXTENDS LedgerScheduler
=============================================================================
