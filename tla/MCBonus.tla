------------------------------ MODULE MCBonus -------------------------------
(***************************************************************************)
(* Bonus delivery on small instances.  The cfg files give the constants    *)
(* their values; Actors says who takes part besides the workers.           *)
(***************************************************************************)
EXTENDS BonusRefinement, TLC

\* Workers run the same code, and so do requests.  Used by the runs without liveness.
ProcessSymmetry == Permutations(Workers) \cup Permutations(Requests)
=============================================================================
