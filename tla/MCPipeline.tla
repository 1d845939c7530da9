----------------------------- MODULE MCPipeline -----------------------------
(* The reward pipeline of one event on small sets of intents and workers. *)
EXTENDS RewardPipeline, TLC

\* Workers are interchangeable.
WorkerSymmetry == Permutations(Workers)
=============================================================================
