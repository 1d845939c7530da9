-------------------------- MODULE BonusRefinement ---------------------------
(***************************************************************************)
(* Bonus delivery implements PayOnce: the workers' protocol on the ledger  *)
(* rows, with its claims, leases, retries and manual decisions, is a way   *)
(* to credit each reward at most once and to know whether it was.          *)
(***************************************************************************)
EXTENDS BonusSafety

Phase(r) ==
  CASE entry[r].status \in Uncertain -> "open"
    [] entry[r].status = "CONFIRMED" -> "paid"
    [] entry[r].status = "CANCELED" -> "void"
    [] OTHER -> "owed"

Abs == INSTANCE PayOnce WITH phase <- [r \in Rewards |-> Phase(r)], credit <- balance

\* Every step of a worker, an operator, a guest request or the provider is a step
\* of PayOnce or leaves its state alone: a reward returns to the queue or is closed
\* only when it was not credited, and is paid only when it was.
PaysOnce == Abs!AbsSpec
=============================================================================
