------------------------------ MODULE PayOnce -------------------------------
(***************************************************************************)
(* What an irrevocable call promises, without workers, claims, clocks or   *)
(* tenants.  For bonus delivery the call credits a reward on an external   *)
(* balance, for the owner's invite it hands a mail to SMTP.  Each is       *)
(* credited at most once, only while the row says that the outcome is      *)
(* open; the row says "paid" only of what was credited, and is given back  *)
(* to the queue or closed only if it was not.                              *)
(***************************************************************************)
CONSTANT Rewards
VARIABLES phase, credit

PhaseSet == {"owed", "open", "paid", "void"}

AbsInit ==
  /\ phase = [r \in Rewards |-> "owed"]
  /\ credit = [r \in Rewards |-> 0]

\* Several rewards may move in one step (a sweep); each moves by itself.
Move(r) ==
  \/ phase'[r] = phase[r]
  \/ phase[r] = "owed" /\ phase'[r] \in {"open", "void"}
  \/ phase[r] = "open" /\ phase'[r] \in {"owed", "void"} /\ credit[r] = 0
  \/ phase[r] = "open" /\ phase'[r] = "paid" /\ credit[r] = 1

Settle ==
  /\ phase' \in [Rewards -> PhaseSet]
  /\ \A r \in Rewards : Move(r)
  /\ UNCHANGED credit

Pay(r) ==
  /\ phase[r] = "open" /\ credit[r] = 0
  /\ credit' = [credit EXCEPT ![r] = 1]
  /\ UNCHANGED phase

AbsNext == Settle \/ \E r \in Rewards : Pay(r)

AbsSpec == AbsInit /\ [][AbsNext]_<<phase, credit>>
=============================================================================
