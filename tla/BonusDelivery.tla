---------------------------- MODULE BonusDelivery ---------------------------
(***************************************************************************)
(* The bonus-delivery subsystem: ledger workers, operator, guest requests, *)
(* wallet upkeep, retention and staff on the shared rows, with the clock,  *)
(* the tenant's admission and the Langame API as their environment.        *)
(***************************************************************************)
EXTENDS LedgerDispatch, RewardWallet

(* The Langame API (external): it applies a write it was sent, or never    *)
(* does; the answer and the write are lost independently.                  *)

Apply(c) ==
  /\ wire' = wire \ {c}
  /\ credited' = credited \cup {[id |-> c.id, gen |-> c.gen]}
  /\ balance' = [balance EXCEPT ![c.id] = @ + 1]
  /\ UNCHANGED <<rows, tenant, worker, guest, crashes>>

Reject(c) ==
  /\ wire' = wire \ {c}
  /\ UNCHANGED <<rows, tenant, worker, guest, credited, balance, crashes>>

ProviderStep == \E c \in wire : Apply(c) \/ Reject(c)

-----------------------------------------------------------------------------
(* The clock.  A call that passed its ownership check is decided within    *)
(* CallWindow: the tick that would exceed it waits for the decision.       *)

TickAllowed ==
  /\ \A c \in wire : c.age < CallWindow
  /\ \A w \in Workers : worker[w].pc = "send" => worker[w].age < CallWindow

Older(e) == [e EXCEPT !.age = IF @ < Deadline(e.status) THEN @ + 1 ELSE @]

Tick ==
  /\ TickAllowed
  /\ entry' = [r \in Rewards |-> Older(entry[r])]
  /\ worker' = [w \in Workers |->
       IF worker[w].pc = "send" THEN [worker[w] EXCEPT !.age = @ + 1] ELSE worker[w]]
  /\ wire' = {[c EXCEPT !.age = @ + 1] : c \in wire}
  /\ UNCHANGED <<reward, wallet, tenant, guest, credited, balance, crashes>>

\* The reward's own deadline passes.
Lapse(r) ==
  /\ "time" \in Actors /\ ~reward[r].lapsed
  /\ reward' = [reward EXCEPT ![r].lapsed = TRUE]
  /\ UNCHANGED <<wallet, entry, tenant, worker, guest, provider, crashes>>

-----------------------------------------------------------------------------
(* The tenant.  A change of lifecycle, subscription or overrides increments *)
(* executionRevision in the database; a subscription that simply ends does  *)
(* not.                                                                     *)

BumpRevision ==
  /\ "tenant" \in Actors /\ tenant.rev < MaxRevision
  /\ \E a \in BOOLEAN : tenant' = [rev |-> tenant.rev + 1, admitted |-> a]
  /\ UNCHANGED <<rows, worker, guest, provider, crashes>>

ExpireAdmission ==
  /\ "tenant" \in Actors /\ tenant.admitted
  /\ tenant' = [tenant EXCEPT !.admitted = FALSE]
  /\ UNCHANGED <<rows, worker, guest, provider, crashes>>

-----------------------------------------------------------------------------
\* An entry written before the portal had its own domain configured.
LegacyEntry == [NoEntry EXCEPT !.status = "FAILED", !.attempts = MaxAttempts,
                               !.err = "PORTAL_DOMAIN"]

InitialRewards ==
  {q \in Reward : /\ q.status = "APPROVED"
                  /\ ~q.requested /\ ~q.lapsed /\ ~q.paid}

Init ==
  /\ reward \in [Rewards -> InitialRewards]
  /\ wallet \in [Rewards -> {"NONE", "PENDING"}]
  /\ \A r \in Rewards : ~reward[r].claimRequired => wallet[r] = "NONE"
  /\ \A r \in LegacyPortal : ~reward[r].claimRequired
  /\ entry = [r \in Rewards |-> IF r \in LegacyPortal THEN LegacyEntry ELSE NoEntry]
  /\ tenant = [rev |-> 1, admitted |-> TRUE]
  /\ worker = [w \in Workers |-> IdleWorker]
  /\ guest = [g \in Requests |-> IdleRequest]
  /\ wire = {} /\ credited = {} /\ balance = [r \in Rewards |-> 0] /\ crashes = 0

Next ==
  \/ \E w \in Workers : WorkerStep(w) \/ Crash(w)
  \/ \E g \in Requests : GuestStep(g) \/ BackfillStep(g)
  \/ \E r \in Rewards : OperatorStep(r) \/ PortalStep(r) \/ RetentionStep(r)
                        \/ StaffStep(r) \/ Lapse(r)
  \/ ProviderStep \/ Tick \/ BumpRevision \/ ExpireAdmission

Spec == Init /\ [][Next]_vars

\* Workers run on a timer and every awaited call of theirs returns or fails;
\* the clock advances.  Nobody else owes anything.
Fairness ==
  /\ \A w \in Workers : WF_vars(WorkerStep(w))
  /\ WF_vars(Tick) /\ WF_vars(ProviderStep)

FairSpec == Spec /\ Fairness

=============================================================================
