----------------------------- MODULE BonusState -----------------------------
(***************************************************************************)
(* The rows that the bonus-delivery subsystem of LeetPlus shares, and the  *)
(* predicates over them that several of its handlers evaluate.             *)
(*                                                                         *)
(*   reward    GuestGameReward rows of a bonus type with a positive amount *)
(*   wallet    status of the reward's GuestGameRewardWalletItem (at most   *)
(*             one: unique (tenantId, rewardId)), or "NONE"                *)
(*   entry     the reward's GuestBonusLedgerEntry (at most one: unique     *)
(*             idempotencyKey), status "NONE" before it is created         *)
(*   tenant    the tenant's executionRevision and admission                *)
(*   worker    processes that run dispatch(): the systemd worker, the      *)
(*             in-process scheduler, a manual dispatch request             *)
(*   guest     guest-portal requests that claim a wallet item              *)
(*   wire      balance writes sent to Langame and not yet decided there    *)
(*   credited  balance writes that Langame has applied                     *)
(*   balance   how often each reward was credited to the guest's account   *)
(*   crashes   how many worker crashes have happened (bounded)             *)
(*                                                                         *)
(* Time is kept as ages.  entry[r].age counts clock ticks since the row's  *)
(* last transition, up to the only deadline its status has (Deadline).     *)
(* lockedAt is non-null exactly in PROCESSING and DISPATCHING and is       *)
(* written once per claim generation in each of them, so the pair          *)
(* (status, gen) stands for its value in every compare-and-set.            *)
(***************************************************************************)
EXTENDS Integers, FiniteSets

CONSTANTS
  Rewards,       \* rewards of one tenant
  Workers,       \* concurrent dispatch() runs
  Requests,      \* concurrent guest claim requests
  Actors,        \* which of OptionalActors take part
  Handled,       \* rewards that staff act on, when they take part
  LegacyPortal,  \* rewards whose entry is an old FAILED row of the portal domain
  MaxAttempts,   \* LANGAME_BONUS_ACCRUAL_MAX_ATTEMPTS
  BatchLimit,    \* entries one dispatch() claims
  StaleLock,     \* LANGAME_BONUS_ACCRUAL_STALE_LOCK_MINUTES, in ticks
  RetryWait,     \* LANGAME_BONUS_ACCRUAL_RETRY_MINUTES, in ticks
  Quarantine,    \* LANGAME_BONUS_RECONCILIATION_QUARANTINE_MINUTES, in ticks
  CallWindow,    \* longest time from the ownership check to the call's effect
  MaxClaims,     \* bound: a queued entry is claimed while its gen is below
  MaxRevision,   \* bound on tenant.executionRevision
  MaxCrashes     \* bound on worker crashes

OptionalActors == {"guest", "time", "tenant", "operator", "redeem", "update",
                   "restart", "retention", "portal"}

\* The quarantine outlasts a provider call (30 minutes against 30 seconds):
\* without that NOT_APPLIED could be decided while the write still drains.
ASSUME ConstantAssumption ==
  /\ MaxAttempts \in Nat \ {0} /\ BatchLimit \in Nat \ {0}
  /\ StaleLock \in Nat \ {0} /\ RetryWait \in Nat \ {0}
  /\ Quarantine \in Nat /\ CallWindow \in Nat /\ CallWindow < Quarantine
  /\ MaxClaims \in Nat \ {0} /\ MaxRevision \in Nat \ {0} /\ MaxCrashes \in Nat
  /\ LegacyPortal \subseteq Rewards /\ Actors \subseteq OptionalActors

VARIABLES reward, wallet, entry, tenant, worker, guest, wire, credited, balance,
          crashes

rows == <<reward, wallet, entry>>
provider == <<wire, credited, balance>>
vars == <<reward, wallet, entry, tenant, worker, guest, wire, credited, balance,
          crashes>>

-----------------------------------------------------------------------------
RewardStatus == {"PENDING", "APPROVED", "PAID", "CANCELED", "EXPIRED"}
WalletStatus == {"NONE", "PENDING", "PROCESSING", "FAILED", "CLAIMED"}
EntryStatus == {"NONE", "PENDING", "PROCESSING", "DISPATCHING", "CONFIRMED",
                "FAILED", "RECONCILIATION_REQUIRED", "CANCELED"}

\* The error codes a handler tells apart; every other code is "OTHER".
ErrorCode == {"null", "LANGAME_WRITE_FAILED", "MAX_ATTEMPTS_REACHED",
              "RECONCILIATION_NOT_APPLIED", "PORTAL_DOMAIN", "OTHER"}

\* lapsed: the row's own deadline has passed, expiresAt without a claim and
\* claimExpiresAt with one.  requested: deliveryRequestedAt is set, which is
\* only ever done before claimExpiresAt.  paid: paidAt is set.
Reward == [status : RewardStatus, claimRequired : BOOLEAN, requested : BOOLEAN,
           lapsed : BOOLEAN, paid : BOOLEAN]

\* next: nextAttemptAt is null, the moment of the transition, or retryMinutes
\* after it.
Entry == [status : EntryStatus, attempts : Nat, gen : Nat, rev : Nat,
          err : ErrorCode, next : {"null", "now", "retry"}, age : Nat]

NoEntry == [status |-> "NONE", attempts |-> 0, gen |-> 0, rev |-> 0,
            err |-> "null", next |-> "null", age |-> 0]

\* What RETURNING hands to the worker that claimed an entry.
Token == [id : Rewards, attempts : Nat \ {0}, gen : Nat, rev : Nat]
NoJob == [none |-> TRUE]

\* A write on its way to Langame, and one that Langame has applied.
Call == [id : Rewards, gen : Nat, age : Nat]
Credit == [id : Rewards, gen : Nat]

-----------------------------------------------------------------------------
\* The deadline that a row's age is measured against in each status.
Deadline(status) ==
  CASE status \in {"PROCESSING", "DISPATCHING"} -> StaleLock
    [] status = "FAILED" -> RetryWait
    [] status = "RECONCILIATION_REQUIRED" -> Quarantine
    [] OTHER -> 0

LockStale(e) == e.age >= StaleLock
QuarantineElapsed(e) == e.age >= Quarantine
RetryDue(e) == e.next = "retry" => e.age >= RetryWait

\* bonusLedgerRewardDeliveryGate: the reward may be delivered by the ledger.
DeliveryGate(r) ==
  \/ ~reward[r].claimRequired /\ ~reward[r].lapsed
  \/ /\ reward[r].claimRequired /\ reward[r].requested
     /\ wallet[r] \in {"PROCESSING", "FAILED"}

\* The stricter test of the transactions around the provider call.
AwaitsDelivery(r) ==
  /\ reward[r].status = "APPROVED"
  /\ IF reward[r].claimRequired
       THEN reward[r].requested /\ wallet[r] = "PROCESSING"
       ELSE ~reward[r].lapsed

\* assertRewardHasNoAcceptedWalletDelivery fails on these rewards.
AcceptedDelivery(r) ==
  /\ reward[r].claimRequired /\ reward[r].requested
  /\ wallet[r] \in {"PROCESSING", "FAILED"}

\* queueApprovedRewards selects these rewards if they have no entry yet.
Deliverable(r) == reward[r].status = "APPROVED" /\ DeliveryGate(r)
Queueable(r) == Deliverable(r) /\ entry[r].status = "NONE"

NewEntry == [NoEntry EXCEPT !.status = "PENDING"]

SetEntry(r, e) == entry' = [entry EXCEPT ![r] = e]
SetWallet(r, s) == wallet' = [wallet EXCEPT ![r] = s]
SetRewardStatus(r, s) == reward' = [reward EXCEPT ![r].status = s]
=============================================================================
