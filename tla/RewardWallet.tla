---------------------------- MODULE RewardWallet ----------------------------
(***************************************************************************)
(* What happens to a reward and its wallet item outside the ledger worker: *)
(* the guest's claim request (guest portal), the wallet's upkeep when a    *)
(* guest opens it, retention, and what club staff may do to a reward.      *)
(* Requests are processes of several awaited steps; every transaction and  *)
(* every single statement is one step.                                     *)
(***************************************************************************)
EXTENDS BonusState

GuestPc == {"idle", "materialize", "sync", "write", "check", "drop", "backfill"}
WritePlan == {"none", "CLAIMED", "FAILED"}
IdleRequest == [pc |-> "idle", id |-> NoJob, plan |-> "none", failed |-> FALSE]

SetRequest(g, x) == guest' = [guest EXCEPT ![g] = x]

-----------------------------------------------------------------------------
(* claimRewardWalletItemForProfile.                                        *)

\* prepareRewardWalletDeliveryClaim accepts the ledger entry as it stands.
ClaimPrepared(r) ==
  \/ entry[r].status \in {"NONE", "PENDING"}
  \/ /\ entry[r].status = "FAILED"
     /\ entry[r].err \in {"LANGAME_WRITE_FAILED", "RECONCILIATION_NOT_APPLIED"}

\* A first claim comes before the deadline; a retry needs an accepted claim.
ClaimAllowed(r) ==
  /\ reward[r].status = "APPROVED" /\ reward[r].claimRequired
  /\ \/ wallet[r] = "PENDING" /\ ~reward[r].requested /\ ~reward[r].lapsed
     \/ wallet[r] = "FAILED" /\ reward[r].requested
  /\ ClaimPrepared(r)

\* acceptRewardWalletClaim (Serializable, retried on conflicts).  An item that is
\* already PROCESSING is materialized again without a change.
AcceptClaim(g, r) ==
  /\ guest[g].pc = "idle"
  /\ \/ wallet[r] = "PROCESSING" /\ UNCHANGED rows
     \/ /\ ClaimAllowed(r)
        /\ reward' = [reward EXCEPT ![r].requested = TRUE]
        /\ SetWallet(r, "PROCESSING")
        /\ IF entry[r].status = "FAILED"
             THEN SetEntry(r, [entry[r] EXCEPT !.status = "PENDING", !.next = "now",
                                               !.age = 0])
             ELSE UNCHANGED entry
  /\ SetRequest(g, [guest[g] EXCEPT !.pc = "materialize", !.id = r])
  /\ UNCHANGED <<tenant, worker, provider, crashes>>

\* materializeRewardEffects: queueApprovedRewards for this reward.  It may find
\* the reward not ready, and it may throw before or after the row is created.
Materialize(g) ==
  LET r == guest[g].id IN
  /\ guest[g].pc = "materialize"
  /\ \/ UNCHANGED entry
     \/ Queueable(r) /\ SetEntry(r, NewEntry)
  /\ \E failed \in BOOLEAN :
       SetRequest(g, [guest[g] EXCEPT !.pc = "sync", !.failed = failed])
  /\ UNCHANGED <<reward, wallet, tenant, worker, provider, crashes>>

\* What synchronizeRewardWalletDeliveryState decides to write.  Without a ledger
\* entry that depends on the reward's effects, which are not modelled.
SyncPlans(r) ==
  IF wallet[r] # "PROCESSING" THEN {"none"}
  ELSE IF reward[r].status = "PAID" \/ entry[r].status = "CONFIRMED" THEN {"CLAIMED"}
  ELSE IF entry[r].status \in {"FAILED", "CANCELED"} THEN {"FAILED"}
  ELSE IF entry[r].status # "NONE" THEN {"none"}
  ELSE IF reward[r].status # "APPROVED" THEN {"FAILED"}
  ELSE {"none", "FAILED"}

SynchronizeRead(g) ==
  /\ guest[g].pc = "sync"
  /\ \E p \in SyncPlans(guest[g].id) :
       SetRequest(g, [guest[g] EXCEPT !.pc = "write", !.plan = p])
  /\ UNCHANGED <<rows, tenant, worker, provider, crashes>>

\* The write is not conditional at all.
BugBlindWrite(g) ==
  LET r == guest[g].id IN
  /\ guest[g].pc = "write"
  /\ IF guest[g].plan # "none" THEN SetWallet(r, guest[g].plan) ELSE UNCHANGED wallet
  /\ SetRequest(g, IF guest[g].failed
                      THEN [guest[g] EXCEPT !.pc = "check", !.plan = "none"]
                      ELSE IdleRequest)
  /\ UNCHANGED <<reward, entry, tenant, worker, provider, crashes>>

\* The write is conditional on the wallet item only.
SynchronizeWrite(g) ==
  LET r == guest[g].id IN
  /\ guest[g].pc = "write"
  /\ IF guest[g].plan # "none" /\ wallet[r] = "PROCESSING"
       THEN SetWallet(r, guest[g].plan) ELSE UNCHANGED wallet
  /\ SetRequest(g, IF guest[g].failed
                      THEN [guest[g] EXCEPT !.pc = "check", !.plan = "none"]
                      ELSE IdleRequest)
  /\ UNCHANGED <<reward, entry, tenant, worker, provider, crashes>>

\* After a failed materialization the ledger is read for an uncertain write ...
CheckUncertain(g) ==
  /\ guest[g].pc = "check"
  /\ SetRequest(g, IF entry[guest[g].id].status \in {"DISPATCHING", "RECONCILIATION_REQUIRED"}
                      THEN IdleRequest ELSE [guest[g] EXCEPT !.pc = "drop"])
  /\ UNCHANGED <<rows, tenant, worker, provider, crashes>>

\* ... and, if there was none, the wallet item is given back as FAILED.
DropClaim(g) ==
  LET r == guest[g].id IN
  /\ guest[g].pc = "drop"
  /\ IF wallet[r] = "PROCESSING" THEN SetWallet(r, "FAILED") ELSE UNCHANGED wallet
  /\ SetRequest(g, IdleRequest)
  /\ UNCHANGED <<reward, entry, tenant, worker, provider, crashes>>

\* The API process goes away in the middle of a request.
AbortRequest(g) ==
  /\ guest[g].pc # "idle"
  /\ SetRequest(g, IdleRequest)
  /\ UNCHANGED <<rows, tenant, worker, provider, crashes>>

GuestStep(g) ==
  /\ "guest" \in Actors
  /\ \/ \E r \in Rewards : AcceptClaim(g, r)
     \/ Materialize(g) \/ SynchronizeRead(g) \/ SynchronizeWrite(g)
     \/ CheckUncertain(g) \/ DropClaim(g) \/ AbortRequest(g)

-----------------------------------------------------------------------------
(* getRewardWallet: upkeep each time a guest opens the wallet.             *)

Settled(r) ==
  reward[r].status = "PAID" \/ reward[r].paid \/ entry[r].status = "CONFIRMED"

\* reconcileCompletedRewardWalletItems: a confirmed entry makes the reward PAID,
\* a settled reward closes its wallet item or, within the retention period, gets a
\* closed one for its history.
ReconcileWallet(r) ==
  /\ Settled(r)
  /\ reward' = IF entry[r].status = "CONFIRMED"
                 THEN [reward EXCEPT ![r].status = "PAID", ![r].paid = TRUE] ELSE reward
  /\ SetWallet(r, "CLAIMED") \/ (wallet[r] = "NONE" /\ UNCHANGED wallet)
  /\ UNCHANGED <<entry, tenant, worker, guest, provider, crashes>>

\* The ledger entry is not looked at.
BugUpgradeInFlight(r) ==
  /\ reward[r].status = "APPROVED" /\ ~reward[r].claimRequired
  /\ ~reward[r].requested /\ ~reward[r].paid
  /\ reward' = [reward EXCEPT ![r].claimRequired = TRUE, ![r].lapsed = FALSE]
  /\ UNCHANGED <<wallet, entry, tenant, worker, guest, provider, crashes>>

\* upgradeHistoricalRewardWalletClaims: an approved reward that predates the
\* wallet starts to need a claim, unless its entry may already be in delivery.
UpgradeHistoricalClaim(r) ==
  /\ reward[r].status = "APPROVED" /\ ~reward[r].claimRequired
  /\ ~reward[r].requested /\ ~reward[r].paid
  /\ entry[r].status \in {"NONE", "PENDING", "FAILED"}
  /\ reward' = [reward EXCEPT ![r].claimRequired = TRUE, ![r].lapsed = FALSE]
  /\ UNCHANGED <<wallet, entry, tenant, worker, guest, provider, crashes>>

PortalStep(r) ==
  "portal" \in Actors /\ (ReconcileWallet(r) \/ UpgradeHistoricalClaim(r))

\* The findMany for approved rewards that have no wallet item ...
FindMissing(g, r) ==
  /\ guest[g].pc = "idle"
  /\ reward[r].status = "APPROVED" /\ reward[r].claimRequired
  /\ ~reward[r].requested /\ ~reward[r].paid /\ ~reward[r].lapsed
  /\ wallet[r] = "NONE" /\ entry[r].status # "CONFIRMED"
  /\ SetRequest(g, [guest[g] EXCEPT !.pc = "backfill", !.id = r])
  /\ UNCHANGED <<rows, tenant, worker, provider, crashes>>

\* ... and the createMany with skipDuplicates, whatever has happened since.
BackfillWallet(g) ==
  LET r == guest[g].id IN
  /\ guest[g].pc = "backfill"
  /\ IF wallet[r] = "NONE" THEN SetWallet(r, "PENDING") ELSE UNCHANGED wallet
  /\ SetRequest(g, IdleRequest)
  /\ UNCHANGED <<reward, entry, tenant, worker, provider, crashes>>

BackfillStep(g) ==
  "portal" \in Actors /\ ((\E r \in Rewards : FindMissing(g, r)) \/ BackfillWallet(g))

-----------------------------------------------------------------------------
(* Retention, run by the portal and by GuestGameDataRetentionService.      *)

ClaimExpired(r) ==
  /\ reward[r].status = "APPROVED" /\ reward[r].claimRequired
  /\ ~reward[r].requested /\ reward[r].lapsed

\* An unclaimed item past its deadline takes its reward with it; an item of a
\* finished reward is only removed.
ExpireWalletItem(r) ==
  /\ reward[r].lapsed
  /\ \/ wallet[r] = "CLAIMED" /\ UNCHANGED reward
     \/ wallet[r] = "PENDING" /\ ClaimExpired(r) /\ SetRewardStatus(r, "EXPIRED")
     \/ /\ wallet[r] = "PENDING" /\ reward[r].status \in {"PAID", "CANCELED", "EXPIRED"}
        /\ UNCHANGED reward
  /\ SetWallet(r, "NONE")
  /\ UNCHANGED <<entry, tenant, worker, guest, provider, crashes>>

\* expireOrphanRewardClaimBatches: an expired claim that never got a wallet item.
ExpireOrphanClaim(r) ==
  /\ ClaimExpired(r) /\ wallet[r] = "NONE"
  /\ entry[r].status \in {"NONE", "PENDING", "FAILED"}
  /\ SetRewardStatus(r, "EXPIRED")
  /\ IF entry[r].status = "NONE" THEN UNCHANGED entry
       ELSE SetEntry(r, [entry[r] EXCEPT !.status = "CANCELED", !.next = "null",
                                         !.err = "OTHER", !.age = 0])
  /\ UNCHANGED <<wallet, tenant, worker, guest, provider, crashes>>

RetentionStep(r) ==
  "retention" \in Actors /\ (ExpireWalletItem(r) \/ ExpireOrphanClaim(r))

-----------------------------------------------------------------------------
(* Club staff and administrators.                                          *)

\* redeemReward: paid out at the desk by its code, or found to be expired.
RedeemReward(r) ==
  /\ "redeem" \in Actors
  /\ reward[r].status = "APPROVED" /\ ~AcceptedDelivery(r)
  /\ \/ /\ reward[r].claimRequired => wallet[r] = "CLAIMED"
        /\ reward[r].claimRequired \/ ~reward[r].lapsed
        /\ reward' = [reward EXCEPT ![r].status = "PAID", ![r].paid = TRUE]
     \/ /\ ~reward[r].claimRequired /\ reward[r].lapsed
        /\ SetRewardStatus(r, "EXPIRED")
  /\ UNCHANGED <<wallet, entry, tenant, worker, guest, provider, crashes>>

UpdatedReward(r, s, l) ==
  [reward[r] EXCEPT !.status = s, !.lapsed = l,
                    !.paid = @ \/ (s = "PAID" /\ reward[r].status # "PAID")]

\* updateReward: any status, and a new expiresAt for a reward without a claim.
\* An approved reward that needs a claim gets its wallet item, and the effects of
\* the updated reward are materialized, which may queue its delivery.
UpdateReward(r) ==
  /\ "update" \in Actors /\ ~AcceptedDelivery(r)
  /\ \E s \in RewardStatus, l \in BOOLEAN :
       /\ reward[r].claimRequired => l = reward[r].lapsed
       /\ reward' = [reward EXCEPT ![r] = UpdatedReward(r, s, l)]
       /\ IF s = "APPROVED" /\ reward[r].claimRequired /\ wallet[r] = "NONE"
            THEN SetWallet(r, "PENDING") ELSE UNCHANGED wallet
       /\ \/ UNCHANGED entry
          \/ entry[r].status = "NONE" /\ Deliverable(r)' /\ SetEntry(r, NewEntry)
  /\ UNCHANGED <<tenant, worker, guest, provider, crashes>>

\* restartLootBox: every open reward of the loot box is canceled.
RestartLootBox(r) ==
  /\ "restart" \in Actors
  /\ reward[r].status \in {"PENDING", "APPROVED", "EXPIRED"}
  /\ SetRewardStatus(r, "CANCELED")
  /\ UNCHANGED <<wallet, entry, tenant, worker, guest, provider, crashes>>

StaffStep(r) ==
  r \in Handled /\ (RedeemReward(r) \/ UpdateReward(r) \/ RestartLootBox(r))
=============================================================================
