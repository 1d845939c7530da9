# LeetPlus: a TLA+ development

LeetPlus is a back office for computer clubs. Its API grants guests rewards, pays
bonuses by changing balances in Langame (an external system), hands out loot boxes,
settles a monthly leaderboard, imports sessions from Langame and mails invites to new
owners. These parts share one shape: rows in PostgreSQL, workers that lease them, crash
and overlap, and requests of guests and staff that change the same rows in between.
Some end in a call that cannot be undone: a balance write, a mail.

This directory models those subsystems, checks them with TLC and proves their central
guarantees with TLAPS. There are six models:

1. *Bonus delivery*: the ledger that pays bonuses through Langame, the wallet and the
   claims around it, and the scheduler that drives it;
2. *Reward pipeline*: from a qualified event to rewards and their effects;
3. *Case opening*: how a guest opens a loot box;
4. *Leaderboard settlement*: how a month is frozen and its prizes are issued;
5. *Owner invite*: the mail worker and the life of the first owner's invite;
6. *External import*: the lock and the run lease of the Langame import.

## 1. Inventory

All paths are under `src/apps/api/src/` unless noted.

| Part | State | Operations | Interacts with |
|---|---|---|---|
| Bonus ledger service, `guest-gamification/guest-bonus-ledger.service.ts` | `GuestBonusLedgerEntry` rows: status, attempts, claimGeneration, executionRevision, lockedAt, nextAttemptAt, errorCode | queue, promote stale, claim, deliver, confirm, fail, reconcile, cancel | reward and wallet rows, tenant admission, Langame |
| Ledger scheduler, `guest-bonus-ledger-scheduler.service.ts` | enabled, timer, isRunning, runAfterCurrent | init, destroy, requestRun, runOnce | guest claims wake it, it calls the ledger service |
| Ledger worker CLI, `guest-bonus-ledger-worker*.ts` | none | one dispatch per systemd tick | ledger service |
| Reward wallet, `guest-portal/guest-portal.service.ts` | `GuestGameRewardWalletItem` rows, reward claim fields | claim, materialize, synchronize, reconcile, upgrade, backfill, expire | ledger rows, scheduler |
| Loot-box opening, same file | entitlement, wallet item, event, intent, reward | open, reserve, roll, bind, recover | pipeline, retention |
| Reward administration, `guest-gamification.service.ts` | `GuestGameReward` rows | update, redeem, restart loot box | wallet, ledger, pipeline |
| Reward materializer, same file | `GuestGameRewardIntent`, `GuestGameRewardEffect` rows with leases | list, claim, make, apply, finish, fail, sweep, suspend, remediate | rewards, entitlements, ledger, imports |
| Retention, `guest-game-data-retention.service.ts` | the same rows | delete expired items, expire orphan claims, recover openings | wallet, ledger |
| Leaderboard settlement, `guest-leaderboard/guest-leaderboard-settlement.service.ts` and the admin service | `GuestLeaderboardPeriodResult` rows | freeze, issue, mark, audit, retry, confirm hand-over | rewards, entitlements |
| Identity mail worker, `identity-mail-worker/` and the SQL functions of its migrations | `IdentityMailOutbox` rows | reap, claim, mark, send, complete, reconcile | SMTP, invites |
| Owner invite lifecycle, `admin/founder-owner-invite-lifecycle.service.ts` | `UserInvite` and outbox rows | revoke, publish as a link, reissue | mail worker, registration |
| Langame import lock and run lease, `integrations/langame-external-*.ts` | advisory lock of a session, audit events of a day | lock, verify, acquire, complete, release | daily and manual imports |
| Tenant admission, `tenancy/tenant-execution-*.ts` and migration `20260728150000` | tenant lifecycle, executionRevision | acquirePermit, evaluatePermit, revision trigger | every worker |
| Delivery outbox, employee mail, report digests, initial sync, session coordinators | their own rows | claim, run, finalize | not modelled, see section 7 |
| Staff, support, marketing, reports, CSV imports, web, deployment | tables | CRUD, queries | not modelled |

What is hard here, and what makes each part correct:

- *Ledger.* A worker sleeps between its ownership check and the HTTP call, or
  after it; leases expire; attempts are reset by the operator; the tenant's
  revision changes. Correct when no reward is credited twice, a confirmation is
  true, and an entry whose write may still take effect is in no queue.
- *Wallet.* Requests read, wait, and write later. Correct when an accepted claim
  is not withdrawn, nothing is delivered without a claim, and reward, wallet item
  and ledger entry agree in the end.
- *Scheduler.* One event loop, a flag for a pending follow-up. Correct when no
  wake-up is lost and shutdown ends it.
- *Pipeline.* Four kinds of callers start overlapping runs, and a run nests another:
  leases expire under a run, an import finds the event misclassified after the run's
  preflight, staff cancel what is being granted. Correct when nothing is granted twice
  or after the remediation, a finished row has its result, and a lease is respected.
- *Case opening.* A request stalls longer than its reservation holds, and a recovery
  decides for it on what it read a moment ago. Correct when there is one roll, the
  entitlement and the item agree, and a settled case stays settled.
- *Settlement.* A pass throws or dies between the transaction that makes a prize and
  the mark that records it. Correct when a winner gets one prize, a row shown as
  issued has one, and a frozen month stays frozen.
- *Owner invite.* SMTP cannot be asked what it did. Correct when a mail is handed over
  at most once and never after the invite was stopped, and a mailbox counts as verified
  only when it was mailed.
- *Import.* The lock lives in a database session that may be lost without the process
  noticing. Correct when a day is imported by one run and a lost lock is noticed before
  the next batch.
- *Recovery, everywhere.* Correct when what was abandoned is taken up, given back or
  parked for an operator.

`PROJECT.json` lists the components with their status, and the hazards line by line.

## 2. Modules

| Module | Content |
|---|---|
| `BonusState` | shared rows, constants, predicates several handlers evaluate |
| `LedgerDispatch` | `GuestBonusLedgerService`: `dispatch()` as a process, operator endpoints |
| `RewardWallet` | guest claim requests, wallet upkeep, retention, staff |
| `BonusDelivery` | composition with Langame, clock and tenant; `Spec`, `FairSpec` |
| `BonusSafety` | properties, inductive invariant `PayInv` |
| `PayOnce` | abstract specification of an irrevocable call: owed, open, paid, void, and one credit |
| `BonusRefinement` | refinement mapping, property `PaysOnce` |
| `LedgerScheduler` | the in-process scheduler with its properties |
| `RewardPipeline` | intents, rewards and effects of one event; materializer, remediation, staff, guest |
| `CaseOpening` | the opening of one loot box, its recoveries and the materializer beside it |
| `LeaderboardSettlement` | the settlement pass of one month and the staff actions on its results |
| `OwnerInviteMail` | the first owner's invite, the mail worker and the registration; mapping to `PayOnce`, property `MailsOnce` |
| `ExternalImport` | import lock, run lease, the runs that use them |
| `MCBonus`, `MCScheduler`, `MCPipeline`, `MCCase`, `MCSettlement`, `MCOwnerInvite`, `MCImport` | model-checking modules for the cfg files |
| `BonusPayProofs`, `BonusRowProofs`, `SchedulerProofs`, `PipelineProofs`, `CaseProofs`, `SettlementProofs`, `OwnerInviteProofs`, `ImportProofs` | proofs |

Definitions whose name starts with `Bug`, and `ForgetfulRequest`,
`UnguardedRequest` and `ClearedFollowUp`, are plausible mistakes. No specification
uses them; each property has one that violates it when put in the place of the
definition that follows it.

The header of each module says what its variables stand for. The rest of this section
says how they correspond to the code and what was left out.

### Bonus delivery: state and the code

- `reward[r]`: `status`, `claimRequired`; `requested` is `deliveryRequestedAt`,
  which the code only ever sets before `claimExpiresAt`; `lapsed` says that
  `expiresAt` (without a claim) or `claimExpiresAt` (with one) has passed; `paid`
  is `paidAt`. Rewards are of a bonus type with a positive amount.
- `wallet[r]`: the wallet item's status, `"NONE"` if there is no row.
- `entry[r]`: the ledger row. `gen` is `claimGeneration`, `rev` is
  `executionRevision`. `lockedAt` is non-null exactly in PROCESSING and
  DISPATCHING and is written once per generation in each, so `(status, gen)`
  stands for it in every compare-and-set. Times are ages: `age` counts ticks since
  the row's last transition, up to the one deadline its status has.
- `worker[w]`: one `dispatch()` run. `pc` names the next awaited operation, `job`
  is what `RETURNING` gave for the entry in hand, `todo` the rest of the batch,
  `seen` what the queueing read returned.
- `guest[g]`: one portal request, `pc` its next awaited operation.
- `wire`, `credited`, `balance`: Langame. A write is applied once or never, and its
  answer may be lost independently.

Every transaction and every single statement is one step; everything else that
awaits is split. `queueApprovedRewards` is a read and a later `createMany`, the
claim request is accept, materialize, read, write, check, drop, the wallet's
backfill is a read and a later insert. The actions of a worker follow
`processClaimedEntry` line by line: prepare, revalidate, mark, revalidate again,
target, permit, ownership, send, wait, confirm, and one error path for each side of
`dispatchStarted`.

### Bonus delivery: abstractions

- Transactions run in READ COMMITTED or Serializable with row locks. They are
  atomic steps here: the locks they take (`FOR UPDATE`, the delivery lock) cover
  the rows they decide on. A Prisma read of related rows is one snapshot.
- `updateReward` and the effects it materializes at the end are one step. Between
  the two only another queueing of the same reward could happen, which workers do
  anyway. The reward materializer's own scheduler queues through the same function
  as the workers' queue steps.
- The four statements of `reconcileCompletedRewardWalletItems` are merged per reward;
  the second concerns completion markers, which carry no amount.
- Missing phones, sources, settlement stores and staff checks are a nondeterministic
  refusal at the place where the code refuses. `claimRewardWalletItemForProfile`'s
  branch for a missing tenant cannot be reached (foreign key).
- Configuration modes without writes (disabled, dry run, not ready) change nothing
  and are left out. A canary run is a batch of one.
- The operator is honest: CONFIRMED and NOT_APPLIED are what Langame shows at
  that moment. The code takes the operator's word for it.
- `CallWindow < Quarantine`: from the ownership check until the provider has
  decided the request, less time passes than the reconciliation quarantine (a
  30-second HTTP time-out against 30 minutes). A process suspended for longer than
  the quarantine between two adjacent statements is outside the model, and the code
  has no fence against it.

### Reward pipeline

A run is `materializeRewardIntents` or `materializeRewardEffects`, with
`reconcileCreatedRewardSideEffects` nested in it; `ret` says where that returns to. The
scheduler, a replayed event, a staff update and a guest's claim start runs.

- Intents and effects are leased rows. `leaseVersion` moves with `attempts` and nothing
  resets either, so `attempts` stands for both. A back-off only delays a claim and is left
  out; a lease runs out at any time (`LeaseExpires`).
- `source` is what `guest-game-generic-session-materialization-readiness` finds;
  `RemediateEvent` is the remediation's transaction. Its receipts are not modelled.
- `granted[i]` counts entitlements or ledger entries made for the reward. A ledger entry
  stays queued whatever happens to it later; that is `BonusDelivery`'s subject. The ledger's
  own queueing (`BONUS_LEDGER_QUEUE`) does not look at the remediation marker, so
  `NothingAfterMarker` speaks of rewards and loot boxes.
- Database errors in nested calls are a failure of the reward in hand or a crash. The code
  reconciles the applied rewards of a batch with `Promise.all`, the model one after another.
- Not reached at this commit, and left out: the branch for a missing event or profile (no
  code deletes them), loot-box effects in WAITING_CLAIM, and an effect that queues a
  reward of a type the ledger does not support (line 22087: the effect is planned for the ten
  types of `GUEST_GAME_BONUS_LEDGER_REWARD_TYPES`, which are the ledger's own).

### Case opening

One entitlement with its wallet item. `openLootBoxForPayload` is open, find, reserve,
create the event with the roll, list, claim, make, apply, bind. Which prizes a roll may
give, and every refusal (audience, limits, budget), is a nondeterministic choice. The
reservation compares `expiresAt` with `openedAt`, which is the request's start, so it may
succeed after the deadline.

Transactions that lock the entitlement before they look at it, and single statements, are
steps. The recoveries lock nothing while they read. `recoverPortalLootBoxOpeningReservation`
runs in READ COMMITTED under a clock taken by its caller, so it is several steps, with
everybody else's between them:

1. the clock (`Catch` for a forced recovery, `Upkeep` for a read of the wallet or the
   retention), which fixes `late`: whether the item had expired by it;
2. the item (`Recover`; in `Upkeep` with the clock, because an item found OPENING for too
   long by a clock was so when the clock was taken);
3. the entitlement and the intents (`Decide`). The code reads them one after the other.
   An intent never leaves APPLIED and every write asks for OPENING again, so a decision
   on an outcome could be taken right before the write, and one without an outcome at the
   first of the two reads;
4. the write (`Bind`, `Restore`, `Expire`), conditional on the entitlement's status. What it
   changes of the two rows is one step: the entitlement's row lock is held from the update to
   the commit, and everybody else who writes the item takes that lock first, or asks for an
   item in another status;
5. `Delete`: the portal deletes the item although its update of the entitlement matched no row
   (section 4). The retention's twin, `recoverStaleRewardWalletOpeningBatches`, stops there.

The branch for an entitlement that is CONSUMED by then changes nothing, because its item is
no longer OPENING. `Backfill` and `CreateItem` are the read of the wallet that finds an unopened case
without an item and makes one later. `reactivateRecoverableExpiredLootBoxEntitlements` has no action: it
asks for an expiry before the item's time is over, and a case expires after it.

### Leaderboard settlement

`result[<<board, profile>>]` is a `GuestLeaderboardPeriodResult` row, `made` the rewards and
entitlements created under its key, `handed` the hand-overs staff confirmed. The standings
are any set of winners with any prizes, chosen anew by each pass. One systemd worker owns the
pass ("the only unattended owner of this path", `guest-gamification-worker.ts:70`), so there is
one pass; staff act between its statements, and it may throw or be killed at each.
`IssuedIsBacked` and `PrizeOnce` are about what the pass makes; a manual prize that staff hand
over twice is described in section 4.

### Owner invite

Every transaction of the lifecycle service, of the SQL functions behind the mail worker and
of the registration takes the same tenant advisory lock, so each is one step. Between them a
worker stalls, dies, or loses the reply of a call that committed. `due` says that the current
deadline of a row has passed. The sealed token is in the row exactly while it is
`Cancelable`. The operator's reconciliation is external and truthful. Left out: HOLD before
release, readiness checks, replays of a request under the same requestId, the HANDOFF outcome
(which this repository class never returns), and the reaper's branch for a PENDING row whose
window has closed (it cannot be reached). A worker that lost the reply of its mark leaves the
row to the reaper, which quarantines it.

### External import

`lock` is the session that holds the advisory lock, `session[p]` whether that connection is
up at the server, `alive` what the client believes. `intent` and `result` are the audit events
with a unique key per business day. The worker verifies lock and authority before each batch;
a manual import has no authority, so its batches are not verified again. What a batch writes
is data mapping and left out: `importedBy` and `stray` record who wrote when.

## 3. Runs

| Run | Who takes part | States | Shows |
|---|---|---|---|
| `delivery` | 2 fair workers, operator, tenant, 1 crash | 339 thousand | the fences around the provider call, refinement of `PayOnce`, nothing left in dispatch or abandoned |
| `portal` | guest with 2 requests, operator, deadlines, wallet upkeep, retention | 1.5 million | no delivery without a claim, accepted claims survive, rows agree |
| `batch` | 2 rewards, one legacy entry, one that staff redeem, edit and restart | 1.2 million | batches with leases that run out and staff between any two steps: the whole of `PayInv` |
| `scheduler` | 3 guests | 1 thousand | no lost wake-up, claims are served, shutdown drains |
| `quarantine` | 2 runs, a loot box to be approved, 2 staff updates, a source that is ready, pending or ambiguous | 2.7 million | nothing after the marker, approved cases only, leases and settled rows respected |
| `settles` | 2 fair runs, a bonus, a plan that does not parse, 2 attempts, 1 crash | 432 thousand | results behind finished rows, leases over takeovers, the queue drains |
| `case_open` | 2 requests, 1 materializer run, 1 upkeep, 2 prizes | 703 thousand | one roll, rows together, settled cases stay, no item stays reserved |
| `case_stuck` | 2 requests, 1 upkeep, 1 prize | | a case that stays reserved for good, section 4 |
| `settlement` | 3 guests, batch of 2, 1 fault, 1 retry | 101 thousand | one prize, issued is backed, frozen stays, no prize waits for ever |
| `owner_mail` | 2 workers, 1 reissue, 2 attempts, any number of crashes | 143 thousand | refinement of `PayOnce`, one mail, none after a stop, one way in, deliveries settle |
| `import` | 2 worker runs of a day, 1 manual import, 2 batches | 393 thousand | one run per day, fenced writes, lock released |
| `uncertain_wallet` | guest, 2 workers, 1 crash | | a disagreement with the documentation, section 4 |

`RowsAgree` says that CLAIMED means credited. It is checked without desk payouts:
a reward redeemed at the desk is PAID and its item CLAIMED without a credit. It allows
a PENDING item beside a confirmed entry once the deadline has passed (section 4).
The type invariants are proved for every value of the constants (section 5) and
listed in no run; the one of bonus delivery is part of `PayInv`.

### Bounds

*Bonus delivery.* Two workers are enough for every race on an entry: the code's
compare-and-set distinguishes the current owner from anybody else. Two attempts give a
first and a last attempt; two claims of queued entries, beside the reclaims of stale ones,
give a stale owner, a current owner and a reset of attempts between them. One tick of lock
and two of quarantine order all time-outs. One reward is enough except for the batch,
because handlers never relate two rewards; `Handled` limits the staff of `batch` to one of its
two. Two requests give a slow one, which read
before the delivery, and a current one. `MaxClaims` bounds claims of queued entries only,
so it never hides a stuck entry: the reclaim of a stale PROCESSING entry is bounded by
attempts, as in the code. `delivery` has no guest and no staff, so nothing withdraws the reward
of an abandoned claim there: `AbandonedClaimIsRetried` is about the workers and the
tenant. An abandoned claim of a withdrawn reward is not selected again.

*Pipeline.* `quarantine` has one attempt, so that a lease that runs out is swept; `settles` has
two, so that it is taken over and its first holder comes back late. A batch with a bad
plan needs a second intent. Loot boxes and bonuses never meet in a handler, so each run has
one kind. No run has an incoherent source, which would triple the states: its rows are
suspended like those of a marked event. The proofs cover it.

*Case opening.* A request starts over after it ended, so two requests already give a late
one, a current one and a later one, and so does an upkeep. Two prizes tell two rolls apart.
`MaxReads` bounds the reads of the wallet that are about to make an item; two of them do what one does,
because the second finds the item there or the case no longer without one. `case_stuck` needs
one prize, one attempt and no materializer.

*Settlement.* Boards are settled independently; three winners with a batch of two leave one
row to the next pass. One fault falls on any statement of any pass.

*Owner invite.* One reissue gives an old and a new invite. Crashes are unbounded.

*Import.* A second day would only add runs that behave towards the first like the manual
import. Two batches make "one batch more" differ from "all".

The proofs use no bound but that the constants are numbers.

### Fairness

- *Bonus delivery.* `WF(WorkerStep(w))`: the systemd timer (30 s) and the scheduler start
  `dispatch()` again and again, and every awaited call of it returns, fails or times out.
  `WF(Tick)`: time passes. `WF(ProviderStep)`: Langame decides every request. Guests, staff,
  the operator, the tenant and crashes owe nothing.
- *Scheduler.* A started run ends (`WF(FinishRun)`) and a queued microtask runs
  (`WF(Microtask)`); the timer owes nothing, so `ClaimIsServed` does not rest on it.
- *Pipeline.* `WF(Step(w))` and `WF(LeaseExpires)`: awaited calls return and leases run out.
  `SF` of starting an intent run and of starting an effect run, by any worker: the scheduler's
  two loops come round again whatever else the workers are busy with. Weak fairness would
  not do, because a start is disabled while a worker serves another caller.
- *Owner invite.* `WF(WorkerStep(w))` and `WF(Elapse(i))` as above; `SF(Claim(w))`: a worker does
  not die each time just before it claims.
- *Settlement.* `WF(PassStep)`: the timer starts the worker every few minutes, and from some pass
  on its settings parse. A pass without valid settings ends at once (`settleTenant`, lines
  97-105) and changes nothing; while they stay so, prizes wait.
- *Case opening.* `WF(Age)` and `WF(Keep(k))`: time passes, and the wallet is read or, for
  internal tenants, the retention's scheduler starts runs that finish. In `FairSpec` requests owe
  nothing: they may die anywhere. `BusySpec`, for `case_stuck`, adds that a request goes on until it
  ends or dies, so that the case is not stuck merely because its request stands still.
- *Import.* `WF(Step(p))`: every awaited call of a started run returns, fails or times out.

Deadlock is not checked where a run of the system really ends: a process that was shut
down, imports that are over, a case that is opened or expired.

## 4. Disagreements with the documentation

`src/docs/deployment/bonus-ledger-scheduler.md`, line 229, says that in
RECONCILIATION_REQUIRED the wallet stays PROCESSING. A claim request that read the ledger
before the worker dispatched writes FAILED afterwards: run `uncertain_wallet` shows the
steps. Then `resolveReconciliation` refuses both outcomes, because it needs a PROCESSING item.

`src/docs/deployment/guest-gamification-live-rewards.md`, line 64, says that an unfinished OPENING is
restored by a controlled stale recovery. Run `case_stuck` shows one that is not. In the
expire branch, `recoverPortalLootBoxOpeningReservation` ignores how many rows its update of the
entitlement changed (`guest-portal.service.ts:12918`) and deletes the item if it is OPENING (12934):

1. a request opens the case and fails; its catch block takes the clock just before the deadline;
2. a read of the wallet with a clock past the deadline reads OPENING and decides to expire;
3. the forced recovery of the first request gives the case back;
4. the update of the other recovery matches no row;
5. a second request, which opened before the deadline, reserves the case;
6. the recovery deletes the second request's OPENING item;
7. the second request dies, or fails: its own recovery finds no item and answers MISSING.

The entitlement is OPENING and has no item. Both upkeeps look for OPENING items, the wallet's
backfill looks for AVAILABLE entitlements, and nobody resolves it; line 72 of the same document says that an
OPENING blocks changes of the loot-box rule until it is finalized or restored. This is why
`RowsTogether` speaks of an OPENING or CLAIMED item once the deadline has passed, and
`ReservationResolves` of the item. If the count were checked, as the retention does
(`guest-game-data-retention.service.ts:1107`), step 6 would not happen.

Modelling brought up more such places. They follow from the models' actions, and no run is
kept for them:

- *Loot-box restart.* The same document, line 227: cancellation is blocked while the wallet is
  PROCESSING or FAILED. `restartLootBox` (`guest-gamification.service.ts:8670`) cancels all open
  rewards of a loot box in one `updateMany` and looks at no wallet item. Therefore
  `AcceptedDeliveryKept` is checked in `portal`, without staff, and `AcceptedClaimsSurvive` proves it
  beside desk payouts and edits, but without a restart.
- *Last attempt.* The same document, line 266: a tick picks the entry up after a restart.
  `claimReadyEntries` (`guest-bonus-ledger.service.ts:1595`) needs `attempts < maxAttempts`, so an
  entry whose worker died in its last attempt stays PROCESSING. `AbandonedClaimIsRetried`
  says "with attempts left".
- *Dead letter.* `src/BACKLOG.md:454`: a side effect that fails is retried and becomes DEAD_LETTER
  at the limit. `suspendGenericSessionRewardEffects` (`guest-gamification.service.ts:23052`) writes
  FAILED whatever the row's attempts are. A row whose last lease ran out while its source is
  pending becomes FAILED at the limit: no claim takes it, and the sweep looks at PROCESSING
  only. `QueueSettles` is checked with a sound source.
- *Published link.* `founder-owner-invite-lifecycle.service.ts:291` answers a second publication
  with "Revoke and reissue the invite to create a new link." Publication cancels the mail
  delivery, and `stopDelivery` (line 802) refuses a revoke of a CANCELED delivery: a
  published link can only run out.
- *Hand-over.* `src/docs/agent-context/guest-leaderboard.md:76`: "Each `PRIZE_PENDING` row is issued
  once". `markResult` (`guest-leaderboard-settlement.service.ts:471`) updates by id alone. Staff
  confirm a manual prize between the MANUAL_PRIZE mark and its audit event; the audit
  throws, the catch block overwrites PRIZE_ISSUED with PRIZE_FAILED, and a retry offers the
  prize for a second hand-over. `PrizeOnce` counts rewards and cases, which are unaffected.

Some observations, without a document that promises otherwise:

- *Reconciliation without a way out.* A reward without a claim that is redeemed, canceled or
  lapses while its write is out ends in a reconciliation that neither outcome can close. The
  balance is still credited at most once.
- *Exhausted delivery.* An accepted reward whose entry failed with MAX_ATTEMPTS_REACHED can be
  neither retried, canceled nor redeemed.
- *Case given back with its prize.* The recovery of a loot box reads the intents and writes
  later: a materializer may apply the intent in between, and the case is given back, or
  expires, with its prize on record. `OneRoll` shows that no second prize comes of it (an
  opening of the restored case finds the event and its reward); an expired case keeps the
  reward without being bound to it.
- *Item nobody can claim.* The wallet's backfill reads, and inserts later, so a slow one puts
  back as PENDING the item of a paid reward that retention has deleted after the deadline. The
  guest sees the item until retention comes round again. This came out of the proof of
  `RowsAgree`, whose first form was false with two requests.

## 5. Proofs

All theorems hold for every value of the constants that satisfies the named assumption of
the module (limits are numbers, sets of actors are disjoint, `CallWindow < Quarantine`).

| Module | Theorems |
|---|---|
| `BonusPayProofs` | `TypeCorrect`: types; `PayInvHolds`; `CreditedAtMostOnce`; `ConfirmationIsTrue`; `OpenWritesAreParked`; `ClaimComesFirst` |
| `BonusRowProofs` | the refinement `ImplementsPayOnce`; the action properties `StaleWorkersAreHarmless` and `RestartAloneWithdraws`; `AcceptedClaimsSurvive` (no loot-box restart); `RowsKeepTogether` (no staff) |
| `SchedulerProofs` | `SchedulerKept`: the scheduler's invariant; `NoLostWakeUp` |
| `PipelineProofs` | `PipelineTyped`; `ResultsBehind`; `CasesApproved`; the action properties `SettledStays`, `LeasesRespected`, `MarkerStops` |
| `CaseProofs` | `CaseTyped`; `OneRollOnly`; `RowsStayTogether`; the action property `SettledCasesStay` |
| `SettlementProofs` | `SettlementTyped`; `PrizesOnce`; `IssuedBacked`; the action property `MonthFrozen` |
| `OwnerInviteProofs` | `MailTyped`; `MailedOnce`; `StoppedStays`; `OneInviteOpen`; `VerifiedMeansMailed`; the action property `LateWorkersFenced`; the refinement `ImplementsMailOnce` |
| `ImportProofs` | `ImportTyped`; `ImportOnce`; `ImportFenced` |

### Bonus delivery

`AtMostOnceCredit` is not inductive: what keeps a second credit away is spread over
the workers. `PayInv` adds

- `ClaimsAreExclusive`: a claim generation of an entry is held by one worker, in one
  place, and is never ahead of the row;
- `NotSentYet`: nothing was sent under a claim whose worker has not sent it;
- `OpenCalls`: a write past its ownership check belongs to the entry's current
  generation, the entry is DISPATCHING or RECONCILIATION_REQUIRED, and an entry under
  reconciliation is no older than the write. The last clause is where the
  quarantine enters: NOT_APPLIED needs an entry of age `Quarantine`, and an open
  write is at most `CallWindow` old;
- `Credits`: a credit belongs to the current generation, is counted once, and every
  confirmation has one;
- `ClaimFirst`: an entry in or past dispatch was asked for if it needs a claim.

The proof sorts the steps. Most change a row in one of seven ways (`RowStep`) while
workers keep or drop what they hold (`WorkerKeeps`); `FrameStep` proves those once.
Claiming, sending, promotion sweeps, the provider's decision and the clock are
proved one by one. The fences that the mutants break (`claimGeneration`, the quarantine,
the promotion to reconciliation) are each used in one named lemma.

`BonusRowProofs` builds on `PayInv`:

- *Refinement.* `Phase` reads the abstract phase off the entry's status. A step either changes
  entries and credits nothing, or is the provider's decision (`ApplyIsPay`). The
  lemmas `WorkerMoves`, `OperatorMoves` and `OthersMove` show that an entry moves as `Move` allows; `Credits`
  and `OpenCalls`, in the state before and after, say which outcomes were credited.
- *Stale workers.* Each call of a worker is a compare-and-set on the generation it holds, or a
  read. `OnlyItselfMoves` shows that nobody else moves a worker's pc (the clock and
  a crash are dealt with).
- *Accepted claims.* `AcceptedDeliveryKept` is inductive with the types alone: every handler that
  cancels or expires a reward tests for an accepted delivery in the same transaction. The
  hypothesis `"restart" \notin Actors` is needed, because `restartLootBox` does not (section 4). `RestartAloneWithdraws` says so of the whole
  system: with every actor at work, that is the only step that withdraws an accepted delivery.
- *Rows.* `RowsAgree` is not inductive. `RowsInv` adds, per reward (`RowsOf`), that a paid reward or a
  claimed item has a confirmed entry, that only rewards that need a claim have open items, and
  that an asked-for reward loses its item only after the deadline; and, per request
  (`RequestOf`), what one that has read may still write: a backfill belongs to a reward that
  needs a claim, and no request plans to write CLAIMED. A slow backfill finds the item there,
  or the deadline passed. The hypothesis `NoStaff` leaves out desk payouts, edits and the
  restart, which pay or cancel a reward without the ledger.

### The other modules

- *Pipeline.* `PipelineInv` adds `RunsOK` to the properties: what the next step of a run
  relies on. A claim whose reward is no longer to be made has one, a claim is applied for a
  reward that was approved when it was read, and a claim about to be finished has its
  delivery. The action properties rest on the lemma `Moves`: every step changes a row by a free
  move (no lease, not settled), by the end of a lease, or by a move of the run that holds
  the lease, and the last is fenced by status and lease version.
- *Case opening.* `CaseInv` adds `InOrder` (event, intent and reward come about in this
  order, once there is an item to open) and `Known`: what each process may still do with what it
  read. One that was told of a prize was told of the reward and is on its way to bind it;
  one that decided to expire, or takes the item's time to be over, is right about
  that; one that opened the case found an item, or the time is over. `OneRoll` follows
  because the roll is kept by the event and the reward by its key; `RowsTogether` because every
  write but `Delete` asks for the entitlement's status again, and `Delete` comes after the
  deadline. `SettledCaseStays` rests on the same facts: `Respects` says what each step may do to
  the entitlement, and only processes without a prize restore or expire.
- *Settlement.* `SettlementInv` adds `Held` (a row in the pass's hands has a prize, and exactly one
  was made when it is about to be marked) and `Manual` (only custom prizes are left to staff).
- *Owner invite.* `MailInv` adds `RowsOK` (a mail lies behind a marker, and a marked row is
  never retried), `Hands` (one worker is past the boundary of an invite and knows whether it
  sent), `Lineage` (each invite is issued after the end of the one before) and
  `Registered`. The argument: the marker is set once and never cleared, and only the worker that
  set it gives the mail to SMTP. The refinement of `PayOnce` adds `ForGood`: no step takes back a
  marker or the end of a delivery. A row the operator settled as DEAD counts as open there
  if it is marked: the worker that set the marker may be stalled in front of SMTP and
  still mail, which the code has no fence against.
- *Import.* `ImportInv` adds `Owners` (a worker past `acquire` owns the day's intent), `Sessions`
  (lock and sessions agree; who is about to write a verified batch has not strayed),
  `BatchLeft` and `WorkerSteps`.

## 6. Only model-checked

Liveness (`DispatchingEnds`, `AbandonedClaimIsRetried`, `ClaimIsServed`, `ShutdownDrains`,
`QueueSettles`, `ReservationResolves`, `PendingResolves`, `DeliverySettles`, `LockIsReleased`) is out of
the prover's reach. Every invariant, action property and refinement of the passing runs
is proved as well. `UncertainWalletStays` and `CaseResolves` are refuted (section 4).

## 7. Not modelled

- *Delivery outbox and bot consumer.* Dead code at this commit:
  `evaluateLegacyGuestGameDeliveryProtocolGate` always denies and has no bypass, so no row is
  claimed, sent or acknowledged.
- *Rule evaluation* and how a roll, a leaderboard or a budget is computed: data, and every outcome
  is allowed where the models meet it.
- *Employee invite mail, initial sync coordinator, report digests, daily report delivery, portal
  session coordinators*: protocols of their own, see section 8.
- *XP items, sessions and Telegram handling* of the guest portal.
- *Staff, support, marketing, reports, dashboards, CSV imports*: CRUD or read-only.
- *Web client and deployment scripts*: no state of the modelled protocols.

Amounts, phones, addresses and payloads are not modelled: they do not steer control
beyond the refusals the models have.

## 8. Plan

1. *Done*: bonus delivery with scheduler, reward pipeline, case opening, leaderboard
   settlement, owner invite and external import, each with its invariant proved.
2. *Next modules*, in this order: the employee invite mail worker, against the shape of
   `OwnerInviteMail`, with an abstract outbox that both implement; the initial sync coordinator
   and its receipts; daily report delivery, which sends before it records; the report digest's
   run fence; the session coordinators.
3. *Next theorems*: a refinement for case opening (one roll per entitlement) and for settlement
   (one prize per result).
4. *Next compositions*: `RewardPipeline` with `CaseOpening`, whose materializer steps are the same
   code seen from two sides, and `RewardPipeline` with `BonusDelivery` over the ledger entry.
