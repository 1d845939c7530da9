--------------------------- MODULE RewardPipeline ---------------------------
(***************************************************************************)
(* From a qualified event to its rewards and their effects.  An event has  *)
(* reward intents; a run of the materializer turns an intent into a reward *)
(* with its effects, and an effect into a staff notification, a loot-box   *)
(* entitlement or an entry of the bonus ledger.  Intents and effects are   *)
(* leased rows.  Runs overlap: the scheduler, a replayed event, a staff    *)
(* update and a guest's claim all start one.                               *)
(*                                                                         *)
(* Meanwhile the import may learn that the event was misclassified.  Then  *)
(* the remediation marks the event and quarantines its open rows.          *)
(*                                                                         *)
(*   source      what the imported session says of the event: "ready",     *)
(*               "pending" (its replay has not ended), "incoherent" or     *)
(*               "ambiguous" (proof that the classification was wrong)     *)
(*   marker      the event carries the remediation marker                  *)
(*   intent[i]   the intent row                                            *)
(*   reward[i]   the reward made from intent i (same idempotency key)      *)
(*   effect[e]   the effect row, e = <<i, kind>>, status "NONE" if none    *)
(*   granted[i]  times its delivery was written: entitlement or entry      *)
(*   run[w]      a run: pc names its next awaited call, ret where          *)
(*               reconcileCreatedRewardSideEffects returns to, todo the    *)
(*               rewards or intents left in its loop, claims and fx the    *)
(*               leases it holds, row what it last read of its reward      *)
(*                                                                         *)
(* leaseVersion moves with attempts and nothing resets either, so attempts *)
(* stands for both.  A back-off only delays a claim and is left out.       *)
(***************************************************************************)
EXTENDS Naturals, FiniteSets

CONSTANTS Workers, Intents,
          Cases,        \* intents whose reward is a loot box; the rest are bonuses
          Manual,       \* intents whose reward waits for a manual approval
          BadPlans,     \* intents with a plan that does not parse
          Sources,      \* what the import may come to say
          MaxAttempts,
          MaxCrashes, MaxUpdates    \* bounds

ASSUME PipelineAssumption ==
  /\ Cases \subseteq Intents /\ Manual \subseteq Intents /\ BadPlans \subseteq Intents
  /\ Sources \subseteq {"ready", "pending", "incoherent", "ambiguous"}
  /\ MaxAttempts \in Nat \ {0} /\ MaxCrashes \in Nat /\ MaxUpdates \in Nat

VARIABLES source, marker, intent, reward, effect, granted, run, crashes, updates

event == <<source, marker>>
vars == <<source, marker, intent, reward, effect, granted, run, crashes, updates>>

Effects == Intents \X {"notify", "deliver"}
NoRow == [status |-> "NONE", attempts |-> 0, expired |-> FALSE]
Queued == [NoRow EXCEPT !.status = "PENDING"]
NoReward == [status |-> "NONE", requested |-> FALSE]
Idle == [pc |-> "idle", ret |-> "idle", ready |-> "READY", r |-> "none", row |-> "NONE",
         todo |-> {}, left |-> {}, claims |-> {}, fx |-> {}]

Init ==
  /\ source = "ready" /\ marker = FALSE
  /\ intent = [i \in Intents |-> Queued]
  /\ reward = [i \in Intents |-> NoReward]
  /\ effect = [e \in Effects |-> NoRow]
  /\ granted = [i \in Intents |-> 0]
  /\ run = [w \in Workers |-> Idle]
  /\ crashes = 0 /\ updates = 0

-----------------------------------------------------------------------------
(* Leased rows *)

Lapsed(row) == row.status = "PROCESSING" /\ row.expired
Leased(row) == row.status = "PROCESSING" /\ ~row.expired
Open(row) == row.status \in {"PENDING", "FAILED"} \/ Lapsed(row)

Claimable(row) == row.attempts < MaxAttempts /\ Open(row)

Claimed(row) == [status |-> "PROCESSING", attempts |-> row.attempts + 1, expired |-> FALSE]
Becomes(row, s) == [row EXCEPT !.status = s, !.expired = FALSE]
Exhausted(row) == Lapsed(row) /\ row.attempts >= MaxAttempts

\* A sweep that leaves the row to a claim that will never take it.
BugSwept(row) == row

Swept(row) == IF Exhausted(row) THEN Becomes(row, "DEAD_LETTER") ELSE row

\* The fences without the version, and without the status.
BugHolds(row, version) == row.status = "PROCESSING"
BugVersionOnly(row, version) == row.attempts = version

\* Every finalization names the status and the lease version it expects.
Holds(row, version) == row.status = "PROCESSING" /\ row.attempts = version

Finalized(row, version, s) == IF Holds(row, version) THEN Becomes(row, s) ELSE row
Failed(row, version) ==
  Finalized(row, version, IF version >= MaxAttempts THEN "DEAD_LETTER" ELSE "FAILED")

-----------------------------------------------------------------------------
(* The remediation and the two suspensions *)

Busy == (\E i \in Intents : Leased(intent[i])) \/ (\E e \in Effects : Leased(effect[e]))

Quarantined(row) ==
  IF row.status \in {"WAITING_CLAIM", "PENDING", "FAILED", "PROCESSING"}
    THEN Becomes(row, "RECONCILIATION_REQUIRED") ELSE row

\* A remediation that does not wait for the leases that are still held.
BugRemediate ==
  IF ~marker /\ source = "ambiguous"
    THEN /\ marker' = TRUE
         /\ intent' = [i \in Intents |-> Quarantined(intent[i])]
         /\ effect' = [e \in Effects |-> Quarantined(effect[e])]
    ELSE UNCHANGED <<marker, intent, effect>>

\* remediateLegacyGenericSessionClassificationInTransaction
RemediateEvent ==
  IF ~marker /\ source = "ambiguous" /\ ~Busy
    THEN /\ marker' = TRUE
         /\ intent' = [i \in Intents |-> Quarantined(intent[i])]
         /\ effect' = [e \in Effects |-> Quarantined(effect[e])]
    ELSE UNCHANGED <<marker, intent, effect>>

\* prepareGenericSessionEventForMaterialization: what it answers when its
\* remediation attempt has been made.
Readiness ==
  CASE marker' \/ source = "incoherent" -> "BLOCKED"
    [] ~marker' /\ source \in {"ambiguous", "pending"} -> "DEFERRED"
    [] OTHER -> "READY"

Suspended(row, ready) ==
  IF Open(row) \/ (ready = "BLOCKED" /\ row.status = "WAITING_CLAIM")
    THEN Becomes(row, IF ready = "BLOCKED" THEN "RECONCILIATION_REQUIRED" ELSE "FAILED")
    ELSE row

-----------------------------------------------------------------------------
(* Rewards and their effects *)

\* guestGameRewardEffectPlans
Planned(i, status) ==
  IF status = "PENDING" THEN {"notify"}
  ELSE IF status = "APPROVED" \/ (i \in Cases /\ status = "PAID") THEN {"deliver"}
  ELSE {}

FirstStatus(i, kind) ==
  IF kind = "deliver" /\ i \notin Cases THEN "WAITING_CLAIM" ELSE "PENDING"

\* createMany with skipDuplicates: existing rows stay as they are.
Seeded(i, status) ==
  [e \in Effects |->
     IF e[1] = i /\ e[2] \in Planned(i, status) /\ effect[e].status = "NONE"
       THEN [NoRow EXCEPT !.status = FirstStatus(i, e[2])] ELSE effect[e]]

\* guestGameRewardEffectStillApplies
StillApplies(e, status) == e[2] \in Planned(e[1], status)

Rewards == {i \in Intents : reward[i].status # "NONE"}
Set(w, change) == run' = [run EXCEPT ![w] = change]
Goto(w, pc) == Set(w, [run[w] EXCEPT !.pc = pc])
Return(w) == Set(w, [run[w] EXCEPT !.pc = run[w].ret, !.ret = "idle", !.ready = "READY",
                                         !.r = "none", !.row = "NONE"])

\* reconcileCreatedRewardSideEffects(i), with the row as the caller read it.
Reconcile(w, i, status, ret) ==
  [run[w] EXCEPT !.pc = "rPrepare", !.r = i, !.row = status, !.ret = ret]

-----------------------------------------------------------------------------
(* materializeRewardIntents, materializeProcessRewardIntents *)

SweepIntents == intent' = [i \in Intents |-> Swept(intent[i])]

\* The scheduler's run sweeps and looks for an event with claimable intents.
StartIntents(w) ==
  /\ run[w].pc = "idle" /\ \E i \in Intents : Exhausted(intent[i]) \/ Claimable(intent[i])
  /\ SweepIntents
  /\ Goto(w, IF \E i \in Intents : Claimable(intent[i]) THEN "iPrepare" ELSE "idle")
  /\ UNCHANGED <<event, reward, effect, granted, crashes, updates>>

\* A replayed event comes here without a sweep.
StartReplay(w) ==
  /\ run[w].pc = "idle" /\ Goto(w, "iPrepare")
  /\ UNCHANGED <<event, intent, reward, effect, granted, crashes, updates>>

PrepareIntents(w) ==
  /\ run[w].pc = "iPrepare"
  /\ RemediateEvent
  /\ Set(w, [run[w] EXCEPT !.ready = Readiness,
                           !.pc = IF Readiness = "READY" THEN "iSweep" ELSE "iSuspend"])
  /\ UNCHANGED <<source, reward, granted, crashes, updates>>

SuspendIntents(w) ==
  /\ run[w].pc = "iSuspend"
  /\ intent' = [i \in Intents |-> Suspended(intent[i], run[w].ready)]
  /\ Set(w, Idle)
  /\ UNCHANGED <<event, reward, effect, granted, crashes, updates>>

\* The sweep again, and the rewards whose side effects are reconciled first.
SweepAndList(w) ==
  /\ run[w].pc = "iSweep"
  /\ SweepIntents
  /\ Set(w, [run[w] EXCEPT !.pc = "iApplied",
                           !.left = {i \in Intents : intent[i].status = "APPLIED"}])
  /\ UNCHANGED <<event, reward, effect, granted, crashes, updates>>

ReconcileApplied(w) ==
  /\ run[w].pc = "iApplied" /\ run[w].left # {}
  /\ \E i \in run[w].left :
       Set(w, [Reconcile(w, i, reward[i].status, "iApplied") EXCEPT !.left = @ \ {i}])
  /\ UNCHANGED <<event, intent, reward, effect, granted, crashes, updates>>

\* claimRewardIntents
ClaimIntents(w) ==
  /\ run[w].pc = "iApplied" /\ run[w].left = {}
  /\ LET got == IF marker THEN {} ELSE {i \in Intents : Claimable(intent[i])}
     IN  /\ intent' = [i \in Intents |-> IF i \in got THEN Claimed(intent[i]) ELSE intent[i]]
         /\ Set(w, IF got = {} THEN Idle
                   ELSE [Idle EXCEPT !.pc = "iMake", !.left = got,
                                     !.claims = {<<i, intent[i].attempts + 1>> : i \in got}])
  /\ UNCHANGED <<event, reward, effect, granted, crashes, updates>>

\* An intent whose plan does not parse is given up; the rest go on.
DropBadPlan(w) ==
  /\ run[w].pc = "iMake"
  /\ \E c \in run[w].claims :
       /\ c[1] \in BadPlans
       /\ intent' = [intent EXCEPT ![c[1]] = Finalized(@, c[2], "DEAD_LETTER")]
       /\ LET rest == run[w].claims \ {c}
          IN  Set(w, IF rest = {} THEN Idle
                     ELSE [run[w] EXCEPT !.claims = rest, !.left = @ \ {c[1]}])
  /\ UNCHANGED <<event, reward, effect, granted, crashes, updates>>

NewReward(i) == [NoReward EXCEPT !.status = IF i \in Manual THEN "PENDING" ELSE "APPROVED"]

\* createReward: the event is locked and looked at again before the insert.
CreateReward(i) ==
  /\ ~marker
  /\ reward' = [reward EXCEPT ![i] = NewReward(i)]
  /\ effect' = Seeded(i, NewReward(i).status)

\* One round of createProcessRewards: create, or find what an earlier run left.
MakeReward(w) ==
  /\ run[w].pc = "iMake" /\ \A c \in run[w].claims : c[1] \notin BadPlans
  /\ \E i \in run[w].left :
       \/ /\ reward[i].status = "NONE" /\ CreateReward(i)
          /\ Set(w, [Reconcile(w, i, NewReward(i).status, "iMake") EXCEPT !.left = @ \ {i}])
       \/ /\ reward[i].status # "NONE"
          /\ Set(w, [Reconcile(w, i, reward[i].status, "iMake") EXCEPT !.left = @ \ {i}])
          /\ UNCHANGED <<reward, effect>>
  /\ UNCHANGED <<event, intent, granted, crashes, updates>>

\* A round throws: because of the marker, or for any other reason.
MakeFails(w) ==
  /\ run[w].pc = "iMake"
  /\ \A c \in run[w].claims : c[1] \notin BadPlans
  /\ Goto(w, "iFail")
  /\ UNCHANGED <<event, intent, reward, effect, granted, crashes, updates>>

FinishIntent(w) ==
  /\ run[w].pc = "iMake" /\ run[w].left = {}
  /\ \E c \in run[w].claims :
       /\ intent' = [intent EXCEPT ![c[1]] = Finalized(@, c[2], "APPLIED")]
       /\ Set(w, IF run[w].claims = {c} THEN Idle ELSE [run[w] EXCEPT !.claims = @ \ {c}])
  /\ UNCHANGED <<event, reward, effect, granted, crashes, updates>>

\* The catch block: one failed reward fails the whole batch.
FailIntent(w) ==
  /\ run[w].pc = "iFail"
  /\ \E c \in run[w].claims :
       /\ intent' = [intent EXCEPT ![c[1]] = Failed(@, c[2])]
       /\ Set(w, IF run[w].claims = {c} THEN Idle ELSE [run[w] EXCEPT !.claims = @ \ {c}])
  /\ UNCHANGED <<event, reward, effect, granted, crashes, updates>>

-----------------------------------------------------------------------------
(* reconcileCreatedRewardSideEffects *)

PrepareReconcile(w) ==
  /\ run[w].pc = "rPrepare"
  /\ RemediateEvent
  /\ Set(w, [run[w] EXCEPT !.ready = Readiness,
                           !.pc = IF Readiness = "READY" THEN "rSeed" ELSE "rSuspend"])
  /\ UNCHANGED <<source, reward, granted, crashes, updates>>

SuspendReconcile(w) ==
  /\ run[w].pc = "rSuspend"
  /\ effect' = [e \in Effects |->
                  IF e[1] = run[w].r THEN Suspended(effect[e], run[w].ready) ELSE effect[e]]
  /\ Return(w)
  /\ UNCHANGED <<event, intent, reward, granted, crashes, updates>>

\* The transaction that adds missing effects, unless the event is marked by now.
SeedEffects(w) ==
  /\ run[w].pc = "rSeed"
  /\ IF marker THEN Return(w) /\ UNCHANGED effect
     ELSE /\ effect' = Seeded(run[w].r, run[w].row)
          /\ Set(w, [run[w] EXCEPT !.pc = "fSweep", !.todo = {run[w].r}])
  /\ UNCHANGED <<event, intent, reward, granted, crashes, updates>>

-----------------------------------------------------------------------------
(* materializeRewardEffects *)

\* The scheduler's run: every reward that has something to claim.
StartEffects(w) ==
  /\ run[w].pc = "idle"
  /\ \E e \in Effects : Exhausted(effect[e]) \/ Claimable(effect[e])
  /\ effect' = [e \in Effects |-> Swept(effect[e])]
  /\ Set(w, [Idle EXCEPT !.pc = "fNext",
                         !.todo = {i \in Intents : \E e \in Effects : e[1] = i /\ Claimable(effect[e])}])
  /\ UNCHANGED <<event, intent, reward, granted, crashes, updates>>

SweepEffects(w) ==
  /\ run[w].pc = "fSweep"
  /\ effect' = [e \in Effects |-> IF e[1] \in run[w].todo THEN Swept(effect[e]) ELSE effect[e]]
  /\ Goto(w, "fNext")
  /\ UNCHANGED <<event, intent, reward, granted, crashes, updates>>

PrepareEffects(w) ==
  /\ run[w].pc = "fNext"
  /\ \E i \in run[w].todo :
       /\ RemediateEvent
       /\ Set(w, [run[w] EXCEPT !.ready = Readiness, !.r = i, !.todo = @ \ {i},
                                !.pc = IF Readiness = "READY" THEN "fClaim" ELSE "fSuspend"])
  /\ UNCHANGED <<source, reward, granted, crashes, updates>>

SuspendEffects(w) ==
  /\ run[w].pc = "fSuspend"
  /\ effect' = [e \in Effects |->
                  IF e[1] = run[w].r THEN Suspended(effect[e], run[w].ready) ELSE effect[e]]
  /\ Set(w, [run[w] EXCEPT !.pc = "fNext", !.ready = "READY"])
  /\ UNCHANGED <<event, intent, reward, granted, crashes, updates>>

\* claimRewardEffects
ClaimEffects(w) ==
  /\ run[w].pc = "fClaim"
  /\ LET got == IF marker THEN {} ELSE {e \in Effects : e[1] = run[w].r /\ Claimable(effect[e])}
     IN  /\ effect' = [e \in Effects |-> IF e \in got THEN Claimed(effect[e]) ELSE effect[e]]
         /\ Set(w, [run[w] EXCEPT !.pc = "fNext",
                                  !.fx = @ \cup {<<e, effect[e].attempts + 1>> : e \in got}])
  /\ UNCHANGED <<event, intent, reward, granted, crashes, updates>>

FinishRun(w) ==
  /\ run[w].pc = "fNext" /\ run[w].todo = {} /\ run[w].fx = {}
  /\ Return(w)
  /\ UNCHANGED <<event, intent, reward, effect, granted, crashes, updates>>

\* Reads the reward of the next claim and decides whether it still applies.
ReadReward(w) ==
  /\ run[w].pc = "fNext" /\ run[w].todo = {}
  /\ \E c \in run[w].fx :
       LET status == reward[c[1][1]].status
       IN  Set(w, [run[w] EXCEPT !.r = c, !.row = status,
                                 !.pc = IF StillApplies(c[1], status) THEN "fApply" ELSE "fCancel"])
  /\ UNCHANGED <<event, intent, reward, effect, granted, crashes, updates>>

\* The entitlement is written on the strength of the preflight alone.
BugGrantCase(i, status) ==
  /\ reward[i].status = status
  /\ granted' = [granted EXCEPT ![i] = IF @ = 0 THEN 1 ELSE @]

\* The reward is not read again under its lock.
BugGrantStale(i, status) ==
  \/ granted[i] > 0 /\ UNCHANGED granted
  \/ /\ granted[i] = 0 /\ ~marker /\ source = "ready"
     /\ granted' = [granted EXCEPT ![i] = 1]

\* createApprovedRewardLootBoxEntitlement: the reward has not changed since it was
\* read; a new entitlement needs an unmarked event and a source that is still ready.
GrantCase(i, status) ==
  /\ reward[i].status = status
  /\ \/ granted[i] > 0 /\ UNCHANGED granted
     \/ /\ granted[i] = 0 /\ ~marker /\ source = "ready"
        /\ granted' = [granted EXCEPT ![i] = 1]

\* A reward the ledger refuses to queue (no phone, no club) counts as delivered.
BugGrantBonus(i) == UNCHANGED granted

\* queueApprovedRewards: one ledger entry for a reward the guest asked for.  The
\* entry is looked up afterwards; when there is none the effect fails.  The effect is
\* planned for the very reward types the ledger supports, so that none is left over.
GrantBonus(i) ==
  /\ granted[i] > 0 \/ (reward[i].status = "APPROVED" /\ reward[i].requested)
  /\ granted' = [granted EXCEPT ![i] = 1]

ApplyEffect(w) ==
  /\ run[w].pc = "fApply"
  /\ LET e == run[w].r[1]
     IN  \/ e[2] = "notify" /\ UNCHANGED granted
         \/ e[2] = "deliver" /\ e[1] \in Cases /\ GrantCase(e[1], run[w].row)
         \/ e[2] = "deliver" /\ e[1] \notin Cases /\ GrantBonus(e[1])
  /\ Goto(w, "fFinish")
  /\ UNCHANGED <<event, intent, reward, effect, crashes, updates>>

ApplyFails(w) ==
  /\ run[w].pc = "fApply" /\ Goto(w, "fFail")
  /\ UNCHANGED <<event, intent, reward, effect, granted, crashes, updates>>

\* The fenced end of one claim: APPLIED, CANCELED, or FAILED until the limit.
FinishEffect(w) ==
  /\ run[w].pc \in {"fFinish", "fCancel", "fFail"}
  /\ LET c == run[w].r
     IN  /\ effect' = [effect EXCEPT ![c[1]] =
                         CASE run[w].pc = "fFinish" -> Finalized(@, c[2], "APPLIED")
                           [] run[w].pc = "fCancel" -> Finalized(@, c[2], "CANCELED")
                           [] run[w].pc = "fFail"   -> Failed(@, c[2])]
         /\ Set(w, [run[w] EXCEPT !.pc = "fNext", !.fx = @ \ {c}, !.r = "none", !.row = "NONE"])
  /\ UNCHANGED <<event, intent, reward, granted, crashes, updates>>

-----------------------------------------------------------------------------
(* Others that change the same rows *)

\* updateReward: refused once a delivery was accepted or an entitlement exists.
StaffUpdate(w, i, status) ==
  /\ run[w].pc = "idle" /\ updates < MaxUpdates /\ updates' = updates + 1
  /\ i \in Rewards /\ ~reward[i].requested /\ reward[i].status # status
  /\ i \in Cases => granted[i] = 0
  /\ reward' = [reward EXCEPT ![i].status = status]
  /\ effect' = Seeded(i, status)
  /\ Set(w, Reconcile(w, i, status, "idle"))
  /\ UNCHANGED <<event, intent, granted, crashes>>

\* recoverProfileLootBoxRewardEffects reconciles a loot-box reward once more.
RecoverCase(w, i) ==
  /\ run[w].pc = "idle" /\ i \in Cases /\ reward[i].status \in {"APPROVED", "PAID"}
  /\ effect[<<i, "deliver">>].status \in {"NONE", "WAITING_CLAIM", "PENDING", "FAILED", "PROCESSING"}
  /\ Set(w, Reconcile(w, i, reward[i].status, "idle"))
  /\ UNCHANGED <<event, intent, reward, effect, granted, crashes, updates>>

\* The guest accepts a bonus: its effect may run, and a run for it starts.
GuestClaim(w, i) ==
  /\ run[w].pc = "idle" /\ i \notin Cases
  /\ reward[i].status = "APPROVED" /\ ~reward[i].requested
  /\ reward' = [reward EXCEPT ![i].requested = TRUE]
  /\ effect' = [effect EXCEPT ![<<i, "deliver">>] =
                  IF @.status = "WAITING_CLAIM" THEN [@ EXCEPT !.status = "PENDING"] ELSE @]
  /\ Set(w, [Idle EXCEPT !.pc = "fSweep", !.todo = {i}])
  /\ UNCHANGED <<event, intent, granted, crashes, updates>>

\* The guest tries again: a failed effect below the limit is queued again.
GuestRetry(i) ==
  /\ reward[i].requested /\ granted[i] = 0
  /\ LET row == effect[<<i, "deliver">>]
     IN  /\ row.status = "FAILED" /\ row.attempts < MaxAttempts
         /\ effect' = [effect EXCEPT ![<<i, "deliver">>].status = "PENDING"]
  /\ UNCHANGED <<event, intent, reward, granted, run, crashes, updates>>

\* An unclaimed bonus expires with its effect.
ClaimExpires(i) ==
  /\ i \notin Cases /\ reward[i].status = "APPROVED" /\ ~reward[i].requested
  /\ reward' = [reward EXCEPT ![i].status = "EXPIRED"]
  /\ effect' = [effect EXCEPT ![<<i, "deliver">>] =
                  IF @.status = "WAITING_CLAIM" THEN Becomes(@, "CANCELED") ELSE @]
  /\ UNCHANGED <<event, intent, granted, run, crashes, updates>>

\* The bonus ledger's own worker queues what guests asked for, effect or not.
LedgerQueues(i) ==
  /\ i \notin Cases /\ granted[i] = 0
  /\ reward[i].status = "APPROVED" /\ reward[i].requested
  /\ granted' = [granted EXCEPT ![i] = 1]
  /\ UNCHANGED <<event, intent, reward, effect, run, crashes, updates>>

\* The import's batch of remediations.
RemediationDrain ==
  /\ ~marker /\ source = "ambiguous" /\ ~Busy
  /\ RemediateEvent
  /\ UNCHANGED <<source, reward, granted, run, crashes, updates>>

SourceChanges ==
  /\ source' \in Sources \ {source}
  /\ UNCHANGED <<marker, intent, reward, effect, granted, run, crashes, updates>>

LeaseExpires ==
  /\ \/ \E i \in Intents :
          /\ Leased(intent[i]) /\ intent' = [intent EXCEPT ![i].expired = TRUE]
          /\ UNCHANGED effect
     \/ \E e \in Effects :
          /\ Leased(effect[e]) /\ effect' = [effect EXCEPT ![e].expired = TRUE]
          /\ UNCHANGED intent
  /\ UNCHANGED <<event, reward, granted, run, crashes, updates>>

Crash(w) ==
  /\ run[w].pc # "idle" /\ crashes < MaxCrashes /\ crashes' = crashes + 1
  /\ Set(w, Idle)
  /\ UNCHANGED <<event, intent, reward, effect, granted, updates>>

Step(w) ==
  \/ PrepareIntents(w) \/ SuspendIntents(w) \/ SweepAndList(w) \/ ReconcileApplied(w)
  \/ ClaimIntents(w) \/ DropBadPlan(w) \/ MakeReward(w) \/ MakeFails(w) \/ FinishIntent(w)
  \/ FailIntent(w) \/ PrepareReconcile(w) \/ SuspendReconcile(w) \/ SeedEffects(w)
  \/ SweepEffects(w) \/ PrepareEffects(w) \/ SuspendEffects(w) \/ ClaimEffects(w)
  \/ FinishRun(w) \/ ReadReward(w) \/ ApplyEffect(w) \/ ApplyFails(w) \/ FinishEffect(w)

Next ==
  \/ \E w \in Workers :
       \/ Step(w) \/ StartIntents(w) \/ StartReplay(w) \/ StartEffects(w) \/ Crash(w)
       \/ \E i \in Intents :
            \/ RecoverCase(w, i) \/ GuestClaim(w, i)
            \/ \E s \in {"APPROVED", "PAID", "CANCELED"} : StaffUpdate(w, i, s)
  \/ \E i \in Intents : GuestRetry(i) \/ ClaimExpires(i) \/ LedgerQueues(i)
  \/ RemediationDrain \/ SourceChanges \/ LeaseExpires

Spec == Init /\ [][Next]_vars

\* Awaited calls return and leases run out.  The scheduler starts its two runs again
\* and again, whatever other requests the same workers serve in between.
FairSpec ==
  /\ Spec /\ WF_vars(LeaseExpires) /\ \A w \in Workers : WF_vars(Step(w))
  /\ SF_vars(\E w \in Workers : StartIntents(w))
  /\ SF_vars(\E w \in Workers : StartEffects(w))

-----------------------------------------------------------------------------
Statuses == {"NONE", "WAITING_CLAIM", "PENDING", "FAILED", "PROCESSING", "APPLIED",
             "CANCELED", "DEAD_LETTER", "RECONCILIATION_REQUIRED"}
Rows == [status : Statuses, attempts : 0..MaxAttempts, expired : BOOLEAN]
Settled == {"APPLIED", "CANCELED", "DEAD_LETTER", "RECONCILIATION_REQUIRED"}

\* Statuses, counters and leases stay in range.
PipelineTypeOK ==
  /\ source \in {"ready", "pending", "incoherent", "ambiguous"} /\ marker \in BOOLEAN
  /\ intent \in [Intents -> Rows] /\ effect \in [Effects -> Rows]
  /\ reward \in [Intents -> [status : {"NONE", "PENDING", "APPROVED", "PAID", "CANCELED", "EXPIRED"},
                              requested : BOOLEAN]]
  /\ granted \in [Intents -> Nat]
  /\ \A w \in Workers : run[w].claims \subseteq Intents \X (1..MaxAttempts)
                         /\ run[w].fx \subseteq Effects \X (1..MaxAttempts)
  /\ crashes \in 0..MaxCrashes /\ updates \in 0..MaxUpdates

\* A reward is delivered at most once and a finished row has its result behind it: an
\* APPLIED intent its reward, an APPLIED delivery its entitlement or ledger entry,
\* whoever finished it after how many crashes and takeovers.
ResultBehindApplied ==
  \A i \in Intents :
    /\ intent[i].status = "APPLIED" => reward[i].status # "NONE"
    /\ effect[<<i, "deliver">>].status = "APPLIED" => granted[i] > 0
    /\ granted[i] <= 1

\* A loot box the guest can open belongs to an approved reward: staff and the run
\* that grants it may race, but a reward that is canceled or unapproved has none.
CaseIsApproved ==
  \A i \in Cases : granted[i] > 0 => reward[i].status \in {"APPROVED", "PAID"}

\* Once the event is marked no run makes another reward or loot box of it, however
\* long before the mark its preflight and its lease are.
NothingAfterMarker ==
  [][marker => \A i \in Intents :
       /\ reward[i].status = "NONE" => reward'[i].status = "NONE"
       /\ i \in Cases => granted'[i] = granted[i]]_vars

HeldBy(w, key, version) == <<key, version>> \in run[w].claims \cup run[w].fx

\* While a lease runs, only its holder changes the row: no sweep, suspension,
\* remediation, other claim or late finalization of an earlier holder does.
LeaseIsRespected ==
  [][/\ \A i \in Intents :
          Leased(intent[i]) /\ intent'[i].status # "PROCESSING" =>
            \E w \in Workers : HeldBy(w, i, intent[i].attempts) /\ run'[w] # run[w]
     /\ \A e \in Effects :
          Leased(effect[e]) /\ effect'[e].status # "PROCESSING" =>
            \E w \in Workers : HeldBy(w, e, effect[e].attempts) /\ run'[w] # run[w]
     /\ \A i \in Intents : Leased(intent[i]) => intent'[i].attempts = intent[i].attempts
     /\ \A e \in Effects : Leased(effect[e]) => effect'[e].attempts = effect[e].attempts]_vars

\* A settled row stays as it is: a worker whose row was quarantined, swept or taken
\* over under it cannot bring it back.
SettledIsFinal ==
  [][/\ \A i \in Intents : intent[i].status \in Settled => intent'[i] = intent[i]
     /\ \A e \in Effects : effect[e].status \in Settled => effect'[e] = effect[e]]_vars

\* While the source is sound the queue drains, crashes and failures included: in the
\* end every intent is settled for good, and every effect is settled too, was never
\* made or waits for the guest's claim.
QueueSettles ==
  <>[](/\ \A i \in Intents : intent[i].status \in Settled
       /\ \A e \in Effects : effect[e].status \in Settled \cup {"NONE", "WAITING_CLAIM"})
=============================================================================
