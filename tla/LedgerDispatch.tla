--------------------------- MODULE LedgerDispatch ---------------------------
(***************************************************************************)
(* GuestBonusLedgerService: dispatch() as a process that queues, promotes, *)
(* claims and then delivers one claimed entry after the other, and the     *)
(* operator's endpoints.  A worker's pc names the next awaited operation;  *)
(* everything between two awaits is one step, and a database transaction   *)
(* is one step.                                                            *)
(***************************************************************************)
EXTENDS BonusState

IdleWorker == [pc |-> "idle", rev |-> 0, seen |-> {}, todo |-> {},
               job |-> NoJob, age |-> 0]

BeforeDispatch == {"prepare", "revalidate", "mark"}
AfterDispatch == {"recheck", "target", "permit", "own", "send", "wait", "confirm"}
HoldsJob == BeforeDispatch \cup AfterDispatch \cup {"unknown"}
WorkerPc == {"idle", "queue", "create", "promote", "claim", "next"} \cup HoldsJob

SetWorker(w, x) == worker' = [worker EXCEPT ![w] = x]
Goto(w, pc) == SetWorker(w, [worker[w] EXCEPT !.pc = pc])
Finish(w) == SetWorker(w, [worker[w] EXCEPT !.pc = "next", !.job = NoJob, !.age = 0])

\* The compare-and-set without claimGeneration: attempts repeat after a reset.
BugOwnsByAttempts(t, status) ==
  entry[t.id].status = status /\ entry[t.id].attempts = t.attempts

\* The compare-and-set that guards every transition a worker makes.
Owns(t, status) ==
  LET e == entry[t.id] IN
  /\ e.status = status /\ e.attempts = t.attempts
  /\ e.gen = t.gen /\ e.rev = t.rev

Cas(t, status, e) ==
  entry' = IF Owns(t, status) THEN [entry EXCEPT ![t.id] = e] ELSE entry

-----------------------------------------------------------------------------
(* One pass of dispatchWithRuntimeScope up to the claim.                   *)

\* acquirePermit; without admission dispatch() returns and changes nothing.
AcquirePermit(w) ==
  /\ worker[w].pc = "idle" /\ tenant.admitted
  /\ SetWorker(w, [worker[w] EXCEPT !.pc = "queue", !.rev = tenant.rev])
  /\ UNCHANGED <<rows, tenant, guest, provider, crashes>>

\* The findMany of queueApprovedRewards.  Rewards without a phone or without a
\* settlement store are skipped, hence any subset.
QueueApprovedRewards(w) ==
  /\ worker[w].pc = "queue"
  /\ \E S \in SUBSET {r \in Rewards : Queueable(r)} :
       SetWorker(w, [worker[w] EXCEPT !.pc = "create", !.seen = S])
  /\ UNCHANGED <<rows, tenant, guest, provider, crashes>>

\* Its createMany with skipDuplicates, on what was read before.
CreateEntries(w) ==
  /\ worker[w].pc = "create"
  /\ entry' = [r \in Rewards |->
       IF r \in worker[w].seen /\ entry[r].status = "NONE" THEN NewEntry ELSE entry[r]]
  /\ SetWorker(w, [worker[w] EXCEPT !.pc = "promote", !.seen = {}])
  /\ UNCHANGED <<reward, wallet, tenant, guest, provider, crashes>>

\* A dispatch nobody finished is put back into the queue, or left alone.
BugRequeueStaleDispatching(w) ==
  /\ worker[w].pc = "promote"
  /\ entry' = [r \in Rewards |->
       IF entry[r].status = "DISPATCHING" /\ LockStale(entry[r])
         THEN [entry[r] EXCEPT !.status = "PENDING", !.age = 0] ELSE entry[r]]
  /\ Goto(w, "claim")
  /\ UNCHANGED <<reward, wallet, tenant, guest, provider, crashes>>

BugNoPromotion(w) ==
  /\ worker[w].pc = "promote"
  /\ Goto(w, "claim")
  /\ UNCHANGED <<rows, tenant, guest, provider, crashes>>

\* promoteStaleDispatchingEntries: a dispatch nobody finished has an unknown
\* outcome and leaves the automatic queue.
PromoteStaleDispatching(w) ==
  /\ worker[w].pc = "promote"
  /\ entry' = [r \in Rewards |->
       IF entry[r].status = "DISPATCHING" /\ LockStale(entry[r])
         THEN [entry[r] EXCEPT !.status = "RECONCILIATION_REQUIRED", !.next = "null",
                               !.err = "OTHER", !.age = 0]
         ELSE entry[r]]
  /\ Goto(w, "claim")
  /\ UNCHANGED <<reward, wallet, tenant, guest, provider, crashes>>

\* A stale claim is never taken over.
BugClaimsOnlyQueued(r) ==
  LET e == entry[r] IN
  /\ e.gen < MaxClaims
  /\ e.status = "PENDING" \/ (e.status = "FAILED" /\ e.attempts < MaxAttempts /\ RetryDue(e))
  /\ reward[r].status = "APPROVED" /\ DeliveryGate(r)

\* MaxClaims bounds the claims of queued entries; reclaims of a stale
\* PROCESSING entry are bounded by MaxAttempts already.
Claimable(r) ==
  LET e == entry[r] IN
  /\ \/ e.gen < MaxClaims /\ e.status = "PENDING"
     \/ e.gen < MaxClaims /\ e.status = "FAILED" /\ e.attempts < MaxAttempts /\ RetryDue(e)
     \/ e.status = "PROCESSING" /\ e.attempts < MaxAttempts /\ LockStale(e)
     \/ e.gen < MaxClaims /\ e.status = "FAILED" /\ e.attempts >= MaxAttempts
        /\ (e.err = "PORTAL_DOMAIN" \/ wallet[r] = "PROCESSING")
  /\ reward[r].status = "APPROVED" /\ DeliveryGate(r)

ClaimedRow(r, rev) ==
  [entry[r] EXCEPT !.status = "PROCESSING", !.attempts = @ + 1, !.gen = @ + 1,
                   !.rev = rev, !.age = 0]

ClaimToken(r, rev) == [id |-> r, attempts |-> entry[r].attempts + 1,
                       gen |-> entry[r].gen + 1, rev |-> rev]

\* claimReadyEntries: one UPDATE ... RETURNING over at most BatchLimit rows,
\* FOR UPDATE SKIP LOCKED.
ClaimReadyEntries(w) ==
  /\ worker[w].pc = "claim"
  /\ \E S \in SUBSET {r \in Rewards : Claimable(r)} :
       /\ Cardinality(S) <= BatchLimit
       /\ S # {} \/ {r \in Rewards : Claimable(r)} = {}
       /\ entry' = [r \in Rewards |->
                      IF r \in S THEN ClaimedRow(r, worker[w].rev) ELSE entry[r]]
       /\ SetWorker(w, [worker[w] EXCEPT !.pc = "next",
                          !.todo = {ClaimToken(r, worker[w].rev) : r \in S}])
  /\ UNCHANGED <<reward, wallet, tenant, guest, provider, crashes>>

\* The loop does not take the entry off its list.
BugNextKeepsEntry(w) ==
  /\ worker[w].pc = "next"
  /\ IF worker[w].todo = {}
       THEN SetWorker(w, IdleWorker)
       ELSE \E t \in worker[w].todo :
              SetWorker(w, [worker[w] EXCEPT !.pc = "prepare", !.job = t])
  /\ UNCHANGED <<rows, tenant, guest, provider, crashes>>

\* The loop over the claimed entries.
NextEntry(w) ==
  /\ worker[w].pc = "next"
  /\ IF worker[w].todo = {}
       THEN SetWorker(w, IdleWorker)
       ELSE \E t \in worker[w].todo :
              SetWorker(w, [worker[w] EXCEPT !.pc = "prepare", !.job = t,
                                             !.todo = @ \ {t}])
  /\ UNCHANGED <<rows, tenant, guest, provider, crashes>>

-----------------------------------------------------------------------------
(* processClaimedEntry.                                                    *)

\* Resolving the phone and the staff reason, building the payload.
PrepareEntry(w) ==
  /\ worker[w].pc = "prepare"
  /\ Goto(w, "revalidate")
  /\ UNCHANGED <<rows, tenant, guest, provider, crashes>>

FailedRow(t) ==
  [entry[t.id] EXCEPT
     !.status = "FAILED", !.age = 0,
     !.next = IF t.attempts >= MaxAttempts THEN "null" ELSE "retry",
     !.err = IF t.attempts >= MaxAttempts THEN "MAX_ATTEMPTS_REACHED"
                                           ELSE "LANGAME_WRITE_FAILED"]

\* failEntry: an error before the entry was marked DISPATCHING.
FailEntry(w) ==
  LET t == worker[w].job IN
  /\ worker[w].pc \in BeforeDispatch
  /\ Cas(t, "PROCESSING", FailedRow(t))
  /\ wallet' = IF Owns(t, "PROCESSING") /\ wallet[t.id] = "PROCESSING"
                 THEN [wallet EXCEPT ![t.id] = "FAILED"] ELSE wallet
  /\ Finish(w)
  /\ UNCHANGED <<reward, tenant, guest, provider, crashes>>

\* The reward can no longer be delivered now: parked in the queue while the
\* guest's claim is awaited or accepted, canceled otherwise.
ParkedRow(r) ==
  LET q == reward[r]
      waits == q.claimRequired /\ (q.requested \/ ~q.lapsed) IN
  [entry[r] EXCEPT !.status = IF q.status = "APPROVED" /\ waits THEN "PENDING"
                                                                ELSE "CANCELED",
                   !.next = "null", !.err = "OTHER", !.age = 0]

\* A claimed reward may be bound to a settlement store; when that store or its
\* wallet item has changed, the delivery is refused.
Settlement(r) == {TRUE, ~reward[r].claimRequired}

\* revalidateClaimedEntryForDelivery, called before ("PROCESSING") and after
\* ("DISPATCHING") the entry is marked.
Revalidate(w, from, status, to) ==
  LET t == worker[w].job IN
  /\ worker[w].pc = from
  /\ \E settled \in Settlement(t.id) :
       IF reward[t.id].status = "APPROVED" /\ DeliveryGate(t.id) /\ settled
         THEN /\ wallet' = IF reward[t.id].claimRequired
                             THEN [wallet EXCEPT ![t.id] = "PROCESSING"] ELSE wallet
              /\ Goto(w, to)
              /\ UNCHANGED entry
         ELSE /\ Cas(t, status, ParkedRow(t.id))
              /\ Finish(w)
              /\ UNCHANGED wallet
  /\ UNCHANGED <<reward, tenant, guest, provider, crashes>>

RevalidateClaimed(w) == Revalidate(w, "revalidate", "PROCESSING", "mark")
RevalidateDispatching(w) == Revalidate(w, "recheck", "DISPATCHING", "target")

\* markEntryDispatching, under locks on the reward and the wallet item.
MarkEntryDispatching(w) ==
  LET t == worker[w].job IN
  /\ worker[w].pc = "mark"
  /\ \E settled \in Settlement(t.id) :
       IF AwaitsDelivery(t.id) /\ settled /\ Owns(t, "PROCESSING")
         THEN /\ SetEntry(t.id, [entry[t.id] EXCEPT !.status = "DISPATCHING",
                                   !.next = "null", !.err = "null", !.age = 0])
              /\ Goto(w, "recheck")
         ELSE UNCHANGED entry /\ Finish(w)
  /\ UNCHANGED <<reward, wallet, tenant, guest, provider, crashes>>

\* returnDispatchingEntryAfter...: nothing was sent, the attempt is given back.
ReturnDispatching(w) ==
  LET t == worker[w].job IN
  /\ Cas(t, "DISPATCHING",
         [entry[t.id] EXCEPT !.status = "PENDING", !.attempts = @ - 1,
                             !.next = "null", !.err = "OTHER", !.age = 0])
  /\ Finish(w)

\* The phone is resolved again; a changed or missing target returns the entry.
CheckTarget(w) ==
  /\ worker[w].pc = "target"
  /\ \/ Goto(w, "permit") /\ UNCHANGED entry
     \/ ReturnDispatching(w)
  /\ UNCHANGED <<reward, wallet, tenant, guest, provider, crashes>>

\* evaluatePermit, then the background registry and the runtime identity.
EvaluatePermit(w) ==
  /\ worker[w].pc = "permit"
  /\ IF tenant.admitted /\ tenant.rev = worker[w].job.rev
       THEN Goto(w, "own") /\ UNCHANGED entry
       ELSE ReturnDispatching(w)
  /\ UNCHANGED <<reward, wallet, tenant, guest, provider, crashes>>

\* ownsCurrentDispatch.  A worker that lost the entry returns without a trace.
OwnsCurrentDispatch(w) ==
  LET t == worker[w].job IN
  /\ worker[w].pc = "own"
  /\ IF Owns(t, "DISPATCHING") /\ tenant.rev = t.rev
       THEN SetWorker(w, [worker[w] EXCEPT !.pc = "send", !.age = 0])
       ELSE Finish(w)
  /\ UNCHANGED <<rows, tenant, guest, provider, crashes>>

\* adjustGuestBalanceByPhone leaves for Langame.
SendCall(w) ==
  LET t == worker[w].job IN
  /\ worker[w].pc = "send"
  /\ wire' = wire \cup {[id |-> t.id, gen |-> t.gen, age |-> worker[w].age]}
  /\ SetWorker(w, [worker[w] EXCEPT !.pc = "wait", !.age = 0])
  /\ UNCHANGED <<rows, tenant, guest, credited, balance, crashes>>

\* A timed-out call counts as delivered.
BugTimeoutConfirms(w) ==
  LET t == worker[w].job IN
  /\ worker[w].pc = "wait"
  /\ Goto(w, "confirm")
  /\ UNCHANGED <<rows, tenant, guest, provider, crashes>>

\* The answer arrives, which it only does for a write that was applied.
ReceiveResponse(w) ==
  LET t == worker[w].job IN
  /\ worker[w].pc = "wait"
  /\ [id |-> t.id, gen |-> t.gen] \in credited
  /\ Goto(w, "confirm")
  /\ UNCHANGED <<rows, tenant, guest, provider, crashes>>

ConfirmedRow(r) ==
  [entry[r] EXCEPT !.status = "CONFIRMED", !.next = "null", !.err = "null", !.age = 0]

\* What confirmEntryInTransaction writes when it does not throw.
SettleReward(r) ==
  /\ SetEntry(r, ConfirmedRow(r))
  /\ reward' = [reward EXCEPT ![r].status = "PAID", ![r].paid = TRUE]
  /\ wallet' = IF wallet[r] = "PROCESSING"
                 THEN [wallet EXCEPT ![r] = "CLAIMED"] ELSE wallet

\* confirmEntry.
ConfirmEntry(w) ==
  LET t == worker[w].job IN
  /\ worker[w].pc = "confirm"
  /\ IF AwaitsDelivery(t.id) /\ Owns(t, "DISPATCHING")
       THEN SettleReward(t.id) /\ Finish(w)
       ELSE UNCHANGED rows /\ Goto(w, "unknown")
  /\ UNCHANGED <<tenant, guest, provider, crashes>>

\* Any error once dispatchStarted is TRUE: timeout, lost or negative answer,
\* unavailable source, database error.
DispatchError(w) ==
  /\ worker[w].pc \in AfterDispatch
  /\ SetWorker(w, [worker[w] EXCEPT !.pc = "unknown", !.age = 0])
  /\ UNCHANGED <<rows, tenant, guest, provider, crashes>>

\* The error path of an attempt that was not sent, used for one that was.
BugUnknownRequeued(w) ==
  LET t == worker[w].job IN
  /\ worker[w].pc = "unknown"
  /\ Cas(t, "DISPATCHING", [entry[t.id] EXCEPT !.status = "FAILED", !.next = "retry",
                                                !.age = 0])
  /\ Finish(w)
  /\ UNCHANGED <<reward, wallet, tenant, guest, provider, crashes>>

\* markEntryReconciliationRequired.
MarkReconciliationRequired(w) ==
  LET t == worker[w].job IN
  /\ worker[w].pc = "unknown"
  /\ Cas(t, "DISPATCHING",
         [entry[t.id] EXCEPT !.status = "RECONCILIATION_REQUIRED", !.next = "null",
                             !.err = "OTHER", !.age = 0])
  /\ Finish(w)
  /\ UNCHANGED <<reward, wallet, tenant, guest, provider, crashes>>

\* The process dies, or a database error escapes from dispatch(): the claims it
\* holds are abandoned as they are, and the next timer tick starts a new run.
Crash(w) ==
  /\ worker[w].pc # "idle" /\ crashes < MaxCrashes
  /\ SetWorker(w, IdleWorker)
  /\ crashes' = crashes + 1
  /\ UNCHANGED <<rows, tenant, guest, provider>>

WorkerStep(w) ==
  \/ AcquirePermit(w) \/ QueueApprovedRewards(w) \/ CreateEntries(w)
  \/ PromoteStaleDispatching(w) \/ ClaimReadyEntries(w) \/ NextEntry(w)
  \/ PrepareEntry(w) \/ FailEntry(w) \/ RevalidateClaimed(w)
  \/ MarkEntryDispatching(w) \/ RevalidateDispatching(w) \/ CheckTarget(w)
  \/ EvaluatePermit(w) \/ OwnsCurrentDispatch(w) \/ SendCall(w)
  \/ ReceiveResponse(w) \/ ConfirmEntry(w) \/ DispatchError(w)
  \/ MarkReconciliationRequired(w)

-----------------------------------------------------------------------------
(* The operator.  resolveReconciliation takes the operator's word for what *)
(* Langame shows; the operator is assumed to report it as it is.           *)

SeenAtProvider(r) == \E c \in credited : c.id = r

ResolveConfirmed(r) ==
  /\ entry[r].status = "RECONCILIATION_REQUIRED" /\ SeenAtProvider(r)
  /\ AwaitsDelivery(r)
  /\ SettleReward(r)
  /\ UNCHANGED <<tenant, worker, guest, provider, crashes>>

\* NOT_APPLIED is accepted as soon as Langame shows nothing.
BugNotAppliedAtOnce(r) ==
  /\ entry[r].status = "RECONCILIATION_REQUIRED" /\ ~SeenAtProvider(r)
  /\ AwaitsDelivery(r)
  /\ SetEntry(r, [entry[r] EXCEPT !.status = "FAILED", !.attempts = 0, !.next = "now",
                                  !.err = "RECONCILIATION_NOT_APPLIED", !.age = 0])
  /\ UNCHANGED <<reward, wallet, tenant, worker, guest, provider, crashes>>

ResolveNotApplied(r) ==
  /\ entry[r].status = "RECONCILIATION_REQUIRED" /\ ~SeenAtProvider(r)
  /\ QuarantineElapsed(entry[r]) /\ AwaitsDelivery(r)
  /\ SetEntry(r, [entry[r] EXCEPT !.status = "FAILED", !.attempts = 0, !.next = "now",
                                  !.err = "RECONCILIATION_NOT_APPLIED", !.age = 0])
  /\ wallet' = IF wallet[r] = "PROCESSING"
                 THEN [wallet EXCEPT ![r] = "FAILED"] ELSE wallet
  /\ UNCHANGED <<reward, tenant, worker, guest, provider, crashes>>

\* An administrator cancels a delivery that the guest has asked for.
BugCancelAccepted(r) ==
  /\ entry[r].status \in {"PENDING", "FAILED"}
  /\ SetEntry(r, [entry[r] EXCEPT !.status = "CANCELED", !.next = "null", !.age = 0])
  /\ SetRewardStatus(r, "CANCELED")
  /\ UNCHANGED <<wallet, tenant, worker, guest, provider, crashes>>

CancelEntry(r) ==
  /\ \/ entry[r].status \in {"PENDING", "FAILED", "CANCELED"}
     \/ entry[r].status = "PROCESSING" /\ LockStale(entry[r])
  /\ ~AcceptedDelivery(r)
  /\ SetEntry(r, [entry[r] EXCEPT !.status = "CANCELED", !.next = "null", !.age = 0])
  /\ reward' = IF reward[r].status = "APPROVED"
                 THEN [reward EXCEPT ![r].status = "CANCELED"] ELSE reward
  /\ UNCHANGED <<wallet, tenant, worker, guest, provider, crashes>>

OperatorStep(r) ==
  "operator" \in Actors /\ (ResolveConfirmed(r) \/ ResolveNotApplied(r) \/ CancelEntry(r))
=============================================================================
