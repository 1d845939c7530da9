--------------------------- MODULE BonusRowProofs ---------------------------
(***************************************************************************)
(* Bonus delivery implements PayOnce.  Every step moves each ledger row by *)
(* one of the moves of PayOnce (RowMoves), which follows from PayInv; only *)
(* Langame's application of a write changes a balance, and it pays.        *)
(***************************************************************************)
EXTENDS BonusPayProofs, BonusRefinement

Owed == {"NONE", "PENDING", "PROCESSING", "FAILED"}

\* A row keeps its phase, leaves the queue, goes back or is closed without a
\* credit, or is confirmed with one.
RowMoves(r) ==
  \/ entry'[r].status = entry[r].status
  \/ entry[r].status \in Owed /\ entry'[r].status # "CONFIRMED"
  \/ entry[r].status \in Uncertain /\ entry'[r].status \in Uncertain
  \/ entry[r].status \in Uncertain /\ entry'[r].status # "CONFIRMED" /\ balance[r] = 0
  \/ entry[r].status \in Uncertain /\ entry'[r].status = "CONFIRMED" /\ balance[r] = 1

\* Moves of rows are moves of PayOnce.
LEMMA RowMovesSettle ==
  ASSUME TypeOK, TypeOK', UNCHANGED balance, \A r \in Rewards : RowMoves(r)
  PROVE  Abs!Settle
  <1>1. \A r \in Rewards : entry[r].status \in EntryStatus /\ entry'[r].status \in EntryStatus
    BY DEF TypeOK, Entry
  <1>2. \A r \in Rewards : Phase(r) \in Abs!PhaseSet /\ Phase(r)' \in Abs!PhaseSet
    BY DEF Phase, Abs!PhaseSet
  <1>3. ASSUME NEW r \in Rewards PROVE Abs!Move(r)
    <2>1. RowMoves(r) /\ entry[r].status \in EntryStatus /\ entry'[r].status \in EntryStatus
      BY <1>1
    <2>2. \/ Phase(r)' = Phase(r)
          \/ Phase(r) = "owed" /\ Phase(r)' \in {"open", "void"}
          \/ Phase(r) = "open" /\ Phase(r)' \in {"owed", "void"} /\ balance[r] = 0
          \/ Phase(r) = "open" /\ Phase(r)' = "paid" /\ balance[r] = 1
      BY <2>1 DEF RowMoves, Phase, Uncertain, Owed, EntryStatus
    <2> QED BY <2>2 DEF Abs!Move
  <1> QED BY <1>2, <1>3 DEF Abs!Settle

-----------------------------------------------------------------------------
\* Under a claim that has sent nothing, the entry it owns was not credited.
LEMMA UnsentIsUncredited ==
  ASSUME TypeOK, PayCore, NEW w \in Workers, worker[w].pc \in BeforeSend,
         entry[worker[w].job.id].gen = worker[w].job.gen
  PROVE  balance[worker[w].job.id] = 0
  <1> DEFINE t == worker[w].job
  <1>1. t \in Unsent(worker[w]) /\ t \in Token
    BY TokenType DEF Unsent
  <1>2. ~SeenAtProvider(t.id)
    <2> SUFFICES ASSUME NEW c \in credited, c.id = t.id PROVE FALSE
      BY DEF SeenAtProvider
    <2>1. c = [id |-> t.id, gen |-> t.gen] BY DEF PayCore, Credits, TypeOK, Credit
    <2> QED BY <1>1, <2>1 DEF PayCore, NotSentYet
  <1> QED BY <1>1, <1>2 DEF PayCore, Credits, Token

LEMMA SameMoves == ASSUME UNCHANGED entry PROVE \A r \in Rewards : RowMoves(r)
  BY DEF RowMoves

LEMMA SetMoves ==
  ASSUME TypeOK, NEW r \in Rewards, NEW e, SetEntry(r, e),
         \/ entry[r].status \in Owed \cup {e.status} /\ e.status # "CONFIRMED"
         \/ entry[r].status \in Uncertain /\ e.status # "CONFIRMED" /\ balance[r] = 0
         \/ entry[r].status \in Uncertain /\ e.status = "CONFIRMED" /\ balance[r] = 1
  PROVE  \A q \in Rewards : RowMoves(q)
  <1>1. entry'[r] = e /\ \A q \in Rewards \ {r} : entry'[q] = entry[q]
    BY DEF SetEntry, TypeOK
  <1> QED BY <1>1 DEF RowMoves

LEMMA CasMoves ==
  ASSUME TypeOK, PayCore, NEW w \in Workers, worker[w].pc \in HoldsJob, NEW st, NEW e,
         Cas(worker[w].job, st, e), e.status # "CONFIRMED",
         \/ st = "PROCESSING"
         \/ st = "DISPATCHING" /\ e.status = "RECONCILIATION_REQUIRED"
         \/ st = "DISPATCHING" /\ worker[w].pc \in BeforeSend
  PROVE  \A r \in Rewards : RowMoves(r)
  <1> DEFINE t == worker[w].job
  <1>1. t \in Token BY DEF TypeOK
  <1>2. /\ \A r \in Rewards \ {t.id} : RowKept(r)
        /\ \/ RowKept(t.id)
           \/ entry'[t.id] = e /\ entry[t.id].status = st /\ entry[t.id].gen = t.gen
    BY <1>1, CasRows
  <1>3. ASSUME entry'[t.id] = e, entry[t.id].status = st, entry[t.id].gen = t.gen
        PROVE  RowMoves(t.id)
    BY <1>3, UnsentIsUncredited DEF RowMoves, Owed, Uncertain
  <1> QED BY <1>2, <1>3 DEF RowKept, RowMoves

LEMMA SettleMoves ==
  ASSUME TypeOK, PayCore, NEW r \in Rewards, SettleReward(r), entry[r].status \in Uncertain,
         SeenAtProvider(r)
  PROVE  \A q \in Rewards : RowMoves(q)
  <1>1. ConfirmedRow(r).status = "CONFIRMED" BY DEF ConfirmedRow, TypeOK, Entry
  <1>2. balance[r] = 1 BY DEF PayCore, Credits
  <1> QED BY <1>1, <1>2, SetMoves DEF SettleReward

\* The worker: what goes back to the queue was not sent, what is confirmed was
\* answered by Langame.
LEMMA WorkerMoves ==
  ASSUME TypeOK, PayCore, NEW w \in Workers, WorkerStep(w) \/ Crash(w)
  PROVE  (\A r \in Rewards : RowMoves(r)) /\ UNCHANGED balance
  <1> USE DEF rows, provider
  <1> DEFINE t == worker[w].job
  <1>0. worker[w].pc \in HoldsJob => t \in Token /\ t.id \in Rewards /\ entry[t.id] \in Entry
    BY DEF TypeOK, Token
  <1>1. CASE \/ AcquirePermit(w) \/ QueueApprovedRewards(w) \/ NextEntry(w) \/ PrepareEntry(w)
             \/ OwnsCurrentDispatch(w) \/ SendCall(w) \/ ReceiveResponse(w)
             \/ DispatchError(w) \/ Crash(w)
    <2>1. UNCHANGED <<entry, balance>>
      BY <1>1 DEF AcquirePermit, QueueApprovedRewards, NextEntry, PrepareEntry,
                  OwnsCurrentDispatch, SendCall, ReceiveResponse, DispatchError, Crash
    <2> QED BY <2>1, SameMoves
  <1>2. CASE CreateEntries(w)
    <2>1. NewEntry.status = "PENDING" BY DEF NewEntry, NoEntry
    <2>2. \A r \in Rewards : RowMoves(r) BY <1>2, <2>1 DEF CreateEntries, RowMoves, Owed
    <2> QED BY <1>2, <2>2 DEF CreateEntries
  <1>3. CASE PromoteStaleDispatching(w)
    <2>1. \A r \in Rewards : RowMoves(r)
      BY <1>3 DEF PromoteStaleDispatching, RowMoves, Uncertain, TypeOK, Entry
    <2> QED BY <1>3, <2>1 DEF PromoteStaleDispatching
  <1>4. CASE ClaimReadyEntries(w)
    <2>1. \A r \in Rewards : ClaimedRow(r, worker[w].rev).status = "PROCESSING"
      BY DEF TypeOK, Entry, ClaimedRow
    <2>2. PICK S \in SUBSET {r \in Rewards : Claimable(r)} :
            entry' = [r \in Rewards |->
                        IF r \in S THEN ClaimedRow(r, worker[w].rev) ELSE entry[r]]
      BY <1>4 DEF ClaimReadyEntries
    <2>3. \A r \in S : entry[r].status \in Owed BY <2>2 DEF Claimable, Owed
    <2>4. \A r \in Rewards : RowMoves(r) BY <2>1, <2>2, <2>3 DEF RowMoves
    <2> QED BY <1>4, <2>4 DEF ClaimReadyEntries
  <1>5. CASE FailEntry(w)
    <2>1. worker[w].pc \in HoldsJob BY <1>5 DEF FailEntry, HoldsJob
    <2>2. FailedRow(t).status = "FAILED" BY <1>0, <2>1 DEF FailedRow, Entry
    <2> QED BY <1>5, <2>1, <2>2, CasMoves DEF FailEntry
  <1>6. CASE RevalidateClaimed(w) \/ RevalidateDispatching(w)
    <2>1. worker[w].pc \in HoldsJob /\ worker[w].pc \in BeforeSend
      BY <1>6 DEF RevalidateClaimed, RevalidateDispatching, Revalidate, HoldsJob,
                  BeforeDispatch, AfterDispatch, BeforeSend
    <2>2. ParkedRow(t.id).status # "CONFIRMED" BY <1>0, <2>1 DEF ParkedRow, Entry
    <2>3. \/ UNCHANGED entry
          \/ \E st \in {"PROCESSING", "DISPATCHING"} : Cas(t, st, ParkedRow(t.id))
      BY <1>6 DEF RevalidateClaimed, RevalidateDispatching, Revalidate
    <2>4. \A r \in Rewards : RowMoves(r) BY <2>1, <2>2, <2>3, CasMoves, SameMoves
    <2> QED BY <1>6, <2>4 DEF RevalidateClaimed, RevalidateDispatching, Revalidate
  <1>7. CASE MarkEntryDispatching(w)
    <2> DEFINE e == [entry[t.id] EXCEPT !.status = "DISPATCHING", !.next = "null",
                                        !.err = "null", !.age = 0]
    <2>1. t.id \in Rewards /\ entry[t.id] \in Entry
      BY <1>0, <1>7 DEF MarkEntryDispatching, HoldsJob, BeforeDispatch
    <2>2. UNCHANGED entry \/ (entry[t.id].status = "PROCESSING" /\ SetEntry(t.id, e))
      BY <1>7 DEF MarkEntryDispatching, Owns
    <2>3. e.status = "DISPATCHING" BY <2>1 DEF Entry
    <2> HIDE DEF e
    <2>4. \A r \in Rewards : RowMoves(r) BY <2>1, <2>2, <2>3, SetMoves, SameMoves DEF Owed
    <2> QED BY <1>7, <2>4 DEF MarkEntryDispatching
  <1>8. CASE CheckTarget(w) \/ EvaluatePermit(w)
    <2>1. worker[w].pc \in HoldsJob /\ worker[w].pc \in BeforeSend
      BY <1>8 DEF CheckTarget, EvaluatePermit, HoldsJob, AfterDispatch, BeforeSend
    <2> DEFINE e == [entry[t.id] EXCEPT !.status = "PENDING", !.attempts = @ - 1,
                                        !.next = "null", !.err = "OTHER", !.age = 0]
    <2>2. UNCHANGED entry \/ Cas(t, "DISPATCHING", e)
      BY <1>8 DEF CheckTarget, EvaluatePermit, ReturnDispatching
    <2>3. e.status = "PENDING" BY <1>0, <2>1 DEF Entry
    <2> HIDE DEF e
    <2>4. \A r \in Rewards : RowMoves(r) BY <2>1, <2>2, <2>3, CasMoves, SameMoves
    <2> QED BY <1>8, <2>4 DEF CheckTarget, EvaluatePermit
  <1>9. CASE ConfirmEntry(w)
    <2>1. t.id \in Rewards BY <1>0, <1>9 DEF ConfirmEntry, HoldsJob, AfterDispatch
    <2>2. SeenAtProvider(t.id) BY <1>9 DEF ConfirmEntry, PayCore, Credits, SeenAtProvider
    <2>3. (entry[t.id].status \in Uncertain /\ SettleReward(t.id)) \/ UNCHANGED entry
      BY <1>9 DEF ConfirmEntry, Owns, Uncertain
    <2>4. \A r \in Rewards : RowMoves(r) BY <2>1, <2>2, <2>3, SettleMoves, SameMoves
    <2> QED BY <1>9, <2>4 DEF ConfirmEntry
  <1>10. CASE MarkReconciliationRequired(w)
    <2>1. worker[w].pc \in HoldsJob BY <1>10 DEF MarkReconciliationRequired, HoldsJob
    <2> DEFINE e == [entry[t.id] EXCEPT !.status = "RECONCILIATION_REQUIRED",
                                        !.next = "null", !.err = "OTHER", !.age = 0]
    <2>2. Cas(t, "DISPATCHING", e) BY <1>10 DEF MarkReconciliationRequired
    <2>3. e.status = "RECONCILIATION_REQUIRED" BY <1>0, <2>1 DEF Entry
    <2> HIDE DEF e
    <2>4. \A r \in Rewards : RowMoves(r) BY <2>1, <2>2, <2>3, CasMoves
    <2> QED BY <1>10, <2>4 DEF MarkReconciliationRequired
  <1> QED BY <1>1, <1>2, <1>3, <1>4, <1>5, <1>6, <1>7, <1>8, <1>9, <1>10 DEF WorkerStep

\* The operator confirms what Langame shows and releases what it does not show.
LEMMA OperatorMoves ==
  ASSUME TypeOK, PayCore, NEW r \in Rewards, OperatorStep(r)
  PROVE  (\A q \in Rewards : RowMoves(q)) /\ UNCHANGED balance
  <1> USE DEF provider
  <1>0. entry[r] \in Entry BY DEF TypeOK
  <1>1. CASE ResolveConfirmed(r)
    BY <1>1, SettleMoves DEF ResolveConfirmed, Uncertain
  <1>2. CASE ResolveNotApplied(r)
    <2> DEFINE e == [entry[r] EXCEPT !.status = "FAILED", !.attempts = 0, !.next = "now",
                                     !.err = "RECONCILIATION_NOT_APPLIED", !.age = 0]
    <2>1. e.status = "FAILED" BY <1>0 DEF Entry
    <2>2. SetEntry(r, e) /\ balance[r] = 0 /\ entry[r].status \in Uncertain
      BY <1>2 DEF ResolveNotApplied, PayCore, Credits, Uncertain
    <2> HIDE DEF e
    <2>3. \A q \in Rewards : RowMoves(q) BY <2>1, <2>2, SetMoves
    <2> QED BY <1>2, <2>3 DEF ResolveNotApplied
  <1>3. CASE CancelEntry(r)
    <2> DEFINE e == [entry[r] EXCEPT !.status = "CANCELED", !.next = "null", !.age = 0]
    <2>1. e.status = "CANCELED" BY <1>0 DEF Entry
    <2>2. SetEntry(r, e) /\ entry[r].status \in Owed \cup {"CANCELED"}
      BY <1>3 DEF CancelEntry, Owed
    <2> HIDE DEF e
    <2>3. \A q \in Rewards : RowMoves(q) BY <2>1, <2>2, SetMoves
    <2> QED BY <1>3, <2>3 DEF CancelEntry
  <1> QED BY <1>1, <1>2, <1>3 DEF OperatorStep

\* Everybody else creates a row, moves it within the queue or cancels it there.
LEMMA OthersMove ==
  ASSUME TypeOK, PayCore,
         \/ \E g \in Requests : GuestStep(g) \/ BackfillStep(g)
         \/ \E r \in Rewards : PortalStep(r) \/ RetentionStep(r) \/ StaffStep(r) \/ Lapse(r)
         \/ Tick \/ BumpRevision \/ ExpireAdmission \/ UNCHANGED vars
  PROVE  (\A q \in Rewards : RowMoves(q)) /\ UNCHANGED balance
  <1> USE DEF rows, provider, vars
  <1>1. \A r \in Rewards : entry[r] \in Entry BY DEF TypeOK
  <1>2. UNCHANGED balance
    BY DEF GuestStep, AcceptClaim, Materialize, SynchronizeRead, SynchronizeWrite,
           CheckUncertain, DropClaim, AbortRequest, BackfillStep, FindMissing, BackfillWallet,
           PortalStep, ReconcileWallet, UpgradeHistoricalClaim, RetentionStep,
           ExpireWalletItem, ExpireOrphanClaim, StaffStep, RedeemReward, UpdateReward,
           RestartLootBox, Lapse, Tick, BumpRevision, ExpireAdmission
  <1>3. ASSUME NEW r \in Rewards, entry[r].status = "NONE", SetEntry(r, NewEntry)
        PROVE  \A q \in Rewards : RowMoves(q)
    BY <1>3, SetMoves DEF NewEntry, NoEntry, Owed
  <1>4. ASSUME NEW g \in Requests, GuestStep(g) PROVE \A q \in Rewards : RowMoves(q)
    <2>1. ASSUME NEW r \in Rewards, AcceptClaim(g, r) PROVE \A q \in Rewards : RowMoves(q)
      <3> DEFINE e == [entry[r] EXCEPT !.status = "PENDING", !.next = "now", !.age = 0]
      <3>1. UNCHANGED entry \/ (entry[r].status = "FAILED" /\ SetEntry(r, e))
        BY <2>1 DEF AcceptClaim
      <3>2. e.status = "PENDING" BY <1>1 DEF Entry
      <3> HIDE DEF e
      <3> QED BY <3>1, <3>2, SetMoves, SameMoves DEF Owed
    <2>2. CASE Materialize(g)
      <3>1. guest[g].id \in Rewards BY <2>2 DEF Materialize, TypeOK
      <3> QED BY <1>3, <2>2, <3>1, SameMoves DEF Materialize, Queueable
    <2>3. CASE \/ SynchronizeRead(g) \/ SynchronizeWrite(g) \/ CheckUncertain(g)
               \/ DropClaim(g) \/ AbortRequest(g)
      BY <2>3, SameMoves DEF SynchronizeRead, SynchronizeWrite, CheckUncertain, DropClaim,
                             AbortRequest
    <2> QED BY <1>4, <2>1, <2>2, <2>3 DEF GuestStep
  <1>5. ASSUME NEW r \in Rewards, RetentionStep(r) PROVE \A q \in Rewards : RowMoves(q)
    <2> DEFINE e == [entry[r] EXCEPT !.status = "CANCELED", !.next = "null",
                                     !.err = "OTHER", !.age = 0]
    <2>1. e.status = "CANCELED" BY <1>1 DEF Entry
    <2>2. UNCHANGED entry \/ (entry[r].status \in Owed /\ SetEntry(r, e))
      BY <1>5 DEF RetentionStep, ExpireWalletItem, ExpireOrphanClaim, Owed
    <2> HIDE DEF e
    <2> QED BY <2>1, <2>2, SetMoves, SameMoves
  <1>6. ASSUME NEW r \in Rewards, PortalStep(r) \/ StaffStep(r) \/ Lapse(r)
        PROVE  \A q \in Rewards : RowMoves(q)
    <2>1. UNCHANGED entry \/ (entry[r].status = "NONE" /\ SetEntry(r, NewEntry))
      BY <1>6 DEF PortalStep, ReconcileWallet, UpgradeHistoricalClaim, StaffStep,
                  RedeemReward, UpdateReward, RestartLootBox, Lapse
    <2> QED BY <1>3, <2>1, SameMoves
  <1>7. CASE Tick
    <2>1. \A r \in Rewards : Older(entry[r]).status = entry[r].status
      BY <1>1 DEF Older, Entry
    <2> QED BY <1>7, <2>1 DEF Tick, RowMoves
  <1>8. CASE \/ \E g \in Requests : BackfillStep(g)
             \/ BumpRevision \/ ExpireAdmission \/ UNCHANGED vars
    BY <1>8, SameMoves DEF BackfillStep, FindMissing, BackfillWallet, BumpRevision,
                           ExpireAdmission
  <1> QED BY <1>2, <1>4, <1>5, <1>6, <1>7, <1>8

-----------------------------------------------------------------------------
\* Langame applies a write to a reward that is open and was not credited.
LEMMA ApplyIsPay ==
  ASSUME TypeOK, PayCore, NEW c \in wire, Apply(c)
  PROVE  Abs!Pay(c.id) /\ c.id \in Rewards
  <1>1. c.id \in Rewards /\ entry[c.id].status \in Uncertain
    BY DEF TypeOK, Call, PayCore, OpenCalls, Open
  <1>2. ~SeenAtProvider(c.id)
    <2> SUFFICES ASSUME NEW d \in credited, d.id = c.id PROVE FALSE
      BY DEF SeenAtProvider
    <2>1. d = [id |-> c.id, gen |-> c.gen]
      BY DEF PayCore, Credits, OpenCalls, Open, TypeOK, Credit
    <2> QED BY <2>1 DEF PayCore, OpenCalls
  <1>3. balance[c.id] = 0 BY <1>1, <1>2 DEF PayCore, Credits
  <1>4. balance' = [balance EXCEPT ![c.id] = 1] BY <1>1, <1>3 DEF Apply, TypeOK
  <1>5. UNCHANGED entry BY DEF Apply, rows
  <1>6. Phase(c.id) = "open" BY <1>1 DEF Phase, Uncertain
  <1>7. UNCHANGED [r \in Rewards |-> Phase(r)] BY <1>5 DEF Phase
  <1> QED BY <1>1, <1>3, <1>4, <1>6, <1>7 DEF Abs!Pay

LEMMA StepRefines ==
  ASSUME ConstantAssumption, PayInv, PayInv', [Next]_vars
  PROVE  [Abs!AbsNext]_<<[r \in Rewards |-> Phase(r)], balance>>
  <1> USE DEF PayInv
  <1>1. ASSUME \A r \in Rewards : RowMoves(r), UNCHANGED balance PROVE Abs!AbsNext
    BY <1>1, RowMovesSettle DEF Abs!AbsNext
  <1>2. ASSUME NEW c \in wire, Apply(c) PROVE Abs!AbsNext
    BY <1>2, ApplyIsPay DEF Abs!AbsNext
  <1>3. ASSUME NEW c \in wire, Reject(c) PROVE Abs!AbsNext
    BY <1>1, <1>3, SameMoves DEF Reject, rows
  <1>4. CASE \E w \in Workers : WorkerStep(w) \/ Crash(w) BY <1>1, <1>4, WorkerMoves
  <1>5. CASE \E r \in Rewards : OperatorStep(r) BY <1>1, <1>5, OperatorMoves
  <1>6. CASE \/ \E g \in Requests : GuestStep(g) \/ BackfillStep(g)
             \/ \E r \in Rewards : PortalStep(r) \/ RetentionStep(r) \/ StaffStep(r) \/ Lapse(r)
             \/ Tick \/ BumpRevision \/ ExpireAdmission \/ UNCHANGED vars
    BY <1>1, <1>6, OthersMove
  <1>7. CASE ProviderStep BY <1>2, <1>3, <1>7 DEF ProviderStep
  <1> QED BY <1>4, <1>5, <1>6, <1>7 DEF Next

LEMMA InitRefines == ASSUME Init PROVE Abs!AbsInit
  <1>1. NoEntry.status = "NONE" /\ LegacyEntry.status = "FAILED"
    BY DEF NoEntry, LegacyEntry
  <1>2. \A r \in Rewards : entry[r].status \in {"NONE", "FAILED"} BY <1>1 DEF Init
  <1>3. \A r \in Rewards : Phase(r) = "owed" BY <1>2 DEF Phase, Uncertain
  <1> QED BY <1>3 DEF Abs!AbsInit, Init

\* For any number of rewards, workers, claims, crashes and revisions, bonus
\* delivery is an implementation of PayOnce: each reward is credited at most once,
\* while its outcome is open; the ledger calls it paid only if it was credited and
\* queues it again or closes it only if it was not.
THEOREM ImplementsPayOnce == Spec => PaysOnce
  <1>1. Init => Abs!AbsInit BY InitRefines
  <1>2. PayInv /\ PayInv' /\ [Next]_vars
        => [Abs!AbsNext]_<<[r \in Rewards |-> Phase(r)], balance>>
    BY StepRefines, ConstantAssumption
  <1> QED BY <1>1, <1>2, PayInvHolds, PTL DEF Spec, PaysOnce, Abs!AbsSpec

-----------------------------------------------------------------------------
\* A compare-and-set of a worker whose claim was taken over changes nothing.
LEMMA StaleCas ==
  ASSUME NEW t, NEW st, NEW e, Cas(t, st, e), entry[t.id].gen # t.gen
  PROVE  entry' = entry
  BY DEF Cas, Owns

\* Only its own steps move a worker that holds a job.
LEMMA OnlyItselfMoves ==
  ASSUME TypeOK, Next, NEW w \in Workers, worker'[w].pc # worker[w].pc
  PROVE  WorkerStep(w) \/ Crash(w)
  <1> USE DEF rows, provider
  <1>1. ASSUME NEW v \in Workers, WorkerStep(v) \/ Crash(v), v # w PROVE FALSE
    <2>1. \E x : SetWorker(v, x)
      BY <1>1 DEF WorkerStep, Crash, AcquirePermit, QueueApprovedRewards, CreateEntries,
         PromoteStaleDispatching, ClaimReadyEntries, NextEntry, PrepareEntry, FailEntry,
         RevalidateClaimed, MarkEntryDispatching, RevalidateDispatching, Revalidate,
         CheckTarget, EvaluatePermit, OwnsCurrentDispatch, SendCall, ReceiveResponse,
         ConfirmEntry, DispatchError, MarkReconciliationRequired, ReturnDispatching, Goto,
         Finish
    <2> QED BY <1>1, <2>1 DEF SetWorker, TypeOK
  <1>2. CASE Tick
    <2>1. worker'[w].pc = worker[w].pc BY <1>2 DEF Tick, TypeOK, WorkerState
    <2> QED BY <2>1
  <1>3. ASSUME NEW g \in Requests, GuestStep(g) \/ BackfillStep(g) PROVE UNCHANGED worker
    BY <1>3 DEF GuestStep, AcceptClaim, Materialize, SynchronizeRead, SynchronizeWrite,
       CheckUncertain, DropClaim, AbortRequest, BackfillStep, FindMissing, BackfillWallet
  <1>4. ASSUME NEW r \in Rewards, \/ OperatorStep(r) \/ PortalStep(r) \/ RetentionStep(r)
                                  \/ StaffStep(r) \/ Lapse(r)
        PROVE  UNCHANGED worker
    BY <1>4 DEF OperatorStep, ResolveConfirmed, ResolveNotApplied, CancelEntry, PortalStep,
       ReconcileWallet, UpgradeHistoricalClaim, RetentionStep, ExpireWalletItem,
       ExpireOrphanClaim, StaffStep, RedeemReward, UpdateReward, RestartLootBox, Lapse
  <1>5. CASE ProviderStep \/ BumpRevision \/ ExpireAdmission
    BY <1>5 DEF ProviderStep, Apply, Reject, BumpRevision, ExpireAdmission
  <1> QED BY <1>1, <1>2, <1>3, <1>4, <1>5 DEF Next

LEMMA StaleStep ==
  ASSUME TypeOK, Next, NEW w \in Workers, worker[w].pc \in HoldsJob,
         worker'[w].pc # worker[w].pc, entry[worker[w].job.id].gen # worker[w].job.gen
  PROVE  entry'[worker[w].job.id] = entry[worker[w].job.id]
  <1> USE DEF rows
  <1>1. WorkerStep(w) \/ Crash(w) BY OnlyItselfMoves
  <1>2. ~(\/ AcquirePermit(w) \/ QueueApprovedRewards(w) \/ CreateEntries(w)
          \/ PromoteStaleDispatching(w) \/ ClaimReadyEntries(w))
    BY DEF AcquirePermit, QueueApprovedRewards, CreateEntries, PromoteStaleDispatching,
           ClaimReadyEntries, HoldsJob, BeforeDispatch, AfterDispatch
  <1>3. CASE \/ NextEntry(w) \/ PrepareEntry(w) \/ OwnsCurrentDispatch(w) \/ SendCall(w)
             \/ ReceiveResponse(w) \/ DispatchError(w) \/ Crash(w)
    BY <1>3 DEF NextEntry, PrepareEntry, OwnsCurrentDispatch, SendCall, ReceiveResponse,
                DispatchError, Crash
  <1>4. CASE FailEntry(w) \/ MarkReconciliationRequired(w)
    BY <1>4, StaleCas DEF FailEntry, MarkReconciliationRequired
  <1>5. CASE RevalidateClaimed(w) \/ RevalidateDispatching(w)
    BY <1>5, StaleCas DEF RevalidateClaimed, RevalidateDispatching, Revalidate
  <1>6. CASE MarkEntryDispatching(w) BY <1>6 DEF MarkEntryDispatching, Owns
  <1>7. CASE CheckTarget(w) \/ EvaluatePermit(w)
    BY <1>7, StaleCas DEF CheckTarget, EvaluatePermit, ReturnDispatching
  <1>8. CASE ConfirmEntry(w) BY <1>8 DEF ConfirmEntry, Owns
  <1> QED BY <1>1, <1>2, <1>3, <1>4, <1>5, <1>6, <1>7, <1>8 DEF WorkerStep

\* A worker that lost its claim, however late it wakes up, takes every further
\* step without touching the entry of the new owner.
THEOREM StaleWorkersAreHarmless == Spec => StaleWorkerIsHarmless
  <1>1. TypeOK /\ [Next]_vars =>
          [\A w \in Workers :
             LET t == worker[w].job IN
             worker[w].pc \in HoldsJob /\ worker'[w].pc # worker[w].pc
               /\ entry[t.id].gen # t.gen
             => entry'[t.id] = entry[t.id]]_vars
    BY StaleStep
  <1> QED BY <1>1, TypeCorrect, PTL DEF Spec, StaleWorkerIsHarmless

-----------------------------------------------------------------------------
(* Rewards and wallet items.  A worker leaves them alone, gives an item    *)
(* back, reopens one, or settles.                                          *)

GivesBack(r) == /\ wallet[r] = "PROCESSING" /\ SetWallet(r, "FAILED")
                /\ UNCHANGED reward

Reopens(r) == /\ reward[r].status = "APPROVED" /\ DeliveryGate(r)
              /\ reward[r].claimRequired /\ SetWallet(r, "PROCESSING")
              /\ UNCHANGED reward

ItemMoves == UNCHANGED <<reward, wallet>> \/ \E r \in Rewards : GivesBack(r) \/ Reopens(r)

\* No entry becomes CONFIRMED.
NoConfirmation ==
  \A r \in Rewards : entry'[r].status = "CONFIRMED" => entry[r].status = "CONFIRMED"

LEMMA SetConfirmsNone ==
  ASSUME TypeOK, NEW r \in Rewards, NEW e, SetEntry(r, e), e.status # "CONFIRMED"
  PROVE  NoConfirmation
  BY DEF SetEntry, TypeOK, NoConfirmation

LEMMA CasConfirmsNone ==
  ASSUME TypeOK, NEW t \in Token, NEW st, NEW e, Cas(t, st, e), e.status # "CONFIRMED"
  PROVE  NoConfirmation
  BY CasRows DEF NoConfirmation, RowKept

LEMMA SameConfirmsNone == ASSUME UNCHANGED entry PROVE NoConfirmation
  BY DEF NoConfirmation

LEMMA WorkerItems ==
  ASSUME TypeOK, NEW w \in Workers, WorkerStep(w) \/ Crash(w)
  PROVE  \/ ItemMoves /\ NoConfirmation
         \/ \E r \in Rewards : SettleReward(r) /\ AwaitsDelivery(r)
  <1> USE DEF rows
  <1> DEFINE t == worker[w].job
  <1>0. worker[w].pc \in HoldsJob => t \in Token /\ t.id \in Rewards /\ entry[t.id] \in Entry
    BY DEF TypeOK, Token
  <1>1. CASE \/ AcquirePermit(w) \/ QueueApprovedRewards(w) \/ NextEntry(w) \/ PrepareEntry(w)
             \/ OwnsCurrentDispatch(w) \/ SendCall(w) \/ ReceiveResponse(w)
             \/ DispatchError(w) \/ Crash(w)
    <2>1. UNCHANGED <<reward, wallet, entry>>
      BY <1>1 DEF AcquirePermit, QueueApprovedRewards, NextEntry, PrepareEntry,
                  OwnsCurrentDispatch, SendCall, ReceiveResponse, DispatchError, Crash
    <2> QED BY <2>1, SameConfirmsNone DEF ItemMoves
  <1>2. CASE CreateEntries(w)
    <2>1. NewEntry.status = "PENDING" BY DEF NewEntry, NoEntry
    <2>2. NoConfirmation BY <1>2, <2>1 DEF CreateEntries, NoConfirmation
    <2> QED BY <1>2, <2>2 DEF CreateEntries, ItemMoves
  <1>3. CASE PromoteStaleDispatching(w)
    <2>1. NoConfirmation BY <1>3 DEF PromoteStaleDispatching, NoConfirmation, TypeOK, Entry
    <2> QED BY <1>3, <2>1 DEF PromoteStaleDispatching, ItemMoves
  <1>4. CASE ClaimReadyEntries(w)
    <2>1. \A r \in Rewards : ClaimedRow(r, worker[w].rev).status = "PROCESSING"
      BY DEF TypeOK, Entry, ClaimedRow
    <2>2. PICK S : entry' = [r \in Rewards |->
                     IF r \in S THEN ClaimedRow(r, worker[w].rev) ELSE entry[r]]
      BY <1>4 DEF ClaimReadyEntries
    <2>3. NoConfirmation BY <2>1, <2>2 DEF NoConfirmation
    <2> QED BY <1>4, <2>3 DEF ClaimReadyEntries, ItemMoves
  <1>5. CASE FailEntry(w)
    <2>1. t \in Token /\ t.id \in Rewards /\ entry[t.id] \in Entry
      BY <1>0, <1>5 DEF FailEntry, HoldsJob
    <2>2. FailedRow(t).status = "FAILED" BY <2>1 DEF FailedRow, Entry
    <2>3. NoConfirmation BY <1>5, <2>1, <2>2, CasConfirmsNone DEF FailEntry
    <2>4. ItemMoves BY <1>5, <2>1 DEF FailEntry, ItemMoves, GivesBack, SetWallet
    <2> QED BY <2>3, <2>4
  <1>6. CASE RevalidateClaimed(w) \/ RevalidateDispatching(w)
    <2>1. t \in Token /\ t.id \in Rewards /\ entry[t.id] \in Entry
      BY <1>0, <1>6 DEF RevalidateClaimed, RevalidateDispatching, Revalidate, HoldsJob,
                        BeforeDispatch, AfterDispatch
    <2>2. ParkedRow(t.id).status # "CONFIRMED" BY <2>1 DEF ParkedRow, Entry
    <2>3. \/ UNCHANGED entry
          \/ \E st \in {"PROCESSING", "DISPATCHING"} : Cas(t, st, ParkedRow(t.id))
      BY <1>6 DEF RevalidateClaimed, RevalidateDispatching, Revalidate
    <2>4. NoConfirmation BY <2>1, <2>2, <2>3, CasConfirmsNone, SameConfirmsNone
    <2>5. ItemMoves
      BY <1>6, <2>1 DEF RevalidateClaimed, RevalidateDispatching, Revalidate, ItemMoves,
                        Reopens, SetWallet
    <2> QED BY <2>4, <2>5
  <1>7. CASE MarkEntryDispatching(w)
    <2> DEFINE e == [entry[t.id] EXCEPT !.status = "DISPATCHING", !.next = "null",
                                        !.err = "null", !.age = 0]
    <2>1. t.id \in Rewards /\ entry[t.id] \in Entry
      BY <1>0, <1>7 DEF MarkEntryDispatching, HoldsJob, BeforeDispatch
    <2>2. UNCHANGED entry \/ SetEntry(t.id, e) BY <1>7 DEF MarkEntryDispatching
    <2>3. e.status = "DISPATCHING" BY <2>1 DEF Entry
    <2> HIDE DEF e
    <2>4. NoConfirmation BY <2>1, <2>2, <2>3, SetConfirmsNone, SameConfirmsNone
    <2> QED BY <1>7, <2>4 DEF MarkEntryDispatching, ItemMoves
  <1>8. CASE CheckTarget(w) \/ EvaluatePermit(w)
    <2> DEFINE e == [entry[t.id] EXCEPT !.status = "PENDING", !.attempts = @ - 1,
                                        !.next = "null", !.err = "OTHER", !.age = 0]
    <2>1. t \in Token /\ entry[t.id] \in Entry
      BY <1>0, <1>8 DEF CheckTarget, EvaluatePermit, HoldsJob, AfterDispatch
    <2>2. UNCHANGED entry \/ Cas(t, "DISPATCHING", e)
      BY <1>8 DEF CheckTarget, EvaluatePermit, ReturnDispatching
    <2>3. e.status = "PENDING" BY <2>1 DEF Entry
    <2> HIDE DEF e
    <2>4. NoConfirmation BY <2>1, <2>2, <2>3, CasConfirmsNone, SameConfirmsNone
    <2> QED BY <1>8, <2>4 DEF CheckTarget, EvaluatePermit, ItemMoves
  <1>9. CASE ConfirmEntry(w)
    <2>1. t.id \in Rewards BY <1>0, <1>9 DEF ConfirmEntry, HoldsJob, AfterDispatch
    <2>2. (AwaitsDelivery(t.id) /\ SettleReward(t.id)) \/ UNCHANGED <<reward, wallet, entry>>
      BY <1>9 DEF ConfirmEntry
    <2> QED BY <2>1, <2>2, SameConfirmsNone DEF ItemMoves
  <1>10. CASE MarkReconciliationRequired(w)
    <2> DEFINE e == [entry[t.id] EXCEPT !.status = "RECONCILIATION_REQUIRED",
                                        !.next = "null", !.err = "OTHER", !.age = 0]
    <2>1. t \in Token /\ entry[t.id] \in Entry
      BY <1>0, <1>10 DEF MarkReconciliationRequired, HoldsJob
    <2>2. Cas(t, "DISPATCHING", e) BY <1>10 DEF MarkReconciliationRequired
    <2>3. e.status = "RECONCILIATION_REQUIRED" BY <2>1 DEF Entry
    <2> HIDE DEF e
    <2>4. NoConfirmation BY <2>1, <2>2, <2>3, CasConfirmsNone
    <2> QED BY <1>10, <2>4 DEF MarkReconciliationRequired, ItemMoves
  <1> QED BY <1>1, <1>2, <1>3, <1>4, <1>5, <1>6, <1>7, <1>8, <1>9, <1>10 DEF WorkerStep

-----------------------------------------------------------------------------
\* A step that touches the reward and the item of r only.
OnlyRow(r) == \A q \in Rewards \ {r} : reward'[q] = reward[q] /\ wallet'[q] = wallet[q]

LEMMA AcceptedStays ==
  ASSUME AcceptedDeliveryKept, NEW r \in Rewards, OnlyRow(r),
         AcceptedDelivery(r)' => \/ reward'[r].status \notin {"CANCELED", "EXPIRED"}
                                 \/ AcceptedDelivery(r) /\ reward'[r].status = reward[r].status
  PROVE  AcceptedDeliveryKept'
  BY DEF AcceptedDeliveryKept, AcceptedDelivery, OnlyRow

LEMMA ItemMovesAccepted ==
  ASSUME TypeOK, AcceptedDeliveryKept, ItemMoves
  PROVE  AcceptedDeliveryKept'
  <1>1. CASE UNCHANGED <<reward, wallet>>
    BY <1>1 DEF AcceptedDeliveryKept, AcceptedDelivery
  <1>2. ASSUME NEW r \in Rewards, GivesBack(r) PROVE AcceptedDeliveryKept'
    <2>1. OnlyRow(r) BY <1>2 DEF GivesBack, SetWallet, OnlyRow, TypeOK
    <2>2. UNCHANGED reward /\ wallet[r] = "PROCESSING" BY <1>2 DEF GivesBack
    <2> QED BY <2>1, <2>2, AcceptedStays DEF AcceptedDelivery
  <1>3. ASSUME NEW r \in Rewards, Reopens(r) PROVE AcceptedDeliveryKept'
    <2>1. OnlyRow(r) BY <1>3 DEF Reopens, SetWallet, OnlyRow, TypeOK
    <2>2. reward'[r].status = "APPROVED" BY <1>3 DEF Reopens
    <2> QED BY <2>1, <2>2, AcceptedStays
  <1> QED BY <1>1, <1>2, <1>3 DEF ItemMoves

LEMMA SettleAccepted ==
  ASSUME TypeOK, AcceptedDeliveryKept, NEW r \in Rewards, SettleReward(r)
  PROVE  AcceptedDeliveryKept'
  <1>1. OnlyRow(r) BY DEF SettleReward, OnlyRow, TypeOK
  <1>2. reward'[r].status = "PAID" BY DEF SettleReward, TypeOK, Reward
  <1> QED BY <1>1, <1>2, AcceptedStays

\* The operator and the staff ask whether a delivery was accepted; retention
\* takes items that nobody claimed; the portal writes APPROVED and PAID rewards.
LEMMA RewardAccepted ==
  ASSUME TypeOK, AcceptedDeliveryKept, "restart" \notin Actors, NEW r \in Rewards,
         \/ OperatorStep(r) \/ PortalStep(r) \/ RetentionStep(r) \/ StaffStep(r) \/ Lapse(r)
  PROVE  AcceptedDeliveryKept'
  <1>0. reward[r] \in Reward BY DEF TypeOK
  <1>1. CASE ResolveConfirmed(r) BY <1>1, SettleAccepted DEF ResolveConfirmed
  <1>2. CASE ResolveNotApplied(r)
    <2>1. ItemMoves BY <1>2 DEF ResolveNotApplied, ItemMoves, GivesBack, SetWallet
    <2> QED BY <2>1, ItemMovesAccepted
  <1>3. CASE CancelEntry(r)
    <2>1. OnlyRow(r) /\ wallet' = wallet /\ ~AcceptedDelivery(r)
      BY <1>3 DEF CancelEntry, OnlyRow, TypeOK
    <2>2. reward'[r].claimRequired = reward[r].claimRequired
          /\ reward'[r].requested = reward[r].requested
      BY <1>0, <1>3 DEF CancelEntry, TypeOK, Reward
    <2> QED BY <2>1, <2>2, AcceptedStays DEF AcceptedDelivery
  <1>4. CASE ReconcileWallet(r)
    <2>1. OnlyRow(r) BY <1>4 DEF ReconcileWallet, OnlyRow, SetWallet, TypeOK
    <2>2. wallet'[r] \notin {"PROCESSING", "FAILED"}
      BY <1>4 DEF ReconcileWallet, SetWallet, TypeOK
    <2> QED BY <2>1, <2>2, AcceptedStays DEF AcceptedDelivery
  <1>5. CASE UpgradeHistoricalClaim(r)
    <2>1. OnlyRow(r) BY <1>5 DEF UpgradeHistoricalClaim, OnlyRow, TypeOK
    <2>2. reward'[r].status = "APPROVED"
      BY <1>0, <1>5 DEF UpgradeHistoricalClaim, TypeOK, Reward
    <2> QED BY <2>1, <2>2, AcceptedStays
  <1>6. CASE ExpireWalletItem(r) \/ ExpireOrphanClaim(r)
    <2>1. OnlyRow(r)
      BY <1>6 DEF ExpireWalletItem, ExpireOrphanClaim, SetRewardStatus, SetWallet, OnlyRow, TypeOK
    <2>2. wallet'[r] = "NONE"
      BY <1>6 DEF ExpireWalletItem, ExpireOrphanClaim, SetWallet, TypeOK
    <2> QED BY <2>1, <2>2, AcceptedStays DEF AcceptedDelivery
  <1>7. CASE RedeemReward(r)
    <2>1. OnlyRow(r) /\ wallet' = wallet /\ ~AcceptedDelivery(r)
      BY <1>7 DEF RedeemReward, SetRewardStatus, OnlyRow, TypeOK
    <2>2. reward'[r].claimRequired = reward[r].claimRequired
          /\ reward'[r].requested = reward[r].requested
      BY <1>0, <1>7 DEF RedeemReward, SetRewardStatus, TypeOK, Reward
    <2> QED BY <2>1, <2>2, AcceptedStays DEF AcceptedDelivery
  <1>8. CASE UpdateReward(r)
    <2>1. PICK s, l :
            /\ reward' = [reward EXCEPT ![r] = UpdatedReward(r, s, l)]
            /\ wallet' = wallet \/ SetWallet(r, "PENDING")
      BY <1>8 DEF UpdateReward
    <2>2. OnlyRow(r) BY <2>1 DEF OnlyRow, SetWallet, TypeOK
    <2>3. wallet'[r] = wallet[r] \/ wallet'[r] = "PENDING" BY <2>1 DEF SetWallet, TypeOK
    <2>4. reward'[r] = UpdatedReward(r, s, l) BY <2>1 DEF TypeOK
    <2>5. reward'[r].claimRequired = reward[r].claimRequired
          /\ reward'[r].requested = reward[r].requested
      BY <1>0, <2>4 DEF UpdatedReward, Reward
    <2>6. ~AcceptedDelivery(r) BY <1>8 DEF UpdateReward
    <2> QED BY <2>2, <2>3, <2>5, <2>6, AcceptedStays DEF AcceptedDelivery
  <1>9. CASE Lapse(r)
    <2>1. OnlyRow(r) /\ wallet' = wallet BY <1>9 DEF Lapse, OnlyRow, TypeOK
    <2>2. /\ reward'[r].status = reward[r].status
          /\ reward'[r].claimRequired = reward[r].claimRequired
          /\ reward'[r].requested = reward[r].requested
      BY <1>0, <1>9 DEF Lapse, TypeOK, Reward
    <2> QED BY <2>1, <2>2, AcceptedStays DEF AcceptedDelivery
  <1> QED BY <1>1, <1>2, <1>3, <1>4, <1>5, <1>6, <1>7, <1>8, <1>9
      DEF OperatorStep, PortalStep, RetentionStep, StaffStep, RestartLootBox

LEMMA GuestAccepted ==
  ASSUME TypeOK, AcceptedDeliveryKept, NEW g \in Requests, GuestStep(g) \/ BackfillStep(g)
  PROVE  AcceptedDeliveryKept'
  <1> USE DEF rows
  <1> DEFINE r == guest[g].id
  <1>1. ASSUME NEW q \in Rewards, AcceptClaim(g, q) PROVE AcceptedDeliveryKept'
    <2>1. CASE UNCHANGED rows BY <2>1 DEF AcceptedDeliveryKept, AcceptedDelivery
    <2>2. CASE ~UNCHANGED rows
      <3>1. /\ reward[q].status = "APPROVED" /\ SetWallet(q, "PROCESSING")
            /\ reward' = [reward EXCEPT ![q].requested = TRUE]
        BY <1>1, <2>2 DEF AcceptClaim, ClaimAllowed
      <3>2. OnlyRow(q) BY <3>1 DEF SetWallet, OnlyRow, TypeOK
      <3>3. reward'[q].status = "APPROVED" BY <3>1 DEF TypeOK, Reward
      <3> QED BY <3>2, <3>3, AcceptedStays
    <2> QED BY <2>1, <2>2
  <1>2. CASE \/ Materialize(g) \/ SynchronizeRead(g) \/ CheckUncertain(g) \/ AbortRequest(g)
             \/ \E q \in Rewards : FindMissing(g, q)
    <2>1. UNCHANGED <<reward, wallet>>
      BY <1>2 DEF Materialize, SynchronizeRead, CheckUncertain, AbortRequest, FindMissing
    <2> QED BY <2>1 DEF AcceptedDeliveryKept, AcceptedDelivery
  <1>3. CASE SynchronizeWrite(g) \/ DropClaim(g) \/ BackfillWallet(g)
    <2>1. r \in Rewards BY <1>3 DEF SynchronizeWrite, DropClaim, BackfillWallet, TypeOK
    <2>2. UNCHANGED reward BY <1>3 DEF SynchronizeWrite, DropClaim, BackfillWallet
    <2>3. \/ UNCHANGED wallet
          \/ wallet[r] = "PROCESSING" /\ \E st \in WritePlan : SetWallet(r, st)
          \/ SetWallet(r, "PENDING")
      BY <1>3 DEF SynchronizeWrite, DropClaim, BackfillWallet, TypeOK, RequestState, WritePlan
    <2>4. OnlyRow(r) BY <2>1, <2>2, <2>3 DEF OnlyRow, SetWallet, TypeOK
    <2>5. wallet'[r] \in {"PROCESSING", "FAILED"} => wallet[r] \in {"PROCESSING", "FAILED"}
      BY <2>1, <2>3 DEF SetWallet, TypeOK
    <2> QED BY <2>1, <2>2, <2>4, <2>5, AcceptedStays DEF AcceptedDelivery
  <1> QED BY <1>1, <1>2, <1>3 DEF GuestStep, BackfillStep

LEMMA AcceptedStep ==
  ASSUME TypeOK, AcceptedDeliveryKept, "restart" \notin Actors, [Next]_vars
  PROVE  AcceptedDeliveryKept'
  <1>1. ASSUME NEW w \in Workers, WorkerStep(w) \/ Crash(w) PROVE AcceptedDeliveryKept'
    BY <1>1, WorkerItems, ItemMovesAccepted, SettleAccepted
  <1>2. CASE ProviderStep \/ Tick \/ BumpRevision \/ ExpireAdmission \/ UNCHANGED vars
    <2>1. UNCHANGED <<reward, wallet>>
      BY <1>2 DEF ProviderStep, Apply, Reject, Tick, BumpRevision, ExpireAdmission, rows, vars
    <2> QED BY <2>1 DEF AcceptedDeliveryKept, AcceptedDelivery
  <1> QED BY <1>1, <1>2, RewardAccepted, GuestAccepted DEF Next

\* A claim that the guest has made and that was not delivered yet is never canceled
\* or expired, by a deadline, by retention or by an administrator, unless a loot
\* box is restarted, which looks at no wallet item.
THEOREM AcceptedClaimsSurvive ==
  ASSUME "restart" \notin Actors
  PROVE  Spec => []AcceptedDeliveryKept
  <1>1. Init => AcceptedDeliveryKept
    BY DEF Init, AcceptedDeliveryKept, AcceptedDelivery
  <1>2. TypeOK /\ AcceptedDeliveryKept /\ [Next]_vars => AcceptedDeliveryKept'
    BY AcceptedStep
  <1> QED BY <1>1, <1>2, TypeCorrect, PTL DEF Spec

\* The whole system, restart included: the one step that withdraws a reward whose
\* delivery the guest was promised is the restart of its loot box.
OnlyRestartWithdraws ==
  [][\A r \in Rewards :
       /\ AcceptedDelivery(r) /\ reward[r].status \notin {"CANCELED", "EXPIRED"}
       /\ reward'[r].status \in {"CANCELED", "EXPIRED"}
       => RestartLootBox(r)]_vars

LEMMA WithdrawStep ==
  ASSUME TypeOK, Next, NEW r \in Rewards, AcceptedDelivery(r),
         reward[r].status \notin {"CANCELED", "EXPIRED"},
         reward'[r].status \in {"CANCELED", "EXPIRED"}
  PROVE  RestartLootBox(r)
  <1>0. reward[r] \in Reward /\ reward'[r].status # reward[r].status BY DEF TypeOK
  <1>1. ASSUME NEW q \in Rewards, SettleReward(q) PROVE FALSE
    <2>1. reward'[r].status \in {"PAID", reward[r].status}
      BY <1>0, <1>1 DEF SettleReward, TypeOK, Reward
    <2> QED BY <1>0, <2>1
  <1>2. ASSUME NEW w \in Workers, WorkerStep(w) \/ Crash(w) PROVE FALSE
    BY <1>0, <1>1, <1>2, WorkerItems DEF ItemMoves, GivesBack, Reopens
  <1>3. CASE ProviderStep \/ Tick \/ BumpRevision \/ ExpireAdmission
    <2>1. UNCHANGED reward
      BY <1>3 DEF ProviderStep, Apply, Reject, Tick, BumpRevision, ExpireAdmission, rows
    <2> QED BY <1>0, <2>1
  <1>4. ASSUME NEW g \in Requests, GuestStep(g) \/ BackfillStep(g) PROVE FALSE
    <2>1. UNCHANGED reward \/ \E q \in Rewards : reward' = [reward EXCEPT ![q].requested = TRUE]
      BY <1>4 DEF GuestStep, AcceptClaim, Materialize, SynchronizeRead, SynchronizeWrite,
         CheckUncertain, DropClaim, AbortRequest, BackfillStep, FindMissing, BackfillWallet, rows
    <2>2. reward'[r].status = reward[r].status BY <1>0, <2>1 DEF TypeOK, Reward
    <2> QED BY <1>0, <2>2
  <1>5. ASSUME NEW q \in Rewards, q # r,
               OperatorStep(q) \/ PortalStep(q) \/ RetentionStep(q) \/ StaffStep(q) \/ Lapse(q)
        PROVE  FALSE
    <2>1. reward'[r] = reward[r]
      BY <1>5 DEF OperatorStep, ResolveConfirmed, SettleReward, ResolveNotApplied, CancelEntry,
         PortalStep, ReconcileWallet, UpgradeHistoricalClaim, RetentionStep, ExpireWalletItem,
         ExpireOrphanClaim, SetRewardStatus, StaffStep, RedeemReward, UpdateReward,
         RestartLootBox, Lapse, TypeOK
    <2> QED BY <1>0, <2>1
  <1>6. CASE OperatorStep(r) \/ PortalStep(r) \/ RetentionStep(r) \/ Lapse(r)
    <2>1. CASE ResolveConfirmed(r) BY <1>1, <2>1 DEF ResolveConfirmed
    <2>2. CASE ResolveNotApplied(r)
      BY <1>0, <2>2 DEF ResolveNotApplied
    <2>3. CASE CancelEntry(r) BY <2>3 DEF CancelEntry
    <2>4. CASE ReconcileWallet(r) \/ UpgradeHistoricalClaim(r) \/ Lapse(r)
      <3>1. reward'[r].status \in {"PAID", reward[r].status}
        BY <1>0, <2>4 DEF ReconcileWallet, UpgradeHistoricalClaim, Lapse, TypeOK, Reward
      <3> QED BY <1>0, <3>1
    <2>5. CASE ExpireWalletItem(r) \/ ExpireOrphanClaim(r)
      BY <1>0, <2>5 DEF ExpireWalletItem, ExpireOrphanClaim, AcceptedDelivery
    <2> QED BY <1>6, <2>1, <2>2, <2>3, <2>4, <2>5 DEF OperatorStep, PortalStep, RetentionStep
  <1>7. CASE StaffStep(r)
    BY <1>7 DEF StaffStep, RedeemReward, UpdateReward
  <1> QED BY <1>2, <1>3, <1>4, <1>5, <1>6, <1>7 DEF Next

\* Whoever acts, only the restart of a loot box withdraws an accepted delivery.
THEOREM RestartAloneWithdraws == Spec => OnlyRestartWithdraws
  <1>1. TypeOK /\ [Next]_vars =>
          [\A r \in Rewards :
             /\ AcceptedDelivery(r) /\ reward[r].status \notin {"CANCELED", "EXPIRED"}
             /\ reward'[r].status \in {"CANCELED", "EXPIRED"}
             => RestartLootBox(r)]_vars
    BY WithdrawStep
  <1> QED BY <1>1, TypeCorrect, PTL DEF Spec, OnlyRestartWithdraws

-----------------------------------------------------------------------------
(* RowsAgree, as long as no staff pays, edits or cancels rewards.          *)

NoStaff == Actors \cap {"redeem", "update", "restart"} = {}

\* Nobody makes a confirmed entry anything else.
LEMMA ConfirmedForGood ==
  ASSUME PayInv, [Next]_vars, NEW r \in Rewards, entry[r].status = "CONFIRMED"
  PROVE  entry'[r].status = "CONFIRMED"
  <1> USE DEF PayInv
  <1>1. ASSUME RowMoves(r) PROVE entry'[r].status = "CONFIRMED"
    BY <1>1 DEF RowMoves, Owed, Uncertain
  <1>2. CASE ProviderStep BY <1>2 DEF ProviderStep, Apply, Reject, rows
  <1> QED BY <1>1, <1>2, WorkerMoves, OperatorMoves, OthersMove DEF Next

\* A step that confirms nothing and touches one row.
LEMMA RowsStay ==
  ASSUME PayInv, [Next]_vars, \A q \in Rewards : RowsOf(q), NoConfirmation,
         NEW r \in Rewards, OnlyRow(r), RowsOf(r)'
  PROVE  \A q \in Rewards : RowsOf(q)'
  <1> SUFFICES ASSUME NEW q \in Rewards \ {r} PROVE RowsOf(q)'
    OBVIOUS
  <1>1. RowsOf(q) /\ reward'[q] = reward[q] /\ wallet'[q] = wallet[q] BY DEF OnlyRow
  <1>2. entry'[q].status = "CONFIRMED" <=> entry[q].status = "CONFIRMED"
    BY ConfirmedForGood DEF NoConfirmation
  <1> QED BY <1>1, <1>2 DEF RowsOf

LEMMA RowsSame ==
  ASSUME PayInv, [Next]_vars, \A q \in Rewards : RowsOf(q), NoConfirmation,
         UNCHANGED <<reward, wallet>>
  PROVE  \A q \in Rewards : RowsOf(q)'
  <1> SUFFICES ASSUME NEW q \in Rewards PROVE RowsOf(q)'
    OBVIOUS
  <1>1. entry'[q].status = "CONFIRMED" <=> entry[q].status = "CONFIRMED"
    BY ConfirmedForGood DEF NoConfirmation
  <1> QED BY <1>1 DEF RowsOf

LEMMA ItemMovesRows ==
  ASSUME PayInv, [Next]_vars, \A q \in Rewards : RowsOf(q), NoConfirmation, ItemMoves
  PROVE  \A q \in Rewards : RowsOf(q)'
  <1>1. TypeOK BY DEF PayInv
  <1>2. ASSUME NEW r \in Rewards, GivesBack(r) PROVE \A q \in Rewards : RowsOf(q)'
    <2>1. OnlyRow(r) /\ wallet'[r] = "FAILED"
      BY <1>1, <1>2 DEF GivesBack, SetWallet, OnlyRow, TypeOK
    <2>2. reward'[r] = reward[r] /\ wallet[r] = "PROCESSING" /\ RowsOf(r) BY <1>2 DEF GivesBack
    <2>3. entry'[r].status # "CONFIRMED" BY <2>2 DEF RowsOf, NoConfirmation
    <2>4. RowsOf(r)' BY <2>1, <2>2, <2>3 DEF RowsOf
    <2> QED BY <2>1, <2>4, RowsStay
  <1>3. ASSUME NEW r \in Rewards, Reopens(r) PROVE \A q \in Rewards : RowsOf(q)'
    <2>1. OnlyRow(r) /\ wallet'[r] = "PROCESSING"
      BY <1>1, <1>3 DEF Reopens, SetWallet, OnlyRow, TypeOK
    <2>2. /\ reward'[r] = reward[r] /\ reward[r].status = "APPROVED" /\ RowsOf(r)
          /\ reward[r].claimRequired /\ wallet[r] \in {"PROCESSING", "FAILED"}
      BY <1>3 DEF Reopens, DeliveryGate
    <2>3. entry'[r].status # "CONFIRMED" BY <2>2 DEF RowsOf, NoConfirmation
    <2>4. RowsOf(r)' BY <2>1, <2>2, <2>3 DEF RowsOf
    <2> QED BY <2>1, <2>4, RowsStay
  <1> QED BY <1>2, <1>3, RowsSame DEF ItemMoves

LEMMA SettleKeepsRows ==
  ASSUME PayInv, [Next]_vars, \A q \in Rewards : RowsOf(q), NEW r \in Rewards,
         SettleReward(r), AwaitsDelivery(r)
  PROVE  \A q \in Rewards : RowsOf(q)'
  <1>1. reward[r] \in Reward /\ entry[r] \in Entry /\ TypeOK BY DEF PayInv, TypeOK
  <1>2. entry'[r] = ConfirmedRow(r) /\ \A q \in Rewards \ {r} : entry'[q] = entry[q]
    BY <1>1 DEF SettleReward, SetEntry, TypeOK
  <1>3. entry'[r].status = "CONFIRMED" BY <1>1, <1>2 DEF ConfirmedRow, Entry
  <1>4. /\ reward'[r].status = "PAID" /\ reward'[r].claimRequired = reward[r].claimRequired
        /\ reward'[r].requested = reward[r].requested /\ reward'[r].lapsed = reward[r].lapsed
    BY <1>1 DEF SettleReward, TypeOK, Reward
  <1>5. wallet'[r] = IF wallet[r] = "PROCESSING" THEN "CLAIMED" ELSE wallet[r]
    BY <1>1 DEF SettleReward, TypeOK
  <1>6. wallet'[r] \in {"NONE", "CLAIMED"} /\ (wallet'[r] = "NONE" => wallet[r] = "NONE")
    BY <1>5 DEF AwaitsDelivery, RowsOf
  <1>7. RowsOf(r)' BY <1>3, <1>4, <1>6 DEF RowsOf
  <1>8. OnlyRow(r) BY <1>1 DEF SettleReward, OnlyRow, TypeOK
  <1> QED BY <1>2, <1>7, <1>8 DEF OnlyRow, RowsOf

LEMMA OperatorKeepsRows ==
  ASSUME PayInv, [Next]_vars, \A q \in Rewards : RowsOf(q), NEW r \in Rewards, OperatorStep(r)
  PROVE  \A q \in Rewards : RowsOf(q)'
  <1>0. reward[r] \in Reward /\ entry[r] \in Entry /\ TypeOK BY DEF PayInv, TypeOK
  <1>1. CASE ResolveConfirmed(r) BY <1>1, SettleKeepsRows DEF ResolveConfirmed
  <1>2. CASE ResolveNotApplied(r)
    <2> DEFINE e == [entry[r] EXCEPT !.status = "FAILED", !.attempts = 0, !.next = "now",
                                     !.err = "RECONCILIATION_NOT_APPLIED", !.age = 0]
    <2>1. e.status = "FAILED" BY <1>0 DEF Entry
    <2>2. SetEntry(r, e) BY <1>2 DEF ResolveNotApplied
    <2> HIDE DEF e
    <2>3. NoConfirmation BY <1>0, <2>1, <2>2, SetConfirmsNone
    <2>4. ItemMoves BY <1>2 DEF ResolveNotApplied, ItemMoves, GivesBack, SetWallet
    <2> QED BY <2>3, <2>4, ItemMovesRows
  <1>3. CASE CancelEntry(r)
    <2> DEFINE e == [entry[r] EXCEPT !.status = "CANCELED", !.next = "null", !.age = 0]
    <2>1. e.status = "CANCELED" BY <1>0 DEF Entry
    <2>2. SetEntry(r, e) BY <1>3 DEF CancelEntry
    <2> HIDE DEF e
    <2>3. NoConfirmation BY <1>0, <2>1, <2>2, SetConfirmsNone
    <2>4. entry[r].status # "CONFIRMED" /\ entry'[r].status # "CONFIRMED"
      BY <1>0, <1>3, <2>1, <2>2 DEF CancelEntry, SetEntry, TypeOK
    <2>5. OnlyRow(r) /\ wallet' = wallet BY <1>0, <1>3 DEF CancelEntry, OnlyRow, TypeOK
    <2>6. /\ reward'[r].status \in {reward[r].status, "CANCELED"}
          /\ reward'[r].claimRequired = reward[r].claimRequired
          /\ reward'[r].requested = reward[r].requested
          /\ reward'[r].paid = reward[r].paid /\ reward'[r].lapsed = reward[r].lapsed
      BY <1>0, <1>3 DEF CancelEntry, TypeOK, Reward
    <2>7. RowsOf(r)' BY <2>4, <2>5, <2>6 DEF RowsOf
    <2> QED BY <2>3, <2>5, <2>7, RowsStay
  <1> QED BY <1>1, <1>2, <1>3 DEF OperatorStep

\* Wallet upkeep closes items of confirmed entries only; retention removes an item
\* after the deadline only.
LEMMA UpkeepKeepsRows ==
  ASSUME PayInv, [Next]_vars, \A q \in Rewards : RowsOf(q), NEW r \in Rewards,
         PortalStep(r) \/ RetentionStep(r) \/ Lapse(r)
  PROVE  \A q \in Rewards : RowsOf(q)'
  <1>0. reward[r] \in Reward /\ entry[r] \in Entry /\ TypeOK /\ RowsOf(r)
    BY DEF PayInv, TypeOK
  <1>1. CASE ReconcileWallet(r)
    <2>1. NoConfirmation /\ entry' = entry
      BY <1>1, SameConfirmsNone DEF ReconcileWallet
    <2>2. OnlyRow(r) BY <1>0, <1>1 DEF ReconcileWallet, OnlyRow, SetWallet, TypeOK
    <2>3. entry[r].status = "CONFIRMED" BY <1>0, <1>1 DEF ReconcileWallet, Settled, RowsOf
    <2>4. /\ reward'[r].status = "PAID" /\ reward'[r].claimRequired = reward[r].claimRequired
          /\ reward'[r].requested = reward[r].requested /\ reward'[r].lapsed = reward[r].lapsed
      BY <1>0, <1>1, <2>3 DEF ReconcileWallet, TypeOK, Reward
    <2>5. wallet'[r] = "CLAIMED" \/ (wallet[r] = "NONE" /\ wallet'[r] = "NONE")
      BY <1>0, <1>1 DEF ReconcileWallet, SetWallet, TypeOK
    <2>6. RowsOf(r)' BY <1>0, <2>1, <2>3, <2>4, <2>5 DEF RowsOf
    <2> QED BY <2>1, <2>2, <2>6, RowsStay
  <1>2. CASE UpgradeHistoricalClaim(r)
    <2>1. NoConfirmation /\ entry' = entry /\ wallet' = wallet
      BY <1>2, SameConfirmsNone DEF UpgradeHistoricalClaim
    <2>2. OnlyRow(r) BY <1>0, <1>2 DEF UpgradeHistoricalClaim, OnlyRow, TypeOK
    <2>3. /\ reward[r].status = "APPROVED" /\ reward'[r].status = "APPROVED"
          /\ reward'[r].claimRequired /\ ~reward'[r].requested
          /\ reward'[r].paid = reward[r].paid
      BY <1>0, <1>2 DEF UpgradeHistoricalClaim, TypeOK, Reward
    <2>4. RowsOf(r)' BY <1>0, <2>1, <2>3 DEF RowsOf
    <2> QED BY <2>1, <2>2, <2>4, RowsStay
  <1>3. CASE ExpireWalletItem(r)
    <2>1. NoConfirmation /\ entry' = entry /\ reward[r].lapsed
      BY <1>3, SameConfirmsNone DEF ExpireWalletItem
    <2>2. OnlyRow(r) /\ wallet'[r] = "NONE"
      BY <1>0, <1>3 DEF ExpireWalletItem, SetRewardStatus, OnlyRow, SetWallet, TypeOK
    <2>3. /\ \/ reward'[r].status = reward[r].status
             \/ reward[r].status = "APPROVED" /\ reward'[r].status = "EXPIRED"
          /\ reward'[r].lapsed /\ reward'[r].paid = reward[r].paid
      BY <1>0, <1>3, <2>1 DEF ExpireWalletItem, ClaimExpired, SetRewardStatus, TypeOK, Reward
    <2>4. RowsOf(r)' BY <1>0, <2>1, <2>2, <2>3 DEF RowsOf
    <2> QED BY <2>1, <2>2, <2>4, RowsStay
  <1>4. CASE ExpireOrphanClaim(r)
    <2> DEFINE e == [entry[r] EXCEPT !.status = "CANCELED", !.next = "null",
                                     !.err = "OTHER", !.age = 0]
    <2>1. e.status = "CANCELED" BY <1>0 DEF Entry
    <2>2. UNCHANGED entry \/ SetEntry(r, e) BY <1>4 DEF ExpireOrphanClaim
    <2> HIDE DEF e
    <2>3. NoConfirmation BY <1>0, <2>1, <2>2, SetConfirmsNone, SameConfirmsNone
    <2>4. OnlyRow(r) /\ wallet' = wallet
      BY <1>0, <1>4 DEF ExpireOrphanClaim, SetRewardStatus, OnlyRow, TypeOK
    <2>5. /\ reward[r].status = "APPROVED" /\ reward'[r].status = "EXPIRED"
          /\ reward'[r].claimRequired = reward[r].claimRequired
          /\ reward'[r].requested = reward[r].requested
          /\ reward'[r].paid = reward[r].paid /\ reward'[r].lapsed = reward[r].lapsed
      BY <1>0, <1>4 DEF ExpireOrphanClaim, ClaimExpired, SetRewardStatus, TypeOK, Reward
    <2>6. entry'[r].status # "CONFIRMED" BY <1>0, <2>3, <2>5 DEF RowsOf, NoConfirmation
    <2>7. RowsOf(r)' BY <1>0, <2>4, <2>5, <2>6 DEF RowsOf
    <2> QED BY <2>3, <2>4, <2>7, RowsStay
  <1>5. CASE Lapse(r)
    <2>1. NoConfirmation /\ entry' = entry /\ wallet' = wallet
      BY <1>5, SameConfirmsNone DEF Lapse
    <2>2. OnlyRow(r) BY <1>0, <1>5 DEF Lapse, OnlyRow, TypeOK
    <2>3. /\ reward'[r].status = reward[r].status /\ reward'[r].paid = reward[r].paid
          /\ reward'[r].claimRequired = reward[r].claimRequired /\ reward'[r].lapsed
      BY <1>0, <1>5 DEF Lapse, TypeOK, Reward
    <2>4. RowsOf(r)' BY <1>0, <2>1, <2>3 DEF RowsOf
    <2> QED BY <2>1, <2>2, <2>4, RowsStay
  <1> QED BY <1>1, <1>2, <1>3, <1>4, <1>5 DEF PortalStep, RetentionStep

\* A request accepts a claim of an approved reward, gives an open item back, or
\* puts a missing one in its place, whatever it knew when it read the rows.
LEMMA RequestKeepsRows ==
  ASSUME PayInv, [Next]_vars, RowsInv, NEW g \in Requests, GuestStep(g) \/ BackfillStep(g)
  PROVE  \A q \in Rewards : RowsOf(q)'
  <1> USE DEF rows, RowsInv
  <1> DEFINE r == guest[g].id
  <1>0. TypeOK BY DEF PayInv
  <1>1. ASSUME NEW q \in Rewards, AcceptClaim(g, q) PROVE \A p \in Rewards : RowsOf(p)'
    <2>1. CASE UNCHANGED rows BY <2>1, RowsSame, SameConfirmsNone
    <2>2. CASE ~UNCHANGED rows
      <3> DEFINE e == [entry[q] EXCEPT !.status = "PENDING", !.next = "now", !.age = 0]
      <3>1. /\ reward[q].status = "APPROVED" /\ reward[q].claimRequired
            /\ SetWallet(q, "PROCESSING")
            /\ reward' = [reward EXCEPT ![q].requested = TRUE]
            /\ UNCHANGED entry \/ SetEntry(q, e)
        BY <1>1, <2>2 DEF AcceptClaim, ClaimAllowed
      <3>2. reward[q] \in Reward /\ entry[q] \in Entry BY <1>0 DEF TypeOK
      <3>3. e.status = "PENDING" BY <3>2 DEF Entry
      <3> HIDE DEF e
      <3>4. NoConfirmation BY <1>0, <3>1, <3>3, SetConfirmsNone, SameConfirmsNone
      <3>5. OnlyRow(q) /\ wallet'[q] = "PROCESSING" BY <1>0, <3>1 DEF SetWallet, OnlyRow, TypeOK
      <3>6. /\ reward'[q].status = "APPROVED" /\ reward'[q].claimRequired
            /\ reward'[q].paid = reward[q].paid
        BY <1>0, <3>1, <3>2 DEF TypeOK, Reward
      <3>7. entry'[q].status # "CONFIRMED" BY <3>1, <3>4 DEF RowsOf, NoConfirmation
      <3>8. entry[q].status # "CONFIRMED" BY <3>1 DEF RowsOf
      <3>9. RowsOf(q)' BY <3>5, <3>6, <3>7, <3>8 DEF RowsOf
      <3> QED BY <3>4, <3>5, <3>9, RowsStay
    <2> QED BY <2>1, <2>2
  <1>2. CASE Materialize(g)
    <2>1. NewEntry.status = "PENDING" BY DEF NewEntry, NoEntry
    <2>2. r \in Rewards BY <1>0, <1>2 DEF Materialize, TypeOK
    <2>3. NoConfirmation
      BY <1>0, <1>2, <2>1, <2>2, SetConfirmsNone, SameConfirmsNone DEF Materialize
    <2> QED BY <1>2, <2>3, RowsSame DEF Materialize
  <1>3. CASE \/ SynchronizeRead(g) \/ CheckUncertain(g) \/ AbortRequest(g)
             \/ \E q \in Rewards : FindMissing(g, q)
    <2>1. UNCHANGED <<reward, wallet, entry>>
      BY <1>3 DEF SynchronizeRead, CheckUncertain, AbortRequest, FindMissing
    <2> QED BY <2>1, RowsSame, SameConfirmsNone
  <1>4. CASE SynchronizeWrite(g) \/ DropClaim(g)
    <2>1. r \in Rewards BY <1>0, <1>4 DEF SynchronizeWrite, DropClaim, TypeOK
    <2>2. NoConfirmation BY <1>4, SameConfirmsNone DEF SynchronizeWrite, DropClaim
    <2>3. CASE SynchronizeWrite(g)
      <3>1. guest[g].plan \in {"none", "FAILED"}
        BY <1>0, <2>3 DEF SynchronizeWrite, RequestOf, TypeOK, RequestState, WritePlan
      <3>2. ItemMoves BY <2>1, <2>3, <3>1 DEF SynchronizeWrite, ItemMoves, GivesBack
      <3> QED BY <2>2, <3>2, ItemMovesRows
    <2>4. CASE DropClaim(g)
      <3>1. ItemMoves BY <2>1, <2>4 DEF DropClaim, ItemMoves, GivesBack
      <3> QED BY <2>2, <3>1, ItemMovesRows
    <2> QED BY <1>4, <2>3, <2>4
  <1>5. CASE BackfillWallet(g)
    <2>1. PICK q \in Rewards : q = guest[g].id BY <1>0, <1>5 DEF BackfillWallet, TypeOK
    <2>2. reward[q].claimRequired /\ RowsOf(q) BY <1>5, <2>1 DEF BackfillWallet, RequestOf
    <2>3. NoConfirmation /\ UNCHANGED <<reward, entry>>
      BY <1>5, SameConfirmsNone DEF BackfillWallet
    <2>4. CASE wallet[q] # "NONE"
      BY <1>5, <2>1, <2>3, <2>4, RowsSame DEF BackfillWallet
    <2>5. CASE wallet[q] = "NONE"
      <3>1. OnlyRow(q) /\ wallet'[q] = "PENDING"
        BY <1>0, <1>5, <2>1, <2>3, <2>5 DEF BackfillWallet, SetWallet, OnlyRow, TypeOK
      <3>2. entry[q].status = "CONFIRMED" => reward[q].requested
        BY <2>2 DEF PayInv, ClaimFirst, Late
      <3>3. RowsOf(q)' BY <2>2, <2>3, <2>5, <3>1, <3>2 DEF RowsOf
      <3> QED BY <2>3, <3>1, <3>3, RowsStay
    <2> QED BY <2>4, <2>5
  <1> QED BY <1>1, <1>2, <1>3, <1>4, <1>5 DEF GuestStep, BackfillStep

\* The need for a claim is never taken back.
LEMMA ClaimRequiredForGood ==
  ASSUME TypeOK, [Next]_vars, NoStaff, NEW r \in Rewards, reward[r].claimRequired
  PROVE  reward'[r].claimRequired
  <1>0. \A q \in Rewards : reward[q] \in Reward BY DEF TypeOK
  <1>1. ASSUME NEW w \in Workers, WorkerStep(w) \/ Crash(w) PROVE reward'[r].claimRequired
    <2>1. ASSUME NEW q \in Rewards, SettleReward(q) PROVE reward'[r].claimRequired
      BY <1>0, <2>1 DEF SettleReward, TypeOK, Reward
    <2> QED BY <1>1, <2>1, WorkerItems DEF ItemMoves, GivesBack, Reopens
  <1>2. ASSUME NEW g \in Requests, GuestStep(g) \/ BackfillStep(g)
        PROVE  reward'[r].claimRequired
    <2>1. UNCHANGED reward \/ \E q \in Rewards : reward' = [reward EXCEPT ![q].requested = TRUE]
      BY <1>2 DEF GuestStep, AcceptClaim, Materialize, SynchronizeRead, SynchronizeWrite,
         CheckUncertain, DropClaim, AbortRequest, BackfillStep, FindMissing, BackfillWallet,
         rows
    <2> QED BY <1>0, <2>1 DEF TypeOK, Reward
  <1>3. ASSUME NEW q \in Rewards, \/ OperatorStep(q) \/ PortalStep(q) \/ RetentionStep(q)
                                  \/ StaffStep(q) \/ Lapse(q)
        PROVE  reward'[r].claimRequired
    <2>1. \/ UNCHANGED reward
          \/ \E st : reward' = [reward EXCEPT ![q].status = st]
          \/ reward' = [reward EXCEPT ![q].status = "PAID", ![q].paid = TRUE]
          \/ reward' = [reward EXCEPT ![q].claimRequired = TRUE, ![q].lapsed = FALSE]
          \/ reward' = [reward EXCEPT ![q].lapsed = TRUE]
      BY <1>3 DEF OperatorStep, ResolveConfirmed, ResolveNotApplied, CancelEntry, SettleReward,
         PortalStep, ReconcileWallet, UpgradeHistoricalClaim, RetentionStep,
         ExpireWalletItem, ExpireOrphanClaim, SetRewardStatus, StaffStep, RedeemReward,
         UpdateReward, RestartLootBox, Lapse, NoStaff
    <2> QED BY <1>0, <2>1 DEF TypeOK, Reward
  <1>4. CASE ProviderStep \/ Tick \/ BumpRevision \/ ExpireAdmission \/ UNCHANGED vars
    BY <1>4 DEF ProviderStep, Apply, Reject, Tick, BumpRevision, ExpireAdmission, rows, vars
  <1> QED BY <1>1, <1>2, <1>3, <1>4 DEF Next

\* What a request has just read is true, and what others hold stays true.
LEMMA RequestsStay ==
  ASSUME PayInv, RowsInv, NoStaff, [Next]_vars
  PROVE  \A g \in Requests : RequestOf(g)'
  <1>0. TypeOK BY DEF PayInv
  <1>1. ASSUME NEW g \in Requests, guest'[g] = guest[g] PROVE RequestOf(g)'
    <2>1. CASE guest[g].pc = "backfill"
      <3>1. guest[g].id \in Rewards /\ reward[guest[g].id].claimRequired
        BY <1>0, <2>1 DEF TypeOK, RowsInv, RequestOf
      <3> QED BY <1>0, <1>1, <2>1, <3>1, ClaimRequiredForGood DEF RequestOf
    <2>2. CASE guest[g].pc # "backfill" BY <1>1, <2>2 DEF RequestOf, RowsInv
    <2> QED BY <2>1, <2>2
  <1>2. ASSUME NEW g \in Requests, GuestStep(g) \/ BackfillStep(g), NEW h \in Requests
        PROVE  RequestOf(h)'
    <2>1. PICK x : SetRequest(g, x)
      BY <1>2 DEF GuestStep, AcceptClaim, Materialize, SynchronizeRead, SynchronizeWrite,
         CheckUncertain, DropClaim, AbortRequest, BackfillStep, FindMissing, BackfillWallet
    <2>2. guest'[g] = x /\ \A k \in Requests \ {g} : guest'[k] = guest[k]
      BY <1>0, <2>1 DEF SetRequest, TypeOK
    <2>3. guest[g] \in RequestState BY <1>0 DEF TypeOK
    <2>4. CASE SynchronizeRead(g)
      <3>1. PICK p \in SyncPlans(guest[g].id) :
              SetRequest(g, [guest[g] EXCEPT !.pc = "write", !.plan = p])
        BY <2>4 DEF SynchronizeRead
      <3>2. guest[g].id \in Rewards BY <1>0, <2>4 DEF SynchronizeRead, TypeOK
      <3>3. p # "CLAIMED" BY <3>1, <3>2 DEF SyncPlans, RowsInv, RowsOf
      <3>4. guest'[g].pc = "write" /\ guest'[g].plan = p
        BY <1>0, <2>3, <3>1 DEF SetRequest, TypeOK, RequestState
      <3> QED BY <1>1, <2>2, <3>3, <3>4 DEF RequestOf
    <2>5. ASSUME NEW r \in Rewards, FindMissing(g, r) PROVE RequestOf(h)'
      <3>1. /\ SetRequest(g, [guest[g] EXCEPT !.pc = "backfill", !.id = r])
            /\ reward[r].claimRequired /\ UNCHANGED reward
        BY <2>5 DEF FindMissing, rows
      <3>2. guest'[g].pc = "backfill" /\ guest'[g].id = r
        BY <1>0, <2>3, <3>1 DEF SetRequest, TypeOK, RequestState
      <3> QED BY <1>1, <2>2, <3>1, <3>2 DEF RequestOf
    <2>6. CASE \/ \E r \in Rewards : AcceptClaim(g, r)
               \/ Materialize(g) \/ SynchronizeWrite(g) \/ CheckUncertain(g)
               \/ DropClaim(g) \/ AbortRequest(g) \/ BackfillWallet(g)
      <3>1. IdleRequest.pc = "idle" BY DEF IdleRequest
      <3>2. \/ SetRequest(g, IdleRequest)
            \/ \E r : SetRequest(g, [guest[g] EXCEPT !.pc = "materialize", !.id = r])
            \/ \E f : SetRequest(g, [guest[g] EXCEPT !.pc = "sync", !.failed = f])
            \/ SetRequest(g, [guest[g] EXCEPT !.pc = "check", !.plan = "none"])
            \/ SetRequest(g, [guest[g] EXCEPT !.pc = "drop"])
        BY <2>6 DEF AcceptClaim, Materialize, SynchronizeWrite, CheckUncertain, DropClaim,
                    AbortRequest, BackfillWallet
      <3>3. x.pc \in {"idle", "materialize", "sync", "check", "drop"}
        <4>1. ASSUME NEW y, SetRequest(g, y) PROVE guest'[g] = y
          BY <1>0, <4>1 DEF SetRequest, TypeOK
        <4>2. CASE SetRequest(g, IdleRequest) BY <2>2, <3>1, <4>1, <4>2
        <4>3. CASE \E r : SetRequest(g, [guest[g] EXCEPT !.pc = "materialize", !.id = r])
          BY <2>2, <2>3, <4>1, <4>3 DEF RequestState
        <4>4. CASE \E f : SetRequest(g, [guest[g] EXCEPT !.pc = "sync", !.failed = f])
          BY <2>2, <2>3, <4>1, <4>4 DEF RequestState
        <4>5. CASE SetRequest(g, [guest[g] EXCEPT !.pc = "check", !.plan = "none"])
          BY <2>2, <2>3, <4>1, <4>5 DEF RequestState
        <4>6. CASE SetRequest(g, [guest[g] EXCEPT !.pc = "drop"])
          BY <2>2, <2>3, <4>1, <4>6 DEF RequestState
        <4> QED BY <3>2, <4>2, <4>3, <4>4, <4>5, <4>6
      <3> QED BY <1>1, <2>2, <3>3 DEF RequestOf
    <2> QED BY <1>2, <2>4, <2>5, <2>6 DEF GuestStep, BackfillStep
  <1>3. CASE UNCHANGED guest BY <1>1, <1>3
  <1>4. ASSUME NEW w \in Workers, WorkerStep(w) \/ Crash(w) PROVE UNCHANGED guest
    BY <1>4 DEF WorkerStep, Crash, AcquirePermit, QueueApprovedRewards, CreateEntries,
       PromoteStaleDispatching, ClaimReadyEntries, NextEntry, PrepareEntry, FailEntry,
       RevalidateClaimed, MarkEntryDispatching, RevalidateDispatching, Revalidate,
       CheckTarget, EvaluatePermit, OwnsCurrentDispatch, SendCall, ReceiveResponse,
       ConfirmEntry, DispatchError, MarkReconciliationRequired
  <1>5. ASSUME NEW r \in Rewards, \/ OperatorStep(r) \/ PortalStep(r) \/ RetentionStep(r)
                                  \/ StaffStep(r) \/ Lapse(r)
        PROVE  UNCHANGED guest
    BY <1>5 DEF OperatorStep, ResolveConfirmed, ResolveNotApplied, CancelEntry, PortalStep,
       ReconcileWallet, UpgradeHistoricalClaim, RetentionStep, ExpireWalletItem,
       ExpireOrphanClaim, StaffStep, RedeemReward, UpdateReward, RestartLootBox, Lapse
  <1>6. CASE ProviderStep \/ Tick \/ BumpRevision \/ ExpireAdmission \/ UNCHANGED vars
    BY <1>3, <1>6 DEF ProviderStep, Apply, Reject, Tick, BumpRevision, ExpireAdmission, vars
  <1> QED BY <1>2, <1>3, <1>4, <1>5, <1>6 DEF Next

LEMMA RowsStep ==
  ASSUME PayInv, RowsInv, NoStaff, [Next]_vars
  PROVE  RowsInv'
  <1>0. TypeOK /\ \A r \in Rewards : RowsOf(r) BY DEF PayInv, RowsInv
  <1>1. \A g \in Requests : RequestOf(g)' BY RequestsStay
  <1>2. ASSUME NEW w \in Workers, WorkerStep(w) \/ Crash(w) PROVE \A r \in Rewards : RowsOf(r)'
    BY <1>0, <1>2, WorkerItems, ItemMovesRows, SettleKeepsRows
  <1>3. ASSUME NEW r \in Rewards, StaffStep(r) PROVE FALSE
    BY <1>3 DEF StaffStep, RedeemReward, UpdateReward, RestartLootBox, NoStaff
  <1>4. CASE Tick
    <2>1. \A r \in Rewards : entry'[r].status = entry[r].status
      BY <1>0, <1>4 DEF Tick, Older, TypeOK, Entry
    <2> QED BY <1>0, <1>1, <1>4, <2>1, RowsSame DEF Tick, NoConfirmation, RowsInv
  <1>5. CASE ProviderStep \/ BumpRevision \/ ExpireAdmission \/ UNCHANGED vars
    <2>1. UNCHANGED <<reward, wallet, entry>>
      BY <1>5 DEF ProviderStep, Apply, Reject, BumpRevision, ExpireAdmission, rows, vars
    <2> QED BY <1>0, <1>1, <2>1, RowsSame, SameConfirmsNone DEF RowsInv
  <1>6. CASE ~(\/ ProviderStep \/ Tick \/ BumpRevision \/ ExpireAdmission \/ UNCHANGED vars)
    <2>1. \A r \in Rewards : RowsOf(r)'
      BY <1>0, <1>2, <1>3, <1>6, OperatorKeepsRows, UpkeepKeepsRows, RequestKeepsRows DEF Next
    <2> QED BY <1>1, <2>1 DEF RowsInv
  <1> QED BY <1>4, <1>5, <1>6

LEMMA RowsStart == ASSUME Init PROVE RowsInv
  <1>1. NoEntry.status = "NONE" /\ LegacyEntry.status = "FAILED" /\ IdleRequest.pc = "idle"
    BY DEF NoEntry, LegacyEntry, IdleRequest
  <1>2. \A r \in Rewards : /\ entry[r].status # "CONFIRMED" /\ reward[r].status = "APPROVED"
                           /\ ~reward[r].requested /\ ~reward[r].paid
    BY <1>1 DEF Init, InitialRewards
  <1>3. \A r \in Rewards : /\ wallet[r] \in {"NONE", "PENDING"}
                           /\ ~reward[r].claimRequired => wallet[r] = "NONE"
    BY DEF Init
  <1>4. \A g \in Requests : guest[g].pc = "idle" BY <1>1 DEF Init
  <1> QED BY <1>2, <1>3, <1>4 DEF RowsInv, RowsOf, RequestOf

\* Without staff the three rows of a reward agree, for any number of workers and of
\* requests that act on what they read earlier: a confirmed bonus has a paid reward
\* and no open item, and the guest sees CLAIMED only for a bonus that was credited.
THEOREM RowsKeepTogether ==
  ASSUME NoStaff
  PROVE  Spec => []RowsAgree
  <1>1. Init => RowsInv BY RowsStart
  <1>2. PayInv /\ RowsInv /\ [Next]_vars => RowsInv' BY RowsStep
  <1>3. ASSUME PayInv, RowsInv, NEW r \in Rewards, entry[r].status = "CONFIRMED"
        PROVE  balance[r] = 1
    <2>1. [id |-> r, gen |-> entry[r].gen] \in credited
      BY <1>3 DEF PayInv, PayCore, Credits
    <2>2. SeenAtProvider(r) BY <2>1 DEF SeenAtProvider
    <2> QED BY <1>3, <2>2 DEF PayInv, PayCore, Credits
  <1>4. PayInv /\ RowsInv => RowsAgree BY <1>3 DEF RowsInv, RowsOf, RowsAgree
  <1> QED BY <1>1, <1>2, <1>4, PayInvHolds, PTL DEF Spec
=============================================================================
