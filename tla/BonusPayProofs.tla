--------------------------- MODULE BonusPayProofs ---------------------------
(***************************************************************************)
(* Type correctness of bonus delivery, and on top of it: every reward is   *)
(* credited at most once, and the ledger is right about it.  PayInv is an  *)
(* inductive invariant of bonus delivery.                                  *)
(*                                                                         *)
(* Most steps move ledger rows in one of seven ways (RowStep) while each   *)
(* worker keeps or drops what it holds (WorkerKeeps).  FrameStep shows     *)
(* that such a step preserves PayCore; the steps that are not of this form *)
(* (claiming, sending, the provider and the clock) follow one by one.      *)
(***************************************************************************)
EXTENDS BonusSafety, TLAPS

\* The worker's half of TypeOK.
WorkerOK ==
  /\ worker \in [Workers -> WorkerState]
  /\ \A w \in Workers : worker[w].pc \in HoldsJob => worker[w].job \in Token

LEMMA SetWorkerType ==
  ASSUME TypeOK, NEW w \in Workers, NEW x \in WorkerState,
         x.pc \in HoldsJob => x.job \in Token, SetWorker(w, x)
  PROVE  WorkerOK'
  BY DEF TypeOK, SetWorker, WorkerOK

\* A worker that only changes its pc keeps its shape.
LEMMA GotoType ==
  ASSUME TypeOK, NEW w \in Workers, NEW pc \in WorkerPc,
         pc \in HoldsJob => worker[w].job \in Token, Goto(w, pc)
  PROVE  WorkerOK'
  BY SetWorkerType DEF TypeOK, Goto, WorkerState

LEMMA FinishType ==
  ASSUME TypeOK, NEW w \in Workers, Finish(w)
  PROVE  WorkerOK'
  <1> DEFINE x == [worker[w] EXCEPT !.pc = "next", !.job = NoJob, !.age = 0]
  <1>1. x \in WorkerState
    BY DEF TypeOK, WorkerState, WorkerPc
  <1>2. x.pc \notin HoldsJob
    BY DEF TypeOK, WorkerState, HoldsJob, BeforeDispatch, AfterDispatch
  <1>3. SetWorker(w, x)
    BY DEF Finish
  <1> QED
    BY <1>1, <1>2, <1>3, SetWorkerType

\* A worker that forgets what it did is idle.
LEMMA IdleType == IdleWorker \in WorkerState /\ IdleWorker.pc \notin HoldsJob
  BY DEF IdleWorker, WorkerState, WorkerPc, HoldsJob, BeforeDispatch, AfterDispatch, NoJob

LEMMA CasType ==
  ASSUME TypeOK, NEW t \in Token, NEW s, NEW e \in Entry, Cas(t, s, e)
  PROVE  entry' \in [Rewards -> Entry]
  BY DEF TypeOK, Cas, Token

LEMMA InitType == ASSUME ConstantAssumption, Init PROVE TypeOK
  BY DEF Init, TypeOK, ConstantAssumption, InitialRewards, LegacyEntry, NoEntry, Entry,
         EntryStatus, ErrorCode, IdleWorker, WorkerState, WorkerPc, HoldsJob, BeforeDispatch,
         AfterDispatch, IdleRequest, RequestState, GuestPc, WritePlan, Reward, RewardStatus,
         WalletStatus, NoJob

-----------------------------------------------------------------------------
\* The rows that handlers write are entries.
LEMMA RowType ==
  ASSUME NEW e \in Entry, NEW s \in EntryStatus, NEW n \in {"null", "now", "retry"},
         NEW x \in ErrorCode
  PROVE  [e EXCEPT !.status = s, !.next = n, !.err = x, !.age = 0] \in Entry
  BY DEF Entry

LEMMA QuietRowType ==
  ASSUME NEW e \in Entry, NEW s \in EntryStatus, NEW n \in {"null", "now", "retry"}
  PROVE  [e EXCEPT !.status = s, !.next = n, !.age = 0] \in Entry
  BY DEF Entry

LEMMA AttemptRowType ==
  ASSUME NEW e \in Entry, NEW a \in Nat, NEW s \in EntryStatus,
         NEW n \in {"null", "now", "retry"}, NEW x \in ErrorCode
  PROVE  [e EXCEPT !.status = s, !.attempts = a, !.next = n, !.err = x, !.age = 0] \in Entry
  BY DEF Entry

LEMMA ClaimedRowType ==
  ASSUME TypeOK, NEW r \in Rewards, NEW rev \in Nat
  PROVE  ClaimedRow(r, rev) \in Entry /\ ClaimToken(r, rev) \in Token
  <1> DEFINE e == entry[r]
  <1>1. e \in Entry BY DEF TypeOK
  <1> HIDE DEF e
  <1>2. e.attempts + 1 \in Nat \ {0} /\ e.gen + 1 \in Nat /\ "PROCESSING" \in EntryStatus
    BY <1>1 DEF Entry, EntryStatus
  <1>3. \A a, g \in Nat :
          [e EXCEPT !.status = "PROCESSING", !.attempts = a, !.gen = g, !.rev = rev, !.age = 0]
            \in Entry
    BY <1>1, <1>2 DEF Entry
  <1>4. [e EXCEPT !.status = "PROCESSING", !.attempts = @ + 1, !.gen = @ + 1, !.rev = rev,
                  !.age = 0]
        = [e EXCEPT !.status = "PROCESSING", !.attempts = e.attempts + 1, !.gen = e.gen + 1,
                    !.rev = rev, !.age = 0]
    BY <1>1 DEF Entry
  <1>5. ClaimedRow(r, rev) \in Entry
    BY <1>2, <1>3, <1>4 DEF ClaimedRow, e
  <1>6. ClaimToken(r, rev) \in Token
    BY <1>2 DEF ClaimToken, Token, e
  <1> QED BY <1>5, <1>6

LEMMA NewEntryType == NewEntry \in Entry
  BY DEF NewEntry, NoEntry, Entry, EntryStatus, ErrorCode

LEMMA WorkerStepType ==
  ASSUME ConstantAssumption, TypeOK, NEW w \in Workers, WorkerStep(w)
  PROVE  TypeOK'
  <1> USE DEF rows, provider
  <1> DEFINE t == worker[w].job
  <1>0. worker[w] \in WorkerState /\ (worker[w].pc \in HoldsJob => t \in Token /\ t.id \in Rewards)
    BY DEF TypeOK, Token
  <1>1. CASE AcquirePermit(w)
    <2> DEFINE x == [worker[w] EXCEPT !.pc = "queue", !.rev = tenant.rev]
    <2>a. x \in WorkerState BY <1>0 DEF TypeOK, WorkerState, WorkerPc
    <2>b. x.pc \notin HoldsJob
      BY <1>0 DEF WorkerState, HoldsJob, BeforeDispatch, AfterDispatch
    <2>c. SetWorker(w, x) BY <1>1 DEF AcquirePermit
    <2>1. WorkerOK' BY <2>a, <2>b, <2>c, SetWorkerType
    <2> QED BY <1>1, <2>1 DEF TypeOK, AcquirePermit, WorkerOK
  <1>2. CASE QueueApprovedRewards(w)
    <2>0. PICK S \in SUBSET Rewards :
            SetWorker(w, [worker[w] EXCEPT !.pc = "create", !.seen = S])
      BY <1>2 DEF QueueApprovedRewards
    <2> DEFINE x == [worker[w] EXCEPT !.pc = "create", !.seen = S]
    <2>a. x \in WorkerState BY <1>0 DEF WorkerState, WorkerPc
    <2>b. x.pc \notin HoldsJob
      BY <1>0 DEF WorkerState, HoldsJob, BeforeDispatch, AfterDispatch
    <2>1. WorkerOK' BY <2>0, <2>a, <2>b, SetWorkerType
    <2> QED BY <1>2, <2>1 DEF TypeOK, QueueApprovedRewards, WorkerOK
  <1>3. CASE CreateEntries(w)
    <2> DEFINE x == [worker[w] EXCEPT !.pc = "promote", !.seen = {}]
    <2>a. x \in WorkerState BY <1>0 DEF TypeOK, WorkerState, WorkerPc
    <2>b. x.pc \notin HoldsJob
      BY <1>0 DEF WorkerState, HoldsJob, BeforeDispatch, AfterDispatch
    <2>c. SetWorker(w, x) BY <1>3 DEF CreateEntries
    <2>1. WorkerOK' BY <2>a, <2>b, <2>c, SetWorkerType
    <2>2. entry' \in [Rewards -> Entry]
      BY <1>3, NewEntryType DEF CreateEntries, TypeOK
    <2> QED BY <1>3, <2>1, <2>2 DEF TypeOK, CreateEntries, WorkerOK
  <1>4. CASE PromoteStaleDispatching(w)
    <2>1. WorkerOK'
      BY <1>4, GotoType DEF PromoteStaleDispatching, WorkerOK, WorkerPc, HoldsJob,
                  BeforeDispatch, AfterDispatch
    <2>2. entry' \in [Rewards -> Entry]
      BY <1>4, RowType DEF PromoteStaleDispatching, EntryStatus, ErrorCode, TypeOK
    <2> QED BY <1>4, <2>1, <2>2 DEF TypeOK, PromoteStaleDispatching, WorkerOK
  <1>5. CASE ClaimReadyEntries(w)
    <2>1. PICK S \in SUBSET Rewards :
            /\ entry' = [r \in Rewards |->
                 IF r \in S THEN ClaimedRow(r, worker[w].rev) ELSE entry[r]]
            /\ SetWorker(w, [worker[w] EXCEPT !.pc = "next",
                               !.todo = {ClaimToken(r, worker[w].rev) : r \in S}])
      BY <1>5 DEF ClaimReadyEntries
    <2>2. worker[w].rev \in Nat BY <1>0 DEF WorkerState
    <2>3. entry' \in [Rewards -> Entry]
      BY <2>1, <2>2, ClaimedRowType DEF TypeOK
    <2> DEFINE T == {ClaimToken(r, worker[w].rev) : r \in S}
               x == [worker[w] EXCEPT !.pc = "next", !.todo = T]
    <2>4. T \in SUBSET Token BY <2>2, ClaimedRowType
    <2> HIDE DEF T
    <2>5. x \in WorkerState BY <1>0, <2>4 DEF WorkerState, WorkerPc
    <2>6. x.pc \notin HoldsJob
      BY <1>0 DEF WorkerState, HoldsJob, BeforeDispatch, AfterDispatch
    <2>7. SetWorker(w, x) BY <2>1 DEF T
    <2>8. WorkerOK' BY <2>5, <2>6, <2>7, SetWorkerType
    <2> QED BY <1>5, <2>3, <2>8 DEF TypeOK, ClaimReadyEntries, WorkerOK
  <1>6. CASE NextEntry(w)
    <2>1. CASE SetWorker(w, IdleWorker)
      <3>1. WorkerOK' BY <2>1, IdleType, SetWorkerType
      <3> QED BY <1>6, <3>1 DEF TypeOK, NextEntry, WorkerOK
    <2>2. ASSUME NEW s \in worker[w].todo,
                 SetWorker(w, [worker[w] EXCEPT !.pc = "prepare", !.job = s, !.todo = @ \ {s}])
          PROVE  TypeOK'
      <3> DEFINE x == [worker[w] EXCEPT !.pc = "prepare", !.job = s, !.todo = @ \ {s}]
      <3>1. s \in Token BY <1>0 DEF WorkerState
      <3>2. x \in WorkerState /\ x.job \in Token
        BY <1>0, <3>1 DEF WorkerState, WorkerPc, HoldsJob, BeforeDispatch
      <3>3. WorkerOK' BY <2>2, <3>2, SetWorkerType
      <3> QED BY <1>6, <3>3 DEF TypeOK, NextEntry, WorkerOK
    <2> QED BY <1>6, <2>1, <2>2 DEF NextEntry
  <1>7. CASE PrepareEntry(w)
    <2>1. WorkerOK'
      BY <1>7, <1>0, GotoType DEF PrepareEntry, WorkerOK, WorkerPc, HoldsJob, BeforeDispatch
    <2> QED BY <1>7, <2>1 DEF TypeOK, PrepareEntry, WorkerOK
  <1>8. CASE FailEntry(w)
    <2>1. t \in Token BY <1>8, <1>0 DEF FailEntry, HoldsJob
    <2>2. FailedRow(t) \in Entry
      <3>1. entry[t.id] \in Entry /\ t.attempts \in Nat BY <2>1 DEF TypeOK, Token
      <3>2. \A n \in {"null", "retry"}, x \in ErrorCode :
              [entry[t.id] EXCEPT !.status = "FAILED", !.age = 0, !.next = n, !.err = x] \in Entry
        BY <3>1 DEF Entry, EntryStatus
      <3> QED BY <3>2 DEF FailedRow, ErrorCode
    <2>3. WorkerOK' BY <1>8, FinishType DEF FailEntry, WorkerOK
    <2>4. entry' \in [Rewards -> Entry] BY <1>8, <2>1, <2>2, CasType DEF FailEntry
    <2>5. wallet' \in [Rewards -> WalletStatus]
      BY <1>8 DEF FailEntry, TypeOK, WalletStatus
    <2> QED BY <1>8, <2>3, <2>4, <2>5 DEF TypeOK, FailEntry, WorkerOK
  <1>9. ASSUME NEW from \in HoldsJob, NEW st, NEW to \in HoldsJob, Revalidate(w, from, st, to)
        PROVE  TypeOK'
    <2>1. t \in Token BY <1>9, <1>0 DEF Revalidate
    <2>2. ParkedRow(t.id) \in Entry
      <3>1. entry[t.id] \in Entry BY <2>1 DEF TypeOK, Token
      <3>2. \A s \in {"PENDING", "CANCELED"} :
              [entry[t.id] EXCEPT !.status = s, !.next = "null", !.err = "OTHER", !.age = 0]
                \in Entry
        BY <3>1, RowType DEF EntryStatus, ErrorCode
      <3> QED BY <3>2 DEF ParkedRow
    <2>3. \/ /\ wallet' = IF reward[t.id].claimRequired
                           THEN [wallet EXCEPT ![t.id] = "PROCESSING"] ELSE wallet
             /\ Goto(w, to)
             /\ UNCHANGED entry
          \/ /\ Cas(t, st, ParkedRow(t.id))
             /\ Finish(w)
             /\ UNCHANGED wallet
      BY <1>9 DEF Revalidate
    <2>4. WorkerOK'
      BY <2>1, <2>3, GotoType, FinishType DEF WorkerOK, WorkerPc
    <2>5. entry' \in [Rewards -> Entry] BY <2>1, <2>2, <2>3, CasType DEF TypeOK
    <2>6. wallet' \in [Rewards -> WalletStatus]
      BY <2>3 DEF TypeOK, WalletStatus
    <2> QED BY <1>9, <2>4, <2>5, <2>6 DEF TypeOK, Revalidate, WorkerOK
  <1>10. CASE RevalidateClaimed(w)
    BY <1>9, <1>10 DEF RevalidateClaimed, HoldsJob, BeforeDispatch
  <1>11. CASE RevalidateDispatching(w)
    BY <1>9, <1>11 DEF RevalidateDispatching, HoldsJob, AfterDispatch
  <1>12. CASE MarkEntryDispatching(w)
    <2>1. t \in Token BY <1>12, <1>0 DEF MarkEntryDispatching, HoldsJob, BeforeDispatch
    <2>2. \/ /\ entry' = [entry EXCEPT ![t.id] = [entry[t.id] EXCEPT !.status = "DISPATCHING",
                                   !.next = "null", !.err = "null", !.age = 0]]
             /\ Goto(w, "recheck")
          \/ UNCHANGED entry /\ Finish(w)
      BY <1>12 DEF MarkEntryDispatching, SetEntry
    <2>3. WorkerOK'
      BY <2>1, <2>2, GotoType, FinishType DEF WorkerOK, WorkerPc, HoldsJob, AfterDispatch
    <2>a. entry[t.id] \in Entry BY <2>1 DEF TypeOK, Token
    <2>b. [entry[t.id] EXCEPT !.status = "DISPATCHING", !.next = "null", !.err = "null",
                              !.age = 0] \in Entry
      BY <2>a, RowType DEF EntryStatus, ErrorCode
    <2>4. entry' \in [Rewards -> Entry]
      BY <2>b, <2>2 DEF TypeOK
    <2> QED BY <1>12, <2>3, <2>4 DEF TypeOK, MarkEntryDispatching, WorkerOK
  <1>13. ASSUME worker[w].pc \in HoldsJob, ReturnDispatching(w)
         PROVE  WorkerOK' /\ entry' \in [Rewards -> Entry]
    <2>1. t \in Token BY <1>13, <1>0
    <2>2. Owns(t, "DISPATCHING") =>
            [entry[t.id] EXCEPT !.status = "PENDING", !.attempts = @ - 1,
                                !.next = "null", !.err = "OTHER", !.age = 0] \in Entry
      <3> SUFFICES ASSUME Owns(t, "DISPATCHING")
                   PROVE  [entry[t.id] EXCEPT !.status = "PENDING", !.attempts = @ - 1,
                             !.next = "null", !.err = "OTHER", !.age = 0] \in Entry
        OBVIOUS
      <3> DEFINE e == entry[t.id]
      <3>1. e \in Entry BY <2>1 DEF TypeOK, Token
      <3>2. e.attempts \in Nat \ {0} BY <2>1 DEF Owns, Token
      <3> HIDE DEF e
      <3>3. e.attempts - 1 \in Nat BY <3>2
      <3>4. [e EXCEPT !.status = "PENDING", !.attempts = e.attempts - 1,
                      !.next = "null", !.err = "OTHER", !.age = 0] \in Entry
        BY <3>1, <3>3, AttemptRowType DEF EntryStatus, ErrorCode
      <3>5. [e EXCEPT !.status = "PENDING", !.attempts = @ - 1,
                      !.next = "null", !.err = "OTHER", !.age = 0]
            = [e EXCEPT !.status = "PENDING", !.attempts = e.attempts - 1,
                        !.next = "null", !.err = "OTHER", !.age = 0]
        BY <3>1 DEF Entry
      <3> QED BY <3>4, <3>5 DEF e
    <2> QED BY <1>13, <2>1, <2>2, FinishType DEF ReturnDispatching, Cas, WorkerOK, TypeOK, Token
  <1>14. CASE CheckTarget(w)
    <2>1. worker[w].pc \in HoldsJob BY <1>14 DEF CheckTarget, HoldsJob, AfterDispatch
    <2>2. WorkerOK' /\ entry' \in [Rewards -> Entry]
      BY <1>0, <1>13, <1>14, <2>1, GotoType
      DEF CheckTarget, WorkerOK, WorkerPc, HoldsJob, AfterDispatch, TypeOK
    <2> QED BY <1>14, <2>2 DEF TypeOK, CheckTarget, WorkerOK
  <1>15. CASE EvaluatePermit(w)
    <2>1. worker[w].pc \in HoldsJob BY <1>15 DEF EvaluatePermit, HoldsJob, AfterDispatch
    <2>2. WorkerOK' /\ entry' \in [Rewards -> Entry]
      BY <1>0, <1>13, <1>15, <2>1, GotoType
      DEF EvaluatePermit, WorkerOK, WorkerPc, HoldsJob, AfterDispatch, TypeOK
    <2> QED BY <1>15, <2>2 DEF TypeOK, EvaluatePermit, WorkerOK
  <1>16. CASE OwnsCurrentDispatch(w)
    <2>1. worker[w].pc \in HoldsJob BY <1>16 DEF OwnsCurrentDispatch, HoldsJob, AfterDispatch
    <2> DEFINE x == [worker[w] EXCEPT !.pc = "send", !.age = 0]
    <2>2. SetWorker(w, x) \/ Finish(w) BY <1>16 DEF OwnsCurrentDispatch
    <2>3. x \in WorkerState /\ x.job \in Token
      BY <1>0, <2>1 DEF WorkerState, WorkerPc, HoldsJob, AfterDispatch
    <2>4. WorkerOK' BY <2>2, <2>3, SetWorkerType, FinishType
    <2> QED BY <1>16, <2>4 DEF TypeOK, OwnsCurrentDispatch, WorkerOK
  <1>17. CASE SendCall(w)
    <2>1. t \in Token BY <1>17, <1>0 DEF SendCall, HoldsJob, AfterDispatch
    <2>2. wire' \subseteq Call
      BY <1>0, <1>17, <2>1 DEF TypeOK, SendCall, Call, Token, WorkerState
    <2> DEFINE x == [worker[w] EXCEPT !.pc = "wait", !.age = 0]
    <2>a. x \in WorkerState /\ x.job \in Token
      BY <1>0, <2>1 DEF WorkerState, WorkerPc, HoldsJob, AfterDispatch
    <2>3. WorkerOK' BY <1>17, <2>a, SetWorkerType DEF SendCall
    <2> QED BY <1>17, <2>2, <2>3 DEF TypeOK, SendCall, WorkerOK
  <1>18. CASE ReceiveResponse(w)
    <2>1. WorkerOK'
      BY <1>0, <1>18, GotoType
      DEF ReceiveResponse, WorkerOK, WorkerPc, HoldsJob, AfterDispatch
    <2> QED BY <1>18, <2>1 DEF TypeOK, ReceiveResponse, WorkerOK
  <1>19. CASE ConfirmEntry(w)
    <2>1. t \in Token BY <1>19, <1>0 DEF ConfirmEntry, HoldsJob, AfterDispatch
    <2>2. \/ SettleReward(t.id) /\ Finish(w)
          \/ UNCHANGED rows /\ Goto(w, "unknown")
      BY <1>19 DEF ConfirmEntry
    <2>3. WorkerOK'
      BY <2>1, <2>2, GotoType, FinishType DEF WorkerOK, WorkerPc, HoldsJob
    <2>4. CASE SettleReward(t.id)
      <3>1. entry' \in [Rewards -> Entry]
        BY <2>1, <2>4, RowType
        DEF SettleReward, SetEntry, ConfirmedRow, TypeOK, Token, EntryStatus, ErrorCode
      <3>2. reward' \in [Rewards -> Reward]
        BY <2>1, <2>4 DEF SettleReward, TypeOK, Token, Reward, RewardStatus
      <3>3. wallet' \in [Rewards -> WalletStatus]
        BY <2>4 DEF SettleReward, TypeOK, WalletStatus
      <3> QED BY <1>19, <2>3, <3>1, <3>2, <3>3 DEF TypeOK, ConfirmEntry, WorkerOK
    <2> QED BY <1>19, <2>2, <2>3, <2>4 DEF TypeOK, ConfirmEntry, WorkerOK
  <1>20. CASE DispatchError(w)
    <2> DEFINE x == [worker[w] EXCEPT !.pc = "unknown", !.age = 0]
    <2>a. x \in WorkerState /\ x.job \in Token
      BY <1>0, <1>20 DEF DispatchError, WorkerState, WorkerPc, HoldsJob
    <2>1. WorkerOK' BY <1>20, <2>a, SetWorkerType DEF DispatchError
    <2> QED BY <1>20, <2>1 DEF TypeOK, DispatchError, WorkerOK
  <1>21. CASE MarkReconciliationRequired(w)
    <2>1. t \in Token BY <1>21, <1>0 DEF MarkReconciliationRequired, HoldsJob
    <2>2. WorkerOK' BY <1>21, FinishType DEF MarkReconciliationRequired, WorkerOK
    <2>3. entry' \in [Rewards -> Entry]
      BY <1>21, <2>1, RowType, CasType
      DEF MarkReconciliationRequired, Token, EntryStatus, ErrorCode, TypeOK
    <2> QED BY <1>21, <2>2, <2>3 DEF TypeOK, MarkReconciliationRequired, WorkerOK
  <1> QED
    BY <1>1, <1>2, <1>3, <1>4, <1>5, <1>6, <1>7, <1>8, <1>10, <1>11, <1>12, <1>14, <1>15,
       <1>16, <1>17, <1>18, <1>19, <1>20, <1>21 DEF WorkerStep

-----------------------------------------------------------------------------
RequestOK ==
  /\ guest \in [Requests -> RequestState]
  /\ \A g \in Requests : guest[g].pc # "idle" => guest[g].id \in Rewards

LEMMA SetRequestType ==
  ASSUME TypeOK, NEW g \in Requests, NEW x \in RequestState,
         x.pc # "idle" => x.id \in Rewards, SetRequest(g, x)
  PROVE  RequestOK'
  BY DEF TypeOK, SetRequest, RequestOK

LEMMA IdleRequestType == IdleRequest \in RequestState /\ IdleRequest.pc = "idle"
  BY DEF IdleRequest, RequestState, GuestPc, WritePlan, NoJob

LEMMA GuestStepType ==
  ASSUME TypeOK, NEW g \in Requests, GuestStep(g) \/ BackfillStep(g)
  PROVE  TypeOK'
  <1> USE DEF rows, provider
  <1> DEFINE q == guest[g]
  <1>0. q \in RequestState /\ (q.pc # "idle" => q.id \in Rewards)
    BY DEF TypeOK
  <1>1. ASSUME NEW r \in Rewards, AcceptClaim(g, r) PROVE TypeOK'
    <2> DEFINE x == [q EXCEPT !.pc = "materialize", !.id = r]
    <2>1. x \in RequestState /\ x.id \in Rewards BY <1>0 DEF RequestState, GuestPc
    <2>2. RequestOK' BY <1>1, <2>1, SetRequestType DEF AcceptClaim
    <2>3. CASE UNCHANGED rows
      BY <1>1, <2>2, <2>3 DEF AcceptClaim, TypeOK, RequestOK
    <2>4. CASE ~UNCHANGED rows
      <3>0. reward' = [reward EXCEPT ![r].requested = TRUE] BY <1>1, <2>4 DEF AcceptClaim
      <3>1. reward' \in [Rewards -> Reward] BY <3>0 DEF TypeOK, Reward
      <3>2. wallet' \in [Rewards -> WalletStatus]
        BY <1>1, <2>4 DEF AcceptClaim, TypeOK, SetWallet, WalletStatus
      <3>3. [entry[r] EXCEPT !.status = "PENDING", !.next = "now", !.age = 0] \in Entry
        BY QuietRowType DEF TypeOK, EntryStatus
      <3>4. entry' \in [Rewards -> Entry]
        BY <1>1, <2>4, <3>3 DEF AcceptClaim, TypeOK, SetEntry
      <3> QED BY <1>1, <2>2, <3>1, <3>2, <3>4 DEF AcceptClaim, TypeOK, RequestOK
    <2> QED BY <2>3, <2>4
  <1>2. CASE Materialize(g)
    <2>1. PICK failed \in BOOLEAN : SetRequest(g, [q EXCEPT !.pc = "sync", !.failed = failed])
      BY <1>2 DEF Materialize
    <2> DEFINE x == [q EXCEPT !.pc = "sync", !.failed = failed]
    <2>2. q.id \in Rewards BY <1>0, <1>2 DEF Materialize
    <2>3. x \in RequestState /\ x.id \in Rewards BY <1>0, <2>2 DEF RequestState, GuestPc
    <2>4. RequestOK' BY <2>1, <2>3, SetRequestType
    <2>5. entry' \in [Rewards -> Entry]
      BY <1>2, NewEntryType DEF Materialize, SetEntry, TypeOK
    <2> QED BY <1>2, <2>4, <2>5 DEF Materialize, TypeOK, RequestOK
  <1>3. CASE SynchronizeRead(g)
    <2>1. q.id \in Rewards BY <1>0, <1>3 DEF SynchronizeRead
    <2>2. PICK p \in SyncPlans(q.id) : SetRequest(g, [q EXCEPT !.pc = "write", !.plan = p])
      BY <1>3 DEF SynchronizeRead
    <2>3. p \in WritePlan BY <2>2 DEF SyncPlans, WritePlan
    <2> DEFINE x == [q EXCEPT !.pc = "write", !.plan = p]
    <2>4. x \in RequestState /\ x.id \in Rewards
      BY <1>0, <2>1, <2>3 DEF RequestState, GuestPc
    <2>5. RequestOK' BY <2>2, <2>4, SetRequestType
    <2> QED BY <1>3, <2>5 DEF SynchronizeRead, TypeOK, RequestOK
  <1>4. CASE SynchronizeWrite(g)
    <2>1. q.id \in Rewards BY <1>0, <1>4 DEF SynchronizeWrite
    <2> DEFINE x == [q EXCEPT !.pc = "check", !.plan = "none"]
    <2>2. x \in RequestState /\ x.id \in Rewards
      BY <1>0, <2>1 DEF RequestState, GuestPc, WritePlan
    <2>3. SetRequest(g, x) \/ SetRequest(g, IdleRequest) BY <1>4 DEF SynchronizeWrite
    <2>4. RequestOK' BY <2>2, <2>3, SetRequestType, IdleRequestType
    <2>5. wallet' \in [Rewards -> WalletStatus]
      <3>1. q.plan \in {"none", "CLAIMED", "FAILED"} BY <1>0 DEF RequestState, WritePlan
      <3> QED BY <1>4, <3>1 DEF SynchronizeWrite, SetWallet, TypeOK, WalletStatus
    <2> QED BY <1>4, <2>4, <2>5 DEF SynchronizeWrite, TypeOK, RequestOK
  <1>5. CASE CheckUncertain(g)
    <2>1. q.id \in Rewards BY <1>0, <1>5 DEF CheckUncertain
    <2> DEFINE x == [q EXCEPT !.pc = "drop"]
    <2>2. x \in RequestState /\ x.id \in Rewards BY <1>0, <2>1 DEF RequestState, GuestPc
    <2>3. SetRequest(g, x) \/ SetRequest(g, IdleRequest) BY <1>5 DEF CheckUncertain
    <2>4. RequestOK' BY <2>2, <2>3, SetRequestType, IdleRequestType
    <2> QED BY <1>5, <2>4 DEF CheckUncertain, TypeOK, RequestOK
  <1>6. CASE DropClaim(g)
    <2>1. RequestOK' BY <1>6, SetRequestType, IdleRequestType DEF DropClaim
    <2>2. wallet' \in [Rewards -> WalletStatus]
      BY <1>6 DEF DropClaim, SetWallet, TypeOK, WalletStatus
    <2> QED BY <1>6, <2>1, <2>2 DEF DropClaim, TypeOK, RequestOK
  <1>7. CASE AbortRequest(g)
    <2>1. RequestOK' BY <1>7, SetRequestType, IdleRequestType DEF AbortRequest
    <2> QED BY <1>7, <2>1 DEF AbortRequest, TypeOK, RequestOK
  <1>8. ASSUME NEW r \in Rewards, FindMissing(g, r) PROVE TypeOK'
    <2> DEFINE x == [q EXCEPT !.pc = "backfill", !.id = r]
    <2>1. x \in RequestState /\ x.id \in Rewards BY <1>0 DEF RequestState, GuestPc
    <2>2. RequestOK' BY <1>8, <2>1, SetRequestType DEF FindMissing
    <2> QED BY <1>8, <2>2 DEF FindMissing, TypeOK, RequestOK
  <1>9. CASE BackfillWallet(g)
    <2>1. RequestOK' BY <1>9, SetRequestType, IdleRequestType DEF BackfillWallet
    <2>2. wallet' \in [Rewards -> WalletStatus]
      BY <1>9 DEF BackfillWallet, SetWallet, TypeOK, WalletStatus
    <2> QED BY <1>9, <2>1, <2>2 DEF BackfillWallet, TypeOK, RequestOK
  <1> QED
    BY <1>1, <1>2, <1>3, <1>4, <1>5, <1>6, <1>7, <1>8, <1>9 DEF GuestStep, BackfillStep

-----------------------------------------------------------------------------
\* Operator, wallet upkeep, retention, staff and deadlines: rows only.
LEMMA RewardStepType ==
  ASSUME TypeOK, NEW r \in Rewards,
         OperatorStep(r) \/ PortalStep(r) \/ RetentionStep(r) \/ StaffStep(r) \/ Lapse(r)
  PROVE  TypeOK'
  <1> USE DEF provider
  <1>0. entry[r] \in Entry /\ reward[r] \in Reward BY DEF TypeOK
  <1>1. CASE ResolveConfirmed(r)
    <2>1. ConfirmedRow(r) \in Entry
      BY <1>0, RowType DEF ConfirmedRow, EntryStatus, ErrorCode
    <2> QED BY <1>1, <2>1
        DEF ResolveConfirmed, SettleReward, SetEntry, TypeOK, WalletStatus, Reward, RewardStatus
  <1>2. CASE ResolveNotApplied(r)
    <2>1. [entry[r] EXCEPT !.status = "FAILED", !.attempts = 0, !.next = "now",
                           !.err = "RECONCILIATION_NOT_APPLIED", !.age = 0] \in Entry
      BY <1>0, AttemptRowType DEF EntryStatus, ErrorCode
    <2> QED BY <1>2, <2>1 DEF ResolveNotApplied, SetEntry, TypeOK, WalletStatus
  <1>3. CASE CancelEntry(r)
    <2>1. [entry[r] EXCEPT !.status = "CANCELED", !.next = "null", !.age = 0] \in Entry
      BY <1>0, QuietRowType DEF EntryStatus
    <2> QED BY <1>3, <2>1 DEF CancelEntry, SetEntry, TypeOK, Reward, RewardStatus
  <1>4. CASE ReconcileWallet(r)
    <2>0. \/ reward' = reward
          \/ reward' = [reward EXCEPT ![r].status = "PAID", ![r].paid = TRUE]
      BY <1>4 DEF ReconcileWallet
    <2>1. reward' \in [Rewards -> Reward]
      BY <2>0 DEF TypeOK, Reward, RewardStatus
    <2>2. wallet' \in [Rewards -> WalletStatus]
      BY <1>4 DEF ReconcileWallet, SetWallet, TypeOK, WalletStatus
    <2> QED BY <1>4, <2>1, <2>2 DEF ReconcileWallet, TypeOK
  <1>5. CASE UpgradeHistoricalClaim(r)
    BY <1>5 DEF UpgradeHistoricalClaim, TypeOK, Reward
  <1>7. CASE ExpireWalletItem(r)
    BY <1>7 DEF ExpireWalletItem, SetWallet, SetRewardStatus, TypeOK, Reward, RewardStatus,
                WalletStatus
  <1>8. CASE ExpireOrphanClaim(r)
    <2>1. [entry[r] EXCEPT !.status = "CANCELED", !.next = "null", !.err = "OTHER",
                           !.age = 0] \in Entry
      BY <1>0, RowType DEF EntryStatus, ErrorCode
    <2> QED BY <1>8, <2>1
        DEF ExpireOrphanClaim, SetEntry, SetRewardStatus, TypeOK, Reward, RewardStatus
  <1>9. CASE RedeemReward(r)
    BY <1>9 DEF RedeemReward, SetRewardStatus, TypeOK, Reward, RewardStatus
  <1>10. CASE UpdateReward(r)
    <2>1. PICK s \in RewardStatus, l \in BOOLEAN :
            reward' = [reward EXCEPT ![r] = UpdatedReward(r, s, l)]
      BY <1>0, <1>10 DEF UpdateReward, Reward
    <2>2. UpdatedReward(r, s, l) \in Reward
      BY <1>0, <2>1 DEF UpdatedReward, Reward
    <2>3. reward' \in [Rewards -> Reward] BY <2>1, <2>2 DEF TypeOK
    <2>4. wallet' \in [Rewards -> WalletStatus]
      BY <1>10 DEF UpdateReward, SetWallet, TypeOK, WalletStatus
    <2>5. entry' \in [Rewards -> Entry]
      BY <1>10, NewEntryType DEF UpdateReward, SetEntry, TypeOK
    <2> QED BY <1>10, <2>3, <2>4, <2>5 DEF UpdateReward, TypeOK
  <1>11. CASE RestartLootBox(r)
    BY <1>11 DEF RestartLootBox, SetRewardStatus, TypeOK, Reward, RewardStatus
  <1>12. CASE Lapse(r)
    BY <1>12 DEF Lapse, TypeOK, Reward
  <1> QED
    BY <1>1, <1>2, <1>3, <1>4, <1>5, <1>7, <1>8, <1>9, <1>10, <1>11, <1>12
    DEF OperatorStep, PortalStep, RetentionStep, StaffStep

-----------------------------------------------------------------------------
\* Crashes, the provider, the clock and the tenant.
LEMMA EnvironmentStepType ==
  ASSUME TypeOK,
         \/ \E w \in Workers : Crash(w)
         \/ ProviderStep \/ Tick \/ BumpRevision \/ ExpireAdmission
  PROVE  TypeOK'
  <1> USE DEF rows, provider
  <1>1. ASSUME NEW w \in Workers, Crash(w) PROVE TypeOK'
    <2>1. WorkerOK' BY <1>1, IdleType, SetWorkerType DEF Crash
    <2> QED BY <1>1, <2>1 DEF Crash, TypeOK, WorkerOK
  <1>2. ASSUME NEW c \in wire, Apply(c) PROVE TypeOK'
    BY <1>2 DEF Apply, TypeOK, Call, Credit
  <1>3. ASSUME NEW c \in wire, Reject(c) PROVE TypeOK'
    BY <1>3 DEF Reject, TypeOK
  <1>4. CASE Tick
    <2>1. entry' \in [Rewards -> Entry]
      <3>1. ASSUME NEW r \in Rewards PROVE Older(entry[r]) \in Entry
        <4>1. entry[r] \in Entry BY DEF TypeOK
        <4>2. entry[r].age \in Nat /\ entry[r].age + 1 \in Nat BY <4>1 DEF Entry
        <4>3. \A n \in Nat : [entry[r] EXCEPT !.age = n] \in Entry BY <4>1 DEF Entry
        <4> QED BY <4>2, <4>3 DEF Older
      <3> QED BY <1>4, <3>1 DEF Tick
    <2>2. WorkerOK'
      BY <1>4 DEF Tick, TypeOK, WorkerOK, WorkerState
    <2>3. wire' \subseteq Call
      <3>1. ASSUME NEW c \in wire PROVE [c EXCEPT !.age = @ + 1] \in Call
        BY DEF TypeOK, Call
      <3> QED BY <1>4, <3>1 DEF Tick
    <2> QED BY <1>4, <2>1, <2>2, <2>3 DEF Tick, TypeOK, WorkerOK
  <1>5. CASE BumpRevision
    BY <1>5 DEF BumpRevision, TypeOK
  <1>6. CASE ExpireAdmission
    BY <1>6 DEF ExpireAdmission, TypeOK
  <1> QED
    BY <1>1, <1>2, <1>3, <1>4, <1>5, <1>6 DEF ProviderStep

LEMMA TypeStep ==
  ASSUME ConstantAssumption, TypeOK, [Next]_vars PROVE TypeOK'
  <1>1. CASE Next
    BY <1>1, WorkerStepType, GuestStepType, RewardStepType, EnvironmentStepType DEF Next
  <1>2. CASE UNCHANGED vars
    BY <1>2 DEF vars, TypeOK
  <1> QED BY <1>1, <1>2

\* Bonus delivery is type-correct for all rewards, workers, requests, limits and
\* deadlines: no handler writes a row, a process state or a message that another
\* handler does not know.
THEOREM TypeCorrect == Spec => []TypeOK
  <1>1. Init => TypeOK BY InitType, ConstantAssumption
  <1>2. TypeOK /\ [Next]_vars => TypeOK' BY TypeStep, ConstantAssumption
  <1> QED BY <1>1, <1>2, PTL DEF Spec

-----------------------------------------------------------------------------
\* The ways a step may change a ledger row.
RowKept(r) == /\ entry'[r].gen = entry[r].gen /\ entry'[r].status = entry[r].status
              /\ entry'[r].age = entry[r].age

InQueue == {"PENDING", "PROCESSING", "FAILED", "CANCELED"}

RowIdle(r) == /\ entry'[r].gen = entry[r].gen
              /\ entry[r].status \notin Late /\ entry'[r].status \in InQueue

RowMarked(r) == /\ entry'[r].gen = entry[r].gen
                /\ entry[r].status \notin Late /\ entry'[r].status = "DISPATCHING"

RowParked(r) == /\ entry'[r].gen = entry[r].gen /\ entry[r].status = "DISPATCHING"
                /\ entry'[r].status = "RECONCILIATION_REQUIRED" /\ entry'[r].age = 0

RowWithdrawn(r) ==
  /\ entry'[r].gen = entry[r].gen
  /\ entry[r].status = "DISPATCHING" /\ entry'[r].status \in InQueue
  /\ \E v \in Workers : /\ worker[v].pc \in BeforeSend \ {"send"}
                        /\ worker[v].job.id = r /\ worker[v].job.gen = entry[r].gen
                        /\ worker'[v].pc = "next"

RowConfirmed(r) ==
  /\ entry'[r].gen = entry[r].gen
  /\ entry[r].status \in Uncertain /\ entry'[r].status = "CONFIRMED"
  /\ [id |-> r, gen |-> entry[r].gen] \in credited

RowReleased(r) ==
  /\ entry'[r].gen = entry[r].gen
  /\ entry[r].status = "RECONCILIATION_REQUIRED" /\ entry'[r].status \in InQueue
  /\ entry[r].age >= Quarantine /\ ~SeenAtProvider(r)

RowStep(r) == \/ RowKept(r) \/ RowIdle(r) \/ RowMarked(r) \/ RowParked(r)
              \/ RowWithdrawn(r) \/ RowConfirmed(r) \/ RowReleased(r)

WorkerKeeps(v) ==
  /\ Tokens(worker'[v]) \subseteq Tokens(worker[v])
  /\ Unsent(worker'[v]) \subseteq Unsent(worker[v])
  /\ worker'[v].pc \in HoldsJob => worker'[v].job \notin worker'[v].todo
  /\ worker'[v].pc = "send" =>
       Open(worker'[v].job.id, worker'[v].job.gen, worker'[v].age)
  /\ worker'[v].pc = "confirm" =>
       [id |-> worker'[v].job.id, gen |-> worker'[v].job.gen] \in credited

\* The claims a worker holds are claims of rewards.
LEMMA TokenType ==
  ASSUME TypeOK, NEW w \in Workers
  PROVE  /\ Tokens(worker[w]) \subseteq Token
         /\ Unsent(worker[w]) \subseteq Tokens(worker[w])
  BY DEF TypeOK, Tokens, Unsent, WorkerState, HoldsJob, BeforeSend, BeforeDispatch, AfterDispatch

LEMMA SendIsUnsent ==
  ASSUME NEW x, x.pc = "send"
  PROVE  x.job \in Unsent(x) /\ x.job \in Tokens(x)
  BY DEF Unsent, Tokens, BeforeSend, HoldsJob, AfterDispatch

\* Moving rows this way leaves an open write open.
LEMMA OpenStays ==
  ASSUME TypeOK, ConstantAssumption, NEW r \in Rewards, NEW g \in Nat, NEW age \in Nat,
         Open(r, g, age), RowStep(r),
         ~RowWithdrawn(r), [id |-> r, gen |-> g] \notin credited
  PROVE  Open(r, g, age)'
  <1>1. entry[r] \in Entry BY DEF TypeOK
  <1>2. CASE RowKept(r) BY <1>2 DEF RowKept, Open
  <1>3. CASE RowIdle(r) BY <1>3 DEF RowIdle, Open, Late
  <1>4. CASE RowMarked(r) BY <1>4 DEF RowMarked, Open, Late
  <1>5. CASE RowParked(r) BY <1>5 DEF RowParked, Open, Uncertain
  <1>6. CASE RowConfirmed(r) BY <1>6 DEF RowConfirmed, Open
  <1>7. CASE RowReleased(r)
    BY <1>1, <1>7 DEF RowReleased, Open, ConstantAssumption, Entry
  <1> QED BY <1>2, <1>3, <1>4, <1>5, <1>6, <1>7 DEF RowStep

LEMMA FrameStep ==
  ASSUME ConstantAssumption, TypeOK, TypeOK', PayCore, UNCHANGED <<wire, credited, balance>>,
         \A r \in Rewards : RowStep(r), \A v \in Workers : WorkerKeeps(v)
  PROVE  PayCore'
  <1> USE DEF PayCore
  <1>0. \A r \in Rewards : entry'[r].gen = entry[r].gen
    BY DEF RowStep, RowKept, RowIdle, RowMarked, RowParked, RowWithdrawn, RowConfirmed,
           RowReleased
  <1>1. \A v \in Workers : Tokens(worker[v]) \subseteq Token /\ Tokens(worker'[v]) \subseteq Token
    BY TokenType DEF WorkerKeeps
  <1>2. ClaimsAreExclusive'
    <2>1. \A w \in Workers : \A t \in Tokens(worker'[w]) : t.gen <= entry'[t.id].gen
      <3> SUFFICES ASSUME NEW w \in Workers, NEW t \in Tokens(worker'[w])
                   PROVE  t.gen <= entry'[t.id].gen
        OBVIOUS
      <3>1. t \in Tokens(worker[w]) /\ t.id \in Rewards BY <1>1 DEF WorkerKeeps, Token
      <3> QED BY <1>0, <3>1 DEF ClaimsAreExclusive
    <2>2. \A v, w \in Workers : \A s \in Tokens(worker'[v]), t \in Tokens(worker'[w]) :
            s.id = t.id /\ s.gen = t.gen => v = w /\ s = t
      <3> SUFFICES ASSUME NEW v \in Workers, NEW w \in Workers, NEW s \in Tokens(worker'[v]),
                          NEW t \in Tokens(worker'[w]), s.id = t.id, s.gen = t.gen
                   PROVE  v = w /\ s = t
        OBVIOUS
      <3>1. s \in Tokens(worker[v]) /\ t \in Tokens(worker[w]) BY DEF WorkerKeeps
      <3> QED BY <3>1 DEF ClaimsAreExclusive
    <2>3. \A w \in Workers : worker'[w].pc \in HoldsJob => worker'[w].job \notin worker'[w].todo
      BY DEF WorkerKeeps
    <2>4. \A r \in Rewards : entry'[r].status = "NONE" => entry'[r].gen = 0
      BY DEF RowStep, RowKept, RowIdle, RowMarked, RowParked, RowWithdrawn, RowConfirmed,
             RowReleased, InQueue, ClaimsAreExclusive
    <2> QED BY <2>1, <2>2, <2>3, <2>4 DEF ClaimsAreExclusive
  <1>3. NotSentYet'
    BY DEF NotSentYet, WorkerKeeps
  <1>4. ASSUME NEW r \in Rewards, RowWithdrawn(r)
        PROVE  /\ \A c \in wire : c.id # r
               /\ \A c \in credited : c.id # r
               /\ \A v \in Workers : worker'[v].pc = "send" => worker'[v].job.id # r
    <2>1. PICK u \in Workers : /\ worker[u].pc \in BeforeSend \ {"send"}
                               /\ worker[u].job.id = r /\ worker[u].job.gen = entry[r].gen
                               /\ worker'[u].pc = "next"
      BY <1>4 DEF RowWithdrawn
    <2>2. worker[u].job \in Unsent(worker[u]) /\ worker[u].job \in Tokens(worker[u])
      BY <2>1, TokenType DEF Unsent
    <2>3. \A c \in wire : c.id # r
      <3> SUFFICES ASSUME NEW c \in wire, c.id = r PROVE FALSE
        OBVIOUS
      <3>1. c.gen = entry[r].gen BY DEF OpenCalls, Open
      <3> QED BY <2>1, <2>2, <3>1 DEF NotSentYet
    <2>4. \A c \in credited : c.id # r
      <3> SUFFICES ASSUME NEW c \in credited, c.id = r PROVE FALSE
        OBVIOUS
      <3>1. c \in Credit /\ c.gen = entry[r].gen BY DEF TypeOK, Credits
      <3>2. c = [id |-> r, gen |-> entry[r].gen] BY <3>1 DEF Credit
      <3> QED BY <2>1, <2>2, <3>2 DEF NotSentYet
    <2>5. ASSUME NEW v \in Workers, worker'[v].pc = "send", worker'[v].job.id = r PROVE FALSE
      <3>1. worker'[v].job \in Tokens(worker[v]) BY <2>5, SendIsUnsent DEF WorkerKeeps
      <3>2. worker'[v].job.gen = entry[r].gen BY <2>5 DEF WorkerKeeps, Open
      <3>3. v = u BY <2>1, <2>2, <2>5, <3>1, <3>2 DEF ClaimsAreExclusive
      <3> QED BY <2>1, <2>5, <3>3
    <2> QED BY <2>3, <2>4, <2>5
  <1>5. OpenCalls'
    <2>1. ASSUME NEW v \in Workers, worker'[v].pc = "send"
          PROVE  Open(worker[v].job.id, worker[v].job.gen, worker[v].age)'
      <3>1. worker'[v].job \in Unsent(worker[v]) /\ worker'[v].job \in Token /\ worker'[v].age \in Nat
        BY <1>1, <2>1, SendIsUnsent DEF WorkerKeeps, TypeOK, WorkerState
      <3>2. [id |-> worker'[v].job.id, gen |-> worker'[v].job.gen] \notin credited
        BY <3>1 DEF NotSentYet
      <3>3. worker'[v].job.id \in Rewards /\ worker'[v].job.gen \in Nat BY <3>1 DEF Token
      <3>4. Open(worker'[v].job.id, worker'[v].job.gen, worker'[v].age)
        BY <2>1 DEF WorkerKeeps
      <3>5. ~RowWithdrawn(worker'[v].job.id) BY <1>4, <2>1, <3>3
      <3>6. ASSUME NEW r \in Rewards, NEW g \in Nat, NEW a \in Nat, Open(r, g, a),
                   ~RowWithdrawn(r), [id |-> r, gen |-> g] \notin credited
            PROVE  /\ entry'[r].gen = g /\ a <= CallWindow /\ entry'[r].status \in Uncertain
                   /\ entry'[r].status = "RECONCILIATION_REQUIRED" => entry'[r].age <= a
        BY <3>6, OpenStays DEF Open
      <3> QED BY <3>1, <3>2, <3>3, <3>4, <3>5, <3>6 DEF Open
    <2>2. ASSUME NEW c \in wire PROVE Open(c.id, c.gen, c.age)'
      <3>1. c.id \in Rewards /\ c.gen \in Nat /\ c.age \in Nat BY DEF TypeOK, Call
      <3>2. [id |-> c.id, gen |-> c.gen] \notin credited /\ Open(c.id, c.gen, c.age)
        BY DEF OpenCalls
      <3>3. ~RowWithdrawn(c.id) BY <1>4, <3>1
      <3> QED BY <3>1, <3>2, <3>3, OpenStays
    <2> QED BY <2>1, <2>2 DEF OpenCalls
  <1>6. Credits'
    <2>1. ASSUME NEW c \in credited
          PROVE  entry'[c.id].gen = c.gen /\ entry'[c.id].status \in Late
      <3>1. c.id \in Rewards /\ entry[c.id].gen = c.gen /\ entry[c.id].status \in Late
        BY DEF TypeOK, Credit, Credits
      <3>2. ~RowWithdrawn(c.id) BY <1>4, <3>1
      <3>3. ~RowReleased(c.id) BY DEF RowReleased, SeenAtProvider
      <3> QED BY <1>0, <3>1, <3>2, <3>3
          DEF RowStep, RowKept, RowIdle, RowMarked, RowParked, RowConfirmed, Late, Uncertain, InQueue
    <2>2. ASSUME NEW r \in Rewards, entry'[r].status = "CONFIRMED"
          PROVE  [id |-> r, gen |-> entry'[r].gen] \in credited
      BY <1>0, <2>2 DEF RowStep, RowKept, RowIdle, RowMarked, RowParked, RowWithdrawn,
                   RowConfirmed, RowReleased, Late, InQueue, Credits
    <2> QED BY <2>1, <2>2 DEF Credits, WorkerKeeps, SeenAtProvider
  <1> QED BY <1>2, <1>3, <1>5, <1>6

-----------------------------------------------------------------------------
\* Workers that do not move, a worker that goes on with its claim, and a worker
\* that drops it.
LEMMA SameKeeps ==
  ASSUME PayCore, NEW v \in Workers, worker'[v] = worker[v]
  PROVE  WorkerKeeps(v)
  BY DEF PayCore, WorkerKeeps, ClaimsAreExclusive, OpenCalls, Credits

LEMMA MoveKeeps ==
  ASSUME TypeOK, PayCore, NEW w \in Workers, NEW x, SetWorker(w, x),
         x.job = worker[w].job, x.todo = worker[w].todo,
         worker[w].pc \in HoldsJob, x.pc \in HoldsJob,
         x.pc \in BeforeSend => worker[w].pc \in BeforeSend,
         x.pc = "send" => Open(x.job.id, x.job.gen, x.age),
         x.pc = "confirm" => [id |-> x.job.id, gen |-> x.job.gen] \in credited
  PROVE  \A v \in Workers : WorkerKeeps(v)
  <1>1. worker'[w] = x /\ \A v \in Workers \ {w} : worker'[v] = worker[v]
    BY DEF SetWorker, TypeOK
  <1>2. Tokens(x) = Tokens(worker[w]) /\ Unsent(x) \subseteq Unsent(worker[w])
    BY DEF Tokens, Unsent
  <1>3. WorkerKeeps(w)
    BY <1>1, <1>2 DEF WorkerKeeps, PayCore, ClaimsAreExclusive
  <1> QED BY <1>1, <1>3, SameKeeps

LEMMA DropKeeps ==
  ASSUME TypeOK, PayCore, NEW w \in Workers, NEW x, SetWorker(w, x),
         x.todo \subseteq worker[w].todo, x.pc \notin HoldsJob
  PROVE  \A v \in Workers : WorkerKeeps(v)
  <1>1. worker'[w] = x /\ \A v \in Workers \ {w} : worker'[v] = worker[v]
    BY DEF SetWorker, TypeOK
  <1>2. x.pc \notin BeforeSend /\ x.pc # "send" /\ x.pc # "confirm"
    BY DEF BeforeSend, HoldsJob, BeforeDispatch, AfterDispatch
  <1>3. Tokens(x) \subseteq Tokens(worker[w]) /\ Unsent(x) \subseteq Unsent(worker[w])
    BY <1>2 DEF Tokens, Unsent
  <1>4. WorkerKeeps(w) BY <1>1, <1>2, <1>3 DEF WorkerKeeps
  <1> QED BY <1>1, <1>4, SameKeeps

LEMMA FinishKeeps ==
  ASSUME TypeOK, PayCore, NEW w \in Workers, Finish(w)
  PROVE  (\A v \in Workers : WorkerKeeps(v)) /\ worker'[w].pc = "next"
  <1> DEFINE x == [worker[w] EXCEPT !.pc = "next", !.job = NoJob, !.age = 0]
  <1>1. x.todo = worker[w].todo /\ x.pc = "next"
    BY DEF TypeOK, WorkerState
  <1>2. x.pc \notin HoldsJob BY <1>1 DEF HoldsJob, BeforeDispatch, AfterDispatch
  <1>3. SetWorker(w, x) BY DEF Finish
  <1> HIDE DEF x
  <1>4. worker'[w] = x BY <1>3 DEF SetWorker, TypeOK
  <1> QED BY <1>1, <1>2, <1>3, <1>4, DropKeeps

LEMMA GotoKeeps ==
  ASSUME TypeOK, PayCore, NEW w \in Workers, NEW pc \in HoldsJob \ {"send"}, Goto(w, pc),
         worker[w].pc \in HoldsJob, pc \in BeforeSend => worker[w].pc \in BeforeSend,
         pc = "confirm" =>
           [id |-> worker[w].job.id, gen |-> worker[w].job.gen] \in credited
  PROVE  \A v \in Workers : WorkerKeeps(v)
  <1> DEFINE x == [worker[w] EXCEPT !.pc = pc]
  <1>1. x.todo = worker[w].todo /\ x.pc = pc /\ x.job = worker[w].job
    BY DEF TypeOK, WorkerState
  <1>2. SetWorker(w, x) BY DEF Goto
  <1> HIDE DEF x
  <1> QED BY <1>1, <1>2, MoveKeeps

-----------------------------------------------------------------------------
\* A compare-and-set moves at most one row, and only one its worker owns.
LEMMA CasRows ==
  ASSUME TypeOK, NEW t \in Token, NEW st, NEW e, Cas(t, st, e)
  PROVE  /\ \A r \in Rewards \ {t.id} : RowKept(r)
         /\ \/ RowKept(t.id)
            \/ /\ entry'[t.id] = e /\ entry[t.id].status = st /\ entry[t.id].gen = t.gen
  BY DEF TypeOK, Cas, Owns, RowKept, Token

LEMMA KeptRows == ASSUME UNCHANGED entry PROVE \A r \in Rewards : RowStep(r)
  BY DEF RowStep, RowKept

\* Nothing but the tenant, the requests and the rows of rewards and wallets moves.
LEMMA QuietStep ==
  ASSUME ConstantAssumption, TypeOK, TypeOK', PayCore, UNCHANGED <<worker, wire, credited, balance>>,
         \A r \in Rewards : RowStep(r)
  PROVE  PayCore'
  BY FrameStep, SameKeeps

-----------------------------------------------------------------------------
\* claimReadyEntries: a new generation starts where nothing is open.
LEMMA ClaimPays ==
  ASSUME ConstantAssumption, TypeOK, TypeOK', PayCore, NEW w \in Workers, ClaimReadyEntries(w)
  PROVE  PayCore'
  <1> USE DEF PayCore, provider
  <1>1. PICK S \in SUBSET {r \in Rewards : Claimable(r)} :
          /\ entry' = [r \in Rewards |->
               IF r \in S THEN ClaimedRow(r, worker[w].rev) ELSE entry[r]]
          /\ SetWorker(w, [worker[w] EXCEPT !.pc = "next",
                             !.todo = {ClaimToken(r, worker[w].rev) : r \in S}])
    BY DEF ClaimReadyEntries
  <1>2. \A r \in S : entry[r].status \notin Late
    BY <1>1 DEF Claimable, Late, Uncertain
  <1>3. \A r \in Rewards : entry[r] \in Entry BY DEF TypeOK
  <1>4. \A r \in S : entry'[r].gen = entry[r].gen + 1 /\ entry'[r].status = "PROCESSING"
    BY <1>1, <1>3 DEF ClaimedRow, Entry
  <1>5. \A r \in Rewards \ S : entry'[r] = entry[r] BY <1>1
  <1> DEFINE T == {ClaimToken(r, worker[w].rev) : r \in S}
  <1>6. /\ worker'[w].pc = "next" /\ worker'[w].todo = T
        /\ \A v \in Workers \ {w} : worker'[v] = worker[v]
    <2> DEFINE x == [worker[w] EXCEPT !.pc = "next", !.todo = T]
    <2>1. SetWorker(w, x) BY <1>1
    <2> HIDE DEF T
    <2>2. x.pc = "next" /\ x.todo = T BY DEF TypeOK, WorkerState
    <2> HIDE DEF x
    <2> QED BY <2>1, <2>2 DEF SetWorker, TypeOK
  <1>7. Tokens(worker'[w]) = T /\ Unsent(worker'[w]) = T
    BY <1>6 DEF Tokens, Unsent, HoldsJob, BeforeSend, BeforeDispatch, AfterDispatch
  <1>8. \A t \in T : t.id \in S /\ t.gen = entry[t.id].gen + 1
    BY DEF ClaimToken
  <1>9. \A s, t \in T : s.id = t.id => s = t
    BY DEF ClaimToken
  <1> HIDE DEF T
  <1>10. \A c \in wire : c.id \in Rewards \ S
    BY <1>2 DEF OpenCalls, Open, TypeOK, Call, Late
  <1>11. \A c \in credited : c.id \in Rewards \ S
    BY <1>2 DEF Credits, TypeOK, Credit
  <1>12. UNCHANGED <<wire, credited, balance>> BY DEF ClaimReadyEntries
  <1>13. \A r \in Rewards : entry'[r].gen >= entry[r].gen /\ entry[r].gen \in Nat
    BY <1>3, <1>4, <1>5 DEF Entry
  <1>14. ASSUME NEW v \in Workers \ {w}
         PROVE  Tokens(worker'[v]) = Tokens(worker[v]) /\ Unsent(worker'[v]) = Unsent(worker[v])
    BY <1>6
  <1>15. ASSUME NEW v \in Workers, NEW t \in Tokens(worker[v])
         PROVE  t.id \in Rewards /\ t.gen \in Nat /\ t.gen <= entry[t.id].gen
    BY TokenType DEF ClaimsAreExclusive, Token
  <1>16. ClaimsAreExclusive'
    <2>1. ASSUME NEW v \in Workers, NEW t \in Tokens(worker'[v]) PROVE t.gen <= entry'[t.id].gen
      <3>1. CASE v = w BY <1>4, <1>7, <1>8, <1>13, <2>1, <3>1
      <3>2. CASE v # w
        <4>1. t \in Tokens(worker[v]) BY <1>14, <2>1, <3>2
        <4>2. t.id \in Rewards /\ t.gen \in Nat /\ t.gen <= entry[t.id].gen BY <1>15, <4>1
        <4>3. entry'[t.id].gen >= entry[t.id].gen /\ entry[t.id].gen \in Nat
              /\ entry'[t.id].gen \in Nat
          BY <1>13, <4>2 DEF TypeOK, Entry
        <4> QED BY <4>2, <4>3
      <3> QED BY <3>1, <3>2
    <2>2. ASSUME NEW v \in Workers \ {w}, NEW s \in T, NEW t \in Tokens(worker[v]),
                 s.id = t.id, s.gen = t.gen
          PROVE  FALSE
      BY <1>8, <1>15, <1>13, <2>2
    <2>3. ASSUME NEW u \in Workers, NEW v \in Workers, NEW s \in Tokens(worker'[u]),
                 NEW t \in Tokens(worker'[v]), s.id = t.id, s.gen = t.gen
          PROVE  u = v /\ s = t
      <3>1. CASE u = w /\ v = w BY <1>7, <1>9, <2>3, <3>1
      <3>2. CASE u = w /\ v # w BY <1>7, <1>14, <2>2, <2>3, <3>2
      <3>3. CASE u # w /\ v = w BY <1>7, <1>14, <2>2, <2>3, <3>3
      <3>4. CASE u # w /\ v # w BY <1>14, <2>3, <3>4 DEF ClaimsAreExclusive
      <3> QED BY <3>1, <3>2, <3>3, <3>4
    <2>4. ASSUME NEW v \in Workers, worker'[v].pc \in HoldsJob
          PROVE  worker'[v].job \notin worker'[v].todo
      BY <1>6, <2>4 DEF ClaimsAreExclusive, HoldsJob, BeforeDispatch, AfterDispatch
    <2>5. \A r \in Rewards : entry'[r].status = "NONE" => entry'[r].gen = 0
      BY <1>4, <1>5 DEF ClaimsAreExclusive
    <2> QED BY <2>1, <2>3, <2>4, <2>5 DEF ClaimsAreExclusive
  <1>17. NotSentYet'
    <2> SUFFICES ASSUME NEW v \in Workers, NEW t \in Unsent(worker'[v])
                 PROVE  /\ \A c \in wire : ~(c.id = t.id /\ c.gen = t.gen)
                        /\ [id |-> t.id, gen |-> t.gen] \notin credited
      BY <1>12 DEF NotSentYet
    <2>1. CASE v = w BY <1>7, <1>8, <1>10, <1>11, <2>1
    <2>2. CASE v # w BY <1>14, <2>2 DEF NotSentYet
    <2> QED BY <2>1, <2>2
  <1>18. OpenCalls'
    <2>1. ASSUME NEW v \in Workers, worker'[v].pc = "send"
          PROVE  Open(worker[v].job.id, worker[v].job.gen, worker[v].age)'
      <3>1. worker'[v] = worker[v] /\ worker[v].pc = "send" BY <1>6, <2>1
      <3>2. worker[v].job.id \in Rewards BY <1>15, <3>1, SendIsUnsent
      <3>3. worker[v].job.id \notin S BY <1>2, <3>1 DEF OpenCalls, Open, Late
      <3> QED BY <1>5, <3>1, <3>2, <3>3 DEF OpenCalls, Open
    <2>2. ASSUME NEW c \in wire PROVE Open(c.id, c.gen, c.age)'
      BY <1>5, <1>10 DEF OpenCalls, Open
    <2> QED BY <1>12, <2>1, <2>2 DEF OpenCalls
  <1>19. Credits'
    <2>1. \A r \in Rewards : entry'[r].status = "CONFIRMED" =>
            [id |-> r, gen |-> entry'[r].gen] \in credited
      BY <1>4, <1>5 DEF Credits
    <2>2. \A v \in Workers : worker'[v].pc = "confirm" => worker'[v] = worker[v]
      BY <1>6
    <2>3. \A v \in Workers : worker'[v].pc = "confirm" =>
            [id |-> worker'[v].job.id, gen |-> worker'[v].job.gen] \in credited
      BY <2>2 DEF Credits
    <2>4. \A c \in credited : entry'[c.id].gen = c.gen /\ entry'[c.id].status \in Late
      BY <1>5, <1>11 DEF Credits
    <2> QED BY <1>12, <2>1, <2>3, <2>4 DEF Credits, SeenAtProvider
  <1> QED BY <1>16, <1>17, <1>18, <1>19

\* The write leaves for Langame: it was not sent before under this claim.
LEMMA SendPays ==
  ASSUME ConstantAssumption, TypeOK, TypeOK', PayCore, NEW w \in Workers, SendCall(w)
  PROVE  PayCore'
  <1> USE DEF PayCore
  <1> DEFINE t == worker[w].job
             k == [id |-> t.id, gen |-> t.gen, age |-> worker[w].age]
  <1>1. worker[w].pc = "send" /\ t \in Unsent(worker[w]) /\ t \in Tokens(worker[w]) /\ t \in Token
    BY SendIsUnsent, TokenType DEF SendCall
  <1>2. wire' = wire \cup {k} /\ UNCHANGED <<entry, credited, balance>>
    BY DEF SendCall, rows
  <1>3. /\ worker'[w].pc = "wait" /\ worker'[w].todo = worker[w].todo
        /\ worker'[w].job = t /\ \A v \in Workers \ {w} : worker'[v] = worker[v]
    BY DEF SendCall, SetWorker, TypeOK, WorkerState
  <1>4. /\ Tokens(worker'[w]) = Tokens(worker[w])
        /\ Unsent(worker'[w]) = worker[w].todo
    BY <1>1, <1>3 DEF Tokens, Unsent, HoldsJob, AfterDispatch, BeforeSend, BeforeDispatch
  <1>5. worker[w].job \notin worker[w].todo
    BY <1>1 DEF ClaimsAreExclusive, HoldsJob, AfterDispatch
  <1>6. \A v \in Workers : Tokens(worker'[v]) = Tokens(worker[v])
    BY <1>3, <1>4
  <1>7. \A v \in Workers : Unsent(worker'[v]) \subseteq Unsent(worker[v])
    BY <1>3, <1>4 DEF Unsent
  <1>8. ASSUME NEW v \in Workers, NEW s \in Unsent(worker'[v]), s.id = t.id, s.gen = t.gen
        PROVE  FALSE
    <2>1. s \in Tokens(worker[v]) BY <1>7, <1>8, TokenType
    <2>2. v = w /\ s = t BY <1>1, <1>8, <2>1 DEF ClaimsAreExclusive
    <2> QED BY <1>4, <1>5, <1>8, <2>2
  <1>9. ClaimsAreExclusive'
    BY <1>2, <1>3, <1>5, <1>6 DEF ClaimsAreExclusive
  <1>10. NotSentYet'
    <2> SUFFICES ASSUME NEW v \in Workers, NEW s \in Unsent(worker'[v])
                 PROVE  /\ \A c \in wire' : ~(c.id = s.id /\ c.gen = s.gen)
                        /\ [id |-> s.id, gen |-> s.gen] \notin credited'
      BY DEF NotSentYet
    <2> QED BY <1>2, <1>7, <1>8 DEF NotSentYet
  <1>11. [id |-> t.id, gen |-> t.gen] \notin credited
         /\ \A c \in wire : ~(c.id = t.id /\ c.gen = t.gen)
    BY <1>1 DEF NotSentYet
  <1>12. Open(t.id, t.gen, worker[w].age) BY <1>1 DEF OpenCalls
  <1>13. OpenCalls'
    <2>1. \A c \in wire' : c = k \/ c \in wire BY <1>2
    <2>2. \A c \in wire' : Open(c.id, c.gen, c.age)
      BY <1>12, <2>1 DEF OpenCalls
    <2>3. ASSUME NEW c \in wire' PROVE [id |-> c.id, gen |-> c.gen] \notin credited
      <3>1. CASE c \in wire BY <3>1 DEF OpenCalls
      <3>2. CASE c = k BY <1>11, <3>2
      <3> QED BY <2>1, <3>1, <3>2
    <2>4. ASSUME NEW c \in wire', NEW d \in wire', c.id = d.id, c.gen = d.gen PROVE c = d
      <3>1. k.id = t.id /\ k.gen = t.gen OBVIOUS
      <3> HIDE DEF k, t
      <3>2. CASE c \in wire /\ d \in wire BY <2>4, <3>2 DEF OpenCalls
      <3>3. CASE c = k BY <1>11, <2>1, <2>4, <3>1, <3>3
      <3>4. CASE d = k BY <1>11, <2>1, <2>4, <3>1, <3>4
      <3> QED BY <2>1, <3>2, <3>3, <3>4
    <2>5. \A v \in Workers : worker'[v].pc = "send" => worker'[v] = worker[v]
      BY <1>3
    <2> QED BY <1>2, <2>2, <2>3, <2>4, <2>5 DEF OpenCalls, Open
  <1>14. Credits'
    BY <1>2, <1>3 DEF Credits, SeenAtProvider
  <1> QED BY <1>9, <1>10, <1>13, <1>14

-----------------------------------------------------------------------------
\* The steps of dispatch() before it has claimed anything, and the loop.
LEMMA SweepPays ==
  ASSUME ConstantAssumption, TypeOK, TypeOK', PayCore, NEW w \in Workers,
         \/ AcquirePermit(w) \/ QueueApprovedRewards(w) \/ CreateEntries(w)
         \/ PromoteStaleDispatching(w)
  PROVE  PayCore'
  <1> USE DEF provider, rows
  <1>0. worker[w] \in WorkerState BY DEF TypeOK
  <1>1. UNCHANGED <<wire, credited, balance>>
    BY DEF AcquirePermit, QueueApprovedRewards, CreateEntries, PromoteStaleDispatching
  <1>2. \A pc \in {"queue", "create", "promote", "claim"} : pc \notin HoldsJob
    BY DEF HoldsJob, BeforeDispatch, AfterDispatch
  <1>3. \A v \in Workers : WorkerKeeps(v)
    <2>1. CASE AcquirePermit(w)
      <3> DEFINE x == [worker[w] EXCEPT !.pc = "queue", !.rev = tenant.rev]
      <3>1. SetWorker(w, x) BY <2>1 DEF AcquirePermit
      <3>2. x.todo = worker[w].todo /\ x.pc = "queue" BY <1>0 DEF WorkerState
      <3> HIDE DEF x
      <3> QED BY <1>2, <3>1, <3>2, DropKeeps
    <2>2. CASE QueueApprovedRewards(w)
      <3>1. PICK S : SetWorker(w, [worker[w] EXCEPT !.pc = "create", !.seen = S])
        BY <2>2 DEF QueueApprovedRewards
      <3> DEFINE x == [worker[w] EXCEPT !.pc = "create", !.seen = S]
      <3>2. x.todo = worker[w].todo /\ x.pc = "create" BY <1>0 DEF WorkerState
      <3>3. SetWorker(w, x) BY <3>1
      <3> HIDE DEF x
      <3> QED BY <1>2, <3>2, <3>3, DropKeeps
    <2>3. CASE CreateEntries(w)
      <3> DEFINE x == [worker[w] EXCEPT !.pc = "promote", !.seen = {}]
      <3>1. SetWorker(w, x) BY <2>3 DEF CreateEntries
      <3>2. x.todo = worker[w].todo /\ x.pc = "promote" BY <1>0 DEF WorkerState
      <3> HIDE DEF x
      <3> QED BY <1>2, <3>1, <3>2, DropKeeps
    <2>4. CASE PromoteStaleDispatching(w)
      <3> DEFINE x == [worker[w] EXCEPT !.pc = "claim"]
      <3>1. SetWorker(w, x) BY <2>4 DEF PromoteStaleDispatching, Goto
      <3>2. x.todo = worker[w].todo /\ x.pc = "claim" BY <1>0 DEF WorkerState
      <3> HIDE DEF x
      <3> QED BY <1>2, <3>1, <3>2, DropKeeps
    <2> QED BY <2>1, <2>2, <2>3, <2>4
  <1>4. \A r \in Rewards : RowStep(r)
    <2>1. CASE AcquirePermit(w) \/ QueueApprovedRewards(w)
      BY <2>1, KeptRows DEF AcquirePermit, QueueApprovedRewards
    <2>2. CASE CreateEntries(w)
      <3> SUFFICES ASSUME NEW r \in Rewards PROVE RowKept(r) \/ RowIdle(r)
        BY DEF RowStep
      <3>1. CASE r \in worker[w].seen /\ entry[r].status = "NONE"
        <4>1. entry'[r] = NewEntry BY <2>2, <3>1 DEF CreateEntries
        <4>2. NewEntry.status = "PENDING" /\ NewEntry.gen = 0 BY DEF NewEntry, NoEntry
        <4>3. entry[r].gen = 0 BY <3>1 DEF PayCore, ClaimsAreExclusive
        <4> QED BY <3>1, <4>1, <4>2, <4>3 DEF RowIdle, Late, Uncertain, InQueue
      <3>2. CASE ~(r \in worker[w].seen /\ entry[r].status = "NONE")
        BY <2>2, <3>2 DEF CreateEntries, RowKept
      <3> QED BY <3>1, <3>2
    <2>3. CASE PromoteStaleDispatching(w)
      <3> SUFFICES ASSUME NEW r \in Rewards PROVE RowKept(r) \/ RowParked(r)
        BY DEF RowStep
      <3>1. entry[r] \in Entry BY DEF TypeOK
      <3>2. CASE entry[r].status = "DISPATCHING" /\ LockStale(entry[r])
        BY <2>3, <3>1, <3>2 DEF PromoteStaleDispatching, RowParked, Entry
      <3>3. CASE ~(entry[r].status = "DISPATCHING" /\ LockStale(entry[r]))
        BY <2>3, <3>3 DEF PromoteStaleDispatching, RowKept
      <3> QED BY <3>2, <3>3
    <2> QED BY <2>1, <2>2, <2>3
  <1> QED BY <1>1, <1>3, <1>4, FrameStep

LEMMA NextPays ==
  ASSUME ConstantAssumption, TypeOK, TypeOK', PayCore, NEW w \in Workers, NextEntry(w)
  PROVE  PayCore'
  <1>1. UNCHANGED <<entry, wire, credited, balance>> BY DEF NextEntry, rows, provider
  <1>2. \A v \in Workers : WorkerKeeps(v)
    <2>1. CASE worker[w].todo = {}
      <3>1. SetWorker(w, IdleWorker) BY <2>1 DEF NextEntry
      <3>2. IdleWorker.todo = {} /\ IdleWorker.pc = "idle" BY DEF IdleWorker
      <3> QED BY <3>1, <3>2, DropKeeps DEF HoldsJob, BeforeDispatch, AfterDispatch
    <2>2. CASE worker[w].todo # {}
      <3>1. PICK t \in worker[w].todo :
              SetWorker(w, [worker[w] EXCEPT !.pc = "prepare", !.job = t, !.todo = @ \ {t}])
        BY <2>2 DEF NextEntry
      <3> DEFINE rest == worker[w].todo \ {t}
                 x == [worker[w] EXCEPT !.pc = "prepare", !.job = t, !.todo = rest]
      <3>2. SetWorker(w, x) BY <3>1 DEF TypeOK, WorkerState
      <3> HIDE DEF rest
      <3>3. x.pc = "prepare" /\ x.job = t /\ x.todo = rest BY DEF TypeOK, WorkerState
      <3> HIDE DEF x
      <3>4. worker'[w] = x /\ \A v \in Workers \ {w} : worker'[v] = worker[v]
        BY <3>2 DEF SetWorker, TypeOK
      <3>5. x.pc \in HoldsJob /\ x.pc \in BeforeSend
        BY <3>3 DEF HoldsJob, BeforeSend, BeforeDispatch
      <3>6. Tokens(x) \subseteq worker[w].todo /\ Unsent(x) \subseteq worker[w].todo
        BY <3>3, <3>5 DEF Tokens, Unsent, rest
      <3>7. Tokens(x) \subseteq Tokens(worker[w]) /\ Unsent(x) \subseteq Unsent(worker[w])
        BY <3>6 DEF Tokens, Unsent
      <3>8. WorkerKeeps(w) BY <3>3, <3>4, <3>7 DEF WorkerKeeps, rest
      <3> QED BY <3>4, <3>8, SameKeeps
    <2> QED BY <2>1, <2>2
  <1> QED BY <1>1, <1>2, KeptRows, FrameStep

\* A worker ends its work on an entry with a compare-and-set.
LEMMA CasPays ==
  ASSUME ConstantAssumption, TypeOK, TypeOK', PayCore, UNCHANGED <<wire, credited, balance>>,
         NEW w \in Workers, worker[w].pc \in HoldsJob, NEW st, NEW e,
         Cas(worker[w].job, st, e), Finish(w), e.gen = entry[worker[w].job.id].gen,
         \/ st = "PROCESSING" /\ e.status \in InQueue
         \/ st = "DISPATCHING" /\ e.status = "RECONCILIATION_REQUIRED" /\ e.age = 0
         \/ /\ st = "DISPATCHING" /\ e.status \in InQueue
            /\ worker[w].pc \in BeforeSend \ {"send"}
  PROVE  PayCore'
  <1> DEFINE t == worker[w].job
  <1>1. t \in Token BY DEF TypeOK
  <1>2. (\A v \in Workers : WorkerKeeps(v)) /\ worker'[w].pc = "next" BY FinishKeeps
  <1>3. /\ \A r \in Rewards \ {t.id} : RowKept(r)
        /\ \/ RowKept(t.id)
           \/ entry'[t.id] = e /\ entry[t.id].status = st /\ entry[t.id].gen = t.gen
    BY <1>1, CasRows
  <1>4. CASE entry'[t.id] = e /\ entry[t.id].status = st /\ entry[t.id].gen = t.gen
    <2>1. RowStep(t.id)
      BY <1>2, <1>4 DEF RowStep, RowIdle, RowParked, RowWithdrawn, Late, Uncertain
    <2> QED BY <1>2, <1>3, <2>1, FrameStep DEF RowStep
  <1>5. CASE RowKept(t.id) BY <1>2, <1>3, <1>5, FrameStep DEF RowStep
  <1> QED BY <1>3, <1>4, <1>5

\* A worker goes on with the entry it holds; no row changes.
LEMMA GotoPays ==
  ASSUME ConstantAssumption, TypeOK, TypeOK', PayCore, UNCHANGED <<entry, wire, credited, balance>>,
         NEW w \in Workers, worker[w].pc \in HoldsJob, NEW pc \in HoldsJob \ {"send"},
         Goto(w, pc), pc \in BeforeSend => worker[w].pc \in BeforeSend,
         pc = "confirm" =>
           [id |-> worker[w].job.id, gen |-> worker[w].job.gen] \in credited
  PROVE  PayCore'
  BY KeptRows, FrameStep, GotoKeeps

LEMMA FailPays ==
  ASSUME ConstantAssumption, TypeOK, TypeOK', PayCore, NEW w \in Workers, FailEntry(w)
  PROVE  PayCore'
  <1> DEFINE t == worker[w].job
  <1>1. worker[w].pc \in HoldsJob /\ t \in Token /\ entry[t.id] \in Entry
    BY DEF FailEntry, HoldsJob, TypeOK, Token
  <1>2. FailedRow(t).gen = entry[t.id].gen /\ FailedRow(t).status = "FAILED"
    BY <1>1 DEF FailedRow, Entry
  <1> QED BY <1>1, <1>2, CasPays DEF FailEntry, provider, InQueue

LEMMA RevalidatePays ==
  ASSUME ConstantAssumption, TypeOK, TypeOK', PayCore, NEW w \in Workers,
         RevalidateClaimed(w) \/ RevalidateDispatching(w)
  PROVE  PayCore'
  <1> DEFINE t == worker[w].job
  <1>1. worker[w].pc \in HoldsJob /\ worker[w].pc \in BeforeSend \ {"send"}
    BY DEF RevalidateClaimed, RevalidateDispatching, Revalidate, HoldsJob, BeforeSend,
           BeforeDispatch, AfterDispatch
  <1>2. t \in Token /\ entry[t.id] \in Entry BY <1>1 DEF TypeOK, Token
  <1>3. ParkedRow(t.id).gen = entry[t.id].gen /\ ParkedRow(t.id).status \in InQueue
    BY <1>2 DEF ParkedRow, Entry, InQueue
  <1>4. UNCHANGED <<wire, credited, balance>>
    BY DEF RevalidateClaimed, RevalidateDispatching, Revalidate, provider
  <1>5. \/ Goto(w, "mark") /\ UNCHANGED entry
        \/ Goto(w, "target") /\ UNCHANGED entry
        \/ Cas(t, "PROCESSING", ParkedRow(t.id)) /\ Finish(w)
        \/ Cas(t, "DISPATCHING", ParkedRow(t.id)) /\ Finish(w)
    BY DEF RevalidateClaimed, RevalidateDispatching, Revalidate
  <1>6. \A pc \in {"mark", "target"} : pc \in HoldsJob /\ pc # "confirm" /\ pc # "send"
    BY DEF HoldsJob, BeforeDispatch, AfterDispatch
  <1> HIDE DEF t
  <1>7. CASE Goto(w, "mark") /\ UNCHANGED entry BY <1>1, <1>4, <1>6, <1>7, GotoPays
  <1>8. CASE Goto(w, "target") /\ UNCHANGED entry BY <1>1, <1>4, <1>6, <1>8, GotoPays
  <1>9. CASE Cas(t, "PROCESSING", ParkedRow(t.id)) /\ Finish(w)
    BY <1>1, <1>3, <1>4, <1>9, CasPays DEF t
  <1>10. CASE Cas(t, "DISPATCHING", ParkedRow(t.id)) /\ Finish(w)
    BY <1>1, <1>3, <1>4, <1>10, CasPays DEF t
  <1> QED BY <1>5, <1>7, <1>8, <1>9, <1>10

LEMMA MarkPays ==
  ASSUME ConstantAssumption, TypeOK, TypeOK', PayCore, NEW w \in Workers,
         MarkEntryDispatching(w)
  PROVE  PayCore'
  <1> DEFINE t == worker[w].job
             e == [entry[t.id] EXCEPT !.status = "DISPATCHING", !.next = "null",
                                      !.err = "null", !.age = 0]
  <1>1. worker[w].pc \in HoldsJob /\ worker[w].pc \in BeforeSend
    BY DEF MarkEntryDispatching, HoldsJob, BeforeSend, BeforeDispatch
  <1>2. t \in Token /\ t.id \in Rewards /\ entry[t.id] \in Entry BY <1>1 DEF TypeOK, Token
  <1>3. UNCHANGED <<wire, credited, balance>> BY DEF MarkEntryDispatching, provider
  <1>4. \/ Owns(t, "PROCESSING") /\ SetEntry(t.id, e) /\ Goto(w, "recheck")
        \/ UNCHANGED entry /\ Finish(w)
    BY DEF MarkEntryDispatching
  <1>5. CASE Owns(t, "PROCESSING") /\ SetEntry(t.id, e) /\ Goto(w, "recheck")
    <2>1. \A v \in Workers : WorkerKeeps(v)
      BY <1>1, <1>5, GotoKeeps DEF HoldsJob, AfterDispatch, BeforeSend
    <2>2. e.status = "DISPATCHING" /\ e.gen = entry[t.id].gen BY <1>2 DEF Entry
    <2> HIDE DEF e
    <2>3. entry'[t.id] = e /\ \A r \in Rewards \ {t.id} : entry'[r] = entry[r]
      BY <1>2, <1>5 DEF SetEntry, TypeOK
    <2>4. RowMarked(t.id) BY <1>5, <2>2, <2>3 DEF RowMarked, Owns, Late, Uncertain
    <2>5. \A r \in Rewards : RowStep(r) BY <2>3, <2>4 DEF RowStep, RowKept
    <2> QED BY <1>3, <2>1, <2>5, FrameStep
  <1>6. CASE UNCHANGED entry /\ Finish(w) BY <1>3, <1>6, KeptRows, FinishKeeps, FrameStep
  <1> QED BY <1>4, <1>5, <1>6

LEMMA ReturnPays ==
  ASSUME ConstantAssumption, TypeOK, TypeOK', PayCore, UNCHANGED <<wire, credited, balance>>,
         NEW w \in Workers, worker[w].pc \in {"target", "permit"}, ReturnDispatching(w)
  PROVE  PayCore'
  <1> DEFINE t == worker[w].job
             a == entry[t.id].attempts - 1
             e == [entry[t.id] EXCEPT !.status = "PENDING", !.attempts = a,
                                      !.next = "null", !.err = "OTHER", !.age = 0]
  <1>1. worker[w].pc \in HoldsJob /\ worker[w].pc \in BeforeSend \ {"send"}
    BY DEF HoldsJob, AfterDispatch, BeforeSend
  <1>2. t \in Token /\ entry[t.id] \in Entry BY <1>1 DEF TypeOK, Token
  <1>3. Cas(t, "DISPATCHING", e) /\ Finish(w) BY <1>2 DEF ReturnDispatching, Entry
  <1> HIDE DEF a
  <1>4. e.gen = entry[t.id].gen /\ e.status \in InQueue BY <1>2 DEF Entry, InQueue
  <1> HIDE DEF e
  <1> QED BY <1>1, <1>3, <1>4, CasPays

LEMMA CheckPays ==
  ASSUME ConstantAssumption, TypeOK, TypeOK', PayCore, NEW w \in Workers,
         CheckTarget(w) \/ EvaluatePermit(w)
  PROVE  PayCore'
  <1>1. worker[w].pc \in {"target", "permit"} /\ UNCHANGED <<wire, credited, balance>>
    BY DEF CheckTarget, EvaluatePermit, provider
  <1>2. \/ Goto(w, "permit") /\ UNCHANGED entry
        \/ Goto(w, "own") /\ UNCHANGED entry
        \/ ReturnDispatching(w)
    BY DEF CheckTarget, EvaluatePermit
  <1>3. /\ worker[w].pc \in HoldsJob /\ worker[w].pc \in BeforeSend
        /\ "permit" \in HoldsJob /\ "own" \in HoldsJob
    BY <1>1 DEF HoldsJob, AfterDispatch, BeforeSend
  <1>4. CASE ReturnDispatching(w) BY <1>1, <1>4, ReturnPays
  <1>5. CASE Goto(w, "permit") /\ UNCHANGED entry BY <1>1, <1>3, <1>5, GotoPays
  <1>6. CASE Goto(w, "own") /\ UNCHANGED entry BY <1>1, <1>3, <1>6, GotoPays
  <1> QED BY <1>2, <1>4, <1>5, <1>6

\* The ownership check opens the write: its entry is DISPATCHING in its generation.
LEMMA OwnPays ==
  ASSUME ConstantAssumption, TypeOK, TypeOK', PayCore, NEW w \in Workers,
         OwnsCurrentDispatch(w)
  PROVE  PayCore'
  <1> DEFINE t == worker[w].job
             x == [worker[w] EXCEPT !.pc = "send", !.age = 0]
  <1>1. /\ UNCHANGED <<entry, wire, credited, balance>> /\ worker[w].pc = "own"
    BY DEF OwnsCurrentDispatch, rows, provider
  <1>2. (Owns(t, "DISPATCHING") /\ SetWorker(w, x)) \/ Finish(w)
    BY DEF OwnsCurrentDispatch
  <1>3. CASE Owns(t, "DISPATCHING") /\ SetWorker(w, x)
    <2>1. x.pc = "send" /\ x.age = 0 /\ x.job = t /\ x.todo = worker[w].todo
      BY DEF TypeOK, WorkerState
    <2>2. Open(t.id, t.gen, 0)
      BY <1>3 DEF Open, Owns, Uncertain, ConstantAssumption
    <2> HIDE DEF x
    <2>3. \A v \in Workers : WorkerKeeps(v)
      BY <1>1, <1>3, <2>1, <2>2, MoveKeeps DEF HoldsJob, AfterDispatch, BeforeSend
    <2> QED BY <1>1, <2>3, KeptRows, FrameStep
  <1>4. CASE Finish(w) BY <1>1, <1>4, KeptRows, FinishKeeps, FrameStep
  <1> QED BY <1>2, <1>3, <1>4

LEMMA PreparePays ==
  ASSUME ConstantAssumption, TypeOK, TypeOK', PayCore, NEW w \in Workers, PrepareEntry(w)
  PROVE  PayCore'
  BY GotoPays DEF PrepareEntry, rows, provider, HoldsJob, BeforeSend, BeforeDispatch

LEMMA ReceivePays ==
  ASSUME ConstantAssumption, TypeOK, TypeOK', PayCore, NEW w \in Workers, ReceiveResponse(w)
  PROVE  PayCore'
  BY GotoPays DEF ReceiveResponse, rows, provider, HoldsJob, AfterDispatch, BeforeSend,
                  BeforeDispatch

LEMMA ErrorPays ==
  ASSUME ConstantAssumption, TypeOK, TypeOK', PayCore, NEW w \in Workers, DispatchError(w)
  PROVE  PayCore'
  <1> DEFINE x == [worker[w] EXCEPT !.pc = "unknown", !.age = 0]
  <1>1. /\ UNCHANGED <<entry, wire, credited, balance>>
        /\ worker[w].pc \in HoldsJob /\ SetWorker(w, x)
    BY DEF DispatchError, rows, provider, HoldsJob
  <1>2. x.pc = "unknown" /\ x.job = worker[w].job /\ x.todo = worker[w].todo
    BY DEF TypeOK, WorkerState
  <1> HIDE DEF x
  <1>3. \A v \in Workers : WorkerKeeps(v)
    BY <1>1, <1>2, MoveKeeps DEF HoldsJob, AfterDispatch, BeforeDispatch, BeforeSend
  <1> QED BY <1>1, <1>3, KeptRows, FrameStep

LEMMA ReconcilePays ==
  ASSUME ConstantAssumption, TypeOK, TypeOK', PayCore, NEW w \in Workers,
         MarkReconciliationRequired(w)
  PROVE  PayCore'
  <1> DEFINE t == worker[w].job
             e == [entry[t.id] EXCEPT !.status = "RECONCILIATION_REQUIRED", !.next = "null",
                                      !.err = "OTHER", !.age = 0]
  <1>1. worker[w].pc \in HoldsJob /\ UNCHANGED <<wire, credited, balance>>
        /\ Cas(t, "DISPATCHING", e) /\ Finish(w)
    BY DEF MarkReconciliationRequired, provider, HoldsJob
  <1>2. t \in Token /\ entry[t.id] \in Entry BY <1>1 DEF TypeOK, Token
  <1>3. e.gen = entry[t.id].gen /\ e.status = "RECONCILIATION_REQUIRED" /\ e.age = 0
    BY <1>2 DEF Entry
  <1> HIDE DEF e
  <1> QED BY <1>1, <1>3, CasPays

\* A settled reward was credited under the generation that is confirmed.
LEMMA SettleRows ==
  ASSUME TypeOK, NEW r \in Rewards, SettleReward(r), entry[r].status \in Uncertain,
         [id |-> r, gen |-> entry[r].gen] \in credited
  PROVE  \A q \in Rewards : RowStep(q)
  <1>1. entry[r] \in Entry BY DEF TypeOK
  <1>2. ConfirmedRow(r).status = "CONFIRMED" /\ ConfirmedRow(r).gen = entry[r].gen
    BY <1>1 DEF ConfirmedRow, Entry
  <1>3. entry'[r] = ConfirmedRow(r) /\ \A q \in Rewards \ {r} : entry'[q] = entry[q]
    BY DEF SettleReward, SetEntry, TypeOK
  <1>4. RowConfirmed(r) BY <1>2, <1>3 DEF RowConfirmed
  <1> QED BY <1>3, <1>4 DEF RowStep, RowKept

LEMMA ConfirmPays ==
  ASSUME ConstantAssumption, TypeOK, TypeOK', PayCore, NEW w \in Workers, ConfirmEntry(w)
  PROVE  PayCore'
  <1> DEFINE t == worker[w].job
  <1>1. worker[w].pc = "confirm" /\ UNCHANGED <<wire, credited, balance>>
    BY DEF ConfirmEntry, provider
  <1>2. worker[w].pc \in HoldsJob BY <1>1 DEF HoldsJob, AfterDispatch
  <1>3. t \in Token /\ t.id \in Rewards BY <1>2 DEF TypeOK, Token
  <1>4. \/ Owns(t, "DISPATCHING") /\ SettleReward(t.id) /\ Finish(w)
        \/ UNCHANGED rows /\ Goto(w, "unknown")
    BY DEF ConfirmEntry
  <1>5. CASE Owns(t, "DISPATCHING") /\ SettleReward(t.id) /\ Finish(w)
    <2>1. [id |-> t.id, gen |-> entry[t.id].gen] \in credited
      BY <1>1, <1>5 DEF Owns, PayCore, Credits
    <2>2. \A r \in Rewards : RowStep(r)
      BY <1>3, <1>5, <2>1, SettleRows DEF Owns, Uncertain
    <2> QED BY <1>1, <1>5, <2>2, FinishKeeps, FrameStep
  <1>6. CASE UNCHANGED rows /\ Goto(w, "unknown")
    BY <1>1, <1>2, <1>6, GotoPays DEF rows, HoldsJob, BeforeSend, BeforeDispatch
  <1> QED BY <1>4, <1>5, <1>6

LEMMA CrashPays ==
  ASSUME ConstantAssumption, TypeOK, TypeOK', PayCore, NEW w \in Workers, Crash(w)
  PROVE  PayCore'
  <1>1. SetWorker(w, IdleWorker) /\ UNCHANGED <<entry, wire, credited, balance>>
    BY DEF Crash, rows, provider
  <1>2. IdleWorker.todo = {} /\ IdleWorker.pc \notin HoldsJob
    BY DEF IdleWorker, HoldsJob, BeforeDispatch, AfterDispatch
  <1> QED BY <1>1, <1>2, DropKeeps, KeptRows, FrameStep

LEMMA WorkerPays ==
  ASSUME ConstantAssumption, TypeOK, TypeOK', PayCore, NEW w \in Workers,
         WorkerStep(w) \/ Crash(w)
  PROVE  PayCore'
  BY SweepPays, ClaimPays, NextPays, PreparePays, FailPays, RevalidatePays, MarkPays,
     CheckPays, OwnPays, SendPays, ReceivePays, ConfirmPays, ErrorPays, ReconcilePays,
     CrashPays
  DEF WorkerStep

-----------------------------------------------------------------------------
\* The operator: what is confirmed was credited, what is released was not and can
\* no longer be, what is canceled was never sent.
LEMMA OperatorPays ==
  ASSUME ConstantAssumption, TypeOK, TypeOK', PayCore, NEW r \in Rewards, OperatorStep(r)
  PROVE  PayCore'
  <1> USE DEF provider
  <1>0. entry[r] \in Entry BY DEF TypeOK
  <1>1. CASE ResolveConfirmed(r)
    <2>1. PICK c \in credited : c.id = r BY <1>1 DEF ResolveConfirmed, SeenAtProvider
    <2>2. c = [id |-> r, gen |-> entry[r].gen]
      BY <2>1 DEF PayCore, Credits, TypeOK, Credit
    <2>3. \A q \in Rewards : RowStep(q)
      BY <1>1, <2>2, SettleRows DEF ResolveConfirmed, Uncertain
    <2> QED BY <1>1, <2>3, QuietStep DEF ResolveConfirmed
  <1>2. CASE ResolveNotApplied(r)
    <2> DEFINE e == [entry[r] EXCEPT !.status = "FAILED", !.attempts = 0, !.next = "now",
                                     !.err = "RECONCILIATION_NOT_APPLIED", !.age = 0]
    <2>1. e.status = "FAILED" /\ e.gen = entry[r].gen BY <1>0 DEF Entry
    <2>2. SetEntry(r, e) BY <1>2 DEF ResolveNotApplied
    <2> HIDE DEF e
    <2>3. entry'[r] = e /\ \A q \in Rewards \ {r} : entry'[q] = entry[q]
      BY <2>2 DEF SetEntry, TypeOK
    <2>4. RowReleased(r)
      BY <1>2, <2>1, <2>3 DEF ResolveNotApplied, RowReleased, QuarantineElapsed, InQueue
    <2>5. \A q \in Rewards : RowStep(q) BY <2>3, <2>4 DEF RowStep, RowKept
    <2> QED BY <1>2, <2>5, QuietStep DEF ResolveNotApplied
  <1>3. CASE CancelEntry(r)
    <2> DEFINE e == [entry[r] EXCEPT !.status = "CANCELED", !.next = "null", !.age = 0]
    <2>1. e.status = "CANCELED" /\ e.gen = entry[r].gen BY <1>0 DEF Entry
    <2>2. SetEntry(r, e) BY <1>3 DEF CancelEntry
    <2> HIDE DEF e
    <2>3. entry'[r] = e /\ \A q \in Rewards \ {r} : entry'[q] = entry[q]
      BY <2>2 DEF SetEntry, TypeOK
    <2>4. RowIdle(r)
      BY <1>3, <2>1, <2>3 DEF CancelEntry, RowIdle, Late, Uncertain, InQueue
    <2>5. \A q \in Rewards : RowStep(q) BY <2>3, <2>4 DEF RowStep, RowKept
    <2> QED BY <1>3, <2>5, QuietStep DEF CancelEntry
  <1> QED BY <1>1, <1>2, <1>3 DEF OperatorStep

-----------------------------------------------------------------------------
\* A row that another process moves within the queue, or creates.
LEMMA QueueRow ==
  ASSUME TypeOK, PayCore, NEW r \in Rewards, NEW e, SetEntry(r, e),
         entry[r].status \notin Late, e.status \in InQueue, e.gen = entry[r].gen
  PROVE  \A q \in Rewards : RowStep(q)
  <1>1. entry'[r] = e /\ \A q \in Rewards \ {r} : entry'[q] = entry[q]
    BY DEF SetEntry, TypeOK
  <1>2. RowIdle(r) BY <1>1 DEF RowIdle
  <1> QED BY <1>1, <1>2 DEF RowStep, RowKept

LEMMA GuestPays ==
  ASSUME ConstantAssumption, TypeOK, TypeOK', PayCore, NEW g \in Requests, GuestStep(g)
  PROVE  PayCore'
  <1> USE DEF provider, rows
  <1>1. UNCHANGED <<worker, wire, credited, balance>>
    BY DEF GuestStep, AcceptClaim, Materialize, SynchronizeRead, SynchronizeWrite,
           CheckUncertain, DropClaim, AbortRequest
  <1>2. CASE UNCHANGED entry BY <1>1, <1>2, KeptRows, QuietStep
  <1>3. ASSUME NEW r \in Rewards, entry[r].status = "FAILED",
               SetEntry(r, [entry[r] EXCEPT !.status = "PENDING", !.next = "now", !.age = 0])
        PROVE  PayCore'
    <2> DEFINE e == [entry[r] EXCEPT !.status = "PENDING", !.next = "now", !.age = 0]
    <2>1. entry[r] \in Entry BY DEF TypeOK
    <2>2. e.status = "PENDING" /\ e.gen = entry[r].gen BY <2>1 DEF Entry
    <2>3. SetEntry(r, e) BY <1>3
    <2> HIDE DEF e
    <2>4. \A q \in Rewards : RowStep(q)
      BY <1>3, <2>2, <2>3, QueueRow DEF Late, Uncertain, InQueue
    <2> QED BY <1>1, <2>4, QuietStep
  <1>4. ASSUME NEW r \in Rewards, entry[r].status = "NONE", SetEntry(r, NewEntry)
        PROVE  PayCore'
    <2>1. NewEntry.status = "PENDING" /\ NewEntry.gen = 0 BY DEF NewEntry, NoEntry
    <2>2. entry[r].gen = 0 BY <1>4 DEF PayCore, ClaimsAreExclusive
    <2>3. \A q \in Rewards : RowStep(q)
      BY <1>4, <2>1, <2>2, QueueRow DEF Late, Uncertain, InQueue
    <2> QED BY <1>1, <2>3, QuietStep
  <1>5. CASE \E r \in Rewards : AcceptClaim(g, r) BY <1>2, <1>3, <1>5 DEF AcceptClaim
  <1>6. CASE Materialize(g)
    <2>1. guest[g].id \in Rewards BY <1>6 DEF Materialize, TypeOK
    <2> QED BY <1>2, <1>4, <1>6, <2>1 DEF Materialize, Queueable
  <1>7. CASE \/ SynchronizeRead(g) \/ SynchronizeWrite(g) \/ CheckUncertain(g)
             \/ DropClaim(g) \/ AbortRequest(g)
    BY <1>2, <1>7 DEF SynchronizeRead, SynchronizeWrite, CheckUncertain, DropClaim, AbortRequest
  <1> QED BY <1>5, <1>6, <1>7 DEF GuestStep

LEMMA RetentionPays ==
  ASSUME ConstantAssumption, TypeOK, TypeOK', PayCore, NEW r \in Rewards, RetentionStep(r)
  PROVE  PayCore'
  <1> USE DEF provider
  <1>1. UNCHANGED <<worker, wire, credited, balance>>
    BY DEF RetentionStep, ExpireWalletItem, ExpireOrphanClaim
  <1>2. CASE UNCHANGED entry BY <1>1, <1>2, KeptRows, QuietStep
  <1>3. CASE ExpireWalletItem(r) BY <1>2, <1>3 DEF ExpireWalletItem
  <1>4. CASE ExpireOrphanClaim(r) /\ ~UNCHANGED entry
    <2> DEFINE e == [entry[r] EXCEPT !.status = "CANCELED", !.next = "null",
                                     !.err = "OTHER", !.age = 0]
    <2>1. entry[r] \in Entry BY DEF TypeOK
    <2>2. e.status = "CANCELED" /\ e.gen = entry[r].gen BY <2>1 DEF Entry
    <2>3. SetEntry(r, e) /\ entry[r].status \in {"PENDING", "FAILED"}
      BY <1>4 DEF ExpireOrphanClaim
    <2> HIDE DEF e
    <2>4. \A q \in Rewards : RowStep(q)
      BY <2>2, <2>3, QueueRow DEF Late, Uncertain, InQueue
    <2> QED BY <1>1, <2>4, QuietStep
  <1> QED BY <1>2, <1>3, <1>4 DEF RetentionStep

LEMMA OthersPay ==
  ASSUME ConstantAssumption, TypeOK, TypeOK', PayCore,
         \/ \E r \in Rewards : PortalStep(r) \/ StaffStep(r) \/ Lapse(r)
         \/ \E g \in Requests : BackfillStep(g)
         \/ BumpRevision \/ ExpireAdmission \/ UNCHANGED vars
  PROVE  PayCore'
  <1> USE DEF rows, provider
  <1>1. UNCHANGED <<worker, wire, credited, balance>>
    BY DEF PortalStep, ReconcileWallet, UpgradeHistoricalClaim, StaffStep, BackfillStep,
           FindMissing, BackfillWallet, RedeemReward, UpdateReward, RestartLootBox, Lapse,
           BumpRevision, ExpireAdmission, vars
  <1>2. CASE UNCHANGED entry BY <1>1, <1>2, KeptRows, QuietStep
  <1>3. ASSUME NEW r \in Rewards, UpdateReward(r), ~UNCHANGED entry PROVE PayCore'
    <2>1. entry[r].status = "NONE" /\ SetEntry(r, NewEntry) BY <1>3 DEF UpdateReward
    <2>2. NewEntry.status = "PENDING" /\ NewEntry.gen = 0 BY DEF NewEntry, NoEntry
    <2>3. entry[r].gen = 0 BY <2>1 DEF PayCore, ClaimsAreExclusive
    <2>4. \A q \in Rewards : RowStep(q)
      BY <2>1, <2>2, <2>3, QueueRow DEF Late, Uncertain, InQueue
    <2> QED BY <1>1, <2>4, QuietStep
  <1>4. UNCHANGED entry \/ \E r \in Rewards : UpdateReward(r)
    BY DEF PortalStep, ReconcileWallet, UpgradeHistoricalClaim, StaffStep, BackfillStep,
           FindMissing, BackfillWallet, RedeemReward, RestartLootBox, Lapse,
           BumpRevision, ExpireAdmission, vars
  <1> QED BY <1>2, <1>3, <1>4

-----------------------------------------------------------------------------
\* Langame applies a write: the first one for its reward.
LEMMA ApplyPays ==
  ASSUME ConstantAssumption, TypeOK, TypeOK', PayCore, NEW c \in wire, Apply(c)
  PROVE  PayCore'
  <1> USE DEF PayCore
  <1> DEFINE k == [id |-> c.id, gen |-> c.gen]
  <1>1. c \in Call /\ c.id \in Rewards BY DEF TypeOK, Call
  <1>2. /\ wire' = wire \ {c} /\ credited' = credited \cup {k}
        /\ balance' = [balance EXCEPT ![c.id] = @ + 1] /\ UNCHANGED <<entry, worker>>
    BY DEF Apply, rows
  <1>3. k \notin credited /\ Open(c.id, c.gen, c.age) BY DEF OpenCalls
  <1>4. ~SeenAtProvider(c.id)
    <2> SUFFICES ASSUME NEW d \in credited, d.id = c.id PROVE FALSE
      BY DEF SeenAtProvider
    <2>1. d.gen = c.gen /\ d \in Credit BY <1>3 DEF Credits, Open, TypeOK
    <2>2. d = k BY <2>1 DEF Credit
    <2> QED BY <1>3, <2>2
  <1>5. ClaimsAreExclusive' BY <1>2 DEF ClaimsAreExclusive
  <1>6. NotSentYet'
    <2> SUFFICES ASSUME NEW w \in Workers, NEW t \in Unsent(worker[w])
                 PROVE  /\ \A d \in wire' : ~(d.id = t.id /\ d.gen = t.gen)
                        /\ [id |-> t.id, gen |-> t.gen] \notin credited'
      BY <1>2 DEF NotSentYet
    <2>1. ~(c.id = t.id /\ c.gen = t.gen) /\ [id |-> t.id, gen |-> t.gen] \notin credited
      BY DEF NotSentYet
    <2>2. [id |-> t.id, gen |-> t.gen] # k BY <2>1
    <2> QED BY <1>2, <2>1, <2>2 DEF NotSentYet
  <1>7. OpenCalls'
    <2>1. ASSUME NEW d \in wire' PROVE [id |-> d.id, gen |-> d.gen] \notin credited'
      <3>1. d \in wire /\ d # c BY <1>2
      <3>2. [id |-> d.id, gen |-> d.gen] \notin credited BY <3>1 DEF OpenCalls
      <3>3. ~(d.id = c.id /\ d.gen = c.gen) BY <3>1 DEF OpenCalls
      <3>4. [id |-> d.id, gen |-> d.gen] # k BY <3>3
      <3> QED BY <1>2, <3>2, <3>4
    <2> QED BY <1>2, <2>1 DEF OpenCalls, Open
  <1>8. Credits'
    <2>1. \A d \in credited' : entry'[d.id].gen = d.gen /\ entry'[d.id].status \in Late
      <3>1. k.id = c.id /\ k.gen = c.gen OBVIOUS
      <3> HIDE DEF k
      <3> QED BY <1>2, <1>3, <3>1 DEF Credits, Open, Late
    <2>2. ASSUME NEW r \in Rewards
          PROVE  balance'[r] = IF \E d \in credited' : d.id = r THEN 1 ELSE 0
      <3>1. CASE r = c.id
        <4>1. balance[r] = 0 BY <1>4, <3>1 DEF Credits
        <4>2. balance'[r] = 1 BY <1>1, <1>2, <3>1, <4>1 DEF TypeOK
        <4>3. k.id = r /\ k \in credited' BY <1>2, <3>1
        <4> QED BY <4>2, <4>3
      <3>2. CASE r # c.id
        <4>1. balance'[r] = balance[r] BY <1>2, <3>2 DEF TypeOK
        <4>2. (\E d \in credited' : d.id = r) <=> SeenAtProvider(r)
          BY <1>2, <3>2 DEF SeenAtProvider
        <4> QED BY <4>1, <4>2 DEF Credits
      <3> QED BY <3>1, <3>2
    <2> HIDE DEF k
    <2> QED BY <1>2, <2>1, <2>2 DEF Credits, SeenAtProvider
  <1> QED BY <1>5, <1>6, <1>7, <1>8

LEMMA RejectPays ==
  ASSUME ConstantAssumption, TypeOK, TypeOK', PayCore, NEW c \in wire, Reject(c)
  PROVE  PayCore'
  <1>1. wire' \subseteq wire /\ UNCHANGED <<entry, worker, credited, balance>>
    BY DEF Reject, rows
  <1> QED BY <1>1 DEF PayCore, ClaimsAreExclusive, NotSentYet, OpenCalls, Open, Credits,
                      SeenAtProvider

\* The clock ages an open write and its parked entry alike.
LEMMA TickPays ==
  ASSUME ConstantAssumption, TypeOK, TypeOK', PayCore, Tick
  PROVE  PayCore'
  <1> USE DEF PayCore
  <1>1. UNCHANGED <<credited, balance>> BY DEF Tick
  <1>2. \A r \in Rewards :
          /\ entry'[r].gen = entry[r].gen /\ entry'[r].status = entry[r].status
          /\ entry[r].age \in Nat /\ entry'[r].age \in Nat /\ entry'[r].age <= entry[r].age + 1
    <2> SUFFICES ASSUME NEW r \in Rewards
                 PROVE  /\ entry'[r].gen = entry[r].gen /\ entry'[r].status = entry[r].status
                        /\ entry[r].age \in Nat /\ entry'[r].age \in Nat
                        /\ entry'[r].age <= entry[r].age + 1
      OBVIOUS
    <2>1. entry[r] \in Entry BY DEF TypeOK
    <2> DEFINE a == IF entry[r].age < Deadline(entry[r].status) THEN entry[r].age + 1
                                                                ELSE entry[r].age
    <2>2. entry'[r] = [entry[r] EXCEPT !.age = a] BY <2>1 DEF Tick, Older, Entry
    <2>3. entry[r].age \in Nat BY <2>1 DEF Entry
    <2>4. a \in Nat /\ a <= entry[r].age + 1 BY <2>3
    <2> HIDE DEF a
    <2> QED BY <2>1, <2>2, <2>3, <2>4 DEF Entry
  <1>3. \A w \in Workers : /\ worker'[w].pc = worker[w].pc /\ worker'[w].job = worker[w].job
                           /\ worker'[w].todo = worker[w].todo
                           /\ worker[w].pc = "send" => worker'[w].age = worker[w].age + 1
    BY DEF Tick, TypeOK, WorkerState
  <1>4. \A w \in Workers : /\ Tokens(worker'[w]) = Tokens(worker[w])
                           /\ Unsent(worker'[w]) = Unsent(worker[w])
    BY <1>3 DEF Tokens, Unsent
  <1>5. \A c \in wire' : \E d \in wire : /\ c.id = d.id /\ c.gen = d.gen /\ c.age = d.age + 1
                                        /\ c = [d EXCEPT !.age = d.age + 1]
    <2> SUFFICES ASSUME NEW c \in wire'
                 PROVE  \E d \in wire : /\ c.id = d.id /\ c.gen = d.gen /\ c.age = d.age + 1
                                        /\ c = [d EXCEPT !.age = d.age + 1]
      OBVIOUS
    <2>1. PICK d \in wire : c = [d EXCEPT !.age = @ + 1] BY DEF Tick
    <2>2. d \in Call BY DEF TypeOK
    <2> QED BY <2>1, <2>2 DEF Call
  <1>6. ASSUME NEW r \in Rewards, NEW g, NEW a \in Nat, Open(r, g, a), a < CallWindow
        PROVE  /\ entry'[r].gen = g /\ a + 1 <= CallWindow
               /\ entry'[r].status \in Uncertain
               /\ entry'[r].status = "RECONCILIATION_REQUIRED" => entry'[r].age <= a + 1
    BY <1>2, <1>6 DEF Open, ConstantAssumption
  <1>7. ClaimsAreExclusive'
    <2>1. \A w \in Workers : \A t \in Tokens(worker[w]) : t.id \in Rewards
      BY TokenType DEF Token
    <2> QED BY <1>2, <1>3, <1>4, <2>1 DEF ClaimsAreExclusive
  <1>8. NotSentYet'
    <2> SUFFICES ASSUME NEW w \in Workers, NEW t \in Unsent(worker'[w])
                 PROVE  /\ \A c \in wire' : ~(c.id = t.id /\ c.gen = t.gen)
                        /\ [id |-> t.id, gen |-> t.gen] \notin credited'
      BY DEF NotSentYet
    <2>1. t \in Unsent(worker[w]) BY <1>4
    <2> QED BY <1>1, <1>5, <2>1 DEF NotSentYet
  <1>9. OpenCalls'
    <2>1. ASSUME NEW w \in Workers, worker'[w].pc = "send"
          PROVE  Open(worker[w].job.id, worker[w].job.gen, worker[w].age)'
      <3>1. worker[w].pc = "send" /\ worker'[w].job = worker[w].job
            /\ worker'[w].age = worker[w].age + 1
        BY <1>3, <2>1
      <3>2. worker[w].job.id \in Rewards /\ worker[w].age \in Nat
        BY <3>1, SendIsUnsent, TokenType DEF TypeOK, WorkerState, Token
      <3>3. Open(worker[w].job.id, worker[w].job.gen, worker[w].age)
            /\ worker[w].age < CallWindow
        BY <3>1 DEF OpenCalls, Tick, TickAllowed
      <3> QED BY <1>6, <3>1, <3>2, <3>3 DEF Open
    <2>2. ASSUME NEW c \in wire'
          PROVE  /\ entry'[c.id].gen = c.gen /\ c.age <= CallWindow
                 /\ entry'[c.id].status \in Uncertain
                 /\ entry'[c.id].status = "RECONCILIATION_REQUIRED" => entry'[c.id].age <= c.age
                 /\ [id |-> c.id, gen |-> c.gen] \notin credited
      <3>1. PICK d \in wire : c.id = d.id /\ c.gen = d.gen /\ c.age = d.age + 1
        BY <1>5
      <3>2. d.id \in Rewards /\ d.age \in Nat BY DEF TypeOK, Call
      <3>3. Open(d.id, d.gen, d.age) /\ d.age < CallWindow
            /\ [id |-> d.id, gen |-> d.gen] \notin credited
        BY DEF OpenCalls, Tick, TickAllowed
      <3> QED BY <1>6, <3>1, <3>2, <3>3
    <2>3. \A c, d \in wire' : c.id = d.id /\ c.gen = d.gen => c = d
      BY <1>5 DEF OpenCalls
    <2> QED BY <1>1, <2>1, <2>2, <2>3 DEF OpenCalls, Open
  <1>10. Credits'
    <2>1. \A c \in credited : c.id \in Rewards BY DEF TypeOK, Credit
    <2> QED BY <1>1, <1>2, <1>3, <2>1 DEF Credits, SeenAtProvider
  <1> QED BY <1>7, <1>8, <1>9, <1>10

-----------------------------------------------------------------------------
\* Nobody takes a guest's request back, and a row that is not in or past dispatch
\* gets there only by markEntryDispatching.
RequestKept(r) == /\ reward'[r].claimRequired => reward[r].claimRequired
                  /\ reward[r].requested => reward'[r].requested
NotLater(r) == entry'[r].status \in Late => entry[r].status \in Late

LEMMA ClaimFirstStays ==
  ASSUME ClaimFirst, \A r \in Rewards : RequestKept(r) /\ NotLater(r)
  PROVE  ClaimFirst'
  BY DEF ClaimFirst, RequestKept, NotLater

LEMMA SameRewards == ASSUME UNCHANGED reward PROVE \A r \in Rewards : RequestKept(r)
  BY DEF RequestKept

LEMMA SameEntries == ASSUME UNCHANGED entry PROVE \A r \in Rewards : NotLater(r)
  BY DEF NotLater

LEMMA QueueEntry ==
  ASSUME TypeOK, NEW r \in Rewards, NEW e, SetEntry(r, e),
         e.status \in Late => entry[r].status \in Late
  PROVE  \A q \in Rewards : NotLater(q)
  BY DEF SetEntry, TypeOK, NotLater

LEMMA CasEntry ==
  ASSUME TypeOK, NEW t \in Token, NEW st, NEW e, Cas(t, st, e),
         e.status \in Late => st \in Late
  PROVE  \A q \in Rewards : NotLater(q)
  BY CasRows DEF NotLater, RowKept

LEMMA SettleClaimFirst ==
  ASSUME TypeOK, ClaimFirst, NEW r \in Rewards, SettleReward(r), entry[r].status \in Uncertain
  PROVE  ClaimFirst'
  <1>1. \A q \in Rewards : NotLater(q) BY QueueEntry DEF SettleReward, Late
  <1>2. \A q \in Rewards : reward'[q].claimRequired = reward[q].claimRequired
                           /\ reward'[q].requested = reward[q].requested
    BY DEF SettleReward, TypeOK, Reward
  <1> QED BY <1>1, <1>2, ClaimFirstStays DEF RequestKept

LEMMA WorkerClaimFirst ==
  ASSUME TypeOK, ClaimFirst, NEW w \in Workers, WorkerStep(w) \/ Crash(w)
  PROVE  ClaimFirst'
  <1> USE DEF rows
  <1> DEFINE t == worker[w].job
  <1>0. worker[w].pc \in HoldsJob => t \in Token /\ t.id \in Rewards /\ entry[t.id] \in Entry
    BY DEF TypeOK, Token
  <1>1. CASE \/ AcquirePermit(w) \/ QueueApprovedRewards(w) \/ NextEntry(w) \/ PrepareEntry(w)
             \/ OwnsCurrentDispatch(w) \/ SendCall(w) \/ ReceiveResponse(w)
             \/ DispatchError(w) \/ Crash(w)
    <2>1. UNCHANGED <<reward, entry>>
      BY <1>1 DEF AcquirePermit, QueueApprovedRewards, NextEntry, PrepareEntry,
                  OwnsCurrentDispatch, SendCall, ReceiveResponse, DispatchError, Crash
    <2> QED BY <2>1, SameRewards, SameEntries, ClaimFirstStays
  <1>2. CASE CreateEntries(w)
    <2>1. NewEntry.status \notin Late BY DEF NewEntry, NoEntry, Late, Uncertain
    <2>2. \A r \in Rewards : NotLater(r) BY <1>2, <2>1 DEF CreateEntries, NotLater
    <2> QED BY <1>2, <2>2, SameRewards, ClaimFirstStays DEF CreateEntries
  <1>3. CASE PromoteStaleDispatching(w)
    <2>1. \A r \in Rewards : NotLater(r)
      BY <1>3 DEF PromoteStaleDispatching, NotLater, Late, Uncertain
    <2> QED BY <1>3, <2>1, SameRewards, ClaimFirstStays DEF PromoteStaleDispatching
  <1>4. CASE ClaimReadyEntries(w)
    <2>1. \A r \in Rewards : ClaimedRow(r, worker[w].rev).status = "PROCESSING"
      BY DEF TypeOK, Entry, ClaimedRow
    <2>2. PICK S : entry' = [r \in Rewards |->
                     IF r \in S THEN ClaimedRow(r, worker[w].rev) ELSE entry[r]]
      BY <1>4 DEF ClaimReadyEntries
    <2>3. \A r \in Rewards : NotLater(r) BY <2>1, <2>2 DEF NotLater, Late, Uncertain
    <2> QED BY <1>4, <2>3, SameRewards, ClaimFirstStays DEF ClaimReadyEntries
  <1>5. CASE FailEntry(w)
    <2>1. t \in Token /\ entry[t.id] \in Entry BY <1>0, <1>5 DEF FailEntry, HoldsJob
    <2>2. FailedRow(t).status = "FAILED" BY <2>1 DEF FailedRow, Entry
    <2>3. \A r \in Rewards : NotLater(r)
      BY <1>5, <2>1, <2>2, CasEntry DEF FailEntry, Late, Uncertain
    <2> QED BY <1>5, <2>3, SameRewards, ClaimFirstStays DEF FailEntry
  <1>6. CASE RevalidateClaimed(w) \/ RevalidateDispatching(w)
    <2>1. t \in Token /\ entry[t.id] \in Entry
      BY <1>0, <1>6 DEF RevalidateClaimed, RevalidateDispatching, Revalidate, HoldsJob,
                        BeforeDispatch, AfterDispatch
    <2>2. ParkedRow(t.id).status \notin Late
      BY <2>1 DEF ParkedRow, Entry, Late, Uncertain
    <2>3. \/ UNCHANGED entry
          \/ \E st \in {"PROCESSING", "DISPATCHING"} : Cas(t, st, ParkedRow(t.id))
      BY <1>6 DEF RevalidateClaimed, RevalidateDispatching, Revalidate
    <2>4. \A r \in Rewards : NotLater(r) BY <2>1, <2>2, <2>3, CasEntry, SameEntries
    <2>5. UNCHANGED reward BY <1>6 DEF RevalidateClaimed, RevalidateDispatching, Revalidate
    <2> QED BY <2>4, <2>5, SameRewards, ClaimFirstStays
  <1>7. CASE MarkEntryDispatching(w)
    <2>1. t.id \in Rewards BY <1>0, <1>7 DEF MarkEntryDispatching, HoldsJob, BeforeDispatch
    <2>2. UNCHANGED reward BY <1>7 DEF MarkEntryDispatching
    <2>3. \A r \in Rewards \ {t.id} : entry'[r] = entry[r]
      BY <1>7, <2>1 DEF MarkEntryDispatching, SetEntry, TypeOK
    <2>4. entry' = entry \/ AwaitsDelivery(t.id) BY <1>7 DEF MarkEntryDispatching
    <2> QED BY <2>1, <2>2, <2>3, <2>4 DEF ClaimFirst, AwaitsDelivery
  <1>8. CASE CheckTarget(w) \/ EvaluatePermit(w)
    <2>1. t \in Token /\ entry[t.id] \in Entry
      BY <1>0, <1>8 DEF CheckTarget, EvaluatePermit, HoldsJob, AfterDispatch
    <2> DEFINE e == [entry[t.id] EXCEPT !.status = "PENDING", !.attempts = @ - 1,
                                        !.next = "null", !.err = "OTHER", !.age = 0]
    <2>2. UNCHANGED entry \/ Cas(t, "DISPATCHING", e)
      BY <1>8 DEF CheckTarget, EvaluatePermit, ReturnDispatching
    <2>3. e.status \notin Late BY <2>1 DEF Entry, Late, Uncertain
    <2> HIDE DEF e
    <2>4. \A r \in Rewards : NotLater(r) BY <2>1, <2>2, <2>3, CasEntry, SameEntries
    <2> QED BY <1>8, <2>4, SameRewards, ClaimFirstStays DEF CheckTarget, EvaluatePermit
  <1>9. CASE ConfirmEntry(w)
    <2>1. t.id \in Rewards BY <1>0, <1>9 DEF ConfirmEntry, HoldsJob, AfterDispatch
    <2>2. (Owns(t, "DISPATCHING") /\ SettleReward(t.id)) \/ UNCHANGED <<reward, entry>>
      BY <1>9 DEF ConfirmEntry
    <2>3. CASE Owns(t, "DISPATCHING") /\ SettleReward(t.id)
      BY <2>1, <2>3, SettleClaimFirst DEF Owns, Uncertain
    <2> QED BY <2>2, <2>3, SameRewards, SameEntries, ClaimFirstStays
  <1>10. CASE MarkReconciliationRequired(w)
    <2>1. t \in Token BY <1>0, <1>10 DEF MarkReconciliationRequired, HoldsJob
    <2>2. \A r \in Rewards : NotLater(r)
      BY <1>10, <2>1, CasEntry DEF MarkReconciliationRequired, Late, Uncertain
    <2> QED BY <1>10, <2>2, SameRewards, ClaimFirstStays DEF MarkReconciliationRequired
  <1> QED BY <1>1, <1>2, <1>3, <1>4, <1>5, <1>6, <1>7, <1>8, <1>9, <1>10 DEF WorkerStep

LEMMA OthersClaimFirst ==
  ASSUME TypeOK, ClaimFirst,
         \/ \E g \in Requests : GuestStep(g) \/ BackfillStep(g)
         \/ \E r \in Rewards : \/ OperatorStep(r) \/ PortalStep(r) \/ RetentionStep(r)
                               \/ StaffStep(r) \/ Lapse(r)
         \/ ProviderStep \/ Tick \/ BumpRevision \/ ExpireAdmission \/ UNCHANGED vars
  PROVE  ClaimFirst'
  <1> USE DEF rows, vars
  <1>1. \A r \in Rewards : entry[r] \in Entry /\ reward[r] \in Reward BY DEF TypeOK
  <1>2. ASSUME NEW r \in Rewards,
               \/ RetentionStep(r) \/ StaffStep(r) \/ Lapse(r) \/ CancelEntry(r)
               \/ ReconcileWallet(r)
        PROVE  \A q \in Rewards : RequestKept(q)
    <2>0. ASSUME NEW st, reward' = [reward EXCEPT ![r].status = st]
          PROVE  \A q \in Rewards : RequestKept(q)
      BY <1>1, <2>0 DEF RequestKept, TypeOK, Reward
    <2>1. ASSUME reward' = [reward EXCEPT ![r].status = "PAID", ![r].paid = TRUE]
          PROVE  \A q \in Rewards : RequestKept(q)
      BY <1>1, <2>1 DEF RequestKept, TypeOK, Reward
    <2>3. CASE RetentionStep(r) \/ CancelEntry(r) \/ RestartLootBox(r)
      BY <2>0, <2>3, SameRewards DEF RetentionStep, ExpireWalletItem, ExpireOrphanClaim,
                                SetRewardStatus, CancelEntry, RestartLootBox
    <2>4. CASE ReconcileWallet(r) \/ RedeemReward(r)
      BY <2>0, <2>1, <2>4, SameRewards DEF ReconcileWallet, RedeemReward, SetRewardStatus
    <2>5. CASE Lapse(r) BY <1>1, <2>5 DEF Lapse, RequestKept, TypeOK, Reward
    <2>2. CASE UpdateReward(r)
      <3>1. PICK s, l : reward' = [reward EXCEPT ![r] = UpdatedReward(r, s, l)]
        BY <2>2 DEF UpdateReward
      <3>2. UpdatedReward(r, s, l).claimRequired = reward[r].claimRequired
            /\ UpdatedReward(r, s, l).requested = reward[r].requested
        BY <1>1 DEF UpdatedReward, Reward
      <3> QED BY <3>1, <3>2 DEF RequestKept, TypeOK
    <2> QED BY <1>2, <2>2, <2>3, <2>4, <2>5 DEF StaffStep
  <1>3. CASE \E g \in Requests : GuestStep(g)
    <2>1. PICK g \in Requests : GuestStep(g) BY <1>3
    <2>2. CASE \E r \in Rewards : AcceptClaim(g, r)
      <3>1. PICK r \in Rewards : AcceptClaim(g, r) BY <2>2
      <3> DEFINE e == [entry[r] EXCEPT !.status = "PENDING", !.next = "now", !.age = 0]
      <3>2. UNCHANGED entry \/ SetEntry(r, e) BY <3>1 DEF AcceptClaim
      <3>3. e.status \notin Late BY <1>1 DEF Entry, Late, Uncertain
      <3> HIDE DEF e
      <3>4. \A q \in Rewards : NotLater(q) BY <3>2, <3>3, QueueEntry, SameEntries
      <3>5. \A q \in Rewards : RequestKept(q)
        BY <1>1, <3>1 DEF AcceptClaim, RequestKept, TypeOK, Reward
      <3> QED BY <3>4, <3>5, ClaimFirstStays
    <2>3. CASE Materialize(g)
      <3>1. NewEntry.status \notin Late BY DEF NewEntry, NoEntry, Late, Uncertain
      <3>2. guest[g].id \in Rewards BY <2>3 DEF Materialize, TypeOK
      <3>3. \A q \in Rewards : NotLater(q)
        BY <2>3, <3>1, <3>2, QueueEntry, SameEntries DEF Materialize
      <3> QED BY <2>3, <3>3, SameRewards, ClaimFirstStays DEF Materialize
    <2>4. CASE \/ SynchronizeRead(g) \/ SynchronizeWrite(g) \/ CheckUncertain(g)
               \/ DropClaim(g) \/ AbortRequest(g)
      <3>1. UNCHANGED <<reward, entry>>
        BY <2>4 DEF SynchronizeRead, SynchronizeWrite, CheckUncertain, DropClaim, AbortRequest
      <3> QED BY <3>1, SameRewards, SameEntries, ClaimFirstStays
    <2> QED BY <2>1, <2>2, <2>3, <2>4 DEF GuestStep
  <1>4. ASSUME NEW r \in Rewards, OperatorStep(r) PROVE ClaimFirst'
    <2>1. CASE ResolveConfirmed(r)
      BY <2>1, SettleClaimFirst DEF ResolveConfirmed, Uncertain
    <2>2. CASE ResolveNotApplied(r)
      <3>1. \A q \in Rewards : NotLater(q)
        BY <2>2, QueueEntry DEF ResolveNotApplied, Late, Uncertain
      <3> QED BY <2>2, <3>1, SameRewards, ClaimFirstStays DEF ResolveNotApplied
    <2>3. CASE CancelEntry(r)
      <3> DEFINE e == [entry[r] EXCEPT !.status = "CANCELED", !.next = "null", !.age = 0]
      <3>1. e.status \notin Late BY <1>1 DEF Entry, Late, Uncertain
      <3>2. SetEntry(r, e) BY <2>3 DEF CancelEntry
      <3> HIDE DEF e
      <3>3. \A q \in Rewards : NotLater(q) BY <3>1, <3>2, QueueEntry
      <3> QED BY <1>2, <2>3, <3>3, ClaimFirstStays
    <2> QED BY <1>4, <2>1, <2>2, <2>3 DEF OperatorStep
  <1>5. ASSUME NEW r \in Rewards, RetentionStep(r) PROVE ClaimFirst'
    <2> DEFINE e == [entry[r] EXCEPT !.status = "CANCELED", !.next = "null",
                                     !.err = "OTHER", !.age = 0]
    <2>1. e.status \notin Late BY <1>1 DEF Entry, Late, Uncertain
    <2>2. UNCHANGED entry \/ SetEntry(r, e)
      BY <1>5 DEF RetentionStep, ExpireWalletItem, ExpireOrphanClaim
    <2> HIDE DEF e
    <2>3. \A q \in Rewards : NotLater(q) BY <2>1, <2>2, QueueEntry, SameEntries
    <2> QED BY <1>2, <1>5, <2>3, ClaimFirstStays
  <1>6. ASSUME NEW r \in Rewards, UpgradeHistoricalClaim(r) PROVE ClaimFirst'
    <2>1. UNCHANGED entry /\ entry[r].status \notin Late
          /\ \A q \in Rewards \ {r} : reward'[q] = reward[q]
      BY <1>6 DEF UpgradeHistoricalClaim, Late, Uncertain, TypeOK
    <2> QED BY <2>1 DEF ClaimFirst
  <1>7. ASSUME NEW r \in Rewards, StaffStep(r) \/ Lapse(r) \/ ReconcileWallet(r)
        PROVE  ClaimFirst'
    <2>1. UNCHANGED entry \/ SetEntry(r, NewEntry)
      BY <1>7 DEF StaffStep, RedeemReward, UpdateReward, RestartLootBox, Lapse, ReconcileWallet
    <2>2. NewEntry.status \notin Late BY DEF NewEntry, NoEntry, Late, Uncertain
    <2>3. \A q \in Rewards : NotLater(q) BY <2>1, <2>2, QueueEntry, SameEntries
    <2> QED BY <1>2, <1>7, <2>3, ClaimFirstStays
  <1>8. CASE ProviderStep \/ BumpRevision \/ ExpireAdmission \/ UNCHANGED vars
    <2>1. UNCHANGED <<reward, entry>>
      BY <1>8 DEF ProviderStep, Apply, Reject, BumpRevision, ExpireAdmission
    <2> QED BY <2>1, SameRewards, SameEntries, ClaimFirstStays
  <1>9. CASE Tick
    <2>1. \A r \in Rewards : Older(entry[r]).status = entry[r].status
      BY <1>1 DEF Older, Entry
    <2>2. \A r \in Rewards : NotLater(r) BY <1>9, <2>1 DEF Tick, NotLater
    <2> QED BY <1>9, <2>2, SameRewards, ClaimFirstStays DEF Tick
  <1>10. ASSUME NEW g \in Requests, BackfillStep(g) PROVE ClaimFirst'
    <2>1. UNCHANGED <<reward, entry>>
      BY <1>10 DEF BackfillStep, FindMissing, BackfillWallet
    <2> QED BY <2>1, SameRewards, SameEntries, ClaimFirstStays
  <1> QED BY <1>3, <1>4, <1>5, <1>6, <1>7, <1>8, <1>9, <1>10 DEF PortalStep

-----------------------------------------------------------------------------
LEMMA PayInit == ASSUME ConstantAssumption, Init PROVE PayInv
  <1>1. TypeOK BY InitType
  <1>2. \A w \in Workers : worker[w].pc = "idle" /\ worker[w].todo = {}
    BY DEF Init, IdleWorker
  <1>3. \A w \in Workers : Tokens(worker[w]) = {} /\ Unsent(worker[w]) = {}
    BY <1>2 DEF Tokens, Unsent, HoldsJob, BeforeSend, BeforeDispatch, AfterDispatch
  <1>4. NoEntry.gen = 0 /\ LegacyEntry.gen = 0
        /\ NoEntry.status = "NONE" /\ LegacyEntry.status = "FAILED"
    BY DEF NoEntry, LegacyEntry
  <1>5. \A r \in Rewards : entry[r].gen = 0 /\ entry[r].status \in {"NONE", "FAILED"}
    BY <1>4 DEF Init
  <1>6. wire = {} /\ credited = {} /\ \A r \in Rewards : balance[r] = 0
    BY DEF Init
  <1>7. ClaimsAreExclusive BY <1>2, <1>3, <1>5 DEF ClaimsAreExclusive, HoldsJob,
                              BeforeDispatch, AfterDispatch
  <1>8. NotSentYet /\ OpenCalls /\ Credits
    BY <1>2, <1>3, <1>5, <1>6 DEF NotSentYet, OpenCalls, Credits, SeenAtProvider
  <1>9. ClaimFirst BY <1>5 DEF ClaimFirst, Late, Uncertain
  <1> QED BY <1>1, <1>7, <1>8, <1>9 DEF PayInv, PayCore

LEMMA PayStep == ASSUME ConstantAssumption, PayInv, [Next]_vars PROVE PayInv'
  <1> USE DEF PayInv
  <1>1. TypeOK' BY TypeStep
  <1>2. PayCore'
    <2>1. CASE UNCHANGED vars BY <1>1, <2>1, OthersPay
    <2>2. CASE Next
      BY <1>1, <2>2, WorkerPays, OperatorPays, GuestPays, RetentionPays, OthersPay,
         ApplyPays, RejectPays, TickPays DEF Next, ProviderStep
    <2> QED BY <2>1, <2>2
  <1>3. ClaimFirst' BY WorkerClaimFirst, OthersClaimFirst DEF Next
  <1> QED BY <1>1, <1>2, <1>3

\* PayInv holds in every reachable state, whatever the number of rewards, workers,
\* requests, crashes and claims: it is the fence around the call to Langame.
THEOREM PayInvHolds == Spec => []PayInv
  <1>1. Init => PayInv BY PayInit, ConstantAssumption
  <1>2. PayInv /\ [Next]_vars => PayInv' BY PayStep, ConstantAssumption
  <1> QED BY <1>1, <1>2, PTL DEF Spec

\* No reward is credited twice by Langame, whatever workers, crashes, late answers
\* and operator decisions do in between.
THEOREM CreditedAtMostOnce == Spec => []AtMostOnceCredit
  <1>1. PayInv => AtMostOnceCredit
    BY DEF PayInv, PayCore, Credits, AtMostOnceCredit
  <1> QED BY <1>1, PayInvHolds, PTL

\* A CONFIRMED entry was credited, once, under its current claim generation.
THEOREM ConfirmationIsTrue == Spec => []ConfirmedIsCredited
  <1>1. ASSUME PayInv, NEW r \in Rewards, entry[r].status = "CONFIRMED"
        PROVE  [id |-> r, gen |-> entry[r].gen] \in credited /\ balance[r] = 1
    <2>1. [id |-> r, gen |-> entry[r].gen] \in credited
      BY <1>1 DEF PayInv, PayCore, Credits
    <2>2. SeenAtProvider(r) BY <2>1 DEF SeenAtProvider
    <2> QED BY <1>1, <2>1, <2>2 DEF PayInv, PayCore, Credits
  <1>2. PayInv => ConfirmedIsCredited BY <1>1 DEF ConfirmedIsCredited
  <1> QED BY <1>2, PayInvHolds, PTL

\* A write that may still take effect, or has, keeps its entry out of every queue.
THEOREM OpenWritesAreParked == Spec => []OpenCallIsParked
  <1>1. PayInv => OpenCallIsParked
    BY DEF PayInv, PayCore, OpenCalls, Open, Credits, Late, OpenCallIsParked
  <1> QED BY <1>1, PayInvHolds, PTL

\* A bonus that needs a claim is not dispatched or credited before the guest asked.
THEOREM ClaimComesFirst == Spec => []NoDeliveryWithoutClaim
  <1>1. ASSUME PayInv, NEW r \in Rewards, balance[r] > 0 PROVE entry[r].status \in Late
    <2>1. SeenAtProvider(r) BY <1>1 DEF PayInv, PayCore, Credits
    <2> QED BY <1>1, <2>1 DEF SeenAtProvider, PayInv, PayCore, Credits
  <1>2. PayInv => NoDeliveryWithoutClaim
    BY <1>1 DEF PayInv, ClaimFirst, NoDeliveryWithoutClaim, Late
  <1> QED BY <1>2, PayInvHolds, PTL
=============================================================================
