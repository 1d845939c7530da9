-------------------------- MODULE SchedulerProofs ---------------------------
(***************************************************************************)
(* No wake-up of the in-process scheduler is lost, for any number of       *)
(* guests.                                                                 *)
(***************************************************************************)
EXTENDS LedgerScheduler, TLAPS

\* One step per handler; only the end of a run and its microtask hand the
\* follow-up over.
LEMMA SchedulerStep == ASSUME SchedulerInv, [Next]_vars PROVE SchedulerInv'
  <1> USE DEF SchedulerInv, TypeOK, WakeUpKept, service
  <1>1. CASE OnModuleInit
    <2>1. CASE enabled' = TRUE /\ timer' = TRUE /\ StartRun
      <3>1. \A g \in Guests : claim[g] # "none" => covered'[g]
        BY <2>1 DEF StartRun
      <3>2. covered' \in [Guests -> BOOLEAN] /\ isRunning' = TRUE /\ runAfterCurrent' = runAfterCurrent
        BY <2>1 DEF StartRun
      <3>3. life' = "up" /\ UNCHANGED <<micro, claim>> BY <1>1 DEF OnModuleInit
      <3> QED BY <2>1, <3>1, <3>2, <3>3
    <2>2. CASE UNCHANGED <<enabled, timer, isRunning, covered, runAfterCurrent>>
      BY <1>1, <2>2 DEF OnModuleInit
    <2> QED BY <1>1, <2>1, <2>2 DEF OnModuleInit
  <1>2. CASE OnModuleDestroy BY <1>2 DEF OnModuleDestroy
  <1>3. CASE TimerTick BY <1>3 DEF TimerTick, RequestRun, StartRun
  <1>4. CASE FinishRun BY <1>4 DEF FinishRun
  <1>5. CASE Microtask BY <1>5 DEF Microtask, RequestRun, StartRun
  <1>6. ASSUME NEW g \in Guests, CommitClaim(g) PROVE SchedulerInv' BY <1>6 DEF CommitClaim
  <1>7. ASSUME NEW g \in Guests, ClaimRequestsRun(g) PROVE SchedulerInv'
    BY <1>7 DEF ClaimRequestsRun, RequestRun, StartRun
  <1>8. ASSUME NEW g \in Guests, NewClaim(g) PROVE SchedulerInv' BY <1>8 DEF NewClaim
  <1>9. CASE UNCHANGED vars BY <1>9 DEF vars
  <1> QED BY <1>1, <1>2, <1>3, <1>4, <1>5, <1>6, <1>7, <1>8, <1>9 DEF Next

\* requestRun, the timer, the end of a run, its microtask and shutdown can
\* interleave in any way: a claim that asked for a run has one pending or has been
\* covered by one.
THEOREM NoLostWakeUp == Spec => []WakeUpKept
  <1>1. Init => SchedulerInv BY DEF Init, SchedulerInv, TypeOK, WakeUpKept
  <1>2. SchedulerInv /\ [Next]_vars => SchedulerInv' BY SchedulerStep
  <1>3. SchedulerInv => WakeUpKept BY DEF SchedulerInv
  <1> QED BY <1>1, <1>2, <1>3, PTL DEF Spec

\* The claims a guest committed, the wake-ups and the runs of the scheduler stay
\* consistent, for any number of guests.
THEOREM SchedulerKept == Spec => []SchedulerInv
  <1>1. Init => SchedulerInv BY DEF Init, SchedulerInv, TypeOK, WakeUpKept
  <1>2. SchedulerInv /\ [Next]_vars => SchedulerInv' BY SchedulerStep
  <1> QED BY <1>1, <1>2, PTL DEF Spec
=============================================================================
