--------------------------- MODULE LedgerScheduler --------------------------
(***************************************************************************)
(* GuestBonusLedgerSchedulerService: the in-process scheduler that runs    *)
(* dispatch() on a timer and whenever a guest's claim asks for a run.  All *)
(* of it is on one event loop: a method runs without interruption up to    *)
(* its await, and a queued microtask runs before the next I/O completion   *)
(* or timer, but not before continuations that are queued already.         *)
(*                                                                         *)
(*   life                  "new", "up" or "down": onModuleInit/Destroy     *)
(*   enabled, timer        the fields, timer # null                        *)
(*   isRunning             the field                                       *)
(*   runAfterCurrent       the field                                       *)
(*   micro                 the microtask of finally is queued              *)
(*   claim                 a guest's claim: not made, committed in the     *)
(*                         database, or committed with requestRun called   *)
(*   covered               a run has started since the claim was committed *)
(***************************************************************************)
CONSTANT Guests

VARIABLES life, enabled, timer, isRunning, runAfterCurrent, micro, claim, covered

service == <<life, enabled, timer>>
vars == <<life, enabled, timer, isRunning, runAfterCurrent, micro, claim, covered>>

Init ==
  /\ life = "new" /\ enabled = FALSE /\ timer = FALSE
  /\ isRunning = FALSE /\ runAfterCurrent = FALSE /\ micro = FALSE
  /\ claim = [g \in Guests |-> "none"] /\ covered = [g \in Guests |-> FALSE]

\* runOnce up to its await: what is committed now will be read by this run.
StartRun ==
  /\ isRunning' = TRUE
  /\ covered' = [g \in Guests |-> covered[g] \/ claim[g] # "none"]
  /\ UNCHANGED runAfterCurrent

\* A wake-up during a run is dropped, or shut down is ignored.
ForgetfulRequest ==
  IF enabled /\ ~isRunning THEN StartRun
                           ELSE UNCHANGED <<isRunning, covered, runAfterCurrent>>

UnguardedRequest ==
  IF isRunning THEN runAfterCurrent' = TRUE /\ UNCHANGED <<isRunning, covered>>
               ELSE StartRun

RequestRun ==
  IF ~enabled THEN UNCHANGED <<isRunning, covered, runAfterCurrent>>
  ELSE IF isRunning THEN runAfterCurrent' = TRUE /\ UNCHANGED <<isRunning, covered>>
  ELSE StartRun

OnModuleInit ==
  /\ life = "new" /\ life' = "up"
  /\ \/ /\ enabled' = TRUE /\ timer' = TRUE
        /\ StartRun
     \/ UNCHANGED <<enabled, timer, isRunning, covered, runAfterCurrent>>
  /\ UNCHANGED <<micro, claim>>

OnModuleDestroy ==
  /\ life = "up" /\ life' = "down"
  /\ enabled' = FALSE /\ timer' = FALSE /\ runAfterCurrent' = FALSE
  /\ UNCHANGED <<isRunning, micro, claim, covered>>

TimerTick ==
  /\ timer /\ ~micro
  /\ RequestRun
  /\ UNCHANGED <<service, micro, claim>>

\* acceptRewardWalletClaim has committed ...
CommitClaim(g) ==
  /\ life # "new" /\ claim[g] = "none"
  /\ claim' = [claim EXCEPT ![g] = "committed"]
  /\ UNCHANGED <<service, isRunning, runAfterCurrent, micro, covered>>

\* ... and at its end the handler asks for a run.
ClaimRequestsRun(g) ==
  /\ claim[g] = "committed"
  /\ claim' = [claim EXCEPT ![g] = "requested"]
  /\ RequestRun
  /\ UNCHANGED <<service, micro>>

\* The guest goes on to another claim.
NewClaim(g) ==
  /\ claim[g] = "requested" /\ covered[g]
  /\ claim' = [claim EXCEPT ![g] = "none"] /\ covered' = [covered EXCEPT ![g] = FALSE]
  /\ UNCHANGED <<service, isRunning, runAfterCurrent, micro>>

\* The follow-up is decided before the flag of the finished run is cleared.
ClearedFollowUp ==
  /\ isRunning /\ ~micro
  /\ isRunning' = FALSE /\ runAfterCurrent' = FALSE
  /\ UNCHANGED <<service, micro, claim, covered>>

\* runScheduledDispatch returns or throws: the finally block.
FinishRun ==
  /\ isRunning /\ ~micro
  /\ isRunning' = FALSE
  /\ IF runAfterCurrent /\ enabled
       THEN runAfterCurrent' = FALSE /\ micro' = TRUE
       ELSE UNCHANGED <<runAfterCurrent, micro>>
  /\ UNCHANGED <<service, claim, covered>>

Microtask ==
  /\ micro /\ micro' = FALSE
  /\ RequestRun
  /\ UNCHANGED <<service, claim>>

Next ==
  \/ OnModuleInit \/ OnModuleDestroy \/ TimerTick \/ FinishRun \/ Microtask
  \/ \E g \in Guests : CommitClaim(g) \/ ClaimRequestsRun(g) \/ NewClaim(g)

Spec == Init /\ [][Next]_vars

\* A started run ends and a queued microtask runs; the timer owes nothing.
FairSpec == Spec /\ WF_vars(FinishRun) /\ WF_vars(Microtask)

-----------------------------------------------------------------------------
TypeOK ==
  /\ life \in {"new", "up", "down"}
  /\ {enabled, timer, isRunning, runAfterCurrent, micro} \subseteq BOOLEAN
  /\ claim \in [Guests -> {"none", "committed", "requested"}]
  /\ covered \in [Guests -> BOOLEAN]

\* No wake-up is lost: as long as a claim that asked for a run has not got one
\* that started after its commit, a follow-up is pending, however requests, the
\* timer, the end of the current run and the follow-up's microtask interleave.
WakeUpKept ==
  \A g \in Guests :
    enabled /\ claim[g] = "requested" /\ ~covered[g] =>
      (isRunning /\ runAfterCurrent) \/ micro

\* A claim that asks for a run gets one without waiting for the timer, unless the
\* process shuts down first.
ClaimIsServed ==
  \A g \in Guests : claim[g] = "requested" ~> covered[g] \/ ~enabled

\* After onModuleDestroy the current run ends and none follows it: not from a
\* microtask queued before, nor from a claim that finishes later.
ShutdownDrains == life = "down" ~> [](~isRunning)

\* Only an enabled, started service has a timer or a follow-up, and the microtask
\* is consumed before another run can end.
SchedulerInv ==
  /\ TypeOK /\ WakeUpKept
  /\ enabled => life = "up"
  /\ runAfterCurrent => enabled
  /\ timer = enabled
=============================================================================
