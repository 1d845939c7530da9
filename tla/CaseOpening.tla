----------------------------- MODULE CaseOpening -----------------------------
(***************************************************************************)
(* A guest opens one loot box: openLootBoxForPayload of the guest portal   *)
(* reserves the entitlement and its wallet item, lets processEvent choose  *)
(* and create the prize, and binds it.  The request's own catch block, the *)
(* reads of the wallet and the retention job resolve reservations that     *)
(* were left behind.                                                       *)
(*                                                                         *)
(* A transaction that writes both rows under the entitlement's row lock is *)
(* a step.  A recovery is READ COMMITTED and locks nothing while it reads, *)
(* so it takes several: its clock, the item, the outcome, the write, and,  *)
(* where the write found nothing, the deletion that follows it all the     *)
(* same.  Requests of the same guest overlap, stall for longer than the    *)
(* reservation holds, and die.  The sweepers are runs of the reward        *)
(* materializer, which may work on the intent of the opening as well.      *)
(*                                                                         *)
(* The prize of the only reward the opening may have stands for its id.    *)
(* leaseVersion moves with attempts, as in RewardPipeline.                 *)
(***************************************************************************)
EXTENDS Naturals

CONSTANTS
    Openers,      \* requests of the guest
    Sweepers,     \* runs of materializeRewardIntents
    Keepers,      \* reads of the wallet and runs of the retention that recover
    Prizes,       \* what a roll may give
    None,
    MaxAttempts,  \* the materializer's limit
    MaxReads      \* bound on the reads of the wallet that are about to make an item

ASSUME CaseAssumption ==
    /\ Openers \cap (Sweepers \cup Keepers) = {}
    /\ None \notin Prizes
    /\ MaxAttempts \in Nat \ {0}
    /\ MaxReads \in Nat

VARIABLES
    entitlement,  \* GuestGameEntitlement: status and rewardId
    item,         \* status of its wallet item, "GONE" once deleted
    stale,        \* the item has been OPENING for REWARD_WALLET_OPENING_STALE_MS
    lapsed,       \* the item's expiresAt has passed
    listed,       \* reads of the wallet that have found the case without an item
    event,        \* the event under the entitlement's originKey: the roll it keeps
    intent,       \* the reward intent made with it
    reward,       \* the prize of the reward under the intent's idempotency key
    made,         \* rewards created for this opening
    run           \* a request or run: pc, its lease, the prize it was told of,
                  \* and whether the item had expired by its clock

rows == <<entitlement, item, stale, listed>>
prize == <<event, intent, reward, made>>
vars == <<entitlement, item, stale, listed, lapsed, event, intent, reward, made, run>>

Runs == Openers \cup Sweepers
Procs == Runs \cup Keepers
Place(pc, known, late) == [pc |-> pc, lease |-> 0, known |-> known, late |-> late]
Idle == Place("idle", None, FALSE)
NoIntent == [status |-> "NONE", attempts |-> 0, expired |-> FALSE]

At(p, pc) == run[p].pc = pc
To(p, pc) == run' = [run EXCEPT ![p].pc = pc]
Ends(p) == run' = [run EXCEPT ![p] = Idle]

\* stale is about an item that is OPENING.
Ages == stale' = (stale /\ item' = "OPENING")

\* openRewardWalletLootBoxItem, findPortalLootBoxEntitlement: both rows unopened.
Unopened == entitlement.status = "AVAILABLE" /\ item = "PENDING"

\* The catch block takes its own clock, and forces a recovery.
Catch(o) == run' = [run EXCEPT ![o] = Place("recover", run[o].known, lapsed)]

\* processEvent has no prize to return, or throws: the catch block is next, and a
\* materializer's run just ends.
GivesUp(p) == IF p \in Openers THEN Catch(p) ELSE Ends(p)

Goes(p, known) ==
    run' = [run EXCEPT ![p] = IF p \in Openers THEN Place("finalize", known, FALSE)
                                                ELSE Idle]

-----------------------------------------------------------------------------
(***************************************************************************)
(* The request up to its reservation.                                      *)
(***************************************************************************)

\* The item is visible and not expired; openedAt stays the request's clock.
Open(o) ==
    /\ At(o, "idle") /\ Unopened /\ ~lapsed
    /\ To(o, "find")
    /\ UNCHANGED <<rows, lapsed, prize>>

\* findReconciledPortalLootBoxEntitlement no longer finds the case, or another check
\* of the request refuses it.
Refused(o) ==
    /\ At(o, "find") /\ Ends(o)
    /\ UNCHANGED <<rows, lapsed, prize>>

\* reconcilePortalLootBoxEntitlementFromLegacy: a prize with the evidence of this
\* opening exists already.  It is bound, or was by another request, and the request
\* is told so; the item may be gone by now.
BindExisting(o) ==
    /\ At(o, "find") /\ reward # None
    /\ \/ entitlement.status = "AVAILABLE"
       \/ entitlement.status = "CONSUMED" /\ entitlement.bound = reward
    /\ entitlement' = [status |-> "CONSUMED", bound |-> reward]
    /\ item' = IF item = "PENDING" THEN "CLAIMED" ELSE item
    /\ Ends(o)
    /\ UNCHANGED <<stale, listed, lapsed, prize>>

\* reservePortalLootBoxEntitlement: both rows as they were found, or it throws.
Reserve(o) ==
    /\ At(o, "find") /\ Unopened
    /\ entitlement' = [entitlement EXCEPT !.status = "OPENING"]
    /\ item' = "OPENING" /\ stale' = FALSE
    /\ To(o, "event")
    /\ UNCHANGED <<listed, lapsed, prize>>

-----------------------------------------------------------------------------
(***************************************************************************)
(* processEvent, and the materializer's own runs.                          *)
(***************************************************************************)

BugCreateEvent(o) ==
    /\ At(o, "event")
    /\ event' \in Prizes
    /\ intent' = IF event = None THEN [NoIntent EXCEPT !.status = "PENDING"] ELSE intent
    /\ To(o, "list")
    /\ UNCHANGED <<rows, lapsed, reward, made>>

\* The dry run rolls.  An event that exists, or wins the unique originKey, keeps the
\* roll it was stored with.
CreateEvent(o) ==
    /\ At(o, "event")
    /\ \/ /\ event = None
          /\ event' \in Prizes
          /\ intent' = [NoIntent EXCEPT !.status = "PENDING"]
       \/ event # None /\ UNCHANGED <<event, intent>>
    /\ To(o, "list")
    /\ UNCHANGED <<rows, lapsed, reward, made>>

\* materializeRewardIntents finds the event with an intent to work on.
Sweep(s) ==
    /\ At(s, "idle") /\ intent.status \in {"PENDING", "FAILED", "PROCESSING"}
    /\ To(s, "list")
    /\ UNCHANGED <<rows, lapsed, prize>>

Lapsed == intent.status = "PROCESSING" /\ intent.expired
Claimable ==
    intent.attempts < MaxAttempts /\ (intent.status \in {"PENDING", "FAILED"} \/ Lapsed)

\* materializeProcessRewardIntents sweeps and reads the intent.  An applied intent
\* gives its reward at once.
ListIntents(p) ==
    /\ At(p, "list")
    /\ intent' = IF Lapsed /\ intent.attempts >= MaxAttempts
                   THEN [intent EXCEPT !.status = "DEAD_LETTER", !.expired = FALSE]
                   ELSE intent
    /\ IF intent.status = "APPLIED" THEN Goes(p, reward) ELSE To(p, "claim")
    /\ UNCHANGED <<rows, lapsed, event, reward, made>>

\* While the materializer may not claim, a known event answers with the reward
\* that is there.
ReadExisting(o) ==
    /\ At(o, "list") /\ reward # None
    /\ Goes(o, reward)
    /\ UNCHANGED <<rows, lapsed, prize>>

\* claimRewardIntents
ClaimIntent(p) ==
    /\ At(p, "claim")
    /\ \/ /\ Claimable
          /\ intent' = [status |-> "PROCESSING", attempts |-> intent.attempts + 1,
                        expired |-> FALSE]
          /\ run' = [run EXCEPT ![p].pc = "make", ![p].lease = intent.attempts + 1]
       \/ ~Claimable /\ GivesUp(p) /\ UNCHANGED intent
    /\ UNCHANGED <<rows, lapsed, event, reward, made>>

\* createProcessRewards: the reward of the stored plan, or the one that is there.
MakeReward(p) ==
    /\ At(p, "make")
    /\ \/ reward = None /\ reward' = event /\ made' = made + 1
       \/ reward # None /\ UNCHANGED <<reward, made>>
    /\ To(p, "apply")
    /\ UNCHANGED <<rows, lapsed, event, intent>>

Holds(p) == intent.status = "PROCESSING" /\ intent.attempts = run[p].lease

\* The fenced end of the claim.  A run whose lease was taken over returns no reward.
ApplyIntent(p) ==
    /\ At(p, "apply")
    /\ IF Holds(p)
         THEN /\ intent' = [intent EXCEPT !.status = "APPLIED", !.expired = FALSE]
              /\ Goes(p, reward)
         ELSE GivesUp(p) /\ UNCHANGED intent
    /\ UNCHANGED <<rows, lapsed, event, reward, made>>

\* A failure while the claim is held.
FailIntent(p) ==
    /\ At(p, "make") \/ At(p, "apply")
    /\ intent' = IF Holds(p)
                   THEN [intent EXCEPT !.expired = FALSE,
                           !.status = IF run[p].lease >= MaxAttempts
                                        THEN "DEAD_LETTER" ELSE "FAILED"]
                   ELSE intent
    /\ GivesUp(p)
    /\ UNCHANGED <<rows, lapsed, event, reward, made>>

\* Any other failure of processEvent, or of the transaction that binds the prize.
Throws(o) ==
    /\ run[o].pc \in {"event", "list", "claim", "finalize"}
    /\ Catch(o)
    /\ UNCHANGED <<rows, lapsed, prize>>

-----------------------------------------------------------------------------
(***************************************************************************)
(* The end of the request, and the two recoveries.                         *)
(***************************************************************************)

BugFinalize(o) ==
    /\ At(o, "finalize")
    /\ entitlement' = [status |-> "CONSUMED", bound |-> run[o].known]
    /\ item' = IF item = "OPENING" THEN "CLAIMED" ELSE item
    /\ Ends(o)
    /\ Ages /\ UNCHANGED <<listed, lapsed, prize>>

\* finalizePortalLootBoxEntitlement: from OPENING, or when another request has
\* bound the same reward.
Finalize(o) ==
    /\ At(o, "finalize")
    /\ \/ /\ \/ entitlement.status = "OPENING"
             \/ entitlement.status = "CONSUMED" /\ entitlement.bound = run[o].known
          /\ entitlement' = [status |-> "CONSUMED", bound |-> run[o].known]
          /\ item' = IF item = "OPENING" THEN "CLAIMED" ELSE item
          /\ Ends(o)
       \/ /\ entitlement.status # "OPENING"
          /\ ~(entitlement.status = "CONSUMED" /\ entitlement.bound = run[o].known)
          /\ Catch(o)
          /\ UNCHANGED <<entitlement, item>>
    /\ Ages /\ UNCHANGED <<listed, lapsed, prize>>

-----------------------------------------------------------------------------
(***************************************************************************)
(* Recovery: recoverPortalLootBoxOpeningReservation and its twin in the    *)
(* retention, recoverStaleRewardWalletOpeningBatches.                      *)
(***************************************************************************)

BugUpkeep(k) ==
    /\ At(k, "idle") /\ item = "OPENING" /\ stale /\ ~lapsed
    /\ run' = [run EXCEPT ![k] = Place("outcome", None, lapsed)]
    /\ UNCHANGED <<rows, lapsed, prize>>

\* A read of the wallet, or a run of the retention, takes its clock and finds the item
\* reserved for too long by it: an item it finds so later was so already then.
Upkeep(k) ==
    /\ At(k, "idle") /\ item = "OPENING" /\ stale
    /\ run' = [run EXCEPT ![k] = Place("outcome", None, lapsed)]
    /\ UNCHANGED <<rows, lapsed, prize>>

\* The forced recovery finds the item reserved, whoever holds the reservation by now.
Recover(o) ==
    /\ At(o, "recover")
    /\ IF item = "OPENING" THEN To(o, "outcome") ELSE Ends(o)
    /\ UNCHANGED <<rows, lapsed, prize>>

\* The prize a recovery goes by: the one the caller knows, or the one the intent of
\* the entitlement's event names.
Outcome(known) ==
    IF known # None THEN known
    ELSE IF intent.status = "APPLIED" THEN reward ELSE None

\* The entitlement and the intents are read, and the write is decided on: bind the
\* prize, else give the case back, else let it expire.
Decide(p) ==
    /\ At(p, "outcome")
    /\ \/ entitlement.status # "OPENING" /\ Ends(p)
       \/ /\ entitlement.status = "OPENING" /\ Outcome(run[p].known) # None
          /\ run' = [run EXCEPT ![p].pc = "bind", ![p].known = Outcome(run[p].known)]
       \/ /\ entitlement.status = "OPENING" /\ Outcome(run[p].known) = None
          /\ To(p, IF run[p].late THEN "expire" ELSE "restore")
    /\ UNCHANGED <<rows, lapsed, prize>>

\* The three writes look at the entitlement's status again.  The first two touch the
\* item only when they changed the entitlement.
Bind(p) ==
    /\ At(p, "bind")
    /\ IF entitlement.status = "OPENING"
         THEN /\ entitlement' = [status |-> "CONSUMED", bound |-> run[p].known]
              /\ item' = IF item = "OPENING" THEN "CLAIMED" ELSE item
         ELSE UNCHANGED <<entitlement, item>>
    /\ Ends(p)
    /\ Ages /\ UNCHANGED <<listed, lapsed, prize>>

BugRestore(p) ==
    /\ At(p, "restore")
    /\ entitlement' = [entitlement EXCEPT !.status = "AVAILABLE"]
    /\ item' = IF item = "OPENING" THEN "PENDING" ELSE item
    /\ Ends(p)
    /\ Ages /\ UNCHANGED <<listed, lapsed, prize>>

Restore(p) ==
    /\ At(p, "restore")
    /\ IF entitlement.status = "OPENING"
         THEN /\ entitlement' = [entitlement EXCEPT !.status = "AVAILABLE"]
              /\ item' = IF item = "OPENING" THEN "PENDING" ELSE item
         ELSE UNCHANGED <<entitlement, item>>
    /\ Ends(p)
    /\ Ages /\ UNCHANGED <<listed, lapsed, prize>>

\* The portal deletes the item whether it changed the entitlement or not; the
\* retention only when it did.
Expire(p) ==
    /\ At(p, "expire")
    /\ \/ /\ entitlement.status = "OPENING"
          /\ entitlement' = [entitlement EXCEPT !.status = "EXPIRED"]
          /\ item' = IF item = "OPENING" THEN "GONE" ELSE item
          /\ Ends(p)
       \/ /\ entitlement.status # "OPENING"
          /\ To(p, "delete") \/ (p \in Keepers /\ Ends(p))
          /\ UNCHANGED <<entitlement, item>>
    /\ Ages /\ UNCHANGED <<listed, lapsed, prize>>

\* The portal's deletion after an update that matched no row.
Delete(p) ==
    /\ At(p, "delete")
    /\ item' = IF item = "OPENING" THEN "GONE" ELSE item
    /\ Ends(p)
    /\ Ages /\ UNCHANGED <<entitlement, listed, lapsed, prize>>

\* getRewardWallet, by a clock from before the item expired, finds an unopened case
\* without an item, and makes one unless there is one by then.
Backfill ==
    /\ entitlement.status = "AVAILABLE" /\ item = "GONE" /\ listed < MaxReads
    /\ listed' = listed + 1
    /\ UNCHANGED <<entitlement, item, stale, lapsed, prize, run>>

CreateItem ==
    /\ listed > 0 /\ listed' = listed - 1
    /\ item' = IF item = "GONE" THEN "PENDING" ELSE item
    /\ UNCHANGED <<entitlement, stale, lapsed, prize, run>>

\* Upkeep and retention remove expired items; an unopened case expires with its item.
ExpireItem ==
    /\ lapsed /\ item \in {"PENDING", "CLAIMED"} /\ entitlement.status # "OPENING"
    /\ entitlement' = IF entitlement.status = "AVAILABLE"
                         THEN [entitlement EXCEPT !.status = "EXPIRED"] ELSE entitlement
    /\ item' = "GONE"
    /\ UNCHANGED <<stale, listed, lapsed, prize, run>>

-----------------------------------------------------------------------------
Lapse ==
    /\ ~lapsed /\ lapsed' = TRUE
    /\ UNCHANGED <<rows, prize, run>>

Age ==
    /\ item = "OPENING" /\ ~stale /\ stale' = TRUE
    /\ UNCHANGED <<entitlement, item, listed, lapsed, prize, run>>

LeaseExpires ==
    /\ intent.status = "PROCESSING" /\ ~intent.expired
    /\ intent' = [intent EXCEPT !.expired = TRUE]
    /\ UNCHANGED <<rows, lapsed, event, reward, made, run>>

\* A process dies, or an error ends it: a transaction it was in leaves nothing.  A read
\* of the wallet that dies takes no further step.
Crash(p) ==
    /\ ~At(p, "idle") /\ Ends(p)
    /\ UNCHANGED <<rows, lapsed, prize>>

\* An entitlement from before the wallet has no item until the wallet is read.
Init ==
    /\ entitlement = [status |-> "AVAILABLE", bound |-> None]
    /\ item \in {"PENDING", "GONE"} /\ listed = 0
    /\ stale = FALSE /\ lapsed = FALSE
    /\ event = None /\ intent = NoIntent /\ reward = None /\ made = 0
    /\ run = [p \in Procs |-> Idle]

Materialize(p) ==
    ListIntents(p) \/ ClaimIntent(p) \/ MakeReward(p) \/ ApplyIntent(p) \/ FailIntent(p)

Request(o) ==
    \/ Open(o) \/ Refused(o) \/ BindExisting(o) \/ Reserve(o) \/ CreateEvent(o)
    \/ ReadExisting(o) \/ Throws(o) \/ Finalize(o) \/ Recover(o)

Recovery(p) == Decide(p) \/ Bind(p) \/ Restore(p) \/ Expire(p) \/ Delete(p)

Keep(k) == Upkeep(k) \/ Recovery(k)

Next ==
    \/ \E o \in Openers : Request(o) \/ Recovery(o)
    \/ \E s \in Sweepers : Sweep(s)
    \/ \E p \in Runs : Materialize(p) \/ Crash(p)
    \/ \E k \in Keepers : Keep(k)
    \/ Backfill \/ CreateItem \/ ExpireItem \/ Lapse \/ Age \/ LeaseExpires

Spec == Init /\ [][Next]_vars

\* Time passes, and the scheduler of the retention starts runs that finish.  No request
\* has to end.
FairSpec == Spec /\ WF_vars(Age) /\ \A k \in Keepers : WF_vars(Keep(k))

\* The same, and a request goes on until it ends or dies.
BusySpec ==
    FairSpec /\ \A o \in Openers :
        WF_vars(Request(o) \/ Recovery(o) \/ Materialize(o) \/ Crash(o))

-----------------------------------------------------------------------------
(***************************************************************************)
(* Properties.                                                             *)
(***************************************************************************)

Process == [pc : {"idle", "find", "event", "list", "claim", "make", "apply",
                  "finalize", "recover", "outcome", "bind", "restore", "expire",
                  "delete"},
            lease : 0 .. MaxAttempts, known : Prizes \cup {None}, late : BOOLEAN]

Intent == [status : {"NONE", "PENDING", "PROCESSING", "APPLIED", "FAILED", "DEAD_LETTER"},
           attempts : 0 .. MaxAttempts, expired : BOOLEAN]

\* The types; no intent is claimed more often than the limit allows.
CaseTypeOK ==
    /\ entitlement \in [status : {"AVAILABLE", "OPENING", "CONSUMED", "EXPIRED"},
                        bound : Prizes \cup {None}]
    /\ item \in {"PENDING", "OPENING", "CLAIMED", "GONE"}
    /\ stale \in BOOLEAN /\ listed \in 0 .. MaxReads /\ lapsed \in BOOLEAN
    /\ event \in Prizes \cup {None} /\ reward \in Prizes \cup {None} /\ made \in Nat
    /\ intent \in Intent
    /\ run \in [Procs -> Process]

\* A single roll: however many requests reserve, stall, lose the case to a recovery
\* and come back, one reward is made, it is what the event keeps of the first roll,
\* and it is what every request answers with and every recovery binds.
OneRoll ==
    /\ made <= 1
    /\ reward # None => made = 1 /\ reward = event
    /\ \A p \in Procs : run[p].known \in {None, reward}

\* Until the item expires the two rows never part, although recoveries write on what
\* they read earlier and every writer has its own order; an item that is missing then
\* is one not made yet.  Afterwards a reserved or claimed item still has its
\* entitlement with it.  A consumed entitlement names the prize, and no other does.
RowsTogether ==
    /\ ~lapsed => \/ item \in {"PENDING", "GONE"} /\ entitlement.status = "AVAILABLE"
                  \/ item = "OPENING" /\ entitlement.status = "OPENING"
                  \/ item = "CLAIMED" /\ entitlement.status = "CONSUMED"
    /\ item = "OPENING" => entitlement.status = "OPENING"
    /\ item = "CLAIMED" => entitlement.status = "CONSUMED"
    /\ entitlement.bound = IF entitlement.status = "CONSUMED" THEN reward ELSE None
    /\ entitlement.status = "CONSUMED" => reward # None

\* A consumed or expired case stays what it is, however late a recovery, an upkeep or
\* a second request writes; and a request that was told of the prize never gives the
\* case away by its own recovery.
SettledCaseStays ==
    [][/\ entitlement.status \in {"CONSUMED", "EXPIRED"} => entitlement' = entitlement
       /\ \A o \in Openers :
            run[o].known # None /\ run'[o] # run[o] /\ entitlement' # entitlement =>
               entitlement' = [status |-> "CONSUMED", bound |-> run[o].known]]_vars

\* No item stays reserved: a reservation whose request died is bound, given back or
\* expired, or its item is gone.
ReservationResolves == item = "OPENING" ~> item # "OPENING"

\* No case stays reserved.  "Незавершённый OPENING восстанавливается контролируемым
\* stale-recovery" (docs/deployment/guest-gamification-live-rewards.md:64).
CaseResolves == entitlement.status = "OPENING" ~> entitlement.status # "OPENING"
=============================================================================
