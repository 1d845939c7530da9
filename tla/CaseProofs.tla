----------------------------- MODULE CaseProofs -----------------------------
(***************************************************************************)
(* Proofs about the opening of a loot box, for every number of requests,   *)
(* runs of the materializer, prizes and attempts.                          *)
(***************************************************************************)
EXTENDS CaseOpening, TLAPS

\* There is an item, or its time is over.
Present == lapsed \/ item # "GONE"

\* What a request or run may know: it works on an event that exists, the prize it was
\* told of is the reward and it is not giving the case away, and it takes the item's
\* time to be over only when it is.
Fits(q) ==
    /\ q.known \in {None, reward}
    /\ q.known # None => q.pc \in {"finalize", "recover", "outcome", "bind"}
    /\ q.pc \in {"find", "event"} => Present
    /\ q.pc \in {"list", "claim", "make", "apply", "finalize"} => event # None
    /\ q.pc \in {"apply", "finalize", "bind"} => reward # None
    /\ q.pc \in {"finalize", "bind"} => q.known = reward
    /\ q.late \/ q.pc \in {"expire", "delete"} => lapsed

Known == \A p \in Procs : Fits(run[p])

\* Event, intent and reward come about in this order, once there is an item to open.
InOrder ==
    /\ event = None => intent.status = "NONE" /\ reward = None
    /\ event # None => Present
    /\ intent.status = "NONE" => event = None
    /\ intent.status = "APPLIED" => reward # None
    /\ reward = None => made = 0

\* One reward is made, from the roll that is kept.
OneMade == made <= 1 /\ (reward # None => made = 1 /\ reward = event)

CaseInv == CaseTypeOK /\ OneMade /\ RowsTogether /\ InOrder /\ Known

\* What stays once it is so: the roll, the reward, the end of the item's time.
Stays ==
    /\ event # None => event' = event
    /\ reward # None => reward' = reward
    /\ lapsed => lapsed'
    /\ Present => Present'

Entitlement == [status : {"AVAILABLE", "OPENING", "CONSUMED", "EXPIRED"},
                bound : Prizes \cup {None}]

\* Process p takes a place that fits, and the others stay where they are.
Takes(p) == \E q \in Process : Fits(q)' /\ run' = [run EXCEPT ![p] = q]

\* The first state: an unopened case.
LEMMA CaseStarts == Init => CaseInv
<1> SUFFICES ASSUME Init PROVE CaseInv
  OBVIOUS
<1> USE CaseAssumption DEF Init
<1>0. 0 \in 0 .. MaxAttempts /\ 0 \in 0 .. MaxReads
  OBVIOUS
<1>1. Idle \in Process
  BY <1>0 DEF Idle, Place, Process
<1>2. NoIntent \in Intent
  BY <1>0 DEF NoIntent, Intent
<1>3. CaseTypeOK
  BY <1>0, <1>1, <1>2 DEF CaseTypeOK
<1>4. OneMade /\ RowsTogether /\ InOrder
  BY DEF OneMade, RowsTogether, InOrder, NoIntent
<1>5. Known
  BY DEF Known, Fits, Idle, Place
<1> QED BY <1>3, <1>4, <1>5 DEF CaseInv

\* One process moves to a place that fits; nobody else loses what it knows.
LEMMA RunsFit ==
    ASSUME CaseTypeOK, Known, Stays,
           UNCHANGED run \/ \E p \in Procs : Takes(p)
    PROVE  Known' /\ run' \in [Procs -> Process]
<1>1. run \in [Procs -> Process] /\ lapsed \in BOOLEAN
  BY DEF CaseTypeOK
<1>2. ASSUME NEW x \in Procs, run'[x] = run[x] PROVE Fits(run[x])'
  <2>1. Fits(run[x])
    BY DEF Known
  <2> QED BY <1>2, <2>1 DEF Fits, Stays
<1>3. CASE UNCHANGED run
  BY <1>1, <1>2, <1>3 DEF Known
<1>4. CASE \E p \in Procs : Takes(p)
  <2>1. PICK p \in Procs, q \in Process : Fits(q)' /\ run' = [run EXCEPT ![p] = q]
    BY <1>4 DEF Takes
  <2>2. \A x \in Procs : run'[x] = IF x = p THEN q ELSE run[x]
    BY <1>1, <2>1
  <2>3. ASSUME NEW x \in Procs PROVE Fits(run[x])'
    <3>1. CASE x = p
      <4>1. run'[x] = q
        BY <2>2, <3>1
      <4> QED BY <2>1, <4>1 DEF Fits
    <3>2. CASE x # p
      BY <1>2, <2>2, <3>2
    <3> QED BY <3>1, <3>2
  <2>4. run' \in [Procs -> Process]
    BY <1>1, <2>1
  <2> QED BY <2>3, <2>4 DEF Known
<1> QED BY <1>3, <1>4

\* A step that changes the two rows at most, and not the prize.
LEMMA RowsKeep ==
    ASSUME CaseInv, UNCHANGED prize, lapsed' \in BOOLEAN, lapsed => lapsed',
           entitlement' \in Entitlement, RowsTogether',
           item' \in {"PENDING", "OPENING", "CLAIMED", "GONE"},
           stale' \in BOOLEAN, listed' \in 0 .. MaxReads, Present => Present',
           UNCHANGED run \/ \E p \in Procs : Takes(p)
    PROVE  CaseInv'
<1>1. Stays
  BY DEF Stays, prize
<1>2. Known' /\ run' \in [Procs -> Process]
  BY <1>1, RunsFit DEF CaseInv
<1>3. CaseTypeOK'
  BY <1>2 DEF CaseInv, CaseTypeOK, Entitlement, prize
<1>4. OneMade' /\ InOrder'
  BY DEF CaseInv, OneMade, InOrder, prize
<1> QED BY <1>2, <1>3, <1>4 DEF CaseInv

\* A process that only moves keeps everything.
LEMMA MoveKeeps ==
    ASSUME CaseInv, NEW p \in Procs, UNCHANGED <<rows, lapsed, prize>>, Takes(p)
    PROVE  CaseInv'
<1>1. RowsTogether' /\ (Present => Present')
  BY DEF CaseInv, RowsTogether, Present, rows, prize
<1>2. lapsed' \in BOOLEAN /\ entitlement' \in Entitlement /\ stale' \in BOOLEAN
      /\ item' \in {"PENDING", "OPENING", "CLAIMED", "GONE"} /\ listed' \in 0 .. MaxReads
  BY DEF CaseInv, CaseTypeOK, Entitlement, rows
<1>3. UNCHANGED prize /\ (lapsed => lapsed')
  OBVIOUS
<1> QED BY <1>1, <1>2, <1>3, RowsKeep

\* A step that changes the event, the intent or the reward and not the rows.
LEMMA PrizeKeeps ==
    ASSUME CaseInv, UNCHANGED <<rows, lapsed>>, Stays,
           event' \in Prizes \cup {None}, reward' \in Prizes \cup {None},
           intent' \in Intent, made' \in Nat, InOrder', OneMade',
           UNCHANGED run \/ \E p \in Procs : Takes(p)
    PROVE  CaseInv'
<1>1. Known' /\ run' \in [Procs -> Process]
  BY RunsFit DEF CaseInv
<1>2. CaseTypeOK'
  BY <1>1 DEF CaseInv, CaseTypeOK, rows
<1>3. RowsTogether'
  BY DEF CaseInv, RowsTogether, Stays, rows
<1> QED BY <1>1, <1>2, <1>3 DEF CaseInv

\* Everybody has a place, and fits there.
LEMMA InPlace ==
    ASSUME CaseInv, NEW p \in Procs
    PROVE  run[p] \in Process /\ Fits(run[p])
<1> QED BY DEF CaseInv, CaseTypeOK, Known

\* A process ends.
LEMMA EndFits ==
    ASSUME NEW p, Ends(p)
    PROVE  Takes(p)
<1>1. Idle \in Process
  BY CaseAssumption DEF Idle, Place, Process
<1>2. Fits(Idle)'
  BY DEF Fits, Idle, Place
<1> QED BY <1>1, <1>2 DEF Ends, Takes

\* A process goes on to a step that needs no more than it knows.
LEMMA ToFits ==
    ASSUME CaseInv, NEW p \in Procs, Stays,
           NEW pc \in {"find", "event", "list", "claim", "apply", "outcome", "restore",
                       "expire", "delete"},
           To(p, pc),
           run[p].known = None \/ pc = "outcome",
           pc \in {"find", "event"} => Present',
           pc \in {"list", "claim", "apply"} => event' # None,
           pc = "apply" => reward' # None,
           pc \in {"expire", "delete"} => lapsed'
    PROVE  Takes(p)
<1>1. run[p] \in Process /\ Fits(run[p])
  BY InPlace
<1>q. PICK q \in Process : q = [run[p] EXCEPT !.pc = pc]
  BY <1>1 DEF Process
<1>2. q.pc = pc /\ q.known = run[p].known /\ q.late = run[p].late
  BY <1>1, <1>q DEF Process
<1>3. Fits(q)'
  <2>1. (q.known = None \/ q.known = reward') /\ (q.late => lapsed')
    BY <1>1, <1>2 DEF Fits, Stays
  <2> QED BY <1>2, <2>1 DEF Fits
<1>4. run' = [run EXCEPT ![p] = q]
  BY <1>q DEF To
<1> QED BY <1>3, <1>4 DEF Takes

\* The catch block keeps what the request was told.
LEMMA CatchFits ==
    ASSUME CaseInv, NEW p \in Procs, Stays, Catch(p)
    PROVE  Takes(p)
<1>1. run[p] \in Process /\ Fits(run[p]) /\ lapsed \in BOOLEAN
  BY InPlace DEF CaseInv, CaseTypeOK
<1>z. 0 \in 0 .. MaxAttempts /\ run[p].known \in Prizes \cup {None}
  BY <1>1, CaseAssumption DEF Process
<1>q. PICK q \in Process : q = [pc |-> "recover", lease |-> 0, known |-> run[p].known,
                               late |-> lapsed]
  BY <1>1, <1>z DEF Process
<1>2. q.pc = "recover" /\ q.known = run[p].known /\ q.late = lapsed
  BY <1>q
<1>3. Fits(q)'
  <2>1. (q.known = None \/ q.known = reward') /\ (q.late => lapsed')
    BY <1>1, <1>2 DEF Fits, Stays
  <2> QED BY <1>2, <2>1 DEF Fits
<1>4. run' = [run EXCEPT ![p] = q]
  BY <1>q DEF Catch, Place
<1> QED BY <1>3, <1>4 DEF Takes

\* A process gives up.
LEMMA GivesUpFits ==
    ASSUME CaseInv, NEW p \in Procs, Stays, GivesUp(p)
    PROVE  Takes(p)
<1> QED BY EndFits, CatchFits DEF GivesUp

\* A process has the reward in hand.
LEMMA GoesFits ==
    ASSUME CaseInv, NEW p \in Procs, reward # None, event # None,
           UNCHANGED <<event, reward>>, Goes(p, reward)
    PROVE  Takes(p)
<1>1. CASE p \notin Openers
  <2>1. Ends(p)
    BY <1>1 DEF Goes, Ends
  <2> QED BY <2>1, EndFits
<1>2. CASE p \in Openers
  <2>1. reward \in Prizes \cup {None} /\ 0 \in 0 .. MaxAttempts
    BY CaseAssumption DEF CaseInv, CaseTypeOK
  <2>q. PICK q \in Process :
            q = [pc |-> "finalize", lease |-> 0, known |-> reward, late |-> FALSE]
    BY <2>1 DEF Process
  <2>2. q.pc = "finalize" /\ q.known = reward /\ q.late = FALSE
    BY <2>q
  <2>3. run' = [run EXCEPT ![p] = q]
    BY <1>2, <2>q DEF Goes, Place
  <2>4. Fits(q)'
    BY <2>2 DEF Fits
  <2> QED BY <2>3, <2>4 DEF Takes
<1> QED BY <1>1, <1>2

\* Requests and runs that look, refuse, throw or die.
LEMMA LooksKeep ==
    ASSUME CaseInv, NEW p \in Procs,
           \/ Open(p) \/ Refused(p) \/ Throws(p) \/ Sweep(p) \/ Crash(p) \/ Recover(p)
           \/ Upkeep(p)
    PROVE  CaseInv'
<1>1. UNCHANGED <<rows, lapsed, prize>>
  BY DEF Open, Refused, Throws, Sweep, Crash, Recover, Upkeep
<1>2. Stays
  BY <1>1 DEF Stays, Present, rows, prize
<1>3. run[p] \in Process /\ Fits(run[p])
  BY InPlace
<1>4. CASE Ends(p)
  BY <1>1, <1>4, EndFits, MoveKeeps
<1>5. CASE Throws(p)
  BY <1>1, <1>2, <1>5, CatchFits, MoveKeeps DEF Throws
<1>6. CASE Open(p)
  <2>1. To(p, "find") /\ Present' /\ run[p].known = None
    BY <1>1, <1>3, <1>6 DEF Open, Unopened, Present, rows, At, Fits
  <2> QED BY <1>1, <1>2, <2>1, ToFits, MoveKeeps
<1>7. CASE Sweep(p)
  <2>1. To(p, "list") /\ event' # None /\ run[p].known = None
    BY <1>1, <1>3, <1>7 DEF Sweep, CaseInv, InOrder, prize, At, Fits
  <2> QED BY <1>1, <1>2, <2>1, ToFits, MoveKeeps
<1>8. CASE To(p, "outcome")
  BY <1>1, <1>2, <1>8, ToFits, MoveKeeps
<1>9. CASE Upkeep(p)
  <2>1. lapsed \in BOOLEAN /\ 0 \in 0 .. MaxAttempts
    BY CaseAssumption DEF CaseInv, CaseTypeOK
  <2>q. PICK q \in Process : q = [pc |-> "outcome", lease |-> 0, known |-> None,
                                 late |-> lapsed]
    BY <2>1 DEF Process
  <2>2. q.pc = "outcome" /\ q.known = None /\ q.late = lapsed
    BY <2>q
  <2>3. run' = [run EXCEPT ![p] = q]
    BY <1>9, <2>q DEF Upkeep, Place
  <2>4. Fits(q)'
    BY <1>2, <2>2 DEF Fits, Stays
  <2> QED BY <1>1, <2>3, <2>4, MoveKeeps DEF Takes
<1> QED BY <1>4, <1>5, <1>6, <1>7, <1>8, <1>9 DEF Refused, Crash, Recover

\* The roll is stored once, with its intent.
LEMMA CreateEventKeeps ==
    ASSUME CaseInv, NEW o \in Openers, CreateEvent(o)
    PROVE  CaseInv'
<1>0. o \in Procs
  BY DEF Procs, Runs
<1>1. run[o] \in Process /\ Fits(run[o]) /\ At(o, "event")
  BY <1>0, InPlace DEF CreateEvent
<1>2. Present /\ run[o].known = None
  BY <1>1 DEF Fits, At
<1>3. Stays /\ Present' /\ event' \in Prizes /\ event' # None
      /\ UNCHANGED <<rows, lapsed, reward, made>>
  BY <1>2, CaseAssumption DEF CreateEvent, CaseInv, CaseTypeOK, Stays, Present, rows
<1>4. intent' \in Intent /\ InOrder'
  <2>1. CASE event = None
    <3>1. intent' = [status |-> "PENDING", attempts |-> 0, expired |-> FALSE]
      BY <2>1 DEF CreateEvent, NoIntent
    <3>a. 0 \in 0 .. MaxAttempts
      BY CaseAssumption
    <3>2. intent' \in Intent /\ intent'.status = "PENDING"
      BY <3>1, <3>a DEF Intent
    <3> QED BY <1>3, <2>1, <3>2 DEF CaseInv, InOrder
  <2>2. CASE event # None
    BY <1>3, <2>2 DEF CreateEvent, CaseInv, CaseTypeOK, InOrder
  <2> QED BY <2>1, <2>2
<1>5. Takes(o)
  <2>1. To(o, "list")
    BY DEF CreateEvent
  <2> QED BY <1>0, <1>2, <1>3, <2>1, ToFits
<1>6. OneMade' /\ made' \in Nat /\ reward' \in Prizes \cup {None}
  BY <1>3 DEF CaseInv, CaseTypeOK, OneMade, Stays, InOrder
<1> QED BY <1>0, <1>3, <1>4, <1>5, <1>6, PrizeKeeps

\* A step of the intent and of one process, with event and reward as they are.
LEMMA IntentKeeps ==
    ASSUME CaseInv, UNCHANGED <<rows, lapsed, event, reward, made>>,
           intent' \in Intent, intent'.status # "NONE", event # None,
           intent'.status = "APPLIED" => reward # None,
           UNCHANGED run \/ \E p \in Procs : Takes(p)
    PROVE  CaseInv'
<1>1. Stays /\ InOrder'
  BY DEF Stays, CaseInv, InOrder, Present, rows
<1>2. event' \in Prizes \cup {None} /\ reward' \in Prizes \cup {None} /\ made' \in Nat
      /\ OneMade'
  BY DEF CaseInv, CaseTypeOK, OneMade
<1> QED BY <1>1, <1>2, PrizeKeeps

\* Leases of the intent, and what a run makes of its claim.
LEMMA MaterializeKeeps ==
    ASSUME CaseInv, NEW p \in Runs, Materialize(p)
    PROVE  CaseInv'
<1>0. p \in Procs
  BY DEF Procs
<1>1. intent \in Intent /\ Fits(run[p]) /\ run[p] \in Process /\ MaxAttempts \in Nat
      /\ reward \in Prizes \cup {None} /\ event \in Prizes \cup {None} /\ made \in Nat
  BY <1>0, InPlace, CaseAssumption DEF CaseInv, CaseTypeOK
<1>2. event # None /\ run[p].pc \in {"list", "claim", "make", "apply"}
      /\ run[p].known = None
  BY <1>1 DEF Materialize, ListIntents, ClaimIntent, MakeReward, ApplyIntent, FailIntent,
              At, Fits
<1>3. intent.status # "NONE"
  BY <1>2 DEF CaseInv, InOrder
<1>4. CASE ListIntents(p)
  <2>1. UNCHANGED <<rows, lapsed, event, reward, made>> /\ Stays
    BY <1>4 DEF ListIntents, Stays, Present, rows
  <2>2. intent' \in Intent /\ intent'.status # "NONE"
        /\ (intent'.status = "APPLIED" => reward # None)
    BY <1>1, <1>3, <1>4 DEF ListIntents, Intent, CaseInv, InOrder, Lapsed
  <2>3. CASE Goes(p, reward) /\ intent.status = "APPLIED"
    <3>1. reward # None
      BY <2>3 DEF CaseInv, InOrder
    <3> QED BY <1>0, <1>2, <2>1, <2>2, <2>3, <3>1, GoesFits, IntentKeeps
  <2>4. CASE To(p, "claim")
    BY <1>0, <1>2, <2>1, <2>2, <2>4, ToFits, IntentKeeps
  <2> QED BY <1>4, <2>3, <2>4 DEF ListIntents
<1>5. CASE ClaimIntent(p)
  <2>1. UNCHANGED <<rows, lapsed, event, reward, made>> /\ Stays
    BY <1>5 DEF ClaimIntent, Stays, Present, rows
  <2>2. CASE ~Claimable /\ GivesUp(p) /\ UNCHANGED intent
    BY <1>0, <1>1, <1>2, <1>3, <2>1, <2>2, GivesUpFits, IntentKeeps DEF CaseInv, InOrder
  <2>3. CASE /\ Claimable
             /\ intent' = [status |-> "PROCESSING", attempts |-> intent.attempts + 1,
                           expired |-> FALSE]
             /\ run' = [run EXCEPT ![p].pc = "make", ![p].lease = intent.attempts + 1]
    <3>1. intent.attempts \in 0 .. MaxAttempts /\ intent.attempts < MaxAttempts
      BY <1>1, <2>3 DEF Claimable, Intent
    <3>2. intent.attempts + 1 \in 0 .. MaxAttempts
      BY <1>1, <3>1
    <3>3. intent' \in Intent /\ intent'.status = "PROCESSING"
      BY <2>3, <3>2 DEF Intent
    <3>4. PICK q \in Process :
              q = [run[p] EXCEPT !.pc = "make", !.lease = intent.attempts + 1]
      BY <1>1, <3>2 DEF Process
    <3>5. q.pc = "make" /\ q.known = run[p].known /\ q.late = run[p].late
      BY <1>1, <3>4 DEF Process
    <3>6. Fits(q)'
      BY <1>1, <1>2, <2>1, <3>5 DEF Fits
    <3>7. run' = [run EXCEPT ![p] = q]
      BY <2>3, <3>4
    <3>8. Takes(p)
      BY <3>6, <3>7 DEF Takes
    <3> QED BY <1>0, <1>2, <2>1, <3>3, <3>8, IntentKeeps
  <2> QED BY <1>5, <2>2, <2>3 DEF ClaimIntent
<1>6. CASE MakeReward(p)
  <2>1. UNCHANGED <<rows, lapsed, event, intent>> /\ To(p, "apply")
    BY <1>6 DEF MakeReward
  <2>2. /\ reward' # None /\ reward' \in Prizes /\ reward' = event /\ made' = 1
        /\ (reward # None => reward' = reward)
    <3>1. CASE reward = None /\ reward' = event /\ made' = made + 1
      BY <1>1, <1>2, <3>1 DEF CaseInv, InOrder
    <3>2. CASE reward # None /\ UNCHANGED <<reward, made>>
      BY <1>1, <3>2 DEF CaseInv, OneMade
    <3> QED BY <1>6, <3>1, <3>2 DEF MakeReward
  <2>3. Stays
    BY <2>1, <2>2 DEF Stays, Present, rows
  <2>4. Takes(p)
    BY <1>0, <1>2, <2>1, <2>2, <2>3, ToFits
  <2>5. InOrder'
    BY <1>2, <1>3, <2>1, <2>2, <2>3 DEF InOrder, CaseInv, Stays
  <2>6. event' \in Prizes \cup {None} /\ intent' \in Intent /\ made' \in Nat
        /\ OneMade' /\ reward' \in Prizes \cup {None}
    BY <1>1, <2>1, <2>2 DEF OneMade
  <2>7. UNCHANGED <<rows, lapsed>>
    BY <2>1
  <2> QED BY <1>0, <2>3, <2>4, <2>5, <2>6, <2>7, PrizeKeeps
<1>7. CASE ApplyIntent(p)
  <2>1. UNCHANGED <<rows, lapsed, event, reward, made>> /\ Stays
    BY <1>7 DEF ApplyIntent, Stays, Present, rows
  <2>2. reward # None
    BY <1>1, <1>7 DEF ApplyIntent, At, Fits
  <2>3. CASE Holds(p)
    <3>1. intent' \in Intent /\ intent'.status = "APPLIED"
      BY <1>1, <1>7, <2>3 DEF ApplyIntent, Intent
    <3>2. Goes(p, reward)
      BY <1>7, <2>3 DEF ApplyIntent
    <3> QED BY <1>0, <1>2, <2>1, <2>2, <3>1, <3>2, GoesFits, IntentKeeps
  <2>4. CASE ~Holds(p)
    <3>1. GivesUp(p) /\ UNCHANGED intent
      BY <1>7, <2>4 DEF ApplyIntent
    <3> QED BY <1>0, <1>1, <1>2, <1>3, <2>1, <2>2, <3>1, GivesUpFits, IntentKeeps
  <2> QED BY <2>3, <2>4
<1>8. CASE FailIntent(p)
  <2>1. UNCHANGED <<rows, lapsed, event, reward, made>> /\ Stays /\ GivesUp(p)
    BY <1>8 DEF FailIntent, Stays, Present, rows
  <2>2. intent' \in Intent /\ intent'.status # "NONE"
        /\ (intent'.status = "APPLIED" => reward # None)
    <3>1. CASE Holds(p)
      BY <1>1, <1>8, <3>1 DEF FailIntent, Intent
    <3>2. CASE ~Holds(p)
      BY <1>1, <1>3, <1>8, <3>2 DEF FailIntent, CaseInv, InOrder
    <3> QED BY <3>1, <3>2
  <2> QED BY <1>0, <1>2, <2>1, <2>2, GivesUpFits, IntentKeeps
<1> QED BY <1>4, <1>5, <1>6, <1>7, <1>8 DEF Materialize

\* A request that answers with the reward that is there.
LEMMA ReadKeeps ==
    ASSUME CaseInv, NEW o \in Openers, ReadExisting(o)
    PROVE  CaseInv'
<1>1. o \in Procs /\ reward # None /\ UNCHANGED <<rows, lapsed, prize>>
  BY DEF Procs, Runs, ReadExisting
<1>2. event # None
  BY <1>1 DEF CaseInv, InOrder
<1>3. UNCHANGED <<event, reward>> /\ Goes(o, reward)
  BY <1>1 DEF prize, ReadExisting
<1> QED BY <1>1, <1>2, <1>3, GoesFits, MoveKeeps

\* One process writes the two rows and moves on.  While the item's time lasts the
\* write must leave the rows in step.
LEMMA WriteKeeps ==
    ASSUME CaseInv, NEW p \in Procs, UNCHANGED <<listed, lapsed, prize>>,
           stale' \in BOOLEAN, entitlement' \in Entitlement, RowsTogether',
           item' \in {"PENDING", "OPENING", "CLAIMED", "GONE"},
           item' = "GONE" => item = "GONE" \/ lapsed,
           Takes(p)
    PROVE  CaseInv'
<1>1. Present => Present'
  BY DEF Present
<1>2. lapsed' \in BOOLEAN /\ (lapsed => lapsed') /\ listed' \in 0 .. MaxReads
  BY DEF CaseInv, CaseTypeOK
<1> QED BY <1>1, <1>2, RowsKeep

\* What the invariant says of the two rows.
LEMMA RowTypes ==
    ASSUME CaseInv
    PROVE  /\ entitlement \in Entitlement /\ stale \in BOOLEAN /\ lapsed \in BOOLEAN
           /\ item \in {"PENDING", "OPENING", "CLAIMED", "GONE"}
           /\ reward \in Prizes \cup {None}
           /\ \A s \in {"AVAILABLE", "OPENING", "EXPIRED"} :
                entitlement.status # "CONSUMED" =>
                   [entitlement EXCEPT !.status = s] = [status |-> s, bound |-> None]
<1>1. entitlement \in Entitlement /\ (entitlement.status # "CONSUMED" => entitlement.bound = None)
  BY DEF CaseInv, CaseTypeOK, RowsTogether, Entitlement
<1> QED BY <1>1 DEF CaseInv, CaseTypeOK, Entitlement

\* The status of an item that is OPENING decides; any other is left as it is.
LEMMA AgesTyped ==
    ASSUME CaseInv, Ages
    PROVE  stale' \in BOOLEAN
<1> QED BY DEF CaseInv, CaseTypeOK, Ages

\* The steps of a request that write the two rows.
LEMMA RequestWritesKeep ==
    ASSUME CaseInv, NEW o \in Openers, BindExisting(o) \/ Reserve(o) \/ Finalize(o)
    PROVE  CaseInv'
<1>0. o \in Procs
  BY DEF Procs, Runs
<1>1. RowsTogether /\ UNCHANGED <<listed, lapsed, prize>> /\ reward' = reward
  BY DEF BindExisting, Reserve, Finalize, prize, CaseInv
<1>2. Stays \/ item' = "GONE"
  BY <1>1 DEF Stays, Present, prize
<1>3. run[o] \in Process /\ Fits(run[o])
  BY <1>0, InPlace
<1>4. CASE BindExisting(o)
  <2>1. reward # None /\ entitlement' = [status |-> "CONSUMED", bound |-> reward]
        /\ item' = (IF item = "PENDING" THEN "CLAIMED" ELSE item) /\ Ends(o)
        /\ stale' = stale /\ entitlement.status \in {"AVAILABLE", "CONSUMED"}
    BY <1>4 DEF BindExisting
  <2>2. lapsed \/ item # "GONE"
    BY <2>1 DEF CaseInv, InOrder, Present
  <2>3. RowsTogether'
    BY <1>1, <2>1, <2>2 DEF RowsTogether
  <2>4. entitlement' \in Entitlement /\ stale' \in BOOLEAN
        /\ item' \in {"PENDING", "OPENING", "CLAIMED", "GONE"}
        /\ (item' = "GONE" => item = "GONE" \/ lapsed)
    BY <2>1, RowTypes DEF Entitlement
  <2> QED BY <1>0, <1>1, <2>1, <2>3, <2>4, EndFits, WriteKeeps
<1>5. CASE Reserve(o)
  <2>1. entitlement' = [status |-> "OPENING", bound |-> None] /\ item' = "OPENING"
        /\ stale' = FALSE /\ To(o, "event")
    BY <1>5, RowTypes DEF Reserve, Unopened
  <2>2. Stays /\ Present' /\ run[o].known = None
    BY <1>1, <1>2, <1>3, <1>5, <2>1 DEF Present, Reserve, At, Fits
  <2>3. Takes(o)
    BY <1>0, <2>1, <2>2, ToFits
  <2>4. RowsTogether' /\ entitlement' \in Entitlement
    BY <2>1 DEF RowsTogether, Entitlement
  <2> QED BY <1>0, <1>1, <2>1, <2>3, <2>4, WriteKeeps
<1>6. CASE Finalize(o)
  <2>1. reward # None /\ run[o].known = reward /\ stale' \in BOOLEAN
    BY <1>3, <1>6, AgesTyped DEF Finalize, At, Fits
  <2>2. CASE Catch(o) /\ UNCHANGED <<entitlement, item>>
    <3>1. RowsTogether' /\ Stays
      BY <1>1, <2>2 DEF RowsTogether, Stays, Present, prize
    <3>2. Takes(o)
      BY <1>0, <2>2, <3>1, CatchFits
    <3> QED BY <1>0, <1>1, <2>1, <2>2, <3>1, <3>2, RowTypes, WriteKeeps
  <2>3. CASE /\ entitlement.status \in {"OPENING", "CONSUMED"}
             /\ entitlement' = [status |-> "CONSUMED", bound |-> run[o].known]
             /\ item' = (IF item = "OPENING" THEN "CLAIMED" ELSE item)
             /\ Ends(o)
    <3>1. RowsTogether'
      BY <1>1, <2>1, <2>3 DEF RowsTogether
    <3>2. entitlement' \in Entitlement
          /\ item' \in {"PENDING", "OPENING", "CLAIMED", "GONE"}
          /\ (item' = "GONE" => item = "GONE" \/ lapsed)
      BY <2>1, <2>3, RowTypes DEF Entitlement
    <3> QED BY <1>0, <1>1, <2>1, <2>3, <3>1, <3>2, EndFits, WriteKeeps
  <2> QED BY <1>6, <2>2, <2>3 DEF Finalize
<1> QED BY <1>4, <1>5, <1>6

\* A recovery reads, and goes by what it read.
LEMMA DecideKeeps ==
    ASSUME CaseInv, NEW p \in Procs, Decide(p)
    PROVE  CaseInv'
<1>1. UNCHANGED <<rows, lapsed, prize>> /\ At(p, "outcome")
  BY DEF Decide
<1>2. Stays /\ UNCHANGED <<event, reward, lapsed>>
  BY <1>1 DEF Stays, Present, rows, prize
<1>3. run[p] \in Process /\ Fits(run[p]) /\ reward \in Prizes \cup {None}
  BY InPlace DEF CaseInv, CaseTypeOK
<1>4. Outcome(run[p].known) # None => Outcome(run[p].known) = reward
  BY <1>3 DEF Outcome, Fits
<1>5. CASE Ends(p)
  BY <1>1, <1>5, EndFits, MoveKeeps
<1>6. CASE /\ Outcome(run[p].known) # None
           /\ run' = [run EXCEPT ![p].pc = "bind", ![p].known = Outcome(run[p].known)]
  <2>1. reward # None
    BY <1>4, <1>6
  <2>q. PICK q \in Process : q = [run[p] EXCEPT !.pc = "bind", !.known = reward]
    BY <1>3 DEF Process
  <2>2. q.pc = "bind" /\ q.known = reward /\ q.late = run[p].late
    BY <1>3, <2>q DEF Process
  <2>3. run' = [run EXCEPT ![p] = q]
    BY <1>4, <1>6, <2>q
  <2>4. Fits(q)'
    BY <1>2, <1>3, <2>1, <2>2 DEF Fits
  <2> QED BY <1>1, <2>3, <2>4, MoveKeeps DEF Takes
<1>7. CASE /\ Outcome(run[p].known) = None
           /\ To(p, IF run[p].late THEN "expire" ELSE "restore")
  <2>1. run[p].known = None
    BY <1>7 DEF Outcome
  <2>2. CASE run[p].late
    <3>1. To(p, "expire") /\ lapsed'
      BY <1>2, <1>3, <1>7, <2>2 DEF Fits
    <3> QED BY <1>1, <1>2, <2>1, <3>1, ToFits, MoveKeeps
  <2>3. CASE ~run[p].late
    <3>1. To(p, "restore")
      BY <1>7, <2>3
    <3> QED BY <1>1, <1>2, <2>1, <3>1, ToFits, MoveKeeps
  <2> QED BY <2>2, <2>3
<1> QED BY <1>5, <1>6, <1>7 DEF Decide

\* Its write looks at the entitlement again; it parts the rows only after the deadline.
LEMMA RecoveryKeeps ==
    ASSUME CaseInv, NEW p \in Procs, Recovery(p)
    PROVE  CaseInv'
<1>1. CASE Decide(p)
  BY <1>1, DecideKeeps
<1>2. CASE Bind(p) \/ Restore(p) \/ Expire(p) \/ Delete(p)
  <2>1. UNCHANGED <<listed, lapsed, prize>> /\ reward' = reward /\ stale' \in BOOLEAN
        /\ RowsTogether
    BY <1>2, AgesTyped DEF Bind, Restore, Expire, Delete, prize, CaseInv
  <2>2. run[p] \in Process /\ Fits(run[p])
    BY InPlace
  <2>3. CASE Bind(p) /\ entitlement.status = "OPENING"
    <3>1. entitlement' = [status |-> "CONSUMED", bound |-> reward] /\ reward # None
          /\ item' = (IF item = "OPENING" THEN "CLAIMED" ELSE item) /\ Ends(p)
      BY <2>2, <2>3 DEF Bind, At, Fits
    <3>2. RowsTogether'
      BY <2>1, <2>3, <3>1 DEF RowsTogether
    <3>3. entitlement' \in Entitlement
          /\ item' \in {"PENDING", "OPENING", "CLAIMED", "GONE"}
          /\ (item' = "GONE" => item = "GONE" \/ lapsed)
      BY <3>1, RowTypes DEF Entitlement
    <3> QED BY <2>1, <3>1, <3>2, <3>3, EndFits, WriteKeeps
  <2>4. CASE Restore(p) /\ entitlement.status = "OPENING"
    <3>1. entitlement' = [status |-> "AVAILABLE", bound |-> None]
          /\ item' = (IF item = "OPENING" THEN "PENDING" ELSE item) /\ Ends(p)
      BY <2>4, RowTypes DEF Restore
    <3>2. RowsTogether'
      BY <2>1, <2>4, <3>1 DEF RowsTogether
    <3>3. entitlement' \in Entitlement
          /\ item' \in {"PENDING", "OPENING", "CLAIMED", "GONE"}
          /\ (item' = "GONE" => item = "GONE" \/ lapsed)
      BY <3>1, RowTypes DEF Entitlement
    <3> QED BY <2>1, <3>1, <3>2, <3>3, EndFits, WriteKeeps
  <2>5. CASE Expire(p) /\ entitlement.status = "OPENING"
    <3>1. entitlement' = [status |-> "EXPIRED", bound |-> None] /\ lapsed
          /\ item' = (IF item = "OPENING" THEN "GONE" ELSE item) /\ Ends(p)
      BY <2>2, <2>5, RowTypes DEF Expire, At, Fits
    <3>2. RowsTogether'
      BY <2>1, <2>5, <3>1 DEF RowsTogether
    <3>3. entitlement' \in Entitlement
          /\ item' \in {"PENDING", "OPENING", "CLAIMED", "GONE"}
      BY <3>1, RowTypes DEF Entitlement
    <3> QED BY <2>1, <3>1, <3>2, <3>3, EndFits, WriteKeeps
  <2>6. CASE Delete(p)
    <3>1. UNCHANGED entitlement /\ lapsed
          /\ item' = (IF item = "OPENING" THEN "GONE" ELSE item) /\ Ends(p)
      BY <2>2, <2>6 DEF Delete, At, Fits
    <3>2. RowsTogether'
      BY <2>1, <3>1 DEF RowsTogether
    <3>3. entitlement' \in Entitlement
          /\ item' \in {"PENDING", "OPENING", "CLAIMED", "GONE"}
      BY <3>1, RowTypes
    <3> QED BY <2>1, <3>1, <3>2, <3>3, EndFits, WriteKeeps
  <2>7. CASE UNCHANGED <<entitlement, item>> /\ Ends(p)
    <3>1. RowsTogether'
      BY <2>1, <2>7 DEF RowsTogether
    <3> QED BY <2>1, <2>7, <3>1, RowTypes, EndFits, WriteKeeps
  <2>8. CASE UNCHANGED <<entitlement, item>> /\ Expire(p) /\ To(p, "delete")
    <3>1. RowsTogether' /\ Stays
      BY <2>1, <2>8 DEF RowsTogether, Stays, Present, prize
    <3>2. lapsed' /\ run[p].known = None
      BY <2>1, <2>2, <2>8 DEF Expire, At, Fits
    <3>3. Takes(p)
      BY <2>8, <3>1, <3>2, ToFits
    <3> QED BY <2>1, <2>8, <3>1, <3>3, RowTypes, WriteKeeps
  <2> QED BY <1>2, <2>3, <2>4, <2>5, <2>6, <2>7, <2>8 DEF Bind, Restore, Expire
<1> QED BY <1>1, <1>2 DEF Recovery

\* Items made and removed by nobody's request, and time.
LEMMA UpkeepKeeps ==
    ASSUME CaseInv, Backfill \/ CreateItem \/ ExpireItem \/ Lapse \/ Age
    PROVE  CaseInv'
<1>1. UNCHANGED <<prize, run>> /\ reward' = reward /\ RowsTogether
  BY DEF Backfill, CreateItem, ExpireItem, Lapse, Age, prize, CaseInv
<1>2. /\ lapsed' \in BOOLEAN /\ (lapsed => lapsed') /\ stale' \in BOOLEAN
      /\ (item' = "GONE" => item = "GONE" \/ lapsed)
      /\ item' \in {"PENDING", "OPENING", "CLAIMED", "GONE"}
  BY DEF Backfill, CreateItem, ExpireItem, Lapse, Age, CaseInv, CaseTypeOK, rows
<1>3. listed' \in 0 .. MaxReads
  BY CaseAssumption DEF Backfill, CreateItem, ExpireItem, Lapse, Age, CaseInv, CaseTypeOK,
     rows
<1>4. CASE UNCHANGED <<entitlement, item>>
  <2>1. RowsTogether'
    BY <1>1, <1>2, <1>4, RowTypes DEF RowsTogether
  <2> QED BY <1>1, <1>2, <1>3, <1>4, <2>1, RowTypes, RowsKeep DEF Present
<1>5. CASE CreateItem
  <2>1. UNCHANGED <<entitlement, lapsed>> /\ item' = (IF item = "GONE" THEN "PENDING" ELSE item)
    BY <1>5 DEF CreateItem
  <2>2. RowsTogether'
    BY <1>1, <2>1 DEF RowsTogether
  <2> QED BY <1>1, <1>2, <1>3, <2>1, <2>2, RowTypes, RowsKeep DEF Present
<1>6. CASE ExpireItem
  <2>1. lapsed' /\ item' = "GONE"
    BY <1>6 DEF ExpireItem
  <2>2. CASE entitlement.status = "AVAILABLE"
    <3>1. entitlement' = [status |-> "EXPIRED", bound |-> None]
      BY <1>6, <2>2, RowTypes DEF ExpireItem
    <3>2. RowsTogether' /\ entitlement' \in Entitlement
      BY <2>1, <3>1 DEF RowsTogether, Entitlement
    <3> QED BY <1>1, <1>2, <1>3, <2>1, <3>2, RowsKeep DEF Present
  <2>3. CASE entitlement.status # "AVAILABLE"
    <3>1. UNCHANGED entitlement
      BY <1>6, <2>3 DEF ExpireItem
    <3>2. RowsTogether' /\ entitlement' \in Entitlement
      BY <1>1, <2>1, <3>1, RowTypes DEF RowsTogether
    <3> QED BY <1>1, <1>2, <1>3, <2>1, <3>2, RowsKeep DEF Present
  <2> QED BY <2>2, <2>3
<1> QED BY <1>4, <1>5, <1>6 DEF Backfill, Lapse, Age, rows

\* A lease that runs out marks the intent and nothing else.
LEMMA LeaseKeeps ==
    ASSUME CaseInv, LeaseExpires
    PROVE  CaseInv'
<1>1. intent \in Intent
  BY DEF CaseInv, CaseTypeOK
<1>2. intent' \in Intent /\ intent'.status = "PROCESSING" /\ event # None
  BY <1>1 DEF LeaseExpires, Intent, CaseInv, InOrder
<1>3. UNCHANGED <<rows, lapsed, event, reward, made>> /\ UNCHANGED run
  BY DEF LeaseExpires
<1> QED BY <1>2, <1>3, IntentKeeps

\* Every step keeps the invariant.
LEMMA CaseKept == CaseInv /\ [Next]_vars => CaseInv'
<1> SUFFICES ASSUME CaseInv, [Next]_vars PROVE CaseInv'
  OBVIOUS
<1>1. ASSUME NEW o \in Openers, Request(o) \/ Recovery(o) PROVE CaseInv'
  <2>1. o \in Procs
    BY DEF Procs, Runs
  <2> QED BY <1>1, <2>1, LooksKeep, RequestWritesKeep, CreateEventKeeps, ReadKeeps,
             RecoveryKeeps DEF Request
<1>2. ASSUME NEW s \in Sweepers, Sweep(s) PROVE CaseInv'
  <2>1. s \in Procs
    BY DEF Procs, Runs
  <2> QED BY <1>2, <2>1, LooksKeep
<1>3. ASSUME NEW p \in Runs, Materialize(p) \/ Crash(p) PROVE CaseInv'
  <2>1. p \in Procs
    BY DEF Procs
  <2> QED BY <1>3, <2>1, LooksKeep, MaterializeKeeps
<1>4. ASSUME NEW k \in Keepers, Keep(k) PROVE CaseInv'
  <2>1. k \in Procs
    BY DEF Procs
  <2> QED BY <1>4, <2>1, LooksKeep, RecoveryKeeps DEF Keep
<1>5. CASE UNCHANGED vars
  BY <1>5 DEF vars, CaseInv, CaseTypeOK, OneMade, RowsTogether, InOrder, Known, Fits, Present
<1> QED BY <1>1, <1>2, <1>3, <1>4, <1>5, UpkeepKeeps, LeaseKeeps DEF Next

\* The invariant holds in every state.
LEMMA CaseHolds == Spec => []CaseInv
<1> QED BY CaseStarts, CaseKept, PTL DEF Spec

\* Every state is well typed: no intent is claimed more often than the limit allows.
THEOREM CaseTyped == Spec => []CaseTypeOK
<1>1. CaseInv => CaseTypeOK
  BY DEF CaseInv
<1> QED BY <1>1, CaseHolds, PTL

\* openLootBoxForPayload makes one prize, the one rolled first, and no request and no
\* recovery goes by another.
THEOREM OneRollOnly == Spec => []OneRoll
<1>1. CaseInv => OneRoll
  BY DEF CaseInv, OneRoll, OneMade, Known, Fits
<1> QED BY <1>1, CaseHolds, PTL

\* The entitlement and its wallet item stay in step until the item expires, and a
\* reserved or claimed item keeps its entitlement afterwards.
THEOREM RowsStayTogether == Spec => []RowsTogether
<1>1. CaseInv => RowsTogether
  BY DEF CaseInv
<1> QED BY <1>1, CaseHolds, PTL

\* What a step of process p may do to the entitlement: nothing to a settled one, and
\* nothing but to bind the prize when p was told of it.
Respects(p) ==
    /\ entitlement.status \in {"CONSUMED", "EXPIRED"} => entitlement' = entitlement
    /\ run[p].known # None /\ entitlement' # entitlement =>
          entitlement' = [status |-> "CONSUMED", bound |-> run[p].known]
    /\ \A x \in Procs \ {p} : run'[x] = run[x]

\* A request that writes finds the entitlement unsettled, or bound to its own prize.
LEMMA RequestRespects ==
    ASSUME CaseInv, NEW o \in Openers, BindExisting(o) \/ Reserve(o) \/ Finalize(o)
    PROVE  Respects(o)
<1>1. o \in Procs /\ run \in [Procs -> Process] /\ Fits(run[o])
  BY InPlace DEF Procs, Runs, CaseInv, CaseTypeOK
<1>2. \A x \in Procs \ {o} : run'[x] = run[x]
  BY <1>1 DEF BindExisting, Reserve, Finalize, Ends, To, Catch
<1>3. entitlement \in Entitlement
  BY RowTypes
<1>4. \A b : entitlement.status = "CONSUMED" /\ entitlement.bound = b =>
             entitlement = [status |-> "CONSUMED", bound |-> b]
  BY <1>3 DEF Entitlement
<1>5. CASE BindExisting(o) \/ Reserve(o)
  <2>1. run[o].known = None
    BY <1>1, <1>5 DEF BindExisting, Reserve, At, Fits
  <2>2. entitlement.status \in {"CONSUMED", "EXPIRED"} => entitlement' = entitlement
    BY <1>4, <1>5 DEF BindExisting, Reserve, Unopened
  <2> QED BY <1>2, <2>1, <2>2 DEF Respects
<1>6. CASE Finalize(o)
  BY <1>2, <1>4, <1>6 DEF Finalize, Respects
<1> QED BY <1>5, <1>6

\* A recovery writes to a case that is still reserved, and gives away none it has the
\* prize of.
LEMMA RecoveryRespects ==
    ASSUME CaseInv, NEW p \in Procs, Recovery(p)
    PROVE  Respects(p)
<1>1. run \in [Procs -> Process] /\ Fits(run[p])
  BY InPlace DEF CaseInv, CaseTypeOK
<1>2. \A x \in Procs \ {p} : run'[x] = run[x]
  BY <1>1 DEF Recovery, Decide, Bind, Restore, Expire, Delete, Ends, To
<1>3. CASE Decide(p) \/ Delete(p)
  BY <1>2, <1>3 DEF Decide, Delete, Respects, rows
<1>4. CASE Bind(p)
  BY <1>2, <1>4 DEF Bind, Respects
<1>5. CASE Restore(p) \/ Expire(p)
  <2>1. run[p].known = None
    BY <1>1, <1>5 DEF Restore, Expire, At, Fits
  <2>2. entitlement.status \in {"CONSUMED", "EXPIRED"} => entitlement' = entitlement
    BY <1>5 DEF Restore, Expire
  <2> QED BY <1>2, <2>1, <2>2 DEF Respects
<1> QED BY <1>3, <1>4, <1>5 DEF Recovery

\* Every step that changes the entitlement is one of these, or an expiry of an
\* unopened case.
LEMMA EntitlementMoves ==
    ASSUME CaseInv, [Next]_vars, entitlement' # entitlement
    PROVE  (\E p \in Procs : Respects(p))
           \/ (UNCHANGED run /\ entitlement.status = "AVAILABLE")
<1>1. ASSUME NEW o \in Openers, Request(o) \/ Recovery(o) PROVE \E p \in Procs : Respects(p)
  <2>1. o \in Procs
    BY DEF Procs, Runs
  <2>2. CASE Recovery(o)
    BY <2>1, <2>2, RecoveryRespects
  <2>3. CASE BindExisting(o) \/ Reserve(o) \/ Finalize(o)
    BY <2>1, <2>3, RequestRespects
  <2> QED BY <1>1, <2>2, <2>3 DEF Request, Open, Refused, CreateEvent, ReadExisting, Throws,
                                  Recover, rows
<1>2. ASSUME NEW s \in Sweepers, Sweep(s) PROVE FALSE
  BY <1>2 DEF Sweep, rows
<1>3. ASSUME NEW p \in Runs, Materialize(p) \/ Crash(p) PROVE FALSE
  BY <1>3 DEF Materialize, ListIntents, ClaimIntent, MakeReward, ApplyIntent, FailIntent,
              Crash, rows
<1>4. ASSUME NEW k \in Keepers, Keep(k) PROVE \E p \in Procs : Respects(p)
  <2>1. k \in Procs
    BY DEF Procs
  <2> QED BY <1>4, <2>1, RecoveryRespects DEF Keep, Upkeep, rows
<1>5. CASE Backfill \/ CreateItem \/ ExpireItem \/ Lapse \/ Age \/ LeaseExpires
  BY <1>5 DEF Backfill, CreateItem, ExpireItem, Lapse, Age, LeaseExpires, rows
<1> QED BY <1>1, <1>2, <1>3, <1>4, <1>5 DEF Next, vars

\* A consumed or expired case is never touched again by openings, recoveries and
\* upkeeps, and a request that knows the prize never gives the case away.
THEOREM SettledCasesStay == Spec => SettledCaseStays
<1>1. CaseInv /\ [Next]_vars =>
        [/\ entitlement.status \in {"CONSUMED", "EXPIRED"} => entitlement' = entitlement
         /\ \A o \in Openers :
              run[o].known # None /\ run'[o] # run[o] /\ entitlement' # entitlement =>
                 entitlement' = [status |-> "CONSUMED", bound |-> run[o].known]]_vars
  <2> SUFFICES ASSUME CaseInv, [Next]_vars, entitlement' # entitlement
               PROVE  /\ entitlement.status \notin {"CONSUMED", "EXPIRED"}
                      /\ \A o \in Openers : run[o].known # None /\ run'[o] # run[o] =>
                            entitlement' = [status |-> "CONSUMED", bound |-> run[o].known]
    OBVIOUS
  <2>1. CASE \E p \in Procs : Respects(p)
    <3>1. PICK p \in Procs : Respects(p)
      BY <2>1
    <3>2. \A o \in Openers : run'[o] # run[o] => o = p
      BY <3>1 DEF Respects, Procs, Runs
    <3> QED BY <3>1, <3>2 DEF Respects
  <2>2. CASE UNCHANGED run /\ entitlement.status = "AVAILABLE"
    BY <2>2
  <2> QED BY <2>1, <2>2, EntitlementMoves
<1> QED BY <1>1, CaseHolds, PTL DEF Spec, SettledCaseStays

=============================================================================
