--------------------------- MODULE PipelineProofs ---------------------------
(***************************************************************************)
(* The reward pipeline for any number of runs, intents and attempts: what  *)
(* a step may do to a leased or settled row, what the remediation marker   *)
(* stops, and the results behind finished rows.                            *)
(***************************************************************************)
EXTENDS RewardPipeline, TLAPS

RewardStates == {"NONE", "PENDING", "APPROVED", "PAID", "CANCELED", "EXPIRED"}
Targets == Intents \cup (Effects \X (1..MaxAttempts)) \cup {"none"}
Pcs == {"idle", "iPrepare", "iSuspend", "iSweep", "iApplied", "iMake", "iFail", "rPrepare",
        "rSuspend", "rSeed", "fSweep", "fNext", "fSuspend", "fClaim", "fApply", "fCancel",
        "fFinish", "fFail"}
Runs == [pc : Pcs, ret : Pcs, ready : {"READY", "DEFERRED", "BLOCKED"}, r : Targets,
         row : RewardStates,
         todo : SUBSET Targets, left : SUBSET Intents,
         claims : SUBSET (Intents \X (1..MaxAttempts)),
         fx : SUBSET (Effects \X (1..MaxAttempts))]

\* A row that no lease protects and nothing has settled may move, but not to APPLIED.
FreeMove(old, new) ==
  new = old \/ (~Leased(old) /\ old.status \notin Settled /\ new.status # "APPLIED")

\* What the holder of lease version v may do to its row.
HeldMove(old, new, v) ==
  new = old \/ (old.status = "PROCESSING" /\ old.attempts = v /\ new.attempts = v)

RowInv == intent \in [Intents -> Rows] /\ effect \in [Effects -> Rows]

\* What the next step of a run relies on: a claim whose reward is no longer to be made
\* has one, a claim is applied for a reward that was approved when it was read, and a
\* claim about to be finished has its delivery.
Making(x, rw) ==
  x.pc = "iMake" \/ x.ret = "iMake" =>
    /\ \A c \in x.claims : c[1] \in x.left \/ rw[c[1]].status # "NONE"
    /\ \A c, d \in x.claims : c[1] = d[1] => c = d
TopLevel(x) ==
  /\ x.pc \in {"idle", "iPrepare", "iSuspend", "iSweep", "iApplied", "iMake", "iFail"}
       => x.ret = "idle"
  /\ x.ret \in {"idle", "iApplied", "iMake"}
Applying(x, gr) ==
  /\ x.pc \in {"fApply", "fFinish", "fCancel", "fFail"} => x.r \in x.fx
  /\ x.pc = "fApply" /\ x.r[1][2] = "deliver" /\ x.r[1][1] \in Cases
       => x.row \in {"APPROVED", "PAID"}
  /\ x.pc = "fFinish" /\ x.r[1][2] = "deliver" => gr[x.r[1][1]] > 0
RunOK(x, rw, gr) == Making(x, rw) /\ TopLevel(x) /\ Applying(x, gr)

RunsOK == run \in [Workers -> Runs] /\ \A w \in Workers : RunOK(run[w], reward, granted)

PipelineInv == PipelineTypeOK /\ RunsOK /\ ResultBehindApplied /\ CaseIsApproved

\* What a step may do to the rows: a free move, the end of a lease's time, or a move of
\* the run that holds the lease.
Expires(old, new) == Leased(old) /\ new = [old EXCEPT !.expired = TRUE]
ByHolder(key, old, new) ==
  \E w \in Workers : \E v \in 1..MaxAttempts :
    HeldBy(w, key, v) /\ run'[w] # run[w] /\ HeldMove(old, new, v)
RowMove(key, old, new) == FreeMove(old, new) \/ Expires(old, new) \/ ByHolder(key, old, new)
Moves ==
  /\ \A i \in Intents : RowMove(i, intent[i], intent'[i])
  /\ \A e \in Effects : RowMove(e, effect[e], effect'[e])

\* The parts of a step that leaves finished rows alone.
FreeRows ==
  /\ intent' \in [Intents -> Rows] /\ effect' \in [Effects -> Rows]
  /\ \A i \in Intents : FreeMove(intent[i], intent'[i])
  /\ \A e \in Effects : FreeMove(effect[e], effect'[e])
Rewarded == [Intents -> [status : RewardStates, requested : BOOLEAN]]
Data ==
  /\ reward' \in Rewarded /\ granted' \in [Intents -> Nat]
  /\ \A i \in Intents :
       /\ reward[i].status # "NONE" => reward'[i].status # "NONE"
       /\ granted'[i] >= granted[i] /\ granted'[i] <= 1
  /\ CaseIsApproved'
Frame ==
  /\ source' \in {"ready", "pending", "incoherent", "ambiguous"} /\ marker' \in BOOLEAN
  /\ crashes' \in 0..MaxCrashes /\ updates' \in 0..MaxUpdates

-----------------------------------------------------------------------------
(* Row operators *)

\* Every operator on rows gives a row.
LEMMA RowTypes ==
  ASSUME NEW row \in Rows
  PROVE  /\ Swept(row) \in Rows /\ Quarantined(row) \in Rows
         /\ \A ready : Suspended(row, ready) \in Rows
         /\ \A v : \A s \in Statuses : Finalized(row, v, s) \in Rows
         /\ \A v : Failed(row, v) \in Rows
         /\ Claimable(row) => Claimed(row) \in Rows /\ row.attempts + 1 \in 1..MaxAttempts
<1> USE PipelineAssumption
<1>1. \A s \in Statuses : Becomes(row, s) \in Rows
  BY DEF Becomes, Rows
<1>2. Claimable(row) => Claimed(row) \in Rows /\ row.attempts + 1 \in 1..MaxAttempts
  <2> SUFFICES ASSUME Claimable(row) PROVE Claimed(row) \in Rows /\ row.attempts + 1 \in 1..MaxAttempts
    OBVIOUS
  <2>1. row.attempts + 1 \in 1..MaxAttempts /\ row.attempts + 1 \in 0..MaxAttempts
    BY DEF Claimable, Rows
  <2> QED
    BY <2>1, Zenon DEF Claimed, Rows, Statuses
<1>3. Swept(row) \in Rows
  BY <1>1 DEF Swept, Statuses
<1>4. Quarantined(row) \in Rows
  BY <1>1 DEF Quarantined, Statuses
<1>5. \A ready : Suspended(row, ready) \in Rows
  BY <1>1 DEF Suspended, Statuses
<1>6. \A v : \A s \in Statuses : Finalized(row, v, s) \in Rows
  BY <1>1 DEF Finalized
<1>7. \A v : Failed(row, v) \in Rows
  BY <1>6 DEF Failed, Statuses
<1> QED
  BY <1>2, <1>3, <1>4, <1>5, <1>6, <1>7

\* Sweeps, suspensions, claims and quarantines are free moves; the fenced ends of a
\* claim are moves of the lease's holder.
LEMMA RowMoves ==
  ASSUME NEW row \in Rows
  PROVE  /\ FreeMove(row, Swept(row))
         /\ ~Leased(row) => FreeMove(row, Quarantined(row))
         /\ \A ready : FreeMove(row, Suspended(row, ready))
         /\ Claimable(row) => FreeMove(row, Claimed(row))
         /\ \A v, s : HeldMove(row, Finalized(row, v, s), v)
         /\ \A v : HeldMove(row, Failed(row, v), v)
         /\ \A v, s : s # "APPLIED" /\ row.status # "APPLIED" => Finalized(row, v, s).status # "APPLIED"
         /\ \A v : row.status # "APPLIED" => Failed(row, v).status # "APPLIED"
<1>1. FreeMove(row, Swept(row))
  BY DEF FreeMove, Swept, Exhausted, Lapsed, Leased, Becomes, Rows, Settled
<1>2. ~Leased(row) => FreeMove(row, Quarantined(row))
  BY DEF FreeMove, Quarantined, Leased, Becomes, Rows, Settled
<1>3. \A ready : FreeMove(row, Suspended(row, ready))
  BY DEF FreeMove, Suspended, Open, Lapsed, Leased, Becomes, Rows, Settled
<1>4. Claimable(row) => FreeMove(row, Claimed(row))
  BY DEF FreeMove, Claimable, Claimed, Open, Lapsed, Leased, Rows, Settled
<1>5. \A v, s : HeldMove(row, Finalized(row, v, s), v)
  BY DEF HeldMove, Finalized, Holds, Becomes, Rows
<1>6. \A v : HeldMove(row, Failed(row, v), v)
  BY <1>5 DEF Failed
<1>7. \A v, s : s # "APPLIED" /\ row.status # "APPLIED" => Finalized(row, v, s).status # "APPLIED"
  BY DEF Finalized, Becomes, Rows
<1>8. \A v : row.status # "APPLIED" => Failed(row, v).status # "APPLIED"
  BY <1>7 DEF Failed
<1> QED
  BY <1>1, <1>2, <1>3, <1>4, <1>5, <1>6, <1>7, <1>8

-----------------------------------------------------------------------------
(* Frames *)

\* The types the proofs cite most.
LEMMA Types ==
  ASSUME PipelineInv
  PROVE  /\ granted \in [Intents -> Nat] /\ reward \in Rewarded
         /\ intent \in [Intents -> Rows] /\ effect \in [Effects -> Rows]
         /\ \A i \in Intents : granted[i] \in Nat /\ granted[i] <= 1
  BY DEF PipelineInv, PipelineTypeOK, ResultBehindApplied, Rewarded, RewardStates

\* A step without a new reward or delivery keeps theirs.
LEMMA QuietData == ASSUME PipelineInv, UNCHANGED <<reward, granted>> PROVE Data
<1>1. CaseIsApproved'
  BY DEF PipelineInv, CaseIsApproved
<1>2. granted' = granted /\ reward' = reward
  OBVIOUS
<1>3. \A i \in Intents : granted'[i] >= granted[i] /\ granted'[i] <= 1
  BY <1>2, Types
<1> QED
  BY <1>1, <1>2, <1>3, Types DEF Data

\* A step that leaves the event and the bounds alone keeps their types.
LEMMA QuietFrame == ASSUME PipelineInv, UNCHANGED <<event, crashes, updates>> PROVE Frame
  BY DEF PipelineInv, PipelineTypeOK, Frame, event

\* Rows that do not change move freely.
LEMMA QuietRows == ASSUME PipelineInv, UNCHANGED <<intent, effect>> PROVE FreeRows
  BY DEF PipelineInv, PipelineTypeOK, FreeRows, FreeMove

\* Deliveries only grow.
LEMMA Grows ==
  ASSUME PipelineInv, Data, NEW i \in Intents
  PROVE  granted[i] \in Nat /\ granted'[i] \in Nat /\ granted'[i] >= granted[i] /\ granted'[i] <= 1
<1>1. granted' \in [Intents -> Nat]
  BY DEF Data
<1>2. granted'[i] >= granted[i] /\ granted'[i] <= 1
  BY DEF Data
<1> QED
  BY <1>1, <1>2, Types

\* More rewards and deliveries disturb no run.
LEMMA RunGrows ==
  ASSUME PipelineInv, Data, NEW x \in Runs, RunOK(x, reward, granted)
  PROVE  RunOK(x, reward', granted')
<1>1. Making(x, reward')
  BY DEF RunOK, Making, Data, Runs
<1>2. Applying(x, granted')
  <2>1. ASSUME x.pc = "fFinish", x.r[1][2] = "deliver" PROVE granted'[x.r[1][1]] > 0
    <3>1. x.r \in x.fx /\ granted[x.r[1][1]] > 0
      BY <2>1 DEF RunOK, Applying
    <3>2. x.r[1][1] \in Intents
      BY <3>1 DEF Runs, Effects
    <3>3. QED
      <4> DEFINE i == x.r[1][1]
      <4>1. granted[i] \in Nat /\ granted'[i] \in Nat /\ granted'[i] >= granted[i]
        BY <3>2, Grows
      <4> QED
        BY <3>1, <4>1
  <2> QED
    BY <2>1 DEF RunOK, Applying
<1> QED
  BY <1>1, <1>2 DEF RunOK

\* One run moves and the others stay.
LEMMA SetRun ==
  ASSUME PipelineInv, Data, NEW w \in Workers, NEW x \in Runs,
         Set(w, x), RunOK(x, reward', granted')
  PROVE  RunsOK'
<1>1. run' \in [Workers -> Runs] /\ run'[w] = x /\ \A v \in Workers : v # w => run'[v] = run[v]
  BY DEF Set, PipelineInv, RunsOK
<1>2. \A v \in Workers : RunOK(run[v], reward', granted')
  BY RunGrows DEF PipelineInv, RunsOK
<1> QED
  BY <1>1, <1>2 DEF RunsOK

\* No run moves.
LEMMA KeepRuns == ASSUME PipelineInv, Data, UNCHANGED run PROVE RunsOK'
  BY RunGrows DEF PipelineInv, RunsOK

\* A step whose rows move freely keeps the invariant.
LEMMA FreeStep ==
  ASSUME PipelineInv, FreeRows, Data, Frame, RunsOK'
  PROVE  PipelineInv' /\ Moves
<1>1. PipelineTypeOK'
  BY DEF FreeRows, Data, Frame, RunsOK, PipelineTypeOK, Runs, Rewarded, RewardStates
<1>2. ResultBehindApplied'
  <2> SUFFICES ASSUME NEW i \in Intents
               PROVE  /\ intent'[i].status = "APPLIED" => reward'[i].status # "NONE"
                      /\ effect'[<<i, "deliver">>].status = "APPLIED" => granted'[i] > 0
                      /\ granted'[i] <= 1
    BY DEF ResultBehindApplied
  <2>1. <<i, "deliver">> \in Effects
    BY DEF Effects
  <2>2. QED
    <3>1. intent'[i].status = "APPLIED" => intent[i].status = "APPLIED"
      BY DEF FreeRows, FreeMove
    <3>2. effect'[<<i, "deliver">>].status = "APPLIED" => effect[<<i, "deliver">>].status = "APPLIED"
      BY <2>1 DEF FreeRows, FreeMove
    <3>3. granted[i] \in Nat /\ granted'[i] \in Nat /\ granted'[i] >= granted[i] /\ granted'[i] <= 1
      BY Grows
    <3>4. reward[i].status # "NONE" => reward'[i].status # "NONE"
      BY DEF Data
    <3>5. /\ intent[i].status = "APPLIED" => reward[i].status # "NONE"
          /\ effect[<<i, "deliver">>].status = "APPLIED" => granted[i] > 0
      BY DEF PipelineInv, ResultBehindApplied
    <3> QED
      BY <3>1, <3>2, <3>3, <3>4, <3>5
<1>3. Moves
  BY DEF FreeRows, Moves, RowMove
<1> QED
  BY <1>1, <1>2, <1>3 DEF PipelineInv, Data

-----------------------------------------------------------------------------
(* Rows and runs of the actions *)

\* The remediation moves no leased row.
LEMMA RemediateRows == ASSUME PipelineInv, RemediateEvent PROVE FreeRows /\ marker' \in BOOLEAN
<1>1. CASE ~marker /\ source = "ambiguous" /\ ~Busy
  <2>1. /\ intent' = [i \in Intents |-> Quarantined(intent[i])]
        /\ effect' = [e \in Effects |-> Quarantined(effect[e])] /\ marker' = TRUE
    BY <1>1 DEF RemediateEvent
  <2>2. (\A i \in Intents : ~Leased(intent[i])) /\ (\A e \in Effects : ~Leased(effect[e]))
    BY <1>1 DEF Busy
  <2> QED
    BY <2>1, <2>2, Types, RowTypes, RowMoves DEF FreeRows
<1>2. CASE ~(~marker /\ source = "ambiguous" /\ ~Busy)
  BY <1>2, QuietRows DEF RemediateEvent, PipelineInv, PipelineTypeOK
<1> QED
  BY <1>1, <1>2

\* New effects are rows of their own.
LEMMA SeededRows ==
  ASSUME PipelineInv, NEW i, NEW status, effect' = Seeded(i, status), UNCHANGED intent
  PROVE  FreeRows
<1>1. \A k : [NoRow EXCEPT !.status = FirstStatus(i, k)] \in Rows
             /\ [NoRow EXCEPT !.status = FirstStatus(i, k)].status # "APPLIED"
  <2>1. \A k : FirstStatus(i, k) \in Statuses /\ FirstStatus(i, k) # "APPLIED"
    BY DEF FirstStatus, Statuses
  <2>2. NoRow \in Rows
    <3>1. 0 \in 0..MaxAttempts
      BY PipelineAssumption
    <3> QED
      BY <3>1, Zenon DEF NoRow, Rows, Statuses
  <2> QED
    BY <2>1, <2>2 DEF Rows
<1>2. \A e \in Effects : effect'[e] \in Rows /\ FreeMove(effect[e], effect'[e])
  BY <1>1, Types DEF Seeded, FreeMove, Leased, Settled
<1>3. effect' \in [Effects -> Rows]
  BY <1>1, Types DEF Seeded
<1> QED
  BY <1>2, <1>3, Types DEF FreeRows, FreeMove

\* The sweep of the intents is a free move.
LEMMA SweptIntents == ASSUME PipelineInv, SweepIntents, UNCHANGED effect PROVE FreeRows
  BY Types, RowTypes, RowMoves DEF SweepIntents, FreeRows, FreeMove

\* Suspending the effects of a reward is a free move.
LEMMA SuspendedEffects ==
  ASSUME PipelineInv, NEW i, NEW ready, UNCHANGED intent,
         effect' = [e \in Effects |-> IF e[1] = i THEN Suspended(effect[e], ready) ELSE effect[e]]
  PROVE  FreeRows
  BY Types, RowTypes, RowMoves DEF FreeRows, FreeMove

\* Sweeping the effects of some rewards is a free move.
LEMMA SweptEffects ==
  ASSUME PipelineInv, NEW S, UNCHANGED intent,
         effect' = [e \in Effects |-> IF e[1] \in S THEN Swept(effect[e]) ELSE effect[e]]
  PROVE  FreeRows
  BY Types, RowTypes, RowMoves DEF FreeRows, FreeMove

\* A run at rest relies on nothing.
LEMMA IdleOK == Idle \in Runs /\ \A rw, gr : RunOK(Idle, rw, gr)
<1>1. "none" \in Targets
  BY DEF Targets
<1>a. "idle" \in Pcs /\ "NONE" \in RewardStates
  BY DEF Pcs, RewardStates
<1>b. /\ {} \in SUBSET Targets /\ {} \in SUBSET Intents
      /\ {} \in SUBSET (Intents \X (1..MaxAttempts)) /\ {} \in SUBSET (Effects \X (1..MaxAttempts))
  OBVIOUS
<1>2. Idle \in Runs
  BY <1>1, <1>a, <1>b, Zenon DEF Idle, Runs
<1> QED
  BY <1>2 DEF Idle, RunOK, Making, TopLevel, Applying

\* A step to a place that relies on nothing new.
LEMMA GotoOK ==
  ASSUME NEW x \in Runs, NEW rw, NEW gr, NEW pc \in Pcs, RunOK(x, rw, gr),
         pc \in {"fApply", "fFinish", "fCancel", "fFail", "iMake"} => FALSE,
         pc \in {"idle", "iPrepare", "iSuspend", "iSweep", "iApplied", "iFail"} => x.ret = "idle"
  PROVE  [x EXCEPT !.pc = pc] \in Runs /\ RunOK([x EXCEPT !.pc = pc], rw, gr)
  BY DEF Runs, RunOK, Making, TopLevel, Applying

\* The end of reconcileCreatedRewardSideEffects.
LEMMA ReturnOK ==
  ASSUME NEW x \in Runs, NEW rw, NEW gr, RunOK(x, rw, gr), NEW y,
         y = [x EXCEPT !.pc = x.ret, !.ret = "idle", !.ready = "READY", !.r = "none", !.row = "NONE"]
  PROVE  y \in Runs /\ RunOK(y, rw, gr)
<1>1. "none" \in Targets
  BY DEF Targets
<1>a. x.ret \in Pcs /\ "idle" \in Pcs /\ "NONE" \in RewardStates
  BY DEF Runs, Pcs, RewardStates
<1>2. y \in Runs
  BY <1>1, <1>a, Zenon DEF Runs
<1>3. y.pc = x.ret /\ y.ret = "idle" /\ y.claims = x.claims /\ y.left = x.left
  BY DEF Runs
<1> QED
  BY <1>2, <1>3 DEF RunOK, Making, TopLevel, Applying

\* A reconciliation called from rest or from the list of applied intents.
LEMMA ReconcileOK ==
  ASSUME NEW x \in Runs, NEW rw, NEW gr, RunOK(x, rw, gr), NEW i \in Intents,
         NEW status \in RewardStates, NEW ret \in {"idle", "iApplied"}, NEW y,
         y = [x EXCEPT !.pc = "rPrepare", !.r = i, !.row = status, !.ret = ret]
  PROVE  y \in Runs /\ RunOK(y, rw, gr)
<1>1. i \in Targets
  BY DEF Targets
<1>a. "rPrepare" \in Pcs /\ ret \in Pcs
  BY DEF Pcs
<1>2. y \in Runs
  BY <1>1, <1>a, Zenon DEF Runs
<1>3. y.pc = "rPrepare" /\ y.ret = ret /\ y.claims = x.claims /\ y.left = x.left
  BY DEF Runs
<1> QED
  BY <1>2, <1>3 DEF RunOK, Making, TopLevel, Applying

Top == {"idle", "iPrepare", "iSuspend", "iSweep", "iApplied", "iFail"}
Resting == {"rPrepare", "rSuspend", "rSeed", "fSweep", "fNext", "fSuspend", "fClaim"}

\* A run that moves between places that rely on nothing new.
LEMMA MildRuns ==
  ASSUME PipelineInv, Data, NEW w \in Workers, NEW y \in Runs, Set(w, y),
         y.ret = run[w].ret, y.claims = run[w].claims, y.left = run[w].left,
         y.pc \in Resting \/ (y.pc \in Top /\ y.ret = "idle")
  PROVE  RunsOK'
<1>1. run[w] \in Runs /\ RunOK(run[w], reward', granted')
  BY RunGrows DEF PipelineInv, RunsOK
<1>2. RunOK(y, reward', granted')
  BY <1>1 DEF RunOK, Making, TopLevel, Applying, Top, Resting
<1> QED
  BY <1>2, SetRun

\* The same, for a run that only changes its place.
LEMMA GotoRuns ==
  ASSUME PipelineInv, Data, NEW w \in Workers, NEW pc, Goto(w, pc),
         pc \in Resting \/ (pc \in Top /\ run[w].ret = "idle")
  PROVE  RunsOK'
<1> DEFINE y == [run[w] EXCEPT !.pc = pc]
<1>1. run[w] \in Runs /\ pc \in Pcs
  BY DEF PipelineInv, RunsOK, Resting, Top, Pcs
<1>2. y \in Runs /\ y.ret = run[w].ret /\ y.claims = run[w].claims /\ y.left = run[w].left /\ y.pc = pc
  BY <1>1 DEF Runs
<1>3. Set(w, y)
  BY DEF Goto
<1> HIDE DEF y
<1> QED
  BY <1>2, <1>3, MildRuns

\* A run that ends or dies.
LEMMA IdleRuns == ASSUME PipelineInv, Data, NEW w \in Workers, Set(w, Idle) PROVE RunsOK'
  BY IdleOK, SetRun

\* A reconciliation that returns to its caller.
LEMMA ReturnRuns == ASSUME PipelineInv, Data, NEW w \in Workers, Return(w) PROVE RunsOK'
<1>1. run[w] \in Runs /\ RunOK(run[w], reward', granted')
  BY RunGrows DEF PipelineInv, RunsOK
<1>2. PICK y : Set(w, y) /\ y = [run[w] EXCEPT !.pc = run[w].ret, !.ret = "idle", !.ready = "READY",
                                              !.r = "none", !.row = "NONE"]
  BY DEF Return
<1>3. y \in Runs /\ RunOK(y, reward', granted')
  BY <1>1, <1>2, ReturnOK
<1> QED
  BY <1>2, <1>3, SetRun

\* A run at rest that starts a reconciliation.
LEMMA ReconcileRuns ==
  ASSUME PipelineInv, Data, NEW w \in Workers, NEW i \in Intents, NEW status \in RewardStates,
         Set(w, Reconcile(w, i, status, "idle"))
  PROVE  RunsOK'
<1>1. run[w] \in Runs /\ RunOK(run[w], reward', granted')
  BY RunGrows DEF PipelineInv, RunsOK
<1>2. PICK y : Set(w, y) /\ y = [run[w] EXCEPT !.pc = "rPrepare", !.r = i, !.row = status, !.ret = "idle"]
  BY DEF Reconcile
<1>3. y \in Runs /\ RunOK(y, reward', granted')
  BY <1>1, <1>2, ReconcileOK
<1> QED
  BY <1>2, <1>3, SetRun

\* The preflight answers one of three things.
LEMMA ReadinessType ==
  ASSUME marker' \in BOOLEAN PROVE Readiness \in {"READY", "DEFERRED", "BLOCKED"}
  BY DEF Readiness

\* At the top level nothing is to be returned to.
LEMMA AtTop ==
  ASSUME PipelineInv, NEW w \in Workers
  PROVE  /\ run[w] \in Runs /\ RunOK(run[w], reward, granted)
         /\ run[w].pc \in Top \cup {"iMake"} => run[w].ret = "idle"
  BY DEF PipelineInv, RunsOK, RunOK, TopLevel, Top

-----------------------------------------------------------------------------
(* Steps of runs *)

\* The scheduler's intent run sweeps and begins.
LEMMA StepStartIntents ==
  ASSUME PipelineInv, NEW w \in Workers, StartIntents(w)
  PROVE  PipelineInv' /\ Moves
<1>1. Data
  BY QuietData DEF StartIntents
<1>2. Frame
  BY QuietFrame DEF StartIntents
<1>3. FreeRows
  BY SweptIntents DEF StartIntents
<1>4. RunsOK'
  BY <1>1, AtTop, GotoRuns DEF StartIntents, Top
<1> QED
  BY <1>1, <1>2, <1>3, <1>4, FreeStep

\* A replayed event begins a run.
LEMMA StepStartReplay ==
  ASSUME PipelineInv, NEW w \in Workers, StartReplay(w)
  PROVE  PipelineInv' /\ Moves
<1>1. Data
  BY QuietData DEF StartReplay
<1>2. Frame
  BY QuietFrame DEF StartReplay
<1>3. FreeRows
  BY QuietRows DEF StartReplay
<1>4. RunsOK'
  BY <1>1, AtTop, GotoRuns DEF StartReplay, Top
<1> QED
  BY <1>1, <1>2, <1>3, <1>4, FreeStep

\* The preflight of PrepareIntents.
LEMMA StepPrepareIntents ==
  ASSUME PipelineInv, NEW w \in Workers, PrepareIntents(w)
  PROVE  PipelineInv' /\ Moves
<1>1. Data
  BY QuietData DEF PrepareIntents
<1>2. Frame
  BY RemediateRows DEF PrepareIntents, Frame, PipelineInv, PipelineTypeOK
<1>3. FreeRows
  BY RemediateRows DEF PrepareIntents
<1>4. RunsOK'
  <2>1. PICK y : /\ Set(w, y)
                 /\ y = [run[w] EXCEPT !.ready = Readiness,
                                       !.pc = IF Readiness = "READY" THEN "iSweep" ELSE "iSuspend"]
    BY DEF PrepareIntents
  <2>2. Readiness \in {"READY", "DEFERRED", "BLOCKED"}
    BY RemediateRows, ReadinessType DEF PrepareIntents
  <2>3. /\ y \in Runs /\ y.ret = run[w].ret /\ y.claims = run[w].claims /\ y.left = run[w].left
        /\ y.pc \in {"iSweep", "iSuspend"}
    <3>1. run[w] \in Runs /\ (IF Readiness = "READY" THEN "iSweep" ELSE "iSuspend") \in Pcs
      BY AtTop DEF Pcs
    <3>2. y \in Runs
      BY <2>1, <2>2, <3>1, Zenon DEF Runs
    <3> QED
      BY <2>1, <3>1, <3>2 DEF Runs
  <2>4. run[w].pc = "iPrepare" => run[w].ret = "idle"
    BY AtTop DEF Top
  <2> QED
    BY <1>1, <2>1, <2>3, <2>4, MildRuns DEF Resting, Top, PrepareIntents
<1> QED
  BY <1>1, <1>2, <1>3, <1>4, FreeStep

\* The preflight of PrepareReconcile.
LEMMA StepPrepareReconcile ==
  ASSUME PipelineInv, NEW w \in Workers, PrepareReconcile(w)
  PROVE  PipelineInv' /\ Moves
<1>1. Data
  BY QuietData DEF PrepareReconcile
<1>2. Frame
  BY RemediateRows DEF PrepareReconcile, Frame, PipelineInv, PipelineTypeOK
<1>3. FreeRows
  BY RemediateRows DEF PrepareReconcile
<1>4. RunsOK'
  <2>1. PICK y : /\ Set(w, y)
                 /\ y = [run[w] EXCEPT !.ready = Readiness,
                                       !.pc = IF Readiness = "READY" THEN "rSeed" ELSE "rSuspend"]
    BY DEF PrepareReconcile
  <2>2. Readiness \in {"READY", "DEFERRED", "BLOCKED"}
    BY RemediateRows, ReadinessType DEF PrepareReconcile
  <2>3. /\ y \in Runs /\ y.ret = run[w].ret /\ y.claims = run[w].claims /\ y.left = run[w].left
        /\ y.pc \in {"rSeed", "rSuspend"}
    <3>1. run[w] \in Runs /\ (IF Readiness = "READY" THEN "rSeed" ELSE "rSuspend") \in Pcs
      BY AtTop DEF Pcs
    <3>2. y \in Runs
      BY <2>1, <2>2, <3>1, Zenon DEF Runs
    <3> QED
      BY <2>1, <3>1, <3>2 DEF Runs
  <2>4. run[w].pc = "iPrepare" => run[w].ret = "idle"
    BY AtTop DEF Top
  <2> QED
    BY <1>1, <2>1, <2>3, <2>4, MildRuns DEF Resting, Top, PrepareReconcile
<1> QED
  BY <1>1, <1>2, <1>3, <1>4, FreeStep

\* Suspended intents.
LEMMA StepSuspendIntents ==
  ASSUME PipelineInv, NEW w \in Workers, SuspendIntents(w)
  PROVE  PipelineInv' /\ Moves
<1>1. Data
  BY QuietData DEF SuspendIntents
<1>2. Frame
  BY QuietFrame DEF SuspendIntents
<1>3. FreeRows
  BY Types, RowTypes, RowMoves DEF SuspendIntents, FreeRows, FreeMove
<1>4. RunsOK'
  BY <1>1, IdleRuns DEF SuspendIntents
<1> QED
  BY <1>1, <1>2, <1>3, <1>4, FreeStep

\* The second sweep lists the applied intents.
LEMMA StepSweepAndList ==
  ASSUME PipelineInv, NEW w \in Workers, SweepAndList(w)
  PROVE  PipelineInv' /\ Moves
<1>1. Data
  BY QuietData DEF SweepAndList
<1>2. Frame
  BY QuietFrame DEF SweepAndList
<1>3. FreeRows
  BY SweptIntents DEF SweepAndList
<1>4. RunsOK'
  <2>1. PICK y : /\ Set(w, y)
                 /\ y = [run[w] EXCEPT !.pc = "iApplied",
                                       !.left = {i \in Intents : intent[i].status = "APPLIED"}]
    BY DEF SweepAndList
  <2>2. y \in Runs /\ y.ret = "idle" /\ y.pc = "iApplied"
    <3>1. run[w] \in Runs /\ run[w].ret = "idle" /\ "iApplied" \in Pcs
      BY AtTop DEF SweepAndList, Top, Pcs
    <3>2. {i \in Intents : intent[i].status = "APPLIED"} \in SUBSET Intents
      OBVIOUS
    <3>3. y \in Runs
      BY <2>1, <3>1, <3>2, Zenon DEF Runs
    <3> QED
      BY <2>1, <3>1, <3>3 DEF Runs
  <2>3. RunOK(y, reward', granted')
    BY <2>2 DEF RunOK, Making, TopLevel, Applying
  <2> QED
    BY <1>1, <2>1, <2>2, <2>3, SetRun
<1> QED
  BY <1>1, <1>2, <1>3, <1>4, FreeStep

\* An applied intent's reward is reconciled.
LEMMA StepReconcileApplied ==
  ASSUME PipelineInv, NEW w \in Workers, ReconcileApplied(w)
  PROVE  PipelineInv' /\ Moves
<1>1. Data
  BY QuietData DEF ReconcileApplied
<1>2. Frame
  BY QuietFrame DEF ReconcileApplied
<1>3. FreeRows
  BY QuietRows DEF ReconcileApplied
<1>4. RunsOK'
  <2>1. PICK i \in run[w].left :
               Set(w, [Reconcile(w, i, reward[i].status, "iApplied") EXCEPT !.left = @ \ {i}])
    BY DEF ReconcileApplied
  <2>2. PICK y : /\ Set(w, y)
                 /\ y = [run[w] EXCEPT !.pc = "rPrepare", !.r = i, !.row = reward[i].status,
                                       !.ret = "iApplied", !.left = run[w].left \ {i}]
    BY <2>1, AtTop DEF Reconcile, Runs
  <2>3. i \in Intents /\ reward[i].status \in RewardStates /\ i \in Targets
    BY AtTop, Types DEF Runs, Rewarded, Targets
  <2>4. run[w].left \ {i} \in SUBSET Intents
    BY AtTop DEF Runs
  <2>5. y \in Runs /\ y.ret = "iApplied" /\ y.pc = "rPrepare"
    <3>1. run[w] \in Runs /\ "rPrepare" \in Pcs /\ "iApplied" \in Pcs
      BY AtTop DEF Pcs
    <3>2. y \in Runs
      BY <2>2, <2>3, <2>4, <3>1, Zenon DEF Runs
    <3> QED
      BY <2>2, <3>1, <3>2 DEF Runs
  <2>6. RunOK(y, reward', granted')
    BY <2>5 DEF RunOK, Making, TopLevel, Applying
  <2> QED
    BY <1>1, <2>2, <2>5, <2>6, SetRun
<1> QED
  BY <1>1, <1>2, <1>3, <1>4, FreeStep

\* A round of createProcessRewards throws.
LEMMA StepMakeFails ==
  ASSUME PipelineInv, NEW w \in Workers, MakeFails(w)
  PROVE  PipelineInv' /\ Moves
<1>1. Data
  BY QuietData DEF MakeFails
<1>2. Frame
  BY QuietFrame DEF MakeFails
<1>3. FreeRows
  BY QuietRows DEF MakeFails
<1>4. RunsOK'
  BY <1>1, AtTop, GotoRuns DEF MakeFails, Top
<1> QED
  BY <1>1, <1>2, <1>3, <1>4, FreeStep

\* A suspended reconciliation returns.
LEMMA StepSuspendReconcile ==
  ASSUME PipelineInv, NEW w \in Workers, SuspendReconcile(w)
  PROVE  PipelineInv' /\ Moves
<1>1. Data
  BY QuietData DEF SuspendReconcile
<1>2. Frame
  BY QuietFrame DEF SuspendReconcile
<1>3. FreeRows
  BY SuspendedEffects DEF SuspendReconcile
<1>4. RunsOK'
  BY <1>1, ReturnRuns DEF SuspendReconcile
<1> QED
  BY <1>1, <1>2, <1>3, <1>4, FreeStep

\* Missing effects are added.
LEMMA StepSeedEffects ==
  ASSUME PipelineInv, NEW w \in Workers, SeedEffects(w)
  PROVE  PipelineInv' /\ Moves
<1>1. Data
  BY QuietData DEF SeedEffects
<1>2. Frame
  BY QuietFrame DEF SeedEffects
<1>3. FreeRows
  BY QuietRows, SeededRows DEF SeedEffects
<1>4. RunsOK'
  <2>1. CASE marker
    BY <1>1, <2>1, ReturnRuns DEF SeedEffects
  <2>2. CASE ~marker
    <3>1. PICK y : Set(w, y) /\ y = [run[w] EXCEPT !.pc = "fSweep", !.todo = {run[w].r}]
      BY <2>2 DEF SeedEffects
    <3>2. /\ y \in Runs /\ y.ret = run[w].ret /\ y.claims = run[w].claims /\ y.left = run[w].left
          /\ y.pc = "fSweep"
      <4>1. run[w] \in Runs /\ "fSweep" \in Pcs /\ {run[w].r} \in SUBSET Targets
        BY AtTop DEF Pcs, Runs
      <4>2. y \in Runs
        BY <3>1, <4>1, Zenon DEF Runs
      <4> QED
        BY <3>1, <4>1, <4>2 DEF Runs
    <3> QED
      BY <1>1, <3>1, <3>2, MildRuns DEF Resting
  <2> QED
    BY <2>1, <2>2
<1> QED
  BY <1>1, <1>2, <1>3, <1>4, FreeStep

\* The scheduler's effect run begins.
LEMMA StepStartEffects ==
  ASSUME PipelineInv, NEW w \in Workers, StartEffects(w)
  PROVE  PipelineInv' /\ Moves
<1>1. Data
  BY QuietData DEF StartEffects
<1>2. Frame
  BY QuietFrame DEF StartEffects
<1>3. FreeRows
  BY Types, RowTypes, RowMoves DEF StartEffects, FreeRows, FreeMove
<1>4. RunsOK'
  <2>1. PICK T \in SUBSET Intents : Set(w, [Idle EXCEPT !.pc = "fNext", !.todo = T])
    BY DEF StartEffects
  <2>2. PICK y : Set(w, y) /\ y = [Idle EXCEPT !.pc = "fNext", !.todo = T]
    BY <2>1
  <2>3. T \in SUBSET Targets
    BY DEF Targets
  <2>4. y \in Runs /\ y.pc = "fNext" /\ y.ret = Idle.ret
    BY <2>2, <2>3, IdleOK DEF Runs, Pcs
  <2>5. RunOK(y, reward', granted')
    BY <2>4 DEF RunOK, Making, TopLevel, Applying, Idle
  <2> QED
    BY <1>1, <2>2, <2>4, <2>5, SetRun
<1> QED
  BY <1>1, <1>2, <1>3, <1>4, FreeStep

\* The effects of the rewards in hand are swept.
LEMMA StepSweepEffects ==
  ASSUME PipelineInv, NEW w \in Workers, SweepEffects(w)
  PROVE  PipelineInv' /\ Moves
<1>1. Data
  BY QuietData DEF SweepEffects
<1>2. Frame
  BY QuietFrame DEF SweepEffects
<1>3. FreeRows
  BY SweptEffects DEF SweepEffects
<1>4. RunsOK'
  BY <1>1, GotoRuns DEF SweepEffects, Resting
<1> QED
  BY <1>1, <1>2, <1>3, <1>4, FreeStep

\* The preflight of one reward.
LEMMA StepPrepareEffects ==
  ASSUME PipelineInv, NEW w \in Workers, PrepareEffects(w)
  PROVE  PipelineInv' /\ Moves
<1>1. Data
  BY QuietData DEF PrepareEffects
<1>2. Frame
  BY RemediateRows DEF PrepareEffects, Frame, PipelineInv, PipelineTypeOK
<1>3. FreeRows
  BY RemediateRows DEF PrepareEffects
<1>4. RunsOK'
  <2>1. PICK i \in run[w].todo :
               Set(w, [run[w] EXCEPT !.ready = Readiness, !.r = i, !.todo = @ \ {i},
                                     !.pc = IF Readiness = "READY" THEN "fClaim" ELSE "fSuspend"])
    BY DEF PrepareEffects
  <2>2. PICK y : /\ Set(w, y)
                 /\ y = [run[w] EXCEPT !.ready = Readiness, !.r = i, !.todo = run[w].todo \ {i},
                                       !.pc = IF Readiness = "READY" THEN "fClaim" ELSE "fSuspend"]
    BY <2>1
  <2>3. Readiness \in {"READY", "DEFERRED", "BLOCKED"}
    BY RemediateRows, ReadinessType DEF PrepareEffects
  <2>4. i \in Targets /\ run[w].todo \ {i} \in SUBSET Targets
    BY AtTop DEF Runs
  <2>5. /\ y \in Runs /\ y.ret = run[w].ret /\ y.claims = run[w].claims /\ y.left = run[w].left
        /\ y.pc \in {"fClaim", "fSuspend"}
    <3>1. run[w] \in Runs /\ (IF Readiness = "READY" THEN "fClaim" ELSE "fSuspend") \in Pcs
      BY AtTop DEF Pcs
    <3>2. y \in Runs
      BY <2>2, <2>3, <2>4, <3>1, Zenon DEF Runs
    <3> QED
      BY <2>2, <3>1, <3>2 DEF Runs
  <2> QED
    BY <1>1, <2>2, <2>5, MildRuns DEF Resting
<1> QED
  BY <1>1, <1>2, <1>3, <1>4, FreeStep

\* The effects of one reward are suspended.
LEMMA StepSuspendEffects ==
  ASSUME PipelineInv, NEW w \in Workers, SuspendEffects(w)
  PROVE  PipelineInv' /\ Moves
<1>1. Data
  BY QuietData DEF SuspendEffects
<1>2. Frame
  BY QuietFrame DEF SuspendEffects
<1>3. FreeRows
  BY SuspendedEffects DEF SuspendEffects
<1>4. RunsOK'
  <2>1. PICK y : Set(w, y) /\ y = [run[w] EXCEPT !.pc = "fNext", !.ready = "READY"]
    BY DEF SuspendEffects
  <2>2. /\ y \in Runs /\ y.ret = run[w].ret /\ y.claims = run[w].claims /\ y.left = run[w].left
        /\ y.pc = "fNext"
    <3>1. run[w] \in Runs /\ "fNext" \in Pcs
      BY AtTop DEF Pcs
    <3>2. y \in Runs
      BY <2>1, <3>1, Zenon DEF Runs
    <3> QED
      BY <2>1, <3>1, <3>2 DEF Runs
  <2> QED
    BY <1>1, <2>1, <2>2, MildRuns DEF Resting
<1> QED
  BY <1>1, <1>2, <1>3, <1>4, FreeStep

\* The end of an effect run.
LEMMA StepFinishRun ==
  ASSUME PipelineInv, NEW w \in Workers, FinishRun(w)
  PROVE  PipelineInv' /\ Moves
<1>1. Data
  BY QuietData DEF FinishRun
<1>2. Frame
  BY QuietFrame DEF FinishRun
<1>3. FreeRows
  BY QuietRows DEF FinishRun
<1>4. RunsOK'
  BY <1>1, ReturnRuns DEF FinishRun
<1> QED
  BY <1>1, <1>2, <1>3, <1>4, FreeStep

\* A loot-box reward is reconciled once more.
LEMMA StepRecoverCase ==
  ASSUME PipelineInv, NEW w \in Workers, NEW i \in Intents, RecoverCase(w, i)
  PROVE  PipelineInv' /\ Moves
<1>1. Data
  BY QuietData DEF RecoverCase
<1>2. Frame
  BY QuietFrame DEF RecoverCase
<1>3. FreeRows
  BY QuietRows DEF RecoverCase
<1>4. RunsOK'
  <2>1. reward[i].status \in RewardStates
    BY Types DEF Rewarded
  <2> QED
    BY <1>1, <2>1, ReconcileRuns DEF RecoverCase
<1> QED
  BY <1>1, <1>2, <1>3, <1>4, FreeStep

\* A process dies.
LEMMA StepCrash ==
  ASSUME PipelineInv, NEW w \in Workers, Crash(w)
  PROVE  PipelineInv' /\ Moves
<1>1. Data
  BY QuietData DEF Crash
<1>2. Frame
  BY PipelineAssumption DEF Crash, Frame, PipelineInv, PipelineTypeOK, event
<1>3. FreeRows
  BY QuietRows DEF Crash
<1>4. RunsOK'
  BY <1>1, IdleRuns DEF Crash
<1> QED
  BY <1>1, <1>2, <1>3, <1>4, FreeStep

\* A step by the holder of a lease, or the end of a lease's time.
LEMMA HeldStep ==
  ASSUME PipelineInv, Data, Frame, RunsOK', Moves,
         intent' \in [Intents -> Rows], effect' \in [Effects -> Rows],
         \A i \in Intents :
           intent'[i].status = "APPLIED" => intent[i].status = "APPLIED" \/ reward[i].status # "NONE",
         \A i \in Intents :
           effect'[<<i, "deliver">>].status = "APPLIED" =>
             effect[<<i, "deliver">>].status = "APPLIED" \/ granted[i] > 0
  PROVE  PipelineInv'
<1>1. PipelineTypeOK'
  BY DEF Data, Frame, RunsOK, PipelineTypeOK, Runs, Rewarded, RewardStates
<1>2. ResultBehindApplied'
  <2> SUFFICES ASSUME NEW i \in Intents
               PROVE  /\ intent'[i].status = "APPLIED" => reward'[i].status # "NONE"
                      /\ effect'[<<i, "deliver">>].status = "APPLIED" => granted'[i] > 0
                      /\ granted'[i] <= 1
    BY DEF ResultBehindApplied
  <2>1. granted[i] \in Nat /\ granted'[i] \in Nat /\ granted'[i] >= granted[i] /\ granted'[i] <= 1
    BY Grows
  <2>2. reward[i].status # "NONE" => reward'[i].status # "NONE"
    BY DEF Data
  <2>3. /\ intent[i].status = "APPLIED" => reward[i].status # "NONE"
        /\ effect[<<i, "deliver">>].status = "APPLIED" => granted[i] > 0
    BY DEF PipelineInv, ResultBehindApplied
  <2> QED
    BY <2>1, <2>2, <2>3
<1> QED
  BY <1>1, <1>2 DEF PipelineInv, Data

\* The claims of a run are leases of intents.
LEMMA ClaimParts ==
  ASSUME PipelineInv, NEW w \in Workers, NEW c \in run[w].claims
  PROVE  c[1] \in Intents /\ c[2] \in 1..MaxAttempts /\ HeldBy(w, c[1], c[2])
  BY AtTop DEF Runs, HeldBy

\* One claim of a batch leaves the run.
LEMMA DropClaim ==
  ASSUME PipelineInv, Data, NEW w \in Workers, NEW c \in run[w].claims, NEW L \in SUBSET Intents,
         run[w].pc \in {"iMake", "iFail"}, run[w].left \ {c[1]} \subseteq L,
         \/ Set(w, Idle)
         \/ Set(w, [run[w] EXCEPT !.claims = run[w].claims \ {c}, !.left = L])
  PROVE  RunsOK' /\ run'[w] # run[w]
<1>1. CASE Set(w, Idle)
  <2>1. run'[w] = Idle
    BY <1>1 DEF Set, PipelineInv, RunsOK
  <2> QED
    BY <1>1, <2>1, IdleRuns DEF Idle
<1>2. CASE Set(w, [run[w] EXCEPT !.claims = run[w].claims \ {c}, !.left = L])
  <2>1. PICK y : Set(w, y) /\ y = [run[w] EXCEPT !.claims = run[w].claims \ {c}, !.left = L]
    BY <1>2
  <2>2. y \in Runs /\ y.claims = run[w].claims \ {c} /\ y.pc = run[w].pc /\ y.ret = run[w].ret
        /\ y.left = L
    <3>1. run[w] \in Runs /\ run[w].claims \ {c} \in SUBSET (Intents \X (1..MaxAttempts))
      BY AtTop DEF Runs
    <3>2. y \in Runs
      BY <2>1, <3>1, Zenon DEF Runs
    <3> QED
      BY <2>1, <3>1, <3>2 DEF Runs
  <2>3. RunOK(y, reward, granted)
    BY <2>2, AtTop DEF RunOK, Making, TopLevel, Applying
  <2>4. RunsOK'
    BY <2>1, <2>2, <2>3, RunGrows, SetRun
  <2>5. run'[w] = y
    BY <2>1 DEF Set, PipelineInv, RunsOK
  <2> QED
    BY <2>2, <2>4, <2>5
<1> QED
  BY <1>1, <1>2

\* An intent with a bad plan is given up.
LEMMA StepDropBadPlan ==
  ASSUME PipelineInv, NEW w \in Workers, DropBadPlan(w)
  PROVE  PipelineInv' /\ Moves
<1>1. Data /\ Frame
  BY QuietData, QuietFrame DEF DropBadPlan
<1>2. PICK c \in run[w].claims :
         /\ intent' = [intent EXCEPT ![c[1]] = Finalized(@, c[2], "DEAD_LETTER")]
         /\ \/ Set(w, Idle)
            \/ Set(w, [run[w] EXCEPT !.claims = run[w].claims \ {c}, !.left = run[w].left \ {c[1]}])
  BY AtTop DEF DropBadPlan, Runs
<1>3. c[1] \in Intents /\ c[2] \in 1..MaxAttempts /\ HeldBy(w, c[1], c[2])
  BY ClaimParts
<1>4. run[w].left \in SUBSET Intents /\ run[w].left \ {c[1]} \in SUBSET Intents
  BY AtTop DEF Runs
<1>5. RunsOK' /\ run'[w] # run[w]
  BY <1>1, <1>2, <1>4, DropClaim DEF DropBadPlan
<1>6. /\ intent' \in [Intents -> Rows] /\ UNCHANGED effect
      /\ \A i \in Intents : i # c[1] => intent'[i] = intent[i]
      /\ intent'[c[1]] = Finalized(intent[c[1]], c[2], "DEAD_LETTER")
  BY <1>2, <1>3, Types, RowTypes DEF DropBadPlan, Statuses
<1>7. Moves
  <2>1. HeldMove(intent[c[1]], intent'[c[1]], c[2])
    BY <1>3, <1>6, Types, RowMoves
  <2> QED
    BY <1>3, <1>5, <1>6, <2>1 DEF Moves, RowMove, ByHolder, FreeMove
<1>8. \A i \in Intents :
        intent'[i].status = "APPLIED" => intent[i].status = "APPLIED" \/ reward[i].status # "NONE"
  BY <1>3, <1>6, Types, RowMoves
<1> QED
  BY <1>1, <1>5, <1>6, <1>7, <1>8, Types, HeldStep

\* A claim is finished: its reward was made or found.
LEMMA StepFinishIntent ==
  ASSUME PipelineInv, NEW w \in Workers, FinishIntent(w)
  PROVE  PipelineInv' /\ Moves
<1>1. Data /\ Frame
  BY QuietData, QuietFrame DEF FinishIntent
<1>2. PICK c \in run[w].claims :
         /\ intent' = [intent EXCEPT ![c[1]] = Finalized(@, c[2], "APPLIED")]
         /\ \/ Set(w, Idle)
            \/ Set(w, [run[w] EXCEPT !.claims = run[w].claims \ {c}, !.left = run[w].left])
  <2>1. run[w] = [run[w] EXCEPT !.left = run[w].left]
    BY AtTop DEF Runs
  <2>2. \A S : [run[w] EXCEPT !.claims = S, !.left = run[w].left] = [run[w] EXCEPT !.claims = S]
    BY AtTop DEF Runs
  <2> QED
    BY <2>2 DEF FinishIntent
<1>3. c[1] \in Intents /\ c[2] \in 1..MaxAttempts /\ HeldBy(w, c[1], c[2])
  BY ClaimParts
<1>4. run[w].left \in SUBSET Intents /\ run[w].left \in SUBSET Intents
  BY AtTop DEF Runs
<1>5. RunsOK' /\ run'[w] # run[w]
  BY <1>1, <1>2, <1>4, DropClaim DEF FinishIntent
<1>6. /\ intent' \in [Intents -> Rows] /\ UNCHANGED effect
      /\ \A i \in Intents : i # c[1] => intent'[i] = intent[i]
      /\ intent'[c[1]] = Finalized(intent[c[1]], c[2], "APPLIED")
  BY <1>2, <1>3, Types, RowTypes DEF FinishIntent, Statuses
<1>7. Moves
  <2>1. HeldMove(intent[c[1]], intent'[c[1]], c[2])
    BY <1>3, <1>6, Types, RowMoves
  <2> QED
    BY <1>3, <1>5, <1>6, <2>1 DEF Moves, RowMove, ByHolder, FreeMove
<1>8. \A i \in Intents :
        intent'[i].status = "APPLIED" => intent[i].status = "APPLIED" \/ reward[i].status # "NONE"
  <2>1. reward[c[1]].status # "NONE"
    BY AtTop DEF FinishIntent, RunOK, Making
  <2> QED
    BY <1>6, <2>1
<1> QED
  BY <1>1, <1>5, <1>6, <1>7, <1>8, Types, HeldStep

\* A claim of a failed batch fails.
LEMMA StepFailIntent ==
  ASSUME PipelineInv, NEW w \in Workers, FailIntent(w)
  PROVE  PipelineInv' /\ Moves
<1>1. Data /\ Frame
  BY QuietData, QuietFrame DEF FailIntent
<1>2. PICK c \in run[w].claims :
         /\ intent' = [intent EXCEPT ![c[1]] = Failed(@, c[2])]
         /\ \/ Set(w, Idle)
            \/ Set(w, [run[w] EXCEPT !.claims = run[w].claims \ {c}, !.left = run[w].left])
  <2>2. \A S : [run[w] EXCEPT !.claims = S, !.left = run[w].left] = [run[w] EXCEPT !.claims = S]
    BY AtTop DEF Runs
  <2> QED
    BY <2>2 DEF FailIntent
<1>3. c[1] \in Intents /\ c[2] \in 1..MaxAttempts /\ HeldBy(w, c[1], c[2])
  BY ClaimParts
<1>4. run[w].left \in SUBSET Intents /\ run[w].left \in SUBSET Intents
  BY AtTop DEF Runs
<1>5. RunsOK' /\ run'[w] # run[w]
  BY <1>1, <1>2, <1>4, DropClaim DEF FailIntent
<1>6. /\ intent' \in [Intents -> Rows] /\ UNCHANGED effect
      /\ \A i \in Intents : i # c[1] => intent'[i] = intent[i]
      /\ intent'[c[1]] = Failed(intent[c[1]], c[2])
  BY <1>2, <1>3, Types, RowTypes DEF FailIntent, Statuses
<1>7. Moves
  <2>1. HeldMove(intent[c[1]], intent'[c[1]], c[2])
    BY <1>3, <1>6, Types, RowMoves
  <2> QED
    BY <1>3, <1>5, <1>6, <2>1 DEF Moves, RowMove, ByHolder, FreeMove
<1>8. \A i \in Intents :
        intent'[i].status = "APPLIED" => intent[i].status = "APPLIED" \/ reward[i].status # "NONE"
  BY <1>3, <1>6, Types, RowMoves
<1> QED
  BY <1>1, <1>5, <1>6, <1>7, <1>8, Types, HeldStep

\* Open intents are leased to the run.
LEMMA StepClaimIntents ==
  ASSUME PipelineInv, NEW w \in Workers, ClaimIntents(w)
  PROVE  PipelineInv' /\ Moves
<1>1. Data
  BY QuietData DEF ClaimIntents
<1>2. Frame
  BY QuietFrame DEF ClaimIntents
<1>3. FreeRows
  BY Types, RowTypes, RowMoves DEF ClaimIntents, FreeRows, FreeMove
<1>4. RunsOK'
  <2> DEFINE got == IF marker THEN {} ELSE {i \in Intents : Claimable(intent[i])}
             C == {<<i, intent[i].attempts + 1>> : i \in got}
  <2>1. \/ Set(w, Idle)
        \/ Set(w, [Idle EXCEPT !.pc = "iMake", !.left = got, !.claims = C])
    BY DEF ClaimIntents
  <2>2. got \in SUBSET Intents /\ C \in SUBSET (Intents \X (1..MaxAttempts))
    BY Types, RowTypes
  <2>3. \A c, d \in C : c[1] \in got /\ (c[1] = d[1] => c = d)
    OBVIOUS
  <2> HIDE DEF got, C
  <2>4. CASE Set(w, Idle)
    BY <1>1, <2>4, IdleRuns
  <2>5. CASE Set(w, [Idle EXCEPT !.pc = "iMake", !.left = got, !.claims = C])
    <3>1. PICK y : Set(w, y) /\ y = [Idle EXCEPT !.pc = "iMake", !.left = got, !.claims = C]
      BY <2>5
    <3>2. y \in Runs
      <4>1. "iMake" \in Pcs /\ Idle \in Runs
        BY IdleOK DEF Pcs
      <4> QED
        BY <2>2, <3>1, <4>1, Zenon DEF Runs
    <3>3. y.pc = "iMake" /\ y.left = got /\ y.claims = C /\ y.ret = "idle"
      BY <3>1 DEF Idle
    <3>4. RunOK(y, reward', granted')
      BY <2>3, <3>3 DEF RunOK, Making, TopLevel, Applying
    <3> QED
      BY <1>1, <3>1, <3>2, <3>4, SetRun
  <2> QED
    BY <2>1, <2>4, <2>5
<1> QED
  BY <1>1, <1>2, <1>3, <1>4, FreeStep

\* Open effects are leased to the run.
LEMMA StepClaimEffects ==
  ASSUME PipelineInv, NEW w \in Workers, ClaimEffects(w)
  PROVE  PipelineInv' /\ Moves
<1>1. Data
  BY QuietData DEF ClaimEffects
<1>2. Frame
  BY QuietFrame DEF ClaimEffects
<1>3. FreeRows
  BY Types, RowTypes, RowMoves DEF ClaimEffects, FreeRows, FreeMove
<1>4. RunsOK'
  <2> DEFINE got == IF marker THEN {} ELSE {e \in Effects : e[1] = run[w].r /\ Claimable(effect[e])}
             F == run[w].fx \cup {<<e, effect[e].attempts + 1>> : e \in got}
  <2>1. Set(w, [run[w] EXCEPT !.pc = "fNext", !.fx = F])
    BY DEF ClaimEffects
  <2>2. F \in SUBSET (Effects \X (1..MaxAttempts))
    BY Types, RowTypes, AtTop DEF Runs
  <2> HIDE DEF F
  <2>3. PICK y : Set(w, y) /\ y = [run[w] EXCEPT !.pc = "fNext", !.fx = F]
    BY <2>1
  <2>4. run[w] \in Runs /\ "fNext" \in Pcs
    BY AtTop DEF Pcs
  <2>5. y \in Runs
    BY <2>2, <2>3, <2>4, Zenon DEF Runs
  <2>6. y.pc = "fNext" /\ y.ret = run[w].ret /\ y.claims = run[w].claims /\ y.left = run[w].left
    BY <2>3, <2>4 DEF Runs
  <2> QED
    BY <1>1, <2>3, <2>5, <2>6, MildRuns DEF Resting
<1> QED
  BY <1>1, <1>2, <1>3, <1>4, FreeStep

\* The reward of a claim is read.
LEMMA StepReadReward ==
  ASSUME PipelineInv, NEW w \in Workers, ReadReward(w)
  PROVE  PipelineInv' /\ Moves
<1>1. Data
  BY QuietData DEF ReadReward
<1>2. Frame
  BY QuietFrame DEF ReadReward
<1>3. FreeRows
  BY QuietRows DEF ReadReward
<1>4. RunsOK'
  <2>1. PICK c \in run[w].fx :
          Set(w, [run[w] EXCEPT !.r = c, !.row = reward[c[1][1]].status,
                    !.pc = IF StillApplies(c[1], reward[c[1][1]].status) THEN "fApply" ELSE "fCancel"])
    BY DEF ReadReward
  <2> DEFINE status == reward[c[1][1]].status
             pc == IF StillApplies(c[1], status) THEN "fApply" ELSE "fCancel"
  <2>2. PICK y : Set(w, y) /\ y = [run[w] EXCEPT !.r = c, !.row = status, !.pc = pc]
    BY <2>1
  <2>3. c \in Effects \X (1..MaxAttempts) /\ c[1][1] \in Intents /\ run[w] \in Runs
    BY AtTop DEF Runs, Effects
  <2>4. status \in RewardStates /\ pc \in Pcs /\ c \in Targets
    BY <2>3, Types DEF Rewarded, Pcs, Targets
  <2>5. pc = "fApply" /\ c[1][2] = "deliver" => status \in {"APPROVED", "PAID"}
    BY DEF StillApplies, Planned
  <2>6. pc \in {"fApply", "fCancel"}
    OBVIOUS
  <2> HIDE DEF status, pc
  <2>7. y \in Runs
    BY <2>2, <2>3, <2>4, Zenon DEF Runs
  <2>8. /\ y.pc = pc /\ y.r = c /\ y.row = status /\ y.ret = run[w].ret /\ y.claims = run[w].claims
        /\ y.left = run[w].left /\ y.fx = run[w].fx
    BY <2>2, <2>3 DEF Runs
  <2>9. RunOK(y, reward, granted)
    BY <2>5, <2>6, <2>8, AtTop DEF RunOK, Making, TopLevel, Applying
  <2> QED
    BY <1>1, <2>2, <2>7, <2>9, SetRun, RunGrows
<1> QED
  BY <1>1, <1>2, <1>3, <1>4, FreeStep

\* The application of an effect throws.
LEMMA StepApplyFails ==
  ASSUME PipelineInv, NEW w \in Workers, ApplyFails(w)
  PROVE  PipelineInv' /\ Moves
<1>1. Data
  BY QuietData DEF ApplyFails
<1>2. Frame
  BY QuietFrame DEF ApplyFails
<1>3. FreeRows
  BY QuietRows DEF ApplyFails
<1>4. RunsOK'
  <2>1. PICK y : Set(w, y) /\ y = [run[w] EXCEPT !.pc = "fFail"]
    BY DEF ApplyFails, Goto
  <2>2. run[w] \in Runs /\ "fFail" \in Pcs
    BY AtTop DEF Pcs
  <2>3. y \in Runs
    BY <2>1, <2>2, Zenon DEF Runs
  <2>4. /\ y.pc = "fFail" /\ y.r = run[w].r /\ y.ret = run[w].ret /\ y.claims = run[w].claims
        /\ y.left = run[w].left /\ y.fx = run[w].fx
    BY <2>1, <2>2 DEF Runs
  <2>5. RunOK(y, reward, granted)
    BY <2>4, AtTop DEF ApplyFails, RunOK, Making, TopLevel, Applying
  <2> QED
    BY <1>1, <2>1, <2>3, <2>5, SetRun, RunGrows
<1> QED
  BY <1>1, <1>2, <1>3, <1>4, FreeStep

\* A reward is made or found; its intent is no longer to be made.
LEMMA StepMakeReward ==
  ASSUME PipelineInv, NEW w \in Workers, MakeReward(w)
  PROVE  PipelineInv' /\ Moves
<1>1. PICK i \in run[w].left :
        \/ /\ reward[i].status = "NONE" /\ CreateReward(i)
           /\ Set(w, [Reconcile(w, i, NewReward(i).status, "iMake") EXCEPT !.left = @ \ {i}])
        \/ /\ reward[i].status # "NONE"
           /\ Set(w, [Reconcile(w, i, reward[i].status, "iMake") EXCEPT !.left = @ \ {i}])
           /\ UNCHANGED <<reward, effect>>
  BY DEF MakeReward
<1>2. run[w] \in Runs /\ i \in Intents /\ run[w].pc = "iMake"
  BY AtTop DEF Runs, MakeReward
<1>3. /\ NewReward(i) \in [status : RewardStates, requested : BOOLEAN]
      /\ NewReward(i).status # "NONE"
  BY DEF NewReward, NoReward, RewardStates
<1>4. UNCHANGED <<event, intent, granted, crashes, updates>>
  BY DEF MakeReward
<1>5. Data
  <2>1. CASE UNCHANGED reward
    BY <1>4, <2>1, QuietData
  <2>2. CASE reward[i].status = "NONE" /\ CreateReward(i)
    <3>1. /\ reward' \in Rewarded /\ reward'[i] = NewReward(i)
          /\ \A j \in Intents : j # i => reward'[j] = reward[j]
      BY <1>2, <1>3, <2>2, Types DEF CreateReward, Rewarded
    <3>2. granted' = granted /\ \A j \in Intents : granted'[j] >= granted[j] /\ granted'[j] <= 1
      BY <1>4, Types
    <3>3. CaseIsApproved'
      BY <2>2, <3>1, <3>2, PipelineAssumption DEF CaseIsApproved, PipelineInv
    <3> QED
      BY <1>3, <3>1, <3>2, <3>3, Types DEF Data
  <2> QED
    BY <1>1, <2>1, <2>2
<1>6. Frame
  BY <1>4, QuietFrame
<1>7. FreeRows
  BY <1>1, <1>4, QuietRows, SeededRows DEF CreateReward
<1>8. RunsOK'
  <2>1. PICK s \in RewardStates :
          Set(w, [Reconcile(w, i, s, "iMake") EXCEPT !.left = @ \ {i}])
    BY <1>1, <1>2, <1>3, Types DEF Rewarded
  <2>2. reward'[i].status # "NONE"
    BY <1>1, <1>2, <1>3, Types DEF CreateReward, Rewarded
  <2>3. PICK y : /\ Set(w, y)
                 /\ y = [run[w] EXCEPT !.pc = "rPrepare", !.r = i, !.row = s, !.ret = "iMake",
                                       !.left = run[w].left \ {i}]
    BY <1>2, <2>1 DEF Reconcile, Runs
  <2>4. "rPrepare" \in Pcs /\ "iMake" \in Pcs /\ i \in Targets /\ run[w].left \ {i} \in SUBSET Intents
    BY <1>2 DEF Pcs, Targets, Runs
  <2>5. y \in Runs
    BY <1>2, <2>3, <2>4, Zenon DEF Runs
  <2>6. /\ y.pc = "rPrepare" /\ y.ret = "iMake" /\ y.claims = run[w].claims
        /\ y.left = run[w].left \ {i}
    BY <1>2, <2>3 DEF Runs
  <2>7. Making(run[w], reward') /\ RunOK(run[w], reward, granted)
    BY <1>5, AtTop, RunGrows DEF RunOK
  <2>8. RunOK(y, reward', granted')
    BY <1>2, <2>2, <2>6, <2>7 DEF RunOK, Making, TopLevel, Applying
  <2> QED
    BY <1>5, <2>3, <2>5, <2>8, SetRun
<1> QED
  BY <1>5, <1>6, <1>7, <1>8, FreeStep

\* The claim an effect run has in hand.
LEMMA InHand ==
  ASSUME PipelineInv, NEW w \in Workers, run[w].pc \in {"fApply", "fFinish", "fCancel", "fFail"}
  PROVE  /\ run[w].r \in run[w].fx /\ run[w].r[1] \in Effects /\ run[w].r[2] \in 1..MaxAttempts
         /\ run[w].r[1][1] \in Intents /\ run[w].r = <<run[w].r[1], run[w].r[2]>>
         /\ HeldBy(w, run[w].r[1], run[w].r[2])
  BY AtTop DEF RunOK, Applying, Runs, HeldBy, Effects

\* The delivery is written, once, and the claim goes on to be finished.
LEMMA StepApplyEffect ==
  ASSUME PipelineInv, NEW w \in Workers, ApplyEffect(w)
  PROVE  PipelineInv' /\ Moves
<1> DEFINE e == run[w].r[1]
<1>1. /\ run[w].pc = "fApply" /\ Goto(w, "fFinish")
      /\ UNCHANGED <<event, intent, reward, effect, crashes, updates>>
      /\ \/ e[2] = "notify" /\ UNCHANGED granted
         \/ e[2] = "deliver" /\ e[1] \in Cases /\ GrantCase(e[1], run[w].row)
         \/ e[2] = "deliver" /\ e[1] \notin Cases /\ GrantBonus(e[1])
  BY DEF ApplyEffect
<1>2. e \in Effects /\ e[1] \in Intents
  BY <1>1, InHand
<1>3. e[2] = "deliver" /\ e[1] \in Cases => run[w].row \in {"APPROVED", "PAID"}
  BY <1>1, AtTop DEF RunOK, Applying
<1> HIDE DEF e
<1>4. /\ granted' \in [Intents -> Nat]
      /\ \A i \in Intents : granted'[i] >= granted[i] /\ granted'[i] <= 1
      /\ \A i \in Intents : i # e[1] => granted'[i] = granted[i]
      /\ e[2] = "deliver" => granted'[e[1]] > 0
  BY <1>1, <1>2, Types DEF GrantCase, GrantBonus
<1>5. CaseIsApproved'
  <2>1. e[1] \in Cases /\ e[2] = "deliver" => reward[e[1]].status \in {"APPROVED", "PAID"}
    BY <1>1, <1>3 DEF GrantCase
  <2>2. e[2] # "deliver" => granted' = granted
    BY <1>1
  <2> QED
    BY <1>1, <1>2, <1>4, <2>1, <2>2, PipelineAssumption DEF CaseIsApproved, PipelineInv
<1>6. Data
  BY <1>1, <1>4, <1>5, Types DEF Data
<1>7. Frame /\ FreeRows
  BY <1>1, QuietFrame, QuietRows
<1>8. RunsOK'
  <2>1. PICK y : Set(w, y) /\ y = [run[w] EXCEPT !.pc = "fFinish"]
    BY <1>1 DEF Goto
  <2>2. run[w] \in Runs /\ "fFinish" \in Pcs
    BY AtTop DEF Pcs
  <2>3. y \in Runs
    BY <2>1, <2>2, Zenon DEF Runs
  <2>4. /\ y.pc = "fFinish" /\ y.r = run[w].r /\ y.ret = run[w].ret /\ y.claims = run[w].claims
        /\ y.left = run[w].left /\ y.fx = run[w].fx
    BY <2>1, <2>2 DEF Runs
  <2>5. RunOK(run[w], reward', granted')
    BY <1>6, AtTop, RunGrows
  <2>6. RunOK(y, reward', granted')
    BY <1>1, <1>4, <2>4, <2>5 DEF RunOK, Making, TopLevel, Applying, e
  <2> QED
    BY <1>6, <2>1, <2>3, <2>6, SetRun
<1> QED
  BY <1>6, <1>7, <1>8, FreeStep

\* The fenced end of a claim.
LEMMA StepFinishEffect ==
  ASSUME PipelineInv, NEW w \in Workers, FinishEffect(w)
  PROVE  PipelineInv' /\ Moves
<1> DEFINE c == run[w].r
<1>1. Data /\ Frame
  BY QuietData, QuietFrame DEF FinishEffect
<1>2. /\ run[w].pc \in {"fFinish", "fCancel", "fFail"} /\ UNCHANGED <<intent, reward, granted>>
      /\ Set(w, [run[w] EXCEPT !.pc = "fNext", !.fx = @ \ {c}, !.r = "none", !.row = "NONE"])
      /\ effect' = [effect EXCEPT ![c[1]] =
                      CASE run[w].pc = "fFinish" -> Finalized(@, c[2], "APPLIED")
                        [] run[w].pc = "fCancel" -> Finalized(@, c[2], "CANCELED")
                        [] run[w].pc = "fFail"   -> Failed(@, c[2])]
  BY DEF FinishEffect
<1>3. c[1] \in Effects /\ c[2] \in 1..MaxAttempts /\ HeldBy(w, c[1], c[2]) /\ c[1][1] \in Intents
  BY <1>2, InHand
<1>4. run[w].pc = "fFinish" /\ c[1][2] = "deliver" => granted[c[1][1]] > 0
  BY AtTop DEF RunOK, Applying
<1>5. run[w] \in Runs
  BY AtTop
<1> HIDE DEF c
<1>6. /\ effect' \in [Effects -> Rows]
      /\ \A e \in Effects : e # c[1] => effect'[e] = effect[e]
      /\ HeldMove(effect[c[1]], effect'[c[1]], c[2])
      /\ effect'[c[1]].status = "APPLIED" =>
           effect[c[1]].status = "APPLIED" \/ run[w].pc = "fFinish"
  <2> DEFINE new == CASE run[w].pc = "fFinish" -> Finalized(effect[c[1]], c[2], "APPLIED")
                      [] run[w].pc = "fCancel" -> Finalized(effect[c[1]], c[2], "CANCELED")
                      [] run[w].pc = "fFail"   -> Failed(effect[c[1]], c[2])
  <2>1. /\ new \in Rows /\ HeldMove(effect[c[1]], new, c[2])
        /\ new.status = "APPLIED" => effect[c[1]].status = "APPLIED" \/ run[w].pc = "fFinish"
    BY <1>2, <1>3, Types, RowTypes, RowMoves DEF Statuses
  <2>2. effect' = [effect EXCEPT ![c[1]] = new]
    BY <1>2, <1>3, Types
  <2> QED
    BY <1>3, <2>1, <2>2, Types
<1>7. RunsOK' /\ run'[w] # run[w]
  <2>1. PICK y : /\ Set(w, y)
                 /\ y = [run[w] EXCEPT !.pc = "fNext", !.fx = run[w].fx \ {c}, !.r = "none",
                                       !.row = "NONE"]
    BY <1>2
  <2>2. /\ "fNext" \in Pcs /\ "none" \in Targets /\ "NONE" \in RewardStates
        /\ run[w].fx \ {c} \in SUBSET (Effects \X (1..MaxAttempts))
    BY <1>5 DEF Pcs, Targets, RewardStates, Runs
  <2>3. y \in Runs
    BY <1>5, <2>1, <2>2, Zenon DEF Runs
  <2>4. y.pc = "fNext" /\ y.ret = run[w].ret /\ y.claims = run[w].claims /\ y.left = run[w].left
    BY <1>5, <2>1 DEF Runs
  <2>5. RunsOK'
    BY <1>1, <2>1, <2>3, <2>4, MildRuns DEF Resting
  <2>6. run'[w] = y
    BY <2>1 DEF Set, PipelineInv, RunsOK
  <2> QED
    BY <1>2, <2>4, <2>5, <2>6
<1>8. Moves
  BY <1>2, <1>3, <1>6, <1>7 DEF Moves, RowMove, ByHolder, FreeMove
<1>9. \A i \in Intents :
        effect'[<<i, "deliver">>].status = "APPLIED" =>
          effect[<<i, "deliver">>].status = "APPLIED" \/ granted[i] > 0
  <2> SUFFICES ASSUME NEW i \in Intents, effect'[<<i, "deliver">>].status = "APPLIED"
               PROVE  effect[<<i, "deliver">>].status = "APPLIED" \/ granted[i] > 0
    OBVIOUS
  <2>1. <<i, "deliver">> \in Effects
    BY DEF Effects
  <2>2. CASE c[1] # <<i, "deliver">>
    BY <1>6, <2>1, <2>2
  <2>3. CASE c[1] = <<i, "deliver">>
    <3>1. c[1][1] = i /\ c[1][2] = "deliver"
      BY <2>3
    <3> QED
      BY <1>4, <1>6, <2>3, <3>1
  <2> QED
    BY <2>2, <2>3
<1> QED
  BY <1>1, <1>2, <1>6, <1>7, <1>8, <1>9, Types, HeldStep

-----------------------------------------------------------------------------
(* Steps of staff, guests, the ledger and the import *)

\* A reward whose status changes is a reward still; a loot box keeps the approval its
\* entitlement stands on.
LEMMA RewardChanges ==
  ASSUME PipelineInv, UNCHANGED granted, NEW i \in Intents, reward[i].status # "NONE",
         NEW new \in [status : RewardStates, requested : BOOLEAN], new.status # "NONE",
         reward' = [reward EXCEPT ![i] = new],
         i \in Cases => granted[i] = 0
  PROVE  Data
<1>1. /\ reward' \in Rewarded /\ reward'[i] = new
      /\ \A j \in Intents : j # i => reward'[j] = reward[j]
  BY Types DEF Rewarded
<1>2. granted' = granted /\ \A j \in Intents : granted'[j] >= granted[j] /\ granted'[j] <= 1
  BY Types
<1>3. CaseIsApproved'
  BY <1>1, <1>2, Types, PipelineAssumption DEF CaseIsApproved, PipelineInv
<1> QED
  BY <1>1, <1>2, <1>3, Types DEF Data

\* Staff change a reward that has no entitlement.
LEMMA StepStaffUpdate ==
  ASSUME PipelineInv, NEW w \in Workers, NEW i \in Intents,
         NEW s \in {"APPROVED", "PAID", "CANCELED"}, StaffUpdate(w, i, s)
  PROVE  PipelineInv' /\ Moves
<1>1. reward[i].status # "NONE" /\ s \in RewardStates /\ s # "NONE"
  BY DEF StaffUpdate, Rewards, RewardStates
<1>2. PICK new : new = [reward[i] EXCEPT !.status = s] /\ reward' = [reward EXCEPT ![i] = new]
  BY DEF StaffUpdate
<1>a. reward[i] \in [status : RewardStates, requested : BOOLEAN]
  BY Types DEF Rewarded
<1>b. new \in [status : RewardStates, requested : BOOLEAN] /\ new.status = s
  BY <1>1, <1>2, <1>a
<1>3. Data
  BY <1>1, <1>2, <1>b, RewardChanges DEF StaffUpdate
<1>4. Frame
  BY PipelineAssumption DEF StaffUpdate, Frame, PipelineInv, PipelineTypeOK, event
<1>5. FreeRows
  BY SeededRows DEF StaffUpdate
<1>6. RunsOK'
  BY <1>1, <1>3, ReconcileRuns DEF StaffUpdate
<1> QED
  BY <1>3, <1>4, <1>5, <1>6, FreeStep

\* The delivery effect of one reward moves and nothing else does.
LEMMA DeliveryMoves ==
  ASSUME PipelineInv, UNCHANGED intent, NEW i \in Intents, NEW new \in Rows,
         FreeMove(effect[<<i, "deliver">>], new),
         effect' = [effect EXCEPT ![<<i, "deliver">>] = new]
  PROVE  FreeRows
<1>1. <<i, "deliver">> \in Effects
  BY DEF Effects
<1> QED
  BY <1>1, Types DEF FreeRows, FreeMove

\* The guest accepts a bonus.
LEMMA StepGuestClaim ==
  ASSUME PipelineInv, NEW w \in Workers, NEW i \in Intents, GuestClaim(w, i)
  PROVE  PipelineInv' /\ Moves
<1> DEFINE old == effect[<<i, "deliver">>]
<1>1. PICK nr : nr = [reward[i] EXCEPT !.requested = TRUE] /\ reward' = [reward EXCEPT ![i] = nr]
  BY DEF GuestClaim
<1>a. reward[i] \in [status : RewardStates, requested : BOOLEAN] /\ TRUE \in BOOLEAN
  BY Types DEF Rewarded
<1>b. nr \in [status : RewardStates, requested : BOOLEAN]
  BY <1>1, <1>a, Zenon
<1>c. nr.status = reward[i].status
  BY <1>1, <1>a
<1>2. Data
  BY <1>1, <1>b, <1>c, RewardChanges DEF GuestClaim
<1>3. Frame
  BY QuietFrame DEF GuestClaim
<1>4. old \in Rows
  BY Types DEF Effects
<1>5. PICK new : /\ new = IF old.status = "WAITING_CLAIM" THEN [old EXCEPT !.status = "PENDING"] ELSE old
                 /\ effect' = [effect EXCEPT ![<<i, "deliver">>] = new]
  BY DEF GuestClaim
<1>6. new \in Rows /\ FreeMove(old, new)
  BY <1>4, <1>5 DEF Rows, Statuses, FreeMove, Leased, Settled
<1>7. FreeRows
  BY <1>5, <1>6, DeliveryMoves DEF GuestClaim
<1>8. RunsOK'
  <2>1. PICK y : Set(w, y) /\ y = [Idle EXCEPT !.pc = "fSweep", !.todo = {i}]
    BY DEF GuestClaim
  <2>2. "fSweep" \in Pcs /\ {i} \in SUBSET Targets /\ Idle \in Runs
    BY IdleOK DEF Pcs, Targets
  <2>3. y \in Runs
    BY <2>1, <2>2, Zenon DEF Runs
  <2>4. y.pc = "fSweep" /\ y.ret = "idle"
    BY <2>1 DEF Idle
  <2>5. RunOK(y, reward', granted')
    BY <2>4 DEF RunOK, Making, TopLevel, Applying
  <2> QED
    BY <1>2, <2>1, <2>3, <2>5, SetRun
<1> QED
  BY <1>2, <1>3, <1>7, <1>8, FreeStep

\* The guest tries again.
LEMMA StepGuestRetry ==
  ASSUME PipelineInv, NEW i \in Intents, GuestRetry(i)
  PROVE  PipelineInv' /\ Moves
<1> DEFINE old == effect[<<i, "deliver">>]
<1>1. Data /\ Frame
  BY QuietData, QuietFrame DEF GuestRetry
<1>2. old \in Rows /\ old.status = "FAILED"
  BY Types DEF Effects, GuestRetry
<1>3. PICK new : new = [old EXCEPT !.status = "PENDING"] /\ effect' = [effect EXCEPT ![<<i, "deliver">>] = new]
  BY Types DEF GuestRetry
<1>4. new \in Rows /\ FreeMove(old, new)
  BY <1>2, <1>3 DEF Rows, Statuses, FreeMove, Leased, Settled
<1>5. FreeRows
  BY <1>3, <1>4, DeliveryMoves DEF GuestRetry
<1>6. RunsOK'
  BY <1>1, KeepRuns DEF GuestRetry
<1> QED
  BY <1>1, <1>5, <1>6, FreeStep

\* An unclaimed bonus expires.
LEMMA StepClaimExpires ==
  ASSUME PipelineInv, NEW i \in Intents, ClaimExpires(i)
  PROVE  PipelineInv' /\ Moves
<1> DEFINE old == effect[<<i, "deliver">>]
<1>1. PICK nr : nr = [reward[i] EXCEPT !.status = "EXPIRED"] /\ reward' = [reward EXCEPT ![i] = nr]
  BY DEF ClaimExpires
<1>a. reward[i] \in [status : RewardStates, requested : BOOLEAN] /\ "EXPIRED" \in RewardStates
  BY Types DEF Rewarded, RewardStates
<1>b. nr \in [status : RewardStates, requested : BOOLEAN] /\ nr.status = "EXPIRED"
  BY <1>1, <1>a
<1>2. Data
  BY <1>1, <1>b, RewardChanges DEF ClaimExpires
<1>3. Frame
  BY QuietFrame DEF ClaimExpires
<1>4. old \in Rows
  BY Types DEF Effects
<1>5. PICK new : /\ new = IF old.status = "WAITING_CLAIM" THEN Becomes(old, "CANCELED") ELSE old
                 /\ effect' = [effect EXCEPT ![<<i, "deliver">>] = new]
  BY DEF ClaimExpires
<1>6. new \in Rows /\ FreeMove(old, new)
  BY <1>4, <1>5 DEF Rows, Statuses, FreeMove, Leased, Settled, Becomes
<1>7. FreeRows
  BY <1>5, <1>6, DeliveryMoves DEF ClaimExpires
<1>8. RunsOK'
  BY <1>2, KeepRuns DEF ClaimExpires
<1> QED
  BY <1>2, <1>3, <1>7, <1>8, FreeStep

\* The ledger's own worker queues a bonus.
LEMMA StepLedgerQueues ==
  ASSUME PipelineInv, NEW i \in Intents, LedgerQueues(i)
  PROVE  PipelineInv' /\ Moves
<1>1. Frame /\ FreeRows
  BY QuietFrame, QuietRows DEF LedgerQueues
<1>2. /\ granted' \in [Intents -> Nat] /\ reward' = reward
      /\ \A j \in Intents : granted'[j] >= granted[j] /\ granted'[j] <= 1
      /\ \A j \in Cases : granted'[j] = granted[j]
  BY Types, PipelineAssumption DEF LedgerQueues
<1>3. Data
  BY <1>2, Types DEF Data, CaseIsApproved, PipelineInv
<1>4. RunsOK'
  BY <1>3, KeepRuns DEF LedgerQueues
<1> QED
  BY <1>1, <1>3, <1>4, FreeStep

\* The import's batch of remediations, and what the import comes to say.
LEMMA StepImport ==
  ASSUME PipelineInv, RemediationDrain \/ SourceChanges
  PROVE  PipelineInv' /\ Moves
<1>1. Data
  BY QuietData DEF RemediationDrain, SourceChanges
<1>2. Frame
  BY RemediateRows, PipelineAssumption
     DEF RemediationDrain, SourceChanges, Frame, PipelineInv, PipelineTypeOK
<1>3. FreeRows
  BY RemediateRows, QuietRows DEF RemediationDrain, SourceChanges
<1>4. RunsOK'
  BY <1>1, KeepRuns DEF RemediationDrain, SourceChanges
<1> QED
  BY <1>1, <1>2, <1>3, <1>4, FreeStep

\* A lease runs out.
LEMMA StepLeaseExpires == ASSUME PipelineInv, LeaseExpires PROVE PipelineInv' /\ Moves
<1>1. Data /\ Frame
  BY QuietData, QuietFrame DEF LeaseExpires
<1>2. RunsOK'
  BY <1>1, KeepRuns DEF LeaseExpires
<1>3. ASSUME NEW row \in Rows PROVE [row EXCEPT !.expired = TRUE] \in Rows
  <2>1. TRUE \in BOOLEAN
    OBVIOUS
  <2> QED
    BY <2>1, Zenon DEF Rows
<1>4. /\ intent' \in [Intents -> Rows] /\ effect' \in [Effects -> Rows]
      /\ \A i \in Intents : intent'[i] = intent[i] \/ Expires(intent[i], intent'[i])
      /\ \A e \in Effects : effect'[e] = effect[e] \/ Expires(effect[e], effect'[e])
  <2>1. CASE UNCHANGED effect
    <3>1. PICK i \in Intents : /\ Leased(intent[i])
                               /\ intent' = [intent EXCEPT ![i] = [intent[i] EXCEPT !.expired = TRUE]]
      BY <2>1, Types DEF LeaseExpires, Rows, Leased
    <3> QED
      BY <1>3, <2>1, <3>1, Types DEF Expires
  <2>2. CASE UNCHANGED intent
    <3>1. PICK e \in Effects : /\ Leased(effect[e])
                               /\ effect' = [effect EXCEPT ![e] = [effect[e] EXCEPT !.expired = TRUE]]
      BY <2>2, Types DEF LeaseExpires, Rows, Leased
    <3> QED
      BY <1>3, <2>2, <3>1, Types DEF Expires
  <2> QED
    BY <2>1, <2>2 DEF LeaseExpires
<1>5. /\ \A i \in Intents : intent'[i].status = intent[i].status
      /\ \A e \in Effects : effect'[e].status = effect[e].status
  BY <1>4, Types DEF Expires, Rows
<1>6. Moves
  BY <1>4 DEF Moves, RowMove, FreeMove
<1>7. \A i \in Intents : <<i, "deliver">> \in Effects
  BY DEF Effects
<1> QED
  BY <1>1, <1>2, <1>4, <1>5, <1>6, <1>7, HeldStep

-----------------------------------------------------------------------------
(* The invariant and the theorems *)

\* Queued intents, no rewards and resting runs satisfy the invariant.
LEMMA PipelineInit == Init => PipelineInv
<1> SUFFICES ASSUME Init PROVE PipelineInv
  OBVIOUS
<1>1. NoRow \in Rows /\ Queued \in Rows /\ Queued.status = "PENDING" /\ NoRow.status = "NONE"
  <2>1. 0 \in 0..MaxAttempts
    BY PipelineAssumption
  <2>2. NoRow \in Rows
    BY <2>1, Zenon DEF NoRow, Rows, Statuses
  <2> QED
    BY <2>2 DEF Queued, Rows, Statuses, NoRow
<1>2. NoReward \in [status : RewardStates, requested : BOOLEAN]
  <2>1. FALSE \in BOOLEAN /\ "NONE" \in RewardStates
    BY DEF RewardStates
  <2> QED
    BY <2>1, Zenon DEF NoReward
<1>3. RunsOK
  BY IdleOK DEF Init, RunsOK
<1>4. PipelineTypeOK
  <2>1. /\ \A w \in Workers : run[w].claims \subseteq Intents \X (1..MaxAttempts)
                               /\ run[w].fx \subseteq Effects \X (1..MaxAttempts)
    BY <1>3 DEF RunsOK, Runs
  <2>2. crashes \in 0..MaxCrashes /\ updates \in 0..MaxUpdates
    BY PipelineAssumption DEF Init
  <2> QED
    BY <1>1, <1>2, <2>1, <2>2 DEF Init, PipelineTypeOK, RewardStates
<1>5. ResultBehindApplied
  <2>1. \A i \in Intents : <<i, "deliver">> \in Effects
    BY DEF Effects
  <2>2. \A i \in Intents : intent[i] = Queued /\ granted[i] = 0 /\ effect[<<i, "deliver">>] = NoRow
    BY <2>1 DEF Init
  <2>3. ASSUME NEW i \in Intents
        PROVE  /\ intent[i].status # "APPLIED" /\ effect[<<i, "deliver">>].status # "APPLIED"
               /\ granted[i] <= 1
    <3>1. intent[i].status = "PENDING" /\ effect[<<i, "deliver">>].status = "NONE" /\ granted[i] = 0
      BY <1>1, <2>2
    <3> QED
      BY <3>1
  <2> QED
    BY <2>3 DEF ResultBehindApplied
<1>6. CaseIsApproved
  BY PipelineAssumption DEF Init, CaseIsApproved
<1> QED
  BY <1>3, <1>4, <1>5, <1>6 DEF PipelineInv

\* Every step keeps the invariant and moves rows only as their leases allow.
LEMMA PipelineStep == ASSUME PipelineInv, [Next]_vars PROVE PipelineInv' /\ Moves
<1>1. CASE UNCHANGED vars
  <2>1. UNCHANGED <<event, intent, reward, effect, granted, run, crashes, updates>>
    BY <1>1 DEF vars, event
  <2>2. Data /\ Frame /\ FreeRows
    BY <2>1, QuietData, QuietFrame, QuietRows
  <2> QED
    BY <2>1, <2>2, KeepRuns, FreeStep
<1>2. ASSUME NEW w \in Workers, Step(w) PROVE PipelineInv' /\ Moves
  BY <1>2, StepPrepareIntents, StepSuspendIntents, StepSweepAndList, StepReconcileApplied,
     StepClaimIntents, StepDropBadPlan, StepMakeReward, StepMakeFails, StepFinishIntent,
     StepFailIntent, StepPrepareReconcile, StepSuspendReconcile, StepSeedEffects,
     StepSweepEffects, StepPrepareEffects, StepSuspendEffects, StepClaimEffects,
     StepFinishRun, StepReadReward, StepApplyEffect, StepApplyFails, StepFinishEffect
     DEF Step
<1>3. ASSUME NEW w \in Workers, StartIntents(w) \/ StartReplay(w) \/ StartEffects(w) \/ Crash(w)
      PROVE  PipelineInv' /\ Moves
  BY <1>3, StepStartIntents, StepStartReplay, StepStartEffects, StepCrash
<1>4. ASSUME NEW w \in Workers, NEW i \in Intents,
             \/ RecoverCase(w, i) \/ GuestClaim(w, i)
             \/ \E s \in {"APPROVED", "PAID", "CANCELED"} : StaffUpdate(w, i, s)
      PROVE  PipelineInv' /\ Moves
  BY <1>4, StepRecoverCase, StepGuestClaim, StepStaffUpdate
<1>5. ASSUME NEW i \in Intents, GuestRetry(i) \/ ClaimExpires(i) \/ LedgerQueues(i)
      PROVE  PipelineInv' /\ Moves
  BY <1>5, StepGuestRetry, StepClaimExpires, StepLedgerQueues
<1>6. CASE RemediationDrain \/ SourceChanges \/ LeaseExpires
  BY <1>6, StepImport, StepLeaseExpires
<1> QED
  BY <1>1, <1>2, <1>3, <1>4, <1>5, <1>6 DEF Next

\* The invariant, for any number of runs and intents.
LEMMA PipelineInvariant == Spec => []PipelineInv
<1>1. PipelineInv /\ [Next]_vars => PipelineInv'
  BY PipelineStep
<1> QED
  BY <1>1, PipelineInit, PTL DEF Spec

\* Finished rows have their result and a reward is delivered once, whatever runs overlap,
\* crash and take each other's leases over (materializeProcessRewardIntents,
\* materializeRewardEffects).
THEOREM ResultsBehind == Spec => []ResultBehindApplied
<1>1. PipelineInv => ResultBehindApplied
  BY DEF PipelineInv
<1> QED
  BY <1>1, PipelineInvariant, PTL

\* A granted loot box belongs to an approved reward (createApprovedRewardLootBoxEntitlement
\* against updateReward).
THEOREM CasesApproved == Spec => []CaseIsApproved
<1>1. PipelineInv => CaseIsApproved
  BY DEF PipelineInv
<1> QED
  BY <1>1, PipelineInvariant, PTL

\* Statuses, leases and counters keep their types, and no claim exceeds the limit.
THEOREM PipelineTyped == Spec => []PipelineTypeOK
<1>1. PipelineInv => PipelineTypeOK
  BY DEF PipelineInv
<1> QED
  BY <1>1, PipelineInvariant, PTL

\* Settled rows never move: no late finalization, sweep, suspension or remediation
\* revives one.
THEOREM SettledStays == Spec => SettledIsFinal
<1>1. ASSUME PipelineInv, [Next]_vars
      PROVE  /\ \A i \in Intents : intent[i].status \in Settled => intent'[i] = intent[i]
             /\ \A e \in Effects : effect[e].status \in Settled => effect'[e] = effect[e]
  BY <1>1, PipelineStep DEF Moves, RowMove, FreeMove, Expires, ByHolder, HeldMove, Leased, Settled
<1> QED
  BY <1>1, PipelineInvariant, PTL DEF SettledIsFinal, Spec

\* While a lease runs only its holder moves the row.
THEOREM LeasesRespected == Spec => LeaseIsRespected
<1>1. ASSUME PipelineInv, [Next]_vars, NEW key, NEW old \in Rows, NEW new,
             RowMove(key, old, new), Leased(old)
      PROVE  /\ new.attempts = old.attempts
             /\ new.status # "PROCESSING" =>
                  \E w \in Workers : HeldBy(w, key, old.attempts) /\ run'[w] # run[w]
  BY <1>1 DEF RowMove, FreeMove, Expires, ByHolder, HeldMove, Leased, Rows
<1>2. ASSUME PipelineInv, [Next]_vars
      PROVE  /\ \A i \in Intents :
                  Leased(intent[i]) /\ intent'[i].status # "PROCESSING" =>
                    \E w \in Workers : HeldBy(w, i, intent[i].attempts) /\ run'[w] # run[w]
             /\ \A e \in Effects :
                  Leased(effect[e]) /\ effect'[e].status # "PROCESSING" =>
                    \E w \in Workers : HeldBy(w, e, effect[e].attempts) /\ run'[w] # run[w]
             /\ \A i \in Intents : Leased(intent[i]) => intent'[i].attempts = intent[i].attempts
             /\ \A e \in Effects : Leased(effect[e]) => effect'[e].attempts = effect[e].attempts
  BY <1>1, <1>2, PipelineStep, Types DEF Moves
<1> QED
  BY <1>2, PipelineInvariant, PTL DEF LeaseIsRespected, Spec

\* No step makes a reward or grants a loot box of a marked event.
LEMMA NothingNew ==
  ASSUME PipelineInv, [Next]_vars, marker, NEW i \in Intents
  PROVE  /\ reward[i].status = "NONE" => reward'[i].status = "NONE"
         /\ i \in Cases => granted'[i] = granted[i]
<1> DEFINE Goal == /\ reward[i].status = "NONE" => reward'[i].status = "NONE"
                   /\ i \in Cases => granted'[i] = granted[i]
<1>1. ASSUME UNCHANGED <<reward, granted>> PROVE Goal
  BY <1>1
<1>2. ASSUME NEW w \in Workers, Step(w) PROVE Goal
  <2>1. CASE MakeReward(w)
    BY <2>1 DEF MakeReward, CreateReward
  <2>2. CASE ApplyEffect(w)
    <3>1. run[w].r[1][1] \in Intents
      BY <2>2, InHand DEF ApplyEffect
    <3> QED
      BY <2>2, <3>1, Types DEF ApplyEffect, GrantCase, GrantBonus
  <2>3. CASE ~MakeReward(w) /\ ~ApplyEffect(w)
    BY <1>1, <1>2, <2>3 DEF Step, PrepareIntents, SuspendIntents, SweepAndList, ReconcileApplied, ClaimIntents,
       DropBadPlan, MakeFails, FinishIntent, FailIntent, PrepareReconcile, SuspendReconcile,
       SeedEffects, SweepEffects, PrepareEffects, SuspendEffects, ClaimEffects, FinishRun,
       ReadReward, ApplyFails, FinishEffect
  <2> QED
    BY <2>1, <2>2, <2>3
<1>3. ASSUME NEW w \in Workers, StartIntents(w) \/ StartReplay(w) \/ StartEffects(w) \/ Crash(w) PROVE Goal
  BY <1>1, <1>3 DEF StartIntents, StartReplay, StartEffects, Crash
<1>4. ASSUME NEW w \in Workers, NEW j \in Intents,
             \/ RecoverCase(w, j) \/ GuestClaim(w, j)
             \/ \E s \in {"APPROVED", "PAID", "CANCELED"} : StaffUpdate(w, j, s)
      PROVE  Goal
  BY <1>1, <1>4, Types DEF RecoverCase, GuestClaim, StaffUpdate, Rewards, Rewarded
<1>5. ASSUME NEW j \in Intents, GuestRetry(j) \/ ClaimExpires(j) \/ LedgerQueues(j) PROVE Goal
  BY <1>1, <1>5, Types DEF GuestRetry, ClaimExpires, LedgerQueues, Rewarded
<1>6. CASE RemediationDrain \/ SourceChanges \/ LeaseExpires
  BY <1>1, <1>6 DEF RemediationDrain, SourceChanges, LeaseExpires
<1>7. CASE UNCHANGED vars
  BY <1>1, <1>7 DEF vars
<1> QED
  BY <1>2, <1>3, <1>4, <1>5, <1>6, <1>7 DEF Next

\* Once an event is marked no run makes another reward or loot box of it, however long
\* before the mark its preflight and its lease are
\* (assertGenericSessionEventMaterializationReadyInTransaction in createReward and in
\* createApprovedRewardLootBoxEntitlement).
THEOREM MarkerStops == Spec => NothingAfterMarker
<1>1. ASSUME PipelineInv, [Next]_vars
      PROVE  marker => \A i \in Intents :
               /\ reward[i].status = "NONE" => reward'[i].status = "NONE"
               /\ i \in Cases => granted'[i] = granted[i]
  BY <1>1, NothingNew
<1> QED
  BY <1>1, PipelineInvariant, PTL DEF NothingAfterMarker, Spec
=============================================================================
