------------------------- MODULE LeaderboardSettlement -------------------------
(***************************************************************************)
(* Month-end results of the guest leaderboard, of one tenant and one month: *)
(* guest-leaderboard-settlement.service.ts, run as a pass of the           *)
(* gamification worker, and the two staff actions of                        *)
(* guest-leaderboard-admin.service.ts on a frozen row.                     *)
(*                                                                         *)
(* One systemd worker owns the pass ("the only unattended owner of this    *)
(* path", guest-gamification-worker.ts), so only the staff act between two  *)
(* of its statements; a pass may throw at any of them, or be killed.       *)
(* A board stands for a scope and a board: the loops over both are one     *)
(* loop here.                                                              *)
(***************************************************************************)
EXTENDS Naturals, FiniteSets

CONSTANTS
    Boards,       \* the enabled boards of every scope whose month is due
    Profiles,     \* guests
    PRIZE_BATCH,  \* rows issued per pass
    MaxFaults,    \* bound: statements that throw, and kills
    MaxRetries    \* bound: times staff press retry

ASSUME SettlementAssumption ==
    /\ IsFiniteSet(Boards) /\ IsFiniteSet(Profiles)
    /\ PRIZE_BATCH \in Nat \ {0}
    /\ MaxFaults \in Nat
    /\ MaxRetries \in Nat

VARIABLES
    result,   \* GuestLeaderboardPeriodResult, by board and profile; rewardId is
              \* also the entitlementId kept in the prize of a case
    made,     \* rewards or entitlements created under the row's key
    handed,   \* hand-overs of a manual prize that staff confirmed
    pass,     \* where settleTenant is: pc, boards to freeze, rows to issue
    faults,
    retries

vars == <<result, made, handed, pass, faults, retries>>

Rows == Boards \X Profiles
Prize == {"BONUS", "LOOT_BOX", "CUSTOM"}
NoPrize == "none"
Absent == [status |-> "NONE", prize |-> NoPrize, rewardId |-> "null"]
NoRow == <<>>
Idle == [pc |-> "idle", boards |-> {}, rows |-> {}, row |-> NoRow]

Pending == {r \in Rows : result[r].status = "PRIZE_PENDING"}

BugFrozen(b) == FALSE

\* freezeDueMonths: the board already has rows of this month.
Frozen(b) == \E p \in Profiles : result[<<b, p>>].status # "NONE"

BugTaken(r) == FALSE

\* The key of profile, month, scope and board is taken: issueBonus finds the
\* reward, issueCase's upsert finds the entitlement.
Taken(r) == made[r] > 0

-----------------------------------------------------------------------------
(***************************************************************************)
(* The pass.                                                               *)
(***************************************************************************)

\* settleTenant reads the settings: a disabled leaderboard freezes nothing,
\* and prizes already frozen are still issued.  Without settings, or with settings
\* that do not parse, it returns at once and changes nothing.
Tick ==
    /\ pass.pc = "idle"
    /\ \E boards \in {Boards, {}} :
           pass' = [Idle EXCEPT !.pc = "freeze", !.boards = boards]
    /\ UNCHANGED <<result, made, handed, faults, retries>>

\* The rows createMany writes for the winners of a board: top maps each to a
\* prize, or to none.  skipDuplicates leaves a row that exists alone.
NewRows(b, top) ==
    [r \in Rows |->
        IF r[1] = b /\ r[2] \in DOMAIN top /\ result[r].status = "NONE"
        THEN [Absent EXCEPT
                 !.status = IF top[r[2]] = NoPrize THEN "RECORDED"
                            ELSE "PRIZE_PENDING",
                 !.prize = top[r[2]]]
        ELSE result[r]]

\* One iteration of freezeDueMonths.  The standings are computed anew from
\* activity that is still arriving, and prizes from the settings of this pass.
FreezeBoard(b) ==
    /\ pass.pc = "freeze"
    /\ b \in pass.boards
    /\ pass' = [pass EXCEPT !.boards = @ \ {b}]
    /\ \/ Frozen(b) /\ UNCHANGED result
       \/ /\ ~Frozen(b)
          /\ \E winners \in SUBSET Profiles :
                 \E top \in [winners -> Prize \cup {NoPrize}] :
                     result' = NewRows(b, top)
    /\ UNCHANGED <<made, handed, faults, retries>>

\* issuePendingPrizes reads its batch; an empty one ends the pass.
ReadPending ==
    /\ pass.pc = "freeze"
    /\ pass.boards = {}
    /\ \/ Pending = {} /\ pass' = Idle
       \/ \E batch \in SUBSET Pending :
              /\ batch # {} /\ Cardinality(batch) <= PRIZE_BATCH
              /\ batch # Pending => Cardinality(batch) = PRIZE_BATCH
              /\ pass' = [Idle EXCEPT !.pc = "next", !.rows = batch]
    /\ UNCHANGED <<result, made, handed, faults, retries>>

\* The loop takes a row of the batch; a batch that is through ends the pass.
NextRow ==
    /\ pass.pc = "next"
    /\ \/ \E r \in pass.rows :
              pass' = [pass EXCEPT !.pc = "row", !.row = r, !.rows = @ \ {r}]
       \/ pass.rows = {} /\ pass' = Idle
    /\ UNCHANGED <<result, made, handed, faults, retries>>

\* The pass goes on at pc with the same row.
To(pc) == pass' = [pass EXCEPT !.pc = pc]

\* A row that cannot be issued: no actor, no active profile, no active case.
Refuse ==
    /\ pass.pc = "row"
    /\ result[pass.row].prize # "CUSTOM"
    /\ To("failing")
    /\ UNCHANGED <<result, made, handed, faults, retries>>

BugIssue ==
    /\ pass.pc = "row"
    /\ result[pass.row].prize # "CUSTOM"
    /\ UNCHANGED made
    /\ To("mark")
    /\ UNCHANGED <<result, handed, faults, retries>>

\* issueBonus and issueCase: one committed transaction, or the prize that an
\* earlier pass made.
Issue ==
    /\ pass.pc = "row"
    /\ result[pass.row].prize # "CUSTOM"
    /\ made' = IF Taken(pass.row) THEN made
               ELSE [made EXCEPT ![pass.row] = @ + 1]
    /\ To("mark")
    /\ UNCHANGED <<result, handed, faults, retries>>

Marked(row, status, rewardId) ==
    [row EXCEPT !.status = status, !.rewardId = rewardId]

\* markResult writes by id alone, whatever the row's status has become.
markResult(r, status, rewardId) ==
    result' = [result EXCEPT ![r] = Marked(@, status, rewardId)]

MarkIssued ==
    /\ pass.pc = "mark"
    /\ markResult(pass.row, "PRIZE_ISSUED", "prize")
    /\ To("audit")
    /\ UNCHANGED <<made, handed, faults, retries>>

\* A custom prize is left to the staff.
MarkManual ==
    /\ pass.pc = "row"
    /\ result[pass.row].prize = "CUSTOM"
    /\ markResult(pass.row, "MANUAL_PRIZE", "null")
    /\ To("audit")
    /\ UNCHANGED <<made, handed, faults, retries>>

\* The audit event of an issued, manual or failed row.
Audit ==
    /\ pass.pc \in {"audit", "auditFailed"}
    /\ pass' = [pass EXCEPT !.pc = "next", !.row = NoRow]
    /\ UNCHANGED <<result, made, handed, faults, retries>>

BugMarkFailed ==
    /\ pass.pc = "failing"
    /\ To("auditFailed")
    /\ UNCHANGED <<result, made, handed, faults, retries>>

\* The catch block of the loop.
MarkFailed ==
    /\ pass.pc = "failing"
    /\ markResult(pass.row, "PRIZE_FAILED", "null")
    /\ To("auditFailed")
    /\ UNCHANGED <<made, handed, faults, retries>>

\* A statement inside the try throws before or after it took effect on the
\* prize (createReward reconciles its effects after its commit), and so does
\* the audit that follows a mark: the catch block takes over.
Throws ==
    /\ faults < MaxFaults
    /\ pass.pc \in {"row", "mark", "audit"}
    /\ To("failing")
    /\ faults' = faults + 1
    /\ UNCHANGED <<result, made, handed, retries>>

\* Anywhere else a throw ends the pass, and a kill ends it anywhere.
Stops ==
    /\ faults < MaxFaults
    /\ pass.pc # "idle"
    /\ pass' = Idle
    /\ faults' = faults + 1
    /\ UNCHANGED <<result, made, handed, retries>>

-----------------------------------------------------------------------------
(***************************************************************************)
(* updateResult: the staff.                                                *)
(***************************************************************************)

Retry(r) ==
    /\ retries < MaxRetries
    /\ result[r].status = "PRIZE_FAILED"
    /\ result' = [result EXCEPT ![r].status = "PRIZE_PENDING"]
    /\ retries' = retries + 1
    /\ UNCHANGED <<made, handed, pass, faults>>

\* The prize was handed over, and staff say so.
Delivered(r) ==
    /\ result[r].status = "MANUAL_PRIZE"
    /\ result' = [result EXCEPT ![r].status = "PRIZE_ISSUED"]
    /\ handed' = [handed EXCEPT ![r] = @ + 1]
    /\ UNCHANGED <<made, pass, faults, retries>>

-----------------------------------------------------------------------------
Init ==
    /\ result = [r \in Rows |-> Absent]
    /\ made = [r \in Rows |-> 0]
    /\ handed = [r \in Rows |-> 0]
    /\ pass = Idle
    /\ faults = 0
    /\ retries = 0

PassStep ==
    \/ Tick \/ ReadPending \/ NextRow
    \/ Refuse \/ Issue \/ MarkIssued \/ MarkManual \/ Audit \/ MarkFailed
    \/ \E b \in Boards : FreezeBoard(b)

Next ==
    \/ PassStep
    \/ Throws \/ Stops
    \/ \E r \in Rows : Retry(r) \/ Delivered(r)

Spec == Init /\ [][Next]_vars

\* The timer starts the worker every few minutes and a pass runs on: from some pass
\* on the settings are there and parse.
FairSpec == Spec /\ WF_vars(PassStep)

-----------------------------------------------------------------------------
(***************************************************************************)
(* Properties.                                                             *)
(***************************************************************************)

Result == [status : {"NONE", "RECORDED", "PRIZE_PENDING", "PRIZE_ISSUED",
                     "PRIZE_FAILED", "MANUAL_PRIZE"},
           prize : Prize \cup {NoPrize},
           rewardId : {"null", "prize"}]

Pass == [pc : {"idle", "freeze", "next", "row", "mark", "audit", "failing",
               "auditFailed"},
         boards : SUBSET Boards,
         rows : SUBSET Rows,
         row : Rows \cup {NoRow}]

\* Every row has its shape, and only rows with a prize snapshot are ever
\* issued, failed or waiting.
SettlementTypeOK ==
    /\ result \in [Rows -> Result]
    /\ made \in [Rows -> Nat]
    /\ handed \in [Rows -> Nat]
    /\ pass \in Pass
    /\ faults \in 0 .. MaxFaults
    /\ retries \in 0 .. MaxRetries
    /\ \A r \in Rows :
           (result[r].prize = NoPrize) <=> result[r].status \in {"NONE", "RECORDED"}

\* "Issued exactly once": whatever throws or dies between the transaction
\* that makes a prize and the mark on its row, and however often staff retry,
\* a winner gets one reward or one case, and a manual prize gets neither.
PrizeOnce ==
    \A r \in Rows :
        /\ made[r] <= 1
        /\ made[r] = 1 => result[r].prize \in {"BONUS", "LOOT_BOX"}

\* A row shown as issued has its prize: it names the reward or case that
\* exists, or staff confirmed the hand-over.
IssuedIsBacked ==
    \A r \in Rows :
        result[r].status = "PRIZE_ISSUED" =>
            \/ result[r].rewardId = "prize" /\ made[r] = 1
            \/ result[r].prize = "CUSTOM" /\ handed[r] > 0

\* The month is frozen once: late activity, changed settings, a repeated or a
\* resumed pass add no winner to a board and change no prize on it.
FrozenForGood ==
    [][\A b \in Boards :
          (\E q \in Profiles : result[<<b, q>>].status # "NONE") =>
              \A p \in Profiles :
                  /\ result'[<<b, p>>].prize = result[<<b, p>>].prize
                  /\ (result'[<<b, p>>].status = "NONE")
                        <=> (result[<<b, p>>].status = "NONE")]_vars

\* A prize that waits is issued, handed to the staff or reported as failed:
\* a row that cannot be issued does not hold up the pass forever.
PendingResolves ==
    \A r \in Rows :
        result[r].status = "PRIZE_PENDING"
            ~> result[r].status # "PRIZE_PENDING"
=============================================================================
