-------------------------- MODULE SettlementProofs --------------------------
(***************************************************************************)
(* Proofs about the month-end settlement, for every set of boards, guests,  *)
(* batch size and number of faults and retries.                            *)
(***************************************************************************)
EXTENDS LeaderboardSettlement, TLAPS

\* What the pass knows of the rows it holds: they have a prize snapshot, and
\* the row it is about to mark as issued has its prize.
Held ==
    /\ \A r \in pass.rows : result[r].prize # NoPrize
    /\ pass.pc \in {"row", "mark", "audit", "failing", "auditFailed"} =>
           pass.row \in Rows /\ result[pass.row].prize # NoPrize
    /\ pass.pc = "mark" =>
           made[pass.row] = 1 /\ result[pass.row].prize # "CUSTOM"

\* Only custom prizes are left to the staff.
Manual ==
    \A r \in Rows :
        result[r].status = "MANUAL_PRIZE" => result[r].prize = "CUSTOM"

SettlementInv ==
    SettlementTypeOK /\ PrizeOnce /\ IssuedIsBacked /\ Manual /\ Held

\* The empty state of a month has no prize anywhere.
LEMMA SettlementStarts == Init => SettlementInv
  BY SettlementAssumption
  DEF Init, SettlementInv, SettlementTypeOK, PrizeOnce, IssuedIsBacked, Manual, Held,
      Result, Pass, Absent, Idle, NoRow, NoPrize, Prize, Rows

\* Freezing writes only rows that were absent.
LEMMA FreezeKeeps ==
    ASSUME SettlementInv, NEW b \in Boards, FreezeBoard(b)
    PROVE  SettlementInv'
<1> USE DEF SettlementInv, Rows
<1>1. pass' = [pass EXCEPT !.boards = @ \ {b}] /\ pass.pc = "freeze"
      /\ made' = made /\ handed' = handed /\ faults' = faults /\ retries' = retries
  BY DEF FreezeBoard
<1>2. pass' \in Pass /\ pass'.rows = pass.rows /\ pass'.pc = "freeze"
  BY <1>1 DEF SettlementTypeOK, Pass
<1>3. CASE result' = result
  BY <1>1, <1>2, <1>3 DEF SettlementTypeOK, PrizeOnce, IssuedIsBacked, Manual, Held
<1>4. CASE \E winners \in SUBSET Profiles :
              \E top \in [winners -> Prize \cup {NoPrize}] :
                  result' = NewRows(b, top)
  <2> PICK winners \in SUBSET Profiles :
              \E top \in [winners -> Prize \cup {NoPrize}] :
                  result' = NewRows(b, top)
    BY <1>4
  <2> PICK top \in [winners -> Prize \cup {NoPrize}] : result' = NewRows(b, top)
    OBVIOUS
  <2>1. ASSUME NEW r \in Rows
        PROVE  \/ result'[r] = result[r]
               \/ /\ result[r].status = "NONE"
                  /\ result'[r] = [status |-> "RECORDED", prize |-> NoPrize,
                                   rewardId |-> "null"]
               \/ /\ result[r].status = "NONE"
                  /\ \E k \in Prize :
                        result'[r] = [status |-> "PRIZE_PENDING", prize |-> k,
                                      rewardId |-> "null"]
    <3>1. result'[r] =
            IF r[1] = b /\ r[2] \in DOMAIN top /\ result[r].status = "NONE"
            THEN [Absent EXCEPT
                     !.status = IF top[r[2]] = NoPrize THEN "RECORDED"
                                ELSE "PRIZE_PENDING",
                     !.prize = top[r[2]]]
            ELSE result[r]
      BY DEF NewRows
    <3>2. CASE r[1] = b /\ r[2] \in DOMAIN top /\ result[r].status = "NONE"
      <4>1. top[r[2]] \in Prize \cup {NoPrize}
        BY <3>2
      <4>2. CASE top[r[2]] = NoPrize
        BY <3>1, <3>2, <4>2 DEF Absent
      <4>3. CASE top[r[2]] # NoPrize
        BY <3>1, <3>2, <4>1, <4>3 DEF Absent
      <4> QED BY <4>2, <4>3
    <3>3. CASE ~(r[1] = b /\ r[2] \in DOMAIN top /\ result[r].status = "NONE")
      BY <3>1, <3>3
    <3> QED BY <3>2, <3>3
  <2>2. \A r \in Rows : result'[r] \in Result
    <3> SUFFICES ASSUME NEW r \in Rows PROVE result'[r] \in Result
      OBVIOUS
    <3>1. result[r] \in Result
      BY DEF SettlementTypeOK
    <3>2. [status |-> "RECORDED", prize |-> NoPrize, rewardId |-> "null"]
            \in Result
      BY DEF Result
    <3>3. \A k \in Prize :
             [status |-> "PRIZE_PENDING", prize |-> k, rewardId |-> "null"]
                \in Result
      BY DEF Result
    <3> QED BY <2>1, <3>1, <3>2, <3>3
  <2>3. result' \in [Rows -> Result]
    BY <2>2 DEF NewRows
  <2>4. \A r \in Rows : result[r].status = "NONE" => result[r].prize = NoPrize
    BY DEF SettlementTypeOK
  <2>5. SettlementTypeOK'
    BY <1>1, <1>2, <2>1, <2>3 DEF SettlementTypeOK, Prize, NoPrize
  <2>6. PrizeOnce' /\ IssuedIsBacked' /\ Manual'
    BY <1>1, <2>1, <2>4 DEF PrizeOnce, IssuedIsBacked, Manual, Prize, NoPrize
  <2>7. Held'
    <3>1. \A r \in pass.rows : r \in Rows
      BY DEF SettlementTypeOK, Pass
    <3> QED BY <1>2, <2>1, <2>4, <3>1 DEF Held, Prize, NoPrize
  <2> QED BY <2>5, <2>6, <2>7
<1> QED BY <1>3, <1>4 DEF FreezeBoard

\* A step that leaves the rows alone keeps the invariant when what the pass
\* holds is still right.
LEMMA PassMoves ==
    ASSUME SettlementInv, UNCHANGED <<result, made, handed, retries>>,
           faults' \in 0 .. MaxFaults, pass' \in Pass, Held'
    PROVE  SettlementInv'
  BY DEF SettlementInv, SettlementTypeOK, PrizeOnce, IssuedIsBacked, Manual

\* The steps of a pass that only move it on.
LEMMA MovesKeep ==
    ASSUME SettlementInv,
           Tick \/ ReadPending \/ NextRow \/ Refuse \/ Audit \/ Throws \/ Stops
    PROVE  SettlementInv'
<1>1. pass \in Pass /\ faults \in 0 .. MaxFaults /\ MaxFaults \in Nat
  BY SettlementAssumption DEF SettlementInv, SettlementTypeOK
<1>i. Idle \in Pass /\ Idle.rows = {} /\ Idle.pc = "idle"
  BY DEF Idle, Pass
<1>2. CASE Tick
  <2>1. PICK boards \in {Boards, {}} :
            pass' = [Idle EXCEPT !.pc = "freeze", !.boards = boards]
    BY <1>2 DEF Tick
  <2>2. pass' \in Pass /\ pass'.rows = {} /\ pass'.pc = "freeze"
    BY <2>1, <1>i DEF Pass
  <2>3. Held'
    BY <2>2 DEF Held
  <2> QED BY <1>1, <1>2, <2>2, <2>3, PassMoves DEF Tick
<1>3. CASE ReadPending
  <2>1. CASE pass' = Idle
    BY <1>1, <1>3, <1>i, <2>1, PassMoves DEF ReadPending, Held
  <2>2. CASE \E batch \in SUBSET Pending :
                 pass' = [Idle EXCEPT !.pc = "next", !.rows = batch]
    <3>1. PICK batch \in SUBSET Pending :
              pass' = [Idle EXCEPT !.pc = "next", !.rows = batch]
      BY <2>2
    <3>2. batch \in SUBSET Rows /\ \A r \in batch : result[r].prize # NoPrize
      BY DEF Pending, SettlementInv, SettlementTypeOK
    <3>3. pass' \in Pass /\ pass'.rows = batch /\ pass'.pc = "next"
      BY <3>1, <3>2, <1>i DEF Pass
    <3>4. Held'
      BY <1>3, <3>2, <3>3 DEF Held, ReadPending
    <3> QED BY <1>1, <1>3, <3>3, <3>4, PassMoves DEF ReadPending
  <2> QED BY <1>3, <2>1, <2>2 DEF ReadPending
<1>4. CASE NextRow
  <2>1. CASE pass' = Idle
    BY <1>1, <1>4, <1>i, <2>1, PassMoves DEF NextRow, Held
  <2>2. CASE \E r \in pass.rows :
                 pass' = [pass EXCEPT !.pc = "row", !.row = r, !.rows = @ \ {r}]
    <3>1. PICK r \in pass.rows :
              pass' = [pass EXCEPT !.pc = "row", !.row = r, !.rows = @ \ {r}]
      BY <2>2
    <3>2. r \in Rows /\ result[r].prize # NoPrize
      BY <1>1 DEF Pass, SettlementInv, Held
    <3>3. /\ pass' \in Pass
          /\ pass'.pc = "row" /\ pass'.row = r /\ pass'.rows = pass.rows \ {r}
      BY <1>1, <3>1, <3>2 DEF Pass
    <3>4. Held'
      BY <1>4, <3>2, <3>3 DEF Held, NextRow, SettlementInv
    <3> QED BY <1>1, <1>4, <3>3, <3>4, PassMoves DEF NextRow
  <2> QED BY <1>4, <2>1, <2>2 DEF NextRow
<1>5. CASE Refuse
  BY <1>1, <1>5, PassMoves DEF Refuse, To, Pass, Held, SettlementInv
<1>6. CASE Audit
  BY <1>1, <1>6, PassMoves DEF Audit, Pass, Held, SettlementInv
<1>7. CASE Throws
  BY <1>1, <1>7, PassMoves DEF Throws, To, Pass, Held, SettlementInv
<1>8. CASE Stops
  BY <1>1, <1>8, <1>i, PassMoves DEF Stops, Held
<1> QED BY <1>2, <1>3, <1>4, <1>5, <1>6, <1>7, <1>8

\* A prize is made under its key once, and then the row is marked.
LEMMA IssueKeeps == SettlementInv /\ Issue => SettlementInv'
<1> SUFFICES ASSUME SettlementInv, Issue PROVE SettlementInv'
  OBVIOUS
<1> DEFINE r == pass.row
<1>1. r \in Rows /\ result[r].prize \in {"BONUS", "LOOT_BOX"}
  BY DEF SettlementInv, SettlementTypeOK, Held, Issue, Result, Prize
<1>2. made[r] \in {0, 1}
  BY <1>1 DEF SettlementInv, SettlementTypeOK, PrizeOnce
<1>3. made' \in [Rows -> Nat] /\ made'[r] = 1
      /\ \A s \in Rows : s # r => made'[s] = made[s]
  BY <1>1, <1>2 DEF SettlementInv, SettlementTypeOK, Issue, Taken
<1>4. \A s \in Rows : made[s] = 1 => made'[s] = 1
  BY <1>3
<1> QED
  BY <1>1, <1>3, <1>4
  DEF SettlementInv, SettlementTypeOK, PrizeOnce, IssuedIsBacked, Manual, Held,
      Issue, Pass, To

\* What markResult makes of a row.
LEMMA MarkedRow ==
    ASSUME NEW old \in Result,
           NEW st \in {"PRIZE_PENDING", "PRIZE_ISSUED", "PRIZE_FAILED",
                       "MANUAL_PRIZE"},
           NEW ln \in {"null", "prize"}
    PROVE  LET new == Marked(old, st, ln)
           IN  /\ new \in Result
               /\ new.prize = old.prize /\ new.status = st /\ new.rewardId = ln
  BY DEF Result, Marked

\* A change of one row's status keeps the invariant when the row has a prize
\* and a row that becomes issued has it behind it.
LEMMA MarkKeeps ==
    ASSUME SettlementInv, NEW r \in Rows, result[r].prize # NoPrize,
           NEW st \in {"PRIZE_PENDING", "PRIZE_ISSUED", "PRIZE_FAILED",
                       "MANUAL_PRIZE"},
           NEW ln \in {"null", "prize"},
           result' = [result EXCEPT ![r] = Marked(@, st, ln)],
           made' = made,
           handed' \in [Rows -> Nat],
           \A s \in Rows : handed'[s] >= handed[s],
           st = "PRIZE_ISSUED" =>
               \/ ln = "prize" /\ made[r] = 1
               \/ result[r].prize = "CUSTOM" /\ handed'[r] > 0,
           st = "MANUAL_PRIZE" => result[r].prize = "CUSTOM",
           faults' = faults,
           retries' \in 0 .. MaxRetries,
           pass' \in Pass, pass'.rows = pass.rows, pass'.row = pass.row,
           pass'.pc = pass.pc
             \/ (pass.pc \in {"row", "mark", "failing"} /\ pass'.pc # "mark")
    PROVE  SettlementInv'
<1>t. /\ result \in [Rows -> Result]
      /\ handed \in [Rows -> Nat]
      /\ \A s \in Rows : (result[s].prize = NoPrize)
                            <=> result[s].status \in {"NONE", "RECORDED"}
      /\ pass \in Pass
  BY DEF SettlementInv, SettlementTypeOK
<1>1. result'[r] = Marked(result[r], st, ln)
      /\ \A s \in Rows : s # r => result'[s] = result[s]
  BY <1>t
<1>2. result[r] \in Result
  BY <1>t
<1>3. /\ result'[r] \in Result
      /\ result'[r].prize = result[r].prize
      /\ result'[r].status = st
      /\ result'[r].rewardId = ln
  BY <1>1, <1>2, MarkedRow
<1>4. result' \in [Rows -> Result]
  BY <1>t, <1>3
<1>5. \A s \in Rows : result'[s].prize = result[s].prize
  BY <1>1, <1>3
<1>6. SettlementTypeOK'
  BY <1>t, <1>1, <1>3, <1>4 DEF SettlementInv, SettlementTypeOK
<1>7. PrizeOnce'
  BY <1>5 DEF SettlementInv, PrizeOnce
<1>8. IssuedIsBacked'
  <2> SUFFICES ASSUME NEW s \in Rows, result'[s].status = "PRIZE_ISSUED"
               PROVE  \/ result'[s].rewardId = "prize" /\ made'[s] = 1
                      \/ result'[s].prize = "CUSTOM" /\ handed'[s] > 0
    BY DEF IssuedIsBacked
  <2>1. CASE s = r
    BY <2>1, <1>3
  <2>2. CASE s # r
    <3>1. handed'[s] \in Nat /\ handed[s] \in Nat /\ handed'[s] >= handed[s]
      BY <1>t
    <3>2. result'[s] = result[s] /\ made'[s] = made[s]
      BY <2>2, <1>1
    <3>3. \/ result[s].rewardId = "prize" /\ made[s] = 1
          \/ result[s].prize = "CUSTOM" /\ handed[s] > 0
      BY <3>2 DEF SettlementInv, IssuedIsBacked
    <3>4. handed[s] > 0 => handed'[s] > 0
      BY <3>1
    <3> QED BY <3>2, <3>3, <3>4
  <2> QED BY <2>1, <2>2
<1>9. Held'
  BY <1>t, <1>5 DEF SettlementInv, Held, Pass
<1>10. Manual'
  BY <1>1, <1>3, <1>5 DEF SettlementInv, Manual
<1> QED BY <1>6, <1>7, <1>8, <1>9, <1>10 DEF SettlementInv

\* The marks of the pass and the actions of the staff.
LEMMA MarksKeep ==
    ASSUME SettlementInv,
           \/ MarkIssued \/ MarkManual \/ MarkFailed
           \/ \E s \in Rows : Retry(s) \/ Delivered(s)
    PROVE  SettlementInv'
<1>t. /\ result \in [Rows -> Result] /\ handed \in [Rows -> Nat]
      /\ pass \in Pass /\ retries \in 0 .. MaxRetries /\ MaxRetries \in Nat
      /\ \A s \in Rows : (result[s].prize = NoPrize)
                            <=> result[s].status \in {"NONE", "RECORDED"}
      /\ \A s \in Rows : handed[s] >= handed[s]
  BY SettlementAssumption DEF SettlementInv, SettlementTypeOK
<1>p. \A c \in {"audit", "auditFailed"} :
         pass' = [pass EXCEPT !.pc = c] =>
             /\ pass' \in Pass
             /\ pass'.pc = c /\ pass'.rows = pass.rows /\ pass'.row = pass.row
  BY <1>t DEF Pass
<1>1. CASE MarkIssued
  <2>1. pass.row \in Rows /\ result[pass.row].prize # NoPrize /\ made[pass.row] = 1
    BY <1>1 DEF MarkIssued, SettlementInv, Held
  <2>2. result' = [result EXCEPT ![pass.row] = Marked(@, "PRIZE_ISSUED", "prize")]
    BY <1>1 DEF MarkIssued, markResult
  <2>3. /\ pass.pc = "mark" /\ pass' = [pass EXCEPT !.pc = "audit"]
        /\ made' = made /\ handed' = handed /\ faults' = faults /\ retries' = retries
    BY <1>1 DEF MarkIssued, To
  <2> QED BY <1>t, <1>p, <2>1, <2>2, <2>3, MarkKeeps
<1>2. CASE MarkManual
  <2>1. /\ pass.row \in Rows /\ result[pass.row].prize # NoPrize
        /\ result[pass.row].prize = "CUSTOM"
    BY <1>2 DEF MarkManual, SettlementInv, Held
  <2>2. result' = [result EXCEPT ![pass.row] = Marked(@, "MANUAL_PRIZE", "null")]
    BY <1>2 DEF MarkManual, markResult
  <2>3. /\ pass.pc = "row" /\ pass' = [pass EXCEPT !.pc = "audit"]
        /\ made' = made /\ handed' = handed /\ faults' = faults /\ retries' = retries
    BY <1>2 DEF MarkManual, To
  <2> QED BY <1>t, <1>p, <2>1, <2>2, <2>3, MarkKeeps
<1>3. CASE MarkFailed
  <2>1. pass.row \in Rows /\ result[pass.row].prize # NoPrize
    BY <1>3 DEF MarkFailed, SettlementInv, Held
  <2>2. result' = [result EXCEPT ![pass.row] = Marked(@, "PRIZE_FAILED", "null")]
    BY <1>3 DEF MarkFailed, markResult
  <2>3. /\ pass.pc = "failing" /\ pass' = [pass EXCEPT !.pc = "auditFailed"]
        /\ made' = made /\ handed' = handed /\ faults' = faults /\ retries' = retries
    BY <1>3 DEF MarkFailed, To
  <2> QED BY <1>t, <1>p, <2>1, <2>2, <2>3, MarkKeeps
<1>4. ASSUME NEW s \in Rows, NEW st, result' = [result EXCEPT ![s].status = st]
      PROVE  result' = [result EXCEPT ![s] = Marked(@, st, result[s].rewardId)]
  <2>1. result[s] \in Result
    BY <1>t
  <2>2. [result[s] EXCEPT !.status = st]
          = Marked(result[s], st, result[s].rewardId)
    BY <2>1 DEF Result, Marked
  <2> QED BY <1>4, <1>t, <2>2
<1>5. ASSUME NEW s \in Rows, Retry(s) PROVE SettlementInv'
  <2>1. result[s].prize # NoPrize /\ result[s].rewardId \in {"null", "prize"}
    BY <1>5, <1>t DEF Retry, Result
  <2>2. result' = [result EXCEPT ![s] = Marked(@, "PRIZE_PENDING", result[s].rewardId)]
    BY <1>4, <1>5 DEF Retry
  <2>3. /\ made' = made /\ handed' = handed /\ faults' = faults /\ pass' = pass
        /\ retries' \in 0 .. MaxRetries
    BY <1>5, <1>t DEF Retry
  <2> QED BY <1>t, <2>1, <2>2, <2>3, MarkKeeps
<1>6. ASSUME NEW s \in Rows, Delivered(s) PROVE SettlementInv'
  <2>1. result[s].prize # NoPrize /\ result[s].rewardId \in {"null", "prize"}
    BY <1>6, <1>t DEF Delivered, Result
  <2>2. result' = [result EXCEPT ![s] = Marked(@, "PRIZE_ISSUED", result[s].rewardId)]
    BY <1>4, <1>6 DEF Delivered
  <2>3. /\ made' = made /\ faults' = faults /\ pass' = pass /\ retries' = retries
        /\ handed' \in [Rows -> Nat] /\ handed'[s] > 0
        /\ \A x \in Rows : handed'[x] >= handed[x]
    BY <1>6, <1>t DEF Delivered
  <2>4. result[s].prize = "CUSTOM"
    BY <1>6 DEF Delivered, SettlementInv, Manual
  <2> QED BY <1>t, <2>1, <2>2, <2>3, <2>4, MarkKeeps
<1> QED BY <1>1, <1>2, <1>3, <1>5, <1>6

\* Every step keeps the invariant.
LEMMA SettlementKeeps == SettlementInv /\ [Next]_vars => SettlementInv'
<1> SUFFICES ASSUME SettlementInv, [Next]_vars PROVE SettlementInv'
  OBVIOUS
<1>1. CASE UNCHANGED vars
  BY <1>1 DEF vars, SettlementInv, SettlementTypeOK, PrizeOnce,
              IssuedIsBacked, Manual, Held
<1>2. CASE Next
  BY <1>2, FreezeKeeps, MovesKeep, IssueKeeps, MarksKeep DEF Next, PassStep
<1> QED BY <1>1, <1>2

\* The invariant of the settlement holds always.
LEMMA SettlementKept == Spec => []SettlementInv
  BY SettlementStarts, SettlementKeeps, PTL DEF Spec

\* Rows keep their shape, and only rows with a prize wait, fail or are issued.
THEOREM SettlementTyped == Spec => []SettlementTypeOK
  BY SettlementKept, PTL DEF SettlementInv

\* Whatever throws, dies or is retried, a winner gets at most one prize.
THEOREM PrizesOnce == Spec => []PrizeOnce
  BY SettlementKept, PTL DEF SettlementInv

\* A row shown as issued has its prize behind it.
THEOREM IssuedBacked == Spec => []IssuedIsBacked
  BY SettlementKept, PTL DEF SettlementInv

\* No step adds a winner to a frozen board or changes a prize on it.
LEMMA StepKeepsMonth ==
    ASSUME SettlementInv, Next, NEW b \in Boards, NEW q \in Profiles,
           result[<<b, q>>].status # "NONE", NEW p \in Profiles
    PROVE  /\ result'[<<b, p>>].prize = result[<<b, p>>].prize
           /\ (result'[<<b, p>>].status = "NONE")
                 <=> (result[<<b, p>>].status = "NONE")
<1> DEFINE x == <<b, p>>
<1>x. x \in Rows
  BY DEF Rows
<1> HIDE DEF x
<1>t. /\ result \in [Rows -> Result]
      /\ \A r \in Rows : (result[r].prize = NoPrize)
                            <=> result[r].status \in {"NONE", "RECORDED"}
  BY DEF SettlementInv, SettlementTypeOK
<1>1. ASSUME NEW c \in Boards, FreezeBoard(c)
      PROVE  result'[x] = result[x]
  <2>1. CASE result' = result
    BY <2>1
  <2>2. CASE ~Frozen(c) /\ \E winners \in SUBSET Profiles :
                 \E top \in [winners -> Prize \cup {NoPrize}] :
                     result' = NewRows(c, top)
    <3>1. c # b
      BY <2>2 DEF Frozen
    <3>2. x[1] # c
      BY <3>1 DEF x
    <3> QED BY <1>x, <2>2, <3>2 DEF NewRows
  <2> QED BY <1>1, <2>1, <2>2 DEF FreezeBoard
<1>2. ASSUME NEW r \in Rows,
             NEW st \in {"PRIZE_PENDING", "PRIZE_ISSUED", "PRIZE_FAILED",
                         "MANUAL_PRIZE"},
             NEW ln \in {"null", "prize"},
             result' = [result EXCEPT ![r] = Marked(@, st, ln)],
             result[r].prize # NoPrize
      PROVE  /\ result'[x].prize = result[x].prize
             /\ (result'[x].status = "NONE") <=> (result[x].status = "NONE")
  BY <1>2, <1>x, <1>t, MarkedRow
<1>3. ASSUME NEW r \in Rows, NEW st, st \notin {"NONE", "RECORDED"},
             result' = [result EXCEPT ![r].status = st],
             result[r].prize # NoPrize
      PROVE  /\ result'[x].prize = result[x].prize
             /\ (result'[x].status = "NONE") <=> (result[x].status = "NONE")
  BY <1>3, <1>x, <1>t DEF Result
<1>4. CASE MarkIssued
  <2>1. pass.row \in Rows /\ result[pass.row].prize # NoPrize
    BY <1>4 DEF MarkIssued, SettlementInv, Held
  <2>2. result' = [result EXCEPT ![pass.row] = Marked(@, "PRIZE_ISSUED", "prize")]
    BY <1>4 DEF MarkIssued, markResult
  <2> QED BY <1>2, <2>1, <2>2 DEF x
<1>5. CASE MarkManual
  <2>1. pass.row \in Rows /\ result[pass.row].prize # NoPrize
    BY <1>5 DEF MarkManual, SettlementInv, Held
  <2>2. result' = [result EXCEPT ![pass.row] = Marked(@, "MANUAL_PRIZE", "null")]
    BY <1>5 DEF MarkManual, markResult
  <2> QED BY <1>2, <2>1, <2>2 DEF x
<1>6. CASE MarkFailed
  <2>1. pass.row \in Rows /\ result[pass.row].prize # NoPrize
    BY <1>6 DEF MarkFailed, SettlementInv, Held
  <2>2. result' = [result EXCEPT ![pass.row] = Marked(@, "PRIZE_FAILED", "null")]
    BY <1>6 DEF MarkFailed, markResult
  <2> QED BY <1>2, <2>1, <2>2 DEF x
<1>7. ASSUME NEW r \in Rows, Retry(r) \/ Delivered(r)
      PROVE  /\ result'[x].prize = result[x].prize
             /\ (result'[x].status = "NONE") <=> (result[x].status = "NONE")
  <2>1. result[r].prize # NoPrize
    BY <1>7, <1>t DEF Retry, Delivered
  <2> QED BY <1>7, <1>3, <2>1 DEF Retry, Delivered
<1>8. CASE Tick \/ ReadPending \/ NextRow \/ Refuse \/ Issue \/ Audit
           \/ Throws \/ Stops
  BY <1>8 DEF Tick, ReadPending, NextRow, Refuse, Issue, Audit, Throws, Stops
<1> QED BY <1>1, <1>4, <1>5, <1>6, <1>7, <1>8 DEF Next, PassStep, x

\* The month is frozen once, whatever arrives later.
THEOREM MonthFrozen == Spec => FrozenForGood
<1>1. SettlementInv /\ [Next]_vars =>
        [\A b \in Boards :
            (\E q \in Profiles : result[<<b, q>>].status # "NONE") =>
                \A p \in Profiles :
                    /\ result'[<<b, p>>].prize = result[<<b, p>>].prize
                    /\ (result'[<<b, p>>].status = "NONE")
                          <=> (result[<<b, p>>].status = "NONE")]_vars
  BY StepKeepsMonth
<1> QED BY <1>1, SettlementKept, PTL DEF Spec, FrozenForGood
=============================================================================
