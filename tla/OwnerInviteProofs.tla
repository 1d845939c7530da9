-------------------------- MODULE OwnerInviteProofs --------------------------
(***************************************************************************)
(* The owner's invite and its mail, for any number of workers, reissues,   *)
(* attempts and any batch size.  The argument: the provider marker is set  *)
(* once and never cleared, the one worker that set it is the only one past *)
(* the boundary, and it gives the mail to SMTP at most once.               *)
(***************************************************************************)
EXTENDS OwnerInviteMail, TLAPS

Handed == {"CLAIMED", "SENT", "DEAD", "RECONCILIATION_REQUIRED"}
Open == {"PENDING", "RETRY", "CLAIMED"}

\* A mail lies behind a marker, a marked row is not retried, a row is SENT only
\* when there was a mail.
RowsOK ==
  \A i \in Invites :
    /\ row[i].marked => row[i].status \in Handed
    /\ mails[i] \in {0, 1}
    /\ mails[i] = 1 => row[i].marked
    /\ row[i].status = "SENT" => mails[i] = 1
    /\ row[i].status = "RECONCILIATION_REQUIRED" => row[i].marked

\* A worker past the boundary stands behind a marker, alone, and knows whether
\* it has sent.
Hands ==
  /\ \A w \in Workers : worker[w].pc \in Past =>
       /\ row[worker[w].i].marked
       /\ worker[w].pc = "sending" => mails[worker[w].i] = 0
       /\ worker[w].pc = "sent" => mails[worker[w].i] = 1
  /\ \A v, w \in Workers :
       /\ worker[v].pc \in Past /\ worker[w].pc \in Past
       /\ worker[v].i = worker[w].i
       => v = w

\* Invites are issued one after the other, each after the end of the one before.
Lineage ==
  \A i \in Invites :
    /\ i > current => /\ row[i].status = "NONE" /\ ~row[i].marked
                      /\ invite[i].state = "NONE" /\ invite[i].mode = "EMAIL"
    /\ i < current => /\ invite[i].state = "REVOKED"
                      /\ row[i].status \in Open => row[i].marked
    /\ invite[i].mode = "LINK" => row[i].status = "CANCELED"

\* The account, the tenant's stage and a registration under way agree.
Registered ==
  /\ stage = "OWNER_INVITED" <=> owner = NoOwner
  /\ owner # NoOwner =>
       /\ owner.i = current
       /\ invite[owner.i].state = "ACCEPTED"
       /\ owner.verified => row[owner.i].status = "SENT"
       /\ ~owner.verified => invite[owner.i].mode = "LINK"
  /\ form # NoForm =>
       /\ form.version <= invite[form.i].version
       /\ form.version = invite[form.i].version => form.mode = invite[form.i].mode

MailInv == MailTypeOK /\ RowsOK /\ Hands /\ Lineage /\ Registered

-----------------------------------------------------------------------------
\* How a step may change the row of an invite other than by marking it: not at
\* all, towards an end or a retry before the marker, towards an end after it.
Before(i) ==
  /\ ~row[i].marked /\ ~row'[i].marked
  /\ row[i].status \in Open
  /\ row'[i].status \in {"CLAIMED", "RETRY", "DEAD", "CANCELED"}
  /\ i < current => row'[i].status \notin Open

After(i) ==
  /\ row[i].marked /\ row'[i].marked
  /\ row[i].status \in {"CLAIMED", "RECONCILIATION_REQUIRED"}
  /\ row'[i].status \in Handed
  /\ row'[i].status = "SENT" => mails[i] = 1

Moves(i) ==
  \/ row'[i].marked = row[i].marked /\ row'[i].status = row[i].status
  \/ Before(i)
  \/ After(i)

\* Such a step keeps what the invariant says of rows and invites.
LEMMA MovesKeep ==
  ASSUME RowsOK, Lineage, Registered, \A i \in Invites : Moves(i),
         UNCHANGED <<invite, current, stage, mails, form, owner>>,
         current \in Invites
  PROVE  RowsOK' /\ Lineage' /\ Registered'
<1>1. RowsOK'
  BY DEF RowsOK, Moves, Before, After, Handed, Open
<1>2. Lineage'
  <2> SUFFICES ASSUME NEW i \in Invites
               PROVE /\ i > current => /\ row'[i].status = "NONE" /\ ~row'[i].marked
                     /\ i < current /\ row'[i].status \in Open => row'[i].marked
                     /\ invite[i].mode = "LINK" => row'[i].status = "CANCELED"
    BY DEF Lineage, Invites
  <2> QED
    BY DEF Lineage, RowsOK, Moves, Before, After, Handed, Open
<1>3. Registered'
  BY DEF Registered, Lineage, Moves, Before, After, Open
<1> QED
  BY <1>1, <1>2, <1>3

\* A worker that moves without crossing the boundary keeps the rest.
LEMMA HandsKeep ==
  ASSUME MailTypeOK, RowsOK, Hands, NEW w \in Workers, \A i \in Invites : Moves(i),
         \A v \in Workers : v # w => worker'[v] = worker[v],
         UNCHANGED mails,
         worker'[w].pc \in Past =>
           /\ worker[w].pc \in Past /\ worker'[w].i = worker[w].i
           /\ worker'[w].pc = "quarantine"
  PROVE  Hands'
<1>1. \A i \in Invites : row[i].marked => row'[i].marked
  BY DEF Moves, Before, After
<1>2. \A v \in Workers : worker[v].pc \in Past => worker[v].i \in Invites
  BY DEF MailTypeOK
<1>3. ASSUME NEW v \in Workers, worker'[v].pc \in Past
      PROVE  /\ row'[worker'[v].i].marked
             /\ worker'[v].pc = "sending" => mails'[worker'[v].i] = 0
             /\ worker'[v].pc = "sent" => mails'[worker'[v].i] = 1
  BY <1>1, <1>2, <1>3 DEF Hands
<1>4. \A v \in Workers : worker'[v].pc \in Past =>
        worker[v].pc \in Past /\ worker'[v].i = worker[v].i
  OBVIOUS
<1> QED
  BY <1>3, <1>4 DEF Hands

-----------------------------------------------------------------------------
\* A worker at rest, an issued row, a row to come.
LEMMA Records ==
  /\ Idle \in Process /\ NewRow \in OutboxRow /\ NoRow \in OutboxRow
  /\ BatchSize \in 0 .. BatchSize /\ 1 \in Invites
<1>1. 0 \in 0 .. MaxAttempts /\ 0 \in 0 .. BatchSize /\ BatchSize \in 0 .. BatchSize
      /\ 1 \in Invites
  BY InviteAssumption DEF Invites
<1>2. Idle \in Process
  BY <1>1, Zenon DEF Idle, Process
<1>3. NewRow \in OutboxRow
  BY <1>1, Zenon DEF NewRow, OutboxRow, Status
<1>4. NoRow \in OutboxRow
  BY <1>3 DEF NoRow, OutboxRow, Status
<1> QED
  BY <1>1, <1>2, <1>3, <1>4

\* The first invite, released and not yet claimed.
LEMMA MailInit == Init => MailInv
<1> SUFFICES ASSUME Init PROVE MailInv
  OBVIOUS
<1>1. MailTypeOK
  <2>1. invite \in [Invites -> UserInvite]
    BY DEF Init, UserInvite, InviteState, Mode
  <2>2. /\ row \in [Invites -> OutboxRow] /\ worker \in [Workers -> Process]
        /\ mails \in [Invites -> Nat] /\ current \in Invites
    BY Records DEF Init
  <2>3. form \in [i : {0} \cup Invites, mode : Mode, version : Nat]
    BY DEF Init, NoForm, Mode
  <2>4. owner \in [i : {0} \cup Invites, verified : BOOLEAN]
    BY Zenon DEF Init, NoOwner
  <2> QED
    BY <2>1, <2>2, <2>3, <2>4 DEF Init, MailTypeOK, Idle, Past
<1>2. RowsOK /\ Hands /\ Lineage /\ Registered
  BY InviteAssumption
     DEF Init, RowsOK, Hands, Lineage, Registered, Invites, NewRow, NoRow, Idle, Past,
         NoForm, NoOwner
<1> QED
  BY <1>1, <1>2 DEF MailInv

\* The calls of a worker that change a row and do not set the marker.
LEMMA ReapKeeps ==
  ASSUME MailInv, NEW w \in Workers, Reap(w)
  PROVE  MailInv'
<1> USE DEF MailInv
<1>1. PICK batch \in SUBSET Invites, room \in [Invites -> BOOLEAN] :
        /\ \A i \in batch : Reapable(i)
        /\ row' = [i \in Invites |-> IF i \in batch THEN Reaped(i, room[i]) ELSE row[i]]
  BY DEF Reap
<1>2. UNCHANGED <<invite, current, stage, mails, form, owner>>
  BY DEF Reap
<1>3. worker' = [worker EXCEPT ![w].pc = "claiming", ![w].left = BatchSize]
  BY DEF Reap
<1>4. \A i \in batch : /\ row'[i] \in OutboxRow /\ Moves(i)
  <2> SUFFICES ASSUME NEW i \in batch PROVE row'[i] \in OutboxRow /\ Moves(i)
    OBVIOUS
  <2>1. row'[i] = Reaped(i, room[i]) /\ row[i] \in OutboxRow /\ i \in Invites
    BY <1>1 DEF MailTypeOK
  <2>2. row'[i] \in OutboxRow /\ row'[i].marked = row[i].marked
    BY <2>1 DEF Reaped, OutboxRow, Status
  <2>3. Reapable(i) /\ (i < current => ~Live(i))
    BY <1>1, <2>1 DEF Live, Lineage
  <2>4. CASE row[i].marked
    <3>1. row[i].status = "CLAIMED" /\ row'[i].status = "RECONCILIATION_REQUIRED"
      BY <2>1, <2>3, <2>4 DEF RowsOK, Reapable, Reaped, Handed, OutboxRow
    <3> QED
      BY <3>1, <2>2, <2>4 DEF Moves, After, Handed
  <2>5. CASE ~row[i].marked
    <3>1. row[i].status \in Open
      BY <2>3 DEF Reapable, Open
    <3>2. /\ row'[i].status \in {"CANCELED", "DEAD", "RETRY"}
          /\ ~Live(i) => row'[i].status = "CANCELED"
      BY <2>1, <2>5 DEF Reaped, OutboxRow
    <3> QED
      BY <3>1, <3>2, <2>2, <2>3, <2>5 DEF Moves, Before, Open
  <2> QED
    BY <2>2, <2>4, <2>5
<1>5. \A i \in Invites : Moves(i) /\ row'[i] \in OutboxRow
  BY <1>1, <1>4 DEF Moves, MailTypeOK
<1>6. worker' \in [Workers -> Process] /\ worker'[w].pc = "claiming"
  BY <1>3, Records DEF MailTypeOK, Process
<1>7. \A v \in Workers : v # w => worker'[v] = worker[v]
  BY <1>3 DEF MailTypeOK
<1>8. MailTypeOK'
  BY <1>1, <1>2, <1>5, <1>6, <1>7 DEF MailTypeOK, Past
<1>9. Hands'
  BY <1>2, <1>5, <1>6, <1>7, HandsKeep DEF Past
<1> QED
  BY <1>2, <1>5, <1>8, <1>9, MovesKeep DEF MailTypeOK

\* A claim starts a fresh lease of an unmarked row.
LEMMA ClaimKeeps ==
  ASSUME MailInv, NEW w \in Workers, Claim(w)
  PROVE  MailInv'
<1> USE DEF MailInv
<1>1. PICK i \in Invites :
        /\ Claimable(i)
        /\ row' = [row EXCEPT ![i].status = "CLAIMED", ![i].due = FALSE,
                              ![i].attempts = row[i].attempts + 1]
        /\ worker' = [worker EXCEPT ![w] = [pc |-> "holding", i |-> i,
                        lease |-> row[i].attempts + 1, left |-> worker[w].left - 1]]
  BY DEF Claim
<1>2. UNCHANGED <<invite, current, stage, mails, form, owner>>
  BY DEF Claim
<1>3. row[i].attempts + 1 \in 0 .. MaxAttempts /\ worker[w].left - 1 \in 0 .. BatchSize
  BY <1>1, InviteAssumption DEF Claimable, Claim, MailTypeOK, OutboxRow, Process
<1>4. /\ row' \in [Invites -> OutboxRow]
      /\ row'[i].status = "CLAIMED" /\ row'[i].marked = row[i].marked
      /\ \A j \in Invites : j # i => row'[j] = row[j]
  BY <1>1, <1>3 DEF MailTypeOK, OutboxRow, Status
<1>5. /\ worker' \in [Workers -> Process]
      /\ worker'[w].pc = "holding" /\ worker'[w].i = i
      /\ \A v \in Workers : v # w => worker'[v] = worker[v]
  BY <1>1, <1>3 DEF MailTypeOK, Process
<1>6. Before(i)
  BY <1>1, <1>4 DEF Before, Claimable, Live, RowsOK, Lineage, Handed, Open, MailTypeOK, OutboxRow
<1>7. \A j \in Invites : Moves(j)
  BY <1>4, <1>6 DEF Moves
<1>8. MailTypeOK'
  BY <1>2, <1>4, <1>5 DEF MailTypeOK, Past
<1>9. Hands'
  BY <1>2, <1>5, <1>7, HandsKeep DEF Past
<1> QED
  BY <1>2, <1>7, <1>8, <1>9, MovesKeep DEF MailTypeOK

\* A failure before the boundary puts an unmarked row to rest or back in the queue.
LEMMA FailBeforeKeeps ==
  ASSUME MailInv, NEW w \in Workers, FailBefore(w)
  PROVE  MailInv'
<1> DEFINE i == worker[w].i
<1> USE DEF MailInv
<1>1. PICK permanent \in BOOLEAN, room \in BOOLEAN :
        row' = [row EXCEPT ![i] = Failed(i, permanent, room)]
  BY DEF FailBefore
<1>2. i \in Invites /\ Holds(row[i], worker[w].lease) /\ worker[w].pc = "holding"
  BY DEF FailBefore, MailTypeOK
<1>3. UNCHANGED <<invite, current, stage, mails, form, owner>>
  BY DEF FailBefore
<1>4. /\ row' \in [Invites -> OutboxRow]
      /\ row'[i].status \in {"CANCELED", "DEAD", "RETRY"} /\ row'[i].marked = row[i].marked
      /\ ~Live(i) => row'[i].status = "CANCELED"
      /\ \A j \in Invites : j # i => row'[j] = row[j]
  <2>1. /\ Failed(i, permanent, room) \in OutboxRow
        /\ Failed(i, permanent, room).status \in {"CANCELED", "DEAD", "RETRY"}
        /\ Failed(i, permanent, room).marked = row[i].marked
        /\ ~Live(i) => Failed(i, permanent, room).status = "CANCELED"
    <3>1. row[i] \in OutboxRow
      BY <1>2 DEF MailTypeOK
    <3>2. PICK st \in {"CANCELED", "DEAD", "RETRY"} :
            /\ Failed(i, permanent, room) = [row[i] EXCEPT !.status = st, !.due = FALSE]
            /\ ~Live(i) => st = "CANCELED"
      BY Zenon DEF Failed
    <3> QED
      BY <3>1, <3>2 DEF OutboxRow, Status
  <2> QED
    BY <1>1, <1>2, <2>1 DEF MailTypeOK
<1>5. /\ worker' \in [Workers -> Process]
      /\ worker'[w].pc \in {"claiming", "idle"}
      /\ \A v \in Workers : v # w => worker'[v] = worker[v]
  <2>1. CASE worker' = [worker EXCEPT ![w] = Idle]
    BY <2>1, Records DEF MailTypeOK, Idle
  <2>2. CASE worker' = [worker EXCEPT ![w].pc = "claiming"]
    BY <2>2 DEF MailTypeOK, Process
  <2> QED
    BY <2>1, <2>2 DEF FailBefore
<1>6. Before(i)
  BY <1>2, <1>4 DEF Before, Holds, Leased, Live, Lineage, Open
<1>7. \A j \in Invites : Moves(j)
  BY <1>4, <1>6 DEF Moves
<1>8. MailTypeOK'
  BY <1>3, <1>4, <1>5 DEF MailTypeOK, Past
<1>9. Hands'
  BY <1>3, <1>5, <1>7, HandsKeep DEF Past
<1> QED
  BY <1>3, <1>7, <1>8, <1>9, MovesKeep DEF MailTypeOK

\* The mark itself.  Nobody is past the boundary of an unmarked row, and nothing
\* has been mailed for it.
LEMMA MarkedKeeps ==
  ASSUME MailInv, NEW i \in Invites, NEW v, Holds(row[i], v),
         row' = [row EXCEPT ![i] = Marked(i)],
         UNCHANGED <<invite, current, stage, mails, form, owner>>
  PROVE  /\ RowsOK' /\ Lineage' /\ Registered'
         /\ row' \in [Invites -> OutboxRow]
         /\ \A j \in Invites : row[j].marked => row'[j].marked
         /\ Live(i) => row'[i].marked
         /\ mails[i] = 0
         /\ \A w \in Workers : worker[w].pc \in Past => worker[w].i # i
<1> USE DEF MailInv
<1>1. row[i] \in OutboxRow /\ row[i].status = "CLAIMED" /\ ~row[i].marked
  BY DEF MailTypeOK, Holds, Leased
<1>2. mails[i] = 0 /\ \A w \in Workers : worker[w].pc \in Past => worker[w].i # i
  BY <1>1 DEF RowsOK, Hands
<1>3. \A j \in Invites : j # i => row'[j] = row[j]
  BY DEF MailTypeOK
<1>4. CASE Live(i)
  <2>1. row'[i] = [row[i] EXCEPT !.marked = TRUE, !.due = FALSE]
    BY <1>4 DEF Marked, MailTypeOK
  <2>2. row'[i] \in OutboxRow /\ row'[i].status = "CLAIMED" /\ row'[i].marked
    <3>1. row'[i] \in OutboxRow
      <4>1. ASSUME NEW r \in OutboxRow
            PROVE  [r EXCEPT !.marked = TRUE, !.due = FALSE] \in OutboxRow
        BY Zenon DEF OutboxRow
      <4> QED
        BY <1>1, <2>1, <4>1
    <3>2. row'[i].status = "CLAIMED" /\ row'[i].marked = TRUE
      BY <1>1, <2>1 DEF OutboxRow
    <3> QED
      BY <3>1, <3>2
  <2>3. row' \in [Invites -> OutboxRow]
    BY <2>2 DEF MailTypeOK
  <2>4. RowsOK'
    BY <1>2, <1>3, <2>2 DEF RowsOK, Handed
  <2>5. i = current
    BY <1>1, <1>4 DEF Live, Lineage, MailTypeOK, Invites
  <2>6. Lineage'
    BY <1>1, <1>3, <2>2, <2>5 DEF Lineage
  <2>7. owner = NoOwner
    BY <1>4 DEF Live, Registered
  <2>8. Registered'
    BY <2>7 DEF Registered
  <2> QED
    BY <1>2, <1>3, <2>2, <2>3, <2>4, <2>6, <2>8
<1>5. CASE ~Live(i)
  <2>1. row'[i] = [row[i] EXCEPT !.status = "CANCELED"]
    BY <1>5 DEF Marked, MailTypeOK
  <2>2. row'[i] \in OutboxRow /\ row'[i].status = "CANCELED" /\ ~row'[i].marked
    BY <1>1, <2>1 DEF OutboxRow, Status
  <2>3. row' \in [Invites -> OutboxRow]
    BY <2>2 DEF MailTypeOK
  <2>4. Before(i)
    BY <1>1, <2>2 DEF Before, Open
  <2>5. \A j \in Invites : Moves(j)
    BY <1>3, <2>4 DEF Moves
  <2>6. RowsOK' /\ Lineage' /\ Registered'
    BY <2>5, MovesKeep DEF MailTypeOK
  <2> QED
    BY <1>1, <1>2, <1>3, <1>5, <2>3, <2>6
<1> QED
  BY <1>4, <1>5

\* The mark, before which nothing of this lease was mailed.
LEMMA MarkKeeps ==
  ASSUME MailInv, NEW w \in Workers, Mark(w)
  PROVE  MailInv'
<1> DEFINE i == worker[w].i
<1> USE DEF MailInv
<1>1. /\ i \in Invites /\ Holds(row[i], worker[w].lease)
      /\ row' = [row EXCEPT ![i] = Marked(i)]
      /\ UNCHANGED <<invite, current, stage, mails, form, owner>>
  BY DEF Mark, MailTypeOK
<1>2. /\ RowsOK' /\ Lineage' /\ Registered' /\ row' \in [Invites -> OutboxRow]
      /\ \A j \in Invites : row[j].marked => row'[j].marked
      /\ Live(i) => row'[i].marked
      /\ mails[i] = 0
      /\ \A v \in Workers : worker[v].pc \in Past => worker[v].i # i
  BY <1>1, MarkedKeeps
<1>3. /\ worker' \in [Workers -> Process]
      /\ worker'[w].pc = (IF Live(i) THEN "sending" ELSE "claiming")
      /\ worker'[w].i = i
      /\ \A v \in Workers : v # w => worker'[v] = worker[v]
  BY DEF Mark, MailTypeOK, Process, Past
<1>4. MailTypeOK'
  BY <1>1, <1>2, <1>3 DEF MailTypeOK, Past
<1>5. \A v \in Workers : worker[v].pc \in Past => worker[v].i \in Invites
  BY DEF MailTypeOK
<1>6. Hands'
  BY <1>1, <1>2, <1>3, <1>5 DEF Hands, Past
<1> QED
  BY <1>2, <1>4, <1>6

\* The same mark when its reply is lost, or no mark at all.
LEMMA MarkThrowsKeeps ==
  ASSUME MailInv, NEW w \in Workers, MarkThrows(w)
  PROVE  MailInv'
<1> DEFINE i == worker[w].i
<1> USE DEF MailInv
<1>1. i \in Invites /\ UNCHANGED <<invite, current, stage, mails, form, owner>>
  BY DEF MarkThrows, MailTypeOK
<1>2. /\ RowsOK' /\ Lineage' /\ Registered' /\ row' \in [Invites -> OutboxRow]
      /\ \A j \in Invites : row[j].marked => row'[j].marked
  <2>1. CASE UNCHANGED row
    BY <1>1, <2>1 DEF RowsOK, Lineage, Registered, MailTypeOK
  <2>2. CASE Holds(row[i], worker[w].lease) /\ row' = [row EXCEPT ![i] = Marked(i)]
    BY <1>1, <2>2, MarkedKeeps
  <2> QED
    BY <2>1, <2>2 DEF MarkThrows
<1>3. worker' = [worker EXCEPT ![w] = Idle]
  BY DEF MarkThrows
<1>4. /\ worker' \in [Workers -> Process] /\ worker'[w].pc = "idle"
      /\ \A v \in Workers : v # w => worker'[v] = worker[v]
  BY <1>3, Records DEF MailTypeOK, Idle
<1>5. MailTypeOK'
  BY <1>1, <1>2, <1>4 DEF MailTypeOK, Past
<1>6. \A v \in Workers : worker[v].pc \in Past => worker[v].i \in Invites
  BY DEF MailTypeOK
<1>7. Hands'
  BY <1>1, <1>2, <1>4, <1>6 DEF Hands, Past
<1> QED
  BY <1>2, <1>5, <1>7

\* SMTP: the one worker in front of it, and nothing mailed before.
LEMMA SendKeeps ==
  ASSUME MailInv, NEW w \in Workers, Send(w) \/ SendThrows(w)
  PROVE  MailInv'
<1> DEFINE i == worker[w].i
<1> USE DEF MailInv
<1>1. /\ i \in Invites /\ worker[w].pc = "sending"
      /\ UNCHANGED <<invite, row, current, stage, form, owner>>
  BY DEF Send, SendThrows, MailTypeOK, Past
<1>2. row[i].marked /\ mails[i] = 0
  BY <1>1 DEF Hands, Past
<1>3. PICK n \in {0, 1}, pc \in {"sent", "quarantine"} :
        /\ mails' = [mails EXCEPT ![i] = @ + n]
        /\ worker' = [worker EXCEPT ![w].pc = pc]
        /\ pc = "sent" => n = 1
  BY DEF Send, SendThrows
<1>4. /\ mails' \in [Invites -> Nat] /\ mails'[i] = n
      /\ \A j \in Invites : j # i => mails'[j] = mails[j]
  BY <1>1, <1>2, <1>3 DEF MailTypeOK
<1>5. /\ worker' \in [Workers -> Process] /\ worker'[w].pc = pc /\ worker'[w].i = i
      /\ \A v \in Workers : v # w => worker'[v] = worker[v]
  BY <1>3 DEF MailTypeOK, Process, Past
<1>6. MailTypeOK'
  BY <1>1, <1>4, <1>5 DEF MailTypeOK, Past
<1>7. RowsOK'
  <2>1. row[i].status # "SENT"
    BY <1>1, <1>2 DEF RowsOK
  <2> QED
    BY <1>1, <1>2, <1>4, <2>1 DEF RowsOK
<1>8. \A v \in Workers : v # w /\ worker[v].pc \in Past => worker[v].i # i
  BY <1>1 DEF Hands, Past
<1>9. \A v \in Workers : worker[v].pc \in Past => worker[v].i \in Invites
  BY DEF MailTypeOK
<1>10. Hands'
  BY <1>1, <1>2, <1>3, <1>4, <1>5, <1>8, <1>9 DEF Hands, Past
<1>11. Lineage' /\ Registered'
  BY <1>1 DEF Lineage, Registered
<1> QED
  BY <1>6, <1>7, <1>10, <1>11

\* The two completions behind the boundary end a marked claim.
LEMMA CompleteKeeps ==
  ASSUME MailInv, NEW w \in Workers, MarkSent(w) \/ Quarantine(w)
  PROVE  MailInv'
<1> DEFINE i == worker[w].i
<1> USE DEF MailInv
<1>1. /\ i \in Invites /\ worker[w].pc \in {"sent", "quarantine"}
      /\ UNCHANGED <<invite, current, stage, mails, form, owner>>
  BY DEF MarkSent, Quarantine, MailTypeOK, Past
<1>2. \/ UNCHANGED row
      \/ /\ Acknowledges(row[i], worker[w].lease)
         /\ \E st \in {"SENT", "RECONCILIATION_REQUIRED"} :
              /\ row' = [row EXCEPT ![i].status = st]
              /\ st = "SENT" => worker[w].pc = "sent"
  BY DEF MarkSent, Quarantine
<1>3. row' \in [Invites -> OutboxRow] /\ \A j \in Invites : Moves(j)
  <2>1. CASE UNCHANGED row
    BY <2>1 DEF MailTypeOK, Moves
  <2>2. ASSUME Acknowledges(row[i], worker[w].lease),
               NEW st \in {"SENT", "RECONCILIATION_REQUIRED"},
               row' = [row EXCEPT ![i].status = st],
               st = "SENT" => worker[w].pc = "sent"
        PROVE  row' \in [Invites -> OutboxRow] /\ \A j \in Invites : Moves(j)
    <3>1. /\ row' \in [Invites -> OutboxRow]
          /\ row'[i].status = st /\ row'[i].marked = row[i].marked
          /\ \A j \in Invites : j # i => row'[j] = row[j]
      BY <1>1, <2>2 DEF MailTypeOK, OutboxRow, Status
    <3>2. st = "SENT" => mails[i] = 1
      BY <2>2 DEF Hands, Past
    <3>3. After(i)
      BY <1>1, <2>2, <3>1, <3>2 DEF After, Acknowledges, Leased, Handed
    <3> QED
      BY <3>1, <3>3 DEF Moves
  <2> QED
    BY <1>2, <2>1, <2>2
<1>4. /\ worker' \in [Workers -> Process]
      /\ worker'[w].pc \in Past => worker'[w].pc = "quarantine" /\ worker'[w].i = i
      /\ \A v \in Workers : v # w => worker'[v] = worker[v]
  <2>1. CASE worker' = [worker EXCEPT ![w] = Idle]
    BY <2>1, Records DEF MailTypeOK, Idle, Past
  <2>2. ASSUME NEW pc \in {"claiming", "quarantine"},
               worker' = [worker EXCEPT ![w].pc = pc]
        PROVE  /\ worker' \in [Workers -> Process]
               /\ worker'[w].pc = pc /\ worker'[w].i = i
               /\ \A v \in Workers : v # w => worker'[v] = worker[v]
    BY <2>2 DEF MailTypeOK, Process, Past
  <2>3. \/ worker' = [worker EXCEPT ![w] = Idle]
        \/ \E pc \in {"claiming", "quarantine"} : worker' = [worker EXCEPT ![w].pc = pc]
    BY DEF MarkSent, Quarantine
  <2> QED
    BY <2>1, <2>2, <2>3 DEF Past
<1>5. MailTypeOK'
  <2>1. worker'[w].pc # "holding"
    BY DEF MarkSent, Quarantine, MailTypeOK, Process, Idle
  <2> QED
    BY <1>1, <1>3, <1>4, <2>1 DEF MailTypeOK
<1>6. Hands'
  BY <1>1, <1>3, <1>4, HandsKeep DEF Past
<1> QED
  BY <1>1, <1>3, <1>5, <1>6, MovesKeep DEF MailTypeOK

\* A cycle that ends and a process that dies touch nothing but the worker.
LEMMA RestKeeps ==
  ASSUME MailInv, NEW w \in Workers, EndCycle(w) \/ Crash(w)
  PROVE  MailInv'
<1> USE DEF MailInv
<1>1. /\ worker' = [worker EXCEPT ![w] = Idle]
      /\ UNCHANGED <<invite, row, current, stage, mails, form, owner>>
  BY DEF EndCycle, Crash
<1>2. /\ worker' \in [Workers -> Process] /\ worker'[w].pc = "idle"
      /\ \A v \in Workers : v # w => worker'[v] = worker[v]
  BY <1>1, Records DEF MailTypeOK, Idle
<1>3. MailTypeOK'
  BY <1>1, <1>2 DEF MailTypeOK, Past
<1>4. \A i \in Invites : Moves(i)
  BY <1>1 DEF Moves
<1>5. Hands'
  BY <1>1, <1>2, <1>4, HandsKeep DEF Past
<1> QED
  BY <1>1, <1>3, <1>4, <1>5, MovesKeep DEF MailTypeOK

-----------------------------------------------------------------------------
\* A deadline passes, an operator settles a quarantined row.
LEMMA RowStepKeeps ==
  ASSUME MailInv, NEW i \in Invites, Elapse(i) \/ Reconcile(i)
  PROVE  MailInv'
<1> USE DEF MailInv
<1>1. UNCHANGED <<invite, current, stage, worker, mails, form, owner>>
  BY DEF Elapse, Reconcile
<1>2. row' \in [Invites -> OutboxRow] /\ \A j \in Invites : Moves(j)
  <2>1. CASE Elapse(i)
    <3>1. /\ row' \in [Invites -> OutboxRow]
          /\ \A j \in Invites :
               row'[j].marked = row[j].marked /\ row'[j].status = row[j].status
      BY <2>1 DEF Elapse, MailTypeOK, OutboxRow
    <3> QED
      BY <3>1 DEF Moves
  <2>2. CASE Reconcile(i)
    <3>1. PICK st \in {"SENT", "DEAD"} :
            row' = [row EXCEPT ![i].status = st] /\ (st = "SENT" => mails[i] > 0)
      BY <2>2 DEF Reconcile
    <3>2. /\ row' \in [Invites -> OutboxRow]
          /\ row'[i].status = st /\ row'[i].marked = row[i].marked
          /\ \A j \in Invites : j # i => row'[j] = row[j]
      BY <3>1 DEF MailTypeOK, OutboxRow, Status
    <3>3. row[i].status = "RECONCILIATION_REQUIRED" /\ (st = "SENT" => mails[i] = 1)
      BY <2>2, <3>1 DEF Reconcile, RowsOK
    <3> QED
      BY <3>2, <3>3 DEF Moves, After, Handed, RowsOK
  <2> QED
    BY <2>1, <2>2
<1>3. MailTypeOK'
  BY <1>1, <1>2 DEF MailTypeOK
<1>4. Hands'
  <2>1. \A j \in Invites : row[j].marked => row'[j].marked
    BY <1>2 DEF Moves, Before, After
  <2> QED
    BY <1>1, <2>1 DEF Hands, MailTypeOK
<1> QED
  BY <1>1, <1>2, <1>3, <1>4, MovesKeep DEF MailTypeOK

\* An invite runs out; its row is left to the reaper.
LEMMA ExpireKeeps ==
  ASSUME MailInv, NEW i \in Invites, Expire(i)
  PROVE  MailInv'
<1> USE DEF MailInv
<1>1. UNCHANGED <<row, current, stage, worker, mails, form, owner>>
  BY DEF Expire
<1>2. /\ invite' \in [Invites -> UserInvite] /\ invite[i].state = "ACTIVE"
      /\ \A j \in Invites : /\ j # i => invite'[j] = invite[j]
                            /\ invite'[j].version = invite[j].version
                            /\ invite'[j].mode = invite[j].mode
  BY DEF Expire, MailTypeOK, UserInvite, InviteState
<1>3. MailTypeOK' /\ RowsOK' /\ Hands'
  BY <1>1, <1>2 DEF MailTypeOK, RowsOK, Hands
<1>4. Lineage'
  BY <1>1, <1>2 DEF Lineage
<1>5. Registered'
  BY <1>1, <1>2 DEF Registered, MailTypeOK
<1> QED
  BY <1>3, <1>4, <1>5

\* What stopping a delivery makes of the row of the current invite.
LEMMA CanceledKeeps ==
  ASSUME MailInv, NEW r, r = Canceled(row[current])
  PROVE  /\ r \in OutboxRow /\ r.marked = row[current].marked
         /\ r.status = row[current].status \/ r.status = "CANCELED"
         /\ r.status \in Open => r.marked
         /\ r.status = row[current].status \/ ~r.marked
<1> USE DEF MailInv
<1>1. row[current] \in OutboxRow
  BY DEF MailTypeOK
<1>2. CASE Cancelable(row[current])
  BY <1>1, <1>2 DEF Canceled, Cancelable, OutboxRow, Status, Open
<1>3. CASE ~Cancelable(row[current])
  BY <1>1, <1>3 DEF Canceled, Cancelable, OutboxRow, Open
<1> QED
  BY <1>2, <1>3

\* Revoke and publish cancel a row only while nothing was handed to SMTP.
LEMMA StopKeeps ==
  ASSUME MailInv, Revoke \/ PublishLink
  PROVE  MailInv'
<1> USE DEF MailInv
<1>1. /\ UNCHANGED <<current, stage, worker, mails, form, owner>>
      /\ stage = "OWNER_INVITED" /\ invite[current].state = "ACTIVE"
      /\ row' = [row EXCEPT ![current] = Canceled(row[current])]
  BY DEF Revoke, PublishLink
<1>2. /\ Canceled(row[current]) \in OutboxRow
      /\ Canceled(row[current]).marked = row[current].marked
      /\ \/ Canceled(row[current]).status = row[current].status
         \/ /\ Canceled(row[current]).status = "CANCELED"
            /\ ~Canceled(row[current]).marked
  BY CanceledKeeps
<1>3. /\ row' \in [Invites -> OutboxRow]
      /\ row'[current] = Canceled(row[current])
      /\ \A j \in Invites : j # current => row'[j] = row[j]
  BY <1>1, <1>2 DEF MailTypeOK
<1>4. /\ invite' \in [Invites -> UserInvite]
      /\ \A j \in Invites : j # current => invite'[j] = invite[j]
      /\ invite'[current].version = invite[current].version + 1
      /\ \/ invite'[current].mode = invite[current].mode
         \/ Cancelable(row[current])
  BY DEF Revoke, PublishLink, MailTypeOK, UserInvite, InviteState, Mode
<1>5. MailTypeOK'
  BY <1>1, <1>3, <1>4 DEF MailTypeOK
<1>6. RowsOK'
  BY <1>1, <1>2, <1>3 DEF RowsOK, MailTypeOK
<1>7. \A j \in Invites : row'[j].marked = row[j].marked
  BY <1>2, <1>3
<1>8. Hands'
  BY <1>1, <1>7 DEF Hands, MailTypeOK
<1>9. Lineage'
  <2>1. Cancelable(row[current]) => row'[current].status = "CANCELED"
    <3>1. row[current] \in OutboxRow
      BY DEF MailTypeOK
    <3> QED
      BY <1>3, <3>1 DEF Canceled, OutboxRow
  <2>2. invite'[current].mode = "LINK" => row'[current].status = "CANCELED"
    BY <1>2, <1>3, <1>4, <2>1 DEF Lineage, MailTypeOK
  <2>3. current \in Nat /\ ~(current > current) /\ ~(current < current)
    BY DEF MailTypeOK, Invites
  <2> QED
    BY <1>1, <1>3, <1>4, <2>2, <2>3 DEF Lineage
<1>10. Registered'
  <2>1. owner = NoOwner
    BY <1>1 DEF Registered
  <2>2. form # NoForm => form.i \in Invites /\ form.version \in Nat
    BY DEF MailTypeOK
  <2>3. invite[current].version \in Nat
    BY DEF MailTypeOK, UserInvite
  <2> QED
    BY <1>1, <1>4, <2>1, <2>2, <2>3 DEF Registered
<1> QED
  BY <1>5, <1>6, <1>8, <1>9, <1>10

\* A reissue revokes the old invite and adds the new one with its row.
LEMMA ReissueKeeps ==
  ASSUME MailInv, Reissue
  PROVE  MailInv'
<1> DEFINE n == current + 1
<1> USE DEF MailInv
<1>1. /\ UNCHANGED <<stage, worker, mails, form, owner>> /\ current' = n
      /\ stage = "OWNER_INVITED"
      /\ row' = [row EXCEPT ![current] = Canceled(row[current]), ![n] = NewRow]
  BY DEF Reissue, Replaceable
<1>2. n \in Invites /\ n # current /\ n > current /\ current \in Invites
  BY InviteAssumption DEF Reissue, MailTypeOK, Invites
<1>3. /\ Canceled(row[current]) \in OutboxRow
      /\ Canceled(row[current]).marked = row[current].marked
      /\ \/ Canceled(row[current]).status = row[current].status
         \/ /\ Canceled(row[current]).status = "CANCELED"
            /\ ~Canceled(row[current]).marked
      /\ Canceled(row[current]).status \in Open => Canceled(row[current]).marked
  BY CanceledKeeps
<1>4. /\ row' \in [Invites -> OutboxRow]
      /\ row'[current] = Canceled(row[current]) /\ row'[n] = NewRow
      /\ \A j \in Invites : j # current /\ j # n => row'[j] = row[j]
  BY <1>1, <1>2, <1>3, Records DEF MailTypeOK
<1>5. /\ invite' \in [Invites -> UserInvite]
      /\ \A j \in Invites : j # current /\ j # n => invite'[j] = invite[j]
      /\ invite'[current].state = "REVOKED"
      /\ invite'[current].version \in {invite[current].version, invite[current].version + 1}
      /\ \A j \in Invites : invite'[j].mode = invite[j].mode
      /\ invite'[n].version = invite[n].version
  <2>1. invite[current] \in UserInvite /\ invite[n] \in UserInvite
    BY <1>2 DEF MailTypeOK
  <2>2. PICK ver \in {invite[current].version, invite[current].version + 1} :
          invite' = [invite EXCEPT ![current].state = "REVOKED",
                                   ![current].version = ver,
                                   ![n].state = "ACTIVE"]
    BY Zenon DEF Reissue
  <2>3. ver \in Nat
    BY <2>1 DEF UserInvite
  <2>4. /\ invite'[n] = [invite[n] EXCEPT !.state = "ACTIVE"]
        /\ invite'[current] = [invite[current] EXCEPT !.state = "REVOKED", !.version = ver]
        /\ \A j \in Invites : j # current /\ j # n => invite'[j] = invite[j]
        /\ invite' = [j \in Invites |-> invite'[j]]
    BY <1>2, <2>2 DEF MailTypeOK
  <2>5. /\ invite'[n] \in UserInvite /\ invite'[n].mode = invite[n].mode
        /\ invite'[n].version = invite[n].version
    BY <2>1, <2>4 DEF UserInvite, InviteState
  <2>6. /\ invite'[current] \in UserInvite /\ invite'[current].mode = invite[current].mode
        /\ invite'[current].version = ver /\ invite'[current].state = "REVOKED"
    BY <2>1, <2>3, <2>4 DEF UserInvite, InviteState
  <2>7. \A j \in Invites : invite'[j] \in UserInvite /\ invite'[j].mode = invite[j].mode
    BY <2>4, <2>5, <2>6 DEF MailTypeOK
  <2> QED
    BY <2>4, <2>5, <2>6, <2>7
<1>6. MailTypeOK'
  BY <1>1, <1>2, <1>4, <1>5 DEF MailTypeOK
<1>7. /\ NewRow.status = "PENDING" /\ NewRow.marked = FALSE
      /\ ~row[n].marked /\ mails[n] = 0 /\ invite[n].mode = "EMAIL"
  BY <1>2 DEF NewRow, Lineage, RowsOK
<1>8. RowsOK'
  BY <1>1, <1>2, <1>3, <1>4, <1>7 DEF RowsOK
<1>9. \A j \in Invites : row[j].marked => row'[j].marked
  BY <1>3, <1>4, <1>7
<1>10. Hands'
  BY <1>1, <1>9 DEF Hands, MailTypeOK
<1>11. Lineage'
  <2> SUFFICES ASSUME NEW j \in Invites
               PROVE /\ j > n => /\ row'[j].status = "NONE" /\ ~row'[j].marked
                                 /\ invite'[j].state = "NONE" /\ invite'[j].mode = "EMAIL"
                     /\ j < n => /\ invite'[j].state = "REVOKED"
                                 /\ row'[j].status \in Open => row'[j].marked
                     /\ invite'[j].mode = "LINK" => row'[j].status = "CANCELED"
    BY <1>1 DEF Lineage
  <2>1. CASE j = current
    BY <1>2, <1>3, <1>4, <1>5, <2>1 DEF Lineage, MailTypeOK, Invites
  <2>2. CASE j = n
    BY <1>2, <1>5, <1>7, <2>2 DEF Invites
  <2>3. CASE j # current /\ j # n
    <3>1. (j > n => j > current) /\ (j < n => j < current)
      BY <1>2, <2>3 DEF Invites
    <3>2. row'[j] = row[j] /\ invite'[j] = invite[j]
      BY <1>4, <1>5, <2>3
    <3> QED
      BY <3>1, <3>2 DEF Lineage
  <2> QED
    BY <2>1, <2>2, <2>3
<1>12. Registered'
  <2>1. owner = NoOwner
    BY <1>1 DEF Registered
  <2>2. form # NoForm => form.i \in Invites /\ form.version \in Nat
    BY DEF MailTypeOK
  <2>3. \A j \in Invites : invite[j].version \in Nat
                         /\ invite'[j].version >= invite[j].version
    BY <1>2, <1>5 DEF MailTypeOK, UserInvite
  <2>4. \A j \in Invites : invite'[j].mode = invite[j].mode
    BY <1>5
  <2>5. ASSUME form # NoForm
        PROVE  /\ form.version <= invite'[form.i].version
               /\ form.version = invite'[form.i].version => form.mode = invite'[form.i].mode
    <3>1. invite'[form.i].version \in Nat
      BY <1>5, <2>2, <2>5 DEF UserInvite
    <3> QED
      BY <2>2, <2>3, <2>4, <2>5, <3>1 DEF Registered
  <2> QED
    BY <1>1, <2>1, <2>5 DEF Registered
<1> QED
  BY <1>6, <1>8, <1>10, <1>11, <1>12

\* The registrant opens or closes the form.
LEMMA FormKeeps ==
  ASSUME MailInv, CloseForm \/ \E i \in Invites : OpenForm(i)
  PROVE  MailInv'
<1> USE DEF MailInv
<1>1. UNCHANGED <<invite, row, current, stage, worker, mails, owner>>
  BY DEF OpenForm, CloseForm
<1>2. \/ form' = NoForm
      \/ \E i \in Invites :
            form' = [i |-> i, mode |-> invite[i].mode, version |-> invite[i].version]
  BY DEF OpenForm, CloseForm
<1>3. /\ form' \in [i : {0} \cup Invites, mode : Mode, version : Nat]
      /\ form' = NoForm \/ form'.i \in Invites
  BY <1>2 DEF MailTypeOK, UserInvite, NoForm, Mode
<1>4. MailTypeOK' /\ RowsOK' /\ Hands' /\ Lineage'
  BY <1>1, <1>3 DEF MailTypeOK, RowsOK, Hands, Lineage
<1>5. form' # NoForm => /\ form'.version <= invite'[form'.i].version
                        /\ form'.mode = invite'[form'.i].mode
  BY <1>1, <1>2 DEF MailTypeOK, UserInvite
<1>6. Registered'
  BY <1>1, <1>5 DEF Registered
<1> QED
  BY <1>4, <1>6

\* The acceptance closes the only open invite.
LEMMA AcceptKeeps ==
  ASSUME MailInv, Accept
  PROVE  MailInv'
<1> DEFINE i == form.i
<1> USE DEF MailInv
<1>1. /\ i \in Invites /\ Registrable(i) /\ owner = NoOwner
      /\ invite[i].version = form.version
      /\ UNCHANGED <<row, current, worker, mails>>
      /\ form' = NoForm /\ stage' = "ONBOARDING"
  BY DEF Accept, Unchanged, MailTypeOK
<1>2. i = current /\ form.mode = invite[i].mode /\ form # NoForm
  BY <1>1 DEF Accept, Registrable, Live, Lineage, Registered, MailTypeOK, Invites
<1>3. owner' = [i |-> i, verified |-> form.mode = "EMAIL"]
  BY DEF Accept
<1>4. /\ invite' \in [Invites -> UserInvite]
      /\ invite'[i].state = "ACCEPTED" /\ invite'[i].mode = invite[i].mode
      /\ \A j \in Invites : j # i => invite'[j] = invite[j]
  BY <1>1 DEF Accept, MailTypeOK, UserInvite, InviteState
<1>5. MailTypeOK'
  <2>1. owner' \in [i : {0} \cup Invites, verified : BOOLEAN]
    BY <1>1, <1>3
  <2>2. NoForm \in [i : {0} \cup Invites, mode : Mode, version : Nat]
    BY DEF NoForm, Mode
  <2> QED
    BY <1>1, <1>4, <2>1, <2>2 DEF MailTypeOK
<1>6. RowsOK' /\ Hands'
  BY <1>1 DEF RowsOK, Hands
<1>7. Lineage'
  <2>1. ~(current > current) /\ ~(current < current)
    BY DEF MailTypeOK, Invites
  <2> QED
    BY <1>1, <1>2, <1>4, <2>1 DEF Lineage
<1>8. Registered'
  <2>1. owner'.i = i /\ owner' # NoOwner
    BY <1>1, <1>3 DEF NoOwner, Invites
  <2>2. owner'.verified => row'[i].status = "SENT"
    BY <1>1, <1>2, <1>3 DEF Registrable
  <2>3. ~owner'.verified => invite'[i].mode = "LINK"
    BY <1>1, <1>2, <1>3, <1>4 DEF Registrable
  <2> QED
    BY <1>1, <1>2, <1>4, <2>1, <2>2, <2>3 DEF Registered
<1> QED
  BY <1>5, <1>6, <1>7, <1>8

-----------------------------------------------------------------------------
\* Every step keeps the invariant.
LEMMA MailStep == MailInv /\ [Next]_vars => MailInv'
<1> SUFFICES ASSUME MailInv, [Next]_vars PROVE MailInv'
  OBVIOUS
<1>1. CASE UNCHANGED vars
  BY <1>1 DEF vars, MailInv, MailTypeOK, RowsOK, Hands, Lineage, Registered
<1>2. ASSUME NEW w \in Workers, WorkerStep(w) \/ Crash(w) PROVE MailInv'
  BY <1>2, ReapKeeps, ClaimKeeps, FailBeforeKeeps, MarkKeeps, MarkThrowsKeeps, SendKeeps,
     CompleteKeeps, RestKeeps DEF WorkerStep
<1>3. ASSUME NEW i \in Invites, Elapse(i) \/ Expire(i) \/ Reconcile(i) \/ OpenForm(i)
      PROVE MailInv'
  BY <1>3, RowStepKeeps, ExpireKeeps, FormKeeps
<1>4. CASE Revoke \/ PublishLink \/ Reissue \/ Accept \/ CloseForm
  BY <1>4, StopKeeps, ReissueKeeps, AcceptKeeps, FormKeeps
<1> QED
  BY <1>1, <1>2, <1>3, <1>4 DEF Next

\* The invariant holds in every state.
LEMMA MailKept == Spec => []MailInv
  BY MailInit, MailStep, PTL DEF Spec

\* The types, and with them the attempt budget: no row is claimed more often
\* than the policy's maxAttempts.
THEOREM MailTyped == Spec => []MailTypeOK
<1>1. MailInv => MailTypeOK
  BY DEF MailInv
<1> QED
  BY <1>1, MailKept, PTL

\* The mail of an invite is given to SMTP at most once, for any number of
\* workers, crashes, stalls, lost replies and retries.
THEOREM MailedOnce == Spec => []AtMostOneMail
<1>1. MailInv => AtMostOneMail
  BY DEF MailInv, AtMostOneMail, RowsOK
<1> QED
  BY <1>1, MailKept, PTL

\* A delivery that was stopped, or is to be retried, has mailed nothing and no
\* worker is about to.
THEOREM StoppedStays == Spec => []StoppedBeforeMail
<1>1. MailInv => StoppedBeforeMail
  BY DEF MailInv, StoppedBeforeMail, RowsOK, Hands, Handed, Past
<1> QED
  BY <1>1, MailKept, PTL

\* Only the newest invite is open or on its way, and none once there is an owner.
THEOREM OneInviteOpen == Spec => []OneWayIn
<1>1. MailInv => OneWayIn
  <2> SUFFICES ASSUME MailInv PROVE OneWayIn
    OBVIOUS
  <2>1. \A i \in Invites : i < current =>
          /\ invite[i].state = "REVOKED"
          /\ row[i].status \in {"PENDING", "RETRY", "CLAIMED"} => row[i].marked
    BY DEF MailInv, Lineage, Open
  <2>2. ASSUME owner # NoOwner, NEW i \in Invites PROVE invite[i].state # "ACTIVE"
    BY <2>2 DEF MailInv, Lineage, Registered, MailTypeOK, Invites
  <2> QED
    BY <2>1, <2>2 DEF OneWayIn
<1> QED
  BY <1>1, MailKept, PTL

\* A verified owner was mailed the invite and its delivery is on record; an owner
\* who came by the link was mailed nothing.
THEOREM VerifiedMeansMailed == Spec => []VerifiedByMail
<1>1. MailInv => VerifiedByMail
  <2> SUFFICES ASSUME MailInv, owner # NoOwner
               PROVE /\ invite[owner.i].state = "ACCEPTED"
                     /\ owner.verified <=> row[owner.i].status = "SENT"
                     /\ mails[owner.i] = IF owner.verified THEN 1 ELSE 0
    BY DEF VerifiedByMail
  <2>1. owner.i \in Invites /\ invite[owner.i].state = "ACCEPTED"
    BY DEF MailInv, Registered, MailTypeOK
  <2>2. CASE owner.verified
    BY <2>1, <2>2 DEF MailInv, Registered, RowsOK
  <2>3. CASE ~owner.verified
    <3>1. row[owner.i].status = "CANCELED"
      BY <2>1, <2>3 DEF MailInv, Registered, Lineage
    <3> QED
      BY <2>1, <2>3, <3>1 DEF MailInv, RowsOK, Handed
  <2> QED
    BY <2>1, <2>2, <2>3
<1> QED
  BY <1>1, MailKept, PTL

\* A worker whose claim is no longer the row's changes no row: every call it makes
\* carries the lease it was given.
THEOREM LateWorkersFenced == Spec => LateWorkerChangesNothing
<1>1. MailInv /\ [Next]_vars =>
        [\A w \in Workers :
           /\ worker[w].pc \in {"holding", "sent", "quarantine"}
           /\ worker'[w] # worker[w]
           /\ \/ row[worker[w].i].status # "CLAIMED"
              \/ row[worker[w].i].attempts # worker[w].lease
           => UNCHANGED row]_vars
  <2> SUFFICES ASSUME MailInv, Next, NEW w \in Workers,
                      worker[w].pc \in {"holding", "sent", "quarantine"},
                      worker'[w] # worker[w],
                      \/ row[worker[w].i].status # "CLAIMED"
                      \/ row[worker[w].i].attempts # worker[w].lease
               PROVE  UNCHANGED row
    OBVIOUS
  <2>1. ASSUME NEW v \in Workers, WorkerStep(v) \/ Crash(v), v # w PROVE FALSE
    <3>1. worker'[w] = worker[w]
      BY <2>1 DEF WorkerStep, Reap, Claim, EndCycle, FailBefore, Mark, MarkThrows, Send,
         SendThrows, MarkSent, Quarantine, Crash, MailInv, MailTypeOK
    <3> QED
      BY <3>1
  <2>2. ASSUME WorkerStep(w) \/ Crash(w) PROVE UNCHANGED row
    BY <2>2 DEF WorkerStep, Reap, Claim, EndCycle, FailBefore, Mark, MarkThrows, Send,
       SendThrows, MarkSent, Quarantine, Crash, Holds, Acknowledges, Leased
  <2>3. CASE \/ \E i \in Invites : Elapse(i) \/ Expire(i) \/ Reconcile(i) \/ OpenForm(i)
             \/ Revoke \/ PublishLink \/ Reissue \/ Accept \/ CloseForm
    BY <2>3 DEF Elapse, Expire, Reconcile, OpenForm, Revoke, PublishLink, Reissue, Accept,
       CloseForm
  <2> QED
    BY <2>1, <2>2, <2>3 DEF Next
<1> QED
  BY <1>1, MailKept, PTL DEF Spec, LateWorkerChangesNothing
-----------------------------------------------------------------------------
Ends == {"SENT", "DEAD", "CANCELED"}

\* What no call takes back: the marker, and the end of a delivery.
ForGood ==
  \A i \in Invites :
    /\ row[i].marked => row'[i].marked
    /\ row[i].status \in Ends =>
         row'[i].status = row[i].status /\ row'[i].marked = row[i].marked

\* Whatever is done to a row, its marker and its end are for good.
LEMMA RowsForGood ==
  ASSUME MailInv, Next
  PROVE  ForGood
<1> USE DEF MailInv
<1>1. ASSUME UNCHANGED row PROVE ForGood
  BY <1>1 DEF ForGood
<1>2. ASSUME NEW w \in Workers, Reap(w) PROVE ForGood
  <2>1. PICK batch \in SUBSET Invites, room \in [Invites -> BOOLEAN] :
          /\ \A i \in batch : Reapable(i)
          /\ row' = [i \in Invites |-> IF i \in batch THEN Reaped(i, room[i]) ELSE row[i]]
    BY <1>2 DEF Reap
  <2>2. \A i \in batch : row[i].status \notin Ends /\ row'[i].marked = row[i].marked
    BY <2>1 DEF Reapable, Reaped, Ends, MailTypeOK, OutboxRow
  <2> QED
    BY <2>1, <2>2 DEF ForGood
<1>3. ASSUME NEW w \in Workers, Claim(w) PROVE ForGood
  <2>1. PICK i \in Invites :
          /\ Claimable(i)
          /\ row' = [row EXCEPT ![i].status = "CLAIMED", ![i].due = FALSE,
                                ![i].attempts = row[i].attempts + 1]
    BY <1>3 DEF Claim
  <2> QED
    BY <2>1 DEF Claimable, Ends, ForGood, MailTypeOK, OutboxRow
<1>4. ASSUME NEW w \in Workers, FailBefore(w) PROVE ForGood
  <2>1. /\ worker[w].i \in Invites /\ row[worker[w].i].status = "CLAIMED"
        /\ ~row[worker[w].i].marked
    BY <1>4 DEF FailBefore, Holds, Leased, MailTypeOK
  <2>2. \A j \in Invites : j # worker[w].i => row'[j] = row[j]
    BY <1>4 DEF FailBefore, MailTypeOK
  <2> QED
    BY <2>1, <2>2 DEF ForGood, Ends
<1>5. ASSUME NEW w \in Workers, Mark(w) \/ MarkThrows(w) PROVE ForGood
  <2>1. \/ UNCHANGED row
        \/ /\ Holds(row[worker[w].i], worker[w].lease) /\ worker[w].i \in Invites
           /\ row' = [row EXCEPT ![worker[w].i] = Marked(worker[w].i)]
    BY <1>5 DEF Mark, MarkThrows, MailTypeOK
  <2> QED
    BY <1>1, <2>1 DEF Holds, Leased, ForGood, Ends, MailTypeOK
<1>6. ASSUME NEW w \in Workers, MarkSent(w) \/ Quarantine(w) PROVE ForGood
  <2>1. \/ UNCHANGED row
        \/ /\ Acknowledges(row[worker[w].i], worker[w].lease) /\ worker[w].i \in Invites
           /\ \E st \in {"SENT", "RECONCILIATION_REQUIRED"} :
                row' = [row EXCEPT ![worker[w].i].status = st]
    BY <1>6 DEF MarkSent, Quarantine, MailTypeOK, Past
  <2> QED
    BY <1>1, <2>1 DEF Acknowledges, Leased, ForGood, Ends, MailTypeOK, OutboxRow
<1>7. ASSUME NEW i \in Invites, Elapse(i) \/ Reconcile(i) PROVE ForGood
  <2>1. CASE Elapse(i)
    <3>1. \A j \in Invites : row'[j].marked = row[j].marked /\ row'[j].status = row[j].status
      BY <2>1 DEF Elapse, MailTypeOK, OutboxRow
    <3> QED
      BY <3>1 DEF ForGood
  <2>2. CASE Reconcile(i)
    <3>1. PICK st \in {"SENT", "DEAD"} : row' = [row EXCEPT ![i].status = st]
      BY <2>2 DEF Reconcile
    <3>2. /\ row'[i].marked = row[i].marked /\ row[i].status \notin Ends
          /\ \A j \in Invites : j # i => row'[j] = row[j]
      BY <2>2, <3>1 DEF Reconcile, MailTypeOK, OutboxRow, Ends
    <3> QED
      BY <3>2 DEF ForGood
  <2> QED
    BY <1>7, <2>1, <2>2
<1>8. CASE Revoke \/ PublishLink
  <2>1. row' = [row EXCEPT ![current] = Canceled(row[current])] /\ current \in Invites
    BY <1>8 DEF Revoke, PublishLink, MailTypeOK
  <2>2. CASE Cancelable(row[current])
    BY <2>1, <2>2 DEF Canceled, Cancelable, ForGood, Ends, MailTypeOK, OutboxRow
  <2>3. CASE ~Cancelable(row[current])
    BY <2>1, <2>3 DEF Canceled, ForGood, MailTypeOK
  <2> QED
    BY <2>2, <2>3
<1>9. CASE Reissue
  <2>1. /\ current \in Invites /\ current + 1 \in Invites /\ current + 1 # current
        /\ row[current + 1].status = "NONE" /\ ~row[current + 1].marked
    <3>1. current \in Invites /\ current < MaxInvites
      BY <1>9 DEF Reissue, MailTypeOK
    <3>2. current + 1 \in Invites /\ current + 1 > current /\ current + 1 # current
      BY <3>1, InviteAssumption DEF Invites
    <3> QED
      BY <3>1, <3>2 DEF Lineage
  <2>2. /\ row'[current] = Canceled(row[current])
        /\ \A j \in Invites : j # current /\ j # current + 1 => row'[j] = row[j]
    BY <1>9, <2>1 DEF Reissue, MailTypeOK
  <2>3. /\ row[current].marked => row'[current].marked
        /\ row[current].status \in Ends => row'[current] = row[current]
    BY <2>1, <2>2 DEF Canceled, Cancelable, Ends, MailTypeOK, OutboxRow
  <2> QED
    BY <2>1, <2>2, <2>3 DEF ForGood, Ends
<1>10. ASSUME NEW w \in Workers, EndCycle(w) \/ Send(w) \/ SendThrows(w) \/ Crash(w)
       PROVE ForGood
  BY <1>1, <1>10 DEF EndCycle, Send, SendThrows, Crash
<1>11. ASSUME NEW i \in Invites, Expire(i) \/ OpenForm(i) PROVE ForGood
  BY <1>1, <1>11 DEF Expire, OpenForm
<1>12. CASE Accept \/ CloseForm
  BY <1>1, <1>12 DEF Accept, CloseForm
<1> QED
  BY <1>2, <1>3, <1>4, <1>5, <1>6, <1>7, <1>8, <1>9, <1>10, <1>11, <1>12
     DEF Next, WorkerStep

\* SMTP is the only one to count a mail, behind the marker and for the first time.
LEMMA OnlySmtpMails ==
  ASSUME MailInv, Next
  PROVE  \/ UNCHANGED mails
         \/ /\ UNCHANGED row
            /\ \E i \in Invites : /\ row[i].marked /\ mails[i] = 0
                                  /\ mails' = [mails EXCEPT ![i] = 1]
<1> USE DEF MailInv
<1>1. ASSUME NEW w \in Workers, Send(w) \/ SendThrows(w)
      PROVE  \/ UNCHANGED mails
             \/ /\ UNCHANGED row
                /\ \E i \in Invites : /\ row[i].marked /\ mails[i] = 0
                                      /\ mails' = [mails EXCEPT ![i] = 1]
  <2> DEFINE i == worker[w].i
  <2>1. i \in Invites /\ row[i].marked /\ mails[i] = 0 /\ UNCHANGED row
    BY <1>1 DEF Send, SendThrows, MailTypeOK, Past, Hands
  <2>2. PICK n \in {0, 1} : mails' = [mails EXCEPT ![i] = @ + n]
    BY <1>1 DEF Send, SendThrows
  <2>3. CASE n = 1
    <3>1. mails' = [mails EXCEPT ![i] = 1]
      BY <2>1, <2>2, <2>3 DEF MailTypeOK
    <3> QED
      BY <2>1, <3>1
  <2>4. CASE n = 0
    BY <2>1, <2>2, <2>4 DEF MailTypeOK
  <2> QED
    BY <2>3, <2>4
<1>2. ASSUME NEW w \in Workers,
             \/ Reap(w) \/ Claim(w) \/ EndCycle(w) \/ FailBefore(w) \/ Mark(w)
             \/ MarkThrows(w) \/ MarkSent(w) \/ Quarantine(w) \/ Crash(w)
      PROVE  UNCHANGED mails
  BY <1>2 DEF Reap, Claim, EndCycle, FailBefore, Mark, MarkThrows, MarkSent, Quarantine,
     Crash
<1>3. CASE \/ \E i \in Invites : Elapse(i) \/ Expire(i) \/ Reconcile(i) \/ OpenForm(i)
           \/ Revoke \/ PublishLink \/ Reissue \/ Accept \/ CloseForm
  BY <1>3 DEF Elapse, Expire, Reconcile, OpenForm, Revoke, PublishLink, Reissue, Accept,
     CloseForm
<1> QED
  BY <1>1, <1>2, <1>3 DEF Next, WorkerStep

\* A step that mails nothing settles rows, each by itself.
LEMMA QuietStepSettles ==
  ASSUME MailInv, MailInv', ForGood, UNCHANGED mails
  PROVE  Abs!Settle
<1>1. ASSUME NEW i \in Invites PROVE Abs!Move(i) /\ MailPhase(i)' \in Abs!PhaseSet
  <2>2. MailPhase(i) \in {"owed", "open", "paid", "void"}
        /\ MailPhase(i)' \in {"owed", "open", "paid", "void"}
    BY Zenon DEF MailPhase
  <2>3. \/ mails[i] = 1 /\ MailPhase(i) = "open"
        \/ MailPhase(i)' # "paid"
        \/ MailPhase(i) = "paid"
    BY DEF MailInv, RowsOK, MailPhase, Handed
  <2>4. MailPhase(i) \in {"paid", "void"} => MailPhase(i)' = MailPhase(i)
    BY DEF ForGood, Ends, MailInv, RowsOK, MailPhase, Handed
  <2>5. MailPhase(i) = "open" => MailPhase(i)' \in {"open", "paid"}
    BY DEF ForGood, Ends, MailInv, RowsOK, MailPhase, Handed
  <2>6. \/ MailPhase(i)' = MailPhase(i)
        \/ MailPhase(i) = "owed" /\ MailPhase(i)' \in {"open", "void"}
        \/ MailPhase(i) = "open" /\ MailPhase(i)' = "paid" /\ mails[i] = 1
    BY <2>2, <2>3, <2>4, <2>5
  <2> QED
    BY <2>2, <2>6 DEF Abs!Move, Abs!PhaseSet
<1> QED
  BY <1>1 DEF Abs!Settle

\* SMTP takes the mail of an open row.
LEMMA SmtpPays ==
  ASSUME MailInv, UNCHANGED row, NEW i \in Invites, row[i].marked, mails[i] = 0,
         mails' = [mails EXCEPT ![i] = 1]
  PROVE  Abs!Pay(i)
<1>1. MailPhase(i) = "open"
  BY DEF MailInv, RowsOK, MailPhase, Handed
<1>2. \A j \in Invites : MailPhase(j)' = MailPhase(j)
  BY DEF MailPhase
<1> QED
  BY <1>1, <1>2 DEF Abs!Pay

\* The outbox implements PayOnce: the mail of each invite is handed over at most
\* once, only while its row says that the outcome is open, and the row says SENT
\* only of a mail that left.
THEOREM ImplementsMailOnce == Spec => MailsOnce
<1>1. Init => Abs!AbsInit
  <2> SUFFICES ASSUME Init PROVE Abs!AbsInit
    OBVIOUS
  <2>1. \A i \in Invites : MailPhase(i) = "owed"
    BY DEF Init, MailPhase, NewRow, NoRow
  <2> QED
    BY <2>1 DEF Init, Abs!AbsInit
<1>2. MailInv /\ MailInv' /\ [Next]_vars 
        => [Abs!AbsNext]_<<[i \in Invites |-> MailPhase(i)], mails>>
  <2> SUFFICES ASSUME MailInv, MailInv', [Next]_vars
               PROVE  Abs!AbsNext \/ UNCHANGED <<[i \in Invites |-> MailPhase(i)], mails>>
    OBVIOUS
  <2>1. CASE UNCHANGED vars
    BY <2>1 DEF vars, MailPhase
  <2>2. CASE Next /\ UNCHANGED mails
    BY <2>2, RowsForGood, QuietStepSettles DEF Abs!AbsNext
  <2>3. CASE Next /\ ~UNCHANGED mails
    BY <2>3, OnlySmtpMails, SmtpPays DEF Abs!AbsNext
  <2> QED
    BY <2>1, <2>2, <2>3
<1> QED
  BY <1>1, <1>2, MailKept, PTL DEF Spec, MailsOnce, Abs!AbsSpec
=============================================================================
