--------------------------- MODULE OwnerInviteMail ---------------------------
(***************************************************************************)
(* The first owner's invite of one tenant and the worker that mails it:   *)
(*   - founder-owner-invite-lifecycle.service.ts and the SQL function      *)
(*     founder_owner_invite_reissue_v1: revoke, publish as a link, reissue; *)
(*   - identity-mail-worker: reap, claim, provider marker, SMTP, completion, *)
(*     over the SQL functions of the mail delivery boundary;                *)
(*   - auth.service.ts: the registration that accepts the invite.           *)
(*                                                                         *)
(* Each SQL function and each service transaction takes the same tenant    *)
(* advisory lock, so each is one step.  Between two of them a worker may    *)
(* stall, crash or lose the reply of a call that committed.                *)
(*                                                                         *)
(* The model starts when the activation command has issued and released    *)
(* the first invite.  Wall-clock time is the flag "due" of a row: its      *)
(* current deadline (availableAt of a RETRY, leaseExpiresAt of a claim,     *)
(* providerAcknowledgeUntil of a marked claim) has passed.  leaseVersion    *)
(* equals attempts and identifies a lease: every claim has a fresh token.  *)
(* The sealed token is in the row exactly while the row is Cancelable.     *)
(***************************************************************************)
EXTENDS Naturals, FiniteSets

CONSTANTS
    Workers,      \* processes of identity-mail-worker.cli.ts
    MaxInvites,   \* bound: how many times the invite is issued
    MaxAttempts,  \* the policy's maxAttempts
    BatchSize     \* config.batchSize: rows reaped, and claimed, per cycle

ASSUME InviteAssumption ==
    /\ MaxInvites \in Nat \ {0}
    /\ MaxAttempts \in Nat \ {0}
    /\ BatchSize \in Nat \ {0}

VARIABLES
    invite,   \* UserInvite rows: state, deliveryMode, version (updatedAt)
    row,      \* IdentityMailOutbox rows, one per invite
    current,  \* the invite of the latest activation or reissue command
    stage,    \* Tenant.onboardingStatus
    worker,   \* a worker's place in runOnce and processClaim
    mails,    \* how many times SMTP took the mail of an invite
    form,     \* the invite as a registration read it before its transaction
    owner     \* the owner's account, once there is one

vars == <<invite, row, current, stage, worker, mails, form, owner>>

Invites == 1 .. MaxInvites
InviteState == {"NONE", "ACTIVE", "EXPIRED", "REVOKED", "ACCEPTED"}
Status == {"NONE", "PENDING", "CLAIMED", "RETRY", "SENT", "DEAD", "CANCELED",
           "RECONCILIATION_REQUIRED"}
NoForm == [i |-> 0, mode |-> "EMAIL", version |-> 0]
NoOwner == [i |-> 0, verified |-> FALSE]
Idle == [pc |-> "idle", i |-> 0, lease |-> 0, left |-> 0]
NewRow == [status |-> "PENDING", attempts |-> 0, marked |-> FALSE, due |-> TRUE]
NoRow == [NewRow EXCEPT !.status = "NONE"]

-----------------------------------------------------------------------------
(***************************************************************************)
(* What the SQL functions ask of a row.                                    *)
(***************************************************************************)

\* The invite_live query: the invite is open, its tenant still awaits an owner.
Live(i) == invite[i].state = "ACTIVE" /\ stage = "OWNER_INVITED"

BugCancelable(r) == r.status \in {"PENDING", "RETRY", "CLAIMED"}

\* Delivery can still be stopped: nothing has been handed to the provider.
Cancelable(r) == r.status \in {"PENDING", "RETRY", "CLAIMED"} /\ ~r.marked

Claimable(i) ==
    /\ row[i].status \in {"PENDING", "RETRY"}
    /\ row[i].due
    /\ row[i].attempts < MaxAttempts
    /\ Live(i)

BugLeased(r, v) == r.status = "CLAIMED"

\* The compare-and-set of a call made under lease v: still that claim.
Leased(r, v) == r.status = "CLAIMED" /\ r.attempts = v

\* The mark and the pre-provider completions: unmarked, lease not expired.
Holds(r, v) == Leased(r, v) /\ ~r.marked /\ ~r.due

\* The provider completions: marked, acknowledgement window still open.
Acknowledges(r, v) == Leased(r, v) /\ r.marked /\ ~r.due

BugMarked(i) ==
    IF Live(i) THEN [row[i] EXCEPT !.due = FALSE]
               ELSE [row[i] EXCEPT !.status = "CANCELED"]

\* The row after a mark that passed its compare-and-set.
Marked(i) ==
    IF Live(i) THEN [row[i] EXCEPT !.marked = TRUE, !.due = FALSE]
               ELSE [row[i] EXCEPT !.status = "CANCELED"]

\* The row after a pre-provider failure; room: the next try fits before expiry.
Failed(i, permanent, room) ==
    [row[i] EXCEPT
        !.status = IF ~Live(i) THEN "CANCELED"
                   ELSE IF permanent \/ row[i].attempts >= MaxAttempts THEN "DEAD"
                   ELSE IF room THEN "RETRY" ELSE "CANCELED",
        !.due = FALSE]

BugReapable(i) ==
    \/ row[i].status = "CLAIMED" /\ row[i].due
    \/ row[i].status \in {"PENDING", "RETRY"} /\ ~Live(i)

\* The rows the reaper selects.
Reapable(i) ==
    \/ row[i].status = "CLAIMED" /\ row[i].due
    \/ /\ row[i].status \in {"PENDING", "RETRY"}
       /\ \/ ~Live(i)
          \/ row[i].status = "RETRY" /\ row[i].attempts >= MaxAttempts

BugReaped(i, room) ==
    [row[i] EXCEPT
        !.status = IF ~Live(i) THEN "CANCELED"
                   ELSE IF row[i].status = "RETRY" THEN "DEAD"
                   ELSE IF room THEN "RETRY" ELSE "CANCELED",
        !.marked = FALSE, !.due = FALSE]

\* What it makes of one.  A claim that was never marked goes back to RETRY
\* whatever its attempts are; a later pass buries it.
Reaped(i, room) ==
    [row[i] EXCEPT
        !.status = IF row[i].marked THEN "RECONCILIATION_REQUIRED"
                   ELSE IF ~Live(i) THEN "CANCELED"
                   ELSE IF row[i].status = "RETRY" THEN "DEAD"
                   ELSE IF room THEN "RETRY" ELSE "CANCELED",
        !.due = FALSE]

-----------------------------------------------------------------------------
(***************************************************************************)
(* One cycle of the worker: runOnce and processClaim.                      *)
(***************************************************************************)

\* A cycle starts by reaping up to a batch of rows in one transaction.
Reap(w) ==
    /\ worker[w].pc = "idle"
    /\ LET due == {i \in Invites : Reapable(i)} IN
       \E batch \in SUBSET due, room \in [Invites -> BOOLEAN] :
          /\ batch = due \/ Cardinality(batch) = BatchSize
          /\ Cardinality(batch) <= BatchSize
          /\ row' = [i \in Invites |->
                       IF i \in batch THEN Reaped(i, room[i]) ELSE row[i]]
    /\ worker' = [worker EXCEPT ![w].pc = "claiming", ![w].left = BatchSize]
    /\ UNCHANGED <<invite, current, stage, mails, form, owner>>

Claim(w) ==
    /\ worker[w].pc = "claiming" /\ worker[w].left > 0
    /\ \E i \in Invites :
          /\ Claimable(i)
          /\ row' = [row EXCEPT ![i].status = "CLAIMED", ![i].due = FALSE,
                                ![i].attempts = row[i].attempts + 1]
          /\ worker' = [worker EXCEPT
                          ![w] = [pc |-> "holding", i |-> i,
                                  lease |-> row[i].attempts + 1,
                                  left |-> worker[w].left - 1]]
    /\ UNCHANGED <<invite, current, stage, mails, form, owner>>

\* The batch is full or the claim answers EMPTY.
EndCycle(w) ==
    /\ worker[w].pc = "claiming"
    /\ worker[w].left = 0 \/ ~\E i \in Invites : Claimable(i)
    /\ worker' = [worker EXCEPT ![w] = Idle]
    /\ UNCHANGED <<invite, row, current, stage, mails, form, owner>>

\* A failure before the boundary (the token cannot be opened, a stop order):
\* markPreProviderFailure.  A lost reply ends the process.
FailBefore(w) ==
    /\ worker[w].pc = "holding"
    /\ Holds(row[worker[w].i], worker[w].lease)
    /\ \E permanent, room \in BOOLEAN :
          row' = [row EXCEPT
                    ![worker[w].i] = Failed(worker[w].i, permanent, room)]
    /\ \/ worker' = [worker EXCEPT ![w].pc = "claiming"]
       \/ worker' = [worker EXCEPT ![w] = Idle]
    /\ UNCHANGED <<invite, current, stage, mails, form, owner>>

\* markProviderAttempt succeeds: MARKED goes on to SMTP, CANCELED to the next
\* claim.
Mark(w) ==
    /\ worker[w].pc = "holding"
    /\ Holds(row[worker[w].i], worker[w].lease)
    /\ row' = [row EXCEPT ![worker[w].i] = Marked(worker[w].i)]
    /\ worker' = [worker EXCEPT
                    ![w].pc = IF Live(worker[w].i) THEN "sending" ELSE "claiming"]
    /\ UNCHANGED <<invite, current, stage, mails, form, owner>>

\* It throws: the compare-and-set is stale, the call failed, or it committed
\* and the reply was lost.  The boundary counts as entered, so the worker tries
\* to quarantine; its claim binding still has the old revision, the call is
\* refused, and the cycle ends with the row as the mark left it.
MarkThrows(w) ==
    /\ worker[w].pc = "holding"
    /\ \/ /\ Holds(row[worker[w].i], worker[w].lease)
          /\ row' = [row EXCEPT ![worker[w].i] = Marked(worker[w].i)]
       \/ UNCHANGED row
    /\ worker' = [worker EXCEPT ![w] = Idle]
    /\ UNCHANGED <<invite, current, stage, mails, form, owner>>

\* SMTP accepts and the worker hears of it.
Send(w) ==
    /\ worker[w].pc = "sending"
    /\ mails' = [mails EXCEPT ![worker[w].i] = @ + 1]
    /\ worker' = [worker EXCEPT ![w].pc = "sent"]
    /\ UNCHANGED <<invite, row, current, stage, form, owner>>

\* SMTP throws; the mail may be on its way all the same.
SendThrows(w) ==
    /\ worker[w].pc = "sending"
    /\ \E landed \in {0, 1} :
          mails' = [mails EXCEPT ![worker[w].i] = @ + landed]
    /\ worker' = [worker EXCEPT ![w].pc = "quarantine"]
    /\ UNCHANGED <<invite, row, current, stage, form, owner>>

\* markSent, which may commit and still throw.
MarkSent(w) ==
    /\ worker[w].pc = "sent"
    /\ \/ /\ Acknowledges(row[worker[w].i], worker[w].lease)
          /\ row' = [row EXCEPT ![worker[w].i].status = "SENT"]
          /\ \E pc \in {"claiming", "quarantine"} :
                worker' = [worker EXCEPT ![w].pc = pc]
       \/ /\ worker' = [worker EXCEPT ![w].pc = "quarantine"]
          /\ UNCHANGED row
    /\ UNCHANGED <<invite, current, stage, mails, form, owner>>

\* markReconciliationRequired, its errors swallowed; the cycle ends.
Quarantine(w) ==
    /\ worker[w].pc = "quarantine"
    /\ \/ /\ Acknowledges(row[worker[w].i], worker[w].lease)
          /\ row' = [row EXCEPT
                       ![worker[w].i].status = "RECONCILIATION_REQUIRED"]
       \/ UNCHANGED row
    /\ worker' = [worker EXCEPT ![w] = Idle]
    /\ UNCHANGED <<invite, current, stage, mails, form, owner>>

\* The process dies or is stopped; a new one starts with no claim.
Crash(w) ==
    /\ worker[w].pc # "idle"
    /\ worker' = [worker EXCEPT ![w] = Idle]
    /\ UNCHANGED <<invite, row, current, stage, mails, form, owner>>

-----------------------------------------------------------------------------
(***************************************************************************)
(* Time, the platform administrator and the registrant.                    *)
(***************************************************************************)

Elapse(i) ==
    /\ row[i].status \in {"CLAIMED", "RETRY"} /\ ~row[i].due
    /\ row' = [row EXCEPT ![i].due = TRUE]
    /\ UNCHANGED <<invite, current, stage, worker, mails, form, owner>>

Expire(i) ==
    /\ invite[i].state = "ACTIVE"
    /\ invite' = [invite EXCEPT ![i].state = "EXPIRED"]
    /\ UNCHANGED <<row, current, stage, worker, mails, form, owner>>

BugCanceled(r) ==
    IF r.status \in {"PENDING", "RETRY"} THEN [r EXCEPT !.status = "CANCELED"] ELSE r

Canceled(r) == IF Cancelable(r) THEN [r EXCEPT !.status = "CANCELED"] ELSE r

\* stopDelivery accepts the row: it cancels it, or leaves it as it is.
Stoppable(r) ==
    \/ Cancelable(r)
    \/ r.status = "CLAIMED"
    \/ r.status \in {"RECONCILIATION_REQUIRED", "SENT", "DEAD"}

Revoke ==
    /\ stage = "OWNER_INVITED"
    /\ invite[current].state = "ACTIVE"
    /\ Stoppable(row[current])
    /\ invite' = [invite EXCEPT ![current].state = "REVOKED",
                                ![current].version = @ + 1]
    /\ row' = [row EXCEPT ![current] = Canceled(row[current])]
    /\ UNCHANGED <<current, stage, worker, mails, form, owner>>

PublishLink ==
    /\ stage = "OWNER_INVITED"
    /\ invite[current].state = "ACTIVE" /\ invite[current].mode = "EMAIL"
    /\ Cancelable(row[current])
    /\ invite' = [invite EXCEPT ![current].mode = "LINK",
                                ![current].version = @ + 1]
    /\ row' = [row EXCEPT ![current] = Canceled(row[current])]
    /\ UNCHANGED <<current, stage, worker, mails, form, owner>>

\* The invite can be replaced: it was revoked or ran out, and nobody took it.
Replaceable(i) ==
    stage = "OWNER_INVITED" /\ invite[i].state \in {"REVOKED", "EXPIRED"}

Reissue ==
    /\ current < MaxInvites
    /\ Replaceable(current)
    /\ invite' = [invite EXCEPT
                    ![current].state = "REVOKED",
                    ![current].version =
                        IF invite[current].state = "REVOKED" THEN @ ELSE @ + 1,
                    ![current + 1].state = "ACTIVE"]
    /\ row' = [row EXCEPT ![current] = Canceled(row[current]),
                          ![current + 1] = NewRow]
    /\ current' = current + 1
    /\ UNCHANGED <<stage, worker, mails, form, owner>>

\* The operator settles a quarantined row from evidence of what SMTP did.
Reconcile(i) ==
    /\ row[i].status = "RECONCILIATION_REQUIRED"
    /\ row' = [row EXCEPT ![i].status = IF mails[i] > 0 THEN "SENT" ELSE "DEAD"]
    /\ UNCHANGED <<invite, current, stage, worker, mails, form, owner>>

BugRegistrable(i) ==
    /\ Live(i)
    /\ \/ invite[i].mode = "EMAIL" /\ row[i].marked
       \/ invite[i].mode = "LINK" /\ row[i].status = "CANCELED"

\* registration_allowed_v1: mailed and confirmed, or published as a link.
Registrable(i) ==
    /\ Live(i)
    /\ \/ invite[i].mode = "EMAIL" /\ row[i].status = "SENT"
       \/ invite[i].mode = "LINK" /\ row[i].status = "CANCELED"

\* The registration reads and checks the invite, then hashes the password.
OpenForm(i) ==
    /\ form = NoForm
    /\ Registrable(i)
    /\ form' = [i |-> i, mode |-> invite[i].mode, version |-> invite[i].version]
    /\ UNCHANGED <<invite, row, current, stage, worker, mails, owner>>

\* The invite is the one the registration read.
Unchanged(f) == invite[f.i].version = f.version

\* Its transaction: the invite has to be as it was read and still usable.
\* Only a mailed invite proves the mailbox.
Accept ==
    /\ form # NoForm
    /\ Registrable(form.i)
    /\ owner = NoOwner
    /\ Unchanged(form)
    /\ owner' = [i |-> form.i, verified |-> form.mode = "EMAIL"]
    /\ invite' = [invite EXCEPT ![form.i].state = "ACCEPTED",
                                ![form.i].version = @ + 1]
    /\ stage' = "ONBOARDING"
    /\ form' = NoForm
    /\ UNCHANGED <<row, current, worker, mails>>

\* The transaction is refused, or the registrant leaves.
CloseForm ==
    /\ form # NoForm
    /\ form' = NoForm
    /\ UNCHANGED <<invite, row, current, stage, worker, mails, owner>>

-----------------------------------------------------------------------------
Init ==
    /\ invite = [i \in Invites |->
                   [state |-> IF i = 1 THEN "ACTIVE" ELSE "NONE",
                    mode |-> "EMAIL", version |-> 0]]
    /\ row = [i \in Invites |-> IF i = 1 THEN NewRow ELSE NoRow]
    /\ current = 1
    /\ stage = "OWNER_INVITED"
    /\ worker = [w \in Workers |-> Idle]
    /\ mails = [i \in Invites |-> 0]
    /\ form = NoForm
    /\ owner = NoOwner

WorkerStep(w) ==
    \/ Reap(w) \/ Claim(w) \/ EndCycle(w) \/ FailBefore(w) \/ Mark(w)
    \/ MarkThrows(w) \/ Send(w) \/ SendThrows(w) \/ MarkSent(w) \/ Quarantine(w)

Next ==
    \/ \E w \in Workers : WorkerStep(w) \/ Crash(w)
    \/ \E i \in Invites : Elapse(i) \/ Expire(i) \/ Reconcile(i) \/ OpenForm(i)
    \/ Revoke \/ PublishLink \/ Reissue \/ Accept \/ CloseForm

Spec == Init /\ [][Next]_vars

\* A running worker goes on with its cycle and its poll loop starts another;
\* clocks run; a worker does not die each time just before it claims.
Fairness ==
    /\ \A w \in Workers : WF_vars(WorkerStep(w)) /\ SF_vars(Claim(w))
    /\ \A i \in Invites : WF_vars(Elapse(i))

FairSpec == Spec /\ Fairness

-----------------------------------------------------------------------------
(***************************************************************************)
(* Properties.                                                             *)
(***************************************************************************)

Past == {"sending", "sent", "quarantine"}

Mode == {"EMAIL", "LINK"}
UserInvite == [state : InviteState, mode : Mode, version : Nat]
OutboxRow == [status : Status, attempts : 0 .. MaxAttempts, marked : BOOLEAN,
              due : BOOLEAN]
Process == [pc : {"idle", "claiming", "holding"} \cup Past, i : {0} \cup Invites,
            lease : 0 .. MaxAttempts, left : 0 .. BatchSize]

\* The types; a row is never claimed more often than the policy allows and a
\* worker at work holds a lease of an invite.
MailTypeOK ==
    /\ invite \in [Invites -> UserInvite]
    /\ row \in [Invites -> OutboxRow]
    /\ current \in Invites
    /\ stage \in {"OWNER_INVITED", "ONBOARDING"}
    /\ worker \in [Workers -> Process]
    /\ \A w \in Workers :
          worker[w].pc \in {"holding"} \cup Past => worker[w].i \in Invites
    /\ mails \in [Invites -> Nat]
    /\ form \in [i : {0} \cup Invites, mode : Mode, version : Nat]
    /\ form = NoForm \/ form.i \in Invites
    /\ owner \in [i : {0} \cup Invites, verified : BOOLEAN]

\* The provider marker makes the mail at-most-once: whatever crashes, stalls,
\* expired leases, lost replies, second workers and retries happen, SMTP is
\* given the mail of an invite no more than once (identity-mail-worker.service
\* processClaim: "Blind retry is forbidden after entering the boundary").
AtMostOneMail == \A i \in Invites : mails[i] <= 1

\* A delivery that was stopped, by a revoke, a published link, a reissue or the
\* reaper, has mailed nothing and never will, although a worker may be holding
\* the opened token at that moment; a row that is to be tried again has mailed
\* nothing either.
StoppedBeforeMail ==
    \A i \in Invites :
       row[i].status \in {"PENDING", "RETRY", "CANCELED"} =>
          /\ mails[i] = 0
          /\ \A w \in Workers : worker[w].pc = "sending" => worker[w].i # i

\* One way in: an invite that was replaced is revoked for good and its mail can
\* no longer be handed to SMTP, so only the newest invite is on its way; once an
\* owner has registered no invite is open.
OneWayIn ==
    /\ \A i \in Invites : i < current =>
          /\ invite[i].state = "REVOKED"
          /\ row[i].status \in {"PENDING", "RETRY", "CLAIMED"} => row[i].marked
    /\ owner # NoOwner => ~\E i \in Invites : invite[i].state = "ACTIVE"

\* emailVerifiedAt is set only for a mailbox the invite was mailed to and
\* whose delivery is on record; an owner who came by the published link was
\* mailed nothing.
VerifiedByMail ==
    owner # NoOwner =>
       /\ invite[owner.i].state = "ACCEPTED"
       /\ owner.verified <=> row[owner.i].status = "SENT"
       /\ mails[owner.i] = IF owner.verified THEN 1 ELSE 0

\* The mail of an invite as PayOnce sees a payment.  A marked row stays "open"
\* until it is SENT, a DEAD one too: the operator may bury it while the worker
\* that set the marker is stalled in front of SMTP.
MailPhase(i) ==
    CASE row[i].status = "SENT" -> "paid"
      [] row[i].status = "CANCELED" \/ (row[i].status = "DEAD" /\ ~row[i].marked) -> "void"
      [] row[i].marked /\ row[i].status \notin {"SENT", "CANCELED"} -> "open"
      [] OTHER -> "owed"

Abs == INSTANCE PayOnce WITH
         Rewards <- Invites, phase <- [i \in Invites |-> MailPhase(i)], credit <- mails

\* The outbox is a way to mail each invite at most once and to know whether it
\* was: every step is one of PayOnce or leaves its state alone.  SMTP is given the
\* mail only behind the marker, SENT is written only of a mail that left, and
\* what ended before the marker stays ended without a mail.
MailsOnce == Abs!AbsSpec

\* The fence: a worker whose claim has been reaped, canceled or claimed again
\* changes no row with the calls it still makes.
LateWorkerChangesNothing ==
    [][\A w \in Workers :
         /\ worker[w].pc \in {"holding", "sent", "quarantine"}
         /\ worker'[w] # worker[w]
         /\ \/ row[worker[w].i].status # "CLAIMED"
            \/ row[worker[w].i].attempts # worker[w].lease
         => UNCHANGED row]_vars

\* Every released delivery comes to rest: sent, dead, canceled, or quarantined
\* for the operator, with every claim returned however often workers die.
DeliverySettles ==
    \A i \in Invites :
       row[i].status \in {"PENDING", "CLAIMED", "RETRY"} ~>
          row[i].status \in {"SENT", "DEAD", "CANCELED", "RECONCILIATION_REQUIRED"}

=============================================================================
