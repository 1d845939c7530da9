----------------------------- MODULE BonusSafety ----------------------------
(***************************************************************************)
(* What bonus delivery guarantees, and the inductive invariant behind it.  *)
(***************************************************************************)
EXTENDS BonusDelivery

WorkerState == [pc : WorkerPc, rev : Nat, seen : SUBSET Rewards, todo : SUBSET Token,
                job : Token \cup {NoJob}, age : Nat]
RequestState == [pc : GuestPc, id : Rewards \cup {NoJob}, plan : WritePlan,
                 failed : BOOLEAN]

\* Every row, process and message has its shape; a worker past the claim has a
\* job and a request past its acceptance has a reward.
TypeOK ==
  /\ reward \in [Rewards -> Reward] /\ wallet \in [Rewards -> WalletStatus]
  /\ entry \in [Rewards -> Entry]
  /\ tenant \in [rev : Nat, admitted : BOOLEAN]
  /\ worker \in [Workers -> WorkerState]
  /\ \A w \in Workers : worker[w].pc \in HoldsJob => worker[w].job \in Token
  /\ guest \in [Requests -> RequestState]
  /\ \A g \in Requests : guest[g].pc # "idle" => guest[g].id \in Rewards
  /\ wire \subseteq Call /\ credited \subseteq Credit
  /\ balance \in [Rewards -> Nat] /\ crashes \in Nat

-----------------------------------------------------------------------------
\* Langame is called without an idempotency key, so the guest's balance is safe
\* only if the fences around the call are: no interleaving of workers, crashes,
\* late answers and operator decisions credits a reward twice.
AtMostOnceCredit == \A r \in Rewards : balance[r] <= 1

\* The ledger calls an entry CONFIRMED only if the write of that very claim
\* generation was applied; the answer to an older claim confirms nothing.
ConfirmedIsCredited ==
  \A r \in Rewards : entry[r].status = "CONFIRMED" =>
    [id |-> r, gen |-> entry[r].gen] \in credited /\ balance[r] = 1

\* As long as a write may still take effect, or has taken effect, its entry
\* stays out of every queue: nobody retries it, cancels it or returns it.
Uncertain == {"DISPATCHING", "RECONCILIATION_REQUIRED"}
OpenCallIsParked ==
  /\ \A c \in wire : entry[c.id].status \in Uncertain /\ entry[c.id].gen = c.gen
  /\ \A c \in credited : /\ entry[c.id].status \in Uncertain \cup {"CONFIRMED"}
                         /\ entry[c.id].gen = c.gen

\* No bonus that needs the guest's claim leaves for Langame, or is credited,
\* before the guest has asked for it, however the claim requirement was added.
NoDeliveryWithoutClaim ==
  \A r \in Rewards :
    /\ reward[r].claimRequired
    /\ entry[r].status \in Uncertain \cup {"CONFIRMED"} \/ balance[r] > 0
    => reward[r].requested

\* A claim the guest has made and that was not delivered yet is never canceled
\* or expired by retention, by the deadline or by an administrator.
AcceptedDeliveryKept ==
  \A r \in Rewards : AcceptedDelivery(r) => reward[r].status \notin {"CANCELED", "EXPIRED"}

\* The three rows of a reward agree at the end, although workers, stale requests
\* and retention write them separately: a confirmed entry has a paid reward and
\* no open wallet item, and the guest sees CLAIMED only for a credited bonus.  A
\* slow backfill may put back, as PENDING, the item that retention has removed
\* after the deadline; nobody can claim it, and the next sweep removes it again.
RowsAgree ==
  \A r \in Rewards :
    /\ entry[r].status = "CONFIRMED" =>
         /\ reward[r].status = "PAID"
         /\ wallet[r] \in {"NONE", "CLAIMED"} \/ (wallet[r] = "PENDING" /\ reward[r].lapsed)
    /\ wallet[r] = "CLAIMED" => balance[r] = 1

\* A worker whose claim was taken over (it slept past the stale lock, or the
\* operator resolved the entry and it was claimed again) moves on without
\* touching the entry of the new owner.
StaleWorkerIsHarmless ==
  [][\A w \in Workers :
       LET t == worker[w].job IN
       worker[w].pc \in HoldsJob /\ worker'[w].pc # worker[w].pc
         /\ entry[t.id].gen # t.gen
       => entry'[t.id] = entry[t.id]]_vars

-----------------------------------------------------------------------------
(* Liveness, under Fairness.                                               *)

\* A dispatch whose worker died, lost its answer or lost its permit does not stay
\* DISPATCHING: it ends, or a later run promotes it to manual reconciliation.  A
\* suspended tenant gets no run; its entries wait for its admission.
DispatchingEnds ==
  \A r \in Rewards : entry[r].status = "DISPATCHING"
                     ~> entry[r].status # "DISPATCHING" \/ ~tenant.admitted

\* A claim whose worker died before the dispatch is taken up again while it has
\* attempts left and its tenant is admitted.
AbandonedClaimIsRetried ==
  \A r \in Rewards :
    entry[r].status = "PROCESSING" /\ entry[r].attempts < MaxAttempts
      ~> \/ ~(entry[r].status = "PROCESSING" /\ entry[r].attempts < MaxAttempts)
         \/ ~tenant.admitted

\* "The ledger moves to RECONCILIATION_REQUIRED ..., the wallet stays PROCESSING":
\* the state in which the operator can still resolve the delivery.
UncertainWalletStays ==
  \A r \in Rewards : entry[r].status = "RECONCILIATION_REQUIRED" /\ reward[r].claimRequired
                     => wallet[r] = "PROCESSING"

-----------------------------------------------------------------------------
(* The inductive invariant.                                                *)

Late == Uncertain \cup {"CONFIRMED"}
BeforeSend == BeforeDispatch \cup {"recheck", "target", "permit", "own", "send"}

\* The claims a worker in state x holds: the one in hand and those it has not
\* started; and those of them under which it has sent nothing.
Tokens(x) == x.todo \cup (IF x.pc \in HoldsJob THEN {x.job} ELSE {})
Unsent(x) == x.todo \cup (IF x.pc \in BeforeSend THEN {x.job} ELSE {})

\* A claim generation of an entry belongs to one worker, once, and there is none
\* of an entry that does not exist yet.
ClaimsAreExclusive ==
  /\ \A r \in Rewards : entry[r].status = "NONE" => entry[r].gen = 0
  /\ \A w \in Workers : \A t \in Tokens(worker[w]) : t.gen <= entry[t.id].gen
  /\ \A v, w \in Workers : \A s \in Tokens(worker[v]), t \in Tokens(worker[w]) :
       s.id = t.id /\ s.gen = t.gen => v = w /\ s = t
  /\ \A w \in Workers : worker[w].pc \in HoldsJob => worker[w].job \notin worker[w].todo

\* Nothing was sent under a claim whose worker has not sent it.
NotSentYet ==
  \A w \in Workers : \A t \in Unsent(worker[w]) :
    /\ \A c \in wire : ~(c.id = t.id /\ c.gen = t.gen)
    /\ [id |-> t.id, gen |-> t.gen] \notin credited

\* A write past its ownership check: its entry is parked, and no older than it.
Open(r, g, age) ==
  /\ entry[r].gen = g /\ age <= CallWindow
  /\ entry[r].status \in Uncertain
  /\ entry[r].status = "RECONCILIATION_REQUIRED" => entry[r].age <= age

OpenCalls ==
  /\ \A w \in Workers : worker[w].pc = "send" =>
       Open(worker[w].job.id, worker[w].job.gen, worker[w].age)
  /\ \A c \in wire : Open(c.id, c.gen, c.age)
  /\ \A c \in wire : [id |-> c.id, gen |-> c.gen] \notin credited
  /\ \A c, d \in wire : c.id = d.id /\ c.gen = d.gen => c = d

\* A credit belongs to the entry's current generation, and is counted once.
Credits ==
  /\ \A c \in credited : entry[c.id].gen = c.gen /\ entry[c.id].status \in Late
  /\ \A r \in Rewards : balance[r] = IF SeenAtProvider(r) THEN 1 ELSE 0
  /\ \A w \in Workers : worker[w].pc = "confirm" =>
       [id |-> worker[w].job.id, gen |-> worker[w].job.gen] \in credited
  /\ \A r \in Rewards : entry[r].status = "CONFIRMED" =>
       [id |-> r, gen |-> entry[r].gen] \in credited

PayCore == ClaimsAreExclusive /\ NotSentYet /\ OpenCalls /\ Credits

\* An entry in or past dispatch was asked for, if its reward needs a claim.
ClaimFirst ==
  \A r \in Rewards :
    reward[r].claimRequired /\ entry[r].status \in Late => reward[r].requested

PayInv == TypeOK /\ PayCore /\ ClaimFirst

\* Without staff, only a confirmation pays a reward or closes its wallet item, an
\* item exists for a reward that needs a claim, and the item of an accepted claim
\* goes away only after the deadline.
RowsOf(r) ==
  /\ entry[r].status = "CONFIRMED" =>
       /\ reward[r].status = "PAID"
       /\ wallet[r] \in {"NONE", "CLAIMED"} \/ (wallet[r] = "PENDING" /\ reward[r].lapsed)
  /\ reward[r].status = "PAID" \/ reward[r].paid \/ wallet[r] = "CLAIMED"
       => entry[r].status = "CONFIRMED"
  /\ ~reward[r].claimRequired => wallet[r] \in {"NONE", "CLAIMED"}
  /\ reward[r].requested /\ wallet[r] = "NONE" => reward[r].lapsed

\* A backfill is for a reward that needs a claim, and a request never finds an
\* open item of a delivered bonus.
RequestOf(g) ==
  /\ guest[g].pc = "backfill" => reward[guest[g].id].claimRequired
  /\ guest[g].pc = "write" => guest[g].plan # "CLAIMED"

RowsInv == (\A r \in Rewards : RowsOf(r)) /\ (\A g \in Requests : RequestOf(g))

=============================================================================
