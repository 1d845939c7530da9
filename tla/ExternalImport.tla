--------------------------- MODULE ExternalImport ---------------------------
(***************************************************************************)
(* The Langame import of the pilot club.  A daily worker and manual        *)
(* imports exclude each other by a session advisory lock                   *)
(* (langame-external-import-lock.ts), and a business day is imported by    *)
(* one run, for good: LangameExternalRunLeaseService keeps a unique intent *)
(* and a unique result per day.  A process is one run and is never reused. *)
(*                                                                         *)
(*   lock        the process whose database session holds the lock         *)
(*   session[p]  p's lock connection is up, as the server sees it          *)
(*   proc[p]     pc: the next awaited call; alive: the flag of HeldLock;   *)
(*               sawIntent, sawResult: what acquire read; batch: import    *)
(*               batches done; ok: the import reported no failure          *)
(*   day[p]      the business day of a worker's run                        *)
(*   intent, result   the audit events of a day: the run that wrote them   *)
(*   current     the tenant and store revisions of the authority hold      *)
(*   importedBy[d]    workers that wrote a batch for day d                 *)
(*   stray[p]    batches p wrote without holding the lock                  *)
(***************************************************************************)
EXTENDS Naturals, FiniteSets

CONSTANTS Workers, Manual, Days, Batches, None

ASSUME ImportAssumption ==
  /\ Workers \cap Manual = {} /\ Batches \in Nat \ {0}
  /\ None \notin Workers \cup Manual

Procs == Workers \cup Manual

VARIABLES lock, session, proc, day, intent, result, current, importedBy, stray

audit == <<intent, result>>
vars == <<lock, session, proc, day, intent, result, current, importedBy, stray>>

Fresh == [pc |-> "new", alive |-> FALSE, sawIntent |-> None, sawResult |-> None,
          batch |-> 0, ok |-> TRUE]
Ended == [Fresh EXCEPT !.pc = "done"]

Init ==
  /\ lock = None /\ session = [p \in Procs |-> FALSE]
  /\ proc = [p \in Procs |-> Fresh]
  /\ day \in [Workers -> Days]
  /\ intent = [d \in Days |-> None] /\ result = [d \in Days |-> None]
  /\ current = TRUE
  /\ importedBy = [d \in Days |-> {}] /\ stray = [p \in Procs |-> 0]

At(p, pc) == proc[p].pc = pc
To(p, pc) == proc' = [proc EXCEPT ![p].pc = pc]

\* connect and pg_try_advisory_lock: refused at once when another session holds it.
TryLock(p) ==
  /\ At(p, "new")
  /\ \/ /\ lock = None /\ lock' = p /\ session' = [session EXCEPT ![p] = TRUE]
        /\ proc' = [proc EXCEPT ![p].alive = TRUE,
                                ![p].pc = IF p \in Workers THEN "read" ELSE "write"]
     \/ lock # None /\ proc' = [proc EXCEPT ![p] = Ended] /\ UNCHANGED <<lock, session>>
  /\ UNCHANGED <<day, audit, current, importedBy, stray>>

-----------------------------------------------------------------------------
(* LangameExternalRunLeaseService.acquire *)

\* The two reads are sent together and may be served in either order.
ReadIntent(p) ==
  /\ At(p, "read") \/ At(p, "readIntent")
  /\ proc' = [proc EXCEPT ![p].sawIntent = intent[day[p]],
                          ![p].pc = IF @ = "read" THEN "readResult" ELSE "decide"]
  /\ UNCHANGED <<lock, session, day, audit, current, importedBy, stray>>

ReadResult(p) ==
  /\ At(p, "read") \/ At(p, "readResult")
  /\ proc' = [proc EXCEPT ![p].sawResult = result[day[p]],
                          ![p].pc = IF @ = "read" THEN "readIntent" ELSE "decide"]
  /\ UNCHANGED <<lock, session, day, audit, current, importedBy, stray>>

\* A run that died without a result is taken for one that may be repeated.
BugDecide(p) ==
  /\ At(p, "decide")
  /\ \/ /\ proc[p].sawResult # None /\ To(p, "assert") /\ UNCHANGED intent
     \/ /\ proc[p].sawResult = None /\ intent' = [intent EXCEPT ![day[p]] = p]
        /\ To(p, "verify")
  /\ UNCHANGED <<lock, session, day, result, current, importedBy, stray>>

\* A result alone, an intent alone or a failed insert end the run; intent and result
\* are replayed; else the intent is inserted under its unique key.
Decide(p) ==
  /\ At(p, "decide")
  /\ \/ /\ proc[p].sawIntent # None /\ proc[p].sawResult # None
        /\ To(p, "assert") /\ UNCHANGED intent
     \/ /\ (proc[p].sawIntent = None) # (proc[p].sawResult = None)
        /\ To(p, "release") /\ UNCHANGED intent
     \/ /\ proc[p].sawIntent = None /\ proc[p].sawResult = None
        /\ IF intent[day[p]] = None
             THEN intent' = [intent EXCEPT ![day[p]] = p] /\ To(p, "verify")
             ELSE To(p, "release") /\ UNCHANGED intent
  /\ UNCHANGED <<lock, session, day, result, current, importedBy, stray>>

-----------------------------------------------------------------------------
(* The import.  The worker verifies lock and authority before each batch;  *)
(* a manual import has no authority, and its batches are not verified.     *)

Verified(p) == proc[p].alive /\ session[p]

\* The flag of the client stands in for a question to the server.
BugVerify(p) ==
  /\ At(p, "verify")
  /\ proc' = [proc EXCEPT ![p].pc = IF proc[p].alive /\ current THEN "write" ELSE "complete",
                          ![p].ok = @ /\ proc[p].alive /\ current]
  /\ UNCHANGED <<lock, session, day, audit, current, importedBy, stray>>

\* assertExternalExecutionCurrent, assertExternalProfileCurrent: held.verify asks the
\* server, then the authority's revisions are compared.
Verify(p) ==
  /\ At(p, "verify")
  /\ LET passed == Verified(p) /\ current
     IN  proc' = [proc EXCEPT ![p].pc = IF passed THEN "write" ELSE "complete",
                              ![p].ok = @ /\ passed, ![p].alive = @ /\ session[p]]
  /\ UNCHANGED <<lock, session, day, audit, current, importedBy, stray>>

LastBatch(p) == proc[p].batch + 1 = Batches

\* Rows of one batch are written.
Written(p) ==
  /\ stray' = [stray EXCEPT ![p] = IF lock = p THEN @ ELSE @ + 1]
  /\ importedBy' = IF p \in Workers
                     THEN [importedBy EXCEPT ![day[p]] = @ \cup {p}] ELSE importedBy

\* One batch of one scope, and whether more follow.
WriteBatch(p) ==
  /\ At(p, "write")
  /\ Written(p)
  /\ LET done == LastBatch(p)
     IN  proc' = [proc EXCEPT ![p].batch = @ + 1,
                    ![p].pc = CASE done /\ p \in Workers -> "complete"
                                [] done /\ p \in Manual -> "assert"
                                [] ~done /\ p \in Workers -> "verify"
                                [] ~done /\ p \in Manual -> "write"]
  /\ UNCHANGED <<lock, session, day, audit, current>>

\* A batch fails before or after some of its rows are written.  The worker keeps the
\* failed scope for its terminal and goes on with the next; a manual import is over.
ImportFails(p) ==
  /\ At(p, "write")
  /\ Written(p) \/ UNCHANGED <<importedBy, stray>>
  /\ \E pc \in IF p \in Manual THEN {"release"}
               ELSE IF LastBatch(p) THEN {"complete"} ELSE {"verify", "complete"} :
       proc' = [proc EXCEPT ![p].ok = FALSE, ![p].pc = pc, ![p].batch = @ + 1]
  /\ UNCHANGED <<lock, session, day, audit, current>>

\* complete: the terminal must bind the day's intent, and its key is unique.
Complete(p) ==
  /\ At(p, "complete")
  /\ IF intent[day[p]] = p /\ result[day[p]] = None
       THEN result' = [result EXCEPT ![day[p]] = p] /\ To(p, "assert")
       ELSE UNCHANGED result /\ To(p, "release")
  /\ UNCHANGED <<lock, session, day, intent, current, importedBy, stray>>

\* After the work the lock is verified once more.
FinalAssert(p) ==
  /\ At(p, "assert")
  /\ proc' = [proc EXCEPT ![p].pc = "release", ![p].ok = @ /\ Verified(p)]
  /\ UNCHANGED <<lock, session, day, audit, current, importedBy, stray>>

\* A finally block without client.end: the unlock needs a connection that works.
BugRelease(p) ==
  /\ At(p, "release") /\ proc[p].ok
  /\ lock' = IF lock = p THEN None ELSE lock
  /\ session' = [session EXCEPT ![p] = FALSE]
  /\ proc' = [proc EXCEPT ![p] = Ended]
  /\ UNCHANGED <<day, audit, current, importedBy, stray>>

\* finally: unlock, and close the connection whatever the unlock answers.
Release(p) ==
  /\ At(p, "release")
  /\ lock' = IF lock = p THEN None ELSE lock
  /\ session' = [session EXCEPT ![p] = FALSE]
  /\ proc' = [proc EXCEPT ![p] = Ended]
  /\ UNCHANGED <<day, audit, current, importedBy, stray>>

-----------------------------------------------------------------------------
(* Failures *)

Running(p) == ~At(p, "new") /\ ~At(p, "done")

\* The server ends the session; the process may not know for a while.
SessionLost(p) ==
  /\ session[p] /\ session' = [session EXCEPT ![p] = FALSE]
  /\ lock' = IF lock = p THEN None ELSE lock
  /\ UNCHANGED <<proc, day, audit, current, importedBy, stray>>

\* The error or end event of the connection reaches the process.
OnLoss(p) ==
  /\ Running(p) /\ ~session[p] /\ proc[p].alive
  /\ proc' = [proc EXCEPT ![p].alive = FALSE]
  /\ UNCHANGED <<lock, session, day, audit, current, importedBy, stray>>

Crash(p) ==
  /\ Running(p) /\ proc' = [proc EXCEPT ![p] = Ended]
  /\ session' = [session EXCEPT ![p] = FALSE]
  /\ lock' = IF lock = p THEN None ELSE lock
  /\ UNCHANGED <<day, audit, current, importedBy, stray>>

\* The tenant's execution revision moves on, and the checks of the import see it.
Revoke ==
  /\ current /\ current' = FALSE
  /\ UNCHANGED <<lock, session, proc, day, audit, importedBy, stray>>

Step(p) ==
  \/ ReadIntent(p) \/ ReadResult(p) \/ Decide(p) \/ Verify(p) \/ WriteBatch(p)
  \/ ImportFails(p) \/ Complete(p) \/ FinalAssert(p) \/ Release(p)

Next ==
  \/ \E p \in Procs : TryLock(p) \/ Step(p) \/ SessionLost(p) \/ OnLoss(p) \/ Crash(p)
  \/ Revoke

Spec == Init /\ [][Next]_vars

\* Every awaited call of a started run returns, fails or times out.
FairSpec == Spec /\ \A p \in Procs : WF_vars(Step(p))

-----------------------------------------------------------------------------
Process ==
  [pc : {"new", "read", "readIntent", "readResult", "decide", "verify", "write", "complete",
         "assert", "release", "done"},
   alive : BOOLEAN, sawIntent : Procs \cup {None}, sawResult : Procs \cup {None},
   batch : 0..Batches, ok : BOOLEAN]

\* Sessions, leases and counters stay in range, and only a session that is up holds
\* the lock.
ImportTypeOK ==
  /\ lock \in Procs \cup {None} /\ session \in [Procs -> BOOLEAN]
  /\ proc \in [Procs -> Process]
  /\ day \in [Workers -> Days] /\ current \in BOOLEAN
  /\ intent \in [Days -> Procs \cup {None}] /\ result \in [Days -> Procs \cup {None}]
  /\ importedBy \in [Days -> SUBSET Workers] /\ stray \in [Procs -> Nat]
  /\ \A p \in Procs : lock = p => session[p]

\* A business day is imported by one run at most, over crashes, lost locks and
\* restarts, and its result is that run's: a day whose run died without a result is
\* not repeated behind the operator's back.
DayImportedOnce ==
  \A d \in Days :
    /\ importedBy[d] \subseteq {intent[d]}
    /\ result[d] \in {None, intent[d]}

\* A process that still has its session never writes without the lock, and a worker
\* whose lock was lost writes one batch more at the most: the one that was verified
\* before the loss.
FencedWrites ==
  \A p \in Procs :
    /\ session[p] => stray[p] = 0
    /\ p \in Workers => stray[p] <= 1

\* Whatever happens to a run, its lock comes free again.
LockIsReleased == []<>(lock = None)
=============================================================================
