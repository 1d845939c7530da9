---------------------------- MODULE ImportProofs ----------------------------
(***************************************************************************)
(* The two fences of the external import, for any number of runs, days and *)
(* batches: a day is imported by the run that owns its intent, and a       *)
(* worker that lost the lock writes one verified batch more at the most.   *)
(***************************************************************************)
EXTENDS ExternalImport, TLAPS

\* A worker past acquire owns the intent of its day.
Owners ==
  \A p \in Workers : proc[p].pc \in {"verify", "write", "complete"} => intent[day[p]] = p

\* The lock and the sessions agree; a run that starts or is about to write a verified
\* batch has strayed never.
Sessions ==
  /\ \A p \in Procs : session[p] <=> lock = p
  /\ \A p \in Procs : proc[p].pc = "new" => stray[p] = 0
  /\ \A p \in Workers : proc[p].pc = "write" => stray[p] = 0

\* A run that may still write has a batch left to write.
BatchLeft ==
  \A p \in Procs :
    proc[p].pc \in {"new", "read", "readIntent", "readResult", "decide", "verify", "write"}
      => proc[p].batch < Batches

\* Only workers go through acquire, verify and complete.
WorkerSteps ==
  \A p \in Procs :
    proc[p].pc \in {"read", "readIntent", "readResult", "decide", "verify", "complete"}
      => p \in Workers

ImportInv ==
  /\ ImportTypeOK /\ Owners /\ Sessions /\ BatchLeft /\ WorkerSteps
  /\ DayImportedOnce /\ FencedWrites

USE DEF Procs

\* The import starts in a state of the invariant.
LEMMA ImportInit == Init => ImportInv
  BY ImportAssumption
     DEF Init, ImportInv, ImportTypeOK, Process, Owners, Sessions, BatchLeft, WorkerSteps,
         DayImportedOnce, FencedWrites, Fresh

\* A run that ends is a process at rest.
LEMMA EndedProcess == Ended \in Process /\ Ended.pc = "done"
<1>1. 0 \in 0..Batches
  BY ImportAssumption
<1>2. Fresh \in Process
  BY <1>1, Zenon DEF Fresh, Process
<1> QED
  BY <1>2 DEF Ended, Process

\* What every step keeps: one lemma per conjunct would repeat the frame, so each
\* action is shown to keep the whole invariant.
LEMMA ImportStep == ImportInv /\ [Next]_vars => ImportInv'
<1> SUFFICES ASSUME ImportInv, [Next]_vars PROVE ImportInv'
  OBVIOUS
<1> USE ImportAssumption
<1> USE DEF ImportInv, At, To, audit
<1>1. CASE UNCHANGED vars
  BY <1>1 DEF vars, ImportTypeOK, Process, Owners, Sessions, BatchLeft, WorkerSteps,
     DayImportedOnce, FencedWrites
<1>2. CASE Revoke
  BY <1>2 DEF Revoke, ImportTypeOK, Process, Owners, Sessions, BatchLeft, WorkerSteps,
     DayImportedOnce, FencedWrites
<1>3. ASSUME NEW p \in Procs, TryLock(p) PROVE ImportInv'
  <2>1. CASE lock # None
    <3>1. proc' = [proc EXCEPT ![p] = Ended] /\ UNCHANGED <<lock, session>>
      BY <1>3, <2>1 DEF TryLock
    <3>2. Ended \in Process /\ Ended.pc = "done"
      BY EndedProcess
    <3>3. UNCHANGED <<day, audit, current, importedBy, stray>>
      BY <1>3 DEF TryLock
    <3> QED
      BY <3>1, <3>2, <3>3 DEF ImportTypeOK, Owners, Sessions, BatchLeft, WorkerSteps,
         DayImportedOnce, FencedWrites
  <2>2. CASE lock = None
    <3>1. /\ lock' = p /\ session' = [session EXCEPT ![p] = TRUE]
          /\ UNCHANGED <<day, audit, current, importedBy, stray>> /\ proc[p].pc = "new"
          /\ \A q \in Procs : ~session[q]
      BY <1>3, <2>2 DEF TryLock, Sessions
    <3>2. /\ proc'[p].pc = (IF p \in Workers THEN "read" ELSE "write")
          /\ proc'[p] \in Process /\ proc'[p].batch = proc[p].batch
          /\ \A q \in Procs : q # p => proc'[q] = proc[q]
          /\ proc' \in [Procs -> Process]
      BY <1>3, <2>2 DEF TryLock, ImportTypeOK, Process
    <3>3. ImportTypeOK'
      BY <3>1, <3>2 DEF ImportTypeOK
    <3>4. Owners'
      BY <3>1, <3>2 DEF Owners
    <3>5. Sessions'
      BY <3>1, <3>2 DEF Sessions, ImportTypeOK
    <3>6. BatchLeft' /\ WorkerSteps'
      BY <3>1, <3>2 DEF BatchLeft, WorkerSteps
    <3>7. DayImportedOnce' /\ FencedWrites'
      BY <3>1 DEF DayImportedOnce, FencedWrites, Sessions, ImportTypeOK
    <3> QED
      BY <3>3, <3>4, <3>5, <3>6, <3>7
  <2> QED
    BY <2>1, <2>2
<1>4. ASSUME NEW p \in Procs, ReadIntent(p) PROVE ImportInv'
  BY <1>4 DEF ReadIntent, ImportTypeOK, Process, Owners, Sessions, BatchLeft, WorkerSteps,
     DayImportedOnce, FencedWrites
<1>5. ASSUME NEW p \in Procs, ReadResult(p) PROVE ImportInv'
  BY <1>5 DEF ReadResult, ImportTypeOK, Process, Owners, Sessions, BatchLeft, WorkerSteps,
     DayImportedOnce, FencedWrites
<1>6. ASSUME NEW p \in Procs, Decide(p) PROVE ImportInv'
  <2>1. ImportTypeOK'
    <3>1. proc' \in [Procs -> Process]
      BY <1>6 DEF Decide, ImportTypeOK, Process
    <3> QED
      BY <1>6, <3>1 DEF Decide, ImportTypeOK, WorkerSteps
  <2>2. Owners'
    BY <1>6 DEF Decide, ImportTypeOK, Process, Owners, WorkerSteps
  <2>3. Sessions'
    BY <1>6 DEF Decide, ImportTypeOK, Process, Sessions, FencedWrites
  <2>4. BatchLeft' /\ WorkerSteps'
    BY <1>6 DEF Decide, ImportTypeOK, Process, BatchLeft, WorkerSteps
  <2>5. DayImportedOnce'
    BY <1>6 DEF Decide, ImportTypeOK, Process, DayImportedOnce, Owners
  <2>6. FencedWrites'
    BY <1>6 DEF Decide, ImportTypeOK, FencedWrites, Sessions
  <2> QED
    BY <2>1, <2>2, <2>3, <2>4, <2>5, <2>6
<1>7. ASSUME NEW p \in Procs, Verify(p) PROVE ImportInv'
  <2>1. ImportTypeOK'
    <3>1. proc' \in [Procs -> Process]
      BY <1>7 DEF Verify, Verified, ImportTypeOK, Process
    <3> QED
      BY <1>7, <3>1 DEF Verify, ImportTypeOK, WorkerSteps
  <2>2. Owners'
    BY <1>7 DEF Verify, Verified, ImportTypeOK, Process, Owners, WorkerSteps
  <2>3. Sessions'
    BY <1>7 DEF Verify, Verified, ImportTypeOK, Process, Sessions, FencedWrites
  <2>4. BatchLeft' /\ WorkerSteps'
    BY <1>7 DEF Verify, Verified, ImportTypeOK, Process, BatchLeft, WorkerSteps
  <2>5. DayImportedOnce'
    BY <1>7 DEF Verify, Verified, ImportTypeOK, Process, DayImportedOnce, Owners
  <2>6. FencedWrites'
    BY <1>7 DEF Verify, Verified, ImportTypeOK, FencedWrites, Sessions
  <2> QED
    BY <2>1, <2>2, <2>3, <2>4, <2>5, <2>6
<1>8. ASSUME NEW p \in Procs, WriteBatch(p) PROVE ImportInv'
  <2>a. /\ proc[p].pc = "write" /\ proc[p] \in Process /\ proc[p].batch < Batches
        /\ proc[p].batch + 1 \in 0..Batches
    BY <1>8 DEF WriteBatch, ImportTypeOK, BatchLeft, Process
  <2> DEFINE next == CASE LastBatch(p) /\ p \in Workers -> "complete"
                       [] LastBatch(p) /\ p \in Manual -> "assert"
                       [] ~LastBatch(p) /\ p \in Workers -> "verify"
                       [] ~LastBatch(p) /\ p \in Manual -> "write"
  <2>b. /\ next \in {"complete", "assert", "verify", "write"}
        /\ next \in {"complete", "verify"} => p \in Workers
        /\ next \in {"write", "verify"} => ~LastBatch(p)
        /\ next \in {"assert", "write"} => p \notin Workers
    BY DEF LastBatch
  <2>c. proc' = [proc EXCEPT ![p] = [proc[p] EXCEPT !.batch = proc[p].batch + 1, !.pc = next]]
    BY <1>8 DEF WriteBatch
  <2> HIDE DEF next
  <2>d. [proc[p] EXCEPT !.batch = proc[p].batch + 1, !.pc = next] \in Process
    BY <2>a, <2>b DEF Process
  <2>1. ImportTypeOK'
    <3>1. proc' \in [Procs -> Process]
      BY <2>c, <2>d DEF ImportTypeOK
    <3> QED
      BY <1>8, <3>1 DEF WriteBatch, Written, ImportTypeOK, WorkerSteps
  <2>2. Owners'
    BY <1>8 DEF WriteBatch, Written, LastBatch, ImportTypeOK, Process, Owners, WorkerSteps
  <2>3. Sessions'
    BY <1>8 DEF WriteBatch, Written, LastBatch, ImportTypeOK, Process, Sessions, FencedWrites
  <2>4. BatchLeft' /\ WorkerSteps'
    <3>1. /\ proc'[p].pc = next /\ proc'[p].batch = proc[p].batch + 1
          /\ \A q \in Procs : q # p => proc'[q] = proc[q]
      BY <2>c, <2>a DEF ImportTypeOK, Process
    <3>2. next \in {"write", "verify"} => proc[p].batch + 1 < Batches
      BY <2>a, <2>b DEF LastBatch, Process
    <3> QED
      BY <3>1, <3>2, <2>b DEF BatchLeft, WorkerSteps
  <2>5. DayImportedOnce'
    BY <1>8 DEF WriteBatch, Written, LastBatch, ImportTypeOK, Process, DayImportedOnce, Owners
  <2>6. FencedWrites'
    BY <1>8 DEF WriteBatch, Written, LastBatch, ImportTypeOK, FencedWrites, Sessions
  <2> QED
    BY <2>1, <2>2, <2>3, <2>4, <2>5, <2>6
<1>9. ASSUME NEW p \in Procs, ImportFails(p) PROVE ImportInv'
  <2>a. /\ proc[p].pc = "write" /\ proc[p] \in Process /\ proc[p].batch < Batches
        /\ proc[p].batch + 1 \in 0..Batches
    BY <1>9 DEF ImportFails, ImportTypeOK, BatchLeft, Process
  <2>b. PICK pc \in {"release", "complete", "verify"} :
          /\ p \in Manual => pc = "release"
          /\ pc = "verify" => ~LastBatch(p)
          /\ proc' = [proc EXCEPT ![p].ok = FALSE, ![p].pc = pc, ![p].batch = @ + 1]
    BY <1>9 DEF ImportFails
  <2>c. proc' = [proc EXCEPT ![p] = [proc[p] EXCEPT !.ok = FALSE, !.pc = pc,
                                                    !.batch = proc[p].batch + 1]]
    BY <2>b
  <2>d. [proc[p] EXCEPT !.ok = FALSE, !.pc = pc, !.batch = proc[p].batch + 1] \in Process
    BY <2>a, <2>b DEF Process
  <2>e. /\ proc'[p].pc = pc /\ proc'[p].batch = proc[p].batch + 1
        /\ proc'[p].alive = proc[p].alive
        /\ \A q \in Procs : q # p => proc'[q] = proc[q]
        /\ proc' \in [Procs -> Process]
    BY <2>a, <2>c, <2>d DEF ImportTypeOK, Process
  <2>1. ImportTypeOK'
    BY <1>9, <2>e DEF ImportFails, Written, ImportTypeOK, WorkerSteps
  <2>2. Owners'
    BY <1>9, <2>a, <2>b, <2>e DEF ImportFails, Owners
  <2>3. Sessions'
    BY <1>9, <2>a, <2>b, <2>e DEF ImportFails, Written, ImportTypeOK, Sessions, FencedWrites
  <2>4. BatchLeft' /\ WorkerSteps'
    <3>1. pc = "verify" => proc[p].batch + 1 < Batches
      BY <2>a, <2>b DEF LastBatch, Process
    <3> QED
      BY <3>1, <2>a, <2>b, <2>e DEF BatchLeft, WorkerSteps, Procs
  <2>5. DayImportedOnce'
    BY <1>9, <2>a DEF ImportFails, Written, ImportTypeOK, DayImportedOnce, Owners
  <2>6. FencedWrites'
    BY <1>9, <2>a DEF ImportFails, Written, ImportTypeOK, FencedWrites, Sessions
  <2> QED
    BY <2>1, <2>2, <2>3, <2>4, <2>5, <2>6
<1>10. ASSUME NEW p \in Procs, Complete(p) PROVE ImportInv'
  <2>1. ImportTypeOK'
    <3>1. proc' \in [Procs -> Process]
      BY <1>10 DEF Complete, ImportTypeOK, Process
    <3> QED
      BY <1>10, <3>1 DEF Complete, ImportTypeOK, WorkerSteps
  <2>2. Owners'
    BY <1>10 DEF Complete, ImportTypeOK, Process, Owners, WorkerSteps
  <2>3. Sessions'
    BY <1>10 DEF Complete, ImportTypeOK, Process, Sessions, FencedWrites
  <2>4. BatchLeft' /\ WorkerSteps'
    BY <1>10 DEF Complete, ImportTypeOK, Process, BatchLeft, WorkerSteps
  <2>5. DayImportedOnce'
    BY <1>10 DEF Complete, ImportTypeOK, Process, DayImportedOnce, Owners
  <2>6. FencedWrites'
    BY <1>10 DEF Complete, ImportTypeOK, FencedWrites, Sessions
  <2> QED
    BY <2>1, <2>2, <2>3, <2>4, <2>5, <2>6
<1>11. ASSUME NEW p \in Procs, FinalAssert(p) PROVE ImportInv'
  <2>1. ImportTypeOK'
    <3>1. proc' \in [Procs -> Process]
      BY <1>11 DEF FinalAssert, Verified, ImportTypeOK, Process
    <3> QED
      BY <1>11, <3>1 DEF FinalAssert, ImportTypeOK, WorkerSteps
  <2>2. Owners'
    BY <1>11 DEF FinalAssert, Verified, ImportTypeOK, Process, Owners, WorkerSteps
  <2>3. Sessions'
    BY <1>11 DEF FinalAssert, Verified, ImportTypeOK, Process, Sessions, FencedWrites
  <2>4. BatchLeft' /\ WorkerSteps'
    BY <1>11 DEF FinalAssert, Verified, ImportTypeOK, Process, BatchLeft, WorkerSteps
  <2>5. DayImportedOnce'
    BY <1>11 DEF FinalAssert, Verified, ImportTypeOK, Process, DayImportedOnce, Owners
  <2>6. FencedWrites'
    BY <1>11 DEF FinalAssert, Verified, ImportTypeOK, FencedWrites, Sessions
  <2> QED
    BY <2>1, <2>2, <2>3, <2>4, <2>5, <2>6
<1>12. ASSUME NEW p \in Procs, Release(p) PROVE ImportInv'
  <2>1. ImportTypeOK'
    <3>1. proc' \in [Procs -> Process]
      BY <1>12, EndedProcess DEF Release, ImportTypeOK
    <3> QED
      BY <1>12, <3>1 DEF Release, ImportTypeOK, WorkerSteps
  <2>2. Owners'
    BY <1>12 DEF Release, Ended, Fresh, ImportTypeOK, Process, Owners, WorkerSteps
  <2>3. Sessions'
    BY <1>12 DEF Release, Ended, Fresh, ImportTypeOK, Process, Sessions, FencedWrites
  <2>4. BatchLeft' /\ WorkerSteps'
    BY <1>12 DEF Release, Ended, Fresh, ImportTypeOK, Process, BatchLeft, WorkerSteps
  <2>5. DayImportedOnce'
    BY <1>12 DEF Release, Ended, Fresh, ImportTypeOK, Process, DayImportedOnce, Owners
  <2>6. FencedWrites'
    BY <1>12 DEF Release, Ended, Fresh, ImportTypeOK, FencedWrites, Sessions
  <2> QED
    BY <2>1, <2>2, <2>3, <2>4, <2>5, <2>6
<1>13. ASSUME NEW p \in Procs, SessionLost(p) PROVE ImportInv'
  BY <1>13 DEF SessionLost, ImportTypeOK, Process, Owners, Sessions, BatchLeft, WorkerSteps,
     DayImportedOnce, FencedWrites
<1>14. ASSUME NEW p \in Procs, OnLoss(p) PROVE ImportInv'
  <2>1. ImportTypeOK'
    <3>0. proc[p] \in Process /\ FALSE \in BOOLEAN
      BY DEF ImportTypeOK
    <3>1. [proc[p] EXCEPT !.alive = FALSE] \in Process
      BY <3>0, Zenon DEF Process
    <3>2. proc' = [proc EXCEPT ![p] = [proc[p] EXCEPT !.alive = FALSE]]
      BY <1>14 DEF OnLoss
    <3>3. proc' \in [Procs -> Process]
      BY <3>1, <3>2 DEF ImportTypeOK
    <3> QED
      BY <1>14, <3>3 DEF OnLoss, ImportTypeOK, WorkerSteps
  <2>2. Owners'
    BY <1>14 DEF OnLoss, ImportTypeOK, Process, Owners, WorkerSteps
  <2>3. Sessions'
    BY <1>14 DEF OnLoss, ImportTypeOK, Process, Sessions, FencedWrites
  <2>4. BatchLeft' /\ WorkerSteps'
    BY <1>14 DEF OnLoss, ImportTypeOK, Process, BatchLeft, WorkerSteps
  <2>5. DayImportedOnce'
    BY <1>14 DEF OnLoss, ImportTypeOK, Process, DayImportedOnce, Owners
  <2>6. FencedWrites'
    BY <1>14 DEF OnLoss, ImportTypeOK, FencedWrites, Sessions
  <2> QED
    BY <2>1, <2>2, <2>3, <2>4, <2>5, <2>6
<1>15. ASSUME NEW p \in Procs, Crash(p) PROVE ImportInv'
  <2>1. ImportTypeOK'
    <3>1. proc' \in [Procs -> Process]
      BY <1>15, EndedProcess DEF Crash, ImportTypeOK
    <3> QED
      BY <1>15, <3>1 DEF Crash, ImportTypeOK, WorkerSteps
  <2>2. Owners'
    BY <1>15 DEF Crash, Ended, Fresh, ImportTypeOK, Process, Owners, WorkerSteps
  <2>3. Sessions'
    BY <1>15 DEF Crash, Ended, Fresh, ImportTypeOK, Process, Sessions, FencedWrites
  <2>4. BatchLeft' /\ WorkerSteps'
    BY <1>15 DEF Crash, Ended, Fresh, ImportTypeOK, Process, BatchLeft, WorkerSteps
  <2>5. DayImportedOnce'
    BY <1>15 DEF Crash, Ended, Fresh, ImportTypeOK, Process, DayImportedOnce, Owners
  <2>6. FencedWrites'
    BY <1>15 DEF Crash, Ended, Fresh, ImportTypeOK, FencedWrites, Sessions
  <2> QED
    BY <2>1, <2>2, <2>3, <2>4, <2>5, <2>6
<1> QED
  BY <1>1, <1>2, <1>3, <1>4, <1>5, <1>6, <1>7, <1>8, <1>9, <1>10, <1>11, <1>12, <1>13,
     <1>14, <1>15 DEF Next, Step

\* A business day is imported by one run, for any number of runs, crashes and lost
\* locks (LangameExternalRunLeaseService.acquire, complete).
THEOREM ImportOnce == Spec => []DayImportedOnce
<1>1. Spec => []ImportInv
  BY ImportInit, ImportStep, PTL DEF Spec
<1>2. ImportInv => DayImportedOnce
  BY DEF ImportInv
<1> QED
  BY <1>1, <1>2, PTL

\* No session writes without the lock and a worker that lost it writes one batch more
\* at the most (withExternalImportLock, assertExternalExecutionCurrent).
THEOREM ImportFenced == Spec => []FencedWrites
<1>1. Spec => []ImportInv
  BY ImportInit, ImportStep, PTL DEF Spec
<1>2. ImportInv => FencedWrites
  BY DEF ImportInv
<1> QED
  BY <1>1, <1>2, PTL

\* The state keeps its type, and only a session that is up holds the lock.
THEOREM ImportTyped == Spec => []ImportTypeOK
<1>1. Spec => []ImportInv
  BY ImportInit, ImportStep, PTL DEF Spec
<1>2. ImportInv => ImportTypeOK
  BY DEF ImportInv
<1> QED
  BY <1>1, <1>2, PTL
=============================================================================
