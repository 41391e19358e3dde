------------------------------ MODULE StatusCheck ------------------------------
(***************************************************************************)
(* The StatusCheck controller (controllers/statuscheck): a reconciler, and *)
(* a manager that keeps, under the name of a StatusCheck, a worker which   *)
(* executes the check periodically and the results it has produced.        *)
(*                                                                         *)
(* One name is modelled; the object behind it may be deleted and created   *)
(* again, and uid tells its incarnations apart.  Workers are goroutines:   *)
(* the execution of a check, the append of its result and the deferred     *)
(* clean-up of a worker interleave with the reconciler, and the manager's  *)
(* two maps are locked separately.                                         *)
(***************************************************************************)
EXTENDS Naturals, Sequences, FiniteSets

CONSTANTS
    Synchronous,       \* spec.mode is Synchronous, not Continuous
    HasDuration,       \* spec.duration is set
    FailureThreshold, SuccessThreshold,
    Limit,             \* spec.recordsHistoryLimit
    MaxUid,            \* bound on the incarnations of the object
    MaxWorkers,        \* bound on the workers started
    MaxCrashes,        \* bound on the restarts of the manager
    MaxFailures        \* bound on the failed status updates

ASSUME SpecAssumption ==
    /\ Synchronous \in BOOLEAN /\ HasDuration \in BOOLEAN
    /\ FailureThreshold \in Nat \ {0} /\ SuccessThreshold \in Nat \ {0}
    /\ Limit \in Nat \ {0}
ASSUME BoundsAssumption ==
    /\ MaxUid \in Nat \ {0} /\ MaxWorkers \in Nat \ {0}
    /\ MaxCrashes \in Nat /\ MaxFailures \in Nat

Outcomes == {"Success", "Failure"}

Records == UNION {[1..n -> Outcomes] : n \in 0..Limit}

\* Counts beyond both thresholds need not be told apart.
CountCap == IF FailureThreshold > SuccessThreshold THEN FailureThreshold
                                                   ELSE SuccessThreshold

None == [records |-> <<>>, limit |-> 0, present |-> FALSE]

Idle == [state |-> "none", uid |-> 0, last |-> "Failure", same |-> 0, told |-> FALSE]

VARIABLES
    uid,          \* the incarnation of the object, or 0 while it does not exist
    born,         \* how many incarnations there have been
    status,       \* its persisted status: [records, started, completed]
    expired,      \* its duration has elapsed
    queued,       \* its name is in the work queue
    timer,        \* a RequeueAfter is pending
    results,      \* the manager's result for the name
    current,      \* the manager's worker for the name, 0 if there is none
    worker,       \* the goroutines
    pc,           \* the step the reconciler is in
    reading,      \* the incarnation it has read
    result,       \* the result the reconciler read
    crashes, failures

object == <<uid, born, status, expired>>
queue == <<queued, timer>>
local == <<pc, reading, result>>
bounds == <<crashes, failures>>
vars == <<object, queue, results, current, worker, local, bounds>>

NoStatus == [records |-> <<>>, started |-> FALSE, completed |-> FALSE]

\* What each variable may hold.
TypeOK ==
    /\ uid \in 0..MaxUid /\ born \in 1..MaxUid
    /\ status \in [records : Records, started : BOOLEAN, completed : BOOLEAN]
    /\ expired \in BOOLEAN /\ queued \in BOOLEAN /\ timer \in BOOLEAN
    /\ results \in [records : Records, limit : {0, Limit}, present : BOOLEAN]
    /\ current \in 0..MaxWorkers
    /\ worker \in [1..MaxWorkers ->
          [state : {"none", "waiting", "executing", "returning", "gone"},
           uid : 0..MaxUid, last : Outcomes, same : 0..CountCap, told : BOOLEAN]]
    /\ pc \in {"idle", "deleting", "adding", "updating"}
    /\ reading \in 0..MaxUid
    /\ result \in Records
    /\ crashes \in 0..MaxCrashes /\ failures \in 0..MaxFailures

--------------------------------------------------------------------------------
(* Pure parts.                                                             *)

\* Mutant: the history is never cut.
limitRecordsNever(records, limit) == records

limitRecords(records, limit) ==
    IF Len(records) < limit THEN records
    ELSE SubSeq(records, Len(records) - limit + 1, Len(records))

\* Mutant: one outcome more than the threshold is asked for.
isThresholdExceedStrict(records, outcome, threshold) ==
    /\ Len(records) > threshold
    /\ \A i \in Len(records) - threshold .. Len(records) : records[i] = outcome

isThresholdExceed(records, outcome, threshold) ==
    /\ Len(records) >= threshold
    /\ \A i \in Len(records) - threshold + 1 .. Len(records) : records[i] = outcome

\* Mutant: the duration is left out.
CompletedWithoutDuration(records) ==
    \/ isThresholdExceed(records, "Failure", FailureThreshold)
    \/ Synchronous /\ isThresholdExceed(records, "Success", SuccessThreshold)

\* setCompletedCondition, for an object with these records.
Completed(records) ==
    \/ HasDuration /\ status.started /\ expired
    \/ isThresholdExceed(records, "Failure", FailureThreshold)
    \/ Synchronous /\ isThresholdExceed(records, "Success", SuccessThreshold)

--------------------------------------------------------------------------------
(* The user, time and the work queue.                                      *)

Delete ==
    /\ uid # 0
    /\ uid' = 0
    /\ queued' = TRUE
    /\ UNCHANGED <<born, status, expired, timer, results, current, worker, local, bounds>>

Create ==
    /\ uid = 0 /\ born < MaxUid
    /\ uid' = born + 1 /\ born' = born + 1
    /\ status' = NoStatus
    /\ expired' = FALSE
    /\ queued' = TRUE
    /\ UNCHANGED <<timer, results, current, worker, local, bounds>>

Expire ==
    /\ HasDuration /\ uid # 0 /\ status.started /\ ~expired
    /\ expired' = TRUE
    /\ UNCHANGED <<uid, born, status, queue, results, current, worker, local, bounds>>

TimerFires ==
    /\ timer
    /\ timer' = FALSE
    /\ queued' = TRUE
    /\ UNCHANGED <<object, results, current, worker, local, bounds>>

--------------------------------------------------------------------------------
(* The manager's maps.                                                     *)

\* Mutant: the worker is forgotten, but not stopped.
deleteWorkerUnstopped(w) ==
    /\ current' = 0
    /\ worker' = w

\* workerCache.delete, the workers otherwise becoming w: whichever worker has
\* the name is removed and told to stop.
deleteWorker(w) ==
    /\ current' = 0
    /\ worker' = IF current = 0 THEN w ELSE [w EXCEPT ![current].told = TRUE]

\* resultCache.append; a result that is not there is made from the zero value.
appendResult(outcome) ==
    results' = [present |-> TRUE, limit |-> results.limit,
                records |-> limitRecords(Append(results.records, outcome), results.limit)]

Unused == {w \in 1..MaxWorkers : worker[w].state = "none"}

--------------------------------------------------------------------------------
(* Reconciler.Reconcile                                                    *)

\* The object is not found: manager.Delete, whose first half drops the results
\* and whose second half drops the worker.
ReconcileDeleted ==
    /\ pc = "idle" /\ queued /\ uid = 0
    /\ queued' = FALSE
    /\ results' = None
    /\ pc' = "deleting"
    /\ UNCHANGED <<object, timer, current, worker, reading, result, bounds>>

DeleteWorker ==
    /\ pc = "deleting"
    /\ deleteWorker(worker)
    /\ pc' = "idle"
    /\ UNCHANGED <<object, queue, results, reading, result, bounds>>

ReconcileCompleted ==
    /\ pc = "idle" /\ queued /\ uid # 0 /\ status.completed
    /\ queued' = FALSE
    /\ UNCHANGED <<object, timer, results, current, worker, local, bounds>>

\* The manager has a result for the name.
ReconcileKnown ==
    /\ pc = "idle" /\ queued /\ uid # 0 /\ ~status.completed /\ results.present
    /\ queued' = FALSE
    /\ result' = results.records
    /\ pc' = "updating"
    /\ UNCHANGED <<object, timer, results, current, worker, reading, bounds>>

\* It has none: manager.Add, whose first half initialises the result.
ReconcileNew ==
    /\ pc = "idle" /\ queued /\ uid # 0 /\ ~status.completed /\ ~results.present
    /\ queued' = FALSE
    /\ results' = [records |-> limitRecords(status.records, Limit), limit |-> Limit,
                   present |-> TRUE]
    /\ reading' = uid
    /\ pc' = "adding"
    /\ UNCHANGED <<object, timer, current, worker, result, bounds>>

\* workerCache.add starts the worker unless the name has one; then the result is
\* read.  The worker carries the incarnation it was made for.
AddWorker ==
    /\ pc = "adding"
    /\ IF current = 0
       THEN \E w \in Unused :
               /\ \A v \in Unused : w <= v
               /\ current' = w
               /\ worker' = [worker EXCEPT ![w] = [Idle EXCEPT !.state = "waiting",
                                                              !.uid = reading]]
       ELSE UNCHANGED <<current, worker>>
    /\ result' = results.records
    /\ reading' = 0
    /\ pc' = "updating"
    /\ UNCHANGED <<object, queue, results, bounds>>

\* Mutant: the completion of a check does not stop its worker.
UpdateStatusKeepsWorker ==
    /\ pc = "updating" /\ uid # 0
    /\ status' = [records |-> result, started |-> TRUE, completed |-> Completed(result)]
    /\ queued' = TRUE
    /\ timer' = TRUE
    /\ pc' = "idle"
    /\ result' = <<>>
    /\ UNCHANGED <<uid, born, expired, results, current, worker, reading, bounds>>

\* updateStatus writes the result into the object as it is now, and stops the
\* worker before the write if the check is completed by it.  A write that changes
\* the status, if only a probe time, comes back as an event.
UpdateStatus ==
    /\ pc = "updating" /\ uid # 0
    /\ status' = [records |-> result, started |-> TRUE, completed |-> Completed(result)]
    /\ IF Completed(result) THEN deleteWorker(worker) ELSE UNCHANGED <<current, worker>>
    /\ \/ queued' = TRUE
       \/ status' = status /\ UNCHANGED queued
    /\ timer' = TRUE
    /\ pc' = "idle"
    /\ result' = <<>>
    /\ UNCHANGED <<uid, born, expired, results, reading, bounds>>

\* The object is gone, before updateStatus has read it or before it writes.
UpdateNotFound ==
    /\ pc = "updating" /\ uid = 0
    /\ \/ UNCHANGED <<current, worker>>
       \/ Completed(result) /\ deleteWorker(worker)
    /\ timer' = TRUE
    /\ pc' = "idle"
    /\ result' = <<>>
    /\ UNCHANGED <<object, queued, results, reading, bounds>>

\* The update fails, the error is returned, and the name is queued again; the
\* worker may have been stopped.
UpdateFails ==
    /\ pc = "updating" /\ uid # 0 /\ failures < MaxFailures
    /\ failures' = failures + 1
    /\ IF Completed(result) THEN deleteWorker(worker) ELSE UNCHANGED <<current, worker>>
    /\ queued' = TRUE
    /\ pc' = "idle"
    /\ result' = <<>>
    /\ UNCHANGED <<object, timer, results, reading, crashes>>

--------------------------------------------------------------------------------
(* worker.run                                                              *)

\* The ticker fires.  Go chooses freely between it and a closed stopCh.
Tick(w) ==
    /\ worker[w].state = "waiting"
    /\ worker' = [worker EXCEPT ![w].state = "executing"]
    /\ UNCHANGED <<object, queue, results, current, local, bounds>>

StopSeen(w) ==
    /\ worker[w].state = "waiting" /\ worker[w].told
    /\ worker' = [worker EXCEPT ![w].state = "returning"]
    /\ UNCHANGED <<object, queue, results, current, local, bounds>>

\* The executor fails, and the execution is thrown away.
ExecuteError(w) ==
    /\ worker[w].state = "executing"
    /\ worker' = [worker EXCEPT ![w].state = "waiting"]
    /\ UNCHANGED <<object, queue, results, current, local, bounds>>

\* The execution has an outcome: it is counted and appended, and the worker
\* returns if it exceeds its threshold.
Execute(w, outcome) ==
    LET count == IF worker[w].last = outcome THEN worker[w].same + 1 ELSE 1
        done == \/ outcome = "Failure" /\ count >= FailureThreshold
                \/ outcome = "Success" /\ Synchronous /\ count >= SuccessThreshold
    IN  /\ worker[w].state = "executing"
        /\ appendResult(outcome)
        /\ worker' = [worker EXCEPT
              ![w].last = outcome,
              ![w].same = IF count > CountCap THEN CountCap ELSE count,
              ![w].state = IF done THEN "returning" ELSE "waiting"]
        /\ UNCHANGED <<object, queue, current, local, bounds>>

\* The deferred function removes and stops whichever worker has the name now.
Return(w) ==
    /\ worker[w].state = "returning"
    /\ deleteWorker([worker EXCEPT ![w].state = "gone"])
    /\ UNCHANGED <<object, queue, results, local, bounds>>

--------------------------------------------------------------------------------
\* The manager is restarted: workers, results and queue are lost, and the objects
\* there are get queued.
Crash ==
    /\ crashes < MaxCrashes
    /\ crashes' = crashes + 1
    /\ results' = None
    /\ current' = 0
    /\ worker' = [w \in 1..MaxWorkers |-> IF worker[w].state = "none" THEN worker[w]
                                          ELSE [Idle EXCEPT !.state = "gone"]]
    /\ queued' = (uid # 0)
    /\ timer' = FALSE
    /\ pc' = "idle"
    /\ reading' = 0
    /\ result' = <<>>
    /\ UNCHANGED <<object, failures>>

Init ==
    /\ uid = 1 /\ born = 1 /\ status = NoStatus /\ expired = FALSE
    /\ queued = TRUE /\ timer = FALSE
    /\ results = None /\ current = 0
    /\ worker = [w \in 1..MaxWorkers |-> Idle]
    /\ pc = "idle" /\ reading = 0 /\ result = <<>>
    /\ crashes = 0 /\ failures = 0

Reconcile ==
    \/ ReconcileDeleted \/ DeleteWorker \/ ReconcileCompleted
    \/ ReconcileKnown \/ ReconcileNew \/ AddWorker
    \/ UpdateStatus \/ UpdateNotFound \/ UpdateFails

Run(w) ==
    \/ Tick(w) \/ StopSeen(w) \/ ExecuteError(w) \/ Return(w)
    \/ \E outcome \in Outcomes : Execute(w, outcome)

Next ==
    \/ Delete \/ Create \/ Expire \/ TimerFires \/ Crash
    \/ Reconcile
    \/ \E w \in 1..MaxWorkers : Run(w)

Spec == Init /\ [][Next]_vars

\* Reconciliations are served, timers fire and durations elapse.
FairSpec == Spec /\ WF_vars(Reconcile) /\ WF_vars(TimerFires) /\ WF_vars(Expire)

--------------------------------------------------------------------------------
(* Properties.                                                             *)

Active(w) == worker[w].state \in {"waiting", "executing"} /\ ~worker[w].told

\* workerCache: at most one worker that was not told to stop executes the check,
\* however the object is deleted, created again and reconciled.
AtMostOneActive ==
    \A v, w \in 1..MaxWorkers : Active(v) /\ Active(w) => v = w

\* Complete: a check that is reported as completed has no active worker.
CompletedHasNoWorker ==
    uid # 0 /\ status.completed /\ pc = "idle" =>
        \A w \in 1..MaxWorkers : worker[w].uid = uid => ~Active(w)

\* The worker and setFailureThresholdExceedCondition decide alike: a worker that
\* has gone by itself leaves records by which the controller completes the check.
\* This is said of a name that was not used before, and while no status write has
\* failed: see DeleteCleansUp, and Complete in updateStatus.
StoppedMeansDecided ==
    /\ uid = 1 /\ ~status.completed /\ failures = 0
    /\ pc = "idle" /\ results.present /\ current = 0
    => Completed(results.records)

\* Delete cleans up the state of a removed check: once the reconciler has dealt
\* with the deletion and the workers have ended, no results are left.
DeleteCleansUp ==
    /\ uid = 0 /\ pc = "idle" /\ ~queued /\ ~timer
    /\ \A w \in 1..MaxWorkers : worker[w].state \in {"none", "gone"}
    => ~results.present

\* A check whose duration has elapsed is eventually completed or removed.
DurationCompletes == expired ~> (uid = 0 \/ status.completed \/ ~expired)

================================================================================
