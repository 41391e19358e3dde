--------------------------- MODULE StatusCheckProofs ---------------------------
(***************************************************************************)
(* AtMostOneActive for any number of workers, incarnations, restarts and   *)
(* failed updates: an active worker is always the one the manager knows.   *)
(***************************************************************************)
EXTENDS StatusCheck, TLAPS

Worker == [state : {"none", "waiting", "executing", "returning", "gone"},
           uid : Nat, last : Outcomes, same : Nat, told : BOOLEAN]

WorkersType ==
    /\ worker \in [1..MaxWorkers -> Worker]
    /\ current \in 0..MaxWorkers
    /\ uid \in Nat /\ born \in Nat /\ reading \in Nat

ActiveIsCurrent == \A w \in 1..MaxWorkers : Active(w) => w = current

IInv == WorkersType /\ ActiveIsCurrent

LEMMA InitIInv == Init => IInv
BY BoundsAssumption DEF Init, IInv, WorkersType, ActiveIsCurrent, Active, Worker, Idle, Outcomes

\* Forgetting the current worker is safe, because it is told to stop.
LEMMA DeleteWorkerSafe ==
    ASSUME IInv, NEW w0 \in [1..MaxWorkers -> Worker], deleteWorker(w0),
           \A w \in 1..MaxWorkers :
              w0[w].state \in {"waiting", "executing"} /\ ~w0[w].told => Active(w)
    PROVE  worker' \in [1..MaxWorkers -> Worker] /\ current' \in 0..MaxWorkers
           /\ ActiveIsCurrent'
<1>1. CASE current = 0
  BY <1>1, BoundsAssumption DEF IInv, WorkersType, ActiveIsCurrent, deleteWorker, Active
<1>2. CASE current # 0
  <2>1. current \in 1..MaxWorkers
    BY <1>2, BoundsAssumption DEF IInv, WorkersType
  <2>2. worker' = [w0 EXCEPT ![current].told = TRUE] /\ current' = 0
    BY <1>2 DEF deleteWorker
  <2>3. worker' \in [1..MaxWorkers -> Worker]
    BY <2>1, <2>2 DEF Worker
  <2>4. \A w \in 1..MaxWorkers : ~Active(w)'
    BY <2>1, <2>2 DEF IInv, ActiveIsCurrent, Active, Worker
  <2> QED
    BY <2>2, <2>3, <2>4, BoundsAssumption DEF ActiveIsCurrent
<1> QED
  BY <1>1, <1>2

\* A running worker may change anything but the signal it was given.
LEMMA WorkerMoves ==
    ASSUME IInv, NEW w \in 1..MaxWorkers, NEW r \in Worker,
           worker[w].state \in {"waiting", "executing"}, r.told = worker[w].told,
           worker' = [worker EXCEPT ![w] = r],
           UNCHANGED <<current, uid, born, reading>>
    PROVE  IInv'
<1>1. worker' \in [1..MaxWorkers -> Worker]
  BY DEF IInv, WorkersType
<1>2. ASSUME NEW v \in 1..MaxWorkers, Active(v)' PROVE v = current'
  BY <1>2 DEF IInv, WorkersType, ActiveIsCurrent, Active
<1> QED
  BY <1>1, <1>2 DEF IInv, WorkersType, ActiveIsCurrent

LEMMA NextIInv == IInv /\ [Next]_vars => IInv'
<1> SUFFICES ASSUME IInv, [Next]_vars PROVE IInv'
  OBVIOUS
<1> USE DEF IInv
<1>1. ASSUME UNCHANGED <<worker, current>>, uid' \in Nat, born' \in Nat, reading' \in Nat
      PROVE  IInv'
  BY <1>1 DEF WorkersType, ActiveIsCurrent, Active
<1>2. ASSUME deleteWorker(worker), UNCHANGED <<uid, born, reading>>
      PROVE  IInv'
  BY <1>2, DeleteWorkerSafe DEF WorkersType, Active
<1>3. CASE Delete \/ Create \/ Expire \/ TimerFires
  BY <1>1, <1>3 DEF Delete, Create, Expire, TimerFires, WorkersType, object, local
<1>4. CASE ReconcileDeleted \/ ReconcileCompleted \/ ReconcileKnown \/ ReconcileNew
  BY <1>1, <1>4 DEF ReconcileDeleted, ReconcileCompleted, ReconcileKnown, ReconcileNew,
                    WorkersType, object, local
<1>5. CASE DeleteWorker
  BY <1>2, <1>5 DEF DeleteWorker, object
<1>6. CASE UpdateStatus \/ UpdateFails \/ UpdateNotFound
  BY <1>1, <1>2, <1>6 DEF UpdateStatus, UpdateFails, UpdateNotFound, WorkersType, object
<1>7. CASE AddWorker
  <2>1. uid' = uid /\ born' = born /\ reading' = 0
    BY <1>7 DEF AddWorker, object
  <2>2. CASE current # 0
    BY <1>1, <1>7, <2>1, <2>2 DEF AddWorker, WorkersType
  <2>3. CASE current = 0
    <3>1. PICK w \in 1..MaxWorkers :
             /\ current' = w
             /\ worker' = [worker EXCEPT ![w] = [Idle EXCEPT !.state = "waiting",
                                                            !.uid = reading]]
      BY <1>7, <2>3 DEF AddWorker, Unused
    <3>2. worker' \in [1..MaxWorkers -> Worker]
      BY <3>1 DEF WorkersType, Worker, Idle, Outcomes
    <3>3. \A v \in 1..MaxWorkers : ~Active(v)
      BY <2>3 DEF ActiveIsCurrent
    <3>4. ActiveIsCurrent'
      BY <3>1, <3>3 DEF ActiveIsCurrent, Active, WorkersType
    <3> QED
      BY <2>1, <3>1, <3>2, <3>4, BoundsAssumption DEF WorkersType
  <2> QED
    BY <2>2, <2>3
<1>8. ASSUME NEW w \in 1..MaxWorkers, Tick(w) \/ StopSeen(w) \/ ExecuteError(w)
      PROVE  IInv'
  <2>1. UNCHANGED <<current, uid, born, reading>>
    BY <1>8 DEF Tick, StopSeen, ExecuteError, object, local
  <2>2. worker[w].state \in {"waiting", "executing"}
    BY <1>8 DEF Tick, StopSeen, ExecuteError
  <2>3. PICK st \in {"waiting", "executing", "returning"} :
           worker' = [worker EXCEPT ![w] = [worker[w] EXCEPT !.state = st]]
    BY <1>8 DEF Tick, StopSeen, ExecuteError
  <2> QED
    BY <2>1, <2>2, <2>3, WorkerMoves DEF WorkersType, Worker
<1>9. ASSUME NEW w \in 1..MaxWorkers, NEW outcome \in Outcomes, Execute(w, outcome)
      PROVE  IInv'
  <2> DEFINE count == IF worker[w].last = outcome THEN worker[w].same + 1 ELSE 1
             n == IF count > CountCap THEN CountCap ELSE count
             done == \/ outcome = "Failure" /\ count >= FailureThreshold
                     \/ outcome = "Success" /\ Synchronous /\ count >= SuccessThreshold
             st == IF done THEN "returning" ELSE "waiting"
  <2>1. UNCHANGED <<current, uid, born, reading>> /\ worker[w].state = "executing"
    BY <1>9 DEF Execute, object, local
  <2>2. worker[w] \in Worker
    BY DEF WorkersType
  <2>3. n \in Nat
    BY <2>2, SpecAssumption DEF Worker, CountCap
  <2>4. worker' = [worker EXCEPT ![w] = [worker[w] EXCEPT !.last = outcome, !.same = n,
                                                         !.state = st]]
    BY <1>9 DEF Execute
  <2>5. st \in {"returning", "waiting"}
    OBVIOUS
  <2> HIDE DEF n, st
  <2>6. /\ [worker[w] EXCEPT !.last = outcome, !.same = n, !.state = st] \in Worker
        /\ [worker[w] EXCEPT !.last = outcome, !.same = n, !.state = st].told = worker[w].told
    BY <2>2, <2>3, <2>5 DEF Worker
  <2> QED
    BY <2>1, <2>4, <2>6, WorkerMoves
<1>10. ASSUME NEW w \in 1..MaxWorkers, Return(w)
       PROVE  IInv'
  <2>1. [worker EXCEPT ![w].state = "gone"] \in [1..MaxWorkers -> Worker]
    BY DEF WorkersType, Worker
  <2>2. \A v \in 1..MaxWorkers :
           /\ [worker EXCEPT ![w].state = "gone"][v].state \in {"waiting", "executing"}
           /\ ~[worker EXCEPT ![w].state = "gone"][v].told
           => Active(v)
    BY DEF WorkersType, Worker, Active
  <2> QED
    BY <1>10, <2>1, <2>2, DeleteWorkerSafe DEF Return, WorkersType, object, local
<1>11. CASE Crash
  <2>1. worker' \in [1..MaxWorkers -> Worker] /\ \A v \in 1..MaxWorkers : ~Active(v)'
    BY <1>11 DEF Crash, WorkersType, Worker, Idle, Outcomes, Active
  <2>2. current' = 0 /\ reading' = 0 /\ uid' = uid /\ born' = born
    BY <1>11 DEF Crash, object
  <2>3. ActiveIsCurrent'
    BY <2>1 DEF ActiveIsCurrent
  <2> QED
    BY <2>1, <2>2, <2>3, BoundsAssumption DEF WorkersType
<1>12. CASE UNCHANGED vars
  BY <1>1, <1>12 DEF vars, WorkersType, object, local
<1> QED
  BY <1>3, <1>4, <1>5, <1>6, <1>7, <1>8, <1>9, <1>10, <1>11, <1>12 DEF Next, Reconcile, Run

\* workerCache and the deferred clean-up of the workers keep at most one worker
\* active, however many times the check is deleted, created, completed or
\* restarted, and in whatever order their steps interleave.
THEOREM OneActiveWorker == Spec => []AtMostOneActive
<1>1. Init => IInv
  BY InitIInv
<1>2. IInv /\ [Next]_vars => IInv'
  BY NextIInv
<1>3. IInv => AtMostOneActive
  BY DEF IInv, ActiveIsCurrent, AtMostOneActive
<1> QED
  BY <1>1, <1>2, <1>3, PTL DEF Spec
================================================================================
