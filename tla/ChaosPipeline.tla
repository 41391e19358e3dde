----------------------------- MODULE ChaosPipeline -----------------------------
(***************************************************************************)
(* The reconciliation pipeline of one chaos experiment                     *)
(* (controllers/common): the five steps InitFinalizer, desiredphase,       *)
(* condition, records and CleanFinalizer run one after the other over one  *)
(* chaos object, while its owner pauses, deletes or force-cleans it, its   *)
(* duration elapses, and the informer cache lags behind the API server.    *)
(*                                                                         *)
(* The controller runs one reconciliation at a time                        *)
(* (MaxConcurrentReconciles is 1), so the pipeline is one process with a   *)
(* program counter.  A step's read, each call of the chaos implementation, *)
(* and a step's write are separate actions: anything may happen between    *)
(* them.  "view" is what a Get of the controller's client returns; that it *)
(* never lags behind the controller's own writes is shown by module        *)
(* UpdatedClient.                                                          *)
(***************************************************************************)
EXTENDS Naturals, FiniteSets

CONSTANTS
    Targets,      \* everything the selectors of the experiment can select
    OneShot,      \* InnerObject.IsOneShot()
    HasDuration,  \* spec.duration is set
    Faults,       \* the failures of this environment
    MaxFaults,    \* bound on how many of them happen
    MaxPauses     \* bound on changes of the pause annotation

ASSUME TargetsAssumption == Targets # {}
ASSUME FlagsAssumption == OneShot \in BOOLEAN /\ HasDuration \in BOOLEAN
ASSUME FaultsAssumption == Faults \subseteq {"write", "call", "crash"}
ASSUME BoundsAssumption == MaxFaults \in Nat /\ MaxPauses \in Nat

NotInjected == "Not Injected"
Injected == "Injected"
\* The intermediate phases "Not Injected/*" and "Injected/*".
WaitApply == "Not Injected/Wait"
WaitRecover == "Injected/Wait"
Unselected == "no record"

Phases == {NotInjected, WaitApply, Injected, WaitRecover}

\* strings.HasPrefix(phase, "Not Injected")
NotInjectedPrefix == {NotInjected, WaitApply}

ConditionTypes == {"Selected", "AllInjected", "AllRecovered", "Paused"}

\* The part of the chaos object the pipeline reads or writes.  conds holds the
\* condition types whose status is True, "unset" before the first report.
Object == [del : BOOLEAN, fin : BOOLEAN, paused : BOOLEAN, forced : BOOLEAN,
           phase : {"", "Run", "Stop"},
           recs : [Targets -> Phases \cup {Unselected}],
           conds : SUBSET (ConditionTypes \cup {"unset"})]

VARIABLES
    api,          \* the object in the API server (its last value once removed)
    exists,       \* the object is in the API server
    view,         \* the object as the controller's client reads it
    known,        \* the controller's client finds the object
    stale,        \* view is older than api: an Update of it conflicts
    event,        \* a watch event that enqueues the object is undelivered
    queued,       \* the object is in the work queue
    timer,        \* a RequeueAfter is pending
    expired,      \* the duration has elapsed
    pc,           \* the step the pipeline is in
    deadline,     \* the pipeline's local deadline is not nil
    after,        \* info.requeueAfter of the desiredphase step is not 0
    desired,      \* the desired phase to be written
    newConds,     \* the conditions to be written
    work,         \* the local records of the records step
    goal,         \* the desired phase the records step read
    todo,         \* the records its loop has not visited
    shouldUpdate, needRetry,
    actual,       \* does the fault act on the target (the real world)
    unack,        \* targets whose injection no persisted record acknowledges
    faults, pauses

world == <<api, exists, view, known, stale, event>>
queue == <<queued, timer>>
local == <<deadline, after, desired, newConds>>
loop == <<work, goal, todo, shouldUpdate, needRetry>>
ghost == <<actual, unack>>
env == <<expired, faults, pauses>>
vars == <<world, queue, pc, local, loop, ghost, env>>

Steps == {"idle", "init", "initWrite", "phase", "phaseWrite", "condition",
          "conditionWrite", "records", "loop", "persist", "clean", "cleanWrite"}

WorldType ==
    /\ api \in Object /\ view \in Object
    /\ exists \in BOOLEAN /\ known \in BOOLEAN
    /\ stale \in BOOLEAN /\ event \in BOOLEAN

LocalType ==
    /\ pc \in Steps
    /\ deadline \in BOOLEAN /\ after \in BOOLEAN
    /\ desired \in {"", "Run", "Stop"}
    /\ newConds \in SUBSET (ConditionTypes \cup {"unset"})

LoopType ==
    /\ work \in [Targets -> Phases \cup {Unselected}]
    /\ goal \in {"", "Run", "Stop"}
    /\ todo \in SUBSET Targets
    /\ shouldUpdate \in BOOLEAN /\ needRetry \in BOOLEAN

GhostType == actual \in [Targets -> BOOLEAN] /\ unack \in SUBSET Targets

\* What each variable may hold.
TypeOK ==
    /\ WorldType
    /\ queued \in BOOLEAN /\ timer \in BOOLEAN
    /\ LocalType
    /\ LoopType
    /\ GhostType
    /\ expired \in BOOLEAN
    /\ faults \in 0..MaxFaults /\ pauses \in 0..MaxPauses

--------------------------------------------------------------------------------
(* Pure parts of the steps.                                                *)

NoRecords == [t \in Targets |-> Unselected]

Selected(o) == {t \in Targets : o.recs[t] # Unselected}

\* Mutant: a phase no step knows.
CalcDesiredPhaseUnknown(o) == IF o.del THEN "Stopped" ELSE "Run"

\* Mutant: the pause is considered before the one-shot rule.
CalcDesiredPhasePauseFirst(o) == IF o.del \/ o.paused THEN "Stop" ELSE "Run"

CalcDesiredPhase(o) ==
    IF o.del THEN "Stop"
    ELSE IF OneShot THEN "Run"
    ELSE IF (HasDuration /\ expired) \/ o.paused THEN "Stop"
    ELSE "Run"

\* Mutant: untilStop is forgotten.
RequeueAfterForgotten(o) == FALSE

\* untilStop is returned only for a live object whose duration is running.
RequeueAfter(o) == ~o.del /\ ~OneShot /\ HasDuration /\ ~expired

diffConditions(o) ==
    LET some == Selected(o) # {}
        every(p) == some /\ \A t \in Selected(o) : o.recs[t] = p
    IN  {c \in ConditionTypes :
            \/ c = "Selected" /\ some
            \/ c = "AllInjected" /\ every(Injected)
            \/ c = "AllRecovered" /\ every(NotInjected)
            \/ c = "Paused" /\ o.paused}

\* Mutant: a record that waits for its injection is left alone when stopping.
OperationSkipsWaiting(wanted, phase) ==
    IF wanted = "Run"
    THEN IF phase \in NotInjectedPrefix THEN "apply"
         ELSE IF phase = WaitRecover THEN "recover" ELSE "nothing"
    ELSE IF phase \in {Injected, WaitRecover} THEN "recover" ELSE "nothing"

Operation(wanted, phase) ==
    IF \/ wanted = "Run" /\ phase # Injected
       \/ wanted = "Stop" /\ phase # NotInjected
    THEN IF phase \in NotInjectedPrefix THEN "apply" ELSE "recover"
    ELSE "nothing"

\* Mutant: a record that waits for its recovery counts as recovered.
ResumedEarly(o) == \A t \in Selected(o) : o.recs[t] # Injected

Resumed(o) == \A t \in Selected(o) : o.recs[t] = NotInjected

CleanAllowed(o) == o.del /\ (o.forced \/ (Resumed(o) /\ o.fin))

--------------------------------------------------------------------------------
(* The API server, the watch and the work queue.                           *)

\* A write by somebody else: the controller's view becomes stale.
WriteByOthers(o) ==
    /\ api' = o
    /\ stale' = TRUE
    /\ event' = TRUE
    /\ UNCHANGED <<view, known>>

\* Mutant: the watch predicate drops the controller's own updates.
CommitUnwatched(o) ==
    /\ exists /\ known /\ ~stale
    /\ api' = o
    /\ view' = o
    /\ UNCHANGED <<exists, known, stale, event, faults>>

\* An Update of the object as read succeeds only if it is the latest version;
\* otherwise RetryOnConflict reads again until the informer has caught up.
\* StatusRecordEventsChangePredicate drops the event of a write that changes
\* nothing but the events of the records.
Commit(o) ==
    /\ exists /\ known /\ ~stale
    /\ api' = o
    /\ view' = o
    /\ event' = (event \/ o # api)
    /\ UNCHANGED <<exists, known, stale, faults>>

\* The write of a step fails: the object is gone, or the retries are used up by
\* conflicts or errors.
WriteFails ==
    /\ \/ (~exists \/ ~known) /\ UNCHANGED faults
       \/ "write" \in Faults /\ faults < MaxFaults /\ faults' = faults + 1
    /\ UNCHANGED world

\* The watch catches up: all undelivered events are delivered.
Deliver ==
    /\ stale \/ event
    /\ view' = api
    /\ known' = exists
    /\ stale' = FALSE
    /\ event' = FALSE
    /\ queued' = (queued \/ event)
    /\ UNCHANGED <<api, exists, timer, pc, local, loop, ghost, env>>

TimerFires ==
    /\ timer /\ expired
    /\ timer' = FALSE
    /\ queued' = TRUE
    /\ UNCHANGED <<world, pc, local, loop, ghost, env>>

\* A status update of a child resource (PodNetworkChaos and the like) enqueues
\* the experiments that have a record for its target.
ChildEvent ==
    /\ known
    /\ \E t \in Targets : view.recs[t] \in {WaitApply, WaitRecover}
    /\ ~queued
    /\ queued' = TRUE
    /\ UNCHANGED <<world, timer, pc, local, loop, ghost, env>>

--------------------------------------------------------------------------------
(* The owner of the experiment, and time.                                  *)

TogglePause ==
    /\ exists /\ pauses < MaxPauses
    /\ pauses' = pauses + 1
    /\ WriteByOthers([api EXCEPT !.paused = ~api.paused])
    /\ UNCHANGED <<exists, queue, pc, local, loop, ghost, expired, faults>>

ForceClean ==
    /\ exists /\ ~api.forced
    /\ WriteByOthers([api EXCEPT !.forced = TRUE])
    /\ UNCHANGED <<exists, queue, pc, local, loop, ghost, env>>

\* With a finalizer the object stays, marked as deleted; without one it is gone.
Delete ==
    /\ exists /\ ~api.del
    /\ exists' = api.fin
    /\ WriteByOthers(IF api.fin THEN [api EXCEPT !.del = TRUE] ELSE api)
    /\ UNCHANGED <<queue, pc, local, loop, ghost, env>>

Expire ==
    /\ HasDuration /\ ~expired
    /\ expired' = TRUE
    /\ UNCHANGED <<world, queue, pc, local, loop, ghost, faults, pauses>>

--------------------------------------------------------------------------------
(* Pipeline.Reconcile                                                      *)

Begin ==
    /\ pc = "idle" /\ queued
    /\ pc' = "init"
    /\ queued' = FALSE
    /\ deadline' = FALSE
    /\ UNCHANGED <<world, timer, after, desired, newConds, loop, ghost, env>>

\* The steps up to desiredphase run while no deadline is set.
GoOn(next) == pc' = next /\ UNCHANGED queue

\* A later step returned neither an error nor Requeue.  The pipeline goes on
\* with the next step unless the deadline passed meanwhile.
Proceed(next) ==
    /\ \/ pc' = next /\ UNCHANGED queued
       \/ deadline /\ expired /\ pc' = "idle" /\ queued' = TRUE
    /\ UNCHANGED timer

\* The last step returned: RequeueAfter the deadline, or an immediate Requeue.
Finish ==
    /\ pc' = "idle"
    /\ \/ timer' = (timer \/ deadline) /\ UNCHANGED queued
       \/ deadline /\ expired /\ queued' = TRUE /\ UNCHANGED timer

\* A step returned Requeue: the remaining steps are skipped.
Requeue ==
    /\ pc' = "idle"
    /\ queued' = TRUE
    /\ UNCHANGED timer

--------------------------------------------------------------------------------
(* finalizers.InitReconciler                                               *)

\* Mutant: the pipeline without its first step.
InitFinalizerSkipped ==
    /\ pc = "init"
    /\ GoOn("phase")
    /\ UNCHANGED <<world, local, loop, ghost, env>>

InitFinalizer ==
    /\ pc = "init"
    /\ IF known /\ ~view.del /\ ~view.fin
       THEN pc' = "initWrite" /\ UNCHANGED queue
       ELSE GoOn("phase")
    /\ UNCHANGED <<world, local, loop, ghost, env>>

InitWrite ==
    /\ pc = "initWrite"
    /\ Commit([api EXCEPT !.fin = TRUE])
    /\ GoOn("phase")
    /\ UNCHANGED <<local, loop, ghost, expired, pauses>>

InitWriteFails ==
    /\ pc = "initWrite"
    /\ WriteFails
    /\ GoOn("phase")
    /\ UNCHANGED <<local, loop, ghost, expired, pauses>>

(* desiredphase.Reconciler                                                 *)

DesiredPhase ==
    /\ pc = "phase"
    /\ IF known /\ view.phase # CalcDesiredPhase(view)
       THEN /\ pc' = "phaseWrite"
            /\ desired' = CalcDesiredPhase(view)
            /\ after' = RequeueAfter(view)
            /\ UNCHANGED <<queue, deadline>>
       ELSE /\ GoOn("condition")
            /\ deadline' = (known /\ RequeueAfter(view))
            /\ UNCHANGED <<after, desired>>
    /\ UNCHANGED <<world, newConds, loop, ghost, env>>

PhaseWrite ==
    /\ pc = "phaseWrite"
    /\ Commit([api EXCEPT !.phase = desired])
    /\ GoOn("condition")
    /\ deadline' = after
    /\ desired' = ""
    /\ after' = FALSE
    /\ UNCHANGED <<newConds, loop, ghost, expired, pauses>>

\* The error is swallowed, and with it the RequeueAfter.
PhaseWriteFails ==
    /\ pc = "phaseWrite"
    /\ WriteFails
    /\ GoOn("condition")
    /\ desired' = ""
    /\ after' = FALSE
    /\ UNCHANGED <<deadline, newConds, loop, ghost, expired, pauses>>

(* condition.Reconciler                                                    *)

Condition ==
    /\ pc = "condition"
    /\ IF known /\ view.conds # diffConditions(view)
       THEN /\ pc' = "conditionWrite"
            /\ newConds' = diffConditions(view)
            /\ UNCHANGED queue
       ELSE Proceed("records") /\ UNCHANGED newConds
    /\ UNCHANGED <<world, deadline, after, desired, loop, ghost, env>>

ConditionWrite ==
    /\ pc = "conditionWrite"
    /\ Commit([api EXCEPT !.conds = newConds])
    /\ Proceed("records")
    /\ newConds' = {}
    /\ UNCHANGED <<deadline, after, desired, loop, ghost, expired, pauses>>

ConditionWriteFails ==
    /\ pc = "conditionWrite"
    /\ WriteFails
    /\ Proceed("records")
    /\ newConds' = {}
    /\ UNCHANGED <<deadline, after, desired, loop, ghost, expired, pauses>>

--------------------------------------------------------------------------------
(* records.Reconciler                                                      *)

ReadRecords ==
    /\ goal' = view.phase
    /\ needRetry' = FALSE
    /\ UNCHANGED <<world, local, ghost, env>>

\* Nothing to do for an object that is not found, and nothing is selected when
\* a selector fails or selects nothing: no requeue in either case.
RecordsSkipped ==
    /\ pc = "records"
    /\ ~known \/ Selected(view) = {}
    /\ Proceed("clean")
    /\ UNCHANGED <<world, local, loop, ghost, env>>

\* Mutant: the targets are selected again while nothing is injected.
RecordsSelectAgain ==
    /\ pc = "records"
    /\ known /\ Resumed(view)
    /\ \E S \in SUBSET Targets \ {{}} :
          /\ todo' = S
          /\ work' = [t \in Targets |-> IF t \in S THEN NotInjected ELSE Unselected]
    /\ shouldUpdate' = TRUE
    /\ pc' = "loop"
    /\ UNCHANGED queue
    /\ ReadRecords

RecordsSelect ==
    /\ pc = "records"
    /\ known /\ Selected(view) = {}
    /\ \E S \in SUBSET Targets \ {{}} :
          /\ todo' = S
          /\ work' = [t \in Targets |-> IF t \in S THEN NotInjected ELSE Unselected]
    /\ shouldUpdate' = TRUE
    /\ pc' = "loop"
    /\ UNCHANGED queue
    /\ ReadRecords

RecordsLoad ==
    /\ pc = "records"
    /\ known /\ Selected(view) # {}
    /\ todo' = Selected(view)
    /\ work' = view.recs
    /\ shouldUpdate' = FALSE
    /\ pc' = "loop"
    /\ UNCHANGED queue
    /\ ReadRecords

\* One iteration of the loop ends with phase p and error flag failed, the
\* target being in state a.  What was done is acknowledged when it is persisted.
Visited(t, p, failed, a) ==
    /\ work' = [work EXCEPT ![t] = p]
    /\ shouldUpdate' = (shouldUpdate \/ failed \/ p # work[t])
    /\ needRetry' = (needRetry \/ failed)
    /\ actual' = [actual EXCEPT ![t] = a]
    /\ unack' = IF a /\ ~actual[t] THEN unack \cup {t} ELSE unack
    /\ todo' = todo \ {t}
    /\ UNCHANGED <<world, queue, pc, local, goal, expired, pauses>>

RecordIdle(t) ==
    /\ pc = "loop" /\ t \in todo
    /\ Operation(goal, work[t]) = "nothing"
    /\ todo' = todo \ {t}
    /\ UNCHANGED <<world, queue, pc, local, work, goal, shouldUpdate, needRetry,
                   ghost, env>>

\* Impl.Apply succeeds: the fault is in place, or it is on its way and the
\* record waits for it.
ApplySucceeds(t) ==
    /\ pc = "loop" /\ t \in todo
    /\ Operation(goal, work[t]) = "apply"
    /\ Visited(t, Injected, FALSE, TRUE)
    /\ UNCHANGED faults

ApplyWaits(t) ==
    /\ pc = "loop" /\ t \in todo
    /\ Operation(goal, work[t]) = "apply"
    /\ \E a \in {actual[t], TRUE} : Visited(t, WaitApply, FALSE, a)
    /\ UNCHANGED faults

\* A waiting Apply finds that the target is gone.
ApplyTargetGone(t) ==
    /\ pc = "loop" /\ t \in todo
    /\ Operation(goal, work[t]) = "apply" /\ work[t] = WaitApply
    /\ Visited(t, NotInjected, FALSE, FALSE)
    /\ UNCHANGED faults

\* Impl.Apply returns an error and the old phase; the call may have had its
\* effect all the same (a timeout, a lost answer).
ApplyFails(t) ==
    /\ pc = "loop" /\ t \in todo
    /\ Operation(goal, work[t]) = "apply"
    /\ "call" \in Faults /\ faults < MaxFaults
    /\ faults' = faults + 1
    /\ \E a \in {actual[t], TRUE} : Visited(t, work[t], TRUE, a)

RecoverSucceeds(t) ==
    /\ pc = "loop" /\ t \in todo
    /\ Operation(goal, work[t]) = "recover"
    /\ Visited(t, NotInjected, FALSE, FALSE)
    /\ UNCHANGED faults

RecoverWaits(t) ==
    /\ pc = "loop" /\ t \in todo
    /\ Operation(goal, work[t]) = "recover"
    /\ \E a \in {actual[t], FALSE} : Visited(t, WaitRecover, FALSE, a)
    /\ UNCHANGED faults

RecoverFails(t) ==
    /\ pc = "loop" /\ t \in todo
    /\ Operation(goal, work[t]) = "recover"
    /\ "call" \in Faults /\ faults < MaxFaults
    /\ faults' = faults + 1
    /\ \E a \in {actual[t], FALSE} : Visited(t, work[t], TRUE, a)

ResetLoop ==
    /\ work' = NoRecords
    /\ goal' = ""
    /\ todo' = {}
    /\ shouldUpdate' = FALSE
    /\ needRetry' = FALSE

RecordsUnchanged ==
    /\ pc = "loop" /\ todo = {} /\ ~shouldUpdate
    /\ Proceed("clean")
    /\ ResetLoop
    /\ UNCHANGED <<world, local, ghost, env>>

RecordsChanged ==
    /\ pc = "loop" /\ todo = {} /\ shouldUpdate
    /\ pc' = "persist"
    /\ UNCHANGED <<world, queue, local, loop, ghost, env>>

RecordsPersist ==
    /\ pc = "persist"
    /\ Commit([api EXCEPT !.recs = work])
    /\ IF needRetry THEN Requeue ELSE Proceed("clean")
    /\ ResetLoop
    /\ unack' = {t \in unack : actual[t] /\ work[t] \in {NotInjected, Unselected}}
    /\ UNCHANGED <<local, actual, expired, pauses>>

RecordsPersistFails ==
    /\ pc = "persist"
    /\ WriteFails
    /\ Requeue
    /\ ResetLoop
    /\ UNCHANGED <<local, ghost, expired, pauses>>

--------------------------------------------------------------------------------
(* finalizers.CleanReconciler                                              *)

CleanFinalizer ==
    /\ pc = "clean"
    /\ IF known /\ CleanAllowed(view)
       THEN pc' = "cleanWrite" /\ UNCHANGED queue
       ELSE Finish
    /\ UNCHANGED <<world, local, loop, ghost, env>>

\* The last finalizer is removed, and the API server removes the object.
CleanWrite ==
    /\ pc = "cleanWrite"
    /\ exists /\ known /\ ~stale
    /\ api' = [api EXCEPT !.fin = FALSE]
    /\ view' = [api EXCEPT !.fin = FALSE]
    /\ exists' = FALSE
    /\ event' = TRUE
    /\ Finish
    /\ UNCHANGED <<known, stale, local, loop, ghost, env>>

CleanWriteFails ==
    /\ pc = "cleanWrite"
    /\ WriteFails
    /\ Finish
    /\ UNCHANGED <<local, loop, ghost, expired, pauses>>

--------------------------------------------------------------------------------
\* The controller manager is restarted: what was in memory is lost, and the new
\* process lists and enqueues every object.
Crash ==
    /\ "crash" \in Faults /\ faults < MaxFaults
    /\ faults' = faults + 1
    /\ view' = api
    /\ known' = exists
    /\ stale' = FALSE
    /\ event' = FALSE
    /\ queued' = exists
    /\ timer' = FALSE
    /\ pc' = "idle"
    /\ deadline' = FALSE /\ after' = FALSE /\ desired' = "" /\ newConds' = {}
    /\ ResetLoop
    /\ UNCHANGED <<api, exists, ghost, expired, pauses>>

InitObject == [del |-> FALSE, fin |-> FALSE, paused |-> FALSE, forced |-> FALSE,
               phase |-> "", recs |-> NoRecords, conds |-> {"unset"}]

\* The experiment has been created, and its creation has been delivered.
Init ==
    /\ api = InitObject /\ exists = TRUE
    /\ view = InitObject /\ known = TRUE /\ stale = FALSE /\ event = FALSE
    /\ queued = TRUE /\ timer = FALSE /\ expired = FALSE
    /\ pc = "idle" /\ deadline = FALSE /\ after = FALSE
    /\ desired = "" /\ newConds = {}
    /\ work = NoRecords /\ goal = "" /\ todo = {}
    /\ shouldUpdate = FALSE /\ needRetry = FALSE
    /\ actual = [t \in Targets |-> FALSE] /\ unack = {}
    /\ faults = 0 /\ pauses = 0

User == TogglePause \/ ForceClean \/ Delete

\* The steps that change the object's finalizer, phase and conditions.
MetaStep ==
    \/ InitFinalizer \/ InitWrite \/ InitWriteFails
    \/ DesiredPhase \/ PhaseWrite \/ PhaseWriteFails
    \/ Condition \/ ConditionWrite \/ ConditionWriteFails
    \/ CleanFinalizer \/ CleanWrite \/ CleanWriteFails

\* The records step outside its loop.
RecordsStep ==
    \/ RecordsSkipped \/ RecordsSelect \/ RecordsLoad
    \/ RecordsUnchanged \/ RecordsChanged
    \/ RecordsPersist \/ RecordsPersistFails

Visit(t) ==
    \/ RecordIdle(t)
    \/ ApplySucceeds(t) \/ ApplyWaits(t) \/ ApplyTargetGone(t) \/ ApplyFails(t)
    \/ RecoverSucceeds(t) \/ RecoverWaits(t) \/ RecoverFails(t)

Next ==
    \/ User \/ Expire \/ Crash
    \/ Deliver \/ TimerFires \/ ChildEvent
    \/ Begin \/ MetaStep \/ RecordsStep
    \/ \E t \in Targets : Visit(t)

Spec == Init /\ [][Next]_vars

\* Fairness: the work queue, the watch, timers and the pipeline never stop; time
\* passes; an implementation that is asked again and again succeeds in the end.
Fairness ==
    /\ WF_vars(Begin) /\ WF_vars(MetaStep) /\ WF_vars(RecordsStep)
    /\ WF_vars(\E t \in Targets : Visit(t))
    /\ WF_vars(Deliver) /\ WF_vars(TimerFires) /\ WF_vars(ChildEvent)
    /\ WF_vars(Expire)
    /\ \A t \in Targets : SF_vars(ApplySucceeds(t)) /\ SF_vars(RecoverSucceeds(t))

FairSpec == Spec /\ Fairness

--------------------------------------------------------------------------------
(* Properties.                                                             *)

Affected == {t \in Targets : actual[t]}

\* A persisted record tells that its target may be under the fault.
Tracked(o, t) == o.recs[t] \in {WaitApply, Injected, WaitRecover}

\* CleanReconciler: an object that it releases without the forced annotation
\* leaves no target under the fault, but those whose injection was never
\* acknowledged by a persisted record.
ReleasedOnlyRecovered ==
    ~exists /\ api.del /\ ~api.forced => Affected \subseteq unack

\* The finalizer keeps the object until the records step has had the opportunity
\* to recover its targets: no target is injected for an object that is gone.
InjectedOnlyWhileExists ==
    [][\A t \in Targets : ~actual[t] /\ actual'[t] => exists]_vars

\* InitReconciler runs before any injection: a target under the fault belongs to
\* an object that cannot be removed behind the controller's back.
FinalizerGuardsInjection ==
    exists /\ Affected # {} => api.fin

Quiet == pc = "idle" /\ ~queued /\ ~event /\ ~stale

\* Result propagation and the watch predicates lose no work: when nothing is
\* queued and nothing is undelivered, the desired phase is the one the object
\* asks for (or a timer is pending), every record has reached it or waits for a
\* child resource, the conditions describe the records, and a deleted object
\* that may be released has been released.
QuietMeansConverged ==
    Quiet /\ exists =>
        /\ api.phase = CalcDesiredPhase(api) \/ timer
        /\ api.conds = diffConditions(api)
        /\ \A t \in Selected(api) :
              \/ Operation(api.phase, api.recs[t]) = "nothing"
              \/ api.recs[t] \in {WaitApply, WaitRecover}
        /\ ~CleanAllowed(api)

\* The records step selects once: as long as the object lives, the set of
\* targets with a record never changes after it was first persisted.
TargetsFixed ==
    [][exists /\ Selected(api) # {} => Selected(api') = Selected(api)]_vars

\* A one-shot experiment stays in the running phase until it is deleted, however
\* it is paused: a record that was persisted as injected stays injected, and its
\* target is not hit again.  A call whose record was not persisted is repeated.
OneShotStaysInjected ==
    [][OneShot /\ ~api.del => \A t \in Targets :
          api.recs[t] = Injected => api.recs'[t] = Injected]_vars

\* CleanReconciler: a deleted experiment is eventually released, whatever its
\* records were at the time of the deletion.
DeletedEventuallyReleased == api.del ~> ~exists

\* desiredphase: an experiment whose duration has expired is stopped.  As long
\* as the object lives and nobody forces its clean-up, the fault is eventually
\* removed from all targets whose injection was acknowledged.
StopsAtDeadline == expired ~> Affected \subseteq unack \/ ~exists \/ api.forced

================================================================================
