-------------------------- MODULE ChaosPipelineProofs --------------------------
(***************************************************************************)
(* Proofs about ChaosPipeline for every set of targets, every kind of      *)
(* experiment, every environment and every bound: the type invariant, and  *)
(* ReleasedOnlyRecovered by way of the inductive invariant IInv.           *)
(***************************************************************************)
EXTENDS ChaosPipeline, TLAPS

Tracking == {WaitApply, Injected, WaitRecover}

\* Every target under an acknowledged fault is tracked by the given records.
Acknowledged(recs) ==
    \A t \in Targets : actual[t] /\ t \notin unack => recs[t] \in Tracking

\* The client's copy may be old, but not in what only the controller writes, and
\* it never shows an annotation that the object does not have.
ViewAgrees == view.recs = api.recs /\ (view.forced => api.forced)

\* The decision to release the object stays justified until it is carried out.
CleanJustified == pc = "cleanWrite" => api.forced \/ Resumed(api)

\* An object that was released without being forced had only resumed records.
ReleasedResumed == ~exists /\ api.del /\ ~api.forced => Resumed(api)

IInv ==
    /\ TypeOK
    /\ Acknowledged(api.recs)
    /\ pc \in {"loop", "persist"} => Acknowledged(work)
    /\ ViewAgrees
    /\ CleanJustified
    /\ ReleasedResumed

USE DEF NotInjected, Injected, WaitApply, WaitRecover, Unselected

--------------------------------------------------------------------------------
(* Type correctness.                                                       *)

LEMMA InitType == Init => TypeOK
<1> SUFFICES ASSUME Init PROVE TypeOK
  OBVIOUS
<1>1. WorldType
  <2>1. NoRecords \in [Targets -> Phases \cup {Unselected}]
    BY DEF NoRecords
  <2>2. InitObject \in Object
    BY <2>1 DEF InitObject, Object
  <2> QED
    BY <2>2 DEF Init, WorldType
<1>2. LocalType
  BY DEF Init, LocalType, Steps
<1>3. LoopType /\ GhostType
  BY DEF Init, LoopType, GhostType, NoRecords
<1>4. faults \in 0..MaxFaults /\ pauses \in 0..MaxPauses
  <2>1. faults = 0 /\ pauses = 0
    BY DEF Init
  <2> QED
    BY <2>1, BoundsAssumption
<1> QED
  BY <1>1, <1>2, <1>3, <1>4 DEF Init, TypeOK

\* A counter that is below its bound may be incremented.
LEMMA Counted ==
    ASSUME NEW M \in Nat, NEW n \in 0..M, n < M
    PROVE  n + 1 \in 0..M
OBVIOUS

\* What the pure parts of the steps return.
LEMMA PureTypes ==
    ASSUME NEW o \in Object
    PROVE  /\ CalcDesiredPhase(o) \in {"", "Run", "Stop"}
           /\ diffConditions(o) \in SUBSET (ConditionTypes \cup {"unset"})
           /\ Selected(o) \in SUBSET Targets
           /\ o.recs \in [Targets -> Phases \cup {Unselected}]
           /\ o.phase \in {"", "Run", "Stop"}
           /\ RequeueAfter(o) \in BOOLEAN
<1>1. CalcDesiredPhase(o) \in {"", "Run", "Stop"}
  BY DEF CalcDesiredPhase
<1>2. diffConditions(o) \in SUBSET (ConditionTypes \cup {"unset"})
  BY DEF diffConditions
<1>3. Selected(o) \in SUBSET Targets
  BY DEF Selected
<1>4. o.recs \in [Targets -> Phases \cup {Unselected}] /\ o.phase \in {"", "Run", "Stop"}
  BY DEF Object
<1>5. RequeueAfter(o) \in BOOLEAN
  BY DEF RequeueAfter
<1> QED
  BY <1>1, <1>2, <1>3, <1>4, <1>5

\* Writes of well-formed objects, and failing writes, keep the world well-formed.
LEMMA WriteTypes ==
    ASSUME WorldType, NEW o \in Object
    PROVE  /\ WriteByOthers(o) /\ exists' \in BOOLEAN => WorldType'
           /\ Commit(o) => WorldType' /\ UNCHANGED faults
BY DEF WorldType, WriteByOthers, Commit

LEMMA WriteFailsTypes ==
    ASSUME TypeOK, WriteFails
    PROVE  WorldType' /\ faults' \in 0..MaxFaults
<1>1. WorldType'
  BY DEF TypeOK, WriteFails, WorldType, world
<1>2. faults' \in 0..MaxFaults
  BY Counted, BoundsAssumption DEF TypeOK, WriteFails
<1> QED
  BY <1>1, <1>2

\* How the pipeline goes on after a step.
LEMMA FlowTypes ==
    ASSUME TypeOK, NEW next \in Steps, GoOn(next) \/ Proceed(next) \/ Finish \/ Requeue
    PROVE  queued' \in BOOLEAN /\ timer' \in BOOLEAN /\ pc' \in Steps
BY DEF TypeOK, LocalType, GoOn, Proceed, Finish, Requeue, queue, Steps

\* The environment of the pipeline keeps the types.
LEMMA EnvironmentType ==
    ASSUME TypeOK,
           \/ User \/ Expire \/ Crash \/ Deliver \/ TimerFires \/ ChildEvent
    PROVE  TypeOK'
<1>1. CASE TogglePause
  <2>1. [api EXCEPT !.paused = ~api.paused] \in Object
    BY DEF TypeOK, WorldType, Object
  <2>2. WorldType'
    BY <1>1, <2>1, WriteTypes DEF TypeOK, TogglePause, WorldType
  <2>3. pauses' \in 0..MaxPauses
    BY <1>1, Counted, BoundsAssumption DEF TypeOK, TogglePause
  <2> QED
    BY <1>1, <2>2, <2>3
       DEF TypeOK, TogglePause, LocalType, LoopType, GhostType, queue, local, loop, ghost
<1>2. CASE ForceClean
  <2>1. [api EXCEPT !.forced = TRUE] \in Object
    BY DEF TypeOK, WorldType, Object
  <2>2. WorldType'
    BY <1>2, <2>1, WriteTypes DEF TypeOK, ForceClean, WorldType
  <2> QED
    BY <1>2, <2>2
       DEF TypeOK, ForceClean, LocalType, LoopType, GhostType, queue, local, loop, ghost, env
<1>3. CASE Delete
  <2>1. (IF api.fin THEN [api EXCEPT !.del = TRUE] ELSE api) \in Object /\ api.fin \in BOOLEAN
    BY DEF TypeOK, WorldType, Object
  <2>2. WorldType'
    BY <1>3, <2>1, WriteTypes DEF TypeOK, Delete
  <2> QED
    BY <1>3, <2>2
       DEF TypeOK, Delete, LocalType, LoopType, GhostType, queue, local, loop, ghost, env
<1>4. CASE Expire
  <2>1. WorldType' /\ LocalType'
    BY <1>4 DEF TypeOK, Expire, WorldType, LocalType, world, local
  <2>2. LoopType' /\ GhostType'
    BY <1>4 DEF TypeOK, Expire, LoopType, GhostType, loop, ghost
  <2> QED
    BY <1>4, <2>1, <2>2 DEF TypeOK, Expire, queue
<1>5. CASE Crash
  <2>1. faults' \in 0..MaxFaults
    BY <1>5, Counted, BoundsAssumption DEF TypeOK, Crash
  <2>2. WorldType' /\ LocalType' /\ queued' \in BOOLEAN
    BY <1>5 DEF TypeOK, Crash, WorldType, LocalType, Steps
  <2>3. LoopType' /\ GhostType'
    BY <1>5 DEF TypeOK, Crash, LoopType, GhostType, ResetLoop, NoRecords, ghost
  <2> QED
    BY <1>5, <2>1, <2>2, <2>3 DEF TypeOK, Crash
<1>6. CASE Deliver \/ TimerFires \/ ChildEvent
  <2>1. WorldType' /\ LocalType'
    BY <1>6 DEF TypeOK, Deliver, TimerFires, ChildEvent, WorldType, LocalType, world, local
  <2>2. LoopType' /\ GhostType'
    BY <1>6 DEF TypeOK, Deliver, TimerFires, ChildEvent, LoopType, GhostType, loop, ghost
  <2> QED
    BY <1>6, <2>1, <2>2 DEF TypeOK, WorldType, Deliver, TimerFires, ChildEvent, env
<1> QED
  BY <1>1, <1>2, <1>3, <1>4, <1>5, <1>6 DEF User

\* The steps that change the finalizer, the phase and the conditions.
LEMMA MetaStepType ==
    ASSUME TypeOK, Begin \/ MetaStep
    PROVE  TypeOK'
<1> USE DEF TypeOK
<1>1. CASE Begin \/ InitFinalizer \/ DesiredPhase \/ Condition \/ CleanFinalizer
  <2>1. WorldType' /\ LoopType' /\ GhostType'
    BY <1>1 DEF Begin, InitFinalizer, DesiredPhase, Condition, CleanFinalizer,
                WorldType, LoopType, GhostType, world, loop, ghost
  <2>2. known \in BOOLEAN /\ view \in Object
    BY DEF WorldType
  <2>3. pc' \in Steps /\ queued' \in BOOLEAN /\ timer' \in BOOLEAN
    BY <1>1, FlowTypes DEF Begin, InitFinalizer, DesiredPhase, Condition, CleanFinalizer,
                           Steps, queue
  <2>4. /\ deadline' \in BOOLEAN /\ after' \in BOOLEAN
        /\ desired' \in {"", "Run", "Stop"}
        /\ newConds' \in SUBSET (ConditionTypes \cup {"unset"})
    BY <1>1, <2>2, PureTypes DEF Begin, InitFinalizer, DesiredPhase, Condition,
                                 CleanFinalizer, LocalType, local
  <2> QED
    BY <1>1, <2>1, <2>3, <2>4 DEF Begin, InitFinalizer, DesiredPhase, Condition,
                                  CleanFinalizer, LocalType, env
<1>2. CASE InitWrite \/ PhaseWrite \/ ConditionWrite
  <2>1. /\ [api EXCEPT !.fin = TRUE] \in Object
        /\ [api EXCEPT !.phase = desired] \in Object
        /\ [api EXCEPT !.conds = newConds] \in Object
    BY DEF WorldType, LocalType, Object
  <2>2. WorldType' /\ UNCHANGED faults
    BY <1>2, <2>1, WriteTypes DEF InitWrite, PhaseWrite, ConditionWrite
  <2>3. pc' \in Steps /\ queued' \in BOOLEAN /\ timer' \in BOOLEAN
    BY <1>2, FlowTypes DEF InitWrite, PhaseWrite, ConditionWrite, Steps
  <2>4. LocalType' /\ LoopType' /\ GhostType'
    BY <1>2, <2>3 DEF InitWrite, PhaseWrite, ConditionWrite, LocalType, LoopType, GhostType,
                      local, loop, ghost
  <2> QED
    BY <1>2, <2>2, <2>3, <2>4 DEF InitWrite, PhaseWrite, ConditionWrite
<1>3. CASE CleanWrite
  <2>1. [api EXCEPT !.fin = FALSE] \in Object
    BY DEF WorldType, Object
  <2>2. WorldType'
    BY <1>3, <2>1 DEF CleanWrite, WorldType
  <2>3. pc' \in Steps /\ queued' \in BOOLEAN /\ timer' \in BOOLEAN
    BY <1>3, FlowTypes DEF CleanWrite, Steps
  <2>4. LocalType' /\ LoopType' /\ GhostType'
    BY <1>3, <2>3 DEF CleanWrite, LocalType, LoopType, GhostType, local, loop, ghost
  <2> QED
    BY <1>3, <2>2, <2>3, <2>4 DEF CleanWrite, env
<1>4. CASE InitWriteFails \/ PhaseWriteFails \/ ConditionWriteFails \/ CleanWriteFails
  <2> USE DEF InitWriteFails, PhaseWriteFails, ConditionWriteFails, CleanWriteFails
  <2>1. WorldType' /\ faults' \in 0..MaxFaults
    BY <1>4, WriteFailsTypes
  <2>2. pc' \in Steps /\ queued' \in BOOLEAN /\ timer' \in BOOLEAN
    BY <1>4, FlowTypes DEF Steps
  <2>3. LocalType' /\ LoopType' /\ GhostType'
    BY <1>4, <2>2 DEF LocalType, LoopType, GhostType, local, loop, ghost
  <2> QED
    BY <1>4, <2>1, <2>2, <2>3
<1> QED
  BY <1>1, <1>2, <1>3, <1>4 DEF MetaStep

\* The records step outside its loop.
LEMMA RecordsStepType ==
    ASSUME TypeOK, RecordsStep
    PROVE  TypeOK'
<1> USE DEF TypeOK
<1>0. known \in BOOLEAN /\ view \in Object
  BY DEF WorldType
<1>1. CASE RecordsSkipped \/ RecordsUnchanged \/ RecordsChanged
  <2> USE DEF RecordsSkipped, RecordsUnchanged, RecordsChanged
  <2>1. pc' \in Steps /\ queued' \in BOOLEAN /\ timer' \in BOOLEAN
    BY <1>1, FlowTypes DEF Steps, queue
  <2>2. WorldType' /\ LocalType' /\ GhostType'
    BY <1>1, <2>1 DEF WorldType, LocalType, GhostType, world, local, ghost
  <2>3. LoopType'
    BY <1>1 DEF LoopType, loop, ResetLoop, NoRecords
  <2> QED
    BY <1>1, <2>1, <2>2, <2>3 DEF env
<1>2. CASE RecordsSelect \/ RecordsLoad
  <2> USE DEF RecordsSelect, RecordsLoad, ReadRecords
  <2>1. work' \in [Targets -> Phases \cup {Unselected}] /\ todo' \in SUBSET Targets
    BY <1>0, <1>2, PureTypes DEF Phases
  <2>2. LoopType'
    BY <1>0, <1>2, <2>1, PureTypes DEF LoopType
  <2>3. WorldType' /\ LocalType' /\ GhostType'
    BY <1>2 DEF WorldType, LocalType, GhostType, world, local, ghost, Steps
  <2> QED
    BY <1>2, <2>2, <2>3 DEF queue, env
<1>3. CASE RecordsPersist \/ RecordsPersistFails
  <2> USE DEF RecordsPersist, RecordsPersistFails
  <2>1. [api EXCEPT !.recs = work] \in Object
    BY DEF WorldType, LoopType, Object
  <2>2. WorldType' /\ faults' \in 0..MaxFaults
    BY <1>3, <2>1, WriteTypes, WriteFailsTypes
  <2>3. pc' \in Steps /\ queued' \in BOOLEAN /\ timer' \in BOOLEAN
    BY <1>3, FlowTypes DEF Steps
  <2>4. LocalType' /\ LoopType' /\ GhostType'
    BY <1>3, <2>3 DEF LocalType, LoopType, GhostType, local, ghost, ResetLoop, NoRecords
  <2> QED
    BY <1>3, <2>2, <2>3, <2>4
<1> QED
  BY <1>1, <1>2, <1>3 DEF RecordsStep

\* Every visit of a record that does something is an instance of Visited in
\* which a target under the fault is tracked, or its record is as it was.
LEMMA VisitForm ==
    ASSUME TypeOK, NEW t \in Targets, Visit(t), ~RecordIdle(t)
    PROVE  /\ pc = "loop"
           /\ faults' \in 0..MaxFaults
           /\ \E p \in Phases \cup {Unselected}, failed \in BOOLEAN, a \in BOOLEAN :
                 Visited(t, p, failed, a) /\ (a => p \in Tracking \cup {work[t]})
<1>1. work[t] \in Phases \cup {Unselected} /\ actual[t] \in BOOLEAN
  BY DEF TypeOK, LoopType, GhostType
<1>2. pc = "loop"
  BY DEF Visit, RecordIdle, ApplySucceeds, ApplyWaits, ApplyTargetGone, ApplyFails,
         RecoverSucceeds, RecoverWaits, RecoverFails
<1>3. faults' \in 0..MaxFaults
  BY Counted, BoundsAssumption
     DEF TypeOK, Visit, ApplySucceeds, ApplyWaits, ApplyTargetGone, ApplyFails,
         RecoverSucceeds, RecoverWaits, RecoverFails
<1>4. CASE ApplySucceeds(t) \/ ApplyTargetGone(t) \/ RecoverSucceeds(t)
  <2>1. Visited(t, Injected, FALSE, TRUE) \/ Visited(t, NotInjected, FALSE, FALSE)
    BY <1>4 DEF ApplySucceeds, ApplyTargetGone, RecoverSucceeds
  <2> QED
    BY <1>2, <1>3, <2>1 DEF Phases, Tracking
<1>5. CASE ApplyWaits(t) \/ RecoverWaits(t)
  <2>1. \E a \in BOOLEAN : Visited(t, WaitApply, FALSE, a) \/ Visited(t, WaitRecover, FALSE, a)
    BY <1>1, <1>5 DEF ApplyWaits, RecoverWaits
  <2> QED
    BY <1>2, <1>3, <2>1 DEF Phases, Tracking
<1>6. CASE ApplyFails(t) \/ RecoverFails(t)
  <2>1. \E a \in BOOLEAN : Visited(t, work[t], TRUE, a)
    BY <1>1, <1>6 DEF ApplyFails, RecoverFails
  <2> QED
    BY <1>1, <1>2, <1>3, <2>1
<1> QED
  BY <1>4, <1>5, <1>6 DEF Visit

LEMMA VisitType ==
    ASSUME TypeOK, NEW t \in Targets, Visit(t)
    PROVE  TypeOK'
<1>1. CASE RecordIdle(t)
  <2>1. WorldType' /\ LocalType'
    BY <1>1 DEF TypeOK, RecordIdle, WorldType, LocalType, world, local
  <2>2. LoopType' /\ GhostType'
    BY <1>1 DEF TypeOK, RecordIdle, LoopType, GhostType, ghost
  <2> QED
    BY <1>1, <2>1, <2>2 DEF TypeOK, RecordIdle, queue, env
<1>2. CASE ~RecordIdle(t)
  <2>1. faults' \in 0..MaxFaults
    BY <1>2, VisitForm
  <2>2. PICK p \in Phases \cup {Unselected}, failed \in BOOLEAN, a \in BOOLEAN :
           Visited(t, p, failed, a)
    BY <1>2, VisitForm
  <2>3. WorldType' /\ LocalType'
    BY <2>2 DEF TypeOK, Visited, WorldType, LocalType, world, local
  <2>4. LoopType'
    BY <2>2 DEF TypeOK, Visited, LoopType
  <2>5. GhostType'
    BY <2>2 DEF TypeOK, Visited, GhostType
  <2> QED
    BY <2>1, <2>2, <2>3, <2>4, <2>5 DEF TypeOK, Visited, queue
<1> QED
  BY <1>1, <1>2

LEMMA StutterType ==
    ASSUME TypeOK, UNCHANGED vars
    PROVE  TypeOK'
<1>1. WorldType' /\ LocalType'
  BY DEF TypeOK, WorldType, LocalType, vars, world, local
<1>2. LoopType' /\ GhostType'
  BY DEF TypeOK, LoopType, GhostType, vars, loop, ghost
<1> QED
  BY <1>1, <1>2 DEF TypeOK, vars, queue, env

LEMMA NextType == TypeOK /\ [Next]_vars => TypeOK'
BY EnvironmentType, MetaStepType, RecordsStepType, VisitType, StutterType DEF Next

\* Every variable keeps its type in every behaviour of the pipeline.
THEOREM TypeCorrect == Spec => []TypeOK
<1>1. Init => TypeOK
  BY InitType
<1>2. TypeOK /\ [Next]_vars => TypeOK'
  BY NextType
<1> QED
  BY <1>1, <1>2, PTL DEF Spec

--------------------------------------------------------------------------------
(* The inductive invariant.                                                *)

LEMMA InitIInv == Init => IInv
<1> SUFFICES ASSUME Init PROVE IInv
  OBVIOUS
<1>1. TypeOK
  BY InitType
<1>2. \A t \in Targets : ~actual[t]
  BY DEF Init
<1> QED
  BY <1>1, <1>2 DEF Init, IInv, Acknowledged, ViewAgrees, CleanJustified, ReleasedResumed

\* A record that has been resumed depends on the records alone.
LEMMA ResumedByRecords ==
    ASSUME NEW o, NEW q, o.recs = q.recs, Resumed(o)
    PROVE  Resumed(q)
BY DEF Resumed, Selected

\* A step that touches neither the persisted records nor the targets keeps the
\* invariant if it enters the loop or the release only for a good reason.
LEMMA QuietStep ==
    ASSUME IInv, TypeOK', UNCHANGED ghost,
           api'.recs = api.recs, api.forced => api'.forced, ViewAgrees',
           pc' \in {"loop", "persist"} => pc \in {"loop", "persist"} /\ UNCHANGED work,
           pc' = "cleanWrite" => pc = "cleanWrite" \/ CleanAllowed(view),
           ~exists' /\ api'.del => (~exists /\ api.del) \/ pc = "cleanWrite"
    PROVE  IInv'
<1>1. actual' = actual /\ unack' = unack
  BY DEF ghost
<1>2. Acknowledged(api.recs)'
  BY <1>1 DEF IInv, Acknowledged
<1>3. pc' \in {"loop", "persist"} => Acknowledged(work)'
  BY <1>1 DEF IInv, Acknowledged
<1>4. CleanJustified'
  <2> SUFFICES ASSUME pc' = "cleanWrite" PROVE (api.forced \/ Resumed(api))'
    BY DEF CleanJustified
  <2>1. api.forced \/ Resumed(api)
    <3>1. CASE pc = "cleanWrite"
      BY <3>1 DEF IInv, CleanJustified
    <3>2. CASE CleanAllowed(view)
      BY <3>2, ResumedByRecords DEF CleanAllowed, IInv, ViewAgrees
    <3> QED
      BY <3>1, <3>2
  <2>2. Resumed(api) => Resumed(api')
    BY ResumedByRecords
  <2> QED
    BY <2>1, <2>2 DEF Resumed, Selected
<1>5. ReleasedResumed'
  <2> SUFFICES ASSUME ~exists', api'.del, ~api'.forced PROVE Resumed(api')
    BY DEF ReleasedResumed, Resumed, Selected
  <2>1. Resumed(api)
    BY DEF IInv, CleanJustified, ReleasedResumed
  <2> QED
    BY <2>1, ResumedByRecords
<1> QED
  BY <1>2, <1>3, <1>4, <1>5 DEF IInv

LEMMA EnvironmentIInv ==
    ASSUME IInv, TypeOK',
           \/ User \/ Expire \/ Crash \/ Deliver \/ TimerFires \/ ChildEvent
    PROVE  IInv'
<1> USE DEF IInv
<1>0. api \in Object
  BY DEF TypeOK, WorldType
<1>1. CASE TogglePause
  <2>1. api'.recs = api.recs /\ api'.forced = api.forced
    BY <1>0, <1>1 DEF TogglePause, WriteByOthers, Object
  <2> QED
    BY <1>1, <2>1, QuietStep DEF TogglePause, WriteByOthers, ViewAgrees, loop
<1>2. CASE ForceClean
  <2>1. api'.recs = api.recs /\ api'.forced
    BY <1>0, <1>2 DEF ForceClean, WriteByOthers, Object
  <2> QED
    BY <1>2, <2>1, QuietStep DEF ForceClean, WriteByOthers, ViewAgrees, loop
<1>3. CASE Delete
  <2>1. api'.recs = api.recs /\ api'.forced = api.forced /\ (~exists' => ~api'.del)
    BY <1>0, <1>3 DEF Delete, WriteByOthers, Object
  <2> QED
    BY <1>3, <2>1, QuietStep DEF Delete, WriteByOthers, ViewAgrees, loop
<1>4. CASE Expire \/ TimerFires \/ ChildEvent
  <2>1. UNCHANGED <<world, pc, work, ghost>>
    BY <1>4 DEF Expire, TimerFires, ChildEvent, loop
  <2> QED
    BY <2>1, QuietStep DEF ViewAgrees, world
<1>5. CASE Deliver \/ Crash
  <2>1. UNCHANGED <<api, exists, ghost>> /\ view' = api
    BY <1>5 DEF Deliver, Crash
  <2>2. UNCHANGED <<pc, work>> \/ pc' = "idle"
    BY <1>5 DEF Deliver, Crash, loop
  <2>3. ViewAgrees'
    BY <2>1 DEF ViewAgrees
  <2> QED
    BY <2>1, <2>2, <2>3, QuietStep
<1> QED
  BY <1>1, <1>2, <1>3, <1>4, <1>5 DEF User

LEMMA MetaStepIInv ==
    ASSUME IInv, TypeOK', Begin \/ MetaStep
    PROVE  IInv'
<1> USE DEF IInv
<1>0. api \in Object
  BY DEF TypeOK, WorldType
<1>1. CASE Begin \/ InitFinalizer \/ DesiredPhase \/ Condition \/ CleanFinalizer
  <2>1. pc' \notin {"loop", "persist"} /\ (pc' = "cleanWrite" => CleanAllowed(view))
    BY <1>1 DEF Begin, InitFinalizer, DesiredPhase, Condition, CleanFinalizer,
                GoOn, Proceed, Finish
  <2>2. UNCHANGED <<world, ghost>>
    BY <1>1 DEF Begin, InitFinalizer, DesiredPhase, Condition, CleanFinalizer
  <2> QED
    BY <2>1, <2>2, QuietStep DEF ViewAgrees, world
<1>2. CASE InitWrite \/ PhaseWrite \/ ConditionWrite
  <2>1. /\ api'.recs = api.recs /\ api'.forced = api.forced
        /\ view' = api' /\ exists' = exists /\ exists
    BY <1>0, <1>2 DEF InitWrite, PhaseWrite, ConditionWrite, Commit, Object
  <2>2. pc' \notin {"loop", "persist", "cleanWrite"} /\ UNCHANGED ghost
    BY <1>2 DEF InitWrite, PhaseWrite, ConditionWrite, GoOn, Proceed
  <2>3. ViewAgrees'
    BY <2>1 DEF ViewAgrees
  <2> QED
    BY <2>1, <2>2, <2>3, QuietStep
<1>3. CASE CleanWrite
  <2>1. /\ api'.recs = api.recs /\ api'.forced = api.forced
        /\ view' = api' /\ UNCHANGED ghost /\ pc = "cleanWrite" /\ pc' = "idle"
    BY <1>0, <1>3 DEF CleanWrite, Object, Finish
  <2> QED
    BY <2>1, QuietStep DEF ViewAgrees
<1>4. CASE InitWriteFails \/ PhaseWriteFails \/ ConditionWriteFails \/ CleanWriteFails
  <2>1. UNCHANGED <<world, ghost>> /\ pc' \notin {"loop", "persist", "cleanWrite"}
    BY <1>4 DEF InitWriteFails, PhaseWriteFails, ConditionWriteFails, CleanWriteFails,
                WriteFails, GoOn, Proceed, Finish
  <2> QED
    BY <2>1, QuietStep DEF ViewAgrees, world
<1> QED
  BY <1>1, <1>2, <1>3, <1>4 DEF MetaStep

\* The records step enters its loop with records that track every acknowledged
\* injection, and what it persists tracks the injections it acknowledges.
LEMMA RecordsStepIInv ==
    ASSUME IInv, TypeOK', RecordsStep
    PROVE  IInv'
<1> USE DEF IInv
<1>0. api \in Object /\ view \in Object
  BY DEF TypeOK, WorldType
<1>1. CASE RecordsSkipped \/ RecordsUnchanged \/ RecordsPersistFails
  <2>1. UNCHANGED <<world, ghost>> /\ pc' \notin {"loop", "persist", "cleanWrite"}
    BY <1>1 DEF RecordsSkipped, RecordsUnchanged, RecordsPersistFails, WriteFails,
                Proceed, Requeue
  <2> QED
    BY <2>1, QuietStep DEF ViewAgrees, world
<1>2. CASE RecordsChanged
  <2>1. UNCHANGED <<world, ghost, work>> /\ pc \in {"loop", "persist"} /\ pc' = "persist"
    BY <1>2 DEF RecordsChanged, loop
  <2> QED
    BY <2>1, QuietStep DEF ViewAgrees, world
<1>3. CASE RecordsSelect \/ RecordsLoad
  <2>1. UNCHANGED <<world, ghost>> /\ pc' = "loop"
    BY <1>3 DEF RecordsSelect, RecordsLoad, ReadRecords
  <2>2. Acknowledged(api.recs)' /\ ViewAgrees' /\ CleanJustified' /\ ReleasedResumed'
    BY <2>1 DEF Acknowledged, ViewAgrees, CleanJustified, ReleasedResumed, Resumed, Selected,
                world, ghost
  <2>3. Acknowledged(work)'
    <3>1. CASE RecordsSelect
      <4>1. \A t \in Targets : api.recs[t] \notin Tracking
        BY <3>1 DEF RecordsSelect, ViewAgrees, Selected, Tracking
      <4> QED
        BY <2>1, <4>1 DEF Acknowledged, ghost
    <3>2. CASE RecordsLoad
      BY <2>1, <3>2 DEF RecordsLoad, ViewAgrees, Acknowledged, ghost
    <3> QED
      BY <1>3, <3>1, <3>2
  <2> QED
    BY <2>2, <2>3
<1>4. CASE RecordsPersist
  <2>1. /\ exists /\ exists' = exists
        /\ view' = api' /\ api' = [api EXCEPT !.recs = work]
    BY <1>4 DEF RecordsPersist, Commit
  <2>2. pc' \notin {"loop", "persist", "cleanWrite"} /\ Acknowledged(work)
    BY <1>4 DEF RecordsPersist, Requeue, Proceed
  <2>3. api'.recs = work
    BY <1>0, <2>1 DEF Object
  <2>4. work \in [Targets -> Phases \cup {Unselected}]
    BY DEF TypeOK, LoopType
  <2>5. Acknowledged(api.recs)'
    BY <1>4, <2>2, <2>3, <2>4 DEF RecordsPersist, Acknowledged, Tracking, Phases
  <2>6. ViewAgrees'
    BY <2>1 DEF ViewAgrees
  <2> QED
    BY <2>1, <2>2, <2>5, <2>6 DEF CleanJustified, ReleasedResumed
<1> QED
  BY <1>1, <1>2, <1>3, <1>4 DEF RecordsStep

\* A visit changes one target and one local record.
LEMMA VisitIInv ==
    ASSUME IInv, TypeOK', NEW t \in Targets, Visit(t)
    PROVE  IInv'
<1> USE DEF IInv
<1>1. CASE RecordIdle(t)
  <2>1. UNCHANGED <<world, ghost, work, pc>>
    BY <1>1 DEF RecordIdle
  <2> QED
    BY <2>1, QuietStep DEF ViewAgrees, world
<1>2. CASE ~RecordIdle(t)
  <2>1. pc = "loop"
    BY <1>2, VisitForm
  <2>2. PICK p \in Phases \cup {Unselected}, failed \in BOOLEAN, a \in BOOLEAN :
           Visited(t, p, failed, a) /\ (a => p \in Tracking \cup {work[t]})
    BY <1>2, VisitForm
  <2>3. UNCHANGED <<world, pc>>
    BY <2>2 DEF Visited
  <2>4. /\ actual' = [actual EXCEPT ![t] = a]
        /\ unack' = IF a /\ ~actual[t] THEN unack \cup {t} ELSE unack
        /\ work' = [work EXCEPT ![t] = p]
    BY <2>2 DEF Visited
  <2>5. actual \in [Targets -> BOOLEAN] /\ work \in [Targets -> Phases \cup {Unselected}]
    BY DEF TypeOK, GhostType, LoopType
  <2>6. ASSUME NEW u \in Targets, actual'[u], u \notin unack'
        PROVE  actual[u] /\ u \notin unack
    BY <2>4, <2>5, <2>6
  <2>7. Acknowledged(api.recs)'
    BY <2>3, <2>6 DEF Acknowledged, world
  <2>8. Acknowledged(work)'
    <3> SUFFICES ASSUME NEW u \in Targets, actual'[u], u \notin unack'
                 PROVE  work'[u] \in Tracking
      BY DEF Acknowledged
    <3>1. work[u] \in Tracking
      BY <2>1, <2>6 DEF Acknowledged
    <3>2. u = t => a
      BY <2>4, <2>5
    <3> QED
      BY <2>2, <2>4, <2>5, <3>1, <3>2
  <2>9. ViewAgrees' /\ CleanJustified' /\ ReleasedResumed'
    BY <2>3 DEF ViewAgrees, CleanJustified, ReleasedResumed, Resumed, Selected, world
  <2> QED
    BY <2>7, <2>8, <2>9
<1> QED
  BY <1>1, <1>2

LEMMA NextIInv == IInv /\ [Next]_vars => IInv'
<1> SUFFICES ASSUME IInv, [Next]_vars PROVE IInv'
  OBVIOUS
<1>1. TypeOK'
  BY NextType DEF IInv
<1>2. CASE UNCHANGED vars
  <2>1. UNCHANGED <<world, ghost, work, pc>>
    BY <1>2 DEF vars, loop
  <2> QED
    BY <1>1, <2>1, QuietStep DEF IInv, ViewAgrees, world
<1> QED
  BY <1>1, <1>2, EnvironmentIInv, MetaStepIInv, RecordsStepIInv, VisitIInv DEF Next

LEMMA IInvReleased == IInv => ReleasedOnlyRecovered
BY DEF IInv, ReleasedOnlyRecovered, ReleasedResumed, Acknowledged, Resumed, Selected,
       Affected, Tracking

\* CleanReconciler releases an object only when no target whose injection was
\* acknowledged is still under the fault: for every set of targets, every number
\* of failed writes, failed calls and crashes, and every order of user actions.
THEOREM ReleasedSafe == Spec => []ReleasedOnlyRecovered
<1>1. Init => IInv
  BY InitIInv
<1>2. IInv /\ [Next]_vars => IInv'
  BY NextIInv
<1>3. IInv => ReleasedOnlyRecovered
  BY IInvReleased
<1> QED
  BY <1>1, <1>2, <1>3, PTL DEF Spec

================================================================================
