------------------------------ MODULE PodNetwork -------------------------------
(***************************************************************************)
(* NetworkChaos on one pod: the experiments that select it, driven by the  *)
(* worker of the NetworkChaos pipeline, commit their rules to the          *)
(* PodNetworkChaos object of the pod; the reconciler of that object brings *)
(* the rules into the network namespace of the pod with three calls to the *)
(* daemon and reports the generation it has applied; a record counts as    *)
(* injected or recovered when the generation of its commit is reported.    *)
(*                                                                         *)
(* A rule is an experiment with a selector key and stands for the ipsets   *)
(* and the iptables chain (partition) or traffic control (tc) that Apply   *)
(* appends.  Objects are read through UpdatedClient: what the manager has  *)
(* written is read at once, but the creation and the deletion of an object *)
(* only when the informer delivers them.                                   *)
(***************************************************************************)
EXTENDS Naturals, Sequences, FiniteSets

CONSTANTS
    Experiments,     \* the NetworkChaos objects that select the pod
    Kind,            \* "partition" or "tc"
    Keys,            \* under which selector keys: "." and ".Target"
    Commits,         \* those for which the direction calls for rules
    MaxPods,         \* bound on pods that bear the name
    MaxFaults        \* bound on failures, crashes, deletions of the pod, pauses

ASSUME KindAssumption == Kind \in [Experiments -> {"partition", "tc"}]
ASSUME KeysAssumption ==
    \A x \in Experiments : Commits[x] \subseteq Keys[x] /\ Keys[x] \subseteq {".", ".Target"}

VARIABLES
    exp,        \* the NetworkChaos objects
    todo,       \* those queued for the pipeline
    work,       \* the reconciliation in progress
    pnc,        \* the PodNetworkChaos object
    view,       \* what the manager reads of it
    pncTodo,    \* it is queued for its reconciler
    rec,        \* the reconciliation of it in progress
    pod,        \* the pod: its uid (0: there is none), how many there were, whether
                \* it runs and whether it uses the network of its host
    kernel,     \* the rules in the network namespace of the pod
    faults,
    note        \* what went unnoticed (history, for the properties only)

\* In kernel, chain[x] is the chain of x that CHAOS-INPUT and CHAOS-OUTPUT lead to,
\* jumps says that INPUT and OUTPUT lead to these two, tcs are the qdiscs, all on
\* one device that is not the last interface, and hooked says that their filters
\* are in the chains.  In note, swallowed holds what a call left undone and yet
\* reported as done: "jumps", "flush".

vars == <<exp, todo, work, pnc, view, pncTodo, rec, pod, kernel, faults, note>>

NotInjected == "Not Injected"
WaitApply == "Not Injected/Wait"
Injected == "Injected"
WaitRecover == "Injected/Wait"

NoPnc == [uid |-> 0, owner |-> 0, spec |-> <<>>, gen |-> 0, observed |-> 0, failed |-> FALSE]
NoWork == [x |-> "none"]
NoRec == [pc |-> "idle"]
NoRules == [chain |-> [x \in Experiments |-> "none"], jumps |-> FALSE,
            tcs |-> {}, hooked |-> FALSE]

Rules == {<<x, k>> \in Experiments \X {".", ".Target"} : k \in Keys[x]}

Init ==
    /\ exp = [x \in Experiments |->
                 [there |-> TRUE, deleting |-> FALSE, paused |-> FALSE, order |-> <<>>,
                  phase |-> [k \in Keys[x] |-> NotInjected], inst |-> 0]]
    /\ todo = Experiments
    /\ work = NoWork
    /\ pnc = NoPnc /\ view = NoPnc /\ pncTodo = FALSE /\ rec = NoRec
    /\ pod \in {[uid |-> 1, born |-> 1, running |-> TRUE, host |-> h] : h \in BOOLEAN}
    /\ kernel = NoRules
    /\ faults = 0
    /\ note = [lost |-> {}, crossed |-> FALSE, silent |-> FALSE, swallowed |-> {},
               on |-> [x \in Experiments |-> 0]]

Fault == faults < MaxFaults /\ faults' = faults + 1

\* The experiments that a change of the pod's object wakes up.
Watching == {x \in Experiments : exp[x].there /\ exp[x].order # <<>>}

--------------------------------------------------------------------------------
(* Commit: Clear and Append in one transaction on the object.              *)

\* Mutant: the rules of every experiment are cleared.
ClearAll(spec, x) == <<>>

\* Mutant: nothing is cleared.
ClearNothing(spec, x) == spec

Clear(spec, x) == SelectSeq(spec, LAMBDA r : r[1] # x)

\* Apply of partition does not clear for a ".Target", that of tc always does.
Initial(spec, x, k) == IF Kind[x] = "partition" /\ k = ".Target" THEN spec ELSE Clear(spec, x)

\* The object after the commit of a specification; the same specification
\* leaves the generation as it is.
Committed(spec) ==
    IF pnc.uid = 0
    THEN [NoPnc EXCEPT !.uid = pod.uid, !.owner = pod.uid, !.spec = spec, !.gen = 1]
    ELSE [pnc EXCEPT !.spec = spec, !.gen = IF spec = pnc.spec THEN @ ELSE @ + 1]

\* The transaction goes through: the object is as read, or is to be created for
\* a running pod.
CanCommit == view.uid = pnc.uid /\ (pnc.uid = 0 => pod.running)

Commit(spec) ==
    /\ CanCommit
    /\ pnc' = Committed(spec)
    /\ view' = IF pnc.uid = 0 THEN view ELSE pnc'
    /\ IF pnc.uid # 0 /\ pnc'.gen # pnc.gen
       THEN pncTodo' = TRUE /\ todo' = todo \cup Watching
       ELSE UNCHANGED <<pncTodo, todo>>

NoCommit == UNCHANGED <<pnc, view, pncTodo, todo>>

--------------------------------------------------------------------------------
(* The worker of the pipeline: finalizers, desiredphase, records.          *)

Worker == work.x # "none"

\* The reconciliation of x begins; without records they are selected, the
\* selector keys in the order of an iteration over a map, or, when there is no
\* pod to select, nothing is done.
Begin(x) ==
    /\ ~Worker /\ x \in todo
    /\ todo' = todo \ {x}
    /\ IF exp[x].deleting /\ \A k \in Keys[x] : exp[x].phase[k] = NotInjected
       THEN /\ exp' = [exp EXCEPT ![x].there = FALSE]
            /\ UNCHANGED work
       ELSE IF exp[x].order = <<>> /\ pod.uid = 0 THEN UNCHANGED <<exp, work>>
       ELSE /\ \E o \in {s \in [1..Cardinality(Keys[x]) -> Keys[x]] :
                            \A k \in Keys[x] : \E i \in DOMAIN s : s[i] = k} :
                  work' = [x |-> x, i |-> 1, phase |-> exp[x].phase, inst |-> exp[x].inst,
                           order |-> IF exp[x].order = <<>> THEN o ELSE exp[x].order,
                           run |-> ~exp[x].deleting /\ ~exp[x].paused,
                           update |-> exp[x].order = <<>>, retry |-> FALSE]
            /\ UNCHANGED exp
    /\ UNCHANGED <<pnc, view, pncTodo, rec, pod, kernel, faults, note>>

key == work.order[work.i]
was == work.phase[key]
More == Worker /\ work.i <= Len(work.order)
Applies == More /\ IF work.run THEN was \in {NotInjected, WaitApply} ELSE was = WaitApply

\* Mutant: a record that waits for its recovery is not looked at again.
RecoversOnce == More /\ ~work.run /\ was = Injected

Recovers == More /\ IF work.run THEN was = WaitRecover ELSE was \in {Injected, WaitRecover}

\* The record gets a phase; an error asks for a retry.
Record(phase, inst, error) ==
    work' = [work EXCEPT !.phase[key] = phase, !.inst = inst, !.i = @ + 1,
                         !.update = @ \/ phase # was \/ error, !.retry = @ \/ error]

Skip ==
    /\ More /\ ~Applies /\ ~Recovers
    /\ work' = [work EXCEPT !.i = @ + 1]
    /\ UNCHANGED <<exp, todo, pnc, view, pncTodo, rec, pod, kernel, faults, note>>

\* The record waits for the generation of its commit.
Await ==
    LET done == IF was = WaitApply THEN Injected ELSE NotInjected IN
    /\ More /\ was \in {WaitApply, WaitRecover}
    /\ CASE view.uid = 0 -> Record(NotInjected, work.inst, FALSE)
         [] view.uid # 0 /\ view.failed -> Record(was, work.inst, TRUE)
         [] view.uid # 0 /\ ~view.failed ->
               Record(IF view.observed >= work.inst THEN done ELSE was, work.inst, FALSE)
    /\ note' = IF view.uid = 0 /\ pnc.uid # 0 /\ was = WaitApply
               THEN [note EXCEPT !.lost = @ \cup {work.x}] ELSE note
    /\ UNCHANGED <<exp, todo, pnc, view, pncTodo, rec, pod, kernel, faults>>

\* Apply of a record that is not injected.
Apply ==
    LET spec == Append(Initial(pnc.spec, work.x, key), <<work.x, key>>) IN
    /\ Applies /\ was = NotInjected
    /\ \/ /\ pod.uid # 0 /\ key \notin Commits[work.x]
          /\ Record(Injected, work.inst, FALSE)
          /\ NoCommit /\ UNCHANGED <<faults, note>>
       \/ /\ pod.uid = 0 \/ (key \in Commits[work.x] /\ ~CanCommit)
          /\ Record(NotInjected, work.inst, TRUE)
          /\ NoCommit /\ UNCHANGED <<faults, note>>
       \/ /\ pod.uid # 0 /\ key \in Commits[work.x]
          /\ Commit(spec)
          /\ note' = [note EXCEPT !.on[work.x] = pnc'.uid]
          /\ Record(WaitApply, pnc'.gen, FALSE)
          /\ UNCHANGED faults
       \/ \* The transaction, or the read of the generation after it, fails.
          /\ pod.uid # 0 /\ key \in Commits[work.x] /\ Fault
          /\ \/ NoCommit /\ UNCHANGED note
             \/ Commit(spec) /\ note' = [note EXCEPT !.lost = @ \cup {work.x}]
          /\ Record(NotInjected, work.inst, TRUE)
    /\ UNCHANGED <<exp, rec, pod, kernel>>

\* Recover of a record that is injected.
Recover ==
    LET spec == Clear(pnc.spec, work.x) IN
    /\ Recovers /\ was = Injected
    /\ \/ /\ pod.uid = 0 \/ (view.uid = 0 /\ ~pod.running)
          /\ Record(NotInjected, work.inst, FALSE)
          /\ NoCommit /\ UNCHANGED <<faults, note>>
       \/ /\ pod.uid # 0 /\ view.uid # pnc.uid /\ (view.uid = 0 => pod.running)
          /\ Record(Injected, work.inst, TRUE)
          /\ NoCommit /\ UNCHANGED <<faults, note>>
       \/ /\ pod.uid # 0
          /\ Commit(spec)
          /\ Record(WaitRecover, pnc'.gen, FALSE)
          /\ UNCHANGED <<faults, note>>
       \/ /\ pod.uid # 0 /\ Fault
          /\ \/ NoCommit /\ UNCHANGED note
             \/ Commit(spec) /\ note' = [note EXCEPT !.lost = @ \cup {work.x}]
          /\ Record(Injected, work.inst, TRUE)
    /\ UNCHANGED <<exp, rec, pod, kernel>>

\* What the worker has done for x and not written is forgotten.
Forget ==
    note' = [note EXCEPT
        !.lost = IF Worker /\ work.phase # exp[work.x].phase THEN @ \cup {work.x} ELSE @]

\* The records are written, and the change, or the retry, queues x again.
Finish ==
    LET x == work.x IN
    /\ Worker /\ ~More
    /\ \/ /\ exp' = IF work.update
                    THEN [exp EXCEPT ![x].phase = work.phase, ![x].inst = work.inst,
                                     ![x].order = work.order]
                    ELSE exp
          /\ todo' = IF exp'[x] # exp[x] \/ work.retry THEN todo \cup {x} ELSE todo
          /\ UNCHANGED <<faults, note>>
       \/ /\ work.update /\ Fault /\ Forget
          /\ todo' = todo \cup {x}
          /\ UNCHANGED exp
    /\ work' = NoWork
    /\ UNCHANGED <<pnc, view, pncTodo, rec, pod, kernel>>

--------------------------------------------------------------------------------
(* The reconciler of PodNetworkChaos.                                      *)

ReconcileBegin ==
    /\ rec = NoRec /\ pncTodo
    /\ pncTodo' = FALSE
    /\ rec' = IF \/ view.uid = 0
                 \/ view.gen <= view.observed /\ ~view.failed
                 \/ pod.uid = 0
              THEN NoRec
              ELSE [pc |-> IF pod.host THEN "status" ELSE "ipsets", uid |-> view.uid,
                    pod |-> pod.uid, gen |-> view.gen, spec |-> view.spec,
                    err |-> pod.host, requeue |-> FALSE]
    /\ UNCHANGED <<exp, todo, work, pnc, view, pod, kernel, faults, note>>

\* Mutant: the failure does not reach the status.
CallFailsUnreported ==
    /\ IF rec.pod # pod.uid THEN UNCHANGED faults ELSE Fault
    /\ rec' = [rec EXCEPT !.pc = "status", !.requeue = TRUE]

\* Mutant: the failure does not ask for another reconciliation.
CallFailsForGood ==
    /\ IF rec.pod # pod.uid THEN UNCHANGED faults ELSE Fault
    /\ rec' = [rec EXCEPT !.pc = "status", !.err = TRUE]

\* A call that fails: because the pod has gone, or for some other reason.
CallFails ==
    /\ IF rec.pod # pod.uid THEN UNCHANGED faults ELSE Fault
    /\ rec' = [rec EXCEPT !.pc = "status", !.err = TRUE, !.requeue = TRUE]

CallReturns(next) ==
    /\ rec.pod = pod.uid /\ UNCHANGED faults
    /\ rec' = [rec EXCEPT !.pc = next]

SetIPSets ==
    /\ rec.pc = "ipsets"
    /\ CallReturns("iptables") \/ CallFails
    /\ UNCHANGED <<exp, todo, work, pnc, view, pncTodo, pod, kernel, note>>

\* Mutant: a chain is made of the wrong field of its rule.
ChainsOfNames(spec) ==
    [x \in Experiments |->
        LET keys == SelectSeq(spec, LAMBDA r : r[1] = x /\ Kind[x] = "partition") IN
        IF keys = <<>> THEN "none" ELSE keys[Len(keys)][1]]

\* The chains of a specification: a chain bears the name of its experiment, and
\* the last one of a name counts.
ChainsOf(spec) ==
    [x \in Experiments |->
        LET keys == SelectSeq(spec, LAMBDA r : r[1] = x /\ Kind[x] = "partition") IN
        IF keys = <<>> THEN "none" ELSE keys[Len(keys)][2]]

TcsOf(spec) == {spec[i] : i \in {j \in DOMAIN spec : Kind[spec[j][1]] = "tc"}}

\* A call that succeeds although an error in it was dropped.
CallSwallows(what, next) ==
    /\ rec.pod = pod.uid /\ Fault
    /\ rec' = [rec EXCEPT !.pc = next]
    /\ note' = [note EXCEPT !.swallowed = @ \cup {what}]

Clean(what) == note' = [note EXCEPT !.swallowed = @ \ {what}]

\* initializeEnv flushes CHAOS-INPUT and CHAOS-OUTPUT, which takes the filters of
\* traffic control out too, and makes INPUT and OUTPUT jump to them, where it
\* drops the error; then they are filled chain by chain.  A call that fails may
\* have got part of the way.
SetIptables ==
    /\ rec.pc = "iptables"
    /\ \/ /\ CallReturns("tcs") /\ Clean("jumps")
          /\ kernel' = [kernel EXCEPT !.chain = ChainsOf(rec.spec), !.hooked = FALSE,
                                      !.jumps = TRUE]
       \/ /\ ~kernel.jumps /\ CallSwallows("jumps", "tcs")
          /\ kernel' = [kernel EXCEPT !.chain = ChainsOf(rec.spec), !.hooked = FALSE]
       \/ /\ CallFails /\ UNCHANGED note
          /\ \/ UNCHANGED kernel
             \/ /\ rec.pod = pod.uid
                /\ \E n \in 0..Len(rec.spec), j \in {kernel.jumps, TRUE} :
                      kernel' = [kernel EXCEPT !.chain = ChainsOf(SubSeq(rec.spec, 1, n)),
                                               !.hooked = FALSE, !.jumps = j]
    /\ UNCHANGED <<exp, todo, work, pnc, view, pncTodo, pod>>

\* The qdiscs of each interface are flushed, and added one by one, then the
\* filters.  An error of the flush counts only if it is that of the last interface.
\* One that is dropped leaves the qdiscs of its interface: to add others there
\* fails, but when there is nothing to add the call succeeds.
SetTcs ==
    /\ rec.pc = "tcs"
    /\ \/ /\ CallReturns("status") /\ Clean("flush")
          /\ kernel' = [kernel EXCEPT !.tcs = TcsOf(rec.spec), !.hooked = TRUE]
       \/ /\ kernel.tcs # {} /\ TcsOf(rec.spec) = {} /\ CallSwallows("flush", "status")
          /\ UNCHANGED kernel
       \/ /\ CallFails /\ UNCHANGED note
          /\ \/ UNCHANGED kernel
             \/ /\ rec.pod = pod.uid
                /\ \E n \in 0..Len(rec.spec) :
                      kernel' = [kernel EXCEPT !.tcs = TcsOf(SubSeq(rec.spec, 1, n))]
    /\ UNCHANGED <<exp, todo, work, pnc, view, pncTodo, pod>>

\* The deferred write of the status, to the object that now bears the name.
WriteStatus ==
    /\ rec.pc = "status"
    /\ \/ /\ view.uid = pnc.uid /\ pnc.uid # 0
          /\ pnc' = [pnc EXCEPT !.observed = rec.gen, !.failed = rec.err]
          /\ view' = pnc'
          /\ todo' = todo \cup Watching
          /\ note' = [note EXCEPT !.crossed = @ \/ rec.uid # pnc.uid]
          /\ UNCHANGED faults
       \/ /\ IF view.uid = pnc.uid /\ pnc.uid # 0 THEN Fault ELSE UNCHANGED faults
          /\ note' = [note EXCEPT !.silent = @ \/ (~rec.requeue /\ rec.uid = pnc.uid)]
          /\ UNCHANGED <<pnc, view, todo>>
    /\ rec' = NoRec
    /\ pncTodo' = (pncTodo \/ rec.requeue)
    /\ UNCHANGED <<exp, work, pod, kernel>>

--------------------------------------------------------------------------------
(* The surroundings.                                                       *)

\* The informer delivers the creation or the deletion of the object.
Deliver ==
    /\ view.uid # pnc.uid
    /\ view' = pnc
    /\ pncTodo' = TRUE
    /\ todo' = todo \cup Watching
    /\ UNCHANGED <<exp, work, pnc, rec, pod, kernel, faults, note>>

\* The object is collected with the pod that owns it.
Collect ==
    /\ pnc.uid # 0 /\ pnc.owner # pod.uid
    /\ pnc' = NoPnc
    /\ UNCHANGED <<exp, todo, work, view, pncTodo, rec, pod, kernel, faults, note>>

Delete(x) ==
    /\ exp[x].there /\ ~exp[x].deleting
    /\ exp' = [exp EXCEPT ![x].deleting = TRUE]
    /\ todo' = todo \cup {x}
    /\ UNCHANGED <<work, pnc, view, pncTodo, rec, pod, kernel, faults, note>>

Pause(x) ==
    /\ exp[x].there /\ ~exp[x].deleting
    /\ IF exp[x].paused THEN UNCHANGED faults ELSE Fault
    /\ exp' = [exp EXCEPT ![x].paused = ~@]
    /\ todo' = todo \cup {x}
    /\ UNCHANGED <<work, pnc, view, pncTodo, rec, pod, kernel, note>>

\* The pod is deleted; one of the same name may follow and start.
DeletePod ==
    /\ pod.uid # 0 /\ pod.born < MaxPods /\ Fault
    /\ pod' = [pod EXCEPT !.uid = 0, !.running = FALSE]
    /\ kernel' = NoRules
    /\ note' = [note EXCEPT !.swallowed = {}]
    /\ UNCHANGED <<exp, todo, work, pnc, view, pncTodo, rec>>

NewPod ==
    /\ pod.uid = 0
    /\ pod' = [pod EXCEPT !.uid = pod.born + 1, !.born = @ + 1]
    /\ UNCHANGED <<exp, todo, work, pnc, view, pncTodo, rec, kernel, faults, note>>

StartPod ==
    /\ pod.uid # 0 /\ ~pod.running
    /\ pod' = [pod EXCEPT !.running = TRUE]
    /\ UNCHANGED <<exp, todo, work, pnc, view, pncTodo, rec, kernel, faults, note>>

\* The manager restarts: caches are filled and everything is queued.
Crash ==
    /\ Fault
    /\ work' = NoWork /\ rec' = NoRec
    /\ view' = pnc
    /\ todo' = {x \in Experiments : exp[x].there}
    /\ pncTodo' = (pnc.uid # 0)
    /\ Forget
    /\ UNCHANGED <<exp, pnc, pod, kernel>>

--------------------------------------------------------------------------------
WorkerNext == (\E x \in Experiments : Begin(x)) \/ Skip \/ Await \/ Apply \/ Recover \/ Finish
ReconcilerNext == ReconcileBegin \/ SetIPSets \/ SetIptables \/ SetTcs \/ WriteStatus

Next ==
    \/ WorkerNext \/ ReconcilerNext \/ Deliver \/ Collect
    \/ (\E x \in Experiments : Delete(x) \/ Pause(x))
    \/ DeletePod \/ NewPod \/ StartPod \/ Crash

Spec == Init /\ [][Next]_vars

\* Both workers run, events arrive, the garbage collector works, a pod that was
\* created starts and, so that no pause lasts for ever, is unpaused.
FairSpec ==
    /\ Spec
    /\ WF_vars(WorkerNext) /\ WF_vars(ReconcilerNext) /\ WF_vars(Deliver) /\ WF_vars(Collect)
    /\ WF_vars(NewPod) /\ WF_vars(StartPod)
    /\ \A x \in Experiments : WF_vars(exp[x].paused /\ Pause(x))

--------------------------------------------------------------------------------
(* Properties.                                                             *)

\* What each variable may hold.
TypeOK ==
    /\ \A x \in Experiments :
           /\ exp[x].phase \in [Keys[x] -> {NotInjected, WaitApply, Injected, WaitRecover}]
           /\ exp[x].inst \in Nat
    /\ todo \subseteq Experiments
    /\ \A o \in {pnc, view} : \A i \in DOMAIN o.spec : o.spec[i] \in Rules
    /\ pncTodo \in BOOLEAN
    /\ rec.pc \in {"idle", "ipsets", "iptables", "tcs", "status"}
    /\ kernel.chain \in [Experiments -> {".", ".Target", "none"}]
    /\ kernel.tcs \subseteq Rules /\ kernel.hooked \in BOOLEAN /\ kernel.jumps \in BOOLEAN
    /\ note.swallowed \subseteq {"jumps", "flush"}
    /\ faults \in 0..MaxFaults /\ pod.born \in 1..MaxPods

\* The pod is selected under one key only.
OneSided(x) == Cardinality(Keys[x]) = 1

\* An experiment that has its record injected has its rules in the object it
\* committed them to: the transactions of other experiments, and the retries
\* and repeated recoveries of failed ones, leave them alone (Clear).  Excepted
\* are an experiment at work, and one whose recovery was carried out and forgotten.
InjectedIsWanted ==
    \A x \in Experiments : OneSided(x) => \A k \in Commits[x] :
        /\ exp[x].phase[k] = Injected /\ note.on[x] = pnc.uid
        /\ work.x # x /\ x \notin note.lost
        => \E i \in DOMAIN pnc.spec : pnc.spec[i] = <<x, k>>

\* The status means what it says: an object whose generation is observed and
\* that reports no failure has exactly its rules in the pod, whatever calls
\* failed halfway and whenever the manager crashed.  Excepted are a status that
\* was written for the object of an earlier pod of the same name, and errors the
\* daemon drops: of the jumps from INPUT and OUTPUT (iptables_server.go:208), and of
\* the flush of any interface but the last (tc_server.go:134).
ObservedIsInForce ==
    /\ pnc.uid # 0 /\ pnc.owner = pod.uid /\ ~note.crossed /\ note.swallowed = {}
    /\ pnc.observed >= pnc.gen /\ ~pnc.failed
    => kernel = [chain |-> ChainsOf(pnc.spec), jumps |-> TRUE,
                 tcs |-> TcsOf(pnc.spec), hooked |-> TRUE]

\* An experiment is removed only when its rules are no longer wanted in the pod,
\* unless a commit of it was carried out and forgotten.
GoneLeavesNothing ==
    \A x \in Experiments : ~exp[x].there /\ x \notin note.lost =>
        \A i \in DOMAIN pnc.spec : pnc.owner = pod.uid => pnc.spec[i][1] # x

\* Where no status arrives that could help: the pod uses the network of its
\* host, or a write of the status failed and nothing asks for another.
Stuck == pod.host \/ note.silent

\* Experiments that are to run are injected again and again, or for good, unless
\* they were to select the pod when it had gone.
Injects ==
    \A x \in Experiments : []<>(
        \/ ~exp[x].there \/ exp[x].deleting \/ exp[x].paused \/ Stuck
        \/ exp[x].order = <<>> /\ (pod.uid = 0 \/ pod.born > 1)
        \/ \A k \in Keys[x] : exp[x].phase[k] = Injected)

\* An experiment that is deleted goes.
DeletedGoes == \A x \in Experiments : exp[x].deleting ~> ~exp[x].there \/ Stuck
================================================================================
