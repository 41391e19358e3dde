------------------------------- MODULE Workflow --------------------------------
(***************************************************************************)
(* The nodes of a workflow and the controllers that drive them: the entry  *)
(* reconciler creates the node of the entry template; the serial and the   *)
(* parallel reconcilers create the children of a node and report when all  *)
(* have finished; the deadline reconciler and the two abort reconcilers    *)
(* finish a node and, level by level, what is below it.                    *)
(*                                                                         *)
(* Each controller works on one object at a time and is woken by events on *)
(* it (and, where it owns them, on its children).  The entry and deadline  *)
(* reconcilers read through the informer's cache (view), which lags behind *)
(* and catches up in one step; the others read what is there.  A leaf is   *)
(* a node that nothing but a deadline or an abort finishes, as one that    *)
(* runs chaos does.                                                        *)
(***************************************************************************)
EXTENDS Naturals, Sequences, FiniteSets

CONSTANTS
    Trees,      \* workflows: the entry, and the type, the children and the presence of
                \* a deadline (timed) for each template; and for each workflow whether
                \* it may be aborted (abortAt: how many nodes there have been by then),
                \* whether the manager may be restarted, bounds on
                \* failed creations and restarts (faults) and on the entry nodes there
                \* are at a time (entries), and whether these are created in one second
                \* (tied)
    MaxNodes    \* bound on the nodes created

VARIABLES
    tree,     \* the workflow
    wf,       \* its abort annotation and its conditions
    node,     \* the nodes, in the order of their creation
    view,     \* the cache of them
    born,     \* how many were created
    late,     \* those whose deadline has passed
    q,        \* the queues of the controllers; 0 is the workflow
    work,     \* what each controller is at
    faults

vars == <<tree, wf, node, view, born, late, q, work, faults>>

Ids == 1..MaxNodes
Flows == {"serial", "parallel"}
Controllers == Flows \cup {"deadline", "abort", "entry", "abortwf"}

NoNode == [tmpl |-> "none", parent |-> 0, acc |-> FALSE, dl |-> FALSE, ab |-> FALSE,
           act |-> {}, fin |-> {}, del |-> FALSE]

Idle == [pc |-> "idle"]

Exists(s, n) == s[n].tmpl # "none"
Children(s, n) == {c \in Ids : Exists(s, c) /\ s[c].parent = n}
WorkflowNodeFinished(r) == r.acc \/ r.dl \/ r.ab
Active(s, n) == {c \in Children(s, n) : ~WorkflowNodeFinished(s[c])}

\* Mutant: all children are listed as finished.
FinishedChildrenAll(s, n) == Children(s, n)

FinishedChildren(s, n) == Children(s, n) \ Active(s, n)
TypeOf(n) == tree.type[node[n].tmpl]
Tasks(n) == tree.children[node[n].tmpl]
First(S) == CHOOSE n \in S : \A m \in S : n <= m

\* The entry nodes that may come first when S is sorted by the second in which
\* its nodes were created: the cache lists them in any order.
Firsts(S) == IF tree.tied \/ S = {} THEN S ELSE {First(S)}

Init ==
    /\ tree \in Trees
    /\ wf = [abort |-> FALSE, scheduled |-> "nil", acc |-> FALSE, entry |-> 0]
    /\ node = [n \in Ids |-> NoNode] /\ view = node /\ born = 0
    /\ late = {}
    /\ q = [k \in Controllers |-> IF k = "entry" THEN {0} ELSE {}]
    /\ work = [k \in Controllers |-> Idle]
    /\ faults = 0

Fault == faults < tree.faults /\ faults' = faults + 1

\* The controller k takes n from its queue, goes on with w, or gives up on it
\* and is to look at it again.
Take(k, n) == work[k] = Idle /\ n \in q[k]
Go(k, w) == work' = [work EXCEPT ![k] = w]
Took(k, n) == q' = [q EXCEPT ![k] = @ \ {n}]
Again(k, n) == work' = [work EXCEPT ![k] = Idle] /\ q' = [q EXCEPT ![k] = @ \cup {n}]
At(k, pc) == work[k].pc = pc

\* The workflow object changes, which wakes its two controllers.
SetWf(w) ==
    /\ wf' = w
    /\ IF w = wf THEN UNCHANGED q
       ELSE q' = [k \in Controllers |->
                     IF k = "entry" \/ (k = "abortwf" /\ w.abort) THEN q[k] \cup {0} ELSE q[k]]

NewNode(t, p) ==
    /\ born < MaxNodes
    /\ born' = born + 1
    /\ node' = [node EXCEPT ![born + 1] = [NoNode EXCEPT !.tmpl = t, !.parent = p]]

\* What the entry reconciler looks at.
Entries(s) == {<<n, WorkflowNodeFinished(s[n])>> : n \in Children(s, 0)}

\* The nodes on which the controller k, woken by an event, may do something.
Minds(k, n) ==
    /\ Exists(node, n)
    /\ CASE k \in Flows -> TypeOf(n) = k
         [] k = "abort" -> wf.abort /\ TypeOf(n) \in Flows
         [] OTHER -> n \in late \/ (node[n].dl /\ TypeOf(n) \in Flows)

--------------------------------------------------------------------------------
(* WorkflowEntryReconciler.                                                *)

\* Mutant: the first one goes as well.
RedundantAll(seen) == IF Cardinality(seen) > 1 THEN {seen} ELSE {{} : f \in seen}

Redundant(seen) == {seen \ {f} : f \in Firsts(seen)}

\* Without an entry node one is created, failing which the status is synced all
\* the same; of several all but the first are deleted.
EntrySync ==
    LET seen == Children(view, 0) IN
    /\ Take("entry", 0) /\ Took("entry", 0)
    /\ Go("entry", [pc |-> "status"])
    /\ \/ /\ seen = {}
          /\ Cardinality(Children(node, 0)) < tree.entries
          /\ NewNode(tree.entry, 0)
          /\ UNCHANGED faults
       \/ seen = {} /\ Fault /\ UNCHANGED <<node, born>>
       \/ /\ \E extra \in Redundant(seen) :
                node' = [n \in Ids |-> IF n \in extra /\ Exists(node, n)
                                       THEN [node[n] EXCEPT !.del = TRUE] ELSE node[n]]
          /\ UNCHANGED <<born, faults>>
    /\ UNCHANGED <<tree, wf, view, late>>

\* Mutant: an entry node that a deadline or an abort finished does not count.
EntryDoneAccomplished(r) == r.acc

EntryDone(r) == WorkflowNodeFinished(r)

EntryStatus ==
    LET seen == Children(view, 0) IN
    /\ At("entry", "status")
    /\ \/ seen = {} /\ SetWf([wf EXCEPT !.scheduled = "False", !.acc = FALSE])
       \/ \E f \in Firsts(seen) :
             SetWf([wf EXCEPT !.scheduled = "True", !.acc = EntryDone(view[f]), !.entry = f])
    /\ Go("entry", Idle)
    /\ UNCHANGED <<tree, node, view, born, late, faults>>

--------------------------------------------------------------------------------
(* SerialNodeReconciler and ParallelNodeReconciler.                        *)

FlowGet(k, n) ==
    /\ Take(k, n) /\ Took(k, n)
    /\ Go(k, IF ~Exists(node, n) \/ node[n].del THEN Idle
             ELSE IF Tasks(n) = <<>> \/ WorkflowNodeFinished(node[n])
                  THEN [pc |-> "status", n |-> n]
             ELSE [pc |-> "sync", n |-> n, tasks |-> Tasks(n)])
    /\ UNCHANGED <<tree, wf, node, view, born, late, faults>>

\* Mutant: the next task does not wait for the one before.
SerialStartsEager(n, tasks) ==
    LET all == Cardinality(Children(node, n)) IN
    IF all < Len(tasks) THEN <<tasks[all + 1]>> ELSE <<>>

\* A serial node without active children starts the task after the finished ones.
\* (No finished child is ever deleted: the name of a task never has the generated
\* name of a node as its prefix.)
SerialStarts(n, tasks) ==
    LET done == Cardinality(FinishedChildren(node, n)) IN
    IF Active(node, n) = {} /\ done < Len(tasks) THEN <<tasks[done + 1]>> ELSE <<>>

\* The children are listed.  A parallel node whose children are not those of its
\* tasks deletes them and starts all tasks.
FlowSync(k) ==
    LET n == work[k].n
        tasks == work[k].tasks
        all == Children(node, n)
        same == {node[c].tmpl : c \in all} = {tasks[i] : i \in DOMAIN tasks}
        spawn == IF k = "serial" THEN SerialStarts(n, tasks) ELSE IF same THEN <<>> ELSE tasks
    IN
    /\ At(k, "sync")
    /\ node' = [c \in Ids |-> IF k = "parallel" /\ ~same /\ c \in all
                              THEN [node[c] EXCEPT !.del = TRUE] ELSE node[c]]
    /\ Go(k, IF spawn = <<>> THEN [pc |-> "status", n |-> n]
             ELSE [pc |-> "create", n |-> n, spawn |-> spawn])
    /\ UNCHANGED <<tree, wf, view, born, late, q, faults>>

\* The next task is created, or fails to be, which ends the reconciliation.
FlowCreate(k) ==
    /\ At(k, "create")
    /\ \/ /\ NewNode(Head(work[k].spawn), work[k].n)
          /\ Go(k, IF Len(work[k].spawn) = 1 THEN [pc |-> "status", n |-> work[k].n]
                   ELSE [work[k] EXCEPT !.spawn = Tail(@)])
          /\ UNCHANGED <<q, faults>>
       \/ Fault /\ Again(k, work[k].n) /\ UNCHANGED <<node, born>>
    /\ UNCHANGED <<tree, wf, view, late>>

\* The children are listed for the status, which is written when the node has
\* not changed in between.
FlowStatus(k) ==
    LET n == work[k].n IN
    /\ At(k, "status")
    /\ Go(k, IF Exists(node, n)
             THEN [pc |-> "write", n |-> n, was |-> node[n],
                   act |-> Active(node, n), fin |-> FinishedChildren(node, n)]
             ELSE Idle)
    /\ UNCHANGED <<tree, wf, node, view, born, late, q, faults>>

\* Mutant: a node is accomplished once.
AllFinishedNews(n, w) == Cardinality(w.fin) = Len(Tasks(n)) /\ ~node[n].acc

\* Mutant: one child too few counts.
AllFinishedButOne(n, w) == Cardinality(w.fin) + 1 >= Len(Tasks(n))

AllFinished(n, w) == Cardinality(w.fin) = Len(Tasks(n))

FlowWrite(k) ==
    LET n == work[k].n
        w == work[k] IN
    /\ At(k, "write")
    /\ IF node[n] = w.was
       THEN /\ node' = [node EXCEPT ![n].act = w.act, ![n].fin = w.fin,
                                    ![n].acc = AllFinished(n, w)]
            /\ Go(k, Idle)
       ELSE Go(k, [pc |-> "status", n |-> n]) /\ UNCHANGED node
    /\ UNCHANGED <<tree, wf, view, born, late, q, faults>>

--------------------------------------------------------------------------------
(* DeadlineReconciler.                                                     *)

\* Mutant: a deadline that is noted is not propagated again.
DeadlineGetOnce(n) ==
    /\ Take("deadline", n) /\ Took("deadline", n)
    /\ Go("deadline", IF Exists(view, n) /\ ~view[n].dl /\ n \in late
                      THEN [pc |-> "own", n |-> n] ELSE Idle)
    /\ UNCHANGED <<tree, wf, node, view, born, late, faults>>

DeadlineGet(n) ==
    /\ Take("deadline", n) /\ Took("deadline", n)
    /\ Go("deadline",
          IF Exists(view, n) /\ view[n].dl THEN [pc |-> "list", n |-> n]
          ELSE IF Exists(view, n) /\ n \in late THEN [pc |-> "own", n |-> n]
          ELSE Idle)
    /\ UNCHANGED <<tree, wf, node, view, born, late, faults>>

\* A write to a node read from the cache fails unless the cache has the latest.
Exceed(n) == node' = [node EXCEPT ![n].dl = TRUE]

DeadlineOwn ==
    LET n == work["deadline"].n IN
    /\ At("deadline", "own")
    /\ IF view[n] = node[n] /\ Exists(view, n)
       THEN Exceed(n) /\ Go("deadline", [pc |-> "list", n |-> n]) /\ UNCHANGED q
       ELSE Again("deadline", n) /\ UNCHANGED node
    /\ UNCHANGED <<tree, wf, view, born, late, faults>>

DeadlineList ==
    LET n == work["deadline"].n
        active == Active(view, n) IN
    /\ At("deadline", "list")
    /\ Go("deadline", IF active = {} THEN Idle ELSE [pc |-> "kids", n |-> n, kids |-> active])
    /\ UNCHANGED <<tree, wf, node, view, born, late, q, faults>>

DeadlineChild ==
    LET w == work["deadline"]
        c == First(w.kids)
        rest == IF w.kids = {c} THEN Idle ELSE [w EXCEPT !.kids = @ \ {c}] IN
    /\ At("deadline", "kids")
    /\ IF Exists(view, c) /\ view[c].dl
       THEN Go("deadline", rest) /\ UNCHANGED <<node, q>>
       ELSE IF Exists(view, c) /\ view[c] = node[c]
       THEN Exceed(c) /\ Go("deadline", rest) /\ UNCHANGED q
       ELSE Again("deadline", w.n) /\ UNCHANGED node
    /\ UNCHANGED <<tree, wf, view, born, late, faults>>

--------------------------------------------------------------------------------
(* AbortWorkflowReconciler and AbortNodeReconciler.                        *)

\* The entry node gets the condition that the annotation calls for.
AbortWorkflow ==
    LET entries == Children(node, 0) IN
    /\ Take("abortwf", 0) /\ Took("abortwf", 0)
    /\ \/ entries = {} /\ UNCHANGED node
       \/ \E f \in Firsts(entries) : node' = [node EXCEPT ![f].ab = wf.abort]
    /\ UNCHANGED <<tree, wf, view, born, late, work, faults>>

AbortGet(n) ==
    /\ Take("abort", n) /\ Took("abort", n)
    /\ Go("abort", IF Exists(node, n) /\ node[n].ab THEN [pc |-> "list", n |-> n] ELSE Idle)
    /\ UNCHANGED <<tree, wf, node, view, born, late, faults>>

AbortList ==
    LET n == work["abort"].n
        active == Active(node, n) IN
    /\ At("abort", "list")
    /\ Go("abort", IF active = {} THEN Idle ELSE [pc |-> "kids", n |-> n, kids |-> active])
    /\ UNCHANGED <<tree, wf, node, view, born, late, q, faults>>

AbortChild ==
    LET w == work["abort"]
        c == First(w.kids) IN
    /\ At("abort", "kids")
    /\ IF Exists(node, c)
       THEN /\ node' = [node EXCEPT ![c].ab = TRUE]
            /\ Go("abort", IF w.kids = {c} THEN Idle ELSE [w EXCEPT !.kids = @ \ {c}])
            /\ UNCHANGED q
       ELSE Again("abort", w.n) /\ UNCHANGED node
    /\ UNCHANGED <<tree, wf, view, born, late, faults>>

--------------------------------------------------------------------------------
(* The surroundings.                                                       *)

\* The informer catches up: the nodes that changed, and for the controllers that
\* own them their parents, are queued.
Deliver ==
    LET changed == {n \in Ids : view[n] # node[n]}
        parents == {IF Exists(node, n) THEN node[n].parent ELSE view[n].parent : n \in changed}
        wake(k) == CASE k \in Flows -> {n \in (changed \cup parents) \ {0} : Minds(k, n)}
                     [] k = "entry" -> IF Entries(node) = Entries(view) THEN {} ELSE {0}
                     [] k = "abortwf" -> {}
                     [] OTHER -> {n \in changed : Minds(k, n)}
    IN
    /\ changed # {}
    /\ view' = node
    /\ q' = [k \in Controllers |-> q[k] \cup wake(k)]
    /\ UNCHANGED <<tree, wf, node, born, late, work, faults>>

\* The deadline of a node passes, for which its reconciler has asked to be woken.
Expire(n) ==
    /\ Exists(node, n) /\ tree.timed[node[n].tmpl] /\ n \notin late
    /\ late' = late \cup {n}
    /\ q' = [q EXCEPT !["deadline"] = @ \cup {n}]
    /\ UNCHANGED <<tree, wf, node, view, born, work, faults>>

Abort ==
    /\ ~wf.abort /\ born \in tree.abortAt
    /\ SetWf([wf EXCEPT !.abort = TRUE])
    /\ UNCHANGED <<tree, node, view, born, late, work, faults>>

\* What is deleted goes after what it owns.
Collect(n) ==
    /\ Exists(node, n)
    /\ \/ /\ ~node[n].del
          /\ node[n].parent # 0
          /\ ~Exists(node, node[n].parent) \/ node[node[n].parent].del
          /\ node' = [node EXCEPT ![n].del = TRUE]
       \/ /\ node[n].del /\ Children(node, n) = {}
          /\ node' = [node EXCEPT ![n] = NoNode]
    /\ UNCHANGED <<tree, wf, view, born, late, q, work, faults>>

Restart ==
    /\ Fault /\ tree.restarts
    /\ view' = node
    /\ work' = [k \in Controllers |-> Idle]
    /\ q' = [k \in Controllers |->
                IF k \in {"entry", "abortwf"} THEN {0}
                ELSE {n \in Ids : Minds(k, n)}]
    /\ UNCHANGED <<tree, wf, node, born, late>>

--------------------------------------------------------------------------------
EntryNext == EntrySync \/ EntryStatus
FlowNext(k) == (\E n \in Ids : FlowGet(k, n)) \/ FlowSync(k) \/ FlowCreate(k) \/ FlowStatus(k)
               \/ FlowWrite(k)
DeadlineNext == (\E n \in Ids : DeadlineGet(n)) \/ DeadlineOwn \/ DeadlineList \/ DeadlineChild
AbortNext == (\E n \in Ids : AbortGet(n)) \/ AbortList \/ AbortChild

Next ==
    \/ EntryNext \/ (\E k \in Flows : FlowNext(k)) \/ DeadlineNext \/ AbortWorkflow \/ AbortNext
    \/ Deliver \/ Abort \/ Restart
    \/ \E n \in Ids : Expire(n) \/ Collect(n)

Spec == Init /\ [][Next]_vars

\* Every controller runs, the informer delivers and the garbage collector works.
FairSpec ==
    /\ Spec
    /\ WF_vars(EntryNext) /\ (\A k \in Flows : WF_vars(FlowNext(k))) /\ WF_vars(DeadlineNext)
    /\ WF_vars(AbortWorkflow) /\ WF_vars(AbortNext)
    /\ WF_vars(Deliver) /\ WF_vars(\E n \in Ids : Collect(n))

--------------------------------------------------------------------------------
(* Properties.                                                             *)

\* What each variable may hold.
TypeOK ==
    /\ \A n \in Ids : \A r \in {node[n], view[n]} :
           /\ {r.acc, r.dl, r.ab, r.del} \subseteq BOOLEAN
           /\ r.act \subseteq Ids /\ r.fin \subseteq Ids /\ r.act \cap r.fin = {}
    /\ wf.scheduled \in {"nil", "False", "True"} /\ wf.acc \in BOOLEAN
    /\ late \subseteq Ids /\ born \in 0..MaxNodes
    /\ q \in [Controllers -> SUBSET (0..MaxNodes)]

\* A serial node starts its tasks in order, one at a time: its children are
\* instances of the first tasks, and all but the newest have finished.
SerialInOrder ==
    \A n \in Ids : Exists(node, n) /\ ~node[n].del /\ TypeOf(n) = "serial" =>
        \A c \in Children(node, n) :
            LET older == {d \in Children(node, n) : d < c} IN
            /\ node[c].tmpl = Tasks(n)[Cardinality(older) + 1]
            /\ \A d \in older : WorkflowNodeFinished(node[d])

\* A failed creation made a parallel node start its tasks again, and what it deleted
\* for that is still there or is still counted.
Recounts(n) ==
    \/ \E c \in Children(node, n) : node[c].del
    \/ \E c \in node[n].fin : ~Exists(node, c)

\* A node that is accomplished has, for each of its tasks, a child that has
\* finished, though the list of them was read before the status was written.
AccomplishedMeansDone ==
    \A n \in Ids : Exists(node, n) /\ node[n].acc /\ ~Recounts(n) =>
        \A i \in DOMAIN Tasks(n) :
            \E c \in FinishedChildren(node, n) : node[c].tmpl = Tasks(n)[i]

\* A node that has finished stays so, whichever controller writes its status next.
FinishedStays ==
    [][\A n \in Ids : Exists(node, n) /\ WorkflowNodeFinished(node[n]) /\ ~Recounts(n)
                      => WorkflowNodeFinished(node[n])' \/ ~Exists(node, n)']_vars

\* The deadline of c or of the node above it has passed, or the workflow is aborted.
ToStop(c) ==
    /\ Exists(node, c)
    /\ \/ c \in late
       \/ node[c].parent # 0 /\ Exists(node, node[c].parent) /\ node[node[c].parent].dl
       \/ wf.abort

\* Deadlines and aborts take effect all the way down, on nodes too that are created
\* while they are being propagated.
StopsReach == []<>(\A c \in Ids : ToStop(c) => WorkflowNodeFinished(node[c]))

\* Whatever the cache did not show in time, there is one entry node in the end, and
\* once it has finished the workflow is reported accomplished.
EntryIsReported ==
    []<>(\E n \in Ids : Children(node, 0) = {n} /\ (WorkflowNodeFinished(node[n]) => wf.acc))

\* "cleaning up except first one": of several entry nodes one is always kept.
EntryKept ==
    Children(node, 0) # {} => \E n \in Children(node, 0) : ~node[n].del
================================================================================
