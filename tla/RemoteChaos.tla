------------------------------ MODULE RemoteChaos ------------------------------
(***************************************************************************)
(* An experiment that is to run in a remote cluster.  remotechaos, the     *)
(* forwarder, creates and deletes its copy there, with a live client it    *)
(* borrows from the registry.  remotechaosmonitor, which runs in the       *)
(* manager of the remote cluster, brings the finalizers and the status of  *)
(* the copy back, removes the experiment when its copy is gone and a copy  *)
(* whose experiment is gone; it reads caches of both clusters.  The cache  *)
(* of the management cluster shows what the two have written.              *)
(*                                                                         *)
(* All experiments here have the same name and, as specifications do not   *)
(* change, each has its target for good.  In scenarios with experiments    *)
(* the secret always names the same cluster.  What the controllers of the  *)
(* remote cluster do with the copy is module ChaosPipeline.                *)
(***************************************************************************)
EXTENDS RemoteCluster

VARIABLES
    loc,       \* the experiment in the management cluster
    lview,     \* as both controllers read it
    rem,       \* the object of that name in the remote cluster
    rview,     \* as the monitor reads it
    fq, fwork, \* the forwarder: its queue, and what it is at
    mq, mwork, \* the monitor
    uids,      \* how many objects there were
    foreign,   \* someone else has deleted or taken over a copy
    again,     \* there has been more than one experiment
    missed     \* the monitor has last left a copy alone because its experiment went away
               \* meanwhile, or because another, for another cluster, has the name

chaosVars == <<loc, lview, rem, rview, fq, fwork, mq, mwork, uids, foreign, again, missed>>
vars == <<left, clusterVars, chaosVars>>

NoLocal == [uid |-> 0, here |-> FALSE, del |-> FALSE, fin |-> FALSE, inj |-> FALSE, note |-> FALSE]
NoRemote == [uid |-> 0, owned |-> FALSE, del |-> FALSE, fin |-> FALSE, inj |-> FALSE]

Init ==
    /\ ClusterInit
    /\ loc = NoLocal /\ lview = NoLocal
    /\ rem = IF left.native THEN [NoRemote EXCEPT !.uid = 1] ELSE NoRemote
    /\ rview = rem /\ fq = FALSE /\ mq = FALSE /\ fwork = Idle /\ mwork = Idle
    /\ uids = 1 /\ foreign = FALSE /\ again = FALSE /\ missed = FALSE

\* The marks of a deletion, and what an update without finalizers leaves of a marked one.
Deleted(o, none) == IF o.fin THEN [o EXCEPT !.del = TRUE] ELSE none
Kept(o, none) == IF o.del /\ ~o.fin THEN none ELSE o

\* An update of the experiment as it was read.
LPut(o) ==
    /\ lview = loc /\ loc' = Kept(o, NoLocal) /\ lview' = o
    /\ fq' = (fq \/ o # loc)
LGone == loc.uid # lview.uid
LConflict == loc.uid = lview.uid /\ loc # lview

--------------------------------------------------------------------------------
(* The forwarder.                                                          *)

FGo(w) == fwork' = w
FAgain == FGo(Idle) /\ fq' = TRUE

\* The experiment is read and the client borrowed.
FwdGet ==
    /\ fwork = Idle /\ fq
    /\ \/ (lview = NoLocal \/ ~lview.here) /\ fq' = FALSE /\ UNCHANGED fwork
       \/ /\ lview # NoLocal /\ lview.here /\ manager # "none" /\ ~broken /\ fq' = FALSE
          /\ FGo([pc |-> IF lview.del THEN "delget" ELSE "lookup", uid |-> lview.uid, got |-> NoRemote])
    /\ UNCHANGED <<left, clusterVars, loc, lview, rem, rview, mq, mwork, uids, foreign, again, missed>>

\* Mutant: nothing follows an error.
FwdLookupOnce ==
    /\ fwork.pc = "lookup" /\ UNCHANGED fq
    /\ \/ rem = NoRemote /\ FGo([fwork EXCEPT !.pc = "create"]) /\ UNCHANGED left
       \/ rem # NoRemote /\ FGo(Idle) /\ UNCHANGED left
       \/ Spend("faults") /\ FGo(Idle)
    /\ UNCHANGED <<clusterVars, loc, lview, rem, rview, mq, mwork, uids, foreign, again, missed>>

FwdLookup ==
    /\ fwork.pc = "lookup"
    /\ \/ rem = NoRemote /\ FGo([fwork EXCEPT !.pc = "create"]) /\ UNCHANGED <<left, fq>>
       \/ rem # NoRemote /\ FGo(Idle) /\ UNCHANGED <<left, fq>>
       \/ Spend("faults") /\ FAgain
    /\ UNCHANGED <<clusterVars, loc, lview, rem, rview, mq, mwork, uids, foreign, again, missed>>

FwdCreate ==
    /\ fwork.pc = "create"
    /\ \/ /\ rem = NoRemote /\ rem' = [NoRemote EXCEPT !.uid = uids + 1, !.owned = TRUE]
          /\ uids' = uids + 1
          /\ \/ FGo(Idle) /\ UNCHANGED <<left, fq>>
             \/ Spend("faults") /\ FAgain
       \/ rem # NoRemote /\ FAgain /\ UNCHANGED <<left, rem, uids>>
    /\ UNCHANGED <<clusterVars, loc, lview, rview, mq, mwork, foreign, again, missed>>

\* Mutant: the copy is looked up in the cache of the manager.
FwdDelGetCached ==
    /\ fwork.pc = "delget"
    /\ FGo([fwork EXCEPT !.pc = "delete", !.got = rview])
    /\ UNCHANGED <<left, clusterVars, loc, lview, rem, rview, fq, mq, mwork, uids, foreign, again, missed>>

FwdDelGet ==
    /\ fwork.pc = "delget"
    /\ \/ FGo([fwork EXCEPT !.pc = "delete", !.got = rem]) /\ UNCHANGED <<left, fq>>
       \/ Spend("faults") /\ FAgain
    /\ UNCHANGED <<clusterVars, loc, lview, rem, rview, mq, mwork, uids, foreign, again, missed>>

\* The experiment is read again, and let go when there is no copy that is ours.  Unless
\* there is an error the forwarder comes back after a second in any case.
FwdDelete ==
    LET same == lview # NoLocal /\ lview.uid = fwork.uid /\ lview.del IN
    /\ fwork.pc = "delete"
    /\ \/ ~same /\ FAgain /\ UNCHANGED <<left, loc, lview>>
       \/ same /\ fwork.got.owned /\ FGo([fwork EXCEPT !.pc = "remove"])
          /\ UNCHANGED <<left, fq, loc, lview>>
       \/ /\ same /\ ~fwork.got.owned
          /\ \/ (~lview.fin \/ LGone) /\ FAgain /\ UNCHANGED <<left, loc, lview>>
             \/ LConflict /\ FGo([fwork EXCEPT !.pc = "delget"]) /\ UNCHANGED <<left, fq, loc, lview>>
             \/ LPut([lview EXCEPT !.fin = FALSE]) /\ FGo(Idle) /\ UNCHANGED left
             \/ Spend("faults") /\ FAgain /\ UNCHANGED <<loc, lview>>
    /\ UNCHANGED <<clusterVars, rem, rview, mq, mwork, uids, foreign, again, missed>>

\* Mutant: whatever has the name is deleted.
FwdRemoveAny ==
    /\ fwork.pc = "remove"
    /\ rem' = Deleted(rem, NoRemote) /\ FAgain
    /\ UNCHANGED <<left, clusterVars, loc, lview, rview, mq, mwork, uids, foreign, again, missed>>

\* The copy is deleted if it is still the one that was read.
FwdRemove ==
    /\ fwork.pc = "remove" /\ FAgain
    /\ \/ rem = fwork.got /\ rem' = Deleted(rem, NoRemote) /\ UNCHANGED left
       \/ rem # fwork.got /\ UNCHANGED <<left, rem>>
       \/ Spend("faults") /\ UNCHANGED rem
    /\ UNCHANGED <<clusterVars, loc, lview, rview, mq, mwork, uids, foreign, again, missed>>

--------------------------------------------------------------------------------
(* The monitor.                                                            *)

MGo(w) == mwork' = w
MAgain == MGo(Idle) /\ mq' = TRUE

\* Both objects are read.
MonGet ==
    LET to(pc) == [pc |-> pc, uid |-> lview.uid, got |-> rview] IN
    /\ manager # "none" /\ mwork = Idle /\ mq /\ mq' = FALSE
    /\ missed' = (lview # NoLocal /\ ~lview.here /\ rview.owned)
    /\ MGo(IF rview # NoRemote /\ ~rview.owned THEN Idle
           ELSE IF lview = NoLocal THEN IF rview = NoRemote THEN Idle ELSE to("orphan")
           ELSE IF ~lview.here THEN Idle
           ELSE IF rview = NoRemote THEN to("clean")
           ELSE IF lview.fin = rview.fin /\ lview.inj = rview.inj THEN Idle ELSE to("sync"))
    /\ UNCHANGED <<left, clusterVars, loc, lview, rem, rview, fq, fwork, uids, foreign, again>>

\* A copy without an experiment is deleted if it is still the one that was read.
MonOrphan ==
    /\ mwork.pc = "orphan"
    /\ \/ /\ rem = mwork.got /\ rem' = Deleted(rem, NoRemote) /\ MGo(Idle) /\ UNCHANGED <<left, mq>>
       \/ rem = NoRemote /\ MGo(Idle) /\ UNCHANGED <<left, mq, rem>>
       \/ rem \notin {mwork.got, NoRemote} /\ MAgain /\ UNCHANGED <<left, rem>>
       \/ Spend("faults") /\ MAgain /\ UNCHANGED rem
    /\ UNCHANGED <<clusterVars, loc, lview, rview, fq, fwork, uids, foreign, again, missed>>

\* The finalizers of an experiment without a copy are removed ...
MonClean ==
    LET same == lview # NoLocal /\ lview.uid = mwork.uid IN
    /\ mwork.pc = "clean"
    /\ \/ (~same \/ rview # NoRemote) /\ MGo(Idle) /\ UNCHANGED <<left, mq, loc, lview, fq>>
       \/ /\ same /\ rview = NoRemote
          /\ \/ LGone /\ MGo(Idle) /\ UNCHANGED <<left, mq, loc, lview, fq>>
             \/ LPut([lview EXCEPT !.fin = FALSE])
                /\ MGo([mwork EXCEPT !.pc = "drop"]) /\ UNCHANGED <<left, mq>>
             \/ LConflict /\ MAgain /\ UNCHANGED <<left, loc, lview, fq>>
             \/ Spend("faults") /\ MAgain /\ UNCHANGED <<loc, lview, fq>>
    /\ UNCHANGED <<clusterVars, rem, rview, fwork, uids, foreign, again, missed>>

\* ... and it is deleted, unless it has changed since.
MonDrop ==
    /\ mwork.pc = "drop"
    /\ \/ LGone /\ MGo(Idle) /\ UNCHANGED <<left, mq, loc>>
       \/ LConflict /\ MGo([mwork EXCEPT !.pc = "clean"]) /\ UNCHANGED <<left, mq, loc>>
       \/ loc = lview /\ loc' = Deleted(loc, NoLocal) /\ MGo(Idle) /\ UNCHANGED <<left, mq>>
       \/ Spend("faults") /\ MAgain /\ UNCHANGED loc
    /\ UNCHANGED <<clusterVars, lview, rem, rview, fq, fwork, uids, foreign, again, missed>>

\* Mutant: a failed update is not tried again.
MonSyncOnce ==
    LET same == /\ lview # NoLocal /\ lview.uid = mwork.uid
                /\ rview.uid = mwork.got.uid /\ rview.owned IN
    /\ mwork.pc = "sync"
    /\ missed' = (lview.uid # mwork.uid)
    /\ \/ ~same /\ UNCHANGED <<left, loc, lview, fq>>
       \/ same /\ LPut([lview EXCEPT !.fin = rview.fin, !.inj = rview.inj]) /\ UNCHANGED left
       \/ same /\ (LGone \/ LConflict) /\ UNCHANGED <<left, loc, lview, fq>>
       \/ same /\ Spend("faults") /\ UNCHANGED <<loc, lview, fq>>
    /\ MGo(Idle)
    /\ UNCHANGED <<mq, clusterVars, rem, rview, fwork, uids, foreign, again>>

\* The finalizers and the status of the copy are written to the experiment.
MonSync ==
    LET same == /\ lview # NoLocal /\ lview.uid = mwork.uid
                /\ rview.uid = mwork.got.uid /\ rview.owned IN
    /\ mwork.pc = "sync"
    /\ missed' = (lview.uid # mwork.uid)
    /\ \/ ~same /\ MGo(Idle) /\ UNCHANGED <<left, mq, loc, lview, fq>>
       \/ same /\ LPut([lview EXCEPT !.fin = rview.fin, !.inj = rview.inj])
          /\ MGo(Idle) /\ UNCHANGED <<left, mq>>
       \/ same /\ (LGone \/ LConflict) /\ MAgain /\ UNCHANGED <<left, loc, lview, fq>>
       \/ same /\ Spend("faults") /\ MAgain /\ UNCHANGED <<loc, lview, fq>>
    /\ UNCHANGED <<clusterVars, rem, rview, fwork, uids, foreign, again>>

--------------------------------------------------------------------------------
(* The surroundings.                                                       *)

\* The monitor starts when a manager does, with the copy there is.
MonitorRestarts ==
    /\ mwork' = Idle /\ missed' = FALSE /\ rview' = rem /\ mq' = rem.owned
    /\ UNCHANGED <<loc, lview, rem, fq, fwork, uids, foreign, again>>

\* Steps of the controller of the cluster; a manager is stopped, or fails to stop, when
\* no client is borrowed.
ClusterStep ==
    /\ ClusterNext
    /\ registry' # registry /\ manager # "none" => fwork = Idle
    /\ IF manager' = manager THEN UNCHANGED chaosVars ELSE MonitorRestarts

ProcessRestarts ==
    /\ Restart
    /\ missed' = FALSE /\ mwork' = Idle /\ fwork' = Idle /\ rview' = rem /\ mq' = FALSE
    /\ lview' = loc /\ fq' = loc.here
    /\ UNCHANGED <<loc, rem, uids, foreign, again>>

DeliverLocal ==
    /\ lview # loc
    /\ lview' = IF lview.uid \notin {0, loc.uid} THEN NoLocal ELSE loc
    /\ fq' = (fq \/ lview.here \/ loc.here)
    /\ UNCHANGED <<left, clusterVars, loc, rem, rview, fwork, mq, mwork, uids, foreign, again, missed>>

\* The predicate of the monitor looks at the object as it is now, or was last.
DeliverRemote ==
    LET next == IF rview.uid \notin {0, rem.uid} THEN NoRemote ELSE rem IN
    /\ manager # "none" /\ rview # rem
    /\ rview' = next
    /\ mq' = (mq \/ IF next = NoRemote THEN rview.owned ELSE next.owned)
    /\ UNCHANGED <<left, clusterVars, loc, lview, rem, fq, fwork, mwork, uids, foreign, again, missed>>

\* A user creates the experiment, for this cluster or for another.
CreateChaos ==
    /\ loc = NoLocal /\ Spend("chaos")
    /\ \E here \in BOOLEAN : loc' = [NoLocal EXCEPT !.uid = uids + 1, !.here = here]
    /\ uids' = uids + 1 /\ again' = (lview # NoLocal \/ uids > 1)
    /\ UNCHANGED <<clusterVars, lview, rem, rview, fq, fwork, mq, mwork, foreign, missed>>

DeleteChaos ==
    /\ loc # NoLocal /\ ~loc.del
    /\ loc' = Deleted(loc, NoLocal)
    /\ UNCHANGED <<left, clusterVars, lview, rem, rview, fq, fwork, mq, mwork, uids, foreign, again, missed>>

\* Others write the experiment, say an annotation.
TouchChaos ==
    /\ loc # NoLocal /\ ~loc.note /\ Spend("touches")
    /\ loc' = [loc EXCEPT !.note = TRUE]
    /\ UNCHANGED <<clusterVars, lview, rem, rview, fq, fwork, mq, mwork, uids, foreign, again, missed>>

\* The pipeline is installed in the cluster of the experiments.
Piped == \E ns \in Namespaces : helm[<<"east", ns>>] # NoHelm

\* The pipeline of the remote cluster, while it is installed.
RunRemote ==
    /\ Piped
    /\ \/ rem # NoRemote /\ ~rem.del /\ ~rem.fin /\ rem' = [rem EXCEPT !.fin = TRUE]
       \/ rem.fin /\ ~rem.del /\ ~rem.inj /\ rem' = [rem EXCEPT !.inj = TRUE]
       \/ rem.del /\ rem.inj /\ rem' = [rem EXCEPT !.inj = FALSE]
       \/ rem.del /\ ~rem.inj /\ rem' = NoRemote
    /\ UNCHANGED <<left, clusterVars, loc, lview, rview, fq, fwork, mq, mwork, uids, foreign, again, missed>>

\* Users of the remote cluster delete the copy, take it over or take its name.
Interfere ==
    /\ Spend("foreign") /\ foreign' = TRUE
    /\ \/ rem # NoRemote /\ ~rem.del /\ rem' = Deleted(rem, NoRemote) /\ UNCHANGED uids
       \/ rem.owned /\ rem' = [rem EXCEPT !.owned = FALSE] /\ UNCHANGED uids
       \/ rem = NoRemote /\ rem' = [NoRemote EXCEPT !.uid = uids + 1] /\ uids' = uids + 1
    /\ UNCHANGED <<clusterVars, loc, lview, rview, fq, fwork, mq, mwork, again, missed>>

--------------------------------------------------------------------------------
FwdNext == FwdGet \/ FwdLookup \/ FwdCreate \/ FwdDelGet \/ FwdDelete \/ FwdRemove
MonNext == MonGet \/ MonOrphan \/ MonClean \/ MonDrop \/ MonSync
Deliver == DeliverLocal \/ DeliverRemote

Next ==
    \/ ClusterStep \/ ProcessRestarts
    \/ FwdNext \/ MonNext \/ Deliver
    \/ CreateChaos \/ DeleteChaos \/ TouchChaos \/ RunRemote \/ Interfere

Spec == Init /\ [][Next]_vars

\* Controllers run, informers deliver and the remote pipeline goes on.  Nothing is
\* assumed of users and of failures.  Stopping a manager is not put off for ever, as the
\* registry lends no client once it has begun.
FairSpec ==
    /\ Spec
    /\ SF_vars(ClusterStep /\ Reconcile) /\ WF_vars(ClusterStep /\ DeliverCluster)
    /\ WF_vars(FwdNext) /\ WF_vars(MonNext) /\ WF_vars(RunRemote)
    /\ WF_vars(DeliverLocal) /\ WF_vars(DeliverRemote)

--------------------------------------------------------------------------------
(* Properties.                                                             *)

\* What the variables hold.
TypeOK ==
    /\ helm \in [Places -> {NoHelm} \cup (1..3) \X (1..4)]
    /\ manager \in Good \cup {"none"} /\ broken \in BOOLEAN /\ moved \subseteq {"east", "west"} \cup Namespaces
    /\ \A o \in {rc, rcview} : o.uid \in 0..3 /\ o.obs <= o.gen
    /\ {loc.uid, lview.uid, rem.uid, rview.uid} \subseteq 0..uids
    /\ {loc.fin, loc.inj, loc.del, rem.fin, rem.inj, rem.del, fq, mq} \subseteq BOOLEAN
    /\ \A o \in {loc, rem} : o.uid # 0 /\ o.del => o.fin
    /\ fwork.pc \in {"idle", "lookup", "create", "delget", "delete", "remove"}
    /\ mwork.pc \in {"idle", "orphan", "clean", "drop", "sync"}

\* An experiment keeps the finalizers it got from its copy until the remote cluster has
\* none that the forwarder owns, however the controllers and their caches are timed.  The
\* forwarder keeps to this always; the monitor relies on its cache, which misses a copy
\* that was created again, so it does unless others deleted the copy or the name is used
\* again.
FinalizersHeld ==
    [][loc.fin /\ (loc'.uid # loc.uid \/ ~loc'.fin) /\ (FwdNext \/ ~(foreign \/ again))
          => ~rem.owned]_vars

\* The forwarder and the monitor leave an object alone that is not, or no longer, a copy.
UnownedUntouched ==
    [][rem # NoRemote /\ ~rem.owned /\ (FwdNext \/ MonNext) => rem' = rem]_vars

Works == manager # "none" /\ Piped

\* With the manager running and the remote pipeline installed, a copy whose experiment
\* is gone goes too, though neither controller is told of its end; unless the monitor
\* left it alone when it last looked, which it does without an error.
CopiesGo == []<>(Works /\ loc = NoLocal /\ ~missed => ~rem.owned)

\* So do deleted experiments, and the others get a copy and come to show its state, as
\* long as the registry lends its client.
ExperimentSettles ==
    []<>(Works /\ ~broken /\ loc.here /\ ~missed =>
            /\ ~loc.del
            /\ \/ foreign
               \/ rem # NoRemote /\ ~rem.owned
               \/ rem.owned /\ loc.fin = rem.fin /\ loc.inj = rem.inj)
================================================================================
