----------------------------- MODULE RemoteCluster -----------------------------
(***************************************************************************)
(* The controller of RemoteCluster objects                                 *)
(* (controllers/multicluster/remotecluster): for the object of one name it *)
(* installs Chaos Mesh in the remote cluster with Helm, has the registry   *)
(* run a manager with the kubeconfig that a Secret holds, reports both in  *)
(* the status, and takes both back before it lets a deleted object go.     *)
(*                                                                         *)
(* The calls of the registry are those of module ManagerRegistry, seen by  *)
(* their only caller: a manager runs or not, and a shutdown that failed    *)
(* leaves the name broken.  A release has its place, the namespace of a    *)
(* cluster: Helm looks where the specification and the secret point now.   *)
(* "rcview" is what a Get returns: it shows what the controller has        *)
(* written, and lags behind what users do.                                 *)
(***************************************************************************)
EXTENDS Naturals

CONSTANT
    Scenarios   \* how things start (settled: the cluster is set up; native: an experiment
                \* of the remote cluster has the name), and bounds on what happens:
                \* clusters made, edits and deletions of them, changes of the secret
                \* (moves: also to one of another cluster), failures, restarts;
                \* experiments, touches of them by others, and interference with
                \* their copies

VARIABLES
    left,      \* what is left of the bounds
    rc,        \* the object in the API server
    rcview,    \* as the controller reads it
    cq,        \* it is in the queue of the controller
    cwork,     \* what the controller is at
    secret,    \* the kubeconfig: "none", "bad" (not usable), or one of the good ones
    site,      \* the cluster that the last good kubeconfig points to
    helm,      \* the specification that is installed in each place
    manager,   \* the kubeconfig of the manager that runs, or "none"
    broken,    \* the registry has recorded that a shutdown failed
    moved      \* namespaces and clusters it pointed to before (history, for a property only)

registry == <<manager, broken>>
sites == <<secret, site, moved>>
clusterVars == <<rc, rcview, cq, cwork, sites, helm, registry>>

Good == {"k1", "k2", "k3"}
Site == [k1 |-> "east", k2 |-> "east", k3 |-> "west"]
Namespaces == {"a", "b"}
Places == {"east", "west"} \X Namespaces
Idle == [pc |-> "idle"]
NoHelm == <<0, 0>>
NoCluster == [uid |-> 0, gen |-> 0, del |-> FALSE, fin |-> FALSE, obs |-> 0, ready |-> FALSE,
              inst |-> FALSE, ns |-> "a"]
NewCluster(u) == [NoCluster EXCEPT !.uid = u, !.gen = 1]
NoReleases == [p \in Places |-> NoHelm]

ClusterInit ==
    \E s \in Scenarios :
        /\ left = s
        /\ IF s.settled
           THEN /\ rc = [NewCluster(1) EXCEPT !.fin = TRUE, !.obs = 1, !.ready = TRUE,
                                               !.inst = TRUE]
                /\ helm = [NoReleases EXCEPT ![<<"east", "a">>] = <<1, 1>>]
                /\ manager = "k1"
           ELSE rc = NoCluster /\ helm = NoReleases /\ manager = "none"
        /\ rcview = rc /\ cq = FALSE /\ cwork = Idle
        /\ secret = "k1" /\ site = "east" /\ broken = FALSE /\ moved = {}

Spend(what) == left[what] > 0 /\ left' = [left EXCEPT ![what] = @ - 1]
CAt(pc) == cwork.pc = pc
CGo(pc) == cwork' = [cwork EXCEPT !.pc = pc]
CDone == cwork' = Idle
CRequeue == CDone /\ cq' = TRUE

\* A write of the object as it was read, which succeeds if that is the latest; nothing is
\* written that does not change.
CPut(o) ==
    IF o = rcview THEN UNCHANGED <<rc, rcview>>
    ELSE /\ rcview = rc
         /\ rc' = IF o.del /\ ~o.fin THEN NoCluster ELSE o
         /\ rcview' = o

\* It fails: with a conflict, in the end, or because the object is gone, or for any reason.
CPutFails(o) ==
    /\ \/ o # rcview /\ rcview # rc /\ UNCHANGED left
       \/ Spend("faults")
    /\ UNCHANGED <<rc, rcview>>

--------------------------------------------------------------------------------
(* A live object.                                                          *)

\* Mutant: what is installed stays as it is.
ToHelmFirst(o, w) == [w EXCEPT !.pc = IF o.obs = 0 THEN "helm" ELSE "ensure"]

ToHelm(o, w) == [w EXCEPT !.pc = IF o.gen > o.obs THEN "helm" ELSE "ensure"]

\* Reconcile up to the first thing it changes.
CGet ==
    LET w == [pc |-> "", snap |-> rcview, key |-> secret] IN
    /\ cwork = Idle /\ cq /\ cq' = FALSE
    /\ cwork' = CASE rcview = NoCluster -> Idle
                  [] rcview.del -> [w EXCEPT !.pc = "deleting"]
                  [] ~rcview.del /\ rcview.fin /\ secret # "none" -> ToHelm(rcview, w)
                  [] rcview.uid > 0 /\ ~rcview.del /\ ~rcview.fin /\ secret \in Good ->
                        [w EXCEPT !.pc = "addfin"]
                  [] OTHER -> [w EXCEPT !.pc = "notready"]
    /\ UNCHANGED <<left, rc, rcview, sites, helm, registry>>

SameSpec(o) == rcview.uid = o.uid /\ rcview.gen = o.gen

CAddFinalizer ==
    /\ CAt("addfin")
    /\ \/ /\ rcview # NoCluster /\ (rcview.del \/ ~SameSpec(cwork.snap))
          /\ CRequeue /\ UNCHANGED <<left, rc, rcview>>
       \/ /\ rcview # NoCluster /\ ~rcview.del /\ SameSpec(cwork.snap)
          /\ \/ /\ CPut([rcview EXCEPT !.fin = TRUE]) /\ UNCHANGED left
                /\ cwork' = ToHelm(rcview, cwork) /\ cq' = TRUE
             \/ CPutFails([rcview EXCEPT !.fin = TRUE]) /\ CGo("notready") /\ UNCHANGED cq
       \/ rcview = NoCluster /\ CGo("notready") /\ UNCHANGED <<left, rc, rcview, cq>>
    /\ UNCHANGED <<sites, helm, registry>>

\* Where Helm looks for the release.
Place == <<Site[cwork.key], cwork.snap.ns>>

\* Install, or upgrade what is there; an error may come after the fact.
CHelm ==
    LET new == <<cwork.snap.uid, cwork.snap.gen>> IN
    /\ CAt("helm")
    /\ \/ /\ cwork.key \in Good
          /\ \/ helm' = [helm EXCEPT ![Place] = new] /\ CGo("ensure") /\ UNCHANGED left
             \/ /\ helm' \in {helm, [helm EXCEPT ![Place] = new]}
                /\ Spend("faults") /\ CGo("notready")
       \/ cwork.key \notin Good /\ CGo("notready") /\ UNCHANGED <<left, helm>>
    /\ UNCHANGED <<rc, rcview, cq, sites, registry>>

\* Ensure: an equal kubeconfig is left running, another one replaces it.  The new
\* manager may fail to start and is cleaned up, or the cleanup or the shutdown of the
\* old one fails too, with the manager running or not; that error is recorded, and
\* returned from then on.
CEnsure ==
    /\ CAt("ensure")
    /\ \/ /\ cwork.key \in Good /\ ~broken /\ manager' = cwork.key
          /\ CGo("status") /\ UNCHANGED <<left, broken>>
       \/ /\ cwork.key \in Good \ {manager} /\ ~broken /\ Spend("faults")
          /\ \/ manager' = "none" /\ broken' \in BOOLEAN
             \/ manager # "none" /\ manager' = manager /\ broken' = TRUE
          /\ CGo("notready")
       \/ (cwork.key \notin Good \/ broken) /\ CGo("notready") /\ UNCHANGED <<left, registry>>
    /\ UNCHANGED <<rc, rcview, cq, sites, helm>>

--------------------------------------------------------------------------------
(* The status.                                                             *)

Matches(o) ==
    rcview # NoCluster /\ SameSpec(o) /\ rcview.del = o.del /\ rcview.obs <= o.gen

\* Mutant: the next generation is reported.
ReadyStatusNext(o, gen) == [o EXCEPT !.obs = gen + 1, !.inst = TRUE, !.ready = TRUE]

ReadyStatus(o, gen) == [o EXCEPT !.obs = gen, !.inst = TRUE, !.ready = TRUE]

CStatus ==
    /\ CAt("status")
    /\ \/ /\ Matches(cwork.snap) /\ CPut(ReadyStatus(rcview, cwork.snap.gen)) /\ CDone
          /\ cq' = (cq \/ rcview' # rcview) /\ UNCHANGED left
       \/ Matches(cwork.snap) /\ CPutFails(ReadyStatus(rcview, cwork.snap.gen)) /\ CRequeue
       \/ ~Matches(cwork.snap) /\ CRequeue /\ UNCHANGED <<left, rc, rcview>>
    /\ UNCHANGED <<sites, helm, registry>>

\* Mutant: nothing follows a failed setup.
CNotReadyOnce ==
    /\ CAt("notready")
    /\ \/ Matches(cwork.snap) /\ CPut([rcview EXCEPT !.ready = FALSE]) /\ UNCHANGED left
       \/ Matches(cwork.snap) /\ CPutFails([rcview EXCEPT !.ready = FALSE])
       \/ ~Matches(cwork.snap) /\ UNCHANGED <<left, rc, rcview>>
    /\ CDone
    /\ UNCHANGED <<cq, sites, helm, registry>>

CNotReady ==
    /\ CAt("notready")
    /\ \/ Matches(cwork.snap) /\ CPut([rcview EXCEPT !.ready = FALSE]) /\ UNCHANGED left
       \/ Matches(cwork.snap) /\ CPutFails([rcview EXCEPT !.ready = FALSE])
       \/ ~Matches(cwork.snap) /\ UNCHANGED <<left, rc, rcview>>
    /\ CRequeue
    /\ UNCHANGED <<sites, helm, registry>>

--------------------------------------------------------------------------------
(* A deleted object.                                                       *)

CDeleting ==
    /\ CAt("deleting")
    /\ \/ /\ Matches(cwork.snap) /\ CPut([rcview EXCEPT !.ready = FALSE]) /\ CGo("stop")
          /\ cq' = (cq \/ rcview' # rcview) /\ UNCHANGED left
       \* The failure is remembered for the end.
       \/ /\ Matches(cwork.snap) /\ CPutFails([rcview EXCEPT !.ready = FALSE])
          /\ CGo("stop") /\ cq' = TRUE
       \/ ~Matches(cwork.snap) /\ CRequeue /\ UNCHANGED <<left, rc, rcview>>
    /\ UNCHANGED <<sites, helm, registry>>

\* Stop: an error of the shutdown is recorded and returned by every later Stop.
CStop ==
    /\ CAt("stop")
    /\ \/ /\ ~broken /\ manager' = "none" /\ UNCHANGED <<left, broken>>
          /\ \/ ~cwork.snap.fin /\ CDone /\ UNCHANGED cq
             \/ cwork.snap.fin /\ secret = "none" /\ CRequeue
             \/ /\ cwork.snap.fin /\ secret # "none"
                /\ cwork' = [cwork EXCEPT !.pc = "uninstall", !.key = secret] /\ UNCHANGED cq
       \/ /\ ~broken /\ manager # "none" /\ Spend("faults") /\ CRequeue
          /\ manager' \in {manager, "none"} /\ broken' = TRUE
       \/ broken /\ CRequeue /\ UNCHANGED <<left, registry>>
    /\ UNCHANGED <<rc, rcview, sites, helm>>

Removed == [helm EXCEPT ![Place] = NoHelm]

\* Mutant: a release that cannot be removed is left.
CUninstallAnyway ==
    /\ CAt("uninstall")
    /\ \/ cwork.key \in Good /\ helm' = Removed /\ UNCHANGED left
       \/ cwork.key \in Good /\ helm' \in {helm, Removed} /\ Spend("faults")
       \/ cwork.key \notin Good /\ UNCHANGED <<left, helm>>
    /\ CGo("uninstalled") /\ UNCHANGED <<rc, rcview, cq, sites, registry>>

\* The release is looked for where the object points now; none there is no error.
CUninstall ==
    /\ CAt("uninstall")
    /\ \/ cwork.key \in Good /\ helm' = Removed /\ CGo("uninstalled") /\ UNCHANGED <<left, cq>>
       \/ cwork.key \in Good /\ helm' \in {helm, Removed} /\ Spend("faults") /\ CRequeue
       \/ cwork.key \notin Good /\ CRequeue /\ UNCHANGED <<left, helm>>
    /\ UNCHANGED <<rc, rcview, sites, registry>>

CUninstalled ==
    /\ CAt("uninstalled")
    /\ \/ /\ Matches(cwork.snap) /\ CPut([rcview EXCEPT !.inst = FALSE, !.ready = FALSE])
          /\ CGo("release") /\ cq' = (cq \/ rcview' # rcview) /\ UNCHANGED left
       \/ /\ Matches(cwork.snap) /\ CRequeue
          /\ CPutFails([rcview EXCEPT !.inst = FALSE, !.ready = FALSE])
       \/ ~Matches(cwork.snap) /\ CRequeue /\ UNCHANGED <<left, rc, rcview>>
    /\ UNCHANGED <<sites, helm, registry>>

CRelease ==
    LET same == rcview # NoCluster /\ SameSpec(cwork.snap) /\ rcview.del IN
    /\ CAt("release")
    /\ \/ /\ same /\ CPut([rcview EXCEPT !.fin = FALSE]) /\ CDone
          /\ cq' = (cq \/ rcview' # rcview) /\ UNCHANGED left
       \/ same /\ CPutFails([rcview EXCEPT !.fin = FALSE]) /\ CRequeue
       \/ ~same /\ CRequeue /\ UNCHANGED <<left, rc, rcview>>
    /\ UNCHANGED <<sites, helm, registry>>

--------------------------------------------------------------------------------
(* The surroundings.                                                       *)

\* The informer delivers; that an object is gone comes before that another has its name.
DeliverCluster ==
    /\ rcview # rc
    /\ rcview' = IF rcview.uid \notin {0, rc.uid} THEN NoCluster ELSE rc
    /\ cq' = TRUE
    /\ UNCHANGED <<left, rc, cwork, sites, helm, registry>>

CreateCluster ==
    /\ rc = NoCluster /\ Spend("clusters")
    /\ rc' = NewCluster(left.clusters + 1)
    /\ UNCHANGED <<rcview, cq, cwork, sites, helm, registry>>

\* Also of an object that is being deleted.  Nothing makes spec.namespace immutable.
EditCluster ==
    /\ rc # NoCluster /\ Spend("edits")
    /\ \E ns \in Namespaces :
          /\ rc' = [rc EXCEPT !.gen = @ + 1, !.ns = ns]
          /\ moved' = ((moved \cup {rc.ns}) \ {ns}) \cup (IF rc.fin THEN {} ELSE moved)
    /\ UNCHANGED <<rcview, cq, cwork, secret, site, helm, registry>>

\* Kubernetes counts a deletion as a change of the specification.
DeleteCluster ==
    /\ rc # NoCluster /\ ~rc.del /\ Spend("drops")
    /\ rc' = IF rc.fin THEN [rc EXCEPT !.del = TRUE, !.gen = @ + 1] ELSE NoCluster
    /\ UNCHANGED <<rcview, cq, cwork, sites, helm, registry>>

\* The watch on secrets finds the clusters that name it.
ChangeSecret ==
    /\ Spend("secrets")
    /\ secret' \in (Good \cup {"none", "bad"}) \ {secret}
    /\ secret' \in Good /\ Site[secret'] # site => left.moves
    /\ site' = IF secret' \in Good THEN Site[secret'] ELSE site
    /\ moved' = moved \cup ({site} \ {site'})
    /\ cq' = (cq \/ rcview # NoCluster)
    /\ UNCHANGED <<rc, rcview, cwork, helm, registry>>

\* The process starts again: the managers of the registry, and its errors, are gone.
Restart ==
    /\ Spend("restarts")
    /\ rcview' = rc /\ cq' = (rc # NoCluster) /\ CDone
    /\ manager' = "none" /\ broken' = FALSE
    /\ UNCHANGED <<rc, sites, helm>>

Reconcile ==
    \/ CGet \/ CAddFinalizer \/ CHelm \/ CEnsure \/ CStatus \/ CNotReady
    \/ CDeleting \/ CStop \/ CUninstall \/ CUninstalled \/ CRelease

ClusterNext ==
    \/ Reconcile \/ DeliverCluster
    \/ CreateCluster \/ EditCluster \/ DeleteCluster \/ ChangeSecret

--------------------------------------------------------------------------------
(* Properties.                                                             *)

\* A release or a manager is there only under an object that holds the finalizer: when
\* an object is gone, whatever happened at the same time, Helm cleanup is complete.
\* Excepted are releases in a namespace or a cluster the object pointed to before
\* spec.namespace was edited or the secret changed: these are left there.
NothingBehind ==
    \/ manager # "none"
    \/ \E p \in Places : helm[p] # NoHelm /\ {p[1], p[2]} \cap moved = {}
    => rc # NoCluster /\ rc.fin

\* "removes only the owned finalizer after cleanup succeeds" (clusterregistry/README.md):
\* when the object is gone no release is left, in whichever place.
NoReleaseLeft == rc = NoCluster => helm = NoReleases

\* The current specification is installed in its namespace, of whichever cluster.
Installed == \E p \in Places : p[2] = rc.ns /\ helm[p] = <<rc.uid, rc.gen>>

\* Ready for the current specification means that this one is installed, though the
\* object may have been changed or replaced while Helm ran.
ReadyIsInstalled == rc.ready /\ rc.obs = rc.gen /\ ~rc.del => Installed

\* With a usable secret, the object goes if it is deleted, and otherwise becomes ready
\* with its specification installed and the manager running on the current kubeconfig,
\* unless the shutdown of a manager has failed: Ensure and Stop then return its error
\* until the process starts again.
ClusterSettles ==
    []<>(\/ secret \notin Good \/ rc = NoCluster \/ broken
         \/ /\ ~rc.del /\ rc.ready /\ rc.obs = rc.gen
            /\ Installed /\ manager = secret)
================================================================================
