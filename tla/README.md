# A TLA+ model of Chaos Mesh

Chaos Mesh injects faults into the pods, containers and nodes of a Kubernetes
cluster.  This directory holds TLA+ models of its concurrent parts, the TLC
configurations that check them on small instances, and TLAPS proofs of the most
important properties for all instances.  `PROJECT.json` lists the components,
the runs, the source lines each definition models, the hazards and the theorems.

## The system and its parts

| Part | Where | State | Operations | Interacts with | Model |
|---|---|---|---|---|---|
| Chaos pipeline | `controllers/common` | finalizer, desired phase, conditions, records | the five steps of a reconciliation | client, chaos implementations | `ChaosPipeline` |
| Updated client | `cmd/chaos-controller-manager/provider` | LRU cache of written objects | Get, Update, status Update | informer, API server, every reconciler | `UpdatedClient` |
| Status checks | `controllers/statuscheck` | workers and results per check, status | reconcile, add, complete, delete; the worker loop | API server, the checked service, workflow | `StatusCheck` |
| TimeChaos | `controllers/chaosimpl/timechaos`, `pkg/chaosdaemon/tasks`, `pkg/time` | locks, task maps, replaced code | set, recover | pipeline, container runtime, processes | `TimeTasks` |
| NetworkChaos | `controllers/chaosimpl/networkchaos`, `controllers/podnetworkchaos` | PodNetworkChaos (one per pod, shared by experiments) | commit a transaction, sync the pod, wait for the generation | pipeline, daemon | `PodNetwork` |
| Schedules | `controllers/schedule` | last run, jobs of a schedule | cron, active, gc, pause | pipeline, workflows (through objects) | `Schedule` |
| Workflows | `pkg/workflow/controllers` | tree of nodes, conditions | entry, serial, parallel, deadline, abort; task, chaos and status check nodes | experiments, schedules, status checks | `Workflow`, in part |
| Cluster registry | `controllers/multicluster/clusterregistry` | managers by name, gate, goroutines | Ensure, Spawn, Stop, WithClient | remote clusters, multicluster controllers | `ClusterRegistry`, `ManagerRegistry` |
| Multicluster controllers | `controllers/multicluster/remote*` | RemoteCluster, Helm release, experiments and their copies | set up, delete; forward, monitor | registry, remote API servers, pipeline | `RemoteCluster`, `RemoteChaos` |
| Background processes | `pkg/bpm` | process and identifier maps, death channel | start, kill, reap, shut down | daemon servers | no |
| PodIOChaos, PodHttpChaos | `controllers/podiochaos`, `controllers/podhttpchaos` | as PodNetworkChaos | as above, one call | daemon | no |
| Other implementations | `controllers/chaosimpl` | none of their own | Apply, Recover | daemon, Kubernetes, clouds | a call in `ChaosPipeline` |
| Other daemon servers | `pkg/chaosdaemon` | namespaces of processes | commands | implementations | no |
| Selectors | `pkg/selector` | none | queries | pipeline | an input |
| Dashboard, client pool | `pkg/dashboard`, `pkg/clientpool` | database | web API | API server | no |
| Webhooks, API types, generated client, commands, tests | `api`, `pkg/webhook`, `pkg/client`, `cmd`, `e2e-test` | none | validation, wiring | | no |

What is hard here is the same everywhere: a step reads an object that is already
old, acts on the world, and writes back what it believes; writes conflict or
fail, calls are carried out without an answer, the manager restarts in between,
and everything is tried again.  The models therefore separate reads, side
effects and writes, and let anything happen between them.

## Modules

Each `MC` module gives values to the constants of the module it is named after.
Definitions whose comment begins with `Mutant` are plausible mistakes; each breaks
a property when it is put in the place of the definition it imitates.

### ChaosPipeline

One experiment and the controller that reconciles it.  `MaxConcurrentReconciles`
is 1, so the controller is one process with a program counter `pc`.  Each step
is a read and a decision (`InitFinalizer`, `DesiredPhase`, `Condition`,
`RecordsSelect` or `RecordsLoad`, `CleanFinalizer`) and then a write that may fail
(`InitWrite` and `InitWriteFails`, likewise `PhaseWrite`, `ConditionWrite`,
`RecordsPersist`, `CleanWrite`).  The loop of the records step is one action per
record and outcome of the implementation (`ApplySucceeds`, `ApplyWaits`,
`RecoverFails`, ...).

- `api` is the object in the API server, `view` what a Get of the client
  returns, and `stale` says that they differ: the resource version is reduced to
  this.  Several undelivered changes are delivered at once, which loses nothing
  because the controller's own writes fail as long as `view` is stale.
- A `write` fault is a write that fails after RetryOnConflict has given up.
- `actual` is the truth about the targets.  `unack` holds targets whose
  injection no persisted record acknowledges: the record write failed, or the
  manager crashed, after the call.
- The loop visits the records in any order, which includes the order of the code.

### UpdatedClient

The client all reconcilers share.  Get reads the informer and then the cache;
Update writes to the API server and then adds to the cache.  Each is two actions.
Calls that pass straight through have no state.  The ghost `lost` is the newest
version of each object that has left the cache: evicted, or overwritten by an older
one that its writer stored late.

### StatusCheck

The reconciler, the manager and the workers for one name, which may be deleted
and created again.  An execution is a success, a failure or an internal error.
A result that is appended between `manager.Get` and `manager.Add` has the same
effect as one appended before, and is covered by `ReconcileKnown`.

### TimeTasks

The controller, the handlers of the daemon, the lock map and the task maps, and
the replaced code of a main process and a child.  A call whose answer is lost
goes on in the daemon while the controller repeats it: two handlers overlap.

- A configuration is an offset; merged ones are the set of their experiments.
- An image has an `entry` (the incarnation of the process it is mapped into),
  the `origin` code it replaced, and its variables.  A function may fail to be
  attached early, or late, when its image is already mapped.
- A restarted container has new processes; until it is reported, the pod shows
  no container, and `Impl.Recover` pretends to have recovered it (`Pretend`).
- A `Skew` that nothing refers to is reused.  `MaxSkews` is large enough that one
  is always free: TLC would stop at `NewSkew` otherwise.
- Ghosts: `promise` is what the last answer the controller heard says of a record.
  A call makes it nothing until the answer comes, so a recovery that was asked for
  and lost leaves it open whether the offset is observed; a call that nobody waits
  for leaves it alone.  `overtaken` are records for which such a call was carried
  out after one of the other kind was acknowledged.  `spoiled` are containers where
  an injection or recovery failed halfway; `orphaned` are containers whose mutex was
  deleted while a handler waited.

### ManagerRegistry and ClusterRegistry

`ManagerRegistry` is what the registry promises: one manager per name, its client
lent to one callback at a time, shut down only when nobody uses it, the name free
only after the shutdown.  `ClusterRegistry` is the code: entries with a gate, the
goroutine that starts a manager and the one that stops it, callers that may give
up at any wait.  `Promise` is the refinement mapping: the phase of a name is
computed from the state of its entry, of its application and of its stop.

### PodNetwork

The experiments on one pod, the worker of their pipeline (`work`), the
PodNetworkChaos object (`pnc`), its reconciler (`rec`) with three calls, and what
is in the network namespace (`kernel`): the chains, the jumps to them, the qdiscs,
all on one device that is not the last interface, and their filters.  A rule is an
experiment with a selector key.  The daemon drops two errors and reports success:
`CallSwallows`.  Ghosts in `note`: a commit carried out and forgotten (`lost`), a status
written for the object of an earlier pod (`crossed`), a failed status write that
nothing repeats (`silent`), what a call left undone without saying so (`swallowed`).

### Workflow

Nodes numbered in the order of their creation, one work queue per controller, a
cache (`view`) that catches up in one step.  A leaf ends only by a deadline or an
abort.  Writing DeadlineExceed = False changes nothing the model tells apart.

### Schedule

Cron, active, gc and pause on one schedule, with timers and a clock in seconds.
None of the four returns errors, so one that happens is dropped (`dropped`), and
a job created whose run was not noted is `slipped`.  The clock waits for nobody: a
reconciliation may go on past the next run.  Conflicts wait for the cache
rather than use up their retries.  The branch of cron for a missed deadline
(`cron/controller.go:79`) is never reached.

### RemoteCluster and RemoteChaos

`RemoteCluster` is the controller of one RemoteCluster: each read, Helm call,
registry call and write is a step.  The registry appears as its caller sees it:
a manager with some kubeconfig runs, or none, and after a failed shutdown the name
is `broken` until the process starts again.  A release is in a place, a namespace
of the cluster that a kubeconfig points to; Helm looks where the specification and
the secret point when it is called, and the ghost `moved` has the namespaces and
clusters they pointed to before.  `RemoteChaos` extends it with the
experiments of one name, the forwarder and the monitor, which lives in the
manager and starts with it; a manager does not stop while the forwarder has
borrowed its client.  The pipeline of the remote cluster is reduced to
`RunRemote`: the finalizer, injection, recovery, release.  A read from a cache
does not fail.  A scenario says how things start and bounds what happens.

## Runs

| Run | Shows |
|---|---|
| `Pipeline` | two targets, a pause, one failing call or crash: the finalizer precedes injection, quiet means converged, release follows recovery, targets are selected once |
| `PipelineLive` | one target: deletion completes, and the duration ends the fault |
| `PipelineOneShot` | two targets, one-shot, also a failing write: a record persisted as injected stays injected until deletion, so its target is not hit again (a call whose record was not persisted is repeated); release follows recovery |
| `UpdatedClient` | two reconcilers that update the same two objects, a cache for one, three versions: reads go back only behind a version that left the cache |
| `StatusCheck` | two incarnations, three workers, a restart, a failed update: one active worker, none for a completed check; elapsed durations complete |
| `TimeTasks` | three interchangeable experiments on a container with a child process, two starts or stops, and any two of a lost answer, a failure and a restart of the container |
| `ClusterRegistry` | two callers, two managers of one name, one failing start or stop: Ensure delivers, the promise is implemented, nobody waits for ever |
| `PodNetwork` | a partition and a traffic control on a pod, one failure, crash, pause or replacement of the pod: experiments keep out of each other, the status tells the truth |
| `PodNetworkLive` | a partition with the pod on both sides: it is injected, and goes when deleted |
| `Workflow` | eight small trees with deadlines, aborts, a failed creation, a restart and two entry nodes: order, completion, that stops reach every node and that the end is reported |
| `Schedule` | eight plans over two or three runs: no run is started twice, runs are met, pauses reach every job |
| `RemoteChaos` | nine scenarios of a cluster that is set up, edited, deleted and made again, and of experiments forwarded to it, with failures, a restart and interference: no release the object points to, manager or copy is left behind, finalizers hold, the cluster settles |

Fourteen further configurations are not among the runs of `PROJECT.json`.  Seven check
more and pass, all but `UpdatedClientRoom.cfg` and `TimeTasksMore.cfg` on the instance
of the run they are named after:

| Configuration | Module | Properties |
|---|---|---|
| `ClusterRegistryMore.cfg` | `MCClusterRegistry` | `TypeOK`, `RunningIsRegistered`, `BorrowedIsLive` (all three are proved), `StopTakesEffect` |
| `PodNetworkMore.cfg` | `MCPodNetwork` | `TypeOK` |
| `WorkflowMore.cfg` | `MCWorkflow` | `TypeOK`, `EntryKept`, `FinishedStays` |
| `ScheduleMore.cfg` | `MCSchedule` | `TypeOK`, `HistoryKept`, `BooksClose` |
| `RemoteChaosMore.cfg` | `MCRemoteChaos` | `TypeOK`, `ReadyIsInstalled`, `UnownedUntouched`, `ExperimentSettles` |
| `TimeTasksMore.cfg` | `MCTimeTasks` | those of the run, with the lost answer, the failure and the restart all in one behaviour (`MaxFaults` = 3, 2.3 million states) |
| `UpdatedClientRoom.cfg` | `MCUpdatedClient` | `NothingLost` (proved), with one writer per object and room for both |

In the other seven TLC finds a property violated, where the code does not do what its
text says:

| Configuration | Module | Shows | Text |
|---|---|---|---|
| `PipelineUnguarded.cfg` | `MCChaosPipeline` | `FinalizerGuardsInjection`: a failed finalizer write is swallowed (`finalizers/controller.go:136`), and targets are injected without it | "initialization happens before any injection and cleanup happens after record recovery" (`controllers/common/finalizers/README.md:3`) |
| `PipelineLateInjection.cfg` | `MCChaosPipeline` | `InjectedOnlyWhileExists`: an object deleted while its phase is computed (`desiredphase/controller.go:145`) is released, then injected | `controllers/common/finalizers/README.md:15` |
| `StatusCheckLeftover.cfg` | `StatusCheck` | `DeleteCleansUp`: a check deleted while it executes leaves results behind (`manager.go:166`) | `controllers/statuscheck/manager.go:35` |
| `TimeTasksRepeated.cfg` | `MCTimeTasks` | `StopRecovers`: a repeated recovery is refused for ever (`task_manager.go:206`) | "External side effects must tolerate repeated reconciliation." (`controllers/README.md:56`) |
| `WorkflowTied.cfg` | `MCWorkflow` | `EntryKept`: of two entry nodes created in one second both are deleted | "there are more than 1 entry nodes of workflow, cleaning up except first one" (`workflow_entry_reconciler.go:101`) |
| `ScheduleForbid.cfg` | `MCSchedule` | `OneAtATime`: cron decides on a list that does not show the job it created a moment ago (`cron/controller.go:92`), and two jobs run at once | "Forbid spawning new job because: %s is still running" (`controllers/utils/recorder/schedule.go:68`) |
| `RemoteChaosMoved.cfg` | `MCRemoteChaos` | `NoReleaseLeft`: spec.namespace is edited and the object deleted before Helm runs again; the release in the first namespace is not looked for (`remotecluster/controller.go:322`) | "removes only the owned finalizer after cleanup succeeds" (`clusterregistry/README.md:25`) |

Why the bounds are enough: two targets let one record succeed while another
fails; three experiments are needed for a recovery that finds two others; two
incarnations of a check let a worker of the first meet the second; one lost
answer makes two handlers overlap; two managers of a name are what a replacement
needs, two callers what a race needs; two pods let a status of the first reach
the object of the second; four nodes hold a node, its tasks and a second attempt;
three runs let a job of the first meet the decision on the third; two RemoteClusters
and two experiments of a name show what outlives the first.  A run of the
pipeline or of `PodNetwork` has one fault in all, of any of its kinds;
`StatusCheck` has one restart and one failed update, `TimeTasks` two of a lost
answer, a failure and a restart (`TimeTasksMore.cfg`: all three), a scenario of `RemoteChaos` two failures at most.
This reaches each error path, but longer combinations are explored only where a
theorem covers them.  Deadlock is not checked: budgets are used up, and the
systems may come to rest.

### What the properties except

In `UpdatedClient`, `NeverGoesBack` excepts `lost` versions.  Taken out, it fails with
two writers of an object as well as with a cache that is too small.

In `TimeTasks`, `RecoveredIsClean` and `AcknowledgedIsObserved` except `spoiled`
containers and `overtaken` records, `RecoveredIsClean` also `orphaned` containers; `MutualExclusion` and `TasksMatchConfigs` except `orphaned`
ones.  TLC finds a violation of each of these properties when an exception is
taken out, so the exceptions mark weaknesses of the code:

- `LockMap.Del` with a waiting handler breaks all but `AcknowledgedIsObserved` (`key_lockmap.go:42` has a
  TODO about it);
- nothing orders a call whose answer was lost before the ones that follow it: a lost
  injection carried out after an acknowledged recovery breaks `RecoveredIsClean`, a
  lost recovery carried out after an acknowledged injection
  `AcknowledgedIsObserved`;
- an injection into the main process that fails at `gettimeofday`, or at
  `clock_gettime` after its image is mapped, a recovery that fails halfway, and a
  commit that fails in `Recover` each break both `RecoveredIsClean` and
  `AcknowledgedIsObserved`;
- an injection that fails at the listing of the children or in a child breaks
  `RecoveredIsClean` only;
- `RecoveredIsClean` speaks of recoveries the daemon acknowledged.  Extended to
  those the controller pretended it fails: the daemon keeps the configuration and
  merges it into the next injection.

In `ChaosPipeline`, `ReleasedOnlyRecovered` and `StopsAtDeadline` except the targets
in `unack` and objects whose cleanup was forced by the annotation: an injection
that was carried out and never recorded is invisible to the code.
`StoppedMeansDecided` is said of the first incarnation of a check and as long as
no status write has failed, and `StopRecovers` of behaviours without a failed
injection or recovery.  `FinalizerGuardsInjection` passes only without
`write` faults; `PipelineUnguarded.cfg` shows it fail with them.

In `PodNetwork`, `InjectedIsWanted` is said of experiments that select the pod
under one key: a partition with the pod on both sides clears, with the commit of
one key, the rules of the other (`partition/impl.go:124`).  It and
`GoneLeavesNothing` except `lost` commits, `ObservedIsInForce` a `crossed` status and
what was `swallowed`, the liveness properties pods on the network of their host and
`silent` ones.  Both dropped errors are needed as exceptions: that of a jump from
INPUT or OUTPUT (`iptables_server.go:208`) leaves chains nothing leads to, that of the
flush of an interface other than the last (`tc_server.go:134`) leaves rules of an
experiment that is gone.

In `Workflow`, `Recounts` excepts a parallel node whose failed creation made it
start its tasks again while deleted children still count.  The partial rerun that
`serial_node_reconciler.go:185` describes never happens, because the prefix test
at 200 is never true; `SerialStarts` follows the code.

In `Schedule`, `RunsOnce` excepts `slipped` runs, the liveness properties `dropped`
errors.  That jobs run one at a time under Forbid is not among the properties that
hold: `ScheduleForbid.cfg`.

In `RemoteCluster`, `NothingBehind` excepts releases in places that were `moved` away
from: nothing makes spec.namespace immutable, and `clusterregistry/README.md:25` says
"changing a Secret endpoint alone does not migrate a Helm installation".
`ClusterSettles` excepts a `broken` name, as that README says (line 23): "A completed
shutdown error is returned by later `Ensure` and `Stop` calls."  Without the
exceptions both fail.

In `RemoteChaos`:

- the monitor takes the absence of a copy from its cache, so when the name is
  used again or others delete the copy it lets go of an experiment whose copy is
  there (`foreign`, `again`), although `clusterregistry/README.md:71` says "Local
  finalizers remain until a live remote read confirms absence or the remote
  experiment is no longer owned by forwarding.";
- an experiment that ends between two reads of the monitor leaves a copy that
  nothing removes (`remotechaosmonitor/controller.go:117`), as does one whose name
  is taken by an experiment for another cluster (79): `missed`;
- `CopiesGo` and `ExperimentSettles` speak of times when the manager runs and
  Chaos Mesh is installed, `ExperimentSettles` also only of a name that is not
  `broken`, because the registry then lends no client.  A RemoteCluster deleted first strands experiments with
  finalizers, and uninstalling leaves injected copies to nobody
  (`remotecluster/controller.go:217`).

### Hazards without a property

Besides those `PROJECT.json` lists: a failed write of the release is not requeued
(`finalizers/controller.go:143`), nor one of the phase when the duration ends
(`desiredphase/controller.go:157`); at the instant stopTime equals now the time
that remains is zero, which means no requeue
(`zz_generated.chaosmesh.go:2545`); a finalizer added by others is overwritten
(`finalizers/controller.go:133`); a check made again under its name is served by
the old worker (`statuscheck/manager.go:67`), and one whose executor fails never
gets one (79); a repeated injection is refused (`time_server_linux.go:64`), as is
a second container of a pod (`timechaos/impl.go:73`), and a recovery is pretended
while a container restarts (92); a pod on the host network is not tried again
(`podnetworkchaos/controller.go:129`); a status check node writes over an abort
(`statuscheck_reconciler.go:181`); schedules of one name in several namespaces
share their jobs (`schedule/utils/list.go:43`); a process started during Shutdown
(`bpm.go:278`).

### Fairness

- `ChaosPipeline`: weak fairness of the work queue, the watch, timers and steps,
  which controller-runtime provides, and of time.  Strong fairness of
  `ApplySucceeds` and `RecoverSucceeds`: an implementation that is asked again
  and again succeeds in the end.  This is an assumption about implementations,
  and `TimeTasksRepeated.cfg` shows that TimeChaos does not satisfy it after a lost
  answer.
- `StatusCheck`: weak fairness of reconciliation, timers and time.
- `TimeTasks` (`TimeTasksRepeated.cfg` only): weak fairness of handlers, which are
  goroutines, and strong fairness of the call for each record, because a failed
  record is requeued and each pass visits all records.
- `ClusterRegistry`: weak fairness of the goroutines, of callbacks, which return,
  and of callers whose wait is over.
- `PodNetwork`, `Workflow`, `Schedule`: weak fairness of each controller, of the
  informers and of the garbage collector; in `PodNetwork` pods are replaced and
  start and a pause ends, in `Schedule` jobs finish.
- `RemoteChaos`: weak fairness of the forwarder, the monitor, the informers and the
  remote pipeline.  Strong fairness of the steps of the cluster's controller: a
  manager stops when no client is borrowed, and the registry lends none once a
  stop has begun, which the model does not show.

## Proofs

| Theorem | Says | Inductive invariant |
|---|---|---|
| `TypeCorrect` | `ChaosPipeline` keeps its types | `TypeOK` |
| `ReleasedSafe` | `ReleasedOnlyRecovered` | targets under an acknowledged fault are tracked by the persisted records and by the local ones of the loop; the view agrees on records; a decision to release stays justified until it is carried out |
| `MonotonicReads` | `NeverGoesBack` | what a reconciler last saw is in the informer or the cache or lost, also halfway through a Get or Update |
| `OneActiveWorker` | `AtMostOneActive` | an active worker is the current one |
| `RegistryTypes` | `ClusterRegistry` keeps its types | `IInv`, as for the next four |
| `ManagersRegistered` | `RunningIsRegistered` | each entry is at a consistent point of its life, and registered as long as its manager may run |
| `ClientsLive` | `BorrowedIsLive` | the gate is held by the starter, the stopper or one callback, never by two |
| `EnsureDelivers` | `EnsuredIsConfigured` | a waiting caller knows an entry of the name it asked for |
| `RegistryRefines` | `ImplementsPromise` | each step changes what is seen of one name as `ManagerRegistry` allows, or nothing |

They hold for all values of the constants that satisfy the named assumptions,
and so for any number of targets, faults, crashes, workers, reconcilers, names,
callers and managers.
`MonotonicReads` is about every pattern of writers and every size of the cache.  Its
companion `RoomLosesNothing` says when the exception is void: with one writer per
object and room for all of them, which the code, with 100 places, does not enforce,
`NothingLost` holds.
`ReleasedOnlyRecovered` is not inductive: the release is decided on the view and
carried out later, so the invariant has to connect the world, the persisted
records, the local ones and the pending decision.

Only model-checked: all liveness properties (out of the prover's reach), the other
invariants of `ChaosPipeline` and `StatusCheck`, and all of `TimeTasks`,
`PodNetwork`, `Workflow`, `Schedule` and `RemoteChaos`.

## Not modelled

Sequences of commands in the namespaces of a process, cloud APIs, the web API and
its database, validation, generated code and wiring: they hold no shared state
that outlives a call, or none the controllers depend on.  The background
process manager and the controllers of PodIOChaos and PodHttpChaos do have state and
are left for modules of their own.  Of workflows, task and status check nodes, the
experiments of chaos nodes and the deletion of a workflow are missing; of schedules,
their deletion; of the multicluster controllers, versions and values of the Helm
release.  The remote pod reconciler only logs, and nothing imports it.  In `TimeTasks`, ptrace and ELF handling are
reduced to success or failure per function, `TaskManager.Update`, which nobody
calls, is left out, a child forked after the injection does not appear, and
offsets are not numbers.
