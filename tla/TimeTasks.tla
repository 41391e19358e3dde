------------------------------- MODULE TimeTasks -------------------------------
(***************************************************************************)
(* TimeChaos on one pod: the controller (controllers/chaosimpl/timechaos), *)
(* the handlers SetTimeOffset and RecoverTimeOffset of the daemon          *)
(* (pkg/chaosdaemon), the task manager they share (pkg/chaosdaemon/tasks), *)
(* and the code they replace in the processes (pkg/time).                  *)
(*                                                                         *)
(* The controller calls the daemon for one record after the other.  A call *)
(* whose answer is lost (a timeout, a restart of the manager) goes on in   *)
(* the daemon while the controller repeats it, so handlers overlap.  The   *)
(* configuration of an experiment is its offset; merged, configurations    *)
(* are the set of experiments whose offsets are added up.                  *)
(***************************************************************************)
EXTENDS Naturals, FiniteSetsExt

CONSTANTS
    Uids,          \* TaskIDs: experiments on the pod
    Names,         \* the containers of the pod
    Records,       \* the pairs <<uid, name>> that the experiments select
    HasChild,      \* the process of a container has a child process
    MaxSkews,      \* bound on the Skew objects alive
    MaxToggles,    \* bound on the starts and stops of experiments
    MaxLost,       \* bound on lost answers
    MaxFailures,   \* bound on failures of ptrace and the like
    MaxRestarts,   \* bound on restarts of containers
    MaxFaults      \* bound on all three together

ASSUME RecordsAssumption == Records \subseteq Uids \X Names /\ HasChild \in BOOLEAN
ASSUME BoundsAssumption ==
    /\ MaxSkews \in Nat /\ MaxToggles \in Nat /\ MaxLost \in Nat
    /\ MaxFailures \in Nat /\ MaxRestarts \in Nat /\ MaxFaults \in Nat

Procs == IF HasChild THEN {"leader", "child"} ELSE {"leader"}
Symbols == {"clock_gettime", "gettimeofday"}

\* Where an injection or a recovery can fail: at a function, early if nothing is
\* done for it and late if its image is mapped or its variables are set; at the
\* listing of the children; or because the main process is not found.
Nowhere == <<"none", "nowhere", "early">>
NoProcess == <<"leader", "process", "early">>
FailPoints == (Procs \X Symbols \X {"early", "late"})
              \cup {<<"none", "child processes", "early">>, NoProcess}

Skews == 1..MaxSkews
Handlers == 1..MaxLost + 1
Mutexes == 1..2 * (MaxLost + 1)
NoTask == [leader |-> 0, child |-> 0]
Nil == MaxSkews + 1   \* no OriginFuncCode
NoImage == [entry |-> 0, origin |-> Nil, var |-> {}]
NoImages == [s \in Symbols |-> NoImage]
Free == [op |-> "none", uid |-> "none", name |-> "none", container |-> 0, pc |-> "free",
         mutex |-> 0, created |-> FALSE, ok |-> FALSE]

VARIABLES
    goal,          \* whether each experiment shall run
    rec,           \* the phase of each record
    waiting,       \* the handler the controller waits for, 0 if none
    handler,       \* the handlers of the daemon
    locker,        \* nameLocker: the mutex of each name, 0 if there is none
    processMap,    \* podContainerNameProcessMap: the process of each name
    config,        \* TaskConfigMap: the name each TaskID is configured for
    task,          \* taskMap: the Skew of the leader and of the child
    image,         \* the fake images of each Skew
    code,          \* the Skew each function of each process jumps to, 0 if none
    incarnation,   \* which process the container runs
    status,        \* the container that the status of the pod shows, 0 if none
    promise,       \* what the daemon has acknowledged of a record and still holds
    spoiled,       \* containers where an injection or recovery failed halfway
    orphaned,      \* containers whose mutex was deleted while a handler waited
    overtaken,     \* records whose promise a call that was given up has undone
    toggles, lost, failures

client == <<goal, rec, waiting>>
maps == <<locker, processMap, config, task>>
process == <<image, code>>
runtime == <<incarnation, status>>
ghost == <<promise, spoiled, orphaned, overtaken>>
bounds == <<toggles, lost, failures>>
vars == <<client, handler, maps, process, runtime, ghost, bounds>>

Incarnations == 1..MaxRestarts + 1

\* One more fault is within the bounds.
Fault == lost + failures + MapThenSumSet(LAMBDA n : incarnation[n] - 1, Names) < MaxFaults
MayFail == failures < MaxFailures /\ Fault

\* What each variable may hold.
TypeOK ==
    /\ goal \in [Uids -> {"Run", "Stop"}]
    /\ rec \in [Records -> {"Not Injected", "Injected"}]
    /\ waiting \in {0} \cup Handlers
    /\ \A h \in Handlers : handler[h].mutex \in {0} \cup Mutexes
    /\ locker \in [Names -> {0} \cup Mutexes]
    /\ processMap \in [Names -> {0} \cup Incarnations]
    /\ config \in [Uids -> Names \cup {"none"}]
    /\ task \in [Names -> [leader : {0} \cup Skews, child : {0} \cup Skews]]
    /\ image \in [Skews -> [Symbols -> [entry : {0} \cup Incarnations,
                                        origin : 0..Nil,
                                        var : SUBSET Uids]]]
    /\ code \in [Names -> [Procs -> [Symbols -> {0} \cup Skews]]]
    /\ incarnation \in [Names -> Incarnations] /\ status \in [Names -> {0} \cup Incarnations]

--------------------------------------------------------------------------------
(* Replacing code: FakeImage, Skew and ProcessGroupHandler.  A state of the *)
(* processes is st = [image, code]; fail is the point that fails.           *)

\* Mutant: the content of the mapping is not compared.
FindInjectedImageUnchecked(st, n, g, s) == st.image[g][s].entry # 0

\* FindInjectedImage: the image is still mapped into the process.
FindInjectedImage(st, n, g, s) == st.image[g][s].entry = incarnation[n]

\* AttachToProcess: where the image is mapped, only its variables are set;
\* elsewhere it is mapped, the code it replaces is kept, and the function made to
\* jump to it.  A late failure takes that back but leaves the image mapped.
AttachToProcess(st, n, p, g, s, cfg, late) ==
    LET fresh == ~FindInjectedImage(st, n, g, s) IN
    [image |-> [st.image EXCEPT ![g][s] =
        IF fresh THEN [entry |-> incarnation[n], var |-> cfg,
                       origin |-> IF late THEN Nil ELSE st.code[n][p][s]]
        ELSE [@ EXCEPT !.var = cfg]],
     code |-> IF fresh /\ ~late THEN [st.code EXCEPT ![n][p][s] = g] ELSE st.code]

\* Skew.Inject attaches clock_gettime, and if that succeeds gettimeofday.
SkewInject(st, n, p, g, cfg, fail) ==
    LET Attach(x, s) ==
            IF fail \in {<<p, s, "early">>, NoProcess} THEN x
            ELSE AttachToProcess(x, n, p, g, s, cfg, fail = <<p, s, "late">>)
        first == Attach(st, "clock_gettime")
    IN  IF fail[1] = p /\ fail[2] # "gettimeofday" THEN first
        ELSE Attach(first, "gettimeofday")

\* ProcessGroupHandler.Inject: an error of the leader or of the listing of the
\* children is returned; one of the child is logged.  Children are known by their
\* process; for one that is not, new is the Skew a Fork makes, and remembered if
\* the injection succeeds.
GroupInject(st, n, t, cfg, fail, new) ==
    LET led == SkewInject(st, n, "leader", t.leader, cfg, fail)
        known == t.child # 0 /\ FindInjectedImage(st, n, t.child, "clock_gettime")
        c == IF known THEN t.child ELSE new
        ok == fail = Nowhere \/ fail[1] = "child"
    IN  IF ok /\ HasChild
        THEN [st |-> SkewInject(led, n, "child", c, cfg, fail), ok |-> TRUE,
              task |-> [t EXCEPT !.child = IF fail = Nowhere THEN c ELSE @]]
        ELSE [st |-> led, ok |-> ok, task |-> t]

\* FakeImage.Recover of both images, the second one also if the first fails:
\* nothing is done for an image that holds no code, or is not found.
SkewRecover(st, n, p, g, fail) ==
    LET held == {s \in Symbols : st.image[g][s].origin # Nil /\ fail \notin {<<p, s, "early">>, NoProcess}}
        back == {s \in held : FindInjectedImage(st, n, g, s)}
    IN  [image |-> [st.image EXCEPT ![g] = [s \in Symbols |->
            IF s \in back THEN [@[s] EXCEPT !.origin = Nil] ELSE @[s]]],
         code |-> [st.code EXCEPT ![n][p] = [s \in Symbols |->
            IF s \in back THEN st.image[g][s].origin ELSE @[s]]]]

\* Mutant: the children are forgotten.
GroupRecoverLeader(st, n, t, fail) ==
    [st |-> SkewRecover(st, n, "leader", t.leader, fail), ok |-> fail[1] # "leader"]

\* ProcessGroupHandler.Recover: the children follow if the leader succeeds.
GroupRecover(st, n, t, fail) ==
    LET led == SkewRecover(st, n, "leader", t.leader, fail) IN
    IF fail[1] = "leader" THEN [st |-> led, ok |-> FALSE]
    ELSE [st |-> IF t.child = 0 THEN led ELSE SkewRecover(led, n, "child", t.child, fail),
          ok |-> TRUE]

\* The offsets that a function of a process adds.
Observed(n, p, s) == IF code[n][p][s] = 0 THEN {} ELSE image[code[n][p][s]][s].var

Now == [image |-> image, code |-> code]

\* Skews that a task, a process or the code kept by a task refers to.
Referenced(st, tk) ==
    LET owned == {tk[n].leader : n \in Names} \cup {tk[n].child : n \in Names} IN
    owned \cup {st.code[n][p][s] : n \in Names, p \in Procs, s \in Symbols}
          \cup {st.image[g][s].origin : g \in owned \ {0}, s \in Symbols}

\* The next state of tasks and processes, without Skews nothing refers to.
Install(st, tk) ==
    /\ task' = tk
    /\ code' = st.code
    /\ image' = [g \in Skews |-> IF g \in Referenced(st, tk) THEN st.image[g] ELSE NoImages]

NewSkew(st, tk) == Min(Skews \ Referenced(st, tk))

--------------------------------------------------------------------------------
(* The environment and the controller.                                     *)

\* An experiment is paused, resumed or deleted.
Toggle(u) ==
    /\ toggles < MaxToggles
    /\ toggles' = toggles + 1
    /\ goal' = [goal EXCEPT ![u] = IF @ = "Run" THEN "Stop" ELSE "Run"]
    /\ UNCHANGED <<rec, waiting, handler, maps, process, runtime, ghost, lost, failures>>

\* The container is restarted, with new processes, and the status of the pod shows
\* no container until the new one is reported.
Restart(n) ==
    /\ incarnation[n] <= MaxRestarts /\ Fault
    /\ incarnation' = [incarnation EXCEPT ![n] = @ + 1]
    /\ status' = [status EXCEPT ![n] = 0]
    /\ Install([Now EXCEPT !.code[n] = [p \in Procs |-> [s \in Symbols |-> 0]]], task)
    /\ spoiled' = spoiled \ {n}
    /\ promise' = [r \in Records |->
                    IF r[2] = n /\ promise[r] = "set" THEN "nothing" ELSE promise[r]]
    /\ UNCHANGED <<client, handler, locker, processMap, config, orphaned, overtaken,
                   bounds>>

Report(n) ==
    /\ status[n] # incarnation[n]
    /\ status' = [status EXCEPT ![n] = incarnation[n]]
    /\ UNCHANGED <<client, handler, maps, process, incarnation, ghost, bounds>>

\* Impl.Apply and Impl.Recover, called for a record that is not as desired.  The
\* TaskID is made of the experiment and the pod, and not of the container.
Call(r) ==
    LET h == Min({i \in Handlers : handler[i].pc = "free"}) IN
    /\ waiting = 0 /\ status[r[2]] # 0
    /\ rec[r] = (IF goal[r[1]] = "Run" THEN "Not Injected" ELSE "Injected")
    /\ handler' = [handler EXCEPT ![h] = [Free EXCEPT
          !.op = IF goal[r[1]] = "Run" THEN "set" ELSE "recover",
          !.uid = r[1], !.name = r[2], !.container = status[r[2]], !.pc = "called"]]
    /\ waiting' = h
    /\ promise' = [promise EXCEPT ![r] = "nothing"]
    /\ UNCHANGED <<goal, rec, maps, process, runtime, spoiled, orphaned, overtaken, bounds>>

\* Impl.Recover pretends that a disappeared container has been recovered.
Pretend(r) ==
    /\ waiting = 0 /\ status[r[2]] = 0
    /\ goal[r[1]] = "Stop" /\ rec[r] = "Injected"
    /\ rec' = [rec EXCEPT ![r] = "Not Injected"]
    /\ UNCHANGED <<goal, waiting, handler, maps, process, runtime, ghost, bounds>>

\* The answer will not be received, so what was done for this call is no promise.
Lose ==
    /\ waiting # 0 /\ lost < MaxLost /\ Fault
    /\ lost' = lost + 1
    /\ waiting' = 0
    /\ promise' = [promise EXCEPT ![<<handler[waiting].uid, handler[waiting].name>>] = "nothing"]
    /\ UNCHANGED <<goal, rec, handler, maps, process, runtime, spoiled, orphaned, overtaken,
                   toggles, failures>>

--------------------------------------------------------------------------------
(* DaemonServer.SetTimeOffset and DaemonServer.RecoverTimeOffset            *)

Goto(h, pc) == handler' = [handler EXCEPT ![h].pc = pc]

\* Fields that are not read any more are cleared.
Answer(h, ok, pc) ==
    handler' = [handler EXCEPT ![h].pc = pc, ![h].ok = ok, ![h].created = FALSE,
                               ![h].container = 0]

\* GetPidFromContainerID, SetPodContainerNameProcess
Enter(h) ==
    /\ handler[h].pc = "called" /\ handler[h].container = incarnation[handler[h].name]
    /\ processMap' = [processMap EXCEPT ![handler[h].name] = incarnation[handler[h].name]]
    /\ handler' = [handler EXCEPT ![h].pc = "load", ![h].container = 0]
    /\ UNCHANGED <<client, locker, config, task, process, runtime, ghost, bounds>>

\* GetPidFromContainerID does not find the container, or fails otherwise.
EnterFails(h) ==
    LET gone == handler[h].container # incarnation[handler[h].name] IN
    /\ handler[h].pc = "called"
    /\ gone \/ MayFail
    /\ failures' = IF gone THEN failures ELSE failures + 1
    /\ Answer(h, FALSE, "return")
    /\ UNCHANGED <<client, maps, process, runtime, ghost, toggles, lost>>

\* LockMap.Lock takes the mutex of the name from the map, or puts one there.
LoadMutex(h) ==
    LET n == handler[h].name
        used == {handler[i].mutex : i \in Handlers} \cup {locker[m] : m \in Names}
        mutex == IF locker[n] = 0 THEN Min(Mutexes \ used) ELSE locker[n]
    IN  /\ handler[h].pc = "load"
        /\ locker' = [locker EXCEPT ![n] = mutex]
        /\ handler' = [handler EXCEPT ![h].pc = "wait", ![h].mutex = mutex]
        /\ UNCHANGED <<client, processMap, config, task, process, runtime, ghost, bounds>>

\* The handler is at work on the maps; "return" remains, where it still holds the
\* mutex.
Working(h) == handler[h].pc \in {"begin", "commit", "recommit", "cleanup", "delete"}
Holds(h) == Working(h) \/ handler[h].pc = "return"

\* Mutant: the mutex is not waited for.
LockMutexFree(h) ==
    /\ handler[h].pc = "wait"
    /\ Goto(h, "begin")
    /\ UNCHANGED <<client, maps, process, runtime, ghost, bounds>>

LockMutex(h) ==
    /\ handler[h].pc = "wait"
    /\ \A i \in Handlers : Holds(i) => handler[i].mutex # handler[h].mutex
    /\ Goto(h, "begin")
    /\ UNCHANGED <<client, maps, process, runtime, ghost, bounds>>

RecordOf(h) == <<handler[h].uid, handler[h].name>>

\* What h does for a call that was given up undoes what was acknowledged.
Overtakes(h, kind) == waiting # h /\ promise[RecordOf(h)] \notin {"nothing", kind}

\* What the daemon does successfully for a call the controller waits for is a
\* promise.  A call that was given up goes on all the same: if it succeeds after a
\* later call of the opposite kind was acknowledged, the promise is overtaken,
\* until the next one.
Promise(h, ok, kind) ==
    LET heard == ok /\ waiting = h IN
    /\ promise' = IF heard THEN [promise EXCEPT ![RecordOf(h)] = kind] ELSE promise
    /\ overtaken' = IF heard THEN overtaken \ {RecordOf(h)}
                    ELSE IF ok /\ Overtakes(h, kind) THEN overtaken \cup {RecordOf(h)}
                    ELSE overtaken

UIDsWithPID(n) == {u \in Uids : config[u] = n}

\* TaskManager.Create, or Apply if the name has a task: up to the commit.  A
\* TaskID that is already configured, for whichever name, is an error of both.
SetBegin(h) ==
    LET n == handler[h].name
        u == handler[h].uid
    IN  /\ handler[h].pc = "begin" /\ handler[h].op = "set"
        /\ IF config[u] # "none"
           THEN /\ Answer(h, FALSE, "return")
                /\ UNCHANGED <<config, task>>
           ELSE /\ config' = [config EXCEPT ![u] = n]
                /\ handler' = [handler EXCEPT ![h].pc = "commit",
                                              ![h].created = (task[n] = NoTask)]
                /\ task' = IF task[n] = NoTask
                           THEN [task EXCEPT ![n].leader = NewSkew(Now, task)] ELSE task
        /\ UNCHANGED <<client, locker, processMap, process, runtime, ghost, bounds>>

\* The points at which an injection into n may fail: ptrace does not find a
\* process that has been replaced since it was looked up.
InjectFails(n) ==
    IF processMap[n] # incarnation[n] THEN {NoProcess}
    ELSE {Nowhere} \cup (IF MayFail THEN FailPoints ELSE {})

Spend(n, fail) ==
    failures' = IF fail = Nowhere \/ processMap[n] # incarnation[n] THEN failures
                ELSE failures + 1

\* TaskManager.commit: the configurations of the name are merged and injected.
\* The outcomes, for each point that may fail.
Commits(u, n) ==
    IF config[u] = "none" \/ task[n] = NoTask
    THEN {[st |-> Now, ok |-> FALSE, task |-> task[n], fail |-> Nowhere]}
    ELSE {LET done == GroupInject(Now, n, task[n], UIDsWithPID(n), fail, NewSkew(Now, task))
          IN  [st |-> done.st, ok |-> done.ok, task |-> done.task, fail |-> fail] :
          fail \in InjectFails(n)}

\* Mutant: the configuration is not deleted when the commit fails.
SetCommitKeepsConfig(h) ==
    LET n == handler[h].name
        u == handler[h].uid
    IN  /\ handler[h].pc = "commit"
        /\ \E done \in Commits(u, n) :
              /\ Install(done.st, [task EXCEPT ![n] =
                    IF done.ok THEN done.task
                    ELSE IF handler[h].created THEN NoTask ELSE @])
              /\ spoiled' = IF done.fail \in {Nowhere, <<"child", "clock_gettime", "early">>}
                               \/ UNCHANGED process
                            THEN spoiled ELSE spoiled \cup {n}
              /\ Spend(n, done.fail)
              /\ Answer(h, done.ok, "return")
              /\ Promise(h, done.ok, "set")
        /\ UNCHANGED <<client, locker, processMap, config, runtime, orphaned, toggles, lost>>

\* The commit of Create and Apply, which take back what they have added if it fails.
SetCommit(h) ==
    LET n == handler[h].name
        u == handler[h].uid
    IN  /\ handler[h].pc = "commit"
        /\ \E done \in Commits(u, n) :
              /\ Install(done.st, [task EXCEPT ![n] =
                    IF done.ok THEN done.task
                    ELSE IF handler[h].created THEN NoTask ELSE @])
              /\ config' = IF done.ok THEN config ELSE [config EXCEPT ![u] = "none"]
              /\ spoiled' = IF done.fail \in {Nowhere, <<"child", "clock_gettime", "early">>}
                               \/ UNCHANGED process
                            THEN spoiled ELSE spoiled \cup {n}
              /\ Spend(n, done.fail)
              /\ Answer(h, done.ok, "return")
              /\ Promise(h, done.ok, "set")
        /\ UNCHANGED <<client, locker, processMap, runtime, orphaned, toggles, lost>>

\* The points at which the recovery of n may fail: only an image that holds code
\* is touched, and one of a process that has been replaced is not found.
RecoverFails(n) ==
    LET Held(p, g) == {<<p, s, "early">> : s \in {x \in Symbols : image[g][x].origin # Nil}}
        leader == Held("leader", task[n].leader)
        child == IF task[n].child = 0 THEN {} ELSE Held("child", task[n].child)
    IN  IF processMap[n] # incarnation[n] /\ (processMap[n] = 0 \/ leader # {})
        THEN {NoProcess}
        ELSE {Nowhere} \cup (IF ~MayFail THEN {}
                             ELSE leader \cup child \cup (IF leader = {} THEN {} ELSE {NoProcess}))

\* TaskManager.ClearTask keeps the task if the recovery fails.
ClearTask(n) ==
    {LET done == GroupRecover(Now, n, task[n], fail)
     IN  [st |-> done.st, ok |-> done.ok, task |-> IF done.ok THEN NoTask ELSE task[n],
          fail |-> fail] : fail \in RecoverFails(n)}

\* TaskManager.Recover of the only task of a name: ClearTask and DeleteTaskConfig.
RecoverLast(h) ==
    LET n == handler[h].name IN
    /\ handler[h].pc = "begin" /\ handler[h].op = "recover"
    /\ UIDsWithPID(n) = {handler[h].uid} /\ task[n] # NoTask
    /\ \E done \in ClearTask(n) :
          /\ Install(done.st, [task EXCEPT ![n] = done.task])
          /\ config' = IF done.ok THEN [config EXCEPT ![handler[h].uid] = "none"] ELSE config
          /\ spoiled' = IF done.fail = Nowhere \/ UNCHANGED process THEN spoiled
                        ELSE spoiled \cup {n}
          /\ Spend(n, done.fail)
          /\ Answer(h, done.ok, IF done.ok THEN "cleanup" ELSE "return")
          /\ Promise(h, done.ok, "clean")
    /\ UNCHANGED <<client, locker, processMap, runtime, orphaned, toggles, lost>>

\* There is nothing to recover, or only a task of another experiment.
RecoverUnknown(h) ==
    LET n == handler[h].name IN
    /\ handler[h].pc = "begin" /\ handler[h].op = "recover"
    /\ Cardinality(UIDsWithPID(n)) <= 1
    /\ UIDsWithPID(n) = {handler[h].uid} => task[n] = NoTask
    /\ Answer(h, FALSE, "return")
    /\ UNCHANGED <<client, maps, process, runtime, ghost, bounds>>

\* One of several tasks: its configuration is deleted, and the others are
\* committed; if it has none, nothing is done and no error returned.
RecoverOne(h) ==
    LET n == handler[h].name
        u == handler[h].uid
    IN  /\ handler[h].pc = "begin" /\ handler[h].op = "recover"
        /\ Cardinality(UIDsWithPID(n)) > 1
        /\ IF config[u] = "none"
           THEN Answer(h, TRUE, "cleanup") /\ Promise(h, TRUE, "clean") /\ UNCHANGED config
           ELSE /\ Goto(h, "recommit")
                /\ config' = [config EXCEPT ![u] = "none"]
                /\ overtaken' = IF Overtakes(h, "clean") THEN overtaken \cup {RecordOf(h)}
                                ELSE overtaken
                /\ UNCHANGED promise
        /\ UNCHANGED <<client, locker, processMap, task, process, runtime, spoiled, orphaned, bounds>>

RecoverCommit(h) ==
    LET n == handler[h].name IN
    /\ handler[h].pc = "recommit"
    /\ \E u \in UIDsWithPID(n) : \E done \in Commits(u, n) :
          /\ Install(done.st, [task EXCEPT ![n] = done.task])
          /\ spoiled' = IF done.fail = Nowhere \/ processMap[n] # incarnation[n]
                        THEN spoiled ELSE spoiled \cup {n}
          /\ Spend(n, done.fail)
          /\ Answer(h, done.ok, IF done.ok THEN "cleanup" ELSE "return")
          /\ Promise(h, done.ok, "clean")
    /\ UNCHANGED <<client, locker, processMap, config, runtime, orphaned, toggles, lost>>

\* Nothing is left of the name: DelPodContainerNameProcess,
CleanProcess(h) ==
    LET n == handler[h].name IN
    /\ handler[h].pc = "cleanup"
    /\ IF UIDsWithPID(n) = {}
       THEN processMap' = [processMap EXCEPT ![n] = 0] /\ Goto(h, "delete")
       ELSE Goto(h, "return") /\ UNCHANGED processMap
    /\ UNCHANGED <<client, locker, config, task, process, runtime, ghost, bounds>>

\* and LockMap.Del, whoever waits for the mutex.
CleanMutex(h) ==
    /\ handler[h].pc = "delete"
    /\ orphaned' = IF \E i \in Handlers : handler[i].pc = "wait"
                                         /\ handler[i].mutex = handler[h].mutex
                   THEN orphaned \cup {handler[h].name} ELSE orphaned
    /\ locker' = [locker EXCEPT ![handler[h].name] = 0]
    /\ Goto(h, "return")
    /\ UNCHANGED <<client, processMap, config, task, process, runtime, promise, spoiled,
                   overtaken, bounds>>

\* Mutant: the record holds the call instead of the phase.
ReturnCall(h) ==
    LET r == RecordOf(h)
        heard == waiting = h /\ handler[h].ok
    IN  /\ handler[h].pc = "return"
        /\ handler' = [handler EXCEPT ![h] = Free]
        /\ waiting' = IF waiting = h THEN 0 ELSE waiting
        /\ rec' = IF heard THEN [rec EXCEPT ![r] = handler[h].op] ELSE rec
        /\ UNCHANGED <<goal, maps, process, runtime, ghost, bounds>>

\* The mutex is unlocked, and the controller gets the answer if it still waits:
\* it notes a success in the record.
Return(h) ==
    LET r == RecordOf(h)
        heard == waiting = h /\ handler[h].ok
        set == handler[h].op = "set"
    IN  /\ handler[h].pc = "return"
        /\ handler' = [handler EXCEPT ![h] = Free]
        /\ waiting' = IF waiting = h THEN 0 ELSE waiting
        /\ rec' = IF heard THEN [rec EXCEPT ![r] = IF set THEN "Injected" ELSE "Not Injected"]
                  ELSE rec
        /\ UNCHANGED <<goal, maps, process, runtime, ghost, bounds>>

--------------------------------------------------------------------------------
Init ==
    /\ goal = [u \in Uids |-> "Run"] /\ rec = [r \in Records |-> "Not Injected"]
    /\ waiting = 0 /\ handler = [h \in Handlers |-> Free]
    /\ locker = [n \in Names |-> 0] /\ processMap = [n \in Names |-> 0]
    /\ config = [u \in Uids |-> "none"] /\ task = [n \in Names |-> NoTask]
    /\ image = [g \in Skews |-> NoImages]
    /\ code = [n \in Names |-> [p \in Procs |-> [s \in Symbols |-> 0]]]
    /\ incarnation = [n \in Names |-> 1] /\ status = [n \in Names |-> 1]
    /\ promise = [r \in Records |-> "nothing"] /\ spoiled = {} /\ orphaned = {}
    /\ overtaken = {}
    /\ toggles = 0 /\ lost = 0 /\ failures = 0

Serve(h) ==
    \/ Enter(h) \/ EnterFails(h) \/ LoadMutex(h) \/ LockMutex(h)
    \/ SetBegin(h) \/ SetCommit(h)
    \/ RecoverLast(h) \/ RecoverUnknown(h) \/ RecoverOne(h) \/ RecoverCommit(h)
    \/ CleanProcess(h) \/ CleanMutex(h) \/ Return(h)

Next ==
    \/ \E u \in Uids : Toggle(u)
    \/ \E n \in Names : Restart(n) \/ Report(n)
    \/ \E r \in Records : Call(r) \/ Pretend(r)
    \/ Lose
    \/ \E h \in Handlers : Serve(h)

Spec == Init /\ [][Next]_vars

\* Handlers run, and the controller gets to every record again and again.
FairSpec ==
    /\ Spec
    /\ \A h \in Handlers : WF_vars(Serve(h))
    /\ \A r \in Records : SF_vars(Call(r))

--------------------------------------------------------------------------------
(* Properties.                                                             *)

\* nameLocker: two handlers never work on the maps for one container, until Del
\* has removed a mutex that a handler waits for.
MutualExclusion ==
    \A h, i \in Handlers :
        /\ Working(h) /\ Working(i) /\ handler[h].name = handler[i].name
        /\ handler[h].name \notin orphaned
        => h = i

Busy(n) == \E h \in Handlers : Working(h) /\ handler[h].name = n

\* TaskManager keeps taskMap and TaskConfigMap together, through every error: a
\* container has a task just while some experiment is configured for it.
TasksMatchConfigs ==
    \A n \in Names \ orphaned :
        ~Busy(n) => (task[n] # NoTask <=> UIDsWithPID(n) # {})

\* What the properties of acknowledged calls except: an injection or a recovery that
\* failed halfway in the container, and a call that was given up and carried out
\* after a later one was acknowledged.
Sound(r) == r[2] \notin spoiled /\ r \notin overtaken

\* RecoverTimeOffset: no process of the container adds the offset of an experiment
\* whose recovery was acknowledged, and without experiments each runs its own
\* code.  Excepted are containers where an injection or a recovery failed halfway
\* or a mutex was deleted under a handler, and records for which a SetTimeOffset
\* that the controller had given up was carried out after the recovery.
RecoveredIsClean ==
    \A r \in Records : promise[r] = "clean" /\ Sound(r) /\ r[2] \notin orphaned =>
        \A p \in Procs, s \in Symbols :
            /\ r[1] \notin Observed(r[2], p, s)
            /\ ~Busy(r[2]) /\ UIDsWithPID(r[2]) = {} => code[r[2]][p][s] = 0

\* SetTimeOffset: as long as it runs, the main process adds the offsets of all
\* experiments that were acknowledged for it, also after a mutex was deleted under a
\* handler.  Excepted are containers where an injection or a recovery failed halfway,
\* and records for which a RecoverTimeOffset that the controller had given up was
\* carried out after the injection.
AcknowledgedIsObserved ==
    \A r \in Records :
        promise[r] = "set" /\ Sound(r) =>
            \A s \in Symbols : r[1] \in Observed(r[2], "leader", s)

\* Side effects tolerate repeated reconciliation: an experiment that is stopped is
\* eventually recovered, also if a call was carried out and has to be repeated
\* because its answer was lost.
StopRecovers ==
    \A r \in Records :
        goal[r[1]] = "Stop" ~>
            rec[r] = "Not Injected" \/ goal[r[1]] = "Run" \/ failures > 0

================================================================================
