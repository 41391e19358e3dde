---------------------------- MODULE ClusterRegistry ----------------------------
(***************************************************************************)
(* RemoteClusterRegistry (controllers/multicluster/clusterregistry): the   *)
(* managers of remote clusters, which callers ensure, spawn, stop and use  *)
(* concurrently.                                                           *)
(*                                                                         *)
(* The registry's mutex protects its map; what happens between Lock and    *)
(* Unlock is one action.  Everything else runs outside it: the goroutine   *)
(* that starts a manager, the one that stops it, and callers that wait for *)
(* them or give up.  The gate of an entry, a channel of capacity one, is   *)
(* what keeps these apart.  An entry is a *remoteCluster; a stopped one is *)
(* never used again.                                                       *)
(***************************************************************************)
EXTENDS Naturals

CONSTANTS
    Names,        \* names of remote clusters
    Configs,      \* decoded kubeconfigs
    Callers,      \* goroutines that call the registry
    MaxEntries,   \* bound on the managers ever built
    MaxFailures   \* bound on failures of app.Start and app.Stop

ASSUME CallersAssumption == Callers # {}
ASSUME EntriesAssumption == MaxEntries \in Nat /\ MaxFailures \in Nat

NoConfig == "no config"

Entries == 1..MaxEntries
Nobody == 0

VARIABLES
    clusters,     \* name -> entry, Nobody when there is none
    name,         \* the name an entry was reserved for
    state,        \* its clusterState, "unused" before it is allocated
    gate,         \* its gate is taken
    asked,        \* the kubeconfig startReserved was given
    desired,      \* its decoded kubeconfig
    app,          \* its application: "new", "alive" or "down"
    starter,      \* where the goroutine of startReserved is
    startErr,     \* app.Start failed
    stopper,      \* where the goroutine of stopLocked is
    stopErr,      \* app.Stop failed
    caller,       \* what each caller does
    used,         \* entries allocated
    failures

entryVars == <<name, state, gate, asked, desired, app, starter,
               startErr, stopper, stopErr>>
vars == <<clusters, entryVars, caller, used, failures>>

States == {"unused", "starting", "ready", "stopping", "stopped"}
StarterSteps == {"none", "start", "publish", "release", "close", "done"}
StopperSteps == {"none", "gate", "stop", "publish", "release", "done"}

Idle == [op |-> "idle", name |-> Nobody, entry |-> Nobody, config |-> NoConfig, ok |-> FALSE]

Call(op, n, e, c) == [op |-> op, name |-> n, entry |-> e, config |-> c, ok |-> FALSE]

CallerStates ==
    [op : {"idle", "callback", "stop", "replace", "await"},
     name : Names \cup {Nobody}, entry : Entries \cup {Nobody},
     config : Configs \cup {NoConfig}, ok : BOOLEAN]

\* What each variable may hold.
TypeOK ==
    /\ clusters \in [Names -> Entries \cup {Nobody}]
    /\ name \in [Entries -> Names \cup {Nobody}]
    /\ state \in [Entries -> States]
    /\ gate \in [Entries -> BOOLEAN]
    /\ asked \in [Entries -> Configs \cup {NoConfig}]
    /\ desired \in [Entries -> Configs \cup {NoConfig}]
    /\ app \in [Entries -> {"new", "alive", "down"}]
    /\ starter \in [Entries -> StarterSteps]
    /\ startErr \in [Entries -> BOOLEAN]
    /\ stopper \in [Entries -> StopperSteps]
    /\ stopErr \in [Entries -> BOOLEAN]
    /\ caller \in [Callers -> CallerStates]
    /\ used \in 0..MaxEntries
    /\ failures \in 0..MaxFailures

Init ==
    /\ clusters = [n \in Names |-> Nobody]
    /\ name = [e \in Entries |-> Nobody]
    /\ state = [e \in Entries |-> "unused"]
    /\ gate = [e \in Entries |-> FALSE]
    /\ asked = [e \in Entries |-> NoConfig]
    /\ desired = [e \in Entries |-> NoConfig]
    /\ app = [e \in Entries |-> "new"]
    /\ starter = [e \in Entries |-> "none"]
    /\ startErr = [e \in Entries |-> FALSE]
    /\ stopper = [e \in Entries |-> "none"]
    /\ stopErr = [e \in Entries |-> FALSE]
    /\ caller = [k \in Callers |-> Idle]
    /\ used = 0
    /\ failures = 0

\* cluster.stopped and cluster.startDone are closed.
StoppedClosed(e) == stopper[e] \in {"release", "done"}
StartDone(e) == starter[e] = "done"

--------------------------------------------------------------------------------
(* Parts of the critical sections.                                         *)

\* stopLocked: what it changes unless a stop is already under way.
StopLocked(e) ==
    IF stopper[e] # "none"
    THEN UNCHANGED <<state, stopper>>
    ELSE /\ state' = [state EXCEPT ![e] = "stopping"]
         /\ stopper' = [stopper EXCEPT ![e] = "gate"]

\* reserveLocked and the go statement for startReserved, by caller k.
ReserveLocked(k, n, c) ==
    LET e == used + 1 IN
    /\ used < MaxEntries
    /\ used' = e
    /\ clusters' = [clusters EXCEPT ![n] = e]
    /\ name' = [name EXCEPT ![e] = n]
    /\ state' = [state EXCEPT ![e] = "starting"]
    /\ gate' = [gate EXCEPT ![e] = TRUE]
    /\ asked' = [asked EXCEPT ![e] = c]
    /\ starter' = [starter EXCEPT ![e] = "start"]
    /\ caller' = [caller EXCEPT ![k] = Call("await", n, e, c)]
    /\ UNCHANGED <<desired, app, startErr, stopper, stopErr, failures>>

\* The call of caller k is over; ok if it returned nil.
Return(k, ok) == caller' = [caller EXCEPT ![k] = [Idle EXCEPT !.ok = ok]]

--------------------------------------------------------------------------------
(* The goroutine of startReserved.                                         *)

\* r.build and app.Start.  A failed start may leave the manager running.
AppStart(e, fails) ==
    /\ starter[e] = "start"
    /\ fails => failures < MaxFailures
    /\ failures' = IF fails THEN failures + 1 ELSE failures
    /\ app' = [app EXCEPT ![e] = "alive"]
    /\ startErr' = [startErr EXCEPT ![e] = fails]
    /\ starter' = [starter EXCEPT ![e] = "publish"]
    /\ UNCHANGED <<clusters, name, state, gate, asked, desired, stopper, stopErr, caller, used>>

\* The critical section of startReserved.
StartPublish(e) ==
    /\ starter[e] = "publish"
    /\ starter' = [starter EXCEPT ![e] = "release"]
    /\ \/ /\ startErr[e]
          /\ StopLocked(e)
          /\ UNCHANGED desired
       \/ /\ ~startErr[e] /\ state[e] = "starting"
          /\ state' = [state EXCEPT ![e] = "ready"]
          /\ desired' = [desired EXCEPT ![e] = asked[e]]
          /\ UNCHANGED stopper
       \/ /\ ~startErr[e] /\ state[e] # "starting"
          /\ UNCHANGED <<state, desired, stopper>>
    /\ UNCHANGED <<clusters, name, gate, asked, app, startErr, stopErr, caller, used, failures>>

\* Mutant: the gate is kept until the failed manager has been cleaned up.
StartReleaseLate(e) ==
    /\ starter[e] = "release"
    /\ startErr[e] => StoppedClosed(e)
    /\ gate' = [gate EXCEPT ![e] = FALSE]
    /\ starter' = [starter EXCEPT ![e] = "close"]
    /\ UNCHANGED <<clusters, name, state, asked, desired, app, startErr, stopper, stopErr,
                   caller, used, failures>>

StartRelease(e) ==
    /\ starter[e] = "release"
    /\ gate' = [gate EXCEPT ![e] = FALSE]
    /\ starter' = [starter EXCEPT ![e] = "close"]
    /\ UNCHANGED <<clusters, name, state, asked, desired, app, startErr, stopper, stopErr,
                   caller, used, failures>>

\* A failed start waits for the cleanup before it closes startDone.
StartClose(e) ==
    /\ starter[e] = "close"
    /\ startErr[e] => StoppedClosed(e)
    /\ starter' = [starter EXCEPT ![e] = "done"]
    /\ UNCHANGED <<clusters, name, state, gate, asked, desired, app, startErr, stopper, stopErr,
                   caller, used, failures>>

--------------------------------------------------------------------------------
(* The goroutine of stopLocked.                                            *)

\* Mutant: stopping does not wait for the gate.
StopAcquireAtOnce(e) ==
    /\ stopper[e] = "gate"
    /\ gate' = [gate EXCEPT ![e] = TRUE]
    /\ stopper' = [stopper EXCEPT ![e] = "stop"]
    /\ UNCHANGED <<clusters, name, state, asked, desired, app, starter, startErr, stopErr,
                   caller, used, failures>>

StopAcquire(e) ==
    /\ stopper[e] = "gate" /\ ~gate[e]
    /\ gate' = [gate EXCEPT ![e] = TRUE]
    /\ stopper' = [stopper EXCEPT ![e] = "stop"]
    /\ UNCHANGED <<clusters, name, state, asked, desired, app, starter, startErr, stopErr,
                   caller, used, failures>>

\* app.Stop.  When it fails the manager may still run.
AppStop(e, fails) ==
    /\ stopper[e] = "stop"
    /\ fails => failures < MaxFailures
    /\ failures' = IF fails THEN failures + 1 ELSE failures
    /\ app' = IF fails THEN app ELSE [app EXCEPT ![e] = "down"]
    /\ stopper' = [stopper EXCEPT ![e] = "publish"]
    /\ UNCHANGED <<clusters, name, state, gate, asked, desired, starter, startErr, stopErr,
                   caller, used>>

\* Mutant: the name is released although app.Stop failed.
StopPublishAnyway(e) ==
    /\ stopper[e] = "publish"
    /\ stopErr' = [stopErr EXCEPT ![e] = app[e] # "down"]
    /\ state' = [state EXCEPT ![e] = "stopped"]
    /\ clusters' = [clusters EXCEPT ![name[e]] = IF @ = e THEN Nobody ELSE @]
    /\ stopper' = [stopper EXCEPT ![e] = "release"]
    /\ UNCHANGED <<name, gate, asked, desired, app, starter, startErr, caller, used, failures>>

\* Mutant: a stop that failed leaves a state that is none of the declared ones.
StopPublishFailed(e) ==
    /\ stopper[e] = "publish"
    /\ state' = [state EXCEPT ![e] = IF app[e] = "down" THEN "stopped" ELSE "failed"]
    /\ stopper' = [stopper EXCEPT ![e] = "release"]
    /\ UNCHANGED <<clusters, name, gate, asked, desired, app, starter, startErr, stopErr, caller,
                   used, failures>>

\* The critical section: app is "down" iff err is nil.
StopPublish(e) ==
    /\ stopper[e] = "publish"
    /\ stopErr' = [stopErr EXCEPT ![e] = app[e] # "down"]
    /\ IF app[e] = "down"
       THEN /\ state' = [state EXCEPT ![e] = "stopped"]
            /\ clusters' = [clusters EXCEPT ![name[e]] = IF @ = e THEN Nobody ELSE @]
       ELSE UNCHANGED <<state, clusters>>
    /\ stopper' = [stopper EXCEPT ![e] = "release"]
    /\ UNCHANGED <<name, gate, asked, desired, app, starter, startErr, caller, used, failures>>

StopRelease(e) ==
    /\ stopper[e] = "release"
    /\ gate' = [gate EXCEPT ![e] = FALSE]
    /\ stopper' = [stopper EXCEPT ![e] = "done"]
    /\ UNCHANGED <<clusters, name, state, asked, desired, app, starter, startErr, stopErr,
                   caller, used, failures>>

--------------------------------------------------------------------------------
(* The callers.  A call that is refused with ErrBusy, ErrNotExist,         *)
(* ErrAlreadyExist or the recorded stop error changes nothing.             *)

\* Mutant: a client is lent whenever the gate is free.
WithClientAnyState(k, n) ==
    LET e == clusters[n] IN
    /\ caller[k].op = "idle"
    /\ e # Nobody /\ ~gate[e]
    /\ gate' = [gate EXCEPT ![e] = TRUE]
    /\ caller' = [caller EXCEPT ![k] = Call("callback", n, e, NoConfig)]
    /\ UNCHANGED <<clusters, name, state, asked, desired, app, starter, startErr, stopper,
                   stopErr, used, failures>>

WithClient(k, n) ==
    LET e == clusters[n] IN
    /\ caller[k].op = "idle"
    /\ e # Nobody /\ state[e] = "ready" /\ ~gate[e]
    /\ gate' = [gate EXCEPT ![e] = TRUE]
    /\ caller' = [caller EXCEPT ![k] = Call("callback", n, e, NoConfig)]
    /\ UNCHANGED <<clusters, name, state, asked, desired, app, starter, startErr, stopper,
                   stopErr, used, failures>>

\* Mutant: the gate of a cluster that is no longer ready is not released.
CallbackReturnsIfReady(k) ==
    LET e == caller[k].entry IN
    /\ caller[k].op = "callback"
    /\ gate' = [gate EXCEPT ![e] = state[e] # "ready"]
    /\ Return(k, FALSE)
    /\ UNCHANGED <<clusters, name, state, asked, desired, app, starter, startErr, stopper,
                   stopErr, used, failures>>

\* The deferred release of the gate.
CallbackReturns(k) ==
    /\ caller[k].op = "callback"
    /\ gate' = [gate EXCEPT ![caller[k].entry] = FALSE]
    /\ Return(k, FALSE)
    /\ UNCHANGED <<clusters, name, state, asked, desired, app, starter, startErr, stopper,
                   stopErr, used, failures>>

Stop(k, n) ==
    LET e == clusters[n] IN
    /\ caller[k].op = "idle" /\ e # Nobody
    /\ StopLocked(e)
    /\ caller' = [caller EXCEPT ![k] = Call("stop", n, e, NoConfig)]
    /\ UNCHANGED <<clusters, name, gate, asked, desired, app, starter, startErr, stopErr,
                   used, failures>>

StopReturns(k) ==
    /\ caller[k].op = "stop" /\ StoppedClosed(caller[k].entry)
    /\ Return(k, ~stopErr[caller[k].entry])
    /\ UNCHANGED <<clusters, entryVars, used, failures>>

EnsureNew(k, n, c) ==
    /\ caller[k].op = "idle" /\ clusters[n] = Nobody
    /\ ReserveLocked(k, n, c)

EnsureReplace(k, n, c) ==
    LET e == clusters[n] IN
    /\ caller[k].op = "idle"
    /\ e # Nobody /\ state[e] = "ready" /\ desired[e] # c
    /\ StopLocked(e)
    /\ caller' = [caller EXCEPT ![k] = Call("replace", n, e, c)]
    /\ UNCHANGED <<clusters, name, gate, asked, desired, app, starter, startErr, stopErr,
                   used, failures>>

\* The old manager has stopped; another caller may have taken the name.
EnsureReplaced(k) ==
    LET n == caller[k].name
        e == caller[k].entry
        current == clusters[n]
    IN
    /\ caller[k].op = "replace" /\ StoppedClosed(e)
    /\ \/ /\ ~stopErr[e] /\ current = Nobody
          /\ ReserveLocked(k, n, caller[k].config)
       \/ /\ stopErr[e] \/ current # Nobody
          /\ Return(k, /\ ~stopErr[e]
                       /\ state[current] = "ready" /\ desired[current] = caller[k].config)
          /\ UNCHANGED <<clusters, entryVars, used, failures>>

\* Mutant: Ensure returns startErr without looking at the entry again.
EnsureStartedBlindly(k) ==
    /\ caller[k].op = "await" /\ StartDone(caller[k].entry)
    /\ Return(k, ~startErr[caller[k].entry])
    /\ UNCHANGED <<clusters, entryVars, used, failures>>

\* Ensure checks the entry again; Spawn returns startErr as it is.
EnsureStarted(k) ==
    LET e == caller[k].entry IN
    /\ caller[k].op = "await" /\ StartDone(e)
    /\ Return(k, /\ ~startErr[e]
                 /\ \/ caller[k].config = NoConfig
                    \/ clusters[caller[k].name] = e /\ state[e] = "ready")
    /\ UNCHANGED <<clusters, entryVars, used, failures>>

\* The context of a waiting Stop or Ensure is done.  Ensure then takes back
\* what it reserved.
GiveUp(k) ==
    LET e == caller[k].entry IN
    /\ \/ /\ caller[k].op \in {"stop", "replace"}
          /\ UNCHANGED <<state, stopper>>
       \/ /\ caller[k].op = "await" /\ caller[k].config # NoConfig
          /\ IF clusters[caller[k].name] = e
             THEN StopLocked(e)
             ELSE UNCHANGED <<state, stopper>>
    /\ Return(k, FALSE)
    /\ UNCHANGED <<clusters, name, gate, asked, desired, app, starter, startErr, stopErr,
                   used, failures>>

\* Spawn has no context and keeps no kubeconfig to compare with.
Spawn(k, n) ==
    /\ caller[k].op = "idle" /\ clusters[n] = Nobody
    /\ ReserveLocked(k, n, NoConfig)

--------------------------------------------------------------------------------
StarterNext(e) ==
    \/ \E fails \in BOOLEAN : AppStart(e, fails)
    \/ StartPublish(e) \/ StartRelease(e) \/ StartClose(e)

StopperNext(e) ==
    \/ StopAcquire(e)
    \/ \E fails \in BOOLEAN : AppStop(e, fails)
    \/ StopPublish(e) \/ StopRelease(e)

CallerNext(k) ==
    \/ \E n \in Names :
          \/ WithClient(k, n) \/ Stop(k, n) \/ Spawn(k, n)
          \/ \E c \in Configs : EnsureNew(k, n, c) \/ EnsureReplace(k, n, c)
    \/ CallbackReturns(k) \/ StopReturns(k) \/ EnsureReplaced(k) \/ EnsureStarted(k)
    \/ GiveUp(k)

Next ==
    \/ \E e \in Entries : StarterNext(e) \/ StopperNext(e)
    \/ \E k \in Callers : CallerNext(k)

Spec == Init /\ [][Next]_vars

\* Goroutines are scheduled, Start, Stop and callbacks end, and whoever can
\* return does.
FairSpec ==
    /\ Spec
    /\ \A e \in Entries : WF_vars(StarterNext(e)) /\ WF_vars(StopperNext(e))
    /\ \A k \in Callers :
           /\ WF_vars(CallbackReturns(k)) /\ WF_vars(StopReturns(k))
           /\ WF_vars(EnsureReplaced(k)) /\ WF_vars(EnsureStarted(k))

--------------------------------------------------------------------------------
(* Properties.                                                             *)

\* A manager that runs is the one registered under its name: the name is not
\* reused before the actual shutdown (Stop: "A caller timeout does not release
\* the name for replacement"), so there is one manager per name.
RunningIsRegistered ==
    \A e \in Entries : app[e] = "alive" => clusters[name[e]] = e

\* WithClient runs a callback with a live client, and callbacks for one cluster
\* one at a time, however stops, replacements and failures interleave.
BorrowedIsLive ==
    \A k \in Callers : caller[k].op = "callback" =>
        /\ app[caller[k].entry] = "alive"
        /\ clusters[caller[k].name] = caller[k].entry
        /\ \A j \in Callers \ {k} :
               caller[j].op = "callback" => caller[j].entry # caller[k].entry

\* When Ensure returns nil after having waited, the manager registered at that
\* moment is ready, runs, and has the kubeconfig that was asked for.
EnsuredIsConfigured ==
    [][\A k \in Callers :
           /\ caller[k].op \in {"replace", "await"} /\ caller[k].config # NoConfig
           /\ caller'[k].op = "idle" /\ caller'[k].ok
           => LET e == clusters[caller[k].name] IN
              /\ e # Nobody /\ state[e] = "ready" /\ app[e] = "alive"
              /\ desired[e] = caller[k].config]_vars

\* Nobody waits for ever: the gate, the two goroutines and the channels they
\* close cannot block each other.  (A replacement beyond MaxEntries is not
\* modelled.)
CallersReturn ==
    \A k \in Callers :
        /\ caller[k].op \in {"callback", "stop", "await"} ~> caller[k].op = "idle"
        /\ caller[k].op = "replace" ~> caller[k].op = "idle" \/ used = MaxEntries

\* A stop that was requested is carried out, or its failure recorded, also when
\* whoever asked for it has given up.
StopTakesEffect ==
    \A e \in Entries : state[e] = "stopping" ~> state[e] = "stopped" \/ stopErr[e]

\* What an outside observer sees of the manager of n: the refinement mapping.
PhaseOf(n) ==
    LET e == clusters[n] IN
    CASE e = Nobody -> "absent"
      [] e # Nobody /\ app[e] = "down" -> "halted"
      [] e # Nobody /\ app[e] # "down" /\ stopErr[e] -> "broken"
      [] e # Nobody /\ app[e] # "down" /\ ~stopErr[e] -> state[e]

IsRunning(n) == clusters[n] # Nobody /\ app[clusters[n]] = "alive"

IsBorrowed(n) == \E k \in Callers : caller[k].op = "callback" /\ caller[k].name = n

ConfigOf(n) ==
    IF clusters[n] # Nobody /\ state[clusters[n]] = "ready" THEN desired[clusters[n]] ELSE NoConfig

Promise == INSTANCE ManagerRegistry WITH
    phase <- [n \in Names |-> PhaseOf(n)],
    running <- {n \in Names : IsRunning(n)},
    borrowed <- {n \in Names : IsBorrowed(n)},
    config <- [n \in Names |-> ConfigOf(n)]

\* The registry implements what it promises (ManagerRegistry).
ImplementsPromise == Promise!RegistrySpec
================================================================================
