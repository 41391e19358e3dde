------------------------- MODULE ClusterRegistryProofs -------------------------
(***************************************************************************)
(* Proofs about ClusterRegistry for any number of names, kubeconfigs,      *)
(* callers, managers and failures: a running manager is registered, a      *)
(* borrowed client is live, Ensure delivers what it reports, and the       *)
(* registry implements ManagerRegistry.                                    *)
(***************************************************************************)
EXTENDS ClusterRegistry, TLAPS

\* Entries that have not been allocated are untouched.
Fresh(e) ==
    /\ state[e] = "unused" /\ app[e] = "new" /\ ~gate[e]
    /\ starter[e] = "none" /\ stopper[e] = "none" /\ ~stopErr[e]

\* How the parts of an allocated entry go together.
LifeInv(e) ==
    /\ name[e] \in Names
    /\ state[e] # "unused" /\ starter[e] # "none"
    /\ state[e] # "stopped" => clusters[name[e]] = e
    /\ stopper[e] = "none" <=> state[e] \in {"starting", "ready"}
    /\ app[e] = "new" <=> starter[e] = "start"
    /\ app[e] = "down" => stopper[e] \in {"publish", "release", "done"}
    /\ stopper[e] \notin {"release", "done"} => ~stopErr[e] /\ state[e] # "stopped"
    /\ stopper[e] \in {"release", "done"} =>
           /\ app[e] = "down" <=> state[e] = "stopped"
           /\ app[e] = "down" <=> ~stopErr[e]
    /\ state[e] = "starting" => starter[e] \in {"start", "publish"}
    /\ state[e] = "ready" =>
           starter[e] \in {"release", "close", "done"} /\ desired[e] = asked[e]

\* The two goroutines of an entry hold its gate one after the other.
GateInv(e) ==
    /\ starter[e] \in {"start", "publish", "release"} =>
           gate[e] /\ stopper[e] \in {"none", "gate"}
    /\ stopper[e] \in {"stop", "publish", "release"} =>
           gate[e] /\ starter[e] \in {"close", "done"}

EntryInv == \A e \in Entries : IF e > used THEN Fresh(e) ELSE LifeInv(e) /\ GateInv(e)

MapInv ==
    \A n \in Names : clusters[n] # Nobody =>
        /\ clusters[n] \in Entries /\ clusters[n] <= used
        /\ name[clusters[n]] = n /\ state[clusters[n]] # "stopped"

\* A callback holds the gate, alone, and nothing has happened to its manager.
CallbackInv ==
    \A k \in Callers : caller[k].op = "callback" =>
        LET e == caller[k].entry IN
        /\ gate[e]
        /\ starter[e] \in {"close", "done"} /\ stopper[e] \in {"none", "gate"}
        /\ \A j \in Callers \ {k} : caller[j].op = "callback" => caller[j].entry # e

\* A caller that waits, or runs a callback, refers to an allocated entry of its
\* name; the one that had it started asked for its own kubeconfig.
CallerInv ==
    \A k \in Callers : caller[k].op # "idle" =>
        /\ caller[k].entry \in Entries /\ caller[k].entry <= used
        /\ caller[k].name = name[caller[k].entry] /\ caller[k].name \in Names
        /\ caller[k].op = "await" => asked[caller[k].entry] = caller[k].config

IInv == TypeOK /\ EntryInv /\ MapInv /\ CallbackInv /\ CallerInv

--------------------------------------------------------------------------------
USE CallersAssumption, EntriesAssumption

LEMMA InitIInv == Init => IInv
<1> SUFFICES ASSUME Init PROVE IInv
    OBVIOUS
<1>1. Idle \in CallerStates
    BY DEF Idle, CallerStates
<1>2. TypeOK
    BY SMTT(20), SMTT(40), <1>1 DEF Init, TypeOK, States, StarterSteps, StopperSteps
<1>3. EntryInv
    BY SMTT(20), SMTT(40) DEF Init, EntryInv, Fresh, Entries
<1>4. MapInv
    BY DEF Init, MapInv
<1>5. CallbackInv /\ CallerInv
    BY DEF Init, CallbackInv, CallerInv, Idle
<1> QED BY <1>2, <1>3, <1>4, <1>5 DEF IInv

(* Each action preserves the invariant. *)

LEMMA StarterStep ==
    ASSUME IInv, NEW e \in Entries, StarterNext(e)
    PROVE  IInv'
<1>1. ASSUME NEW fails \in BOOLEAN, AppStart(e, fails) PROVE IInv'
  <2>1. TypeOK'
    BY SMTT(20), SMTT(40), <1>1 DEF AppStart, IInv, TypeOK, StarterSteps
  <2>2. EntryInv'
    BY SMTT(20), SMTT(40), <1>1 DEF AppStart, IInv, TypeOK, StarterSteps, EntryInv, Fresh, LifeInv, GateInv,
       Entries
  <2>3. MapInv'
    BY <1>1 DEF AppStart, IInv, MapInv
  <2>4. CallbackInv' /\ CallerInv'
    BY Zenon, <1>1 DEF AppStart, IInv, TypeOK, CallbackInv, CallerInv
  <2> QED BY <2>1, <2>2, <2>3, <2>4 DEF IInv
<1>2. ASSUME StartPublish(e) PROVE IInv'
  <2>1. TypeOK'
    BY SMTT(20), SMTT(40), <1>2 DEF StartPublish, StopLocked, IInv, TypeOK, StarterSteps, StopperSteps, States
  <2>2. EntryInv'
    BY SMTT(20), SMTT(40), <1>2 DEF StartPublish, StopLocked, IInv, TypeOK, EntryInv, Fresh, LifeInv,
       GateInv, Entries
  <2>3. MapInv'
    BY <1>2 DEF StartPublish, StopLocked, IInv, TypeOK, MapInv
  <2>4. CallbackInv' /\ CallerInv'
    BY SMTT(20), SMTT(40), <1>2 DEF StartPublish, StopLocked, IInv, TypeOK, CallbackInv, CallerInv
  <2> QED BY <2>1, <2>2, <2>3, <2>4 DEF IInv
<1>3. ASSUME StartRelease(e) PROVE IInv'
  <2>1. TypeOK'
    BY <1>3 DEF StartRelease, IInv, TypeOK, StarterSteps, StopperSteps, States
  <2>2. EntryInv'
    BY SMTT(20), SMTT(40), <1>3 DEF StartRelease, IInv, TypeOK, EntryInv, Fresh, LifeInv, GateInv, Entries
  <2>3. MapInv'
    BY <1>3 DEF StartRelease, IInv, TypeOK, EntryInv, LifeInv, MapInv, Entries
  <2>4. CallbackInv'
    BY SMTT(20), SMTT(40), <1>3 DEF StartRelease, IInv, TypeOK, EntryInv, LifeInv, GateInv, MapInv,
       CallbackInv, CallerInv, Entries
  <2>5. CallerInv'
    BY <1>3 DEF StartRelease, IInv, TypeOK, MapInv, CallerInv, Entries
  <2> QED BY <2>1, <2>2, <2>3, <2>4, <2>5 DEF IInv
<1>4. ASSUME StartClose(e) PROVE IInv'
  <2>1. TypeOK'
    BY <1>4 DEF StartClose, StoppedClosed, IInv, TypeOK, StarterSteps, StopperSteps, States
  <2>2. EntryInv'
    BY SMTT(20), SMTT(40), <1>4 DEF StartClose, StoppedClosed, IInv, TypeOK, EntryInv, Fresh, LifeInv,
       GateInv, Entries
  <2>3. MapInv'
    BY <1>4 DEF StartClose, StoppedClosed, IInv, TypeOK, EntryInv, LifeInv, MapInv, Entries
  <2>4. CallbackInv'
    BY SMTT(20), SMTT(40), <1>4 DEF StartClose, StoppedClosed, IInv, TypeOK, EntryInv, LifeInv, GateInv,
       MapInv, CallbackInv, CallerInv, Entries
  <2>5. CallerInv'
    BY <1>4 DEF StartClose, StoppedClosed, IInv, TypeOK, MapInv, CallerInv, Entries
  <2> QED BY <2>1, <2>2, <2>3, <2>4, <2>5 DEF IInv
<1> QED BY <1>1, <1>2, <1>3, <1>4 DEF StarterNext

LEMMA StopperStep ==
    ASSUME IInv, NEW e \in Entries, StopperNext(e)
    PROVE  IInv'
<1>1. ASSUME StopAcquire(e) PROVE IInv'
  <2>1. TypeOK'
    BY <1>1 DEF StopAcquire, IInv, TypeOK, StarterSteps, StopperSteps, States
  <2>2. EntryInv'
    BY SMTT(20), SMTT(40), <1>1 DEF StopAcquire, IInv, TypeOK, StarterSteps, EntryInv, Fresh, LifeInv,
       GateInv, Entries
  <2>3. MapInv'
    BY <1>1 DEF StopAcquire, IInv, TypeOK, EntryInv, LifeInv, MapInv, Entries
  <2>4. CallbackInv'
    BY SMTT(20), SMTT(40), <1>1 DEF StopAcquire, IInv, TypeOK, EntryInv, LifeInv, GateInv, MapInv,
       CallbackInv, CallerInv, Entries
  <2>5. CallerInv'
    BY <1>1 DEF StopAcquire, IInv, TypeOK, MapInv, CallerInv, Entries
  <2> QED BY <2>1, <2>2, <2>3, <2>4, <2>5 DEF IInv
<1>2. ASSUME NEW fails \in BOOLEAN, AppStop(e, fails) PROVE IInv'
  <2>1. TypeOK'
    BY SMTT(20), SMTT(40), <1>2 DEF AppStop, IInv, TypeOK, StarterSteps, StopperSteps, States
  <2>2. EntryInv'
    BY SMTT(20), SMTT(40), <1>2 DEF AppStop, IInv, TypeOK, EntryInv, Fresh, LifeInv, GateInv, Entries
  <2>3. MapInv'
    BY <1>2 DEF AppStop, IInv, TypeOK, EntryInv, LifeInv, MapInv, Entries
  <2>4. CallbackInv'
    BY SMTT(20), SMTT(40), <1>2 DEF AppStop, IInv, TypeOK, EntryInv, LifeInv, GateInv, MapInv, CallbackInv,
       CallerInv, Entries
  <2>5. CallerInv'
    BY <1>2 DEF AppStop, IInv, TypeOK, MapInv, CallerInv, Entries
  <2> QED BY <2>1, <2>2, <2>3, <2>4, <2>5 DEF IInv
<1>3. ASSUME StopPublish(e) PROVE IInv'
  <2>1. TypeOK'
    BY SMTT(20), SMTT(40), <1>3 DEF StopPublish, IInv, TypeOK, StarterSteps, StopperSteps, States
  <2>2. EntryInv'
    BY SMTT(20), SMTT(40), <1>3 DEF StopPublish, IInv, TypeOK, EntryInv, Fresh, LifeInv, GateInv, Entries
  <2>3. MapInv'
    BY SMTT(20), SMTT(40), <1>3 DEF StopPublish, IInv, TypeOK, EntryInv, LifeInv, MapInv, Entries
  <2>4. CallbackInv'
    BY SMTT(20), SMTT(40), <1>3 DEF StopPublish, IInv, TypeOK, EntryInv, LifeInv, GateInv, MapInv,
       CallbackInv, CallerInv, Entries
  <2>5. CallerInv'
    BY Zenon, <1>3 DEF StopPublish, IInv, TypeOK, MapInv, CallerInv, Entries
  <2> QED BY <2>1, <2>2, <2>3, <2>4, <2>5 DEF IInv
<1>4. ASSUME StopRelease(e) PROVE IInv'
  <2>1. TypeOK'
    BY <1>4 DEF StopRelease, IInv, TypeOK, StarterSteps, StopperSteps, States
  <2>2. EntryInv'
    BY SMTT(20), SMTT(40), <1>4 DEF StopRelease, IInv, TypeOK, EntryInv, Fresh, LifeInv, GateInv, Entries
  <2>3. MapInv'
    BY <1>4 DEF StopRelease, IInv, TypeOK, EntryInv, LifeInv, MapInv, Entries
  <2>4. CallbackInv'
    BY SMTT(20), SMTT(40), <1>4 DEF StopRelease, IInv, TypeOK, EntryInv, LifeInv, GateInv, MapInv,
       CallbackInv, CallerInv, Entries
  <2>5. CallerInv'
    BY <1>4 DEF StopRelease, IInv, TypeOK, MapInv, CallerInv, Entries
  <2> QED BY <2>1, <2>2, <2>3, <2>4, <2>5 DEF IInv
<1> QED BY <1>1, <1>2, <1>3, <1>4 DEF StopperNext

LEMMA ReserveStep ==
    ASSUME IInv, NEW k \in Callers, NEW n \in Names, NEW c \in Configs \cup {NoConfig},
           caller[k].op # "callback", clusters[n] = Nobody, ReserveLocked(k, n, c)
    PROVE  IInv'
<1>1. TypeOK'
    BY SMTT(20), SMTT(40) DEF ReserveLocked, IInv, TypeOK, StarterSteps, States, Call, CallerStates, Entries
<1>2. EntryInv'
    BY SMTT(20), SMTT(40) DEF ReserveLocked, IInv, TypeOK, EntryInv, Fresh, LifeInv, GateInv, Entries,
       Call, CallerStates, Nobody
<1>3. MapInv'
    BY SMTT(20), SMTT(40) DEF ReserveLocked, IInv, TypeOK, EntryInv, LifeInv, MapInv, Entries, Call,
       CallerStates, Nobody
<1>4. CallbackInv'
    BY SMTT(20), SMTT(40) DEF ReserveLocked, IInv, TypeOK, EntryInv, LifeInv, GateInv, MapInv, CallbackInv,
       CallerInv, Entries, Call, CallerStates, Nobody
<1>5. CallerInv'
    BY SMTT(20), SMTT(40) DEF ReserveLocked, IInv, TypeOK, MapInv, CallerInv, Entries, Call, CallerStates,
       Nobody
<1> QED BY <1>1, <1>2, <1>3, <1>4, <1>5 DEF IInv

LEMMA CallerStep ==
    ASSUME IInv, NEW k \in Callers, CallerNext(k)
    PROVE  IInv'
<1>1. ASSUME NEW n \in Names, WithClient(k, n) PROVE IInv'
  <2>1. TypeOK'
    BY <1>1 DEF WithClient, IInv, TypeOK, StarterSteps, StopperSteps, States, Idle,
       Call, CallerStates, Nobody
  <2>2. EntryInv'
    BY SMTT(20), SMTT(40), <1>1 DEF WithClient, IInv, TypeOK, EntryInv, Fresh, LifeInv, GateInv, Entries,
       Idle, Call, CallerStates, Nobody
  <2>3. MapInv'
    BY <1>1 DEF WithClient, IInv, TypeOK, EntryInv, LifeInv, MapInv, Entries, Idle,
       Call, CallerStates, Nobody
  <2>4. CallbackInv'
    BY SMTT(20), SMTT(40), <1>1 DEF WithClient, IInv, TypeOK, EntryInv, LifeInv, GateInv, MapInv,
       CallbackInv, CallerInv, Entries, Idle, Call, CallerStates, Nobody
  <2>5. CallerInv'
    BY <1>1 DEF WithClient, IInv, TypeOK, MapInv, CallerInv, Entries, Idle, Call,
       CallerStates, Nobody
  <2> QED BY <2>1, <2>2, <2>3, <2>4, <2>5 DEF IInv
<1>2. ASSUME NEW n \in Names, Stop(k, n) PROVE IInv'
  <2>1. TypeOK'
    BY ZenonT(60), <1>2 DEF Stop, StopLocked, IInv, TypeOK, StarterSteps, StopperSteps, States,
       Idle, Call, CallerStates, Nobody
  <2>2. EntryInv'
    BY SMTT(20), SMTT(40), <1>2 DEF Stop, StopLocked, IInv, TypeOK, EntryInv, Fresh, LifeInv, GateInv,
       MapInv, Entries
  <2>3. MapInv'
    BY SMTT(20), SMTT(40), <1>2 DEF Stop, StopLocked, IInv, TypeOK, EntryInv, LifeInv, MapInv, Entries,
       Idle, Call, CallerStates, Nobody
  <2>4. CallbackInv'
    BY SMTT(20), SMTT(40), <1>2 DEF Stop, StopLocked, IInv, TypeOK, EntryInv, LifeInv, GateInv, MapInv,
       CallbackInv, CallerInv, Entries, Idle, Call, CallerStates, Nobody
  <2>5. CallerInv'
    BY <1>2 DEF Stop, StopLocked, IInv, TypeOK, MapInv, CallerInv, Entries, Idle, Call,
       CallerStates, Nobody
  <2> QED BY <2>1, <2>2, <2>3, <2>4, <2>5 DEF IInv
<1>3. ASSUME NEW n \in Names, NEW c \in Configs, EnsureReplace(k, n, c) PROVE IInv'
  <2>1. TypeOK'
    BY SMTT(30), <1>3 DEF EnsureReplace, StopLocked, IInv, TypeOK, StarterSteps, StopperSteps,
       States, Idle, Call, CallerStates, Nobody
  <2>2. EntryInv'
    BY SMTT(20), SMTT(40), <1>3 DEF EnsureReplace, StopLocked, IInv, TypeOK, EntryInv, Fresh, LifeInv,
       GateInv, Entries, Idle, Call, CallerStates, Nobody
  <2>3. MapInv'
    BY SMTT(20), SMTT(40), <1>3 DEF EnsureReplace, StopLocked, IInv, TypeOK, EntryInv, LifeInv, MapInv,
       Entries, Idle, Call, CallerStates, Nobody
  <2>4. CallbackInv'
    BY SMTT(20), SMTT(40), <1>3 DEF EnsureReplace, StopLocked, IInv, TypeOK, EntryInv, LifeInv, GateInv,
       MapInv, CallbackInv, CallerInv, Entries, Idle, Call, CallerStates, Nobody
  <2>5. CallerInv'
    BY <1>3 DEF EnsureReplace, StopLocked, IInv, TypeOK, MapInv, CallerInv, Entries,
       Idle, Call, CallerStates, Nobody
  <2> QED BY <2>1, <2>2, <2>3, <2>4, <2>5 DEF IInv
<1>4. ASSUME CallbackReturns(k) PROVE IInv'
  <2>1. TypeOK'
    BY ZenonT(60), <1>4 DEF CallbackReturns, Return, IInv, TypeOK, StarterSteps, StopperSteps,
       States, Idle, Call, CallerStates, Nobody
  <2>2. EntryInv'
    <3> DEFINE d == caller[k].entry
    <3>1. /\ d \in Entries /\ ~(d > used)
          /\ starter[d] \in {"close", "done"} /\ stopper[d] \in {"none", "gate"}
      BY SMTT(20), SMTT(40), <1>4 DEF CallbackReturns, IInv, TypeOK, CallbackInv, CallerInv, Entries
    <3>2. /\ gate' = [gate EXCEPT ![d] = FALSE]
          /\ UNCHANGED <<clusters, name, state, asked, desired, app, starter, stopper,
                         stopErr, used>>
      BY <1>4 DEF CallbackReturns
    <3> HIDE DEF d
    <3> QED BY SMTT(20), SMTT(40), <3>1, <3>2 DEF IInv, TypeOK, EntryInv, Fresh, LifeInv, GateInv
  <2>3. MapInv'
    BY <1>4 DEF CallbackReturns, Return, IInv, TypeOK, EntryInv, LifeInv, MapInv,
       Entries, Idle, Call, CallerStates, Nobody
  <2>4. CallbackInv'
    BY SMTT(20), SMTT(40), <1>4 DEF CallbackReturns, Return, IInv, TypeOK, EntryInv, LifeInv, GateInv,
       MapInv, CallbackInv, CallerInv, Entries, Idle, Call, CallerStates, Nobody
  <2>5. CallerInv'
    BY ZenonT(60), <1>4 DEF CallbackReturns, Return, IInv, TypeOK, MapInv, CallerInv, Entries, Idle,
       Call, CallerStates, Nobody
  <2> QED BY <2>1, <2>2, <2>3, <2>4, <2>5 DEF IInv
<1>5. ASSUME StopReturns(k) PROVE IInv'
  <2>1. TypeOK'
    BY Zenon, <1>5 DEF StopReturns, Return, entryVars, IInv, TypeOK, StarterSteps,
       StopperSteps, States, Idle, Call, CallerStates, Nobody
  <2>2. EntryInv'
    BY SMTT(20), SMTT(40), <1>5 DEF StopReturns, Return, entryVars, IInv, TypeOK, EntryInv, Fresh, LifeInv,
       GateInv, Entries, Idle, Call, CallerStates, Nobody
  <2>3. MapInv'
    BY <1>5 DEF StopReturns, Return, entryVars, IInv, TypeOK, EntryInv, LifeInv, MapInv,
       Entries, Idle, Call, CallerStates, Nobody
  <2>4. CallbackInv'
    BY SMTT(20), SMTT(40), <1>5 DEF StopReturns, Return, entryVars, IInv, TypeOK, EntryInv, LifeInv,
       GateInv, MapInv, CallbackInv, CallerInv, Entries, Idle, Call, CallerStates,
       Nobody
  <2>5. CallerInv'
    BY ZenonT(60), <1>5 DEF StopReturns, Return, entryVars, IInv, TypeOK, MapInv, CallerInv,
       Entries, Idle, Call, CallerStates, Nobody
  <2> QED BY <2>1, <2>2, <2>3, <2>4, <2>5 DEF IInv
<1>6. ASSUME EnsureStarted(k) PROVE IInv'
  <2>1. TypeOK'
    BY Zenon, <1>6 DEF EnsureStarted, Return, entryVars, IInv, TypeOK, StarterSteps,
       StopperSteps, States, Idle, Call, CallerStates, Nobody
  <2>2. EntryInv'
    BY SMTT(20), SMTT(40), <1>6 DEF EnsureStarted, Return, entryVars, IInv, TypeOK, EntryInv, Fresh,
       LifeInv, GateInv, Entries, Idle, Call, CallerStates, Nobody
  <2>3. MapInv'
    BY <1>6 DEF EnsureStarted, Return, entryVars, IInv, TypeOK, EntryInv, LifeInv,
       MapInv, Entries, Idle, Call, CallerStates, Nobody
  <2>4. CallbackInv'
    BY SMTT(20), SMTT(40), <1>6 DEF EnsureStarted, Return, entryVars, IInv, TypeOK, EntryInv, LifeInv,
       GateInv, MapInv, CallbackInv, CallerInv, Entries, Idle, Call, CallerStates,
       Nobody
  <2>5. CallerInv'
    BY <1>6 DEF EnsureStarted, Return, entryVars, IInv, TypeOK, MapInv, CallerInv,
       Entries, Idle, Call, CallerStates, Nobody
  <2> QED BY <2>1, <2>2, <2>3, <2>4, <2>5 DEF IInv
<1>7. ASSUME GiveUp(k) PROVE IInv'
  <2>1. TypeOK'
    BY ZenonT(60), <1>7 DEF GiveUp, Return, StopLocked, IInv, TypeOK, StarterSteps, StopperSteps,
       States, Idle, Call, CallerStates, Nobody
  <2>2. EntryInv'
    BY SMTT(20), SMTT(40), <1>7 DEF GiveUp, StopLocked, IInv, TypeOK, EntryInv, Fresh, LifeInv, GateInv,
       CallerInv, Entries
  <2>3. MapInv'
    BY SMTT(20), SMTT(40), <1>7 DEF GiveUp, Return, StopLocked, IInv, TypeOK, EntryInv, LifeInv, MapInv,
       Entries, Idle, Call, CallerStates, Nobody
  <2>4. CallbackInv'
    BY SMTT(20), SMTT(40), <1>7 DEF GiveUp, Return, StopLocked, IInv, TypeOK, EntryInv, LifeInv, GateInv,
       MapInv, CallbackInv, CallerInv, Entries, Idle, Call, CallerStates, Nobody
  <2>5. CallerInv'
    BY ZenonT(60), <1>7 DEF GiveUp, Return, StopLocked, IInv, TypeOK, MapInv, CallerInv, Entries,
       Idle, Call, CallerStates, Nobody
  <2> QED BY <2>1, <2>2, <2>3, <2>4, <2>5 DEF IInv
<1>8. ASSUME NEW n \in Names, Spawn(k, n) PROVE IInv'
    BY <1>8, ReserveStep DEF Spawn
<1>9. ASSUME NEW n \in Names, NEW c \in Configs, EnsureNew(k, n, c) PROVE IInv'
    BY <1>9, ReserveStep DEF EnsureNew
<1>10. ASSUME EnsureReplaced(k) PROVE IInv'
  <2> DEFINE n == caller[k].name
             c == caller[k].config
             ok == /\ ~stopErr[caller[k].entry]
                   /\ state[clusters[n]] = "ready" /\ desired[clusters[n]] = c
  <2>1. caller[k].op = "replace"
    BY Zenon, <1>10 DEF EnsureReplaced
  <2>2. n \in Names /\ c \in Configs \cup {NoConfig}
    BY <2>1 DEF IInv, TypeOK, CallerInv, CallerStates
  <2>3. CASE clusters[n] = Nobody /\ ReserveLocked(k, n, c)
    BY <2>1, <2>2, <2>3, ReserveStep
  <2>4. CASE Return(k, ok) /\ UNCHANGED <<clusters, entryVars, used, failures>>
    <3> HIDE DEF ok
    <3>0. ok \in BOOLEAN
      BY DEF ok
    <3>1. TypeOK'
      BY <2>4, <3>0 DEF Return, Idle, entryVars, IInv, TypeOK, CallerStates
    <3>2. EntryInv' /\ MapInv'
      BY SMTT(20), SMTT(40), <2>4 DEF entryVars, IInv, EntryInv, Fresh, LifeInv, GateInv, MapInv
    <3>3. CallbackInv' /\ CallerInv'
      BY SMTT(20), SMTT(40), <2>4 DEF Return, Idle, entryVars, IInv, TypeOK, CallbackInv, CallerInv
    <3> QED BY <3>1, <3>2, <3>3 DEF IInv
  <2> QED BY Zenon, <1>10, <2>3, <2>4 DEF EnsureReplaced
<1> QED BY <1>1, <1>2, <1>3, <1>4, <1>5, <1>6, <1>7, <1>8, <1>9, <1>10 DEF CallerNext

LEMMA NextIInv == IInv /\ [Next]_vars => IInv'
<1> SUFFICES ASSUME IInv, [Next]_vars PROVE IInv'
    OBVIOUS
<1>1. CASE Next
    BY SMTT(30), <1>1, StarterStep, StopperStep, CallerStep DEF Next
<1>2. CASE UNCHANGED vars
  <2>1. TypeOK'
    BY Zenon, <1>2 DEF vars, entryVars, IInv, TypeOK
  <2>2. EntryInv'
    BY <1>2 DEF vars, entryVars, IInv, EntryInv, Fresh, LifeInv, GateInv
  <2>3. MapInv'
    BY Zenon, <1>2 DEF vars, entryVars, IInv, MapInv
  <2>4. CallbackInv' /\ CallerInv'
    BY Zenon, <1>2 DEF vars, entryVars, IInv, CallbackInv, CallerInv
  <2> QED BY Zenon, <2>1, <2>2, <2>3, <2>4 DEF IInv
<1> QED BY <1>1, <1>2

LEMMA Inductive == Spec => []IInv
BY InitIInv, NextIInv, PTL DEF Spec

\* The variables of the registry hold what TypeOK says.
THEOREM RegistryTypes == Spec => []TypeOK
<1>1. IInv => TypeOK
    BY DEF IInv
<1> QED BY <1>1, Inductive, PTL

--------------------------------------------------------------------------------
\* An entry that some name refers to, or that a callback uses, and its manager.
LEMMA Registered ==
    ASSUME IInv, NEW n \in Names, clusters[n] # Nobody
    PROVE  /\ clusters[n] \in Entries /\ name[clusters[n]] = n
           /\ LifeInv(clusters[n]) /\ GateInv(clusters[n])
BY SMTT(20), SMTT(40) DEF IInv, TypeOK, MapInv, EntryInv, Entries

\* The name stays taken until the manager has gone (stopLocked deletes it only
\* after app.Stop): what runs is registered.
THEOREM ManagersRegistered == Spec => []RunningIsRegistered
<1>1. ASSUME IInv, NEW e \in Entries, app[e] = "alive" PROVE clusters[name[e]] = e
  <2>1. LifeInv(e)
    BY <1>1 DEF IInv, EntryInv, Fresh
  <2> QED BY Zenon, <1>1, <2>1 DEF LifeInv
<1>2. IInv => RunningIsRegistered
    BY Zenon, <1>1 DEF RunningIsRegistered
<1> QED BY <1>2, Inductive, PTL

\* A callback of WithClient has its manager for itself and the manager is live,
\* whatever other callers do: the gate keeps the stopping goroutine out.
THEOREM ClientsLive == Spec => []BorrowedIsLive
<1>1. IInv => BorrowedIsLive
  <2> SUFFICES ASSUME IInv, NEW k \in Callers, caller[k].op = "callback"
               PROVE  /\ app[caller[k].entry] = "alive"
                      /\ clusters[caller[k].name] = caller[k].entry
                      /\ \A j \in Callers \ {k} :
                            caller[j].op = "callback" => caller[j].entry # caller[k].entry
    BY DEF BorrowedIsLive
  <2>1. caller[k].entry \in Entries /\ caller[k].name = name[caller[k].entry]
    BY DEF IInv, CallerInv
  <2>2. ~(caller[k].entry > used)
    BY SMTT(20), SMTT(40), <2>1 DEF IInv, TypeOK, CallerInv, Entries
  <2>3. LifeInv(caller[k].entry)
    BY <2>1, <2>2 DEF IInv, EntryInv
  <2> QED BY ZenonT(60), <2>1, <2>3 DEF IInv, TypeOK, CallbackInv, LifeInv
<1> QED BY <1>1, Inductive, PTL

\* Ensure reports success, after having waited, only when the manager that it
\* leaves registered is ready, live and configured as asked: it looks again
\* under the lock.
THEOREM EnsureDelivers == Spec => EnsuredIsConfigured
<1> DEFINE Delivered(k) == LET e == clusters[caller[k].name] IN
                           /\ e # Nobody /\ state[e] = "ready" /\ app[e] = "alive"
                           /\ desired[e] = caller[k].config
           Returned(k) == /\ caller[k].op \in {"replace", "await"} /\ caller[k].config # NoConfig
                          /\ caller'[k].op = "idle" /\ caller'[k].ok
<1>1. ASSUME IInv, NEW k \in Callers, clusters[caller[k].name] # Nobody,
             caller[k].name \in Names, state[clusters[caller[k].name]] = "ready"
      PROVE  /\ app[clusters[caller[k].name]] = "alive"
             /\ desired[clusters[caller[k].name]] = asked[clusters[caller[k].name]]
    BY SMTT(20), SMTT(40), <1>1, Registered DEF LifeInv, GateInv, IInv, TypeOK
<1>2. ASSUME IInv, Next, NEW k \in Callers, Returned(k) PROVE Delivered(k)
  <2>1. caller[k].name \in Names
    BY Zenon, <1>2 DEF IInv, CallerInv
  <2>0. caller \in [Callers -> CallerStates]
    BY Zenon, <1>2 DEF IInv, TypeOK
  <2>2. CASE EnsureReplaced(k)
    <3>1. ~ReserveLocked(k, caller[k].name, caller[k].config)
      <4>1. ASSUME NEW c, caller' = [caller EXCEPT ![k] = Call("await", caller[k].name, c, caller[k].config)]
            PROVE  FALSE
        BY <1>2, <2>0, <4>1 DEF Call
      <4> QED
        BY Zenon, <4>1 DEF ReserveLocked
    <3>2. PICK ok \in BOOLEAN :
             /\ Return(k, ok)
             /\ ok => /\ clusters[caller[k].name] # Nobody
                      /\ state[clusters[caller[k].name]] = "ready"
                      /\ desired[clusters[caller[k].name]] = caller[k].config
      BY Zenon, <2>2, <3>1 DEF EnsureReplaced
    <3>3. ok
      BY <1>2, <2>0, <3>2 DEF Return, Idle
    <3> QED
      BY Zenon, <1>1, <1>2, <2>1, <3>2, <3>3
  <2>3. CASE EnsureStarted(k)
    <3>1. PICK ok \in BOOLEAN :
             /\ Return(k, ok)
             /\ ok => clusters[caller[k].name] = caller[k].entry /\ state[caller[k].entry] = "ready"
      BY Zenon, <1>2, <2>3 DEF EnsureStarted
    <3>2. ok
      BY <1>2, <2>0, <3>1 DEF Return, Idle
    <3>3. /\ caller[k].entry \in Entries /\ caller[k].entry # Nobody
          /\ asked[caller[k].entry] = caller[k].config
      <4>1. caller[k].entry \in Entries /\ asked[caller[k].entry] = caller[k].config
        BY ZenonT(60), <1>2, <2>3 DEF IInv, CallerInv, EnsureStarted
      <4> QED
        BY SMTT(20), SMTT(40), <4>1 DEF Entries, Nobody
    <3> QED
      BY Zenon, <1>1, <1>2, <2>1, <3>1, <3>2, <3>3
  <2>4. caller'[k] # caller[k]
    BY <1>2
  <2>5. ASSUME NEW e \in Entries, StarterNext(e) \/ StopperNext(e) PROVE caller' = caller
    BY Zenon, <2>5 DEF StarterNext, AppStart, StartPublish, StartRelease, StartClose,
                StopperNext, StopAcquire, AppStop, StopPublish, StopRelease
  <2>6. ASSUME NEW j \in Callers, CallerNext(j) PROVE EnsureReplaced(k) \/ EnsureStarted(k)
    <3>0. \A i \in Callers \ {j} : caller'[i] = caller[i]
      <4>1. PICK c : caller' = [caller EXCEPT ![j] = c]
        BY ZenonT(60), <2>6 DEF CallerNext, WithClient, CallbackReturns, Stop, StopReturns,
           EnsureNew, EnsureReplace, EnsureReplaced, EnsureStarted, GiveUp, Spawn,
           ReserveLocked, Return
      <4>2. caller \in [Callers -> CallerStates]
        BY Zenon, <1>2 DEF IInv, TypeOK
      <4> QED
        BY Zenon, <4>1, <4>2
    <3>1. j = k
      BY <2>4, <3>0
    <3>2. ~GiveUp(k)
      BY <1>2 DEF GiveUp, Return, Idle, IInv, TypeOK
    <3> QED BY ZenonT(60), <1>2, <2>6, <3>1, <3>2 DEF CallerNext, WithClient, CallbackReturns, Stop,
         StopReturns, EnsureNew, EnsureReplace, Spawn
  <2> QED BY Zenon, <1>2, <2>2, <2>3, <2>4, <2>5, <2>6 DEF Next
<1>3. IInv /\ [Next]_vars => [\A k \in Callers : Returned(k) => Delivered(k)]_vars
    BY <1>2
<1> QED BY <1>3, Inductive, PTL DEF Spec, EnsuredIsConfigured
--------------------------------------------------------------------------------
(* The registry implements ManagerRegistry: every step changes what is seen *)
(* of at most one name, and there as the promise allows.                    *)

\* Nothing is seen to change under the name m.
Same(m) ==
    /\ PhaseOf(m)' = PhaseOf(m) /\ ConfigOf(m)' = ConfigOf(m)
    /\ IsRunning(m)' <=> IsRunning(m)
    /\ IsBorrowed(m)' <=> IsBorrowed(m)

\* The abstract state, and a step or a stutter of it.
barVars == <<[n \in Names |-> PhaseOf(n)], {n \in Names : IsRunning(n)},
             {n \in Names : IsBorrowed(n)}, [n \in Names |-> ConfigOf(n)]>>
Allowed == Promise!RegistryNext \/ UNCHANGED barVars

LEMMA Stutter == (\A m \in Names : Same(m)) => Allowed
BY DEF Same, Allowed, barVars

\* The entry that a callback uses is the one registered.
LEMMA CallbackRegistered ==
    ASSUME IInv, NEW k \in Callers, caller[k].op = "callback"
    PROVE  /\ caller[k].name \in Names /\ caller[k].entry \in Entries
           /\ clusters[caller[k].name] = caller[k].entry
           /\ LifeInv(caller[k].entry)
<1>1. caller[k].entry \in Entries /\ caller[k].name = name[caller[k].entry] /\ caller[k].name \in Names
    BY DEF IInv, CallerInv
<1>2. ~(caller[k].entry > used)
    BY SMTT(20), SMTT(40), <1>1 DEF IInv, TypeOK, CallerInv, Entries
<1>3. LifeInv(caller[k].entry)
    BY <1>1, <1>2 DEF IInv, EntryInv
<1> QED BY Zenon, <1>1, <1>3 DEF IInv, CallbackInv, LifeInv

\* A step of entry e that changes neither the map nor the callers leaves what
\* is seen of every other name as it is.
LEMMA OtherNames ==
    ASSUME IInv, NEW e \in Entries, NEW m \in Names, m # name[e],
           clusters' = clusters, caller' = caller,
           \A d \in Entries \ {e} : /\ app'[d] = app[d] /\ stopErr'[d] = stopErr[d]
                                    /\ state'[d] = state[d] /\ desired'[d] = desired[d]
    PROVE  Same(m)
<1>1. clusters[m] # Nobody => clusters[m] \in Entries /\ clusters[m] # e
    BY DEF IInv, MapInv
<1> QED BY <1>1 DEF Same, PhaseOf, ConfigOf, IsRunning, IsBorrowed

LEMMA AppStartRefines ==
    ASSUME IInv, NEW e \in Entries, NEW fails \in BOOLEAN, AppStart(e, fails)
    PROVE  Allowed
<1>1. LifeInv(e) /\ GateInv(e)
    BY DEF AppStart, IInv, EntryInv, Fresh
<1> PICK n \in Names : n = name[e]
    BY <1>1 DEF LifeInv
<1>2. /\ clusters[n] = e /\ clusters' = clusters /\ e # Nobody
      /\ app[e] = "new" /\ app'[e] = "alive" /\ ~stopErr[e] /\ stopErr' = stopErr
      /\ state' = state /\ state[e] \in {"starting", "stopping"}
      /\ caller' = caller /\ desired' = desired
    BY SMTT(20), SMTT(40), <1>1 DEF AppStart, LifeInv, GateInv, IInv, TypeOK, States, Entries, Nobody
<1>3. \A m \in Names \ {n} : Same(m)
    BY <1>2, OtherNames DEF AppStart, IInv, TypeOK
<1>4. /\ PhaseOf(n) \in {"starting", "stopping"} /\ PhaseOf(n)' = PhaseOf(n)
      /\ ~IsRunning(n) /\ IsRunning(n)' /\ IsBorrowed(n)' = IsBorrowed(n)
      /\ ConfigOf(n)' = ConfigOf(n)
    BY Zenon, <1>2 DEF PhaseOf, IsRunning, IsBorrowed, ConfigOf
<1>5. Promise!Launch(n)
    BY ZenonT(60), <1>2, <1>3, <1>4 DEF Promise!Launch, Same
<1> QED BY Zenon, <1>2, <1>5 DEF Allowed, Promise!RegistryNext
\* Who holds the gate, or finds it free, is not in the way of a callback.
LEMMA NotBorrowed ==
    ASSUME IInv, NEW n \in Names, NEW e \in Entries, clusters[n] = e,
           ~gate[e] \/ stopper[e] \in {"stop", "publish", "release"}
    PROVE  ~IsBorrowed(n)
<1> SUFFICES ASSUME NEW k \in Callers, caller[k].op = "callback", caller[k].name = n PROVE FALSE
    BY DEF IsBorrowed
<1>1. caller[k].entry = e
    BY CallbackRegistered
<1> QED BY <1>1 DEF IInv, CallbackInv

\* stopLocked, in whatever critical section, closes admission at most.
LEMMA StopLockedRefines ==
    ASSUME IInv, NEW n \in Names, NEW e \in Entries, clusters[n] = e, StopLocked(e),
           clusters' = clusters, app' = app, stopErr' = stopErr, desired' = desired,
           \A m \in Names : IsBorrowed(m)' <=> IsBorrowed(m)
    PROVE  Allowed
<1>1. clusters[n] # Nobody
    BY SMTT(20), SMTT(40) DEF Entries, Nobody
<1>2. n = name[e] /\ LifeInv(e)
    BY <1>1, Registered
<1>3. \A m \in Names \ {n} : Same(m)
  <2> SUFFICES ASSUME NEW m \in Names \ {n} PROVE Same(m)
    OBVIOUS
  <2>1. clusters[m] # e
    BY Zenon, <1>1, <1>2 DEF IInv, MapInv
  <2> QED BY <2>1 DEF StopLocked, Same, PhaseOf, ConfigOf, IsRunning, IInv, TypeOK, MapInv
<1>4. CASE stopper[e] # "none"
  <2>1. Same(n)
    BY <1>4 DEF StopLocked, Same, PhaseOf, ConfigOf, IsRunning
  <2> QED BY <1>3, <2>1, Stutter
<1>5. CASE stopper[e] = "none"
  <2>1. /\ state[e] \in {"starting", "ready"} /\ state'[e] = "stopping"
        /\ app[e] # "down" /\ ~stopErr[e]
    BY Zenon, <1>2, <1>5 DEF StopLocked, LifeInv, IInv, TypeOK
  <2>2. /\ PhaseOf(n) \in {"starting", "ready"} /\ PhaseOf(n)' = "stopping"
        /\ IsRunning(n)' <=> IsRunning(n)
        /\ ConfigOf(n)' = NoConfig
    BY <1>1, <2>1 DEF PhaseOf, IsRunning, ConfigOf
  <2>3. Promise!Close(n)
    BY ZenonT(60), <1>3, <2>2 DEF Promise!Close, Same, NoConfig, Promise!NoConfig
  <2> QED BY <2>3 DEF Allowed, Promise!RegistryNext
<1> QED BY Zenon, <1>4, <1>5

LEMMA StartPublishRefines ==
    ASSUME IInv, NEW e \in Entries, StartPublish(e)
    PROVE  Allowed
<1>1. LifeInv(e) /\ GateInv(e)
    BY DEF StartPublish, IInv, EntryInv, Fresh
<1> PICK n \in Names : n = name[e]
    BY <1>1 DEF LifeInv
<1>2. /\ clusters[n] = e /\ clusters' = clusters /\ e # Nobody
      /\ app[e] = "alive" /\ ~stopErr[e] /\ app' = app /\ stopErr' = stopErr
      /\ caller' = caller
    BY SMTT(20), SMTT(40), <1>1 DEF StartPublish, LifeInv, GateInv, IInv, TypeOK, Entries, Nobody
<1>3. \A m \in Names : IsBorrowed(m)' <=> IsBorrowed(m)
    BY <1>2 DEF IsBorrowed
<1>4. CASE StopLocked(e) /\ desired' = desired
    BY Zenon, <1>2, <1>3, <1>4, StopLockedRefines
<1>5. CASE /\ state[e] = "starting" /\ state' = [state EXCEPT ![e] = "ready"]
           /\ desired' = [desired EXCEPT ![e] = asked[e]]
  <2>1. \A m \in Names \ {n} : Same(m)
    BY <1>2, <1>5, OtherNames DEF IInv, TypeOK
  <2>2. state'[e] = "ready" /\ desired'[e] = asked[e] /\ asked[e] \in Configs \cup {NoConfig}
    BY <1>5 DEF IInv, TypeOK
  <2>3. /\ PhaseOf(n) = "starting" /\ PhaseOf(n)' = "ready"
        /\ IsRunning(n) /\ IsRunning(n)' /\ ConfigOf(n)' = asked[e]
    BY Zenon, <1>2, <1>5, <2>2 DEF PhaseOf, IsRunning, ConfigOf
  <2>4. Promise!Open(n, asked[e])
    BY Zenon, <1>3, <2>1, <2>3 DEF Promise!Open, Same
  <2> QED BY Zenon, <2>2, <2>4 DEF Allowed, Promise!RegistryNext, NoConfig, Promise!NoConfig
<1>6. CASE UNCHANGED <<state, desired>>
    BY <1>2, <1>6, Stutter DEF Same, PhaseOf, IsRunning, IsBorrowed, ConfigOf
<1> QED BY <1>4, <1>5, <1>6 DEF StartPublish

LEMMA AppStopRefines ==
    ASSUME IInv, NEW e \in Entries, NEW fails \in BOOLEAN, AppStop(e, fails)
    PROVE  Allowed
<1>1. LifeInv(e) /\ GateInv(e)
    BY DEF AppStop, IInv, EntryInv, Fresh
<1> PICK n \in Names : n = name[e]
    BY <1>1 DEF LifeInv
<1>2. /\ clusters[n] = e /\ clusters' = clusters /\ e # Nobody /\ stopper[e] = "stop"
      /\ app[e] = "alive" /\ ~stopErr[e] /\ stopErr' = stopErr
      /\ state[e] = "stopping" /\ state' = state /\ caller' = caller /\ desired' = desired
    BY SMTT(20), SMTT(40), <1>1 DEF AppStop, LifeInv, GateInv, IInv, TypeOK, States, Entries, Nobody
<1>3. CASE fails
    BY <1>2, <1>3, Stutter DEF AppStop, Same, PhaseOf, IsRunning, IsBorrowed, ConfigOf
<1>4. CASE ~fails
  <2>1. \A m \in Names \ {n} : Same(m)
    BY <1>2, OtherNames DEF AppStop, IInv, TypeOK
  <2>2. app'[e] = "down"
    BY <1>4 DEF AppStop, IInv, TypeOK
  <2>3. /\ PhaseOf(n) = "stopping" /\ PhaseOf(n)' = "halted"
        /\ IsRunning(n) /\ ~IsRunning(n)' /\ ConfigOf(n)' = ConfigOf(n)
        /\ IsBorrowed(n)' <=> IsBorrowed(n)
    BY SMTT(30), <1>2, <2>2 DEF PhaseOf, IsRunning, IsBorrowed, ConfigOf
  <2>4. ~IsBorrowed(n)
    BY <1>2, NotBorrowed
  <2>5. Promise!Halt(n)
    BY <2>1, <2>3, <2>4 DEF Promise!Halt, Same
  <2> QED BY <2>5 DEF Allowed, Promise!RegistryNext
<1> QED BY <1>3, <1>4

LEMMA StopPublishRefines ==
    ASSUME IInv, NEW e \in Entries, StopPublish(e)
    PROVE  Allowed
<1>1. LifeInv(e) /\ GateInv(e)
    BY DEF StopPublish, IInv, EntryInv, Fresh
<1> PICK n \in Names : n = name[e]
    BY <1>1 DEF LifeInv
<1>2. /\ clusters[n] = e /\ e # Nobody /\ stopper[e] = "publish"
      /\ app[e] # "new" /\ ~stopErr[e] /\ app' = app
      /\ state[e] = "stopping" /\ caller' = caller /\ desired' = desired
    BY SMTT(20), SMTT(40), <1>1 DEF StopPublish, LifeInv, GateInv, IInv, TypeOK, States, Entries, Nobody
<1>3. \A m \in Names : IsBorrowed(m)' <=> IsBorrowed(m)
    BY Zenon, <1>2 DEF IsBorrowed
<1>4. \A m \in Names \ {n} : Same(m)
  <2> SUFFICES ASSUME NEW m \in Names \ {n} PROVE Same(m)
    BY Zenon
  <2>1. clusters[m] # Nobody => clusters[m] \in Entries /\ clusters[m] # e
    BY DEF IInv, MapInv
  <2>2. clusters'[m] = clusters[m]
    BY DEF StopPublish, IInv, TypeOK
  <2> QED BY SMTT(20), SMTT(40), <1>2, <1>3, <2>1, <2>2
          DEF StopPublish, Same, PhaseOf, ConfigOf, IsRunning, IInv, TypeOK
<1>5. CASE app[e] = "down"
  <2>1. clusters'[n] = Nobody
    BY <1>2, <1>5 DEF StopPublish, IInv, TypeOK
  <2>2. /\ PhaseOf(n) = "halted" /\ PhaseOf(n)' = "absent"
        /\ ~IsRunning(n) /\ ~IsRunning(n)' /\ ConfigOf(n)' = ConfigOf(n)
    BY <1>2, <1>5, <2>1 DEF PhaseOf, IsRunning, ConfigOf
  <2>3. Promise!Free(n)
    BY <1>3, <1>4, <2>2 DEF Promise!Free, Same
  <2> QED BY <2>3 DEF Allowed, Promise!RegistryNext
<1>6. CASE app[e] # "down"
  <2>1. clusters' = clusters /\ stopErr'[e] /\ state' = state /\ app[e] = "alive"
    BY Zenon, <1>2, <1>6 DEF StopPublish, IInv, TypeOK
  <2>2. /\ PhaseOf(n) = "stopping" /\ PhaseOf(n)' = "broken"
        /\ IsRunning(n) /\ IsRunning(n)' /\ ConfigOf(n)' = ConfigOf(n)
    BY Zenon, <1>2, <2>1 DEF PhaseOf, IsRunning, ConfigOf
  <2>3. ~IsBorrowed(n)
    BY Zenon, <1>2, NotBorrowed
  <2>4. Promise!Break(n)
    BY Zenon, <1>3, <1>4, <2>2, <2>3 DEF Promise!Break, Same
  <2> QED BY <2>4 DEF Allowed, Promise!RegistryNext
<1> QED BY <1>5, <1>6
\* What a caller does outside callbacks is not seen.
LEMMA BorrowFrame ==
    ASSUME IInv, NEW k \in Callers, caller[k].op # "callback", caller'[k].op # "callback",
           \A j \in Callers \ {k} : caller'[j] = caller[j]
    PROVE  \A m \in Names : IsBorrowed(m)' <=> IsBorrowed(m)
BY DEF IsBorrowed

LEMMA ReserveRefines ==
    ASSUME IInv, NEW k \in Callers, NEW n \in Names, NEW c, caller[k].op # "callback",
           clusters[n] = Nobody, ReserveLocked(k, n, c)
    PROVE  Allowed
<1> DEFINE e == used + 1
<1>1. e \in Entries /\ Fresh(e) /\ e # Nobody
    BY SMTT(20), SMTT(40) DEF ReserveLocked, IInv, TypeOK, EntryInv, Entries, Nobody
<1>2. /\ clusters' = [clusters EXCEPT ![n] = e] /\ state' = [state EXCEPT ![e] = "starting"]
      /\ app' = app /\ stopErr' = stopErr /\ desired' = desired
      /\ caller' = [caller EXCEPT ![k] = Call("await", n, e, c)]
    BY DEF ReserveLocked
<1>3. \A m \in Names : clusters[m] # Nobody => clusters[m] \in Entries /\ clusters[m] # e
    BY SMTT(20), SMTT(40) DEF IInv, TypeOK, MapInv, Entries
<1>4. \A m \in Names : IsBorrowed(m)' <=> IsBorrowed(m)
    BY Zenon, <1>2, BorrowFrame DEF Call, IInv, TypeOK
<1> HIDE DEF e
<1>5. \A m \in Names \ {n} : Same(m)
    BY ZenonT(60), <1>2, <1>3, <1>4 DEF Same, PhaseOf, ConfigOf, IsRunning, IInv, TypeOK
<1>6. clusters'[n] = e /\ state'[e] = "starting" /\ app[e] = "new" /\ ~stopErr[e]
    BY Zenon, <1>1, <1>2 DEF Fresh, IInv, TypeOK
<1>7. /\ PhaseOf(n) = "absent" /\ PhaseOf(n)' = "starting"
      /\ ~IsRunning(n) /\ ~IsRunning(n)' /\ ConfigOf(n)' = ConfigOf(n)
  <2>1. PhaseOf(n) = "absent" /\ ~IsRunning(n) /\ ConfigOf(n) = NoConfig
    BY DEF PhaseOf, IsRunning, ConfigOf
  <2>2. PhaseOf(n)' = "starting" /\ ~IsRunning(n)' /\ ConfigOf(n)' = NoConfig
    <3>1. clusters'[n] # Nobody /\ app'[clusters'[n]] = "new" /\ ~stopErr'[clusters'[n]]
          /\ state'[clusters'[n]] = "starting"
      BY Zenon, <1>1, <1>2, <1>6
    <3> QED BY <3>1 DEF PhaseOf, IsRunning, ConfigOf
  <2> QED BY Zenon, <2>1, <2>2
<1>8. Promise!Reserve(n)
    BY Zenon, <1>4, <1>5, <1>7 DEF Promise!Reserve, Same
<1> QED BY ZenonT(60), <1>8 DEF Allowed, Promise!RegistryNext

LEMMA WithClientRefines ==
    ASSUME IInv, NEW k \in Callers, NEW n \in Names, WithClient(k, n)
    PROVE  Allowed
<1> PICK e : e = clusters[n]
    OBVIOUS
<1>1. /\ e \in Entries /\ e # Nobody /\ state[e] = "ready" /\ ~gate[e]
      /\ LifeInv(e) /\ GateInv(e)
    BY Zenon, Registered DEF WithClient
<1>2. /\ caller' = [caller EXCEPT ![k] = Call("callback", n, e, NoConfig)]
      /\ UNCHANGED <<clusters, state, app, desired, stopErr>> /\ caller[k].op = "idle"
    BY Zenon DEF WithClient
<1>3. PhaseOf(n) = "ready"
    BY <1>1 DEF PhaseOf, LifeInv, GateInv
<1>4. ~IsBorrowed(n)
    BY <1>1, NotBorrowed
<1>5. \A m \in Names : IsBorrowed(m)' <=> IsBorrowed(m) \/ m = n
    BY Zenon, <1>2 DEF IsBorrowed, Call, IInv, TypeOK
<1>6. \A m \in Names : /\ PhaseOf(m)' = PhaseOf(m) /\ ConfigOf(m)' = ConfigOf(m)
                       /\ IsRunning(m)' <=> IsRunning(m)
    BY <1>2 DEF PhaseOf, ConfigOf, IsRunning
<1>7. Promise!Borrow(n)
    BY <1>3, <1>4, <1>5, <1>6 DEF Promise!Borrow
<1> QED BY <1>7 DEF Allowed, Promise!RegistryNext

LEMMA CallbackReturnsRefines ==
    ASSUME IInv, NEW k \in Callers, CallbackReturns(k)
    PROVE  Allowed
<1>1. /\ caller[k].op = "callback" /\ caller' = [caller EXCEPT ![k] = [Idle EXCEPT !.ok = FALSE]]
      /\ UNCHANGED <<clusters, state, app, desired, stopErr>>
    BY DEF CallbackReturns, Return
<1> PICK n \in Names : n = caller[k].name
    BY <1>1, CallbackRegistered
<1>2. ASSUME NEW j \in Callers, caller[j].op = "callback", caller[j].name = n PROVE j = k
    BY SMTT(20), SMTT(40), <1>1, <1>2, CallbackRegistered DEF IInv, CallbackInv
<1>3. caller'[k].op = "idle" /\ \A j \in Callers \ {k} : caller'[j] = caller[j]
    BY <1>1 DEF Idle, IInv, TypeOK
<1>4. \A m \in Names : IsBorrowed(m)' <=> IsBorrowed(m) /\ m # n
    BY <1>2, <1>3 DEF IsBorrowed
<1>5. IsBorrowed(n)
    BY <1>1 DEF IsBorrowed
<1>6. \A m \in Names : /\ PhaseOf(m)' = PhaseOf(m) /\ ConfigOf(m)' = ConfigOf(m)
                       /\ IsRunning(m)' <=> IsRunning(m)
    BY <1>1 DEF PhaseOf, ConfigOf, IsRunning
<1>7. Promise!GiveBack(n)
    BY <1>4, <1>5, <1>6 DEF Promise!GiveBack
<1> QED BY <1>7 DEF Allowed, Promise!RegistryNext

LEMMA CallerRefines ==
    ASSUME IInv, NEW k \in Callers, CallerNext(k)
    PROVE  Allowed
<1>1. ASSUME NEW n \in Names, Stop(k, n) PROVE Allowed
  <2>1. \A m \in Names : IsBorrowed(m)' <=> IsBorrowed(m)
    BY Zenon, <1>1, BorrowFrame DEF Stop, Call, IInv, TypeOK
  <2> QED BY Zenon, <1>1, <2>1, Registered, StopLockedRefines DEF Stop
<1>2. ASSUME NEW n \in Names, NEW c \in Configs, EnsureReplace(k, n, c) PROVE Allowed
  <2>1. \A m \in Names : IsBorrowed(m)' <=> IsBorrowed(m)
    BY Zenon, <1>2, BorrowFrame DEF EnsureReplace, Call, IInv, TypeOK
  <2> QED BY Zenon, <1>2, <2>1, Registered, StopLockedRefines DEF EnsureReplace
<1>3. ASSUME caller[k].op # "callback", NEW ok, Return(k, ok),
             UNCHANGED <<clusters, state, app, desired, stopErr>>
      PROVE  Allowed
  <2>1. \A m \in Names : IsBorrowed(m)' <=> IsBorrowed(m)
    BY <1>3, BorrowFrame DEF Return, Idle, IInv, TypeOK
  <2> QED BY <1>3, <2>1, Stutter DEF Same, PhaseOf, ConfigOf, IsRunning
<1>4. ASSUME GiveUp(k) PROVE Allowed
  <2>1. \A m \in Names : IsBorrowed(m)' <=> IsBorrowed(m)
    BY <1>4, BorrowFrame DEF GiveUp, Return, Idle, IInv, TypeOK
  <2>2. CASE state' = state
    BY Zenon, <1>3, <1>4, <2>2 DEF GiveUp
  <2>3. CASE /\ caller[k].op = "await" /\ clusters[caller[k].name] = caller[k].entry
             /\ StopLocked(caller[k].entry)
    <3> PICK n \in Names, e \in Entries : n = caller[k].name /\ e = caller[k].entry
      BY <2>3 DEF IInv, CallerInv
    <3> QED BY ZenonT(60), <1>4, <2>1, <2>3, StopLockedRefines DEF GiveUp
  <2> QED BY Zenon, <1>4, <2>2, <2>3 DEF GiveUp
<1>5. ASSUME EnsureReplaced(k) PROVE Allowed
  <2>1. caller[k].name \in Names
    BY Zenon, <1>5 DEF EnsureReplaced, IInv, CallerInv
  <2> QED BY Zenon, <1>3, <1>5, <2>1, ReserveRefines DEF EnsureReplaced, entryVars
<1>6. CASE StopReturns(k) \/ EnsureStarted(k)
    BY Zenon, <1>3, <1>6 DEF StopReturns, EnsureStarted, entryVars
<1>7. ASSUME NEW n \in Names, NEW c \in Configs, Spawn(k, n) \/ EnsureNew(k, n, c) PROVE Allowed
    BY Zenon, <1>7, ReserveRefines DEF Spawn, EnsureNew
<1>8. ASSUME NEW n \in Names, Spawn(k, n) PROVE Allowed
    BY <1>8, ReserveRefines DEF Spawn
<1> QED BY <1>1, <1>2, <1>4, <1>5, <1>6, <1>7, <1>8, WithClientRefines, CallbackReturnsRefines
        DEF CallerNext

\* The registry implements its promise: each critical section, goroutine step
\* and callback is a step of ManagerRegistry under the refinement mapping, or
\* cannot be seen.
THEOREM RegistryRefines == Spec => ImplementsPromise
<1>1. Init => Promise!RegistryInit
  <2> SUFFICES ASSUME Init PROVE Promise!RegistryInit
    OBVIOUS
  <2>1. \A n \in Names : /\ PhaseOf(n) = "absent" /\ ConfigOf(n) = NoConfig
                         /\ ~IsRunning(n) /\ ~IsBorrowed(n)
    BY Zenon DEF Init, PhaseOf, IsRunning, IsBorrowed, ConfigOf, Idle
  <2> QED BY Zenon, <2>1 DEF Promise!RegistryInit, NoConfig, Promise!NoConfig
<1>2. ASSUME IInv, [Next]_vars PROVE Allowed
  <2>1. ASSUME NEW e \in Entries, StartRelease(e) \/ StartClose(e) \/ StopAcquire(e) \/ StopRelease(e)
        PROVE  Allowed
    BY ZenonT(60), <2>1, Stutter DEF StartRelease, StartClose, StopAcquire, StopRelease,
       Same, PhaseOf, IsRunning, IsBorrowed, ConfigOf
  <2>2. ASSUME NEW e \in Entries, StarterNext(e) PROVE Allowed
    BY <1>2, <2>1, <2>2, AppStartRefines, StartPublishRefines DEF StarterNext
  <2>4. ASSUME NEW e \in Entries, StopperNext(e) PROVE Allowed
    BY <1>2, <2>1, <2>4, AppStopRefines, StopPublishRefines DEF StopperNext
  <2>3. CASE UNCHANGED vars
    BY <2>3, Stutter DEF vars, entryVars, Same, PhaseOf, IsRunning, IsBorrowed, ConfigOf
  <2> QED BY <1>2, <2>2, <2>3, <2>4, CallerRefines DEF Next
<1>3. IInv /\ [Next]_vars => [Promise!RegistryNext]_(Promise!regVars)
    BY <1>2 DEF Allowed, barVars, Promise!regVars
<1> QED BY <1>1, <1>3, Inductive, PTL DEF Spec, ImplementsPromise, Promise!RegistrySpec
================================================================================
