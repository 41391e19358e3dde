---------------------------- MODULE ManagerRegistry ----------------------------
(***************************************************************************)
(* What the registry of remote clusters promises                           *)
(* (controllers/multicluster/clusterregistry/README.md): for each name     *)
(* there is one controller manager at a time; its client is lent to one    *)
(* callback at a time and only while the manager is ready; it is shut down *)
(* only when no callback uses it; and its name is free again only when it  *)
(* has really gone.  A shutdown that fails takes the name out of use for   *)
(* good.  Module ClusterRegistry implements this specification.            *)
(***************************************************************************)
EXTENDS Naturals

CONSTANTS
    Names,        \* names of remote clusters
    Configs       \* decoded kubeconfigs

NoConfig == "no config"

VARIABLES
    phase,        \* what the registry holds under a name
    running,      \* the names whose manager runs
    borrowed,     \* the names whose client a callback uses
    config        \* the kubeconfig of a ready manager

regVars == <<phase, running, borrowed, config>>

RegistryPhases == {"absent", "starting", "ready", "stopping", "halted", "broken"}

RegistryInit ==
    /\ phase = [n \in Names |-> "absent"]
    /\ running = {}
    /\ borrowed = {}
    /\ config = [n \in Names |-> NoConfig]

\* The name is taken for a manager that is to be built.
Reserve(n) ==
    /\ phase[n] = "absent"
    /\ phase' = [phase EXCEPT ![n] = "starting"]
    /\ UNCHANGED <<running, borrowed, config>>

\* The manager begins to run, also if its stop was requested in the meantime.
Launch(n) ==
    /\ phase[n] \in {"starting", "stopping"} /\ n \notin running
    /\ running' = running \cup {n}
    /\ UNCHANGED <<phase, borrowed, config>>

Open(n, c) ==
    /\ phase[n] = "starting" /\ n \in running
    /\ phase' = [phase EXCEPT ![n] = "ready"]
    /\ config' = [config EXCEPT ![n] = c]
    /\ UNCHANGED <<running, borrowed>>

Borrow(n) ==
    /\ phase[n] = "ready" /\ n \notin borrowed
    /\ borrowed' = borrowed \cup {n}
    /\ UNCHANGED <<phase, running, config>>

GiveBack(n) ==
    /\ n \in borrowed
    /\ borrowed' = borrowed \ {n}
    /\ UNCHANGED <<phase, running, config>>

\* Admission is closed at once; the callback in progress goes on.
Close(n) ==
    /\ phase[n] \in {"starting", "ready"}
    /\ phase' = [phase EXCEPT ![n] = "stopping"]
    /\ config' = [config EXCEPT ![n] = NoConfig]
    /\ UNCHANGED <<running, borrowed>>

Halt(n) ==
    /\ phase[n] = "stopping" /\ n \notin borrowed /\ n \in running
    /\ running' = running \ {n}
    /\ phase' = [phase EXCEPT ![n] = "halted"]
    /\ UNCHANGED <<borrowed, config>>

Free(n) ==
    /\ phase[n] = "halted"
    /\ phase' = [phase EXCEPT ![n] = "absent"]
    /\ UNCHANGED <<running, borrowed, config>>

\* The shutdown failed: the name stays taken.
Break(n) ==
    /\ phase[n] = "stopping" /\ n \notin borrowed /\ n \in running
    /\ phase' = [phase EXCEPT ![n] = "broken"]
    /\ UNCHANGED <<running, borrowed, config>>

RegistryNext ==
    \E n \in Names :
        \/ Reserve(n) \/ Launch(n) \/ Borrow(n) \/ GiveBack(n)
        \/ \E c \in Configs \cup {NoConfig} : Open(n, c)
        \/ Close(n) \/ Halt(n) \/ Free(n) \/ Break(n)

RegistrySpec == RegistryInit /\ [][RegistryNext]_regVars
================================================================================
