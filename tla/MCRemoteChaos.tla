----------------------------- MODULE MCRemoteChaos -----------------------------
(* RemoteChaos: the cluster by itself, experiments in a cluster that is set up, *)
(* and both at once.                                                            *)
EXTENDS RemoteChaos

Nothing == [settled |-> TRUE, native |-> FALSE, clusters |-> 0, edits |-> 0, drops |-> 0,
            secrets |-> 0, moves |-> FALSE, faults |-> 0, restarts |-> 0, chaos |-> 0, touches |-> 0,
            foreign |-> 0]

ClusterLives == {
    [Nothing EXCEPT !.settled = FALSE, !.clusters = 2, !.drops = 2, !.edits = 1, !.faults = 2],
    [Nothing EXCEPT !.clusters = 1, !.drops = 1, !.edits = 1, !.secrets = 2, !.moves = TRUE,
                    !.restarts = 1, !.faults = 1]}

ExperimentLives == {
    [Nothing EXCEPT !.chaos = 2, !.faults = 1],
    [Nothing EXCEPT !.chaos = 1, !.touches = 1, !.foreign = 1],
    [Nothing EXCEPT !.chaos = 1, !.faults = 1, !.foreign = 1],
    [Nothing EXCEPT !.chaos = 2, !.foreign = 1, !.native = TRUE]}

BothLive == {
    [Nothing EXCEPT !.chaos = 1, !.restarts = 1, !.faults = 1],
    [Nothing EXCEPT !.chaos = 1, !.secrets = 1],
    [Nothing EXCEPT !.chaos = 1, !.drops = 1, !.clusters = 1]}

SomeScenarios == ClusterLives \cup ExperimentLives \cup BothLive
================================================================================
