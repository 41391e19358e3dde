------------------------------ MODULE MCWorkflow -------------------------------
(* Workflow with a serial, a parallel, a nested and a leaf entry. *)
EXTENDS Workflow

Flat(kind, timed, abortAt, nfaults) ==
    [entry |-> "e", type |-> [e |-> kind, a |-> "leaf", b |-> "leaf"],
     children |-> [e |-> <<"a", "b">>, a |-> <<>>, b |-> <<>>],
     timed |-> [t \in {"e", "a", "b"} |-> t \in timed],
     abortAt |-> abortAt, faults |-> nfaults, restarts |-> FALSE, entries |-> 1,
     tied |-> FALSE]

Chain(timed, abortAt) ==
    [entry |-> "e", type |-> [e |-> "serial", a |-> "serial", b |-> "leaf"],
     children |-> [e |-> <<"a">>, a |-> <<"b">>, b |-> <<>>],
     timed |-> [t \in {"e", "a", "b"} |-> t \in timed],
     abortAt |-> abortAt, faults |-> 0, restarts |-> FALSE, entries |-> 1,
     tied |-> FALSE]

Leaf(abortAt, sameSecond) ==
    [entry |-> "e", type |-> [e |-> "leaf"], children |-> [e |-> <<>>],
     timed |-> [e |-> TRUE], abortAt |-> abortAt, faults |-> 1, restarts |-> TRUE,
     entries |-> 2, tied |-> sameSecond]

\* Deadlines of a serial node, of tasks, and two levels up; a failed creation under
\* a parallel node; aborts of both kinds of nodes; two entry nodes and a restart.
SomeTrees == {
    Flat("serial", {"e"}, {}, 0), Flat("serial", {"a", "b"}, {}, 0),
    Flat("parallel", {"a", "b"}, {}, 0), Flat("parallel", {"a"}, {}, 1),
    Flat("parallel", {}, 0..3, 0), Chain({"e"}, {}), Chain({}, {3}), Leaf(0..2, FALSE)}

\* Two entry nodes created in one second.
TiedTrees == {Leaf({}, TRUE)}
================================================================================
