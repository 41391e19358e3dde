----------------------------- MODULE MCPodNetwork ------------------------------
(* PodNetwork with a partition and a traffic control on the same pod. *)
EXTENDS PodNetwork

TwoExperiments == {"a", "b"}

Kinds == [x \in TwoExperiments |-> IF x = "a" THEN "partition" ELSE "tc"]

OneKey == [x \in TwoExperiments |-> IF x = "a" THEN {"."} ELSE {".Target"}]

PartitionOnly == {"a"}

PartitionKind == [x \in PartitionOnly |-> "partition"]

BothKeys == [x \in PartitionOnly |-> {".", ".Target"}]
================================================================================
