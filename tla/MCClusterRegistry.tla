--------------------------- MODULE MCClusterRegistry ---------------------------
(* ClusterRegistry with one name, two kubeconfigs and two callers.   *)
EXTENDS ClusterRegistry

CONSTANTS n1, c1, c2, k1, k2

OneName == {n1}

TwoConfigs == {c1, c2}

TwoCallers == {k1, k2}
================================================================================
