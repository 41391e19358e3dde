---------------------------- MODULE MCUpdatedClient ----------------------------
(* UpdatedClient with two objects and two reconcilers. *)
EXTENDS UpdatedClient, TLC

CONSTANTS k1, k2, c1, c2

MCKeys == {k1, k2}

MCClients == {c1, c2}

\* Both reconcilers update both objects.
AllWrite == [c \in MCClients |-> MCKeys]

\* Each object is updated by one reconciler, and read by both.
OneWriter == c1 :> {k1} @@ c2 :> {k2}

================================================================================
