------------------------------ MODULE MCTimeTasks ------------------------------
(* TimeTasks with two or three experiments on one container. *)
EXTENDS TimeTasks, TLC

CONSTANTS u1, u2, u3, n1

TwoUids == {u1, u2}

ThreeUids == {u1, u2, u3}

MCNames == {n1}

\* All experiments select the container.
MCRecords == Uids \X Names

\* The experiments are interchangeable.
UidSymmetry == Permutations(Uids)
================================================================================
