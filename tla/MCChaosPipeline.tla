---------------------------- MODULE MCChaosPipeline ----------------------------
(* ChaosPipeline with two interchangeable targets. *)
EXTENDS ChaosPipeline, TLC

CONSTANTS t1, t2

MCTargets == {t1, t2}

OneTarget == {t1}

TargetSymmetry == Permutations(MCTargets)
================================================================================
