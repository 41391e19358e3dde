------------------------------ MODULE MCSchedule -------------------------------
(* Schedule with experiments that end, that do not, and with workflows. *)
EXTENDS Schedule

Plan(forbids, of, d, lim, dead, end, tog, fau) ==
    [forbid |-> forbids, kind |-> of, dur |-> d, limit |-> lim, deadline |-> dead,
     until |-> end, toggles |-> tog, faults |-> fau]

\* Jobs that end between two runs and during the next; pauses while one is being
\* created; failures; jobs that stop by themselves, never, or as workflows do.
SomePlans == {
    Plan(TRUE, "timed", 1, 3, 0, 6, 0, 0),
    Plan(FALSE, "timed", 3, 1, 0, 4, 1, 0),
    Plan(FALSE, "timed", 0, 1, 0, 3, 2, 0),
    Plan(TRUE, "timed", 1, 1, 0, 3, 1, 1),
    Plan(FALSE, "oneshot", 0, 1, 1, 4, 0, 0),
    Plan(TRUE, "workflow", 0, 1, 0, 4, 0, 0),
    Plan(FALSE, "endless", 0, 1, 0, 4, 0, 0),
    Plan(TRUE, "timed", 1, 1, 0, 4, 0, 1)}
================================================================================
