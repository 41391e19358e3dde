------------------------------- MODULE Schedule --------------------------------
(***************************************************************************)
(* A Schedule and the four controllers that work on it: cron starts a job  *)
(* (an experiment or a workflow) when a run is due, active notes the jobs  *)
(* there are in the status of the schedule, pause copies the annotation of *)
(* the schedule to the jobs, and gc deletes the jobs beyond the history    *)
(* limit.                                                                  *)
(*                                                                         *)
(* Errors are not retried: none of the four returns one, so they rely on   *)
(* being woken by the next event, and cron and pause are woken by events   *)
(* on the schedule alone.  That a job has changed reaches them because     *)
(* active writes the versions of the jobs to the schedule.                 *)
(*                                                                         *)
(* Reads of the schedule show what the manager has written, and lag behind *)
(* what a user has; lists of jobs lag behind.  A unit of time is a second. *)
(***************************************************************************)
EXTENDS Integers, FiniteSets

CONSTANTS
    Plans,       \* schedules: forbid, the kind of job, its duration (dur), the history
                 \* limit and the starting deadline (0 for none); and bounds on time
                 \* (until), on what users do (toggles) and on failures (faults)
    Period,      \* the runs are due at its multiples
    TooMany,     \* how many missed runs are given up on; 100 in the code
    MaxTime,     \* the largest bound on time
    MaxJobs      \* bound on jobs

VARIABLES
    plan,      \* the schedule's specification
    now,
    sched,     \* the schedule: paused, the last schedule time, the active jobs
    paused,    \* whether the manager sees it paused
    event,     \* the schedule has changed and its controllers do not know yet
    job,       \* the jobs, in the order of their creation
    view,      \* the cache of them
    wake,      \* the controllers with something in their queue
    timer,     \* when cron and gc want to be woken; a queue keeps the earliest time
    work,      \* what each controller is at
    toggles, faults,
    dropped,   \* an error has ended a reconciliation
    slipped    \* a job was created and its run not noted

vars == <<plan, now, sched, paused, event, job, view, wake, timer, work, toggles, faults,
          dropped, slipped>>

Controllers == {"cron", "active", "gc", "pause"}
Ids == 1..MaxJobs
Times == 0..MaxTime
NoJob == [st |-> "none", run |-> 0, at |-> 0, paused |-> FALSE, done |-> FALSE, del |-> FALSE]
Idle == [pc |-> "idle"]

There(js) == {j \in Ids : js[j].st = "there"}

Init ==
    /\ plan \in Plans
    /\ now = 0
    /\ sched = [paused |-> FALSE, last |-> 0, active |-> {}] /\ paused = FALSE /\ event = FALSE
    /\ job = [j \in Ids |-> NoJob] /\ view = job
    /\ wake = Controllers
    /\ timer = [k \in {"cron", "gc"} |-> {}]
    /\ work = [k \in Controllers |-> Idle]
    /\ toggles = 0 /\ faults = 0 /\ dropped = FALSE /\ slipped = FALSE

Take(k) == work[k] = Idle /\ k \in wake /\ wake' = wake \ {k}
At(k, pc) == work[k].pc = pc
Go(k, w) == work' = [work EXCEPT ![k] = w]
Fault == faults < plan.faults /\ faults' = faults + 1

\* A write to the schedule, which is refused and tried again while the manager
\* does not see the latest.
Put(s) == paused = sched.paused /\ sched' = s /\ event' = (event \/ s # sched)

\* An error ends the reconciliation of k and nothing will repeat it.
Drop(k) == Fault /\ Go(k, Idle) /\ dropped' = TRUE

--------------------------------------------------------------------------------
(* What the controllers compute.                                           *)

Due(from, to) == {t \in Times : from < t /\ t <= to /\ t % Period = 0}
Latest(S) == CHOOSE t \in S : \A u \in S : u <= t
Earliest(S) == CHOOSE t \in S : \A u \in S : t <= u

\* The time from which runs count as missed.
EarliestTime ==
    IF plan.deadline > 0 /\ now - plan.deadline > sched.last THEN now - plan.deadline
    ELSE sched.last

\* Mutant: the run that was started last counts as missed.
UnmetInclusive == Due(EarliestTime - 1, now)

Unmet == Due(EarliestTime, now)

\* Mutant: the run before.
NextRunBefore(t) == (t \div Period) * Period

NextRun(t) == (t \div Period + 1) * Period

Stop(r) == r.at + plan.dur

\* IsChaosFinishedWithUntilStop and, for a workflow, its condition.
Finished(r) == r.done /\ (plan.kind = "timed" => Stop(r) < now)

UntilStop(r) ==
    CASE plan.kind = "timed" -> IF Stop(r) < now THEN 0 ELSE Stop(r) - now
      [] plan.kind = "oneshot" -> 1
      [] OTHER -> 0

--------------------------------------------------------------------------------
(* cron.                                                                   *)

Forbidden == plan.forbid /\ \E j \in There(view) : ~Finished(view[j])

\* The schedule and, if need be, the jobs are read.
CronGet ==
    /\ Take("cron")
    /\ IF paused \/ Cardinality(Unmet) > TooMany THEN Go("cron", Idle) /\ UNCHANGED timer
       ELSE IF Unmet = {}
       THEN /\ Go("cron", Idle)
            /\ timer' = [timer EXCEPT !["cron"] = {Earliest(@ \cup {NextRun(EarliestTime)})}]
       ELSE /\ Go("cron", IF Forbidden THEN Idle
                          ELSE [pc |-> "create", run |-> Latest(Unmet), now |-> now])
            /\ UNCHANGED timer
    /\ UNCHANGED <<plan, now, sched, paused, event, job, view, toggles, faults, dropped,
                   slipped>>

CronCreate ==
    LET new == CHOOSE j \in Ids : job[j].st = "none" /\ \A i \in Ids : i < j => job[i].st # "none"
    IN
    /\ At("cron", "create")
    /\ \/ /\ \E j \in Ids : job[j].st = "none"
          /\ job' = [job EXCEPT ![new] = [NoJob EXCEPT !.st = "there", !.at = now,
                                                       !.run = work["cron"].run]]
          /\ Go("cron", [pc |-> "note", now |-> work["cron"].now])
          /\ UNCHANGED <<faults, dropped>>
       \/ Drop("cron") /\ UNCHANGED job
    /\ UNCHANGED <<plan, now, sched, paused, event, view, wake, timer, toggles, slipped>>

CronNote ==
    /\ At("cron", "note")
    /\ \/ Put([sched EXCEPT !.last = work["cron"].now]) /\ Go("cron", Idle)
          /\ UNCHANGED <<faults, dropped, slipped>>
       \/ Drop("cron") /\ slipped' = TRUE /\ UNCHANGED <<sched, event>>
    /\ UNCHANGED <<plan, now, paused, job, view, wake, timer, toggles>>

--------------------------------------------------------------------------------
(* active.                                                                 *)

\* Mutant: the jobs are noted without their versions.
VersionsNone(js) == {<<j, NoJob>> : j \in There(js)}

Versions(js) == {<<j, js[j]>> : j \in There(js)}

\* Mutant: a new version of a job is no news.
NewsIds(v) == {x[1] : x \in v} # {x[1] : x \in sched.active}

News(v) == v # sched.active

ActiveGet ==
    /\ Take("active")
    /\ Go("active", IF News(Versions(view))
                    THEN [pc |-> "write", active |-> Versions(view)] ELSE Idle)
    /\ UNCHANGED <<plan, now, sched, paused, event, job, view, timer, toggles, faults, dropped,
                   slipped>>

ActiveWrite ==
    /\ At("active", "write")
    /\ \/ Put([sched EXCEPT !.active = work["active"].active]) /\ Go("active", Idle)
          /\ UNCHANGED <<faults, dropped>>
       \/ Drop("active") /\ UNCHANGED <<sched, event>>
    /\ UNCHANGED <<plan, now, paused, job, view, wake, timer, toggles, slipped>>

--------------------------------------------------------------------------------
(* gc.                                                                     *)

\* Mutant: one job more than the limit asks for.
ExceedingOne(js) ==
    {j \in There(js) : Cardinality({i \in There(js) : i > j}) + 1 >= plan.limit}

\* The oldest of the listed jobs, so many as there are beyond the limit.
Exceeding(js) ==
    {j \in There(js) : Cardinality({i \in There(js) : i > j}) >= plan.limit}

\* Those of them that run for some time yet, or that are left to an event.
Spared(j) ==
    /\ ~Finished(view[j])
    /\ plan.kind = "workflow" \/ UntilStop(view[j]) > 0

\* A Delete that fails is recorded and not tried again.
Gc ==
    LET spared == {j \in Exceeding(view) : Spared(j)}
        doomed == {j \in Exceeding(view) \ spared : job[j].st = "there"}
        later == {now + UntilStop(view[j]) : j \in spared} IN
    /\ Take("gc")
    /\ \E kept \in SUBSET doomed :
          /\ job' = [j \in Ids |-> IF j \in doomed \ kept THEN [job[j] EXCEPT !.del = TRUE]
                                   ELSE job[j]]
          /\ IF kept = {} THEN UNCHANGED <<faults, dropped>> ELSE Fault /\ dropped' = TRUE
    /\ timer' = IF spared = {} \/ plan.kind = "workflow" THEN timer
                ELSE [timer EXCEPT !["gc"] = {Earliest(@ \cup later)}]
    /\ UNCHANGED <<plan, now, sched, paused, event, view, work, toggles, slipped>>

--------------------------------------------------------------------------------
(* pause.                                                                  *)

\* Mutant: nothing is resumed.
ToAnnotatePausing == {j \in There(view) : paused /\ ~view[j].paused}

ToAnnotate == {j \in There(view) : view[j].paused # paused}

PauseGet ==
    /\ Take("pause")
    /\ Go("pause", IF plan.kind = "workflow" \/ ToAnnotate = {} THEN Idle
                   ELSE [pc |-> "item", todo |-> ToAnnotate, to |-> paused])
    /\ UNCHANGED <<plan, now, sched, paused, event, job, view, timer, toggles, faults, dropped,
                   slipped>>

\* The next job is annotated; one that is gone, like an error, ends it all.
PauseItem ==
    LET w == work["pause"] IN
    /\ At("pause", "item")
    /\ \E j \in w.todo :
          \/ /\ job[j].st = "there"
             /\ job' = [job EXCEPT ![j].paused = w.to]
             /\ Go("pause", IF w.todo = {j} THEN Idle ELSE [w EXCEPT !.todo = @ \ {j}])
             /\ UNCHANGED <<faults, dropped>>
          \/ /\ job[j].st = "gone" /\ Go("pause", Idle) /\ UNCHANGED <<job, faults, dropped>>
          \/ Drop("pause") /\ UNCHANGED job
    /\ UNCHANGED <<plan, now, sched, paused, event, view, wake, timer, toggles, slipped>>

--------------------------------------------------------------------------------
(* The surroundings.                                                       *)

\* The controllers that an event wakes and that find something to do.
Woken(ks, js, p) ==
    {k \in ks : CASE k = "cron" -> ~p
                  [] k = "active" -> Versions(js) # sched.active
                  [] k = "gc" -> Exceeding(js) # {}
                  [] k = "pause" -> \E j \in There(js) : js[j].paused # p}

Tick ==
    /\ now < plan.until
    /\ now' = now + 1
    /\ wake' = wake \cup {k \in {"cron", "gc"} : now + 1 \in timer[k]}
    /\ timer' = [k \in {"cron", "gc"} |-> {t \in timer[k] : t > now + 1}]
    /\ UNCHANGED <<plan, sched, paused, event, job, view, work, toggles, faults, dropped,
                   slipped>>

DeliverSchedule ==
    /\ event
    /\ event' = FALSE /\ paused' = sched.paused
    /\ wake' = wake \cup Woken(Controllers, view, sched.paused)
    /\ UNCHANGED <<plan, now, sched, job, view, timer, work, toggles, faults, dropped, slipped>>

DeliverJobs ==
    /\ view # job
    /\ view' = job
    /\ wake' = wake \cup Woken({"active", "gc"}, job, paused)
    /\ UNCHANGED <<plan, now, sched, paused, event, job, timer, work, toggles, faults, dropped,
                   slipped>>

Toggle ==
    /\ toggles < plan.toggles /\ toggles' = toggles + 1
    /\ sched' = [sched EXCEPT !.paused = ~@] /\ event' = TRUE
    /\ UNCHANGED <<plan, now, paused, job, view, wake, timer, work, faults, dropped, slipped>>

\* The status of a job comes to say that it has finished.
Finish(j) ==
    /\ job[j].st = "there" /\ ~job[j].done
    /\ plan.kind # "endless" /\ (plan.kind = "timed" => Stop(job[j]) < now)
    /\ job' = [job EXCEPT ![j].done = TRUE]
    /\ UNCHANGED <<plan, now, sched, paused, event, view, wake, timer, work, toggles, faults,
                   dropped, slipped>>

Remove(j) ==
    /\ job[j].st = "there" /\ job[j].del
    /\ job' = [job EXCEPT ![j].st = "gone"]
    /\ UNCHANGED <<plan, now, sched, paused, event, view, wake, timer, work, toggles, faults,
                   dropped, slipped>>

Restart ==
    /\ Fault
    /\ work' = [k \in Controllers |-> Idle] /\ wake' = Controllers
    /\ timer' = [k \in {"cron", "gc"} |-> {}]
    /\ view' = job /\ paused' = sched.paused /\ event' = FALSE
    /\ slipped' = (slipped \/ At("cron", "note")) /\ dropped' = FALSE
    /\ UNCHANGED <<plan, now, sched, job, toggles>>

--------------------------------------------------------------------------------
CronNext == CronGet \/ CronCreate \/ CronNote
ActiveNext == ActiveGet \/ ActiveWrite
PauseNext == PauseGet \/ PauseItem

Next ==
    \/ CronNext \/ ActiveNext \/ Gc \/ PauseNext
    \/ Tick \/ DeliverSchedule \/ DeliverJobs \/ Toggle \/ Restart
    \/ \E j \in Ids : Finish(j) \/ Remove(j)

Spec == Init /\ [][Next]_vars

\* The controllers run and the informers deliver; jobs that can finish do, and what
\* is deleted goes.  Nothing is assumed of the clock, of users and of failures.
FairSpec ==
    /\ Spec
    /\ WF_vars(CronNext) /\ WF_vars(ActiveNext) /\ WF_vars(Gc) /\ WF_vars(PauseNext)
    /\ WF_vars(DeliverSchedule) /\ WF_vars(DeliverJobs)
    /\ WF_vars(\E j \in Ids : Finish(j) \/ Remove(j))

--------------------------------------------------------------------------------
(* Properties.                                                             *)

\* What each variable may hold; timers lie ahead.
TypeOK ==
    /\ \A k \in DOMAIN timer : \A t \in timer[k] : t > now
    /\ now \in Times /\ sched.last \in Times /\ sched.paused \in BOOLEAN
    /\ wake \subseteq Controllers /\ {paused, event, dropped, slipped} \subseteq BOOLEAN
    /\ \A js \in {job, view} : \A j \in Ids :
           /\ js[j].st \in {"none", "there", "gone"} /\ {js[j].run, js[j].at} \subseteq Times
           /\ {js[j].paused, js[j].done, js[j].del} \subseteq BOOLEAN

\* "Forbid spawning new job because: ... is still running" (recorder/schedule.go): with
\* the policy Forbid at most one job is unfinished.  Cron decides on a list of jobs from
\* the cache (cron/controller.go:92) and does not wait for it to show the last job, so
\* two run at once when the informer lags by a run.
OneAtATime ==
    plan.forbid /\ ~slipped =>
        Cardinality({j \in There(job) : ~job[j].done}) <= 1

\* Each run that is due is started at most once, and in order, however long cron
\* takes, and though events wake it between the creation of a job and the write of
\* lastScheduleTime.  Excepted is a job whose run was not noted, because the write
\* failed or the manager stopped.
RunsOnce ==
    ~slipped => \A i, j \in Ids : i < j /\ job[j].st # "none" => job[i].run < job[j].run

\* A job that gc deletes has as many newer ones beside it as the history limit asks
\* for, and does not run for some time yet.
HistoryKept ==
    [][\A j \in Ids : ~job[j].del /\ job'[j].del =>
          /\ Cardinality({i \in There(job) : i > j /\ ~job'[i].del}) >= plan.limit
          /\ job[j].done \/ plan.kind = "endless" \/ (plan.kind = "timed" /\ Stop(job[j]) <= now)]_vars

\* A run that is due, and that neither a pause nor the policy holds back, is started,
\* unless an error was dropped or too many were missed.
RunsAreMet ==
    []<>(\/ dropped \/ sched.paused \/ Unmet = {} \/ Cardinality(Unmet) > TooMany
         \/ plan.forbid /\ \E j \in There(job) : ~Finished(job[j]))

\* The jobs become paused and resumed with the schedule, those too that were being
\* created when it changed.
PauseReaches ==
    []<>(dropped \/ plan.kind = "workflow" \/ \A j \in There(job) : job[j].paused = sched.paused)

\* The status comes to name the jobs as they are, and of the jobs beyond the history
\* limit only unfinished ones remain.
BooksClose ==
    []<>(\/ dropped
         \/ /\ sched.active = Versions(job)
            /\ \A j \in Exceeding(job) : ~Finished(job[j]))
================================================================================
