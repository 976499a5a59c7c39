---------------------------- MODULE AuthoringJobs ---------------------------
(***************************************************************************)
(* The durable authoring jobs of an epic (brainstorm and decomposition).    *)
(* A worker claims a job as a numbered, leased attempt, launches a provider *)
(* process under a recorded intent, and applies what it returns.  A process *)
(* that may still run is never followed by another: its job waits in        *)
(* reconciling until the stop is recorded or the host no longer knows the   *)
(* process.  Usage checkpoints pause a job, the operator cancels, retries,  *)
(* continues or stops it, and a provider's exhaustion blocks the quota pool *)
(* for every job but one probe.                                             *)
(*                                                                          *)
(* Every transaction locks the job row first, so each is one action; what a *)
(* worker keeps in memory between two transactions is its record in worker. *)
(***************************************************************************)
EXTENDS Naturals, FiniteSets

CONSTANTS
    Jobs, Workers,
    MaxAttempts,    \* bound on the attempts of one job
    MaxCrashes,     \* bound on worker crashes
    Monitored,      \* whether task usage is monitored (task_usage is not None)
    Controls,       \* what the operator may ask for
    Results,        \* what an invocation may return
    SameHost,       \* whether the workers share a host
    None

AuthoringAssumption ==
    /\ MaxAttempts \in Nat \ {0} /\ MaxCrashes \in Nat
    /\ Monitored \in BOOLEAN /\ SameHost \in BOOLEAN
    /\ Controls \subseteq {"cancel", "retry", "continue", "stop"}
    /\ Results \subseteq {"none", "proposal", "quota", "quotaSeen", "unavailable"}
    /\ "none" \in Results
    /\ None \notin Workers \cup Jobs

VARIABLES
    job,        \* the job row with its current attempt and latest checkpoint
    pool,       \* the quota pool the jobs share
    worker,     \* what each worker holds in memory
    live,       \* <<j, n>>: the process of attempt n of j exists on its host
    sup,        \* <<w, j, n>>: an abandoned operation of w still awaits its process
    told,       \* <<j, n>>: the provider of that attempt reported exhaustion
    crashes

vars == <<job, pool, worker, live, sup, told, crashes>>

Waiting == {"queued", "quota_wait", "capacity_wait"}
Terminal == {"proposed", "failed", "cancelled", "quota_wait"}
States == Waiting \cup Terminal \cup
          {"absent", "running", "cancel_requested", "reconciling", "paused"}
Active == {"requested", "pausing", "paused"}

Attempt0 == [own |-> None, lease |-> FALSE, expired |-> FALSE, intent |-> FALSE,
             started |-> FALSE, settled |-> FALSE, proof |-> "none",
             state |-> "none", probe |-> FALSE, fresh |-> FALSE,
             finished |-> FALSE, observed |-> FALSE]

Idle == [at |-> "idle", j |-> None, n |-> 0, res |-> "none", fail |-> "none"]

Init ==
    /\ job = [j \in Jobs |->
                [st |-> "absent", fail |-> "none", n |-> 0, a |-> Attempt0,
                 cp |-> "none", cpn |-> 0, unit |-> 0, over |-> FALSE]]
    /\ pool = [blocked |-> FALSE, eligible |-> FALSE, probe |-> None]
    /\ worker = [w \in Workers |-> Idle]
    /\ live = {} /\ sup = {} /\ told = {} /\ crashes = 0

---------------------------------------------------------------------------
(* The quota pool.                                                          *)

\* A revision of the pool makes every outstanding admission's copy stale.
Stale(jobs) == [k \in Jobs |-> [jobs[k] EXCEPT !.a.fresh = FALSE]]

\* The jobs waiting for capacity that a settlement may requeue: it skips rows
\* another transaction has locked.
Requeued(jobs, set) ==
    [k \in Jobs |-> IF k \in set
                    THEN [jobs[k] EXCEPT !.st = "queued", !.fail = "none"]
                    ELSE jobs[k]]

CapacityWaiting(jobs, j) == {k \in Jobs \ {j} : jobs[k].st = "capacity_wait"}

\* An exhaustion not yet observed for this attempt blocks the pool.
Blocks(jobs, j, exhausted) ==
    exhausted /\ ~jobs[j].a.observed /\ ~jobs[j].a.finished

\* The pool and the jobs after quota_settle of j's current attempt.
QuotaSettle(jobs, j, exhausted, succeeded) ==
    LET a == jobs[j].a
        blocks == Blocks(jobs, j, exhausted)
        p1 == IF blocks THEN [pool EXCEPT !.blocked = TRUE, !.eligible = FALSE]
              ELSE pool
        j1 == IF blocks THEN [Stale(jobs) EXCEPT ![j].a.observed = TRUE] ELSE jobs
        ends == a.settled /\ ~a.finished
        mine == pool.probe = <<j, jobs[j].n>>
        decides == ends /\ ~exhausted /\ a.probe /\ mine /\ j1[j].a.fresh
        p2 == IF ~decides THEN p1
              ELSE IF succeeded
              THEN [p1 EXCEPT !.blocked = FALSE, !.eligible = FALSE]
              ELSE [p1 EXCEPT !.blocked = TRUE, !.eligible = FALSE]
        p3 == IF ends /\ mine THEN [p2 EXCEPT !.probe = None] ELSE p2
        j2 == IF decides THEN Stale(j1) ELSE j1
        j3 == IF ends THEN [j2 EXCEPT ![j].a.finished = TRUE] ELSE j2
    IN  /\ pool' = p3
        /\ IF ends
           THEN \E set \in SUBSET CapacityWaiting(j3, j) : job' = Requeued(j3, set)
           ELSE job' = j3

\* The pool's reset time or cooldown passes.
PoolEligible ==
    /\ pool.blocked /\ ~pool.eligible
    /\ pool' = [pool EXCEPT !.eligible = TRUE]
    /\ UNCHANGED <<job, worker, live, sup, told, crashes>>

---------------------------------------------------------------------------
(* Usage checkpoints.                                                       *)

HasCheckpoint(r) == Monitored /\ r.cp \in Active

\* The live poll and an unsettled stop advance a requested checkpoint.
Pausing(r) ==
    IF HasCheckpoint(r) /\ r.cp = "requested" THEN [r EXCEPT !.cp = "pausing"] ELSE r

\* A settled attempt's checkpoint is paused with its job, or resolved.
CheckpointSettled(r) ==
    IF HasCheckpoint(r)
    THEN [r EXCEPT !.cp = IF r.st = "paused" THEN "paused" ELSE "resolved"]
    ELSE r

\* A provider reports usage above the threshold; the event is committed before
\* it is evaluated.
Observe(w) ==
    LET o == worker[w] IN
    /\ Monitored /\ o.at = "live"
    /\ ~(job[o.j].over /\ job[o.j].unit = o.n)
    /\ job' = [job EXCEPT ![o.j].over = TRUE, ![o.j].unit = o.n]
    /\ UNCHANGED <<pool, worker, live, sup, told, crashes>>

\* The latest checkpoint already answered for this attempt or work unit.
Answered(r) == r.cp = "resolved" /\ r.cpn \in {r.n, r.unit}

\* What evaluating the latest committed event leaves: an active checkpoint of
\* a job that is not being executed is settled on the spot, a crossing without
\* one requests it.
Evaluated(r) ==
    LET rests == r.st \in Terminal \cup {"queued"} /\ r.a.settled
        settle(q) == [q EXCEPT !.st = IF @ = "queued" THEN "paused" ELSE @,
                               !.fail = IF q.st = "queued" THEN "none" ELSE @,
                               !.cp = IF q.st = "queued" THEN "paused" ELSE "resolved"]
        asked == [r EXCEPT !.cp = "requested", !.cpn = r.unit]
    IN  IF r.cp \in Active THEN IF rests THEN settle(r) ELSE r
        ELSE IF Answered(r) \/ ~r.over THEN r
        ELSE IF rests THEN settle(asked) ELSE asked

Evaluate(j) ==
    /\ Monitored /\ job[j].unit > 0
    /\ Evaluated(job[j]) # job[j]
    /\ job' = [job EXCEPT ![j] = Evaluated(@)]
    /\ UNCHANGED <<pool, worker, live, sup, told, crashes>>

---------------------------------------------------------------------------
(* Submission and the operator's requests.                                  *)

Submit(j) ==
    /\ job[j].st = "absent"
    /\ job' = [job EXCEPT ![j].st = "queued"]
    /\ UNCHANGED <<pool, worker, live, sup, told, crashes>>

\* The row a cancellation leaves.
CancelledRow(r) ==
    CASE r.st \in Waiting -> [r EXCEPT !.st = "cancelled"]
      [] r.st = "paused" -> [r EXCEPT !.st = "cancelled", !.cp = "resolved"]
      [] r.st \in {"running", "reconciling"} -> [r EXCEPT !.st = "cancel_requested"]

Cancel(j) ==
    /\ "cancel" \in Controls
    /\ job[j].st \in Waiting \cup {"paused", "running", "reconciling"}
    /\ job[j].st = "paused" => job[j].cp = "paused"
    /\ job' = [job EXCEPT ![j] = CancelledRow(@)]
    /\ UNCHANGED <<pool, worker, live, sup, told, crashes>>

Retry(j) ==
    /\ "retry" \in Controls
    /\ job[j].st = "failed"
    /\ job[j].n > 0 => job[j].a.settled
    /\ job' = [job EXCEPT ![j].st = "queued", ![j].fail = "none"]
    /\ UNCHANGED <<pool, worker, live, sup, told, crashes>>

\* The owner continues a settled pause: a later threshold, or none any more.
Continue(j) ==
    /\ "continue" \in Controls
    /\ job[j].st = "paused" /\ job[j].cp = "paused"
    /\ job[j].n > 0 /\ job[j].a.settled /\ job[j].a.state = "settled"
    /\ job' = [job EXCEPT ![j].st = "queued", ![j].fail = "none",
                          ![j].cp = "resumed", ![j].over = FALSE]
    /\ UNCHANGED <<pool, worker, live, sup, told, crashes>>

Stop(j) ==
    /\ "stop" \in Controls
    /\ job[j].st = "paused" /\ job[j].cp = "paused"
    /\ job' = [job EXCEPT ![j].st = "cancelled", ![j].fail = "cancelled",
                          ![j].cp = "resolved"]
    /\ UNCHANGED <<pool, worker, live, sup, told, crashes>>

---------------------------------------------------------------------------
(* Claims.                                                                  *)

\* Another job of the epic holds a reservation that may be released.
HeldElsewhere(j) == \E k \in Jobs \ {j} : job[k].n > 0 /\ ~job[k].a.settled

PoolClosed == pool.blocked /\ (pool.probe # None \/ ~pool.eligible)

Claimable(j) ==
    /\ job[j].st \in Waiting
    /\ job[j].cp \notin Active

\* A new attempt is admitted; admitted under a blocked pool it is the probe.
Admit(w, j) ==
    LET n == job[j].n + 1 IN
    /\ n <= MaxAttempts
    /\ job' = [job EXCEPT ![j].st = "running", ![j].n = n,
                 ![j].a = [Attempt0 EXCEPT !.own = w, !.lease = TRUE,
                             !.state = "admitted", !.probe = pool.blocked,
                             !.fresh = TRUE]]
    /\ pool' = IF pool.blocked THEN [pool EXCEPT !.probe = <<j, n>>] ELSE pool
    /\ worker' = [worker EXCEPT ![w] = [Idle EXCEPT !.at = "admitted", !.j = j, !.n = n]]

\* What a claim decides short of an admission.
Refused(j) ==
    \/ /\ PoolClosed /\ job[j].st # "quota_wait"
       /\ job' = [job EXCEPT ![j].st = "quota_wait"]
    \/ /\ ~PoolClosed /\ HeldElsewhere(j) /\ job[j].st # "capacity_wait"
       /\ job' = [job EXCEPT ![j].st = "capacity_wait", ![j].fail = "none"]
    \/ job' = [job EXCEPT ![j].st = "failed", ![j].fail = "refused"]

Claim(w, j) ==
    /\ worker[w].at = "idle" /\ Claimable(j)
    /\ IF job[j].n > 0 /\ ~job[j].a.settled
       THEN /\ job' = [job EXCEPT ![j].st = "reconciling"]
            /\ UNCHANGED <<pool, worker>>
       ELSE \/ ~PoolClosed /\ Admit(w, j)
            \/ Refused(j) /\ UNCHANGED <<pool, worker>>
    /\ UNCHANGED <<live, sup, told, crashes>>

---------------------------------------------------------------------------
(* The attempt's process, as its lifecycle records it.                      *)

\* The worker's attempt is still the job's.
Holds(w) == LET o == worker[w] IN job[o.j].n = o.n /\ job[o.j].a.own = w

Authorized(w) ==
    LET r == job[worker[w].j] IN
    Holds(w) /\ r.st = "running" /\ r.a.lease /\ ~r.a.expired

\* The claim ends before a launch: the worker is stopping or time has run out.
SettleNotLaunched(w) ==
    LET o == worker[w]
        r == job[o.j]
        why == IF r.a.expired THEN "timeout" ELSE "interrupted"
        ended == [r EXCEPT !.a.settled = TRUE, !.a.state = "settled",
                    !.st = IF @ = "cancel_requested" THEN "cancelled" ELSE "failed",
                    !.fail = IF r.st = "cancel_requested" THEN "cancelled" ELSE why]
    IN  /\ o.at = "admitted"
        /\ IF /\ Holds(w) /\ ~r.a.intent /\ ~r.a.settled
              /\ r.st \in {"running", "cancel_requested"}
           THEN QuotaSettle([job EXCEPT ![o.j] = ended], o.j, FALSE, FALSE)
           ELSE UNCHANGED <<job, pool>>
        /\ worker' = [worker EXCEPT ![w] = Idle]
        /\ UNCHANGED <<live, sup, told, crashes>>

\* launch_intent: recorded before anything is spawned, or refused.
LaunchIntent(w) ==
    LET o == worker[w] IN
    /\ o.at = "admitted"
    /\ IF Authorized(w)
       THEN /\ job' = [job EXCEPT ![o.j].a.intent = TRUE]
            /\ worker' = [worker EXCEPT ![w].at = "intent"]
       ELSE /\ worker' = [worker EXCEPT ![w].at = "returned", ![w].fail = "unavailable"]
            /\ UNCHANGED job
    /\ UNCHANGED <<pool, live, sup, told, crashes>>

\* The child is created suspended, or the operating system refuses it.
Spawn(w) ==
    LET o == worker[w] IN
    /\ o.at = "intent"
    /\ \/ /\ live' = live \cup {<<o.j, o.n>>}
          /\ worker' = [worker EXCEPT ![w].at = "spawned"]
       \/ /\ worker' = [worker EXCEPT ![w].at = "returned", ![w].fail = "unavailable"]
          /\ UNCHANGED live
    /\ UNCHANGED <<job, pool, sup, told, crashes>>

\* started records the receipt of a process of this intent even when authority
\* is gone, and then refuses it; the record itself may fail.
Started(w) ==
    LET o == worker[w]
        records == Holds(w) /\ job[o.j].a.intent /\ ~job[o.j].a.settled
    IN
    /\ o.at = "spawned"
    /\ \/ /\ job' = IF records THEN [job EXCEPT ![o.j].a.started = TRUE] ELSE job
          /\ worker' = [worker EXCEPT ![w].at = IF Authorized(w) THEN "live" ELSE "aborting",
                                      ![w].fail = IF Authorized(w) THEN "none" ELSE "unavailable"]
       \/ /\ worker' = [worker EXCEPT ![w].at = "aborting", ![w].fail = "unavailable"]
          /\ UNCHANGED job
    /\ UNCHANGED <<pool, live, sup, told, crashes>>

\* The row after finished with a confirmed stop.
Finished(j, n, w, proof) ==
    IF job[j].n = n /\ job[j].a.own = w /\ job[j].a.intent /\ ~job[j].a.settled
    THEN [job EXCEPT ![j].a.settled = TRUE, ![j].a.proof = proof]
    ELSE job

ReturnsFrom(w, res) ==
    [worker EXCEPT ![w].at = "returned", ![w].res = res,
                   ![w].fail = IF @ = "none" THEN "unavailable" ELSE @]

\* A process that was never resumed has returned nothing.
Returnable(o) == IF o.at = "aborting" THEN {"none"} ELSE Results

Reported(o, res) ==
    IF res \in {"quota", "quotaSeen"} THEN told \cup {<<o.j, o.n>>} ELSE told

\* The exchange ends, or its stop is asked for: the process tree is terminated
\* and waited for, and the stop is recorded.
SupervisedStop(w) ==
    LET o == worker[w] IN
    /\ o.at \in {"live", "stopping", "aborting"}
    /\ \E res \in Returnable(o), proof \in {"stopped", "complete"} :
          /\ res = "proposal" \/ proof = "stopped"
          /\ job' = Finished(o.j, o.n, w, proof)
          /\ worker' = ReturnsFrom(w, res)
          /\ told' = Reported(o, res)
    /\ live' = live \ {<<o.j, o.n>>}
    /\ UNCHANGED <<pool, sup, crashes>>

\* The stop cannot be confirmed, or its record is lost: the gateway still
\* returns, without proof.
UnprovenStop(w) ==
    LET o == worker[w] IN
    /\ o.at \in {"live", "stopping", "aborting"}
    /\ \E res \in Returnable(o) \ {"proposal"} :
          worker' = ReturnsFrom(w, res) /\ told' = Reported(o, res)
    /\ \/ UNCHANGED live
       \/ live' = live \ {<<o.j, o.n>>}
    /\ UNCHANGED <<job, pool, sup, crashes>>

\* The grace period ends first: the operation is left to finish by itself.
Abandon(w) ==
    LET o == worker[w] IN
    /\ o.at = "stopping"
    /\ worker' = ReturnsFrom(w, "none")
    /\ sup' = sup \cup {<<w, o.j, o.n>>}
    /\ UNCHANGED <<job, pool, live, told, crashes>>

LateStop(w, j, n) ==
    /\ <<w, j, n>> \in sup
    /\ job' = Finished(j, n, w, "stopped")
    /\ live' = live \ {<<j, n>>}
    /\ sup' = sup \ {<<w, j, n>>}
    /\ UNCHANGED <<pool, worker, told, crashes>>

\* A process ends with nobody watching it.
Exit(j, n) ==
    /\ <<j, n>> \in live
    /\ ~\E w \in Workers : worker[w].j = j /\ worker[w].n = n
    /\ ~\E w \in Workers : <<w, j, n>> \in sup
    /\ live' = live \ {<<j, n>>}
    /\ UNCHANGED <<job, pool, worker, sup, told, crashes>>

\* The worker's poll while the operation runs: advance a requested checkpoint,
\* stop on a timeout, a persisted cancellation, another attempt or an active
\* checkpoint, and otherwise renew the lease.
Poll(w) ==
    LET o == worker[w]
        r == job[o.j]
        r2 == Pausing(r)
        revoked == r.st = "cancel_requested" \/ r.n # o.n \/ HasCheckpoint(r2)
        stops(why) == worker' = [worker EXCEPT ![w].at = "stopping", ![w].fail = why]
    IN
    /\ o.at = "live"
    /\ IF r.n = o.n /\ r.a.expired
       THEN stops("timeout") /\ UNCHANGED job
       ELSE /\ job' = [job EXCEPT ![o.j] = r2]
            /\ IF revoked THEN stops("interrupted")
               ELSE IF ~Authorized(w) THEN stops("unavailable")
               ELSE UNCHANGED worker
    /\ UNCHANGED <<pool, live, sup, told, crashes>>

\* The worker process is asked to stop while the operation runs.
Drain(w) ==
    /\ worker[w].at = "live"
    /\ worker' = [worker EXCEPT ![w].at = "stopping", ![w].fail = "interrupted"]
    /\ UNCHANGED <<job, pool, live, sup, told, crashes>>

LeaseLapse(j) ==
    /\ job[j].st \in {"running", "cancel_requested", "reconciling"} /\ job[j].a.lease
    /\ job' = [job EXCEPT ![j].a.lease = FALSE]
    /\ UNCHANGED <<pool, worker, live, sup, told, crashes>>

DurationExpires(j) ==
    /\ job[j].st \in {"running", "cancel_requested", "reconciling"}
    /\ ~job[j].a.expired
    /\ job' = [job EXCEPT ![j].a.expired = TRUE]
    /\ UNCHANGED <<pool, worker, live, sup, told, crashes>>

Crash(w) ==
    /\ crashes < MaxCrashes /\ worker[w].at # "idle"
    /\ worker' = [worker EXCEPT ![w] = Idle]
    /\ sup' = {s \in sup : s[1] # w}
    /\ crashes' = crashes + 1
    /\ UNCHANGED <<job, pool, live, told>>

---------------------------------------------------------------------------
(* Applying a result, and reconciling without one.                          *)

\* The stop is not proved: nothing may follow this attempt yet.
Unsettled(r, o) ==
    Pausing([r EXCEPT !.st = "reconciling", !.a.state = "reconciling",
               !.fail = CASE r.st = "cancel_requested" -> "cancelled"
                          [] r.st # "cancel_requested" /\ o.fail = "interrupted" -> "interrupted"
                          [] r.st # "cancel_requested" /\ o.fail # "interrupted"
                             /\ (o.fail = "timeout" \/ r.a.expired) -> "timeout"
                          [] OTHER -> "process_unsettled"])

CanSaveProposal(r, o) == o.res = "proposal" /\ r.a.started /\ r.a.proof = "complete"

\* The outcome of a settled attempt, by precedence.
Outcome(r, o) ==
    LET timedOut == o.fail = "timeout" \/ (o.fail # "interrupted" /\ r.a.expired) IN
    CASE r.st = "cancel_requested" -> <<"cancelled", "cancelled">>
      [] r.st # "cancel_requested" /\ timedOut -> <<"failed", "timeout">>
      [] r.st # "cancel_requested" /\ ~timedOut /\ CanSaveProposal(r, o)
            -> <<"proposed", "none">>
      [] r.st # "cancel_requested" /\ ~timedOut /\ o.res = "quota"
            -> <<"quota_wait", "quota_exhausted">>
      [] OTHER -> IF o.fail = "interrupted"
                  THEN IF HasCheckpoint(r) THEN <<"paused", "none">>
                       ELSE <<"failed", "interrupted">>
                  ELSE <<"failed", "unavailable">>

Applied(r, o) ==
    CheckpointSettled([r EXCEPT !.a.settled = TRUE, !.a.state = "settled",
                                !.st = Outcome(r, o)[1], !.fail = Outcome(r, o)[2]])

Exhausted(o) == o.res \in {"quota", "quotaSeen"}

Apply(w) ==
    LET o == worker[w]
        r == job[o.j]
    IN
    /\ o.at = "returned"
    /\ worker' = [worker EXCEPT ![w] = Idle]
    /\ IF ~Holds(w) \/ r.st \notin {"running", "cancel_requested"} \/ r.a.state = "settled"
       THEN UNCHANGED <<job, pool>>
       ELSE IF r.a.intent /\ ~r.a.settled
       THEN IF Exhausted(o)
            THEN QuotaSettle([job EXCEPT ![o.j] = Unsettled(r, o)], o.j, TRUE, FALSE)
            ELSE job' = [job EXCEPT ![o.j] = Unsettled(r, o)] /\ UNCHANGED pool
       ELSE QuotaSettle([job EXCEPT ![o.j] = Applied(r, o)], o.j, Exhausted(o),
                        Outcome(r, o)[1] = "proposed")
    /\ UNCHANGED <<live, sup, told, crashes>>

\* Mutant: a lapsed lease is taken for a stopped process.
HostGoneByLease(w, j) == job[j].a.started /\ ~job[j].a.lease

\* The host of the attempt no longer knows a process whose receipt is recorded.
HostGone(w, j) ==
    /\ job[j].a.started
    /\ SameHost \/ job[j].a.own = w
    /\ <<j, job[j].n>> \notin live

NeedsReconcile(j) ==
    \/ job[j].st = "reconciling" /\ job[j].n > 0
    \/ job[j].st \in {"running", "cancel_requested"} /\ ~job[j].a.lease

\* Recovery cannot prove the process gone: wait, keeping the reason.
StillUnsettled(r) ==
    Pausing([r EXCEPT !.st = "reconciling",
               !.fail = IF r.st = "cancel_requested" \/ r.fail = "cancelled" THEN "cancelled"
                        ELSE IF r.fail = "interrupted" THEN "interrupted"
                        ELSE IF r.fail = "timeout" \/ r.a.expired THEN "timeout"
                        ELSE "process_unsettled"])

RecoveredOutcome(r) ==
    IF r.st = "cancel_requested" \/ r.fail = "cancelled" THEN <<"cancelled", "cancelled">>
    ELSE IF \/ r.fail = "timeout"
            \/ ~(r.fail = "interrupted" /\ r.a.state = "reconciling") /\ r.a.expired
    THEN <<"failed", "timeout">>
    ELSE IF r.fail = "quota_exhausted" THEN <<"quota_wait", "quota_exhausted">>
    ELSE IF r.fail = "unavailable" THEN <<"failed", "unavailable">>
    ELSE IF HasCheckpoint(r) THEN <<"paused", "lost_result">>
    ELSE <<"failed", IF r.fail = "interrupted" THEN "interrupted" ELSE "lost_result">>

Recovered(r) ==
    CheckpointSettled([r EXCEPT !.a.settled = TRUE, !.a.state = "settled",
                                !.st = RecoveredOutcome(r)[1],
                                !.fail = RecoveredOutcome(r)[2]])

\* reconcile_settled: an idle worker takes a reconciling job, or one whose
\* lease has lapsed, without the result its worker may still hold.
Reconcile(w, j) ==
    LET r == job[j] IN
    /\ worker[w].at = "idle" /\ NeedsReconcile(j)
    /\ IF r.a.intent /\ ~r.a.settled /\ ~HostGone(w, j)
       THEN /\ StillUnsettled(r) # r
            /\ job' = [job EXCEPT ![j] = StillUnsettled(r)] /\ UNCHANGED pool
       ELSE QuotaSettle([job EXCEPT ![j] = Recovered(r)], j,
                        Recovered(r).fail = "quota_exhausted", FALSE)
    /\ UNCHANGED <<worker, live, sup, told, crashes>>

---------------------------------------------------------------------------
WorkerStep(w) ==
    \/ SettleNotLaunched(w) \/ LaunchIntent(w) \/ Spawn(w) \/ Started(w)
    \/ SupervisedStop(w) \/ UnprovenStop(w) \/ Abandon(w) \/ Poll(w) \/ Apply(w)

Operator(j) == Submit(j) \/ Cancel(j) \/ Retry(j) \/ Continue(j) \/ Stop(j)

Next ==
    \/ PoolEligible
    \/ \E j \in Jobs :
          \/ Operator(j) \/ Evaluate(j) \/ LeaseLapse(j) \/ DurationExpires(j)
          \/ \E n \in 1..MaxAttempts : Exit(j, n) \/ \E w \in Workers : LateStop(w, j, n)
    \/ \E w \in Workers :
          \/ WorkerStep(w) \/ Observe(w) \/ Drain(w) \/ Crash(w)
          \/ \E j \in Jobs : Claim(w, j) \/ Reconcile(w, j)

Spec == Init /\ [][Next]_vars

\* Some worker still renews this lease.
Attended(j) ==
    /\ job[j].st = "running"
    /\ \E w \in Workers : worker[w].j = j /\ worker[w].n = job[j].n

\* A worker process that is not stopped keeps polling; time passes; a worker
\* that dies is restarted, so recovery and evaluation are retried.
Fairness ==
    /\ \A w \in Workers :
          /\ WF_vars(WorkerStep(w))
          /\ \A j \in Jobs : WF_vars(Reconcile(w, j))
    /\ \A j \in Jobs :
          /\ WF_vars(~Attended(j) /\ LeaseLapse(j)) /\ WF_vars(DurationExpires(j)) /\ WF_vars(Evaluate(j))
          /\ \A n \in 1..MaxAttempts, w \in Workers : WF_vars(LateStop(w, j, n))

FairSpec == Spec /\ Fairness

---------------------------------------------------------------------------
TypeOK ==
    /\ \A j \in Jobs :
          /\ job[j].st \in States /\ job[j].n \in 0..MaxAttempts
          /\ job[j].cp \in Active \cup {"none", "resumed", "resolved"}
          /\ job[j].a.own \in Workers \cup {None}
    /\ pool.probe \in (Jobs \X (1..MaxAttempts)) \cup {None}
    /\ live \subseteq Jobs \X (1..MaxAttempts)

\* No attempt is admitted while the process of an earlier attempt of the same
\* job may still run, whatever leases lapse and whichever worker recovers it.
OneProcess == \A p \in live : p[2] = job[p[1]].n

\* "paused" is shown only when the process is really gone: a job is paused
\* exactly when its checkpoint is, and then nothing of it runs.
PausedTruthful ==
    \A j \in Jobs :
       /\ Monitored => (job[j].st = "paused") = (job[j].cp = "paused")
       /\ job[j].st = "paused" => job[j].a.settled /\ ~\E p \in live : p[1] = j

\* A proposal is kept only from a process whose start and clean end are both
\* on record, so nothing that is still writing is adopted.
ProposalProven ==
    \A j \in Jobs : job[j].st = "proposed" =>
        /\ job[j].a.started /\ job[j].a.proof = "complete"
        /\ ~\E p \in live : p[1] = j

\* While the pool is blocked at most one attempt probes it, and the pool never
\* waits for a probe that has already been settled.
OneProbe ==
    /\ pool.probe # None =>
          LET j == pool.probe[1] IN
          job[j].n = pool.probe[2] /\ job[j].a.probe /\ ~job[j].a.finished
    /\ \A j \in Jobs :
          job[j].n > 0 /\ job[j].a.probe /\ ~job[j].a.finished
              => pool.probe = <<j, job[j].n>>

Cancelling(r) ==
    r.st = "cancel_requested" \/ (r.st = "reconciling" /\ r.fail = "cancelled")

\* A cancellation accepted while work runs is never lost: whatever the worker
\* returns, and however often recovery looks, the job ends cancelled.
CancelHolds ==
    [][\A j \in Jobs : Cancelling(job[j]) =>
          Cancelling(job'[j]) \/ job'[j].st = "cancelled"]_vars

\* A recorded timeout is not turned into a resumable usage pause or a proposal.
TimeoutKept ==
    [][\A j \in Jobs : job[j].st = "reconciling" /\ job[j].fail = "timeout" =>
          job'[j].st \in {"reconciling", "cancel_requested", "failed"}]_vars

\* No record can show this process gone: its receipt is missing or it lives.
Unprovable(j) ==
    /\ job[j].a.intent /\ ~job[j].a.settled
    /\ ~job[j].a.started \/ <<j, job[j].n>> \in live

\* A requested cancellation ends the job as soon as the process can be proved
\* stopped.
CancelSettles ==
    \A j \in Jobs : []<>(Cancelling(job[j]) => Unprovable(j))

\* A usage checkpoint that was requested becomes a pause or is resolved, though
\* worker, lease and process fail in between.
CheckpointSettles ==
    \A j \in Jobs :
        []<>(job[j].cp \in {"requested", "pausing"} => Unprovable(j))

=============================================================================
