---------------------------- MODULE CommandQueue ----------------------------
(***************************************************************************)
(* The durable command queue of one run (persistence/repositories/         *)
(* commands.py) and the workers that drain it (application/services/       *)
(* worker.py).  Commands carry an expiring lease; a delivery is one        *)
(* handler execution under one attempt number.  Two lanes poll the queue:  *)
(* CONTROL takes pause and cancel, NORMAL takes everything else.           *)
(*                                                                         *)
(* Time is relative: `expires` and `delay` count down to the moment a      *)
(* lease ends or a command becomes available, so no clock has to be        *)
(* bounded.  Every worker reads its own clock, off by Skew[w] from the     *)
(* database's.  `order` is the (available_at, created_at, id) order of the *)
(* claim query.  Faults (crashes, lost renewals, stalls, handlers that ask *)
(* for recovery, transient errors) come from a budget of MaxFaults, so     *)
(* liveness reads: once the faults stop, the work gets done.               *)
(***************************************************************************)
EXTENDS Integers, Sequences, FiniteSets

CONSTANTS
    Workers,        \* Worker instances, each with an id of its own
    ControlWorkers, \* the ones polling the CONTROL lane
    Skew,           \* [Workers -> Int]: worker clock minus database clock
    MaxSkew,        \* bound on that difference
    Lease,          \* lease_seconds
    Types,          \* the command types this run's callers enqueue
    MaxBackoff,     \* the cap of the transient retry delay
    MaxCommands,    \* bound: commands ever enqueued
    MaxFaults       \* bound: faults that happen

ASSUME QueueAssumption ==
    /\ Lease \in Nat \ {0} /\ MaxBackoff \in Nat /\ MaxSkew \in Nat
    /\ MaxCommands \in Nat /\ MaxFaults \in Nat
    /\ ControlWorkers \subseteq Workers
    /\ Skew \in [Workers -> -MaxSkew..MaxSkew]
    /\ Types \subseteq {"pause", "cancel", "stage", "resume", "teardown_run_resources"}
    /\ "none" \notin Workers

VARIABLES
    cmd,        \* [Commands -> command row]
    order,      \* command ids in claim order
    tasks,      \* the deliveries some worker process is executing
    runState,   \* the run's state, as far as the queue tells states apart
    held,       \* a usage checkpoint or a startup intervention holds the run
    applied,    \* [Commands -> attempt whose settlement committed, 0 if none]
    faults

vars == <<cmd, order, tasks, runState, held, applied, faults>>

Commands == 1..MaxCommands
ControlTypes == {"pause", "cancel"}
CommandType == ControlTypes \cup {"stage", "resume", "teardown_run_resources"}
Status == {"ABSENT", "PENDING", "LEASED", "COMPLETED", "FAILED", "CANCELLED"}
Settled == {"COMPLETED", "FAILED", "CANCELLED"}

CommandRow ==
    [type : CommandType, status : Status, owner : Workers \cup {"none"},
     expires : -MaxSkew..(Lease + MaxSkew), attempt : Nat, delay : 0..MaxBackoff]

\* A delivery is `fenced` from assert_current_lease to the commit of its unit of
\* work, and `draining` once the worker gave it up but its handler still runs.
Delivery ==
    [worker : Workers, cmd : Commands, attempt : Nat,
     phase : {"running", "fenced", "returned", "raised"}, draining : BOOLEAN]

Init ==
    /\ cmd = [c \in Commands |->
                [type |-> "stage", status |-> "ABSENT", owner |-> "none",
                 expires |-> 0, attempt |-> 0, delay |-> 0]]
    /\ order = <<>>
    /\ tasks = {}
    /\ runState = "ACTIVE"
    /\ held = FALSE
    /\ applied = [c \in Commands |-> 0]
    /\ faults = 0

----------------------------------------------------------------------------
(* Rows, leases and locks.                                                 *)

IsControl(c) == cmd[c].type \in ControlTypes

Outstanding(c) == cmd[c].status \in {"PENDING", "LEASED"}

\* lease_expires_at > now on a clock that is `skew` ahead.
Live(c, skew) == cmd[c].status = "LEASED" /\ cmd[c].expires > skew

\* Mutant: the fence reads the row without locking it.
FreeAnyway(c) == c \in Commands

\* No open unit of work has fenced, and so locked, the row.
RowFree(c) == \A t \in tasks : t.cmd = c => t.phase # "fenced"

\* _require_owned_lease on the worker's clock.
OwnsLease(t) ==
    Live(t.cmd, Skew[t.worker]) /\ cmd[t.cmd].owner = t.worker

\* assert_current_lease.
CurrentLease(t) == OwnsLease(t) /\ cmd[t.cmd].attempt = t.attempt

Without(seq, c) == SelectSeq(seq, LAMBDA d : d # c)

\* Where a command with this delay belongs in the claim order.
PlaceInOrder(seq, c, delay) ==
    SelectSeq(seq, LAMBDA d : cmd[d].delay <= delay) \o <<c>>
        \o SelectSeq(seq, LAMBDA d : cmd[d].delay > delay)

Fault == faults < MaxFaults /\ faults' = faults + 1

----------------------------------------------------------------------------
(* The queue's writers.                                                    *)

\* enqueue of a new idempotency key; a repeated key returns the stored row and
\* changes nothing.
Enqueue(c, type, delay) ==
    /\ cmd[c].status = "ABSENT"
    /\ \A d \in Commands : d < c => cmd[d].status # "ABSENT"
    /\ type # "stage" => delay = 0
    /\ cmd' = [cmd EXCEPT ![c].type = type, ![c].status = "PENDING", ![c].delay = delay]
    /\ order' = PlaceInOrder(order, c, delay)
    /\ UNCHANGED <<tasks, runState, held, applied, faults>>

\* A row the claim query selects for this worker's lane.
Eligible(w, c) ==
    /\ cmd[c].delay = 0
    /\ \/ cmd[c].status = "PENDING"
       \/ cmd[c].status = "LEASED" /\ ~ Live(c, Skew[w])
    /\ IsControl(c) <=> w \in ControlWorkers

PendingControl(c) == IsControl(c) /\ cmd[c].status = "PENDING" /\ cmd[c].delay = 0

\* Mutant: the NORMAL lane looks at controls only.
NormalIgnoresNormal(w, c) ==
    \E d \in Commands \ {c} : IsControl(d) /\ (Live(d, Skew[w]) \/ PendingControl(d))

\* Another lease or a waiting stop keeps the claim out.
Blocked(w, c) ==
    \E d \in Commands \ {c} :
        \/ Live(d, Skew[w]) /\ (~ IsControl(c) \/ IsControl(d))
        \/ ~ IsControl(c) /\ PendingControl(d)

\* The lane's predicate, the run's state, the holds, and the other leases.
Claimable(w, c) ==
    /\ Eligible(w, c)
    /\ RowFree(c)
    /\ ~ IsControl(c) =>
         /\ ~ held
         /\ runState = "PAUSED" => cmd[c].type = "resume"
         /\ runState = "ENDED" => cmd[c].type = "teardown_run_resources"
    /\ ~ Blocked(w, c)

\* Only one query result is taken: the first claimable row.
FirstClaimable(w, c) ==
    /\ Claimable(w, c)
    /\ \A i, j \in DOMAIN order :
         order[i] = c /\ j < i => ~ Claimable(w, order[j])

\* The worker's slot is free: no delivery of its own runs or drains.
Idle(w) == \A t \in tasks : t.worker # w

\* tick, up to the handler's start.
ClaimNext(w, c) ==
    /\ Idle(w)
    /\ FirstClaimable(w, c)
    /\ cmd' = [cmd EXCEPT ![c].status = "LEASED", ![c].owner = w,
                          ![c].expires = Lease + Skew[w], ![c].attempt = @ + 1]
    /\ tasks' = tasks \cup {[worker |-> w, cmd |-> c, attempt |-> cmd[c].attempt + 1,
                             phase |-> "running", draining |-> FALSE]}
    /\ UNCHANGED <<order, runState, held, applied, faults>>

----------------------------------------------------------------------------
(* The delivery.                                                           *)

End(t) == tasks' = tasks \ {t}

Become(t, phase) == tasks' = (tasks \ {t}) \cup {[t EXCEPT !.phase = phase]}

GiveUp(t) == tasks' = (tasks \ {t}) \cup {[t EXCEPT !.draining = TRUE]}

\* renew: blocked while a unit of work holds the row.
Renew(t) ==
    /\ ~ t.draining /\ t.phase \in {"running", "fenced"}
    /\ RowFree(t.cmd)
    /\ OwnsLease(t)
    /\ cmd' = [cmd EXCEPT ![t.cmd].expires = Lease + Skew[t.worker]]
    /\ UNCHANGED <<order, tasks, runState, held, applied, faults>>

\* renew finds the lease gone: the handler is cancelled and drains.
RenewalRefused(t) ==
    /\ ~ t.draining /\ t.phase \in {"running", "fenced"}
    /\ RowFree(t.cmd)
    /\ ~ OwnsLease(t)
    /\ GiveUp(t)
    /\ UNCHANGED <<cmd, order, runState, held, applied, faults>>

\* renew raises for another reason, with the lease still live.
RenewalError(t) ==
    /\ ~ t.draining /\ t.phase \in {"running", "fenced"}
    /\ GiveUp(t)
    /\ Fault
    /\ UNCHANGED <<cmd, order, runState, held, applied>>

\* The handler fences its settlement; a handler that already settled under an
\* earlier delivery replays instead (see Return).
Fence(t) ==
    /\ t.phase = "running"
    /\ RowFree(t.cmd)
    /\ CurrentLease(t)
    /\ applied[t.cmd] = 0
    /\ Become(t, "fenced")
    /\ UNCHANGED <<cmd, order, runState, held, applied, faults>>

\* The fence raises CommandLeaseError: the reclaimer owns the disposition.
FenceRefused(t) ==
    /\ t.phase = "running"
    /\ RowFree(t.cmd)
    /\ ~ CurrentLease(t)
    /\ End(t)
    /\ UNCHANGED <<cmd, order, runState, held, applied, faults>>

\* cancel_pending_unstarted and _settle_expired_observed_lease, for every other
\* outstanding normal command of the paused run; a live lease or a retried
\* delivery leaves the resume without a disposition.
SettleableByResume(c) ==
    /\ RowFree(c)
    /\ \/ cmd[c].status = "PENDING" /\ cmd[c].attempt = 0
       \/ cmd[c].status = "LEASED" /\ ~ Live(c, 0)

OthersOutstanding(c) == {d \in Commands \ {c} : ~ IsControl(d) /\ Outstanding(d)}

SettledByResume(c) ==
    [d \in Commands |->
        IF d \in OthersOutstanding(c)
        THEN [cmd[d] EXCEPT !.status = IF applied[d] = 0 THEN "CANCELLED" ELSE "COMPLETED",
                            !.owner = "none", !.expires = 0]
        ELSE cmd[d]]

\* Mutant: resume drops the others' rows without looking at their leases.
SettleAnything(c) == c \in Commands

CanSettleOthers(c) == \A d \in OthersOutstanding(c) : SettleableByResume(d)

\* The unit of work commits: the row is still locked, so no lease can have
\* moved since the fence.  What the commit means for the run depends on the
\* command.
Commit(t) ==
    /\ t.phase = "fenced"
    /\ CASE cmd[t.cmd].type = "pause" ->
                runState = "ACTIVE" /\ runState' = "PAUSED" /\ UNCHANGED cmd
         [] cmd[t.cmd].type = "cancel" ->
                runState # "ENDED" /\ runState' = "ENDED" /\ UNCHANGED cmd
         [] cmd[t.cmd].type = "resume" ->
                /\ runState = "PAUSED" /\ runState' = "ACTIVE"
                /\ CanSettleOthers(t.cmd)
                /\ cmd' = SettledByResume(t.cmd)
         [] cmd[t.cmd].type = "stage" ->
                runState = "ACTIVE" /\ runState' \in {"ACTIVE", "ENDED"} /\ UNCHANGED cmd
         [] cmd[t.cmd].type = "teardown_run_resources" -> UNCHANGED <<runState, cmd>>
    /\ applied' = [applied EXCEPT ![t.cmd] = t.attempt]
    /\ Become(t, "returned")
    /\ UNCHANGED <<order, held, faults>>

\* The handler returns without settling anything: a replay of work an earlier
\* delivery applied.  A cancelled handler that ends only ends.
Return(t) ==
    /\ t.phase = "running" /\ applied[t.cmd] # 0
    /\ Become(t, "returned")
    /\ UNCHANGED <<cmd, order, runState, held, applied, faults>>

DrainEnds(t) ==
    /\ t.draining
    /\ End(t)
    /\ UNCHANGED <<cmd, order, runState, held, applied, faults>>

\* Mutant: complete does not ask for the lease.
CompletesRegardless(t) == t \in tasks

\* complete: a row another hand already completed is left alone; without the
\* lease the worker walks away.
MayComplete(t) == OwnsLease(t)

SettleRow(c, status) ==
    [cmd EXCEPT ![c].status = status, ![c].owner = "none", ![c].expires = 0]

Complete(t) ==
    /\ t.phase = "returned" /\ ~ t.draining
    /\ RowFree(t.cmd)
    /\ cmd' = IF MayComplete(t) THEN SettleRow(t.cmd, "COMPLETED") ELSE cmd
    /\ End(t)
    /\ UNCHANGED <<order, runState, held, applied, faults>>

\* The handler raises: its unit of work rolls back before fail is called.
Raise(t) ==
    /\ t.phase \in {"running", "fenced"} /\ ~ t.draining
    /\ Become(t, "raised")
    /\ UNCHANGED <<cmd, order, runState, held, applied, faults>>

\* fail(transient=False), for every exception that is not classified.  Without
\* the lease the error leaves tick and nothing is written.
Fail(t) ==
    /\ t.phase = "raised"
    /\ RowFree(t.cmd)
    /\ cmd' = IF OwnsLease(t) THEN SettleRow(t.cmd, "FAILED") ELSE cmd
    /\ End(t)
    /\ UNCHANGED <<order, runState, held, applied, faults>>

\* min(300, 2 ** min(max(attempt - 1, 0), 8)), capped by MaxBackoff.
Backoff(attempt) ==
    LET delay == IF attempt <= 1 THEN 1 ELSE 2 ^ (attempt - 1)
    IN  IF delay > MaxBackoff THEN MaxBackoff ELSE delay

\* fail(transient=True): back to PENDING after the backoff.
FailTransient(t) ==
    /\ t.phase = "raised"
    /\ RowFree(t.cmd)
    /\ IF OwnsLease(t)
       THEN LET delay == Backoff(cmd[t.cmd].attempt) IN
            /\ cmd' = [SettleRow(t.cmd, "PENDING") EXCEPT ![t.cmd].delay = delay]
            /\ order' = PlaceInOrder(Without(order, t.cmd), t.cmd, delay)
       ELSE UNCHANGED <<cmd, order>>
    /\ End(t)
    /\ Fault
    /\ UNCHANGED <<runState, held, applied>>

\* CommandRecoveryRequired: the delivery ends, the row stays leased.
RecoveryRequired(t) ==
    /\ t.phase \in {"running", "fenced"} /\ ~ t.draining
    /\ End(t)
    /\ Fault
    /\ UNCHANGED <<cmd, order, runState, held, applied>>

----------------------------------------------------------------------------
(* The environment.                                                        *)

\* A worker process dies with everything it was executing; its open unit of
\* work rolls back and releases the row.
Crash(w) ==
    /\ ~ Idle(w)
    /\ tasks' = {t \in tasks : t.worker # w}
    /\ Fault
    /\ UNCHANGED <<cmd, order, runState, held, applied>>

Hold ==
    /\ ~ held /\ held' = TRUE
    /\ Fault
    /\ UNCHANGED <<cmd, order, tasks, runState, applied>>

Release ==
    /\ held /\ held' = FALSE
    /\ UNCHANGED <<cmd, order, tasks, runState, applied, faults>>

\* A delivery whose worker is about to let the lease lapse.
AboutToLapse(t) ==
    /\ ~ t.draining
    /\ CurrentLease(t)
    /\ cmd[t.cmd].expires - Skew[t.worker] = 1

\* Time passes.  A renewal loop that keeps up renews before the lease lapses;
\* one that does not is a stall, which is a fault.
Advance ==
    /\ IF \E t \in tasks : AboutToLapse(t) THEN Fault ELSE UNCHANGED faults
    /\ cmd' = [c \in Commands |->
                [cmd[c] EXCEPT !.expires = IF cmd[c].status = "LEASED" /\ @ > -MaxSkew
                                           THEN @ - 1 ELSE @,
                               !.delay = IF @ > 0 THEN @ - 1 ELSE 0]]
    /\ UNCHANGED <<order, tasks, runState, held, applied>>

Next ==
    \/ \E c \in Commands, type \in Types, delay \in 0..MaxBackoff :
            Enqueue(c, type, delay)
    \/ \E w \in Workers, c \in Commands : ClaimNext(w, c)
    \/ \E t \in tasks :
        \/ Renew(t) \/ RenewalRefused(t) \/ RenewalError(t)
        \/ Fence(t) \/ FenceRefused(t) \/ Commit(t) \/ Return(t) \/ DrainEnds(t)
        \/ Complete(t) \/ Raise(t) \/ Fail(t) \/ FailTransient(t)
        \/ RecoveryRequired(t)
    \/ \E w \in Workers : Crash(w)
    \/ Hold \/ Release \/ Advance

Spec == Init /\ [][Next]_vars

\* What a live worker keeps doing: it polls, its handler gets on with the
\* delivery, and the outcome is written.  Time passes and holds are released.
Deliver(w) == \E t \in tasks :
    /\ t.worker = w
    /\ \/ RenewalRefused(t) \/ Fence(t) \/ FenceRefused(t) \/ Commit(t)
       \/ Return(t) \/ DrainEnds(t) \/ Complete(t) \/ Raise(t) \/ Fail(t)

Fairness ==
    /\ \A w \in Workers :
         WF_vars(\E c \in Commands : ClaimNext(w, c)) /\ WF_vars(Deliver(w))
    /\ WF_vars(Release) /\ WF_vars(Advance)

FairSpec == Spec /\ Fairness

----------------------------------------------------------------------------
(* Properties.                                                             *)

\* Rows, deliveries and counters keep their types.
TypeOK ==
    /\ cmd \in [Commands -> CommandRow]
    /\ order \in Seq(Commands)
    /\ tasks \subseteq Delivery
    /\ runState \in {"ACTIVE", "PAUSED", "ENDED"}
    /\ held \in BOOLEAN
    /\ applied \in [Commands -> Nat]
    /\ faults \in 0..MaxFaults

\* Fencing (assert_current_lease): a settlement commits only for the newest
\* delivery of a command that is still leased, though the lease may run out
\* between the fence and the commit, workers' clocks differ, and a handler its
\* worker gave up may still be running.
StaleNeverCommits ==
    [][\A c \in Commands : applied'[c] # applied[c] =>
            cmd[c].status = "LEASED" /\ applied'[c] = cmd[c].attempt]_vars

\* A worker executes one handler at a time, counting one it has cancelled and
\* that is still draining (tick's early return).
OneHandlerPerWorker ==
    \A t, u \in tasks : t.worker = u.worker => t = u

\* A delivery that resume cancelled as interrupted was never applied and never
\* will be: its late handler finds the fence closed.
CancelledNeverApplied ==
    \A c \in Commands : cmd[c].status = "CANCELLED" => applied[c] = 0

\* A settled command stays as it was settled: a late complete or fail of a
\* worker that lost its lease rewrites nothing.
SettledForGood ==
    [][\A c \in Commands : cmd[c].status \in Settled => cmd'[c].status = cmd[c].status]_vars

\* Where clocks agree, the NORMAL lane has one live lease per run.
OneNormalLease ==
    Cardinality({c \in Commands : ~ IsControl(c) /\ Live(c, 0)}) <= 1

\* Once the faults stop, an accepted stop is carried out or refused whatever
\* the NORMAL lane is doing.
StopSettles ==
    \A c \in Commands : []<>~ (IsControl(c) /\ Outstanding(c))

\* Once the faults stop, every command of a run that stays active is settled:
\* no lease, delay or hold strands it.
WorkSettles ==
    \A c \in Commands :
        []<>(Outstanding(c) => runState # "ACTIVE")

=============================================================================
