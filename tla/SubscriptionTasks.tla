--------------------------- MODULE SubscriptionTasks ---------------------------
(* Leases, provider attempts, controlled effects and operator stops of one      *)
(* subscription run: persistence/repositories/scheduling.py,                    *)
(* subscription_execution.py and subscription_task_controls.py, with the tool   *)
(* broker and the attempt runner that call them.  Every action is one database  *)
(* transaction or one step of a provider client; transactions of a run are      *)
(* serialised by its row lock.                                                  *)
(*                                                                              *)
(* A run has one worktree.  Its Primary task coordinates, Readers only read,    *)
(* and the other tasks write inside the paths they own.  An effect is one       *)
(* controlled tool callback of an attempt: bound, admitted by the scheduler,    *)
(* authorised and executed, then finalised with an immutable receipt.           *)
EXTENDS Naturals, FiniteSets

CONSTANTS
    Tasks,          \* logical tasks of the run
    Primary,        \* the coordinator
    Readers,        \* tasks whose purpose is read-only
    Region, Owned,  \* path regions, and the regions a writer owns
    Effects, TaskOf, KindOf,    \* callbacks, their task and their tool
    Limit,          \* execution slots
    Stoppable,      \* tasks an operator stops
    Suspensions,    \* ways run controls suspend the whole run
    MaxLeases,      \* bound on the leases of each task
    MaxRepairs, MaxEpoch, MaxCallers,   \* bounds on counters
    Faults          \* whether workers crash and leases expire

Writers == Tasks \ (Readers \cup {Primary})
Kinds == {"read", "snapshot", "write", "commit"}

ASSUME TaskAssumption ==
    /\ Primary \in Tasks /\ Readers \subseteq Tasks \ {Primary}
    /\ Stoppable \subseteq Tasks \ {Primary}
    /\ Owned \in [Tasks -> SUBSET Region]
    /\ TaskOf \in [Effects -> Tasks] /\ KindOf \in [Effects -> Kinds]
    /\ Suspensions \subseteq {"checkpoint", "stopped"}
    /\ Limit \in Nat \ {0} /\ MaxLeases \in [Tasks -> Nat]
    /\ MaxRepairs \in Nat /\ MaxEpoch \in Nat /\ MaxCallers \in Nat \ {0}
    /\ Faults \in BOOLEAN
    /\ IsFiniteSet(Tasks)

\* SPECIALIST_ALLOWED_TOOLS: a read-only purpose is given only reading tools,
\* and the broker denies a call of any other (permitted_tools).
ASSUME ReaderAssumption ==
    \A e \in Effects : TaskOf[e] \in Readers => KindOf[e] \in {"read", "snapshot"}

VARIABLES
    state,      \* [Tasks -> scheduled task state]
    gen,        \* [Tasks -> lease generation]
    expired,    \* [Tasks -> the current lease's expiry has passed]
    att,        \* [Tasks -> status of the latest attempt]
    aepoch,     \* [Tasks -> candidate epoch of the latest attempt]
    result,     \* [Tasks -> unapplied result of the latest attempt]
    client,     \* [Tasks -> official client of the latest attempt]
    proved,     \* [Tasks -> every closed attempt kept a stopped-client proof]
    repairs,    \* [Tasks -> repairs spent]
    stop,       \* [Tasks -> pause or cancellation requested by the operator]
    stopRow,    \* [Tasks -> lifecycle of the latest task stop]
    idle,       \* [Tasks -> state an idle pause restores]
    eff,        \* [Effects -> callback state]
    egen,       \* [Effects -> lease generation the callback belongs to]
    eepoch,     \* [Effects -> candidate epoch of its admission]
    receipt,    \* [Effects -> the binding holds its receipt]
    tool,       \* [Effects -> tool call record]
    callers,    \* [Effects -> live callers of the callback]
    cand, epoch,    \* candidate barrier
    run,        \* whether run controls or a usage checkpoint stop work
    obs, obsLive, moved     \* handoff observation, and a write since it began

taskVars == <<state, gen, expired, att, aepoch, result, client, proved, repairs>>
stopVars == <<stop, stopRow, idle>>
effVars == <<eff, egen, eepoch, receipt, tool, callers>>
runVars == <<cand, epoch, run>>
obsVars == <<obs, obsLive, moved>>
vars == <<taskVars, stopVars, effVars, runVars, obsVars>>

NoTask == "none"

TypeOK ==
    /\ state \in [Tasks -> {"absent", "queued", "leased", "blocked",
                            "reconciling", "terminal"}]
    /\ gen \in [Tasks -> Nat]
    /\ expired \in [Tasks -> BOOLEAN]
    /\ att \in [Tasks -> {"none", "running", "reconciling", "terminal"}]
    /\ aepoch \in [Tasks -> 0..MaxEpoch]
    /\ result \in [Tasks -> {"none", "pending", "stale", "fenced"}]
    /\ client \in [Tasks -> {"none", "live", "stopped", "unsure", "gone"}]
    /\ proved \in [Tasks -> BOOLEAN]
    /\ repairs \in [Tasks -> 0..MaxRepairs]
    /\ stop \in [Tasks -> {"none", "pause", "cancel"}]
    /\ stopRow \in [Tasks -> {"none", "requested", "settled"}]
    /\ idle \in [Tasks -> {"queued", "blocked"}]
    /\ eff \in [Effects -> {"none", "bound", "admitted", "reconciling",
                            "settled", "rejected"}]
    /\ egen \in [Effects -> Nat]
    /\ eepoch \in [Effects -> 0..MaxEpoch]
    /\ receipt \in [Effects -> BOOLEAN]
    /\ tool \in [Effects -> {"none", "open", "ok", "bad"}]
    /\ callers \in [Effects -> 0..MaxCallers]
    /\ cand \in {"open", "closed"} /\ epoch \in 0..MaxEpoch
    /\ run \in {"open", "checkpoint", "stopped", "ended"}
    /\ obs \in Tasks \cup {NoTask} /\ obsLive \in BOOLEAN /\ moved \in BOOLEAN

Init ==
    /\ state = [t \in Tasks |-> IF t = Primary THEN "queued" ELSE "absent"]
    /\ gen = [t \in Tasks |-> 0]
    /\ expired = [t \in Tasks |-> FALSE]
    /\ att = [t \in Tasks |-> "none"]
    /\ aepoch = [t \in Tasks |-> 0]
    /\ result = [t \in Tasks |-> "none"]
    /\ client = [t \in Tasks |-> "none"]
    /\ proved = [t \in Tasks |-> TRUE]
    /\ repairs = [t \in Tasks |-> 0]
    /\ stop = [t \in Tasks |-> "none"]
    /\ stopRow = [t \in Tasks |-> "none"]
    /\ idle = [t \in Tasks |-> "queued"]
    /\ eff = [e \in Effects |-> "none"]
    /\ egen = [e \in Effects |-> 0]
    /\ eepoch = [e \in Effects |-> 0]
    /\ receipt = [e \in Effects |-> FALSE]
    /\ tool = [e \in Effects |-> "none"]
    /\ callers = [e \in Effects |-> 0]
    /\ cand = "open" /\ epoch = 0 /\ run = "open"
    /\ obs = NoTask /\ obsLive = FALSE /\ moved = FALSE

-----------------------------------------------------------------------------
(* Scheduler predicates *)

Active(t) == state[t] \in {"leased", "reconciling"}
Pending(e) == eff[e] \in {"admitted", "reconciling"}
EffectsOf(t) == {e \in Effects : TaskOf[e] = t}
PendingOf(t) == {e \in EffectsOf(t) : Pending(e)}

\* _task: the lease names the row's generation and has not expired.
LeaseCurrent(t, g) == state[t] = "leased" /\ gen[t] = g /\ ~expired[t]

\* _is_bound_read: the callback's tool only reads the candidate.
IsBoundRead(e) == KindOf[e] \in {"read", "snapshot"}

\* A coordinator's or reader's read; a writer's read never counts as one.
ReadEffect(e) == IsBoundRead(e) /\ TaskOf[e] \in Readers \cup {Primary}

\* _effect_scope: commits, named checks and snapshot diffs take the whole
\* worktree, and so does everything the coordinator changes.
WholeWorktree(e) ==
    \/ KindOf[e] \in {"commit", "snapshot"}
    \/ TaskOf[e] = Primary /\ ~IsBoundRead(e)

\* Mutant: an effect waiting for reconciliation is no barrier.
BarrierAdmittedOnly ==
    obsLive \/ \E e \in Effects : eff[e] = "admitted" /\ WholeWorktree(e)

HasExclusiveBarrier ==
    obsLive \/ \E e \in Effects : Pending(e) /\ WholeWorktree(e)

\* _has_effect_conflict: what an exclusive effect of e's task must wait for.
HasEffectConflict(e) ==
    LET t == TaskOf[e]
        others == Writers \ {t}
    IN  IF KindOf[e] = "snapshot"
        THEN \/ \E u \in others : state[u] = "reconciling"
             \/ \E f \in Effects : Pending(f)
        ELSE \/ \E u \in others : Active(u)
             \/ PendingOf(t) # {}

\* _has_worktree_conflict: another writer of overlapping paths is unfinished.
HasWorktreeConflict(t) ==
    /\ t \in Writers
    /\ \E u \in Writers \ {t} : Active(u) /\ Owned[t] \cap Owned[u] # {}

CanReadCandidate(t) == t \in Readers \cup {Primary}

\* paused_task_is_stopped: a settled pause gives its slot back.
StoppedPause(t) ==
    /\ state[t] = "reconciling" /\ stop[t] = "pause" /\ stopRow[t] = "settled"
    /\ att[t] = "reconciling" /\ client[t] = "stopped"
    /\ PendingOf(t) = {}
    /\ \A e \in EffectsOf(t) : tool[e] # "open"
    /\ \A e \in EffectsOf(t) :
           eff[e] # "none" /\ egen[e] = gen[t] => receipt[e]

ActiveCount == Cardinality({t \in Tasks : Active(t) /\ ~StoppedPause(t)})

-----------------------------------------------------------------------------
(* Admission of an attempt *)

\* reconcile_expired at the head of a claim: every expired lease of the run.
Swept == [t \in Tasks |-> IF state[t] = "leased" /\ expired[t]
                          THEN "reconciling" ELSE state[t]]

SweepExpired ==
    /\ Swept # state
    /\ state' = Swept
    /\ UNCHANGED <<gen, expired, att, aepoch, result, client, proved, repairs,
                   stopVars, effVars, runVars, obsVars>>

\* The conditions under which the claim loop takes a queued task.
Claimable(t) ==
    /\ run = "open"
    /\ cand = "open" \/ CanReadCandidate(t)
    /\ state[t] = "queued" /\ stop[t] = "none"
    /\ att[t] \in {"none", "terminal"}
    /\ PendingOf(t) = {}
    /\ ActiveCount < Limit
    /\ t \in Writers => ~HasExclusiveBarrier
    /\ ~HasWorktreeConflict(t)

\* admit_next: claim, attempt and reservation commit together.
Claim(t) ==
    /\ gen[t] < MaxLeases[t]
    /\ Claimable(t)
    /\ state' = [Swept EXCEPT ![t] = "leased"]
    /\ gen' = [gen EXCEPT ![t] = @ + 1]
    /\ expired' = [expired EXCEPT ![t] = FALSE]
    /\ att' = [att EXCEPT ![t] = "running"]
    /\ aepoch' = [aepoch EXCEPT ![t] = epoch]
    /\ result' = [result EXCEPT ![t] = "none"]
    /\ client' = [client EXCEPT ![t] = "none"]
    /\ UNCHANGED <<proved, repairs, stopVars, effVars, runVars, obsVars>>

\* The holder stops renewing for longer than the lease.
LeaseExpires(t) ==
    /\ Faults
    /\ state[t] = "leased" /\ ~expired[t]
    /\ expired' = [expired EXCEPT ![t] = TRUE]
    /\ UNCHANGED <<state, gen, att, aepoch, result, client, proved, repairs,
                   stopVars, effVars, runVars, obsVars>>

-----------------------------------------------------------------------------
(* The provider client of an attempt *)

\* launch_intent: refused once the lease, the task or the run is stopped.
Launch(t) ==
    /\ att[t] = "running" /\ client[t] = "none"
    /\ run \in {"open", "checkpoint"}
    /\ stop[t] = "none" /\ LeaseCurrent(t, gen[t])
    /\ client' = [client EXCEPT ![t] = "live"]
    /\ UNCHANGED <<state, gen, expired, att, aepoch, result, proved, repairs,
                   stopVars, effVars, runVars, obsVars>>

\* The runner revokes the broker and the client's stop is confirmed, or the
\* cleanup time passes and neither is known.
ClientEnds(t, outcome) ==
    /\ client[t] = "live"
    /\ outcome = "unsure" => Faults
    /\ client' = [client EXCEPT ![t] = outcome]
    /\ UNCHANGED <<state, gen, expired, att, aepoch, result, proved, repairs,
                   stopVars, effVars, runVars, obsVars>>

\* The worker process dies with its client and its callbacks.
WorkerCrash(t) ==
    /\ Faults
    /\ att[t] = "running" /\ client[t] # "gone"
    /\ client' = [client EXCEPT ![t] = "gone"]
    /\ callers' = [e \in Effects |-> IF TaskOf[e] = t THEN 0 ELSE callers[e]]
    /\ UNCHANGED <<state, gen, expired, att, aepoch, result, proved, repairs,
                   stopVars, eff, egen, eepoch, receipt, tool, runVars, obsVars>>

\* settle: whether the attempt still holds every authority it started with.
ResultCurrent(t) ==
    /\ LeaseCurrent(t, gen[t]) /\ stop[t] = "none"
    /\ aepoch[t] = epoch /\ run \in {"open", "checkpoint"}

\* Mutant: an attempt does not wait for the effects it started.
FencedByClient(t, outcome) == outcome = "uncertain" \/ client[t] = "unsure"

\* Unsettled effects or an unconfirmed client fence the result.
ResultFenced(t, outcome) ==
    PendingOf(t) # {} \/ outcome = "uncertain" \/ client[t] = "unsure"

Settling(t) == att[t] = "running" /\ client[t] \in {"none", "stopped", "unsure"}

SettleRetained(t, outcome) ==
    /\ Settling(t)
    /\ outcome = "decision" => client[t] = "stopped"
    /\ ResultFenced(t, outcome) \/ ~ResultCurrent(t)
    /\ result' = [result EXCEPT
           ![t] = IF ResultFenced(t, outcome) THEN "fenced" ELSE "stale"]
    /\ att' = [att EXCEPT ![t] = "reconciling"]
    /\ state' = [state EXCEPT ![t] = "reconciling"]
    /\ UNCHANGED <<gen, expired, aepoch, client, proved, repairs,
                   stopVars, effVars, runVars, obsVars>>

\* A typed decision waits for its application.
SettleDecision(t) ==
    /\ Settling(t) /\ client[t] = "stopped"
    /\ ~ResultFenced(t, "decision") /\ ResultCurrent(t)
    /\ result' = [result EXCEPT ![t] = "pending"]
    /\ att' = [att EXCEPT ![t] = "reconciling"]
    /\ state' = [state EXCEPT ![t] = "reconciling"]
    /\ UNCHANGED <<gen, expired, aepoch, client, proved, repairs,
                   stopVars, effVars, runVars, obsVars>>

\* The attempt of t closes and the scheduler releases the task to s.
Close(t, s) ==
    /\ state' = [state EXCEPT ![t] = s]
    /\ att' = [att EXCEPT ![t] = "terminal"]
    /\ result' = [result EXCEPT ![t] = "none"]
    /\ proved' = [proved EXCEPT ![t] = @ /\ client[t] = "stopped"]

\* Quota exhaustion, and an interruption by a usage checkpoint, requeue the
\* task without spending a repair.
SettleDeferred(t) ==
    /\ Settling(t)
    /\ ~ResultFenced(t, "failure") /\ ResultCurrent(t)
    /\ client[t] = "stopped" \/ run = "checkpoint"
    /\ Close(t, "queued")
    /\ UNCHANGED <<gen, expired, aepoch, client, repairs,
                   stopVars, effVars, runVars, obsVars>>

\* Failures and role violations spend a repair, or end the task.
SettleFailure(t) ==
    /\ Settling(t)
    /\ ~ResultFenced(t, "failure") /\ ResultCurrent(t)
    /\ \/ /\ repairs[t] < MaxRepairs
          /\ repairs' = [repairs EXCEPT ![t] = @ + 1]
          /\ Close(t, "queued")
       \/ Close(t, "terminal") /\ UNCHANGED repairs
    /\ UNCHANGED <<gen, expired, aepoch, client,
                   stopVars, effVars, runVars, obsVars>>

-----------------------------------------------------------------------------
(* The tool broker *)

\* The broker still accepts calls: it has not been revoked.
Accepting(t) == client[t] \in {"live", "unsure"}

\* _bind_operation commits before anything is admitted.
BindOperation(e) ==
    LET t == TaskOf[e] IN
    /\ eff[e] = "none" /\ Accepting(t) /\ att[t] # "none"
    /\ eff' = [eff EXCEPT ![e] = "bound"]
    /\ egen' = [egen EXCEPT ![e] = gen[t]]
    /\ UNCHANGED <<taskVars, stopVars, eepoch, receipt, tool, callers,
                   runVars, obsVars>>

\* admit_effect for a lease that is still current.
Admissible(e) ==
    LET t == TaskOf[e] IN
    /\ Accepting(t)
    /\ run # "checkpoint"
    /\ LeaseCurrent(t, egen[e]) /\ stop[t] = "none"
    /\ aepoch[t] = epoch
    /\ cand = "open" \/ ReadEffect(e)

NewlyAdmissible(e) ==
    LET t == TaskOf[e] IN
    /\ (t \notin Readers /\ ~ReadEffect(e)) \/ WholeWorktree(e)
           => ~HasExclusiveBarrier
    /\ WholeWorktree(e) => ~HasEffectConflict(e)

AdmitEffect(e) ==
    /\ eff[e] = "bound"
    /\ Admissible(e) /\ NewlyAdmissible(e)
    /\ eff' = [eff EXCEPT ![e] = "admitted"]
    /\ eepoch' = [eepoch EXCEPT ![e] = epoch]
    /\ callers' = [callers EXCEPT ![e] = 1]
    /\ UNCHANGED <<taskVars, stopVars, egen, receipt, tool, runVars, obsVars>>

\* The provider repeats the call while the first is in flight, or after it
\* failed: the admission is the same row and takes no second barrier.
ReplayCall(e) ==
    /\ Pending(e) /\ Admissible(e) /\ ~receipt[e] /\ callers[e] < MaxCallers
    /\ callers' = [callers EXCEPT ![e] = @ + 1]
    /\ UNCHANGED <<taskVars, stopVars, eff, egen, eepoch, receipt, tool,
                   runVars, obsVars>>

\* authorize_tool: the complete lineage is checked again before the effect.
Authorized(e) ==
    LET t == TaskOf[e] IN
    /\ run # "checkpoint" /\ att[t] = "running" /\ stop[t] = "none"
    /\ LeaseCurrent(t, egen[e]) /\ eepoch[e] = epoch
    /\ cand = "open" \/ (IsBoundRead(e) /\ CanReadCandidate(t))
    /\ eff[e] = "admitted"

AuthorizeTool(e) ==
    /\ callers[e] > 0 /\ tool[e] = "none"
    /\ tool' = [tool EXCEPT ![e] = IF Authorized(e) THEN "open" ELSE "bad"]
    /\ UNCHANGED <<taskVars, stopVars, eff, egen, eepoch, receipt, callers,
                   runVars, obsVars>>

\* The controlled tool ends; recovery proves the end of one nobody waits for.
ToolEnds(e, verdict) ==
    /\ tool[e] = "open"
    /\ tool' = [tool EXCEPT ![e] = verdict]
    /\ moved' = (moved \/ (obs # NoTask /\ ~IsBoundRead(e)))
    /\ UNCHANGED <<taskVars, stopVars, eff, egen, eepoch, receipt, callers,
                   runVars, obs, obsLive>>

\* Mutant: a stop does not revoke the result.
AcceptsStopped(e) ==
    LET t == TaskOf[e] IN
    tool[e] = "ok" /\ Accepting(t) /\ LeaseCurrent(t, egen[e])

\* settle_effect: a revoked, expired or stopped lease cannot accept a result.
AcceptsResult(e) ==
    LET t == TaskOf[e] IN
    tool[e] = "ok" /\ Accepting(t) /\ LeaseCurrent(t, egen[e]) /\ stop[t] = "none"

Return(e) == callers' = [callers EXCEPT ![e] = @ - 1]

\* _finalize_effect: the receipt and the end of the fence share one commit; a
\* receipt that is already there is returned, a fence that moved is an error.
FinalizeEffect(e) ==
    /\ callers[e] > 0 /\ tool[e] \in {"ok", "bad"}
    /\ Return(e)
    /\ IF ~receipt[e] /\ eff[e] = "admitted"
       THEN /\ eff' = [eff EXCEPT ![e] = IF AcceptsResult(e)
                                         THEN "settled" ELSE "rejected"]
            /\ receipt' = [receipt EXCEPT ![e] = TRUE]
       ELSE UNCHANGED <<eff, receipt>>
    /\ UNCHANGED <<taskVars, stopVars, egen, eepoch, tool, runVars, obsVars>>

\* The effect raised: a read is rejected, anything else needs reconciliation.
EffectFails(e) ==
    /\ Faults
    /\ callers[e] > 0 /\ ~receipt[e]
    /\ Return(e)
    /\ eff' = [eff EXCEPT ![e] = IF @ # "admitted" THEN @
                                 ELSE IF IsBoundRead(e) THEN "rejected"
                                 ELSE "reconciling"]
    /\ UNCHANGED <<taskVars, stopVars, egen, eepoch, receipt, tool,
                   runVars, obsVars>>

\* The callback is cancelled; only its last caller hands the effect to recovery.
CallCancelled(e) ==
    /\ callers[e] > 0
    /\ Return(e)
    /\ eff' = [eff EXCEPT ![e] = IF @ = "admitted" /\ callers[e] = 1 /\ ~receipt[e]
                                 THEN "reconciling" ELSE @]
    /\ UNCHANGED <<taskVars, stopVars, egen, eepoch, receipt, tool,
                   runVars, obsVars>>

\* _reconcile_interrupted_effect: a dead lease and a terminal tool call.
ReconcileInterruptedEffect(e) ==
    LET t == TaskOf[e] IN
    /\ Pending(e) /\ ~receipt[e] /\ tool[e] \in {"ok", "bad"}
    /\ ~(LeaseCurrent(t, egen[e]) /\ stop[t] = "none")
    /\ eff' = [eff EXCEPT ![e] = "rejected"]
    /\ receipt' = [receipt EXCEPT ![e] = TRUE]
    /\ UNCHANGED <<taskVars, stopVars, egen, eepoch, tool, callers,
                   runVars, obsVars>>
-----------------------------------------------------------------------------
(* Application of a retained decision.  PrimaryDecisions says which decision  *)
(* leads where; here they are told apart by what they need of the scheduler.  *)

\* _apply: the source is still the task's current, unstopped, quiet attempt.
SourceCurrent(t) ==
    /\ result[t] = "pending" /\ att[t] = "reconciling"
    /\ state[t] = "reconciling" /\ stop[t] = "none"
    /\ run = "open" /\ aepoch[t] = epoch /\ PendingOf(t) = {}

OthersTerminal(t) == \A u \in Tasks \ {t} : state[u] \in {"absent", "terminal"}

\* _finish: the primary waits, or takes another turn.
FinishDecision(t, s) ==
    /\ t = Primary /\ SourceCurrent(t) /\ cand = "open"
    /\ Close(t, s)
    /\ UNCHANGED <<gen, expired, aepoch, client, repairs,
                   stopVars, effVars, runVars, obsVars>>

\* A delegation enqueues its children and blocks the primary; from a closed
\* candidate it first reopens it under a new epoch.
Delegate(children) ==
    /\ SourceCurrent(Primary)
    /\ children # {} /\ \A c \in children : state[c] = "absent"
    /\ \/ cand = "open" /\ UNCHANGED <<cand, epoch>>
       \/ /\ cand = "closed" /\ epoch < MaxEpoch
          /\ OthersTerminal(Primary)
          /\ \A e \in Effects : ~Pending(e)
          /\ ~HasExclusiveBarrier
          /\ cand' = "open" /\ epoch' = epoch + 1
    /\ state' = [t \in Tasks |-> IF t \in children THEN "queued"
                                 ELSE IF t = Primary THEN "blocked" ELSE state[t]]
    /\ att' = [att EXCEPT ![Primary] = "terminal"]
    /\ result' = [result EXCEPT ![Primary] = "none"]
    /\ UNCHANGED <<gen, expired, aepoch, client, proved, repairs,
                   stopVars, effVars, run, obsVars>>

\* ReviewSelection: begin_candidate and close_candidate in one transaction.
SelectReview ==
    /\ SourceCurrent(Primary) /\ cand = "open" /\ epoch < MaxEpoch
    /\ OthersTerminal(Primary)
    /\ \A e \in Effects : ~Pending(e)
    /\ cand' = "closed" /\ epoch' = epoch + 1
    /\ Close(Primary, "blocked")
    /\ UNCHANGED <<gen, expired, aepoch, client, repairs,
                   stopVars, effVars, run, obsVars>>

\* A finished child, a review task or operator feedback reaches the primary.
Wake ==
    /\ state[Primary] = "blocked"
    /\ state' = [state EXCEPT ![Primary] = "queued"]
    /\ UNCHANGED <<gen, expired, att, aepoch, result, client, proved, repairs,
                   stopVars, effVars, runVars, obsVars>>

\* The selected review task is created against the closed candidate.
EnqueueReview(t) ==
    /\ cand = "closed" /\ t \in Readers /\ state[t] = "absent"
    /\ state[Primary] = "blocked"
    /\ state' = [state EXCEPT ![t] = "queued"]
    /\ UNCHANGED <<gen, expired, att, aepoch, result, client, proved, repairs,
                   stopVars, effVars, runVars, obsVars>>

\* begin: a bounded observation starts only in a worktree without effects.
BeginObservation(t) ==
    /\ t # Primary /\ SourceCurrent(t)
    /\ cand = "open" \/ t \in Readers
    /\ ~obsLive
    /\ \A e \in Effects : ~Pending(e)
    /\ obs' = t /\ obsLive' = TRUE /\ moved' = FALSE
    /\ UNCHANGED <<taskVars, stopVars, effVars, runVars>>

\* Sixty seconds pass, or the observer gives up.
ObservationEnds ==
    /\ obsLive
    /\ obsLive' = FALSE
    /\ UNCHANGED <<taskVars, stopVars, effVars, runVars, obs, moved>>

\* current: the exact fence is still held when the handoff is applied.
ObservationCurrent(t) == obs = t /\ obsLive

\* The observed handoff is accepted, or rejected into a repair or the end.
ApplyHandoff(t) ==
    /\ t # Primary /\ SourceCurrent(t)
    /\ cand = "open" \/ t \in Readers
    /\ ObservationCurrent(t)
    /\ \/ Close(t, "terminal") /\ UNCHANGED repairs
       \/ /\ repairs[t] < MaxRepairs
          /\ repairs' = [repairs EXCEPT ![t] = @ + 1]
          /\ Close(t, "queued")
    /\ obs' = NoTask /\ obsLive' = FALSE /\ moved' = FALSE
    /\ UNCHANGED <<gen, expired, aepoch, client, stopVars, effVars, runVars>>

-----------------------------------------------------------------------------
(* Operator controls of one task *)

NoOpenBinding(t, generations) ==
    \A e \in EffectsOf(t) :
        eff[e] # "none" /\ egen[e] \in generations => receipt[e]

\* _retained_source: the client is proved stopped and nothing is outstanding.
RetainedSource(t) ==
    /\ result[t] # "none" /\ att[t] = "reconciling" /\ client[t] = "stopped"
    /\ PendingOf(t) = {}
    /\ \A e \in EffectsOf(t) : tool[e] # "open"
    /\ NoOpenBinding(t, {gen[t]})

\* _cancel_unlaunched: durable evidence that no client was ever launched.
Unlaunched(t) ==
    /\ result[t] = "stale" /\ att[t] = "reconciling" /\ client[t] = "none"
    /\ PendingOf(t) = {}
    /\ \A e \in EffectsOf(t) : tool[e] # "open"
    /\ NoOpenBinding(t, {gen[t]})

\* _mark_stopped
MarkStopped(t, action) ==
    /\ stop' = [stop EXCEPT ![t] = action]
    /\ stopRow' = [stopRow EXCEPT ![t] = "settled"]
    /\ IF action = "cancel"
       THEN Close(t, "terminal")
       ELSE UNCHANGED <<state, att, result, proved>>
    /\ UNCHANGED <<gen, expired, aepoch, client, repairs, idle,
                   effVars, runVars, obsVars>>

Controllable(t, action) ==
    /\ t \in Stoppable /\ action \in {"pause", "cancel"}
    /\ run # "ended" /\ (action = "pause" => run \in {"open", "checkpoint"})
    /\ stop[t] = "none" \/ (stop[t] = "pause" /\ action = "cancel")

\* A task without a live attempt stops at once (never attempted, or idle with a
\* history that proves every earlier client and callback closed).
StopIdle(t, action) ==
    /\ Controllable(t, action)
    /\ att[t] \in {"none", "terminal"} /\ state[t] \in {"queued", "blocked"}
    /\ att[t] = "terminal" => proved[t] /\ NoOpenBinding(t, Nat)
    /\ stop' = [stop EXCEPT ![t] = action]
    /\ idle' = [idle EXCEPT ![t] = IF stop[t] = "none" THEN state[t] ELSE @]
    /\ state' = [state EXCEPT
           ![t] = IF action = "cancel" THEN "terminal" ELSE "blocked"]
    /\ UNCHANGED <<gen, expired, att, aepoch, result, client, proved, repairs,
                   stopRow, effVars, runVars, obsVars>>

\* A running attempt is asked to stop; the stop stays requested.
StopActive(t, action) ==
    /\ Controllable(t, action)
    /\ att[t] = "running" /\ Active(t)
    /\ stop' = [stop EXCEPT ![t] = action]
    /\ stopRow' = [stopRow EXCEPT ![t] = "requested"]
    /\ UNCHANGED <<taskVars, idle, effVars, runVars, obsVars>>

\* A retained result is stopped in the same transaction.
StopRetained(t, action) ==
    /\ Controllable(t, action)
    /\ state[t] = "reconciling" /\ RetainedSource(t)
    /\ MarkStopped(t, action)

\* reconcile_stop: finishes each requested stop once its work is proved over.
ReconcileStop(t) ==
    /\ stopRow[t] = "requested" /\ state[t] = "reconciling"
    /\ RetainedSource(t) \/ (stop[t] = "cancel" /\ Unlaunched(t))
    /\ MarkStopped(t, stop[t])

ResumeIdle(t) ==
    /\ stop[t] = "pause" /\ run = "open"
    /\ att[t] \in {"none", "terminal"} /\ state[t] = "blocked"
    /\ stop' = [stop EXCEPT ![t] = "none"]
    /\ state' = [state EXCEPT ![t] = IF att[t] = "none" THEN "queued" ELSE idle[t]]
    /\ UNCHANGED <<gen, expired, att, aepoch, result, client, proved, repairs,
                   stopRow, idle, effVars, runVars, obsVars>>

\* _resume_attempt: a decision pending before the pause keeps its application;
\* any other stopped result is requeued, with a repair unless quota ended it.
ResumeAttempt(t, debit) ==
    /\ stop[t] = "pause" /\ run = "open" /\ stopRow[t] = "settled"
    /\ RetainedSource(t)
    /\ stop' = [stop EXCEPT ![t] = "none"]
    /\ stopRow' = [stopRow EXCEPT ![t] = "none"]
    /\ IF result[t] = "pending"
       THEN debit = 0 /\ UNCHANGED <<state, att, result, proved, repairs>>
       ELSE /\ repairs[t] + debit <= MaxRepairs
            /\ repairs' = [repairs EXCEPT ![t] = @ + debit]
            /\ Close(t, "queued")
    /\ UNCHANGED <<gen, expired, aepoch, client, idle, effVars, runVars, obsVars>>

-----------------------------------------------------------------------------
(* Controls of the whole run *)

SuspendRun(kind) ==
    /\ run = "open"
    /\ run' = kind
    /\ UNCHANGED <<taskVars, stopVars, effVars, cand, epoch, obsVars>>

ContinueCheckpoint ==
    /\ run = "checkpoint"
    /\ run' = "open"
    /\ UNCHANGED <<taskVars, stopVars, effVars, cand, epoch, obsVars>>

\* resume_paused_attempts: the stale results of tasks no operator stopped.
Resumable == {t \in Tasks : result[t] = "stale" /\ att[t] = "reconciling"
                            /\ stop[t] = "none"}

\* Everything else that still holds work keeps the run paused.
Quiescent ==
    /\ \A e \in Effects : ~Pending(e) /\ tool[e] # "open"
    /\ \A t \in Tasks \ Resumable : Active(t) \/ att[t] \in {"running", "reconciling"}
           => StoppedPause(t) \/ (result[t] = "pending" /\ stop[t] = "none")

ResumeRun(debits) ==
    /\ run = "stopped"
    /\ Quiescent
    /\ \A t \in Resumable : client[t] = "stopped"
                             /\ repairs[t] + debits[t] <= MaxRepairs
    /\ run' = "open"
    /\ state' = [t \in Tasks |-> IF t \in Resumable THEN "queued" ELSE state[t]]
    /\ att' = [t \in Tasks |-> IF t \in Resumable THEN "terminal" ELSE att[t]]
    /\ result' = [t \in Tasks |-> IF t \in Resumable THEN "none" ELSE result[t]]
    /\ repairs' = [t \in Tasks |-> IF t \in Resumable THEN repairs[t] + debits[t]
                                   ELSE repairs[t]]
    /\ UNCHANGED <<gen, expired, aepoch, client, proved, stopVars, effVars,
                   cand, epoch, obsVars>>

\* The run ends (cancelled or failed); settle_run then closes every attempt
\* whose client is proved stopped, without waking a parent.
EndRun ==
    /\ run = "stopped"
    /\ run' = "ended"
    /\ UNCHANGED <<taskVars, stopVars, effVars, cand, epoch, obsVars>>

SettleEnded(t) ==
    /\ run = "ended"
    /\ att[t] = "reconciling" /\ client[t] = "stopped" /\ PendingOf(t) = {}
    /\ Close(t, "terminal")
    /\ UNCHANGED <<gen, expired, aepoch, client, repairs, stopVars, effVars,
                   runVars, obsVars>>

-----------------------------------------------------------------------------
AttemptStep(t) ==
    \/ Claim(t) \/ Launch(t)
    \/ \E o \in {"stopped", "unsure"} : ClientEnds(t, o)
    \/ \E o \in {"decision", "failure", "uncertain"} : SettleRetained(t, o)
    \/ SettleDecision(t) \/ SettleDeferred(t) \/ SettleFailure(t)

FaultStep(t) == LeaseExpires(t) \/ WorkerCrash(t)

BrokerStep(e) ==
    \/ BindOperation(e) \/ AdmitEffect(e) \/ ReplayCall(e) \/ AuthorizeTool(e)
    \/ \E v \in {"ok", "bad"} : ToolEnds(e, v)
    \/ FinalizeEffect(e) \/ EffectFails(e) \/ CallCancelled(e)
    \/ ReconcileInterruptedEffect(e)

DecisionStep ==
    \/ \E s \in {"queued", "blocked"} : FinishDecision(Primary, s)
    \/ \E c \in SUBSET (Tasks \ {Primary}) : Delegate(c)
    \/ SelectReview \/ Wake
    \/ \E t \in Tasks : EnqueueReview(t) \/ BeginObservation(t) \/ ApplyHandoff(t)
    \/ ObservationEnds

ControlStep(t) ==
    \/ \E a \in {"pause", "cancel"} :
           StopIdle(t, a) \/ StopActive(t, a) \/ StopRetained(t, a)
    \/ ReconcileStop(t) \/ ResumeIdle(t)
    \/ \E d \in {0, 1} : ResumeAttempt(t, d)

RunStep ==
    \/ \E k \in Suspensions : SuspendRun(k)
    \/ ContinueCheckpoint \/ EndRun
    \/ \E d \in [Tasks -> {0, 1}] : ResumeRun(d)
    \/ \E t \in Tasks : SettleEnded(t)

Next ==
    \/ \E t \in Tasks : AttemptStep(t) \/ FaultStep(t) \/ ControlStep(t)
    \/ \E e \in Effects : BrokerStep(e)
    \/ SweepExpired \/ DecisionStep \/ RunStep

Spec == Init /\ [][Next]_vars

-----------------------------------------------------------------------------
(* Safety *)

\* An unsettled commit, named check, snapshot or coordinator write shares the
\* worktree with no other unsettled effect except a coordinator's or reader's
\* plain read (admit_effect, _has_exclusive_effect_barrier,
\* _has_effect_conflict), whatever leases expired or were stopped meanwhile.
ExclusiveAlone ==
    \A e, f \in Effects :
        e # f /\ Pending(e) /\ Pending(f) /\ WholeWorktree(e)
            => ReadEffect(f) /\ ~WholeWorktree(f)

\* An unsettled effect keeps its task's lease row, generation and attempt: no
\* retry, handoff, cancellation or resume gets past an effect whose outcome is
\* unknown (settle's fence, _retained_source, _apply, resume_paused_attempts).
PendingKeepsTask ==
    \A e \in Effects : Pending(e) =>
        /\ Active(TaskOf[e]) /\ gen[TaskOf[e]] = egen[e]
        /\ att[TaskOf[e]] \in {"running", "reconciling"}

\* Two writers of overlapping paths are never both unfinished, a settled pause
\* that gave its slot back included (_has_worktree_conflict).
OverlappingWritersExclude ==
    \A t, u \in Writers :
        t # u /\ Owned[t] \cap Owned[u] # {} => ~(Active(t) /\ Active(u))

\* No more attempts run clients or hold unsettled effects than there are slots,
\* although settled pauses free theirs (_active_count, paused_task_is_stopped).
SlotsBounded ==
    Cardinality({t \in Tasks :
        \/ att[t] = "running"
        \/ client[t] \in {"live", "unsure"} /\ att[t] # "terminal"
        \/ PendingOf(t) # {}}) <= Limit

\* A live attempt belongs to the current candidate epoch: the candidate is
\* closed or reopened only between attempts (close_candidate, the quiescence
\* checks of _apply).
LiveAttemptCurrentEpoch ==
    \A t \in Tasks :
        att[t] \in {"running", "reconciling"} => aepoch[t] = epoch

\* A closed candidate is immutable: every unsettled effect only reads it.
ClosedCandidateReadOnly ==
    cand = "closed" => \A e \in Effects : Pending(e) => ReadEffect(e)

\* The tree a handoff was observed in is the tree it is applied to: nothing
\* writes between begin and current (subscription_handoff_fence).
ObservationHolds == obsLive => ~moved

\* An operator's stop is final until an operator resumes: a stopped task is not
\* leased again, accepts no effect and applies no decision, and a cancelled one
\* never leaves cancellation (finish, settle_effect, _apply).
StopNeverRevived ==
    [][\A t \in Tasks : stop[t] # "none" =>
          /\ gen'[t] = gen[t]
          /\ \A e \in EffectsOf(t) : eff'[e] = "settled" => eff[e] = "settled"
          /\ stop[t] = "cancel" => stop'[t] = "cancel"
          /\ state'[t] = "queued" /\ state[t] # "queued" => stop'[t] = "none"]_vars

\* A receipt and the verdict on its effect never change once recorded, whoever
\* arrives late: the callback, its replay or recovery (_finalize_effect,
\* _reconcile_interrupted_effect).
VerdictFinal ==
    [][\A e \in Effects :
          /\ receipt[e] => receipt'[e] /\ eff'[e] = eff[e]
          /\ eff[e] \in {"settled", "rejected"} => eff'[e] = eff[e]]_vars

\* Effects and tasks exclude each other as their scopes ask, until the effect
\* is settled and not only until the lease is gone, and no more tasks run than
\* there are slots (scheduling.py).
EffectsExclude ==
    /\ TypeOK
    /\ ExclusiveAlone
    /\ OverlappingWritersExclude
    /\ SlotsBounded

\* A result that comes after its lease, its stop, its pause or its candidate
\* was closed changes nothing: no task gets past an unsettled effect, a stop is
\* not revived, a verdict not rewritten, a candidate under review is read only
\* and a handoff is applied to the tree it was observed in
\* (subscription_execution.py).
ResultsFenced ==
    /\ [](/\ PendingKeepsTask /\ LiveAttemptCurrentEpoch
          /\ ClosedCandidateReadOnly /\ ObservationHolds)
    /\ StopNeverRevived
    /\ VerdictFinal

-----------------------------------------------------------------------------
(* Liveness: workers finish what they started and recovery keeps running *)

Fairness ==
    /\ WF_vars(SweepExpired)
    /\ \A t \in Tasks :
        /\ WF_vars(ClientEnds(t, "stopped"))
        /\ WF_vars(\E o \in {"failure", "uncertain"} : SettleRetained(t, o))
        /\ WF_vars(SettleFailure(t)) /\ WF_vars(SettleDecision(t))
        /\ WF_vars(ReconcileStop(t))
    /\ \A e \in Effects :
        /\ WF_vars(AuthorizeTool(e)) /\ WF_vars(ToolEnds(e, "ok"))
        /\ WF_vars(FinalizeEffect(e)) /\ WF_vars(ReconcileInterruptedEffect(e))

FairSpec == Spec /\ Fairness

\* A stopped task's effects are all settled or rejected in the end, as long as
\* their tool calls were recorded before the worker died.
StoppedEffectsSettle ==
    \A e \in Effects :
        []<>~ (Pending(e) /\ stop[TaskOf[e]] # "none" /\ tool[e] # "none")

=============================================================================
