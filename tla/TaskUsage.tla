------------------------------ MODULE TaskUsage -----------------------------
(***************************************************************************)
(* Usage checkpoints of one run.  The provider attempts of the run report  *)
(* tokens; a committed report is evaluated against the frozen reference in *)
(* a second transaction, and a crossing requests a checkpoint.  The        *)
(* checkpoint fences the run's normal work, settles to paused when nothing *)
(* runs, and waits for the owner.  The operator's pause, resume, cancel    *)
(* and teardown go their own way through the command queue.                *)
(*                                                                         *)
(* An evaluation reads the totals before it takes the run's lock, so the   *)
(* owner, the other attempts and the periodic sweep may all act between.   *)
(***************************************************************************)
EXTENDS Naturals, Sequences, FiniteSetsExt

CONSTANTS
    Sources,        \* the provider attempts the run may make
    Baseline,       \* checkpoint threshold of the frozen reference
    Reference,      \* reference tokens: the step to the next threshold
    MaxTokens,      \* bound: tokens of one attempt
    MaxCrashes,     \* bound: deaths of the worker
    MaxRequests,    \* bound: operator requests
    Requests,       \* the operator and owner requests that are made
    None

UsageAssumption ==
    /\ {Baseline, MaxTokens, MaxCrashes, MaxRequests} \subseteq Nat
    /\ Baseline > 0 /\ Reference \in Nat /\ None \notin Sources

VARIABLES
    run,        \* the run's state and version
    normal,     \* the run's normal commands
    controls,   \* its accepted controls, oldest first
    attempt,    \* the attempts and their measured tokens
    sink,       \* the evaluation each attempt's gateway is waiting for
    sweep,      \* the evaluation of the worker's periodic sweep
    ckpts,      \* the checkpoint generations
    admitted,   \* the scheduler still admits attempts of the run
    up,         \* the worker is alive
    crashes, requests

vars == <<run, normal, controls, attempt, sink, sweep, ckpts, admitted, up, crashes, requests>>

----------------------------------------------------------------------------
(* State.                                                                  *)

Terminal == {"CANCELLED", "COMPLETED"}

OpenStates == {"requested", "pausing", "paused"}

NormalTypes == {"stage", "resume", "teardown"}

\* The event that settles a source; its live events are counted from one.
Final == 0

Idle == [step |-> "idle", of |-> None, event |-> Final, total |-> 0, gen |-> 0]

Evaluations ==
    [step : {"idle", "appended", "read", "advance"}, of : Sources \cup {None},
     event : Nat, total : Nat, gen : Nat]

Gens == DOMAIN ckpts

Open == {g \in Gens : ckpts[g].state \in OpenStates}

Latest == ckpts[Len(ckpts)]

Owned(state) == ckpts # <<>> /\ Latest.state = state

Total == MapThenSumSet(LAMBDA s : attempt[s].tokens, Sources)

Busy == {s \in Sources : attempt[s].phase \in {"running", "lost"}}

\* run_checkpoint_quiescent: expired leases and attempts without a result
\* count as work.
Quiet == Busy = {} /\ \A k \in NormalTypes : normal[k] \notin {"leased", "expired"}

\* The commands of the NORMAL lane that the run's state lets through.
Passes(k) ==
    CASE run.state = "PAUSED" -> k = "resume"
      [] run.state \in Terminal -> k = "teardown"
      [] OTHER -> TRUE

Fenced == Open # {}

----------------------------------------------------------------------------
(* Evaluation: task_usage_monitor.py and the checkpoint repository.        *)

Threshold == IF ckpts # <<>> /\ Latest.threshold # 0 THEN Latest.threshold ELSE Baseline

\* evaluate_run_usage, with the owner's overrides of the latest generation.
Crosses(total) ==
    /\ ckpts # <<>> => ~ Latest.bypass /\ Latest.mode = "checkpoint"
    /\ total >= Threshold

Stored(s, e) == {g \in Gens : ckpts[g].trigger = <<s, e>>}

\* A new generation follows its predecessor's overrides.
Requested(s, e) ==
    [trigger |-> <<s, e>>,
     state |-> IF run.state \in Terminal THEN "resolved" ELSE "requested",
     threshold |-> IF ckpts = <<>> THEN 0 ELSE Latest.threshold,
     bypass |-> ckpts # <<>> /\ Latest.bypass,
     mode |-> IF ckpts = <<>> THEN "checkpoint" ELSE Latest.mode]

\* RunTaskUsageMonitor.observe under the run's lock.  The trigger's identity
\* is immutable: a replay finds its generation and only a terminal run moves
\* it, unless work is unsettled, where the transition is refused.
Observed(s, e, total) ==
    IF Open # {} \/ Owned("resolved") \/ ~ Crosses(total) THEN ckpts
    ELSE IF Stored(s, e) = {} THEN Append(ckpts, Requested(s, e))
    ELSE [g \in Gens |->
              IF g \in Stored(s, e) /\ run.state \in Terminal /\ Quiet
              THEN [ckpts[g] EXCEPT !.state = "resolved"] ELSE ckpts[g]]

\* The generation an evaluation returns for its caller to advance.
Returned(s, e, total) ==
    IF Open # {} THEN CHOOSE g \in Open : TRUE
    ELSE IF Len(Observed(s, e, total)) > Len(ckpts) THEN Len(ckpts) + 1 ELSE 0

\* RunTaskUsageMonitor.advance.
Advanced(g) ==
    [ckpts EXCEPT ![g].state =
        IF @ \notin {"requested", "pausing"} THEN @
        ELSE IF run.state \in Terminal THEN "resolved"
        ELSE IF Quiet THEN "paused" ELSE "pausing"]

----------------------------------------------------------------------------
(* Attempts and the observation sink of their gateway.                     *)

Init ==
    /\ run = [state |-> "ACTIVE", version |-> 1]
    /\ normal = [k \in NormalTypes |-> "none"]
    /\ controls = <<>>
    /\ attempt = [s \in Sources |-> [phase |-> "idle", tokens |-> 0, final |-> FALSE]]
    /\ sink = [s \in Sources |-> Idle]
    /\ sweep = Idle
    /\ ckpts = <<>>
    /\ admitted = TRUE /\ up = TRUE
    /\ crashes = 0 /\ requests = 0

\* The scheduler leases a task and its attempt is admitted, bound and launched.
Launch(s) ==
    /\ up /\ admitted /\ run.state = "ACTIVE" /\ ~ Fenced /\ controls = <<>>
    /\ attempt[s].phase = "idle"
    /\ attempt' = [attempt EXCEPT ![s].phase = "running"]
    /\ UNCHANGED <<run, normal, controls, sink, sweep, ckpts, admitted, up, crashes, requests>>

\* MonitoringObservationSink.observe_usage appends first.
Report(s) ==
    /\ up /\ attempt[s].phase = "running" /\ sink[s] = Idle
    /\ attempt[s].tokens < MaxTokens
    /\ attempt' = [attempt EXCEPT ![s].tokens = @ + 1]
    /\ sink' = [sink EXCEPT ![s] =
                   [Idle EXCEPT !.step = "appended", !.of = s, !.event = attempt[s].tokens + 1]]
    /\ UNCHANGED <<run, normal, controls, sweep, ckpts, admitted, up, crashes, requests>>

\* Mutant: only the reporting source is summed.
ReadOwnTotal(s) ==
    /\ up /\ sink[s].step = "appended"
    /\ sink' = [sink EXCEPT ![s].step = "read", ![s].total = attempt[s].tokens]
    /\ UNCHANGED <<run, normal, controls, attempt, sweep, ckpts, admitted, up, crashes, requests>>

\* The totals are read in a transaction of their own.
ReadTotals(s) ==
    /\ up /\ sink[s].step = "appended"
    /\ sink' = [sink EXCEPT ![s].step = "read", ![s].total = Total]
    /\ UNCHANGED <<run, normal, controls, attempt, sweep, ckpts, admitted, up, crashes, requests>>

Observe(s) ==
    /\ up /\ sink[s].step = "read"
    /\ ckpts' = Observed(s, sink[s].event, sink[s].total)
    /\ LET g == Returned(s, sink[s].event, sink[s].total) IN
       sink' = [sink EXCEPT ![s] =
                   IF g = 0 THEN Idle
                   ELSE [Idle EXCEPT !.step = "advance", !.of = s, !.gen = g]]
    /\ UNCHANGED <<run, normal, controls, attempt, sweep, admitted, up, crashes, requests>>

Advance(s) ==
    /\ up /\ sink[s].step = "advance"
    /\ ckpts' = Advanced(sink[s].gen)
    /\ sink' = [sink EXCEPT ![s] = Idle]
    /\ UNCHANGED <<run, normal, controls, attempt, sweep, admitted, up, crashes, requests>>

\* The attempt ends, on its own or because the renewal of its lease is refused,
\* and its consumption is recorded; it may exceed what was reported live.
Settle(s, more) ==
    /\ up /\ attempt[s].phase = "running" /\ sink[s] = Idle
    /\ attempt[s].tokens + more <= MaxTokens
    /\ attempt' = [attempt EXCEPT ![s].phase = "settled", ![s].tokens = @ + more]
    /\ normal' = IF run.state = "ACTIVE" /\ normal.stage = "none" /\ ~ Fenced
                 THEN [normal EXCEPT !.stage = "pending"] ELSE normal
    /\ UNCHANGED <<run, controls, sink, sweep, ckpts, admitted, up, crashes, requests>>

\* An operator recovers the attempt of a dead worker; no consumption is proved.
Recover(s) ==
    /\ attempt[s].phase = "lost"
    /\ attempt' = [attempt EXCEPT ![s].phase = "recovered"]
    /\ UNCHANGED <<run, normal, controls, sink, sweep, ckpts, admitted, up, crashes, requests>>

----------------------------------------------------------------------------
(* The sweep of the worker: reconcile and reconcile_final_sources.         *)

SweepAdvance(g) ==
    /\ up /\ sweep = Idle /\ ckpts[g].state \in {"requested", "pausing"}
    /\ ckpts' = Advanced(g)
    /\ UNCHANGED <<run, normal, controls, attempt, sink, sweep, admitted, up, crashes, requests>>

\* A missing final is appended, a committed one is taken up again.
FinalDue(s) == attempt[s].phase = "settled"

SweepFinal(s) ==
    /\ up /\ sweep = Idle /\ FinalDue(s)
    /\ attempt' = [attempt EXCEPT ![s].final = TRUE]
    /\ sweep' = [Idle EXCEPT !.step = "appended", !.of = s]
    /\ UNCHANGED <<run, normal, controls, sink, ckpts, admitted, up, crashes, requests>>

SweepTotals ==
    /\ up /\ sweep.step = "appended"
    /\ sweep' = [sweep EXCEPT !.step = "read", !.total = Total]
    /\ UNCHANGED <<run, normal, controls, attempt, sink, ckpts, admitted, up, crashes, requests>>

SweepObserve ==
    /\ up /\ sweep.step = "read"
    /\ ckpts' = Observed(sweep.of, Final, sweep.total)
    /\ sweep' = Idle
    /\ UNCHANGED <<run, normal, controls, attempt, sink, admitted, up, crashes, requests>>

----------------------------------------------------------------------------
(* The command queue, as far as a checkpoint meets it.                     *)

ClaimNormal(k) ==
    /\ up /\ normal[k] \in {"pending", "expired"}
    /\ ~ Fenced /\ Passes(k) /\ controls = <<>>
    /\ \A j \in NormalTypes : normal[j] # "leased"
    /\ normal' = [normal EXCEPT ![k] = "leased"]
    /\ UNCHANGED <<run, controls, attempt, sink, sweep, ckpts, admitted, up, crashes, requests>>

\* A stage moves the run on; the last one completes it.  A stage that finds
\* the run stopped leaves its work to the resume.
StageEnds ==
    /\ up /\ normal.stage = "leased"
    /\ \/ /\ run.state = "ACTIVE"
          /\ normal' = [normal EXCEPT !.stage = "none"]
          /\ \E state \in {"ACTIVE", "COMPLETED"} :
                /\ state = "COMPLETED" => Busy = {}
                /\ run' = [state |-> state, version |-> run.version + 1]
       \/ /\ run.state # "ACTIVE"
          /\ normal' = [normal EXCEPT !.stage = IF run.state = "PAUSED" THEN "pending" ELSE "none"]
          /\ run' = run
    /\ UNCHANGED <<controls, attempt, sink, sweep, ckpts, admitted, up, crashes, requests>>

\* The resume needs a quiet run; an expired stage is queued afresh.
ResumeEnds ==
    /\ up /\ normal.resume = "leased" /\ run.state = "PAUSED" /\ Busy = {}
    /\ run' = [state |-> "ACTIVE", version |-> run.version + 1]
    /\ normal' = [normal EXCEPT !.resume = "none",
                                !.stage = IF @ = "expired" THEN "pending" ELSE @]
    /\ UNCHANGED <<controls, attempt, sink, sweep, ckpts, admitted, up, crashes, requests>>

\* A resume delivered after the run was cancelled is refused.
ResumeRefused ==
    /\ up /\ normal.resume = "leased" /\ run.state # "PAUSED"
    /\ normal' = [normal EXCEPT !.resume = "none"]
    /\ UNCHANGED <<run, controls, attempt, sink, sweep, ckpts, admitted, up, crashes, requests>>

TeardownEnds ==
    /\ up /\ normal.teardown = "leased"
    /\ normal' = [normal EXCEPT !.teardown = "none"]
    /\ UNCHANGED <<run, controls, attempt, sink, sweep, ckpts, admitted, up, crashes, requests>>

\* The CONTROL lane is not fenced.  A control of another version is rejected.
ControlEnds ==
    /\ up /\ controls # <<>>
    /\ LET c == Head(controls) IN
       run' = IF c.version # run.version THEN run
              ELSE [state |-> IF c.type = "pause" THEN "PAUSED" ELSE "CANCELLED",
                    version |-> run.version + 1]
    /\ controls' = Tail(controls)
    /\ UNCHANGED <<normal, attempt, sink, sweep, ckpts, admitted, up, crashes, requests>>

----------------------------------------------------------------------------
(* The operator and the owner of the checkpoint.                           *)

Request(kind) ==
    /\ kind \in Requests /\ requests < MaxRequests
    /\ CASE kind = "pause" ->
              /\ run.state = "ACTIVE"
              /\ \A i \in DOMAIN controls : controls[i].type # "pause"
              /\ controls' = Append(controls, [type |-> kind, version |-> run.version])
              /\ normal' = normal
         [] kind = "cancel" ->
              /\ run.state \notin Terminal
              /\ \A i \in DOMAIN controls : controls[i].type # "cancel"
              /\ controls' = Append(controls, [type |-> kind, version |-> run.version])
              /\ normal' = normal
         [] kind = "resume" ->
              /\ run.state = "PAUSED" /\ normal.resume = "none"
              /\ normal' = [normal EXCEPT !.resume = "pending"]
              /\ controls' = controls
         [] kind = "teardown" ->
              /\ run.state \in Terminal /\ normal.teardown = "none"
              /\ normal' = [normal EXCEPT !.teardown = "pending"]
              /\ controls' = controls
    /\ requests' = requests + 1
    /\ UNCHANGED <<run, attempt, sink, sweep, ckpts, admitted, up, crashes>>

Owner(row) == ckpts' = [ckpts EXCEPT ![Len(ckpts)] = row]

\* next_threshold.
NextThreshold == Total + (IF Reference > 0 THEN Reference ELSE 1)

Continue(bypass) ==
    /\ (IF bypass THEN "bypass" ELSE "continue") \in Requests
    /\ Owned("paused") /\ run.state = "ACTIVE" /\ Quiet
    /\ Owner([Latest EXCEPT !.state = "resumed", !.bypass = bypass,
                            !.threshold = IF bypass THEN 0 ELSE NextThreshold])
    /\ UNCHANGED <<run, normal, controls, attempt, sink, sweep, admitted, up, crashes, requests>>

SetPolicy(mode) ==
    /\ "set_policy" \in Requests /\ Owned("paused") /\ Latest.mode # mode
    /\ Owner([Latest EXCEPT !.mode = mode])
    /\ UNCHANGED <<run, normal, controls, attempt, sink, sweep, admitted, up, crashes, requests>>

\* stop delegates to a cancel of the version it sees.
Stop ==
    /\ "stop" \in Requests /\ Owned("paused")
    /\ controls' = Append(controls, [type |-> "cancel", version |-> run.version])
    /\ admitted' = FALSE
    /\ Owner([Latest EXCEPT !.state = "resolved"])
    /\ UNCHANGED <<run, normal, attempt, sink, sweep, up, crashes, requests>>

----------------------------------------------------------------------------
(* The worker process.                                                     *)

Crash ==
    /\ up /\ crashes < MaxCrashes
    /\ up' = FALSE /\ crashes' = crashes + 1
    /\ attempt' = [s \in Sources |->
                      IF attempt[s].phase = "running" THEN [attempt[s] EXCEPT !.phase = "lost"]
                      ELSE attempt[s]]
    /\ normal' = [k \in NormalTypes |-> IF normal[k] = "leased" THEN "expired" ELSE normal[k]]
    /\ sink' = [s \in Sources |-> Idle] /\ sweep' = Idle
    /\ UNCHANGED <<run, controls, ckpts, admitted, requests>>

Restart ==
    /\ ~ up /\ up' = TRUE
    /\ UNCHANGED <<run, normal, controls, attempt, sink, sweep, ckpts, admitted, crashes, requests>>

Evaluate(s) == ReadTotals(s) \/ Observe(s) \/ Advance(s)

Work(s) == Launch(s) \/ Report(s) \/ (\E more \in 0..1 : Settle(s, more)) \/ Recover(s)

Sweep ==
    \/ \E g \in Gens : SweepAdvance(g)
    \/ \E s \in Sources : SweepFinal(s)
    \/ SweepTotals \/ SweepObserve

Deliver ==
    \/ \E k \in NormalTypes : ClaimNormal(k)
    \/ StageEnds \/ ResumeEnds \/ ResumeRefused \/ TeardownEnds \/ ControlEnds

Decide ==
    \/ \E bypass \in BOOLEAN : Continue(bypass)
    \/ \E mode \in {"checkpoint", "report_only"} : SetPolicy(mode)
    \/ Stop

Next ==
    \/ \E s \in Sources : Work(s) \/ Evaluate(s)
    \/ Sweep \/ Deliver \/ Decide
    \/ \E kind \in {"pause", "cancel", "resume", "teardown"} : Request(kind)
    \/ Crash \/ Restart

Spec == Init /\ [][Next]_vars

\* A live worker polls, sweeps and ends its attempts by their deadlines; the
\* sweep rotates through the finals; a dead worker is restarted; an owner who
\* continues checkpoints does so.  Recover, the other owner's actions and the
\* operator's requests are nobody's duty.
Fairness ==
    /\ \A s \in Sources :
          /\ WF_vars(Evaluate(s)) /\ SF_vars(SweepFinal(s))
          /\ WF_vars(\E more \in 0..1 : Settle(s, more))
    /\ SF_vars(\E g \in Gens : SweepAdvance(g))
    /\ WF_vars(SweepTotals \/ SweepObserve)
    /\ WF_vars(StageEnds \/ ResumeEnds \/ ResumeRefused \/ TeardownEnds)
    /\ SF_vars(\E k \in NormalTypes : ClaimNormal(k))
    /\ WF_vars(ControlEnds)
    /\ WF_vars(Continue(FALSE))
    /\ WF_vars(Restart)

FairSpec == Spec /\ Fairness

----------------------------------------------------------------------------
(* Properties.                                                             *)

\* The run, its commands, attempts, evaluations and checkpoints have their shapes.
TypeOK ==
    /\ run \in [state : {"ACTIVE", "PAUSED"} \cup Terminal, version : Nat]
    /\ normal \in [NormalTypes -> {"none", "pending", "leased", "expired"}]
    /\ controls \in Seq([type : {"pause", "cancel"}, version : Nat])
    /\ attempt \in [Sources -> [phase : {"idle", "running", "lost", "settled", "recovered"},
                                tokens : Nat, final : BOOLEAN]]
    /\ sink \in [Sources -> Evaluations] /\ sweep \in Evaluations
    /\ ckpts \in Seq([trigger : Sources \X Nat,
                      state : OpenStates \cup {"resumed", "resolved"},
                      threshold : Nat, bypass : BOOLEAN,
                      mode : {"checkpoint", "report_only"}])
    /\ admitted \in BOOLEAN /\ up \in BOOLEAN
    /\ crashes \in Nat /\ requests \in Nat

\* docs/task-usage-monitoring.md: a checkpoint is paused "only when the worker
\* has proved process and effects settled".  Whoever claims, launches, crashes
\* or recovers around the settlement, while a checkpoint is paused no attempt
\* runs and no delivery holds a command.
PausedQuiet == Owned("paused") => Quiet

\* docs/task-usage-monitoring.md: "A run crossing requests one active
\* checkpoint per subject."  Concurrent evaluations of one crossing, a replay
\* of its event and the sweep's rotation make one generation: every earlier
\* one has been answered, and none asked for two.
OneGeneration ==
    /\ \A g \in Gens : g < Len(ckpts) => ckpts[g].state \notin OpenStates
    /\ \A g, h \in Gens : ckpts[g].trigger = ckpts[h].trigger => g = h

\* The totals are read before the run's lock and a generation may close in
\* between, but no crossing slips through: once every event is evaluated and
\* no worker died, usage past the threshold in force has a checkpoint, unless
\* the owner or the run's end has closed the matter.
CrossingCaught ==
    (/\ crashes = 0 /\ sweep = Idle /\ \A s \in Sources : sink[s] = Idle
     /\ \A s \in Sources : attempt[s].phase = "settled" => attempt[s].final)
    => Fenced \/ Owned("resolved") \/ ~ Crosses(Total)

\* docs/task-usage-monitoring.md: a continuation "either saves a next threshold
\* above measured cumulative usage or disables further usage pauses", so that
\* it is not taken back by usage the owner has already seen.
ContinuationAhead ==
    [][\A g \in Gens : ckpts[g].state = "paused" /\ ckpts'[g].state = "resumed" =>
           ckpts'[g].bypass \/ ckpts'[g].threshold > Total]_vars

\* Usage that crossed while its evaluation was lost, or that only the final
\* consumption shows, is found by the sweep: the run gets its checkpoint, or
\* records the crossing when it is already over.
LateCrossing ==
    []<>((\E s \in Sources : attempt[s].phase = "settled") /\ Crosses(Total)
            => Fenced \/ Owned("resolved"))

\* What no polling worker clears: a lease that expired behind the checkpoint,
\* or an attempt whose worker died.
Stranded == ~ Quiet /\ ~ (\E s \in Sources : attempt[s].phase = "running")
                    /\ \A k \in NormalTypes : normal[k] # "leased"

\* A requested checkpoint settles: to paused, or resolved with the run.
CheckpointSettles ==
    []<>(~ Fenced \/ Owned("paused") \/ Stranded)

=============================================================================
