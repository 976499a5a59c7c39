------------------------------- MODULE RunRow -------------------------------
(***************************************************************************)
(* One row of the runs table under every operation of                      *)
(* PostgresRunRepository (persistence/repositories/runs.py).  Each action  *)
(* is one locked optimistic update: the row is decoded, the engine's       *)
(* operation is applied, the new row must satisfy the table's constraints, *)
(* and the version moves by one.  The module is what the run's row         *)
(* promises whoever calls the repository; RunLifecycle, which models the   *)
(* callers, implements it.                                                 *)
(***************************************************************************)
EXTENDS StateEngine

VARIABLE run

\* _change_state: the whole transaction is rolled back unless the row decodes,
\* the version is the caller's (callers read it under the same lock) and the
\* table's constraints accept the new row.
ChangeState(changed) ==
    /\ RowDecodes(run)
    /\ RowConstraint(changed)
    /\ run' = changed

----------------------------------------------------------------------------
(* The operations.                                                         *)

RowInit == run = NewRun

transition == \E target \in RunState :
    CanTransition(run, target) /\ ChangeState(Transition(run, target))

await_approval == \E gate \in ApprovalGate, digest \in Digests :
    CanAwaitApproval(run, gate) /\ ChangeState(AwaitApproval(run, gate, digest))

\* The evidence approved is the evidence pending.
approve_plan == \E evidence \in Digests :
    /\ run.state = "AWAITING_PLAN_APPROVAL"
    /\ run.gate = "plan"
    /\ run.digest = evidence
    /\ ChangeState(Transition(run, "PREPARING_WORKTREE"))

prepare_plan_internally ==
    /\ run.state = "PLANNING"
    /\ ChangeState(Transition(run, "PREPARING_WORKTREE"))

restart_planning ==
    /\ run.state = "AWAITING_PLAN_APPROVAL"
    /\ ChangeState(Transition(run, "PLANNING"))

intervene == CanIntervene(run) /\ ChangeState(Intervene(run))

resume_interrupted_work ==
    CanResumeInterruptedWork(run) /\ ChangeState(ResumeInterruptedWork(run))

resolve_intervention == \E target \in RunState :
    CanResolveIntervention(run, target) /\ ChangeState(ResolveIntervention(run, target))

pause == CanPause(run) /\ ChangeState(Pause(run))

resume == CanResume(run) /\ ChangeState(Resume(run))

begin_local_remediation == \E automatic \in BOOLEAN :
    /\ CanBeginLocalRemediation(run, automatic)
    /\ ChangeState(BeginLocalRemediation(run, automatic))

begin_remote_remediation ==
    CanBeginRemoteRemediation(run) /\ ChangeState(BeginRemoteRemediation(run))

bind_preparation_branch == CanBindBranch(run) /\ ChangeState(BindBranch(run))

\* ApprovePrHandler, on changed content: two transitions in one transaction.
revalidate_candidate ==
    /\ run.state = "AWAITING_PR_APPROVAL"
    /\ ChangeState(Transition(Transition(run, "REMEDIATING"), "VALIDATING"))

\* The worktree and database columns are written whatever the run's state is.
update_resource == \E resource \in Resource : ChangeState(WithResource(run, resource))

RowNext ==
    \/ transition \/ await_approval \/ approve_plan \/ prepare_plan_internally
    \/ restart_planning \/ intervene \/ resume_interrupted_work \/ resolve_intervention
    \/ pause \/ resume \/ begin_local_remediation \/ begin_remote_remediation
    \/ bind_preparation_branch \/ update_resource \/ revalidate_candidate

RowSpec == RowInit /\ [][RowNext]_run

----------------------------------------------------------------------------
(* Properties.                                                             *)

\* The row keeps its columns' types.
RowTypeOK == run \in RunSnapshot

\* Every row a sequence of repository operations can leave behind keeps its
\* columns' types and decodes again: pause, intervention and their nesting never store a combination that
\* _decode_suspension_context or _validate_pending_shape would refuse, which
\* would make the run unreadable for good.
Loadable == RowTypeOK /\ RowDecodes(run)

\* Automatic remediations, local and remote, never exceed the policy's limits,
\* however interventions, pauses and human remediations interleave with them.
RemediationBounded == run.local <= LocalLimit /\ run.remote <= RemoteLimit

\* The constraints written by hand into the table never refuse a suspension the
\* engine allows: an operator can always pause a live run and always resume a
\* paused one, and a failing stage can always reach intervention.
SuspensionNeverRefused ==
    /\ CanPause(run) => RowConstraint(Pause(run))
    /\ CanIntervene(run) => RowConstraint(Intervene(run))
    /\ run.state = "PAUSED" => CanResume(run) /\ RowConstraint(Resume(run))

\* A pause is undone by a resume: the pause keeps all that resume needs to
\* restore the lifecycle columns, nothing touches them while the run is paused,
\* and the only other way out of a pause is cancellation.
Lifecycle(r) == <<r.state, r.susp, r.kind, r.ctx, r.gate, r.digest>>

PauseTransparent ==
    [][/\ run.state # "PAUSED" /\ run'.state = "PAUSED"
            => Lifecycle(Resume(run')) = Lifecycle(run)
       /\ run.state = "PAUSED" =>
            \/ Lifecycle(run') = Lifecycle(run)
            \/ Lifecycle(run') = Lifecycle(Resume(run))
            \/ run'.state = "CANCELLED"]_run

\* Suspensions can always be entered and always be undone
\* (SuspensionNeverRefused and PauseTransparent).
SuspensionsReversible == []SuspensionNeverRefused /\ PauseTransparent

\* Seen through pauses and interventions, the run moves from phase to phase
\* along LEGAL only: no detour through a suspension reaches a working phase the
\* suspended one could not reach itself, and a transaction of two updates takes
\* two edges.  Ending a suspended run (cancelled or
\* failed) is the exception the graph makes for the two suspension states.
PhasesFollowLEGAL ==
    [][\/ Phase(run') = Phase(run)
       \/ Phase(run') \in LEGAL[Phase(run)]
       \/ run'.version = run.version + 2
            /\ \E between \in LEGAL[Phase(run)] : Phase(run') \in LEGAL[between]
       \/ Phase(run') \in {"CANCELLED", "FAILED"}]_run

\* The evidence a human is asked to approve is never swapped while the run
\* waits at a gate, paused or not: a digest is only ever set on entering the
\* gate, and only removed on leaving it.
EvidenceStable ==
    [][Phase(run) \in ApprovalStates /\ Phase(run') = Phase(run)
         => PendingDigest(run') \in {PendingDigest(run), none}]_run

\* A run is completed only from live MERGING, never out of a suspended merge.
CompletedFromMerging ==
    [][run'.state = "COMPLETED" => run.state \in {"MERGING", "COMPLETED"}]_run

\* The life of a run seen by its operators: phases move along the legal graph,
\* evidence does not change under a gate, and only a live merge completes.
LifecycleLegal == PhasesFollowLEGAL /\ EvidenceStable /\ CompletedFromMerging

=============================================================================
