---------------------------- MODULE RunLifecycle ----------------------------
(***************************************************************************)
(* One run from its creation to the approval of its candidate: the         *)
(* commands of its queue, the handlers that consume them, and the operator *)
(* who pauses, resumes, cancels, revises and approves while they work.     *)
(*                                                                         *)
(* Every action is one committed transaction of one handler, of the API or *)
(* of the worker's queue.  The handlers of a stage commit more than once   *)
(* (admission, evidence, decision), so a crash, a lost lease or an         *)
(* operator's stop can fall between any two of them; CommandQueue shows    *)
(* why a delivery that lost its lease commits nothing more.                *)
(*                                                                         *)
(* The run without a subscription is modelled, with a human plan gate; its *)
(* release (from publish_pr on) lies outside this module.                  *)
(***************************************************************************)
EXTENDS RunRow, Sequences, FiniteSets

CONSTANTS
    MaxRequests,    \* bound: operator requests accepted
    MaxDrift,       \* bound: times the sources change under the run
    Requests        \* the kinds of operator request made

ASSUME LifecycleAssumption ==
    MaxRequests \in Nat /\ MaxDrift \in Nat

\* The run's row is RunRow's.
VARIABLES
    cmds,       \* its commands in claim order; settled ones are dropped
    head,       \* the content of the worktree
    approved,   \* the content of the candidate the operator approved, or none
    requests,   \* operator requests accepted so far
    drift       \* times the sources changed so far

vars == <<run, cmds, head, approved, requests, drift>>

----------------------------------------------------------------------------
(* Commands.                                                               *)

ControlTypes == {"pause", "cancel"}

StageTypes == {"start_planning", "prepare_worktree", "implement", "remediate", "validate", "review"}

AgentTypes == {"start_planning", "implement", "remediate", "review"}

CommandTypes ==
    StageTypes \cup ControlTypes
        \cup {"resume", "request_plan_revision", "request_candidate_changes",
              "approve_plan", "approve_pr", "publish_pr"}

\* EXPIRED is LEASED with a lease that has run out.  FAILED and STOPPED rows
\* are settled; they stay only while a resume may still ask for them, STOPPED
\* being a COMPLETED row with a delivery.suspended receipt.
Status == {"PENDING", "LEASED", "EXPIRED", "FAILED", "STOPPED"}

\* How far a delivery has come: admitted (its execution is RUNNING), orphaned
\* (so it is, but the delivery that admitted it has ended), retained (RUNNING,
\* with its late result kept), published (evidence recorded, not yet decided),
\* stopped (ended under an operator's stop, receipt written), applied (its
\* decision is committed) and redelivered (applied by an earlier delivery).
\* twice marks a second decision of one command.
Work == {"none", "admitted", "orphaned", "retained", "published", "stopped",
         "applied", "redelivered", "twice"}

\* `digest` is the content the command is about, `result` the run's version
\* after its decision.
CommandRow ==
    [type : CommandTypes, version : Nat, status : Status, work : Work,
     digest : Digests \cup {none}, result : Nat]

Command(type, version, digest) ==
    [type |-> type, version |-> version, status |-> "PENDING", work |-> "none",
     digest |-> digest, result |-> 0]

IsControl(i) == cmds[i].type \in ControlTypes

Outstanding(i) == cmds[i].status \in {"PENDING", "LEASED", "EXPIRED"}

\* The commands left when the ones in S are settled and dropped, once the run
\* is `changed`: what failed is remembered through a pause of its phase.
Keep(seq, S, changed) ==
    LET stays(i) == /\ i \notin S
                    /\ seq[i].status = "FAILED" => Phase(changed) = Phase(run)
                    /\ seq[i].status = "STOPPED" => changed.version = run.version
        kept == {i \in DOMAIN seq : stays(i)}
    IN  [n \in 1..Cardinality(kept) |->
            seq[CHOOSE i \in kept : Cardinality({j \in kept : j <= i}) = n]]

Drop(i) == cmds' = Keep(cmds, {i}, run)

Set(i, row) == [cmds EXCEPT ![i] = row]

\* The decision of command i takes the run to `changed`, settles the commands
\* in S with it and enqueues `next`.
DecideAndSettle(i, changed, S, next) ==
    LET row == [cmds[i] EXCEPT !.work = IF cmds[i].result = 0 THEN "applied" ELSE "twice",
                               !.result = changed.version]
    IN  /\ run' = changed
        /\ cmds' = Keep(Set(i, row), S, changed) \o next

Decide(i, changed, next) == DecideAndSettle(i, changed, {}, next)

Init ==
    /\ run = NewRun
    /\ cmds = <<Command("start_planning", 0, none)>>
    /\ head \in Digests
    /\ approved = none
    /\ requests = 0
    /\ drift = 0

----------------------------------------------------------------------------
(* The operator: RunCommandService.enqueue_in_work and                     *)
(* ApprovalService.authorize.                                              *)

\* The release takes over.
HandedOver == run.state = "PUBLISHING_PR"

\* cancellation_rejection_reason.
MergeSettling ==
    \/ run.state = "MERGING"
    \/ run.state \in {"PAUSED", "AWAITING_HUMAN_INTERVENTION"} /\ run.susp = "MERGING"

\* _validate_state.
Admissible(type) ==
    CASE type = "pause"  -> run.state \notin TerminalStates \cup {"PAUSED"}
      [] type = "resume" -> run.state = "PAUSED"
      [] type = "cancel" -> run.state \notin TerminalStates /\ ~ MergeSettling
      [] type = "request_plan_revision" -> run.state = "AWAITING_PLAN_APPROVAL"
      [] type = "request_candidate_changes" -> run.state = "AWAITING_PR_APPROVAL"

Accept(type, digest) ==
    /\ type \in Requests
    /\ ~ HandedOver
    /\ requests < MaxRequests
    /\ requests' = requests + 1
    /\ cmds' = Append(cmds, Command(type, run.version, digest))
    /\ UNCHANGED <<run, head, approved, drift>>

\* The request names the run's current version.
Request(type) == Admissible(type) /\ Accept(type, none)

\* An approval is unique for its gate, version and evidence.  A plan with open
\* material questions cannot be approved.
Authorize(gate) ==
    LET type == IF gate = "plan" THEN "approve_plan" ELSE "approve_pr" IN
    /\ run.state = ApprovalStateByGate(gate)
    /\ \A i \in DOMAIN cmds : cmds[i].type = type => cmds[i].version # run.version
    /\ Accept(type, run.digest)

----------------------------------------------------------------------------
(* The queue, as CommandQueue models it.                                   *)

PendingControl == \E i \in DOMAIN cmds : IsControl(i) /\ cmds[i].status = "PENDING"

NormalClaimable(i) ==
    /\ ~ IsControl(i)
    /\ cmds[i].type # "publish_pr"
    /\ cmds[i].status \in {"PENDING", "EXPIRED"}
    /\ run.state = "PAUSED" => cmds[i].type = "resume"
    /\ run.state \notin TerminalStates
    /\ \A j \in DOMAIN cmds : cmds[j].status # "LEASED"
    /\ ~ PendingControl

ControlClaimable(i) ==
    /\ IsControl(i)
    /\ cmds[i].status \in {"PENDING", "EXPIRED"}
    /\ \A j \in DOMAIN cmds : IsControl(j) => cmds[j].status # "LEASED"

\* claim_next takes the first row its lane may have.
Claimable(i) ==
    \/ NormalClaimable(i) /\ \A j \in 1..(i - 1) : ~ NormalClaimable(j)
    \/ ControlClaimable(i) /\ \A j \in 1..(i - 1) : ~ ControlClaimable(j)

\* What a new delivery finds of the last one: a provider execution is never
\* taken over, a controller step is, and a planner's late result counts only
\* for the delivery that produced it.
Redelivered(row) ==
    CASE row.work = "applied" -> "redelivered"
      [] row.work = "admitted" /\ row.type \in AgentTypes -> "orphaned"
      [] row.work = "retained" /\ row.type = "start_planning" -> "orphaned"
      [] row.work = "admitted" /\ row.type = "prepare_worktree" -> "none"
      [] OTHER -> row.work

Claim(i) ==
    /\ Claimable(i)
    /\ cmds' = Set(i, [cmds[i] EXCEPT !.status = "LEASED", !.work = Redelivered(cmds[i])])
    /\ UNCHANGED <<run, head, approved, requests, drift>>

\* The handler returned, or stopped on an operator's control.
Complete(i) ==
    /\ cmds[i].status = "LEASED"
    /\ \/ cmds[i].work \in {"applied", "twice"} /\ Drop(i)
       \/ cmds[i].work = "stopped" /\ cmds' = Set(i, [cmds[i] EXCEPT !.status = "STOPPED"])
    /\ UNCHANGED <<run, head, approved, requests, drift>>

\* The lease runs out: the worker crashed or stalled, or the handler asked for
\* recovery and left the row as it is.
Expire(i) ==
    /\ cmds[i].status = "LEASED"
    /\ cmds' = Set(i, [cmds[i] EXCEPT !.status = "EXPIRED"])
    /\ UNCHANGED <<run, head, approved, requests, drift>>

\* A stage raises an error that no handler classifies, before its decision.
FailStage(i) ==
    /\ cmds[i].status = "LEASED"
    /\ cmds[i].type \in StageTypes
    /\ cmds[i].work \in {"none", "admitted", "published"}
    /\ cmds' = Set(i, [cmds[i] EXCEPT !.status = "FAILED"])
    /\ UNCHANGED <<run, head, approved, requests, drift>>

----------------------------------------------------------------------------
(* Stages.                                                                 *)

Leased(i, type) == cmds[i].status = "LEASED" /\ cmds[i].type = type

\* pending_current_control_stop.
StopPending ==
    \E i \in DOMAIN cmds : /\ IsControl(i) /\ cmds[i].version = run.version
                           /\ Outstanding(i)

\* The phase a stage works in; planning is admitted out of CREATED.
StagePhase(type) ==
    CASE type = "start_planning" -> "PLANNING"
      [] type = "prepare_worktree" -> "PREPARING_WORKTREE"
      [] type = "implement" -> "IMPLEMENTING"
      [] type = "remediate" -> "REMEDIATING"
      [] type = "validate" -> "VALIDATING"
      [] type = "review" -> "REVIEWING"

\* The run's version once the stage is admitted.
AdmittedVersions(row) ==
    IF row.type = "start_planning" THEN {row.version, row.version + 1} ELSE {row.version}

\* The run is where the stage's admission left it.
Current(i) ==
    /\ run.state = StagePhase(cmds[i].type)
    /\ run.version \in AdmittedVersions(cmds[i])

\* controlled_stop: a pause, or a cancellation, of exactly that run.
StoppedByControl(i) ==
    \/ /\ run.state = "PAUSED"
       /\ run.susp = StagePhase(cmds[i].type)
       /\ run.version - 1 \in AdmittedVersions(cmds[i])
    \/ /\ run.state = "CANCELLED"
       /\ \E before \in AdmittedVersions(cmds[i]) : run.version \in {before + 1, before + 2}

\* The stage has something to finish.
Finishing(i, type, work) == Leased(i, type) /\ cmds[i].work = work /\ Current(i)

\* PlanningService._admit: no control is asked for here, and leaving CREATED
\* makes an accepted stop stale.
AdmitPlanning(i) ==
    /\ Leased(i, "start_planning") /\ cmds[i].work = "none"
    /\ run.version = cmds[i].version
    /\ \/ run.state = "CREATED" /\ run' = Transition(run, "PLANNING")
       \/ run.state = "PLANNING" /\ UNCHANGED run
    /\ cmds' = Keep(Set(i, [cmds[i] EXCEPT !.work = "admitted"]), {}, run')
    /\ UNCHANGED <<head, approved, requests, drift>>

\* The plan, or the failure of its execution.
FinishPlanning(i) ==
    /\ Finishing(i, "start_planning", "admitted")
    /\ ~ StopPending
    /\ \/ \E plan \in Digests : Decide(i, AwaitApproval(run, "plan", plan), <<>>)
       \/ Decide(i, Intervene(run), <<>>)
       \/ Decide(i, Transition(run, "CANCELLED"), <<>>)
    /\ UNCHANGED <<head, approved, requests, drift>>

\* A delivery of planning that finds the run elsewhere fails: paused before it
\* was admitted, or past its first attempt's admission.  The first command of
\* all, with its empty payload, asks for recovery instead.
RejectPlanning(i) ==
    /\ Leased(i, "start_planning") /\ cmds[i].work \in {"none", "orphaned", "redelivered"}
    /\ run.state \notin {"CREATED", "AWAITING_PLAN_APPROVAL"}
    /\ run.state = "PLANNING" => cmds[i].version > 0 /\ run.version # cmds[i].version
    /\ cmds' = Set(i, [cmds[i] EXCEPT !.status = "FAILED"])
    /\ UNCHANGED <<run, head, approved, requests, drift>>

\* DevelopmentService._admit, ReviewService._admit and the controller step of
\* ValidationService.execute, which records the content it will check; a review
\* starts on the content that was validated.
AdmitStage(i) ==
    /\ cmds[i].type \in {"implement", "remediate", "validate", "review"}
    /\ Finishing(i, cmds[i].type, "none")
    /\ cmds[i].type = "review" => head = cmds[i].digest
    /\ cmds' = Set(i, [cmds[i] EXCEPT
                         !.work = "admitted",
                         !.digest = IF cmds[i].type = "validate" THEN head ELSE @])
    /\ UNCHANGED <<run, head, approved, requests, drift>>

\* DevelopmentService._settle: the developer has changed the worktree, or its
\* execution failed.
FinishDevelopment(i) ==
    /\ cmds[i].type \in {"implement", "remediate"}
    /\ Finishing(i, cmds[i].type, "admitted")
    /\ ~ StopPending
    /\ \/ /\ head' \in Digests
          /\ Decide(i, Transition(run, "VALIDATING"),
                    <<Command("validate", run.version + 1, none)>>)
       \/ Decide(i, Intervene(run), <<>>) /\ UNCHANGED head
    /\ UNCHANGED <<approved, requests, drift>>

\* Mutant: evidence is published without looking at the worktree again.
StillThere(i) == cmds[i].digest \in Digests

\* The content under the stage has not changed since its admission.
SameCandidate(i) == cmds[i].digest = head

\* ValidationService.publish and ReviewService._settle: the evidence commits
\* before it is decided on.
PublishEvidence(i) ==
    /\ cmds[i].type \in {"validate", "review"}
    /\ Finishing(i, cmds[i].type, "admitted")
    /\ SameCandidate(i)
    /\ ~ StopPending
    /\ cmds' = Set(i, [cmds[i] EXCEPT !.work = "published"])
    /\ UNCHANGED <<run, head, approved, requests, drift>>

\* ReviewService._settle of a failed execution: the intervention commits and
\* the handler still raises, so no delivery ever acknowledges the command.
FailReview(i) ==
    /\ Finishing(i, "review", "admitted")
    /\ SameCandidate(i)
    /\ ~ StopPending
    /\ run' = Intervene(run)
    /\ cmds' = Keep(Set(i, [cmds[i] EXCEPT !.work = "redelivered"]), {}, run')
    /\ UNCHANGED <<head, approved, requests, drift>>

\* Mutant: the limit on automatic remediation is not looked at.
RemediateAlways(i) ==
    Decide(i, Transition([run EXCEPT !.local = @ + 1], "REMEDIATING"),
           <<Command("remediate", run.version + 1, none)>>)

\* Failed checks or blocking findings: remediation while the limit allows.
Remediate(i) ==
    LET changed == BeginLocalRemediation(run, TRUE) IN
    Decide(i, changed,
           IF changed.state = "REMEDIATING"
           THEN <<Command("remediate", changed.version, none)>> ELSE <<>>)

\* DeliveryService.validate, after the checks.
DecideValidation(i) ==
    /\ Finishing(i, "validate", "published")
    /\ SameCandidate(i)
    /\ ~ StopPending
    /\ \/ Decide(i, Transition(run, "REVIEWING"),
                 <<Command("review", run.version + 1, cmds[i].digest)>>)
       \/ Remediate(i)
    /\ UNCHANGED <<head, approved, requests, drift>>

\* ReviewDecisionService.decide.
DecideReview(i) ==
    /\ Finishing(i, "review", "published")
    /\ SameCandidate(i)
    /\ ~ StopPending
    /\ \/ Decide(i, AwaitApproval(run, "pr", cmds[i].digest), <<>>)
       \/ Remediate(i)
    /\ UNCHANGED <<head, approved, requests, drift>>

\* The run was stopped under an admitted stage: its execution is settled as
\* cancelled and a receipt says so.
StopStage(i) ==
    /\ cmds[i].status = "LEASED"
    /\ cmds[i].type \in AgentTypes \cup {"validate"}
    /\ cmds[i].work = "admitted"
    /\ StoppedByControl(i)
    /\ cmds' = Set(i, [cmds[i] EXCEPT !.work = "stopped"])
    /\ UNCHANGED <<run, head, approved, requests, drift>>

\* What is kept of an execution that may not be decided on.  A developer that
\* failed leaves no result to keep.
Retain(i) ==
    /\ \E work \in {"retained"} \cup (IF cmds[i].type \in {"implement", "remediate"}
                                      THEN {"orphaned"} ELSE {}) :
         cmds' = Set(i, [cmds[i] EXCEPT !.work = work])
    /\ UNCHANGED <<run, head, approved, requests, drift>>

\* A stop is accepted but not carried out yet: the result is kept beside the
\* RUNNING execution, for a resume to settle.
RetainResult(i) ==
    /\ cmds[i].status = "LEASED"
    /\ cmds[i].type \in AgentTypes /\ cmds[i].work = "admitted"
    /\ Current(i) /\ StopPending
    /\ Retain(i)

\* An execution outlives its lease.  Planning keeps no result of it.
LateResult(i) ==
    /\ cmds[i].type \in AgentTypes \ {"start_planning"}
    /\ \/ cmds[i].status = "EXPIRED" /\ cmds[i].work \in {"admitted", "orphaned"}
       \/ cmds[i].status = "LEASED" /\ cmds[i].work = "orphaned"
    /\ Retain(i)

----------------------------------------------------------------------------
(* prepare_worktree: DeliveryPreparationService and the provisioner, whose *)
(* checkpoints move the run's version without asking for a control.        *)

StartPreparation(i) ==
    /\ Leased(i, "prepare_worktree") /\ cmds[i].work = "none"
    /\ run.state = "PREPARING_WORKTREE"
    /\ ~ StopPending
    /\ \/ ~ run.bound /\ run.version = cmds[i].version /\ run' = BindBranch(run)
       \/ run.bound /\ UNCHANGED run
    /\ cmds' = Keep(Set(i, [cmds[i] EXCEPT !.work = "admitted"]), {}, run')
    /\ UNCHANGED <<head, approved, requests, drift>>

\* PostgresWorktreeService records the worktree once git has made it.
CheckpointWorktree(i) ==
    /\ cmds[i].type = "prepare_worktree" /\ cmds[i].work = "admitted"
    /\ cmds[i].status \in {"LEASED", "EXPIRED"}
    /\ run.state = "PREPARING_WORKTREE"
    /\ run.bound /\ ~ run.resource.worktree
    /\ run' = WithResource(run, [worktree |-> TRUE, database |-> "DISABLED"])
    /\ cmds' = Keep(cmds, {}, run')
    /\ UNCHANGED <<head, approved, requests, drift>>

FinishPreparation(i) ==
    /\ Leased(i, "prepare_worktree") /\ cmds[i].work = "admitted"
    /\ run.state = "PREPARING_WORKTREE"
    /\ ~ StopPending
    /\ \/ /\ run.resource.worktree
          /\ Decide(i, Transition(run, "IMPLEMENTING"),
                    <<Command("implement", run.version + 1, none)>>)
       \/ Decide(i, Intervene(run), <<>>)
    /\ UNCHANGED <<head, approved, requests, drift>>

----------------------------------------------------------------------------
(* Gates.                                                                  *)

\* Mutant: the gate the API found open is not looked at again.
GateTrusted(i, gate) == i \in DOMAIN cmds /\ gate \in ApprovalGate

\* The run still waits at the gate the decision is about.
AtGate(i, gate) ==
    /\ run.state = ApprovalStateByGate(gate)
    /\ run.version = cmds[i].version

\* Sources that changed since the plan was made send the run back to planning.
RestartPlanning(i) ==
    Decide(i, Transition(run, "PLANNING"),
           <<Command("start_planning", run.version + 1, none)>>)

\* ApprovePlanHandler asks for no lease: a delivery that lost its own may still
\* commit.
ApprovePlan(i) ==
    /\ cmds[i].type = "approve_plan" /\ cmds[i].status \in {"LEASED", "EXPIRED"}
    /\ AtGate(i, "plan") /\ run.digest = cmds[i].digest
    /\ \/ /\ Decide(i, Transition(run, "PREPARING_WORKTREE"),
                    <<Command("prepare_worktree", run.version + 1, none)>>)
          /\ UNCHANGED drift
       \/ RestartPlanning(i) /\ drift < MaxDrift /\ drift' = drift + 1
    /\ UNCHANGED <<head, approved, requests>>

\* PlanRevisionService asks for no lease either.
RevisePlan(i) ==
    /\ cmds[i].type = "request_plan_revision" /\ cmds[i].status \in {"LEASED", "EXPIRED"}
    /\ AtGate(i, "plan")
    /\ RestartPlanning(i)
    /\ UNCHANGED <<head, approved, requests, drift>>

\* PrEvidenceValidator: the worktree still holds the candidate approved.
EvidenceHolds(i) == cmds[i].digest = head

\* ApprovePrHandler.  Changed content is validated again: one transaction goes
\* through REMEDIATING to VALIDATING.  Other stale evidence needs a human.
ApprovePr(i) ==
    /\ Leased(i, "approve_pr")
    /\ AtGate(i, "pr") /\ run.digest = cmds[i].digest
    /\ \/ /\ EvidenceHolds(i)
          /\ Decide(i, Transition(run, "PUBLISHING_PR"),
                    <<Command("publish_pr", run.version + 1, cmds[i].digest)>>)
          /\ approved' = cmds[i].digest
       \/ /\ ~ EvidenceHolds(i)
          /\ Decide(i, Transition(Transition(run, "REMEDIATING"), "VALIDATING"),
                    <<Command("validate", run.version + 2, none)>>)
          /\ UNCHANGED approved
       \/ /\ Decide(i, Intervene(run), <<>>)
          /\ UNCHANGED approved
    /\ UNCHANGED <<head, requests, drift>>

\* CandidateRevisionService: a human remediation is not counted.
ReviseCandidate(i) ==
    /\ Leased(i, "request_candidate_changes")
    /\ AtGate(i, "pr") /\ run.digest = head
    /\ Decide(i, BeginLocalRemediation(run, FALSE),
              <<Command("remediate", run.version + 1, none)>>)
    /\ UNCHANGED <<head, approved, requests, drift>>

\* A decision on a gate that is no longer there fails.
RejectDecision(i) ==
    /\ \/ Leased(i, "approve_plan") \/ Leased(i, "request_plan_revision")
          \/ Leased(i, "approve_pr") \/ Leased(i, "request_candidate_changes")
    /\ cmds[i].work \in {"none", "redelivered"}
    /\ \/ ~ AtGate(i, IF cmds[i].type \in {"approve_plan", "request_plan_revision"}
                      THEN "plan" ELSE "pr")
       \/ cmds[i].type = "request_candidate_changes" /\ run.digest # head
    /\ \/ cmds[i].work = "none"
       \/ run.version # cmds[i].result
       \/ cmds[i].type = "approve_plan" /\ run.state # "PLANNING"
    /\ Drop(i)
    /\ UNCHANGED <<run, head, approved, requests, drift>>

----------------------------------------------------------------------------
(* Replays: a later delivery of a command whose decision is committed      *)
(* looks for that decision at the run's current version, and for its       *)
(* successor still waiting.                                                *)

SuccessorPending(i) ==
    \A j \in DOMAIN cmds :
        j > i /\ cmds[j].type \in StageTypes /\ cmds[j].version = run.version
            => cmds[j].status = "PENDING"

Replay(i) ==
    /\ cmds[i].status = "LEASED" /\ cmds[i].work = "redelivered"
    /\ \/ /\ cmds[i].type = "start_planning" /\ run.state = "AWAITING_PLAN_APPROVAL"
       \/ /\ cmds[i].type # "start_planning"
          /\ run.version = cmds[i].result
          /\ SuccessorPending(i)
          /\ cmds[i].type = "approve_plan" => run.state = "PLANNING"
          /\ cmds[i].type = "review" => SameCandidate(i) /\ ~ StopPending
    /\ cmds' = Set(i, [cmds[i] EXCEPT !.work = "applied"])
    /\ UNCHANGED <<run, head, approved, requests, drift>>

----------------------------------------------------------------------------
(* Controls: handlers/run_controls.py.                                     *)

PauseRun(i) ==
    /\ Leased(i, "pause") /\ cmds[i].work = "none"
    /\ run.state # "PAUSED" /\ run.version = cmds[i].version
    /\ Decide(i, Pause(run), <<>>)
    /\ UNCHANGED <<head, approved, requests, drift>>

CancelRun(i) ==
    /\ Leased(i, "cancel") /\ cmds[i].work = "none"
    /\ ~ MergeSettling
    /\ run.state # "CANCELLED" /\ run.version = cmds[i].version
    /\ Decide(i, Transition(run, "CANCELLED"), <<>>)
    /\ UNCHANGED <<head, approved, requests, drift>>

\* A control or a resume that is stale.  One that finds the run already in its
\* target state asks for recovery instead.
RejectControl(i) ==
    /\ cmds[i].status = "LEASED" /\ cmds[i].work \in {"none", "redelivered"}
    /\ \/ cmds[i].type = "pause" /\ run.state # "PAUSED"
       \/ cmds[i].type = "cancel" /\ run.state # "CANCELLED"
       \/ cmds[i].type = "resume" /\ run.state = "PAUSED"
    /\ run.version # cmds[i].version
    /\ Drop(i)
    /\ UNCHANGED <<run, head, approved, requests, drift>>

----------------------------------------------------------------------------
(* Resume.                                                                 *)

ActiveResumeStates ==
    {"CREATED", "PLANNING", "IMPLEMENTING", "REMEDIATING", "VALIDATING", "REVIEWING"}

\* resume_stage.
StageOf(phase) ==
    CASE phase \in {"CREATED", "PLANNING"} -> "start_planning"
      [] phase = "PREPARING_WORKTREE" -> "prepare_worktree"
      [] phase = "IMPLEMENTING" -> "implement"
      [] phase = "REMEDIATING" -> "remediate"
      [] phase = "VALIDATING" -> "validate"
      [] phase = "REVIEWING" -> "review"

\* _settle_redundant_resumes.
RedundantResumes(i) ==
    {j \in DOMAIN cmds \ {i} : cmds[j].type = "resume" /\ cmds[j].status = "PENDING"
                               /\ cmds[j].version = cmds[i].version}

\* list_outstanding_normal, once those are gone.
OtherWork(i) ==
    {j \in DOMAIN cmds \ ({i} \cup RedundantResumes(i)) : ~ IsControl(j) /\ Outstanding(j)}

\* The pause that stopped the run is acknowledged.
PauseAcknowledged ==
    \A j \in DOMAIN cmds : cmds[j].type = "pause" => cmds[j].result # run.version

\* Some execution or controller step is still RUNNING after the commands in S
\* are settled.
Unsettled(S) ==
    \E j \in DOMAIN cmds \ S : /\ cmds[j].work \in {"admitted", "orphaned", "retained"}
                               /\ cmds[j].type # "prepare_worktree"

\* Mutant: a delivery that was claimed, and not admitted, is overlooked.
DeferPendingOnly(j) ==
    /\ cmds[j].status = "PENDING" /\ cmds[j].work = "none"
    /\ cmds[j].version = run.version - 1

\* settle_deferred_delivery: never admitted.
Deferrable(j) ==
    /\ cmds[j].status \in {"PENDING", "EXPIRED"} /\ cmds[j].work = "none"
    /\ cmds[j].version = run.version - 1

\* ResumeReconciler._settle_retained: admitted, and its outcome is known.
RetainedSettles(j) ==
    /\ cmds[j].status = "EXPIRED"
    /\ StoppedByControl(j)
    /\ \/ cmds[j].work \in {"stopped", "retained"}
       \/ cmds[j].work = "published"
       \/ cmds[j].type = "validate" /\ cmds[j].work = "admitted"

\* settle_failed_delivery: failed at the paused version, with nothing running.
FailedSources ==
    {j \in DOMAIN cmds : /\ cmds[j].status = "FAILED"
                         /\ cmds[j].type = StageOf(run.susp)
                         /\ cmds[j].version = run.version - 1}

\* ResumeReconciler.reconcile and its caller: the deliveries the stage goes on
\* from.
StageSources(i) ==
    LET stopped == {j \in DOMAIN cmds : cmds[j].status = "STOPPED"}
        found == OtherWork(i) \cup stopped
    IN  IF found # {} THEN found ELSE FailedSources

Settles(j) ==
    /\ cmds[j].type = StageOf(run.susp)
    /\ \/ Deferrable(j) \/ RetainedSettles(j)
       \/ cmds[j].status = "STOPPED"
       \/ cmds[j].status = "FAILED" /\ cmds[j].work = "none"

\* Mutant: the stage is not enqueued again.
RestoreUnqueued(i, sources, next) ==
    /\ DecideAndSettle(i, Resume(run), sources \cup RedundantResumes(i), <<>>)
    /\ UNCHANGED <<head, approved, requests, drift>>

\* The resume's own transaction: the sources are settled, the stage goes on at
\* the restored version, and the run is where it was.
Restore(i, sources, next) ==
    /\ DecideAndSettle(i, Resume(run), sources \cup RedundantResumes(i), next)
    /\ UNCHANGED <<head, approved, requests, drift>>

Resuming(i) ==
    /\ Leased(i, "resume") /\ cmds[i].work = "none"
    /\ run.state = "PAUSED" /\ run.version = cmds[i].version
    /\ PauseAcknowledged

ResumeStage(i) ==
    /\ Resuming(i)
    /\ run.susp \in ActiveResumeStates
    /\ \E source \in StageSources(i) :
         /\ StageSources(i) = {source}
         /\ Settles(source)
         /\ ~ Unsettled({source})
         /\ Restore(i, {source},
                    <<Command(cmds[source].type, run.version + 1,
                              IF cmds[source].type = "review" THEN cmds[source].digest
                                                              ELSE none)>>)

\* PreparationResumeService.settle_and_enqueue: what was provisioned must be
\* there.
ResumePreparation(i) ==
    /\ Resuming(i)
    /\ run.susp = "PREPARING_WORKTREE"
    /\ \E source \in OtherWork(i) :
         /\ OtherWork(i) = {source}
         /\ cmds[source].type = "prepare_worktree"
         /\ cmds[source].status \in {"PENDING", "EXPIRED"}
         /\ Restore(i, {source}, <<Command("prepare_worktree", run.version + 1, none)>>)

\* settle_paused_approvals and prove_quiescent: at the PR gate an approval the
\* pause overtook is retired and has to be given again; anything else that is
\* outstanding keeps the run paused.
ResumeGate(i) ==
    /\ Resuming(i)
    /\ run.susp \in ApprovalStates \cup {"AWAITING_HUMAN_INTERVENTION"}
    /\ \A j \in OtherWork(i) :
         /\ run.susp = "AWAITING_PR_APPROVAL"
         /\ cmds[j].type = "approve_pr"
         /\ cmds[j].version = run.version - 1
         /\ cmds[j].status \in {"PENDING", "EXPIRED"}
    /\ ~ Unsettled({})
    /\ Restore(i, OtherWork(i), <<>>)

----------------------------------------------------------------------------
\* Someone changes the worktree behind the run's back.
Drift ==
    /\ run.resource.worktree /\ run.state \notin TerminalStates
    /\ drift < MaxDrift /\ drift' = drift + 1
    /\ head' \in Digests \ {head}
    /\ UNCHANGED <<run, cmds, approved, requests>>

\* The steps of a delivery's handler: those that begin its work, which a later
\* delivery may have to begin again, and those that settle it.
Begin(i) ==
    AdmitPlanning(i) \/ AdmitStage(i) \/ StartPreparation(i) \/ CheckpointWorktree(i)

Settle(i) ==
    \/ FinishPlanning(i) \/ RejectPlanning(i)
    \/ FinishDevelopment(i) \/ PublishEvidence(i) \/ FailReview(i)
    \/ DecideValidation(i) \/ DecideReview(i) \/ StopStage(i) \/ RetainResult(i)
    \/ FinishPreparation(i)
    \/ ApprovePlan(i) \/ RevisePlan(i) \/ ApprovePr(i) \/ ReviseCandidate(i)
    \/ RejectDecision(i) \/ Replay(i)
    \/ PauseRun(i) \/ CancelRun(i) \/ RejectControl(i)
    \/ ResumeStage(i) \/ ResumePreparation(i) \/ ResumeGate(i)

Next ==
    \/ \E type \in {"pause", "resume", "cancel", "request_plan_revision",
                    "request_candidate_changes"} : Request(type)
    \/ \E gate \in {"plan", "pr"} : Authorize(gate)
    \/ \E i \in DOMAIN cmds :
         Claim(i) \/ Complete(i) \/ Expire(i) \/ FailStage(i) \/ LateResult(i)
         \/ Begin(i) \/ Settle(i)
    \/ Drift

Spec == Init /\ [][Next]_vars

\* A lane's workers poll it, get on with what they hold, and acknowledge it;
\* a handler that can do nothing more lets its lease run out.
LaneClaims(control) == \E i \in DOMAIN cmds : (IsControl(i) <=> control) /\ Claim(i)

LaneBegins(control) == \E i \in DOMAIN cmds :
    (IsControl(i) <=> control) /\ cmds[i].status = "LEASED" /\ Begin(i)

LaneSettles(control) == \E i \in DOMAIN cmds :
    (IsControl(i) <=> control) /\ cmds[i].status = "LEASED" /\ Settle(i)

LaneAcknowledges(control) == \E i \in DOMAIN cmds : (IsControl(i) <=> control) /\ Complete(i)

LaneLapses(control) == \E i \in DOMAIN cmds : (IsControl(i) <=> control) /\ Expire(i)

Fairness ==
    /\ \A control \in BOOLEAN :
         /\ SF_vars(LaneClaims(control))
         /\ SF_vars(LaneBegins(control))
         /\ SF_vars(LaneSettles(control))
         /\ SF_vars(LaneAcknowledges(control))
         /\ WF_vars(LaneLapses(control))

FairSpec == Spec /\ Fairness

----------------------------------------------------------------------------
(* Properties.                                                             *)

\* Rows and counters keep their types.
TypeOK ==
    /\ run \in RunSnapshot
    /\ cmds \in Seq(CommandRow)
    /\ head \in Digests
    /\ approved \in Digests \cup {none}
    /\ requests \in 0..MaxRequests
    /\ drift \in 0..MaxDrift

\* The handlers use the run's row as RunRow promises it: every transaction
\* that writes the row is a step of the row's specification.
ImplementsRow == RowSpec

\* A command decides once, whatever is redelivered, replayed, resumed or left
\* unfenced: the handlers rest on the run's state and version alone.
DecidedOnce == \A i \in DOMAIN cmds : cmds[i].work # "twice"

\* A command of the phase the run is in.
OfThisPhase(i) ==
    /\ cmds[i].type \in StageTypes
    /\ \/ run.state = StagePhase(cmds[i].type)
       \/ run.state = "CREATED" /\ cmds[i].type = "start_planning"
    /\ IF cmds[i].type = "prepare_worktree" THEN cmds[i].version <= run.version
                                            ELSE run.version \in AdmittedVersions(cmds[i])

WorkingStates == ActiveResumeStates \cup {"PREPARING_WORKTREE"}

\* No phase is left without its work: while the run is in a working phase, one
\* command of that phase and that version is outstanding, or has failed and can
\* be seen to have.  No transition, pause or resume loses it or doubles it.
WorkKept ==
    run.state \in WorkingStates =>
        Cardinality({i \in DOMAIN cmds : OfThisPhase(i) /\ cmds[i].result = 0}) = 1

\* While a decided command waits to be acknowledged, what it enqueued is not
\* started: the replay of its redelivery looks for a successor still PENDING.
SuccessorWaits ==
    \A i, j \in DOMAIN cmds :
        /\ Outstanding(i) /\ cmds[i].work \in {"applied", "redelivered"}
        /\ cmds[i].type \in StageTypes
        /\ i < j /\ cmds[j].type \in StageTypes
        => cmds[j].status = "PENDING"

\* No work of a run is lost, doubled or started ahead of its predecessor's
\* acknowledgement (WorkKept, SuccessorWaits), and the rows keep their types.
WorkSafe == TypeOK /\ WorkKept /\ SuccessorWaits

\* A control of the run as it is now has been accepted and not settled.
StopAccepted ==
    \E i \in DOMAIN cmds : IsControl(i) /\ Outstanding(i) /\ cmds[i].version = run.version

\* A stage that has been working does not publish its outcome over an accepted
\* stop of the same version (pending_current_control_stop): the run leaves the
\* phase by that stop.
StopFencesDecisions ==
    [][StopAccepted /\ run.state \in WorkingStates \ {"CREATED"} /\ run'.state # run.state
         => run'.state \in {"PAUSED", "CANCELLED"}]_vars

\* The PR gate opens on the content of the worktree, and the candidate that is
\* handed to publication is the one the operator approved, though the worktree
\* may change between any two steps of the stages.
GateOnCandidate ==
    [][/\ run'.state = "AWAITING_PR_APPROVAL" /\ run.state = "REVIEWING" => run'.digest = head
       /\ run'.state = "PUBLISHING_PR" /\ run.state # "PUBLISHING_PR"
            => run.digest = head /\ approved' = head]_vars

\* What a stage or a gate decides, it decides over no accepted stop and on the
\* content it has seen (StopFencesDecisions, GateOnCandidate).
DecisionsFenced == StopFencesDecisions /\ GateOnCandidate

\* A stage's delivery ends: the run comes to a gate, to a human, to its end or
\* to a pause, unless its command failed or its execution was orphaned.
StageEnds ==
    (run.state \in WorkingStates)
        ~> \/ run.state \notin WorkingStates
           \/ \E i \in DOMAIN cmds :
                cmds[i].status = "FAILED" \/ cmds[i].work \in {"orphaned", "retained"}

\* A resume of the run as it is paused now.
ResumeAsked ==
    /\ run.state = "PAUSED"
    /\ \E i \in DOMAIN cmds : cmds[i].type = "resume" /\ cmds[i].version = run.version

\* The pause fell on work that had not started, that only the controller did,
\* or on an approval of the candidate.  A second pause of the version the
\* first one stopped may be waiting: it finds the run PAUSED without its own
\* event and asks for recovery at every delivery, so a third one would never be
\* delivered.
NothingUnknown ==
    /\ Cardinality({i \in DOMAIN cmds : cmds[i].type = "pause" /\ cmds[i].result = 0}) <= 1
    /\ \A i \in DOMAIN cmds :
        \/ cmds[i].type \in {"cancel", "resume", "pause"}
        \/ /\ cmds[i].version = run.version - 1
           /\ cmds[i].status # "FAILED"
           /\ \/ cmds[i].type \in StageTypes \cup {"approve_pr"} /\ cmds[i].work = "none"
              \/ cmds[i].type = "validate" /\ cmds[i].work \in {"admitted", "published", "stopped"}

\* A pause that left nothing of unknown outcome is undone by a resume, though
\* the stopped delivery, the pause or the resume itself may lose its lease and
\* be delivered again in between.  Only a stopped delivery that then fails may
\* keep the run paused.
ResumeSettles ==
    (ResumeAsked /\ NothingUnknown)
        ~> run.state # "PAUSED" \/ \E i \in DOMAIN cmds : cmds[i].status = "FAILED"

\* Stages end and resumes settle (StageEnds, ResumeSettles).
LifecycleProceeds == StageEnds /\ ResumeSettles

\* docs/superpowers/specs/2026-08-21-forge-v0-1-design.md: "Resume returns to
\* the recorded state after reconciliation."  At a gate no execution is running
\* whose outcome would have to be found out first.
ResumeReturns == (ResumeAsked /\ run.susp \in ApprovalStates) ~> run.state # "PAUSED"

=============================================================================
