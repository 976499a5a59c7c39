---------------------------- MODULE StateEngine ----------------------------
(***************************************************************************)
(* The run's lifecycle as pure functions: the states and the snapshot of   *)
(* domain/run.py, the legal graph and the operations of                    *)
(* application/services/state_engine.py, the shapes the runs table and the *)
(* row decoder accept (persistence/models/run.py,                          *)
(* persistence/repositories/runs.py).                                      *)
(*                                                                         *)
(* Every operation Op comes as a pair: CanOp(run, ...) holds exactly when  *)
(* the code does not raise, and Op(run, ...) is the snapshot it returns.   *)
(* Python's None is the string "none".                                     *)
(***************************************************************************)
EXTENDS Integers

CONSTANTS
    Digests,        \* the evidence digests (SHA-256 hex strings in the code)
    LocalLimit,     \* policy limit on automatic local remediations
    RemoteLimit     \* policy limit on remote remediations

ASSUME NoneIsNoDigest == "none" \notin Digests
ASSUME LimitsAreNatural == LocalLimit \in Nat /\ RemoteLimit \in Nat

none == "none"

TerminalStates == {"COMPLETED", "FAILED", "CANCELLED"}

ApprovalStates ==
    {"AWAITING_PLAN_APPROVAL", "AWAITING_PR_APPROVAL", "AWAITING_MERGE_APPROVAL"}

RunState ==
    {"CREATED", "PLANNING", "PREPARING_WORKTREE", "IMPLEMENTING", "VALIDATING",
     "REVIEWING", "REMEDIATING", "PUBLISHING_PR", "MONITORING_PR", "MERGING",
     "AWAITING_HUMAN_INTERVENTION", "PAUSED"} \cup ApprovalStates \cup TerminalStates

ApprovalGate == {"plan", "pr", "merge"}

ApprovalStateByGate(gate) ==
    CASE gate = "plan"  -> "AWAITING_PLAN_APPROVAL"
      [] gate = "pr"    -> "AWAITING_PR_APPROVAL"
      [] gate = "merge" -> "AWAITING_MERGE_APPROVAL"

ResourceState == {"DISABLED", "PROVISIONING", "ACTIVE", "FAILED", "REMOVED"}

----------------------------------------------------------------------------
(* The legal graph.                                                        *)

LEGALBody(s) ==
    CASE s = "CREATED" -> {"PLANNING", "CANCELLED"}
      [] s = "PLANNING" ->
            {"AWAITING_PLAN_APPROVAL", "PREPARING_WORKTREE",
             "AWAITING_HUMAN_INTERVENTION", "FAILED", "CANCELLED"}
      [] s = "AWAITING_PLAN_APPROVAL" -> {"PLANNING", "PREPARING_WORKTREE", "CANCELLED"}
      [] s = "PREPARING_WORKTREE" ->
            {"IMPLEMENTING", "AWAITING_HUMAN_INTERVENTION", "FAILED", "CANCELLED"}
      [] s = "IMPLEMENTING" ->
            {"VALIDATING", "AWAITING_HUMAN_INTERVENTION", "FAILED", "CANCELLED"}
      [] s = "VALIDATING" ->
            {"REVIEWING", "AWAITING_PR_APPROVAL", "MONITORING_PR", "REMEDIATING",
             "AWAITING_HUMAN_INTERVENTION", "FAILED", "CANCELLED"}
      [] s = "REVIEWING" ->
            {"REMEDIATING", "AWAITING_PR_APPROVAL", "MONITORING_PR",
             "AWAITING_HUMAN_INTERVENTION", "FAILED", "CANCELLED"}
      [] s = "REMEDIATING" ->
            {"VALIDATING", "AWAITING_HUMAN_INTERVENTION", "FAILED", "CANCELLED"}
      [] s = "AWAITING_PR_APPROVAL" ->
            {"REMEDIATING", "PUBLISHING_PR", "AWAITING_HUMAN_INTERVENTION", "CANCELLED"}
      [] s = "PUBLISHING_PR" ->
            {"MONITORING_PR", "AWAITING_HUMAN_INTERVENTION", "FAILED", "CANCELLED"}
      [] s = "MONITORING_PR" ->
            {"REMEDIATING", "AWAITING_MERGE_APPROVAL", "AWAITING_HUMAN_INTERVENTION",
             "FAILED", "CANCELLED"}
      [] s = "AWAITING_HUMAN_INTERVENTION" -> {"CANCELLED", "FAILED"}
      [] s = "AWAITING_MERGE_APPROVAL" ->
            {"MONITORING_PR", "MERGING", "AWAITING_HUMAN_INTERVENTION", "CANCELLED"}
      [] s = "MERGING" ->
            {"COMPLETED", "MONITORING_PR", "AWAITING_HUMAN_INTERVENTION", "FAILED"}
      [] s = "PAUSED" -> {"CANCELLED"}
      [] OTHER -> {}

LEGAL == [s \in RunState |-> LEGALBody(s)]

----------------------------------------------------------------------------
(* Snapshots.  `bound` stands for branch_name being set; `resource` groups *)
(* the worktree and database columns.                                      *)

SuspensionKind == {"PAUSE", "INTERVENTION"}

SuspensionContext ==
    [state : RunState \cup {none}, susp : RunState \cup {none},
     kind : SuspensionKind \cup {none}, gate : ApprovalGate \cup {none},
     digest : Digests \cup {none}]

NoContext == [state |-> none, susp |-> none, kind |-> none, gate |-> none, digest |-> none]

Resource == [worktree : BOOLEAN, database : ResourceState]

NoResource == [worktree |-> FALSE, database |-> "DISABLED"]

RunSnapshot ==
    [state : RunState, version : Nat,
     susp : RunState \cup {none}, kind : SuspensionKind \cup {none},
     ctx : SuspensionContext,
     gate : ApprovalGate \cup {none}, digest : Digests \cup {none},
     local : Nat, remote : Nat,
     bound : BOOLEAN, resource : Resource]

\* An untouched new run (_validate_new_snapshot).
NewRun ==
    [state |-> "CREATED", version |-> 0, susp |-> none, kind |-> none, ctx |-> NoContext,
     gate |-> none, digest |-> none, local |-> 0, remote |-> 0,
     bound |-> FALSE, resource |-> NoResource]

\* with_state: one version increment; every suspension and approval column not
\* passed by the caller is cleared.
WithState(run, s, susp, kind, ctx, gate, digest) ==
    [state |-> s, version |-> run.version + 1, susp |-> susp, kind |-> kind, ctx |-> ctx,
     gate |-> gate, digest |-> digest, local |-> run.local, remote |-> run.remote,
     bound |-> run.bound, resource |-> run.resource]

Active(run, s) == WithState(run, s, none, none, NoContext, none, none)

----------------------------------------------------------------------------
(* The operations of StateEngine.                                          *)

CanTransition(run, target) == target \notin ApprovalStates /\ target \in LEGAL[run.state]

Transition(run, target) == Active(run, target)

CanAwaitApproval(run, gate) == ApprovalStateByGate(gate) \in LEGAL[run.state]

AwaitApproval(run, gate, digest) ==
    WithState(run, ApprovalStateByGate(gate), none, none, NoContext, gate, digest)

CanPause(run) == run.state \notin TerminalStates \cup {"PAUSED"}

\* Mutants of Pause: the intervention under the pause is forgotten; the phase
\* under that intervention is replaced.
PauseForgetsIntervention(run) ==
    WithState(run, "PAUSED", run.state, "PAUSE",
              [state |-> run.state, susp |-> none, kind |-> none,
               gate |-> run.gate, digest |-> run.digest], none, none)

PauseForgetsSuspendedPhase(run) ==
    WithState(run, "PAUSED", run.state, "PAUSE",
              [state |-> run.state,
               susp |-> IF run.susp = none THEN none ELSE "IMPLEMENTING",
               kind |-> run.kind, gate |-> run.gate, digest |-> run.digest], none, none)

Pause(run) ==
    WithState(run, "PAUSED", run.state, "PAUSE",
              [state |-> run.state, susp |-> run.susp, kind |-> run.kind,
               gate |-> run.gate, digest |-> run.digest],
              none, none)

\* The branch for a paused run without a context is kept: rows written before
\* contexts existed take it.
CanResume(run) ==
    /\ run.state = "PAUSED"
    /\ run.susp \notin {none, "PAUSED"}
    /\ run.kind = "PAUSE"
    /\ IF run.ctx = NoContext THEN run.susp \notin ApprovalStates
                              ELSE run.ctx.state = run.susp

\* Mutant: the gate is restored with evidence of the resumer's choosing.
ResumeRefreshesEvidence(run) ==
    WithState(run, run.ctx.state, run.ctx.susp, run.ctx.kind, NoContext, run.ctx.gate,
              IF run.ctx.gate = none THEN none ELSE CHOOSE d \in Digests : TRUE)

Resume(run) ==
    IF run.ctx = NoContext
    THEN Active(run, run.susp)
    ELSE WithState(run, run.ctx.state, run.ctx.susp, run.ctx.kind, NoContext,
                   run.ctx.gate, run.ctx.digest)

CanIntervene(run) ==
    /\ run.state \notin TerminalStates \cup {"PAUSED", "AWAITING_HUMAN_INTERVENTION"}
    /\ "AWAITING_HUMAN_INTERVENTION" \in LEGAL[run.state]

Intervene(run) ==
    WithState(run, "AWAITING_HUMAN_INTERVENTION", run.state, "INTERVENTION", NoContext,
              none, none)

CanResumeInterruptedWork(run) ==
    /\ run.state = "AWAITING_HUMAN_INTERVENTION"
    /\ run.kind = "INTERVENTION"
    /\ run.susp \in {"PLANNING", "IMPLEMENTING", "REMEDIATING"}
    /\ run.gate = none

ResumeInterruptedWork(run) == Active(run, run.susp)

CanResolveIntervention(run, target) ==
    /\ run.state = "AWAITING_HUMAN_INTERVENTION"
    /\ run.susp # none
    /\ run.kind = "INTERVENTION"
    /\ target \notin ApprovalStates \cup {"AWAITING_HUMAN_INTERVENTION"}
    /\ ~ (run.susp = "AWAITING_MERGE_APPROVAL" /\ target = "MERGING")
    /\ ~ (run.susp = "MERGING" /\ target = "COMPLETED")
    /\ ~ (run.susp = "AWAITING_PR_APPROVAL" /\ target = "PUBLISHING_PR")
    /\ target \in LEGAL[run.susp]

ResolveIntervention(run, target) == Active(run, target)

----------------------------------------------------------------------------
(* Operations the repository builds from the engine's.                     *)

CanBeginLocalRemediation(run, automatic) ==
    run.state \in (IF automatic THEN {"VALIDATING", "REVIEWING", "AWAITING_PR_APPROVAL"}
                                ELSE {"AWAITING_PR_APPROVAL"})

\* Mutant: the limit is off by one.
LocalRemediationOffByOne(run, automatic) ==
    CASE ~ automatic -> Transition(run, "REMEDIATING")
      [] automatic /\ run.local > LocalLimit -> Intervene(run)
      [] automatic /\ run.local <= LocalLimit ->
            Transition([run EXCEPT !.local = @ + 1], "REMEDIATING")

\* Only an automatic remediation is counted; at the limit it becomes an
\* intervention instead.
BeginLocalRemediation(run, automatic) ==
    CASE ~ automatic -> Transition(run, "REMEDIATING")
      [] automatic /\ run.local >= LocalLimit -> Intervene(run)
      [] automatic /\ run.local < LocalLimit ->
            Transition([run EXCEPT !.local = @ + 1], "REMEDIATING")

CanBeginRemoteRemediation(run) == run.state = "MONITORING_PR"

BeginRemoteRemediation(run) ==
    IF run.remote >= RemoteLimit
    THEN Intervene(run)
    ELSE Transition([run EXCEPT !.remote = @ + 1], "REMEDIATING")

CanBindBranch(run) ==
    /\ run.state = "PREPARING_WORKTREE"
    /\ ~ run.bound /\ run.resource = NoResource

NextVersion(run) == [run EXCEPT !.version = @ + 1]

BindBranch(run) == NextVersion([run EXCEPT !.bound = TRUE])

WithResource(run, resource) == NextVersion([run EXCEPT !.resource = resource])

----------------------------------------------------------------------------
(* What the database accepts and what the decoder accepts.                 *)

\* PAUSE_SOURCE_STATES and INTERVENTION_SOURCE_STATES are lists of their own
\* in persistence/models/run.py, kept beside the engine's LEGAL by hand.
PauseSourceStates == RunState \ ({"PAUSED"} \cup TerminalStates)

InterventionSourceStates ==
    {"PLANNING", "PREPARING_WORKTREE", "IMPLEMENTING", "VALIDATING", "REVIEWING",
     "REMEDIATING", "AWAITING_PR_APPROVAL", "PUBLISHING_PR", "MONITORING_PR",
     "AWAITING_MERGE_APPROVAL", "MERGING"}

\* _validate_pending_metadata, and the pending_gate_shape constraint.
PendingShape(state, gate, digest) ==
    IF state \in ApprovalStates
    THEN gate # none /\ ApprovalStateByGate(gate) = state /\ digest # none
    ELSE gate = none /\ digest = none

\* The table constraints pending_gate_shape and suspension_state_shape.
RowConstraint(run) ==
    /\ PendingShape(run.state, run.gate, run.digest)
    /\ \/ /\ run.state = "PAUSED"
          /\ run.susp \in PauseSourceStates
          /\ run.kind = "PAUSE"
          /\ run.ctx # NoContext
       \/ /\ run.state = "AWAITING_HUMAN_INTERVENTION"
          /\ run.susp \in InterventionSourceStates
          /\ run.kind = "INTERVENTION"
          /\ run.ctx = NoContext
       \/ /\ run.state \notin {"PAUSED", "AWAITING_HUMAN_INTERVENTION"}
          /\ run.susp = none /\ run.kind = none
          /\ run.ctx = NoContext

\* The context a paused row carries, as _decode_suspension_context accepts it.
ContextDecodes(run) ==
    LET c == run.ctx IN
    /\ c.state = run.susp
    /\ (c.susp = none) <=> (c.kind = none)
    /\ c.susp # "PAUSED" /\ c.kind # "PAUSE"
    /\ c.state \in ApprovalStates => c.susp = none /\ c.kind = none
    /\ PendingShape(c.state, c.gate, c.digest)
    /\ c.kind = "INTERVENTION" =>
         /\ c.state = "AWAITING_HUMAN_INTERVENTION"
         /\ c.susp # none
         /\ "AWAITING_HUMAN_INTERVENTION" \in LEGAL[c.susp]
    /\ c.kind = none => c.state \notin TerminalStates \cup {"AWAITING_HUMAN_INTERVENTION"}

\* _decode_suspension_context and _snapshot_from_record raise nothing.
RowDecodes(run) ==
    /\ PendingShape(run.state, run.gate, run.digest)
    /\ run.state = "PAUSED" =>
         /\ run.susp \notin TerminalStates \cup {none, "PAUSED"}
         /\ run.kind = "PAUSE"
         /\ run.ctx # NoContext
         /\ ContextDecodes(run)
    /\ run.state = "AWAITING_HUMAN_INTERVENTION" =>
         /\ run.susp # none
         /\ run.kind = "INTERVENTION"
         /\ run.ctx = NoContext
         /\ "AWAITING_HUMAN_INTERVENTION" \in LEGAL[run.susp]
    /\ run.state \notin {"PAUSED", "AWAITING_HUMAN_INTERVENTION"} =>
         run.susp = none /\ run.kind = none /\ run.ctx = NoContext

----------------------------------------------------------------------------
(* The phase a run is in, seen through a pause and an intervention.  No    *)
(* code computes it; the properties are stated with it.                    *)

Phase(run) ==
    CASE run.state = "AWAITING_HUMAN_INTERVENTION" -> run.susp
      [] run.state = "PAUSED" /\ run.susp = "AWAITING_HUMAN_INTERVENTION" -> run.ctx.susp
      [] run.state = "PAUSED" /\ run.susp # "AWAITING_HUMAN_INTERVENTION" -> run.susp
      [] OTHER -> run.state

\* The evidence a human is asked to approve, seen through a pause.
PendingDigest(run) == IF run.state = "PAUSED" THEN run.ctx.digest ELSE run.digest

=============================================================================
