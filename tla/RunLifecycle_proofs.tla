------------------------ MODULE RunLifecycle_proofs ------------------------
(***************************************************************************)
(* Proofs, for every set of digests and every limit.                       *)
(*                                                                         *)
(* First the row alone.  What the operations of the engine leave behind is *)
(* a snapshot of the right type that the table's hand-written constraints  *)
(* accept and the decoder reads again; so the run's row keeps its type and *)
(* always decodes, suspensions can be entered and undone, the run moves    *)
(* along the legal graph, and remediations are bounded.                    *)
(*                                                                         *)
(* Then the handlers that write it.  They decide each command once, write  *)
(* the row as RunRow promises, decide over no accepted stop and on the     *)
(* content they have seen, and lose, double or start too early no work of  *)
(* a phase.                                                                *)
(***************************************************************************)
EXTENDS RunLifecycle, FiniteSetTheorems, WellFoundedInduction, TLAPS

----------------------------------------------------------------------------
(* Facts about the graph.                                                  *)

\* LEGAL leads from states to states, and never into a pause.
LEMMA LEGALType ==
    ASSUME NEW s \in RunState
    PROVE  LEGAL[s] \subseteq RunState /\ "PAUSED" \notin LEGAL[s]
  BY SMTT(60) DEF LEGAL, LEGALBody, RunState, ApprovalStates, TerminalStates

\* The table's list of states that may be intervened is the engine's.
LEMMA InterventionSources ==
    ASSUME NEW s \in RunState
    PROVE  ("AWAITING_HUMAN_INTERVENTION" \in LEGAL[s]) <=> s \in InterventionSourceStates
  BY SMTT(60) DEF LEGAL, LEGALBody, RunState, ApprovalStates, TerminalStates,
                  InterventionSourceStates

\* Every gate has an approval state.
LEMMA GateStates ==
    ASSUME NEW g \in ApprovalGate
    PROVE  ApprovalStateByGate(g) \in ApprovalStates
  BY DEF ApprovalStateByGate, ApprovalGate, ApprovalStates

\* The empty suspension context is a context.
LEMMA NoContextType == NoContext \in SuspensionContext
  BY DEF NoContext, SuspensionContext, none

\* Decoding asks no more of a row than the table does, but for the context of
\* a paused one.
LEMMA ConstraintDecodes ==
    ASSUME NEW r \in RunSnapshot, RowConstraint(r),
           r.state = "PAUSED" => ContextDecodes(r)
    PROVE  RowDecodes(r)
  <1>1. PendingShape(r.state, r.gate, r.digest)
    BY DEF RowConstraint
  <1>2. CASE r.state = "PAUSED"
    <2>1. r.susp \in PauseSourceStates /\ r.kind = "PAUSE" /\ r.ctx # NoContext
      BY <1>2 DEF RowConstraint
    <2>2. r.susp \notin TerminalStates \cup {none, "PAUSED"}
      BY <2>1 DEF PauseSourceStates, RunState, TerminalStates, ApprovalStates, none
    <2> QED
      BY <1>1, <1>2, <2>1, <2>2 DEF RowDecodes
  <1>3. CASE r.state = "AWAITING_HUMAN_INTERVENTION"
    <2>1. r.susp \in InterventionSourceStates /\ r.kind = "INTERVENTION" /\ r.ctx = NoContext
      BY <1>3 DEF RowConstraint
    <2>2. r.susp \in RunState /\ r.susp # none
      BY <2>1 DEF InterventionSourceStates, RunState, ApprovalStates, none
    <2> QED
      BY <1>1, <1>3, <2>1, <2>2, InterventionSources DEF RowDecodes
  <1>4. CASE r.state \notin {"PAUSED", "AWAITING_HUMAN_INTERVENTION"}
    BY <1>1, <1>4 DEF RowConstraint, RowDecodes
  <1> QED
    BY <1>2, <1>3, <1>4

----------------------------------------------------------------------------
(* The operations keep snapshots.                                          *)

\* with_state leaves a snapshot.
LEMMA WithStateType ==
    ASSUME NEW r \in RunSnapshot, NEW s \in RunState, NEW susp \in RunState \cup {none},
           NEW kind \in SuspensionKind \cup {none}, NEW ctx \in SuspensionContext,
           NEW gate \in ApprovalGate \cup {none}, NEW digest \in Digests \cup {none}
    PROVE  WithState(r, s, susp, kind, ctx, gate, digest) \in RunSnapshot
  BY DEF WithState, RunSnapshot

\* Leaving a suspension leaves a snapshot.
LEMMA ActiveType ==
    ASSUME NEW r \in RunSnapshot, NEW s \in RunState
    PROVE  Active(r, s) \in RunSnapshot
  BY WithStateType, NoContextType DEF Active

\* pause leaves a snapshot, context included.
LEMMA PauseType ==
    ASSUME NEW r \in RunSnapshot
    PROVE  Pause(r) \in RunSnapshot
  <1> DEFINE c == [state |-> r.state, susp |-> r.susp, kind |-> r.kind,
                   gate |-> r.gate, digest |-> r.digest]
  <1>1. c \in SuspensionContext
    BY DEF RunSnapshot, SuspensionContext
  <1>2. "PAUSED" \in RunState /\ "PAUSE" \in SuspensionKind /\ r.state \in RunState
    BY DEF RunState, SuspensionKind, RunSnapshot
  <1> HIDE DEF c
  <1>3. WithState(r, "PAUSED", r.state, "PAUSE", c, none, none) \in RunSnapshot
    BY <1>1, <1>2, WithStateType
  <1> QED
    BY <1>3 DEF Pause, c

\* intervene leaves a snapshot.
LEMMA InterveneType ==
    ASSUME NEW r \in RunSnapshot
    PROVE  Intervene(r) \in RunSnapshot
  <1>1. /\ "AWAITING_HUMAN_INTERVENTION" \in RunState
        /\ "INTERVENTION" \in SuspensionKind
        /\ r.state \in RunState
    BY DEF RunState, SuspensionKind, RunSnapshot
  <1> QED
    BY <1>1, WithStateType, NoContextType DEF Intervene


\* The updates of a single column.
LEMMA CountedType ==
    ASSUME NEW r \in RunSnapshot
    PROVE  /\ [r EXCEPT !.local = @ + 1] \in RunSnapshot
           /\ [r EXCEPT !.remote = @ + 1] \in RunSnapshot
           /\ [r EXCEPT !.version = @ + 1] \in RunSnapshot
           /\ [r EXCEPT !.bound = TRUE] \in RunSnapshot
  <1>1. [r EXCEPT !.local = @ + 1] \in RunSnapshot
    BY DEF RunSnapshot
  <1>2. [r EXCEPT !.remote = @ + 1] \in RunSnapshot
    BY DEF RunSnapshot
  <1>3. [r EXCEPT !.version = @ + 1] \in RunSnapshot
    BY DEF RunSnapshot
  <1>4. [r EXCEPT !.bound = TRUE] \in RunSnapshot
    BY DEF RunSnapshot
  <1> QED
    BY <1>1, <1>2, <1>3, <1>4

\* resume leaves a snapshot.
LEMMA ResumeType ==
    ASSUME NEW r \in RunSnapshot, CanResume(r)
    PROVE  Resume(r) \in RunSnapshot
  <1>1. r.susp \in RunState /\ r.ctx \in SuspensionContext
    BY DEF CanResume, RunSnapshot
  <1>2. CASE r.ctx = NoContext
    BY <1>1, <1>2, ActiveType DEF Resume
  <1>3. CASE r.ctx # NoContext
    <2>1. /\ r.ctx.state \in RunState
          /\ r.ctx.susp \in RunState \cup {none}
          /\ r.ctx.kind \in SuspensionKind \cup {none}
          /\ r.ctx.gate \in ApprovalGate \cup {none}
          /\ r.ctx.digest \in Digests \cup {none}
      BY <1>1, <1>3 DEF CanResume, SuspensionContext
    <2>2. WithState(r, r.ctx.state, r.ctx.susp, r.ctx.kind, NoContext,
                    r.ctx.gate, r.ctx.digest) \in RunSnapshot
      BY <2>1, WithStateType, NoContextType
    <2> QED
      BY <1>3, <2>2 DEF Resume
  <1> QED
    BY <1>2, <1>3

\* A pause of a decodable row has a context the decoder accepts.
LEMMA PauseContextDecodes ==
    ASSUME NEW r \in RunSnapshot, RowDecodes(r), CanPause(r)
    PROVE  ContextDecodes(Pause(r))
  <1> DEFINE p == Pause(r)
  <1>1. /\ p.susp = r.state /\ p.ctx.state = r.state /\ p.ctx.susp = r.susp
        /\ p.ctx.kind = r.kind /\ p.ctx.gate = r.gate /\ p.ctx.digest = r.digest
    BY DEF Pause, WithState
  <1>2. r.state \notin TerminalStates \cup {"PAUSED"} /\ r.state \in RunState
    BY DEF CanPause, RunSnapshot
  <1>3. PendingShape(r.state, r.gate, r.digest)
    BY DEF RowDecodes
  <1>4. CASE r.state = "AWAITING_HUMAN_INTERVENTION"
    <2>1. /\ r.susp # none /\ r.kind = "INTERVENTION"
          /\ "AWAITING_HUMAN_INTERVENTION" \in LEGAL[r.susp]
          /\ r.susp \in RunState
      BY <1>4 DEF RowDecodes, RunSnapshot
    <2>2. r.susp # "PAUSED"
      BY <2>1, InterventionSources DEF InterventionSourceStates
    <2>3. "INTERVENTION" # none /\ "PAUSE" # "INTERVENTION"
      BY DEF none
    <2>4. r.state \notin ApprovalStates
      BY <1>4 DEF ApprovalStates
    <2> QED
      BY <1>1, <1>3, <1>4, <2>1, <2>2, <2>3, <2>4 DEF ContextDecodes
  <1>5. CASE r.state # "AWAITING_HUMAN_INTERVENTION"
    <2>1. r.susp = none /\ r.kind = none
      BY <1>2, <1>5 DEF RowDecodes
    <2>2. none # "PAUSED" /\ none # "PAUSE" /\ none # "INTERVENTION"
      BY DEF none
    <2> QED
      BY <1>1, <1>2, <1>3, <1>5, <2>1, <2>2 DEF ContextDecodes
  <1> QED
    BY <1>4, <1>5

\* An operation that writes an active state does not pause the run.
LEMMA ActiveState ==
    ASSUME NEW r, NEW s
    PROVE  Active(r, s).state = s
  BY DEF Active, WithState

\* What intervene writes in the lifecycle columns.
LEMMA InterveneState ==
    ASSUME NEW r
    PROVE  Intervene(r).state = "AWAITING_HUMAN_INTERVENTION"
  BY DEF Intervene, WithState

\* Edges of the graph the forms rely on.
LEMMA Edges ==
    /\ "REMEDIATING" \in LEGAL["VALIDATING"] /\ "REMEDIATING" \in LEGAL["REVIEWING"]
    /\ "REMEDIATING" \in LEGAL["AWAITING_PR_APPROVAL"]
    /\ "REMEDIATING" \in LEGAL["MONITORING_PR"]
    /\ "VALIDATING" \in LEGAL["REMEDIATING"]
    /\ "PREPARING_WORKTREE" \in LEGAL["AWAITING_PLAN_APPROVAL"]
    /\ "PREPARING_WORKTREE" \in LEGAL["PLANNING"]
    /\ "PLANNING" \in LEGAL["AWAITING_PLAN_APPROVAL"]
    /\ LEGAL["PAUSED"] = {"CANCELLED"}
    /\ LEGAL["AWAITING_HUMAN_INTERVENTION"] = {"CANCELLED", "FAILED"}
    /\ \A s \in RunState : s \notin LEGAL[s]
    /\ \A s \in RunState : "COMPLETED" \in LEGAL[s] => s = "MERGING"
  BY SMTT(60) DEF LEGAL, LEGALBody, RunState, ApprovalStates, TerminalStates

\* Local remediations start where an intervention or a remediation is legal.
LEMMA RemediationSources ==
    ASSUME NEW s \in {"VALIDATING", "REVIEWING", "AWAITING_PR_APPROVAL", "MONITORING_PR"}
    PROVE  /\ s \in RunState /\ s \notin TerminalStates \cup {"PAUSED", "AWAITING_HUMAN_INTERVENTION"}
           /\ "AWAITING_HUMAN_INTERVENTION" \in LEGAL[s] /\ "REMEDIATING" \in LEGAL[s]
  BY Edges, InterventionSources
     DEF RunState, ApprovalStates, TerminalStates, InterventionSourceStates

----------------------------------------------------------------------------
(* The operations keep rows that the table accepts and the decoder reads.  *)

\* A row that was read from the table.
Decoded(r) == r \in RunSnapshot /\ RowDecodes(r)

\* A row that may be written, and will be read again.
Storable(r) == RowConstraint(r) /\ Decoded(r)

\* The table accepts what the decoder has read: the constraint is not stronger.
LEMMA DecodedIsStorable ==
    ASSUME NEW r, Decoded(r)
    PROVE  Storable(r)
  <1>1. r.susp \in RunState \cup {none}
    BY DEF Decoded, RunSnapshot
  <1>2. r.state = "PAUSED" => r.susp \in PauseSourceStates
    BY <1>1 DEF Decoded, RowDecodes, PauseSourceStates
  <1>3. r.state = "AWAITING_HUMAN_INTERVENTION" => r.susp \in InterventionSourceStates
    BY <1>1, InterventionSources DEF Decoded, RowDecodes
  <1> QED
    BY <1>2, <1>3 DEF Decoded, RowDecodes, Storable, RowConstraint

\* An active state may be written whatever the row held.
LEMMA ActiveStorable ==
    ASSUME NEW r \in RunSnapshot,
           NEW t \in RunState \ (ApprovalStates \cup {"PAUSED", "AWAITING_HUMAN_INTERVENTION"})
    PROVE  Storable(Active(r, t))
  <1> DEFINE p == Active(r, t)
  <1>1. /\ p.state = t /\ p.susp = none /\ p.kind = none /\ p.ctx = NoContext
        /\ p.gate = none /\ p.digest = none
    BY DEF Active, WithState
  <1>2. p \in RunSnapshot
    BY ActiveType
  <1> HIDE DEF p
  <1>3. RowConstraint(p)
    BY <1>1 DEF RowConstraint, PendingShape
  <1> QED
    BY <1>1, <1>2, <1>3, ConstraintDecodes DEF Storable, Decoded, p

\* So may a gate with its evidence.
LEMMA GateStorable ==
    ASSUME NEW r \in RunSnapshot, NEW gate \in ApprovalGate, NEW digest \in Digests
    PROVE  Storable(AwaitApproval(r, gate, digest))
  <1> DEFINE p == AwaitApproval(r, gate, digest)
  <1>1. /\ p.state = ApprovalStateByGate(gate) /\ p.susp = none /\ p.kind = none
        /\ p.ctx = NoContext /\ p.gate = gate /\ p.digest = digest
    BY DEF AwaitApproval, WithState
  <1>2. p.state \in ApprovalStates
    BY <1>1, GateStates
  <1>3. p.state \in RunState /\ p.state \notin {"PAUSED", "AWAITING_HUMAN_INTERVENTION"}
    BY <1>2 DEF RunState, ApprovalStates
  <1>4. p \in RunSnapshot
    BY <1>1, <1>3, WithStateType, NoContextType DEF AwaitApproval
  <1>5. gate # none /\ digest # none
    BY NoneIsNoDigest DEF ApprovalGate, none
  <1> HIDE DEF p
  <1>6. RowConstraint(p)
    BY <1>1, <1>2, <1>3, <1>5 DEF RowConstraint, PendingShape
  <1> QED
    BY <1>3, <1>4, <1>6, ConstraintDecodes DEF Storable, Decoded, p

\* The table accepts every intervention the engine allows.
LEMMA InterventionStorable ==
    ASSUME NEW r \in RunSnapshot, CanIntervene(r)
    PROVE  Storable(Intervene(r))
  <1> DEFINE p == Intervene(r)
  <1>1. p.state = "AWAITING_HUMAN_INTERVENTION" /\ p.susp = r.state
        /\ p.kind = "INTERVENTION" /\ p.ctx = NoContext /\ p.gate = none /\ p.digest = none
    BY DEF Intervene, WithState
  <1>2. r.state \in InterventionSourceStates
    BY InterventionSources DEF CanIntervene, RunSnapshot
  <1>3. p \in RunSnapshot
    BY InterveneType
  <1>4. "AWAITING_HUMAN_INTERVENTION" \notin ApprovalStates
    BY DEF ApprovalStates
  <1> HIDE DEF p
  <1>5. RowConstraint(p)
    BY <1>1, <1>2, <1>4 DEF RowConstraint, PendingShape
  <1> QED
    BY <1>1, <1>3, <1>5, ConstraintDecodes DEF Storable, Decoded, p

\* The table accepts every pause the engine allows, and the decoder its context.
LEMMA PauseStorable ==
    ASSUME NEW r, Decoded(r), CanPause(r)
    PROVE  Storable(Pause(r))
  <1> DEFINE p == Pause(r)
  <1>0. r \in RunSnapshot /\ r.state \in RunState
    BY DEF Decoded, RunSnapshot
  <1>1. p.state = "PAUSED" /\ p.susp = r.state /\ p.kind = "PAUSE" /\ p.ctx.state = r.state
        /\ p.gate = none /\ p.digest = none
    BY DEF Pause, WithState
  <1>2. NoContext.state = none /\ none \notin RunState /\ "PAUSED" \notin ApprovalStates
    BY DEF NoContext, none, RunState, ApprovalStates, TerminalStates
  <1>3. p.ctx # NoContext
    BY <1>0, <1>1, <1>2
  <1>4. p.susp \in PauseSourceStates
    BY <1>0, <1>1 DEF CanPause, PauseSourceStates
  <1>5. p \in RunSnapshot /\ ContextDecodes(p)
    BY <1>0, PauseType, PauseContextDecodes DEF Decoded
  <1> HIDE DEF p
  <1>6. RowConstraint(p)
    BY <1>1, <1>2, <1>3, <1>4 DEF RowConstraint, PendingShape
  <1> QED
    BY <1>5, <1>6, ConstraintDecodes DEF Storable, Decoded, p

\* A paused row can always be resumed.
LEMMA ResumeStorable ==
    ASSUME NEW r, Decoded(r), r.state = "PAUSED"
    PROVE  /\ CanResume(r) /\ Storable(Resume(r))
           /\ Resume(r).state = r.susp /\ Resume(r).version = r.version + 1
  <1>0. r \in RunSnapshot /\ r.ctx \in SuspensionContext
    BY DEF Decoded, RunSnapshot
  <1>1. /\ r.susp \notin TerminalStates \cup {none, "PAUSED"} /\ r.kind = "PAUSE"
        /\ r.ctx # NoContext /\ ContextDecodes(r) /\ r.ctx.state = r.susp
    BY DEF Decoded, RowDecodes, ContextDecodes
  <1>2. CanResume(r)
    BY <1>1 DEF CanResume
  <1> DEFINE p == Resume(r)
  <1>3. /\ p.state = r.ctx.state /\ p.susp = r.ctx.susp /\ p.kind = r.ctx.kind
        /\ p.ctx = NoContext /\ p.gate = r.ctx.gate /\ p.digest = r.ctx.digest
        /\ p.version = r.version + 1
    BY <1>1 DEF Resume, WithState
  <1>4. p \in RunSnapshot
    BY <1>0, <1>2, ResumeType
  <1>5. r.ctx.kind \in {none, "INTERVENTION"} /\ r.ctx.susp \in RunState \cup {none}
    BY <1>0, <1>1 DEF SuspensionContext, SuspensionKind, ContextDecodes
  <1>6. PendingShape(p.state, p.gate, p.digest) /\ p.state # "PAUSED"
    BY <1>1, <1>3 DEF ContextDecodes
  <1>7. RowConstraint(p)
    <2>1. CASE r.ctx.kind = "INTERVENTION"
      <3>1. p.state = "AWAITING_HUMAN_INTERVENTION" /\ r.ctx.susp \in RunState
            /\ "AWAITING_HUMAN_INTERVENTION" \in LEGAL[r.ctx.susp]
        BY <1>1, <1>3, <1>5, <2>1 DEF ContextDecodes
      <3>2. r.ctx.susp \in InterventionSourceStates
        BY <3>1, InterventionSources
      <3> QED
        BY <1>3, <1>6, <2>1, <3>1, <3>2 DEF RowConstraint
    <2>2. CASE r.ctx.kind = none
      <3>1. r.ctx.susp = none /\ p.state # "AWAITING_HUMAN_INTERVENTION"
        BY <1>1, <1>3, <2>2 DEF ContextDecodes
      <3> QED
        BY <1>3, <1>6, <2>2, <3>1 DEF RowConstraint
    <2> QED
      BY <1>5, <2>1, <2>2
  <1> QED
    BY <1>1, <1>2, <1>3, <1>4, <1>6, <1>7, ConstraintDecodes DEF Storable, Decoded

\* The branch and the resource columns have no part in the lifecycle's shape.
LEMMA ColumnsStorable ==
    ASSUME NEW r, Decoded(r), NEW resource \in Resource
    PROVE  Storable(BindBranch(r)) /\ Storable(WithResource(r, resource))
  <1>1. ASSUME NEW p \in RunSnapshot,
               p.state = r.state /\ p.susp = r.susp /\ p.kind = r.kind /\ p.ctx = r.ctx
               /\ p.gate = r.gate /\ p.digest = r.digest
        PROVE  Storable(p)
    <2>1. RowDecodes(p)
      BY <1>1 DEF Decoded, RowDecodes, ContextDecodes
    <2> QED
      BY <1>1, <2>1, DecodedIsStorable DEF Decoded
  <1>2. r \in RunSnapshot
    BY DEF Decoded
  <1>3. Storable(BindBranch(r))
    <2> DEFINE p == BindBranch(r)
    <2>1. p \in RunSnapshot
      BY <1>2, CountedType DEF BindBranch, NextVersion
    <2>2. p.state = r.state /\ p.susp = r.susp /\ p.kind = r.kind /\ p.ctx = r.ctx
          /\ p.gate = r.gate /\ p.digest = r.digest
      BY <1>2 DEF BindBranch, NextVersion, RunSnapshot
    <2> HIDE DEF p
    <2> QED
      BY <1>1, <2>1, <2>2 DEF p
  <1>4. Storable(WithResource(r, resource))
    <2> DEFINE p == WithResource(r, resource)
    <2>1. [r EXCEPT !.resource = resource] \in RunSnapshot
      BY <1>2 DEF RunSnapshot
    <2>2. p \in RunSnapshot
      BY <2>1, CountedType DEF WithResource, NextVersion
    <2>3. p.state = r.state /\ p.susp = r.susp /\ p.kind = r.kind /\ p.ctx = r.ctx
          /\ p.gate = r.gate /\ p.digest = r.digest
      BY <1>2 DEF WithResource, NextVersion, RunSnapshot
    <2> HIDE DEF p
    <2> QED
      BY <1>1, <2>2, <2>3 DEF p
  <1> QED
    BY <1>3, <1>4

----------------------------------------------------------------------------
(* Type correctness.                                                       *)

\* Every repository operation writes a well-typed row.
LEMMA NextType == RowTypeOK /\ [RowNext]_run => RowTypeOK'
  <1> SUFFICES ASSUME RowTypeOK, [RowNext]_run PROVE RowTypeOK'
    OBVIOUS
  <1>0. run \in RunSnapshot /\ run.state \in RunState
    BY DEF RowTypeOK, RunSnapshot
  <1>1. CASE transition
    <2>1. PICK target \in RunState : run' = Active(run, target)
      BY <1>1 DEF transition, ChangeState, Transition
    <2> QED
      BY <1>0, <2>1, ActiveType DEF RowTypeOK
  <1>2. CASE await_approval
    <2>1. PICK gate \in ApprovalGate, digest \in Digests : run' = AwaitApproval(run, gate, digest)
      BY <1>2 DEF await_approval, ChangeState
    <2>2. ApprovalStateByGate(gate) \in RunState
      BY GateStates DEF RunState
    <2> QED
      BY <1>0, <2>1, <2>2, WithStateType, NoContextType DEF RowTypeOK, AwaitApproval
  <1>3. CASE approve_plan \/ prepare_plan_internally
    <2>1. run' = Active(run, "PREPARING_WORKTREE")
      BY <1>3 DEF approve_plan, prepare_plan_internally, ChangeState, Transition
    <2> QED
      BY <1>0, <2>1, ActiveType DEF RowTypeOK, RunState
  <1>4. CASE restart_planning
    <2>1. run' = Active(run, "PLANNING")
      BY <1>4 DEF restart_planning, ChangeState, Transition
    <2> QED
      BY <1>0, <2>1, ActiveType DEF RowTypeOK, RunState
  <1>5. CASE intervene
    BY <1>0, <1>5, InterveneType DEF RowTypeOK, intervene, ChangeState
  <1>6. CASE resume_interrupted_work
    <2>1. run' = Active(run, run.susp) /\ run.susp \in RunState
      BY <1>6 DEF resume_interrupted_work, ChangeState, ResumeInterruptedWork,
                  CanResumeInterruptedWork, RunState
    <2> QED
      BY <1>0, <2>1, ActiveType DEF RowTypeOK
  <1>7. CASE resolve_intervention
    <2>1. PICK target \in RunState : run' = Active(run, target)
      BY <1>7 DEF resolve_intervention, ChangeState, ResolveIntervention
    <2> QED
      BY <1>0, <2>1, ActiveType DEF RowTypeOK
  <1>8. CASE pause
    BY <1>0, <1>8, PauseType DEF RowTypeOK, pause, ChangeState
  <1>9. CASE resume
    BY <1>0, <1>9, ResumeType DEF RowTypeOK, resume, ChangeState
  <1>10. CASE begin_local_remediation
    <2>1. PICK automatic \in BOOLEAN : run' = BeginLocalRemediation(run, automatic)
      BY <1>10 DEF begin_local_remediation, ChangeState
    <2>2. run.local \in Nat /\ LocalLimit \in Nat
      BY <1>0, LimitsAreNatural DEF RunSnapshot
    <2>3. \/ run' = Active(run, "REMEDIATING")
          \/ run' = Intervene(run)
          \/ run' = Active([run EXCEPT !.local = @ + 1], "REMEDIATING")
      BY <2>1, <2>2 DEF BeginLocalRemediation, Transition
    <2> QED
      BY <1>0, <2>3, ActiveType, InterveneType, CountedType DEF RowTypeOK, RunState
  <1>11. CASE begin_remote_remediation
    <2>1. \/ run' = Intervene(run)
          \/ run' = Active([run EXCEPT !.remote = @ + 1], "REMEDIATING")
      BY <1>11 DEF begin_remote_remediation, ChangeState, BeginRemoteRemediation, Transition
    <2> QED
      BY <1>0, <2>1, ActiveType, InterveneType, CountedType DEF RowTypeOK, RunState
  <1>12. CASE bind_preparation_branch
    BY <1>0, <1>12, CountedType
       DEF RowTypeOK, bind_preparation_branch, ChangeState, BindBranch, NextVersion
  <1>13. CASE update_resource
    <2>1. PICK resource \in Resource : run' = WithResource(run, resource)
      BY <1>13 DEF update_resource, ChangeState
    <2>2. [run EXCEPT !.resource = resource] \in RunSnapshot
      BY <1>0 DEF RunSnapshot
    <2> QED
      BY <2>1, <2>2, CountedType DEF RowTypeOK, WithResource, NextVersion
  <1>14. CASE revalidate_candidate
    <2>1. run' = Active(Active(run, "REMEDIATING"), "VALIDATING")
      BY <1>14 DEF revalidate_candidate, ChangeState, Transition
    <2>2. "REMEDIATING" \in RunState /\ "VALIDATING" \in RunState
      BY DEF RunState
    <2> QED
      BY <1>0, <2>1, <2>2, ActiveType DEF RowTypeOK
  <1>15. CASE UNCHANGED run
    BY <1>15 DEF RowTypeOK
  <1> QED
    BY <1>1, <1>2, <1>3, <1>4, <1>5, <1>6, <1>7, <1>8, <1>9, <1>10, <1>11, <1>12, <1>13,
       <1>14, <1>15 DEF RowNext

\* A new run is a snapshot.
LEMMA InitType == RowInit => RowTypeOK
  BY NoContextType DEF RowInit, RowTypeOK, NewRun, RunSnapshot, RunState, Resource, NoResource,
     ResourceState

\* The row's columns keep their types under every repository operation.
THEOREM RowTyped == RowSpec => []RowTypeOK
  BY InitType, NextType, PTL DEF RowSpec


----------------------------------------------------------------------------
(* The row always decodes.                                                 *)

\* A step either pauses the run, or leaves its lifecycle columns alone, or
\* leaves it unpaused.
LEMMA StepKinds ==
    ASSUME RowTypeOK, RowNext
    PROVE  /\ RowDecodes(run) /\ RowConstraint(run')
           /\ \/ CanPause(run) /\ run' = Pause(run)
              \/ run'.susp = run.susp /\ run'.ctx = run.ctx /\ run'.state = run.state
              \/ run'.state # "PAUSED"
  <1>0. run \in RunSnapshot /\ run.state \in RunState
    BY DEF RowTypeOK, RunSnapshot
  <1>a. RowDecodes(run) /\ RowConstraint(run')
    BY DEF RowNext, ChangeState, transition, await_approval, approve_plan,
       prepare_plan_internally, restart_planning, intervene, resume_interrupted_work,
       resolve_intervention, pause, resume, begin_local_remediation,
       begin_remote_remediation, bind_preparation_branch, update_resource,
       revalidate_candidate
  <1>1. CASE transition
    <2>1. PICK target \in RunState : CanTransition(run, target) /\ run' = Active(run, target)
      BY <1>1 DEF transition, ChangeState, Transition
    <2>2. target # "PAUSED"
      BY <1>0, <2>1, LEGALType DEF CanTransition
    <2> QED
      BY <1>a, <2>1, <2>2, ActiveState
  <1>2. CASE await_approval
    <2>1. PICK gate \in ApprovalGate, digest \in Digests : run' = AwaitApproval(run, gate, digest)
      BY <1>2 DEF await_approval, ChangeState
    <2>2. run'.state = ApprovalStateByGate(gate)
      BY <2>1 DEF AwaitApproval, WithState
    <2> QED
      BY <1>a, <2>2, GateStates DEF ApprovalStates
  <1>3. CASE approve_plan \/ prepare_plan_internally
    <2>1. run' = Active(run, "PREPARING_WORKTREE")
      BY <1>3 DEF approve_plan, prepare_plan_internally, ChangeState, Transition
    <2> QED
      BY <1>a, <2>1, ActiveState
  <1>4. CASE restart_planning
    <2>1. run' = Active(run, "PLANNING")
      BY <1>4 DEF restart_planning, ChangeState, Transition
    <2> QED
      BY <1>a, <2>1, ActiveState
  <1>5. CASE intervene
    BY <1>a, <1>5, InterveneState DEF intervene, ChangeState
  <1>6. CASE resume_interrupted_work
    <2>1. run' = Active(run, run.susp) /\ run.susp # "PAUSED"
      BY <1>6 DEF resume_interrupted_work, ChangeState, ResumeInterruptedWork,
                  CanResumeInterruptedWork
    <2> QED
      BY <1>a, <2>1, ActiveState
  <1>7. CASE resolve_intervention
    <2>1. PICK target \in RunState :
            CanResolveIntervention(run, target) /\ run' = Active(run, target)
      BY <1>7 DEF resolve_intervention, ChangeState, ResolveIntervention
    <2>2. run.susp \in RunState /\ target \in LEGAL[run.susp]
      BY <1>0, <2>1 DEF CanResolveIntervention, RunSnapshot
    <2> QED
      BY <1>a, <2>1, <2>2, ActiveState, LEGALType
  <1>8. CASE pause
    BY <1>a, <1>8 DEF pause, ChangeState
  <1>9. CASE resume
    <2>1. CanResume(run) /\ run' = Resume(run)
      BY <1>9 DEF resume, ChangeState
    <2>2. run'.state = run.susp
      BY <2>1, ActiveState DEF CanResume, Resume, WithState
    <2> QED
      BY <1>a, <2>1, <2>2 DEF CanResume
  <1>10. CASE begin_local_remediation
    <2>1. PICK automatic \in BOOLEAN : run' = BeginLocalRemediation(run, automatic)
      BY <1>10 DEF begin_local_remediation, ChangeState
    <2>2. run.local \in Nat /\ LocalLimit \in Nat
      BY <1>0, LimitsAreNatural DEF RunSnapshot
    <2>3. run'.state \in {"REMEDIATING", "AWAITING_HUMAN_INTERVENTION"}
      BY <2>1, <2>2, ActiveState, InterveneState DEF BeginLocalRemediation, Transition
    <2> QED
      BY <1>a, <2>3
  <1>11. CASE begin_remote_remediation
    <2>1. run'.state \in {"REMEDIATING", "AWAITING_HUMAN_INTERVENTION"}
      BY <1>11, ActiveState, InterveneState
         DEF begin_remote_remediation, ChangeState, BeginRemoteRemediation, Transition
    <2> QED
      BY <1>a, <2>1
  <1>12. CASE bind_preparation_branch
    BY <1>0, <1>a, <1>12
       DEF bind_preparation_branch, ChangeState, BindBranch, NextVersion, RunSnapshot
  <1>13. CASE update_resource
    BY <1>0, <1>a, <1>13
       DEF update_resource, ChangeState, WithResource, NextVersion, RunSnapshot
  <1>14. CASE revalidate_candidate
    BY <1>a, <1>14, ActiveState DEF revalidate_candidate, ChangeState, Transition
  <1> QED
    BY <1>1, <1>2, <1>3, <1>4, <1>5, <1>6, <1>7, <1>8, <1>9, <1>10, <1>11, <1>12, <1>13,
       <1>14 DEF RowNext

\* Every operation leaves a row that decodes.
LEMMA NextLoads == RowTypeOK /\ Loadable /\ [RowNext]_run => Loadable'
  <1> SUFFICES ASSUME RowTypeOK, Loadable, [RowNext]_run PROVE Loadable'
    OBVIOUS
  <1>1. CASE UNCHANGED run
    BY <1>1 DEF Loadable, RowTypeOK
  <1>2. CASE RowNext
    <2>1. run \in RunSnapshot /\ run' \in RunSnapshot
      BY <1>2, NextType DEF RowTypeOK
    <2>2. run'.state = "PAUSED" => ContextDecodes(run')
      <3>1. CASE CanPause(run) /\ run' = Pause(run)
        BY <2>1, <3>1, PauseContextDecodes DEF Loadable
      <3>2. CASE run'.susp = run.susp /\ run'.ctx = run.ctx /\ run'.state = run.state
        BY <3>2 DEF Loadable, RowDecodes, ContextDecodes
      <3> QED
        BY <1>2, <3>1, <3>2, StepKinds
    <2> QED
      BY <1>2, <2>1, <2>2, StepKinds, ConstraintDecodes DEF Loadable, RowTypeOK
  <1> QED
    BY <1>1, <1>2

\* A new run decodes.
LEMMA InitLoads == RowInit => Loadable
  BY InitType DEF RowInit, Loadable, NewRun, RowDecodes, PendingShape, ApprovalStates

\* Every row reachable through the repository decodes: no sequence of
\* transitions, pauses, interventions and resumes makes a run unreadable.
THEOREM RowLoads == RowSpec => []Loadable
  <1>1. RowInit => RowTypeOK /\ Loadable
    BY InitType, InitLoads
  <1>2. RowTypeOK /\ Loadable /\ [RowNext]_run => RowTypeOK' /\ Loadable'
    BY NextType, NextLoads
  <1> QED
    BY <1>1, <1>2, PTL DEF RowSpec

----------------------------------------------------------------------------
(* What a step may write.                                                  *)

\* The step writes these lifecycle columns.
Writes(s, susp, kind, ctx, gate, digest) ==
    /\ run'.state = s /\ run'.susp = susp /\ run'.kind = kind
    /\ run'.ctx = ctx /\ run'.gate = gate /\ run'.digest = digest

WritesActive(s) == Writes(s, none, none, NoContext, none, none)

\* The forms a step takes, seen in the lifecycle columns.
Advances == \E t \in LEGAL[run.state] \ ApprovalStates : WritesActive(t)

OpensGate == \E g \in ApprovalGate, d \in Digests :
    /\ ApprovalStateByGate(g) \in LEGAL[run.state]
    /\ Writes(ApprovalStateByGate(g), none, none, NoContext, g, d)

Intervenes ==
    /\ CanIntervene(run)
    /\ Writes("AWAITING_HUMAN_INTERVENTION", run.state, "INTERVENTION", NoContext, none, none)

LeavesIntervention ==
    /\ run.state = "AWAITING_HUMAN_INTERVENTION"
    /\ \E t \in RunState \ (ApprovalStates \cup {"PAUSED", "AWAITING_HUMAN_INTERVENTION"}) :
         /\ t = run.susp \/ t \in LEGAL[run.susp]
         /\ t = "COMPLETED" => run.susp \notin {"MERGING", "COMPLETED"}
         /\ WritesActive(t)

Pauses == CanPause(run) /\ run' = Pause(run)

Resumes == CanResume(run) /\ run' = Resume(run)

KeepsLifecycle == Writes(run.state, run.susp, run.kind, run.ctx, run.gate, run.digest)

Revalidates ==
    /\ run.state = "AWAITING_PR_APPROVAL" /\ run'.version = run.version + 2
    /\ WritesActive("VALIDATING")

\* What the operations write in the lifecycle columns.
LEMMA Written ==
    /\ \A r, t : run' = Active(r, t) => WritesActive(t)
    /\ run' = Intervene(run) =>
         Writes("AWAITING_HUMAN_INTERVENTION", run.state, "INTERVENTION", NoContext, none, none)
    /\ \A g, d : run' = AwaitApproval(run, g, d) =>
         Writes(ApprovalStateByGate(g), none, none, NoContext, g, d)
  BY DEF Active, WithState, Intervene, AwaitApproval, Writes, WritesActive

\* Every step has one of the forms.
LEMMA StepForms ==
    ASSUME RowTypeOK, RowNext
    PROVE  \/ Advances \/ OpensGate \/ Intervenes \/ LeavesIntervention
           \/ Pauses \/ Resumes \/ KeepsLifecycle \/ Revalidates
  <1>0. run \in RunSnapshot /\ run.state \in RunState
    BY DEF RowTypeOK, RunSnapshot
  <1>a. RowConstraint(run')
    BY StepKinds
  <1>b. \A t : WritesActive(t) => t # "AWAITING_HUMAN_INTERVENTION"
    BY <1>a DEF RowConstraint, WritesActive, Writes, InterventionSourceStates, none
  <1>1. CASE transition
    BY <1>0, <1>1, Written DEF transition, ChangeState, Transition, CanTransition, Advances
  <1>2. CASE await_approval
    <2>1. PICK gate \in ApprovalGate, digest \in Digests :
            CanAwaitApproval(run, gate) /\ run' = AwaitApproval(run, gate, digest)
      BY <1>2 DEF await_approval, ChangeState
    <2>2. OpensGate
      BY <2>1, Written DEF OpensGate, CanAwaitApproval
    <2> QED
      BY <2>2
  <1>3. CASE approve_plan \/ prepare_plan_internally \/ restart_planning
    <2>1. PICK t \in {"PREPARING_WORKTREE", "PLANNING"} :
            t \in LEGAL[run.state] /\ run' = Active(run, t)
      BY <1>3, Edges DEF approve_plan, prepare_plan_internally, restart_planning, ChangeState,
                         Transition
    <2>2. t \notin ApprovalStates /\ WritesActive(t)
      BY <2>1, Written DEF ApprovalStates
    <2>3. Advances
      BY <2>1, <2>2 DEF Advances
    <2> QED
      BY <2>3
  <1>5. CASE intervene
    BY <1>5, Written DEF intervene, ChangeState, Intervenes
  <1>6. CASE resume_interrupted_work
    <2>1. /\ run' = Active(run, run.susp) /\ run.state = "AWAITING_HUMAN_INTERVENTION"
          /\ run.susp \in {"PLANNING", "IMPLEMENTING", "REMEDIATING"}
      BY <1>6 DEF resume_interrupted_work, ChangeState, ResumeInterruptedWork,
                  CanResumeInterruptedWork
    <2>2. LeavesIntervention
      BY <2>1, Written DEF LeavesIntervention, RunState, ApprovalStates
    <2> QED
      BY <2>2
  <1>7. CASE resolve_intervention
    <2>1. PICK target \in RunState :
            CanResolveIntervention(run, target) /\ run' = Active(run, target)
      BY <1>7 DEF resolve_intervention, ChangeState, ResolveIntervention
    <2>2. run.susp \in RunState /\ target \in LEGAL[run.susp]
      BY <1>0, <2>1 DEF CanResolveIntervention, RunSnapshot
    <2>3. target # "PAUSED" /\ (target = "COMPLETED" => run.susp \notin {"MERGING", "COMPLETED"})
      BY <2>1, <2>2, LEGALType, Edges DEF CanResolveIntervention
    <2>4. WritesActive(target)
      BY <2>1, Written
    <2>5. LeavesIntervention
      BY <2>1, <2>2, <2>3, <2>4 DEF LeavesIntervention, CanResolveIntervention
    <2> QED
      BY <2>5
  <1>8. CASE pause
    BY <1>8 DEF pause, ChangeState, Pauses
  <1>9. CASE resume
    BY <1>9 DEF resume, ChangeState, Resumes
  <1>10. CASE begin_local_remediation \/ begin_remote_remediation
    <2>1. run.state \in {"VALIDATING", "REVIEWING", "AWAITING_PR_APPROVAL", "MONITORING_PR"}
      BY <1>10 DEF begin_local_remediation, begin_remote_remediation, CanBeginLocalRemediation,
                   CanBeginRemoteRemediation
    <2>2. run.local \in Nat /\ LocalLimit \in Nat
      BY <1>0, LimitsAreNatural DEF RunSnapshot
    <2>3. \/ run' = Intervene(run)
          \/ \E r : run' = Active(r, "REMEDIATING")
      BY <1>10, <2>2 DEF begin_local_remediation, begin_remote_remediation, ChangeState,
                         BeginLocalRemediation, BeginRemoteRemediation, Transition
    <2>4. CASE run' = Intervene(run)
      BY <2>1, <2>4, Written, RemediationSources DEF Intervenes, CanIntervene
    <2>5. CASE WritesActive("REMEDIATING")
      BY <2>1, <2>5, RemediationSources DEF Advances, ApprovalStates
    <2> QED
      BY <2>3, <2>4, <2>5, Written
  <1>12. CASE bind_preparation_branch
    BY <1>0, <1>12 DEF bind_preparation_branch, ChangeState, BindBranch, NextVersion,
                       RunSnapshot, KeepsLifecycle, Writes
  <1>13. CASE update_resource
    BY <1>0, <1>13 DEF update_resource, ChangeState, WithResource, NextVersion, RunSnapshot,
                       KeepsLifecycle, Writes
  <1>14. CASE revalidate_candidate
    <2>1. /\ run.state = "AWAITING_PR_APPROVAL"
          /\ run' = Active(Active(run, "REMEDIATING"), "VALIDATING")
      BY <1>14 DEF revalidate_candidate, ChangeState, Transition
    <2>2. run'.version = run.version + 2
      BY <1>0, <2>1 DEF Active, WithState, RunSnapshot
    <2> QED
      BY <2>1, <2>2, Written DEF Revalidates
  <1> QED
    BY <1>1, <1>2, <1>3, <1>5, <1>6, <1>7, <1>8, <1>9, <1>10, <1>12, <1>13, <1>14 DEF RowNext

----------------------------------------------------------------------------
(* Suspensions can be entered and undone.                                  *)

\* What the decoder leaves of a row in each of the three kinds of state.
LEMMA DecodedColumns ==
    ASSUME Loadable
    PROVE  /\ run \in RunSnapshot /\ run.state \in RunState
           /\ PendingShape(run.state, run.gate, run.digest)
           /\ run.state # "PAUSED" => run.ctx = NoContext
           /\ run.state = "PAUSED" =>
                /\ run.susp \in RunState \ (TerminalStates \cup {"PAUSED"})
                /\ run.kind = "PAUSE" /\ run.ctx # NoContext /\ ContextDecodes(run)
                /\ run.ctx.state = run.susp
           /\ run.state = "AWAITING_HUMAN_INTERVENTION" =>
                /\ run.susp \in InterventionSourceStates /\ run.kind = "INTERVENTION"
                /\ run.susp \in RunState
           /\ run.state \notin {"PAUSED", "AWAITING_HUMAN_INTERVENTION"} =>
                run.susp = none /\ run.kind = none
  <1>1. run \in RunSnapshot /\ run.state \in RunState
    BY DEF Loadable, RowTypeOK, RunSnapshot
  <1>2. run.susp \in RunState \cup {none}
    BY <1>1 DEF RunSnapshot
  <1>3. run.state = "AWAITING_HUMAN_INTERVENTION" =>
          run.susp \in RunState /\ run.susp \in InterventionSourceStates
    BY <1>2, InterventionSources DEF Loadable, RowDecodes
  <1>4. run.state = "PAUSED" => run.ctx.state = run.susp
    BY DEF Loadable, RowDecodes, ContextDecodes
  <1> QED
    BY <1>1, <1>2, <1>3, <1>4 DEF Loadable, RowDecodes

\* The table accepts every pause, intervention and resume the engine allows.
LEMMA SuspensionAccepted == Loadable => SuspensionNeverRefused
  <1> SUFFICES ASSUME Loadable PROVE SuspensionNeverRefused
    OBVIOUS
  <1>1. Decoded(run) /\ run \in RunSnapshot
    BY DEF Loadable, RowTypeOK, Decoded
  <1> QED
    BY <1>1, PauseStorable, InterventionStorable, ResumeStorable
       DEF SuspensionNeverRefused, Storable

\* What a step does around a pause (the action of PauseTransparent).
LEMMA PauseStep ==
    ASSUME Loadable, RowNext
    PROVE  /\ run.state # "PAUSED" /\ run'.state = "PAUSED"
                => Lifecycle(Resume(run')) = Lifecycle(run)
           /\ run.state = "PAUSED" =>
                \/ Lifecycle(run') = Lifecycle(run)
                \/ Lifecycle(run') = Lifecycle(Resume(run))
                \/ run'.state = "CANCELLED"
  <1>0. RowTypeOK
    BY DEF Loadable
  <1>1. ASSUME run.state # "PAUSED", run'.state = "PAUSED"
        PROVE  Lifecycle(Resume(run')) = Lifecycle(run)
    <2>1. \/ Pauses
          \/ \E t \in LEGAL[run.state] : run'.state = t
      <3>1. "PAUSED" \notin {"AWAITING_HUMAN_INTERVENTION", "VALIDATING"} \cup ApprovalStates
        BY DEF ApprovalStates
      <3>2. ~ OpensGate /\ ~ Intervenes /\ ~ LeavesIntervention /\ ~ KeepsLifecycle /\ ~ Revalidates
        BY <1>1, <3>1, GateStates
           DEF OpensGate, Intervenes, LeavesIntervention, KeepsLifecycle, Revalidates, Writes,
               WritesActive
      <3>3. ~ Resumes
        BY <1>1 DEF Resumes, CanResume
      <3> QED
        BY <1>0, <3>2, <3>3, StepForms DEF Advances, WritesActive, Writes
    <2>2. Pauses
      BY <1>1, <2>1, DecodedColumns, LEGALType
    <2>3. run'.ctx = [state |-> run.state, susp |-> run.susp, kind |-> run.kind,
                      gate |-> run.gate, digest |-> run.digest]
      BY <2>2 DEF Pauses, Pause, WithState
    <2>4. run'.ctx # NoContext
      BY <2>3, DecodedColumns DEF NoContext, RunState, none, ApprovalStates, TerminalStates
    <2>5. Lifecycle(Resume(run')) =
            <<run'.ctx.state, run'.ctx.susp, run'.ctx.kind, NoContext, run'.ctx.gate,
              run'.ctx.digest>>
      BY <2>4 DEF Lifecycle, Resume, WithState
    <2>6. run.ctx = NoContext
      BY <1>1, DecodedColumns
    <2> QED
      BY <2>3, <2>5, <2>6 DEF Lifecycle
  <1>2. ASSUME run.state = "PAUSED"
        PROVE  \/ Lifecycle(run') = Lifecycle(run)
               \/ Lifecycle(run') = Lifecycle(Resume(run))
               \/ run'.state = "CANCELLED"
    <2>1. ~ OpensGate
      BY <1>2, Edges, GateStates DEF OpensGate, ApprovalStates
    <2>2. ~ Intervenes /\ ~ LeavesIntervention /\ ~ Pauses /\ ~ Revalidates
      BY <1>2 DEF Intervenes, CanIntervene, LeavesIntervention, Pauses, CanPause, Revalidates
    <2>3. Advances => run'.state = "CANCELLED"
      BY <1>2, Edges DEF Advances, WritesActive, Writes
    <2> QED
      BY <1>0, <2>1, <2>2, <2>3, StepForms DEF Resumes, KeepsLifecycle, Writes, Lifecycle
  <1> QED
    BY <1>1, <1>2

\* A live run can always be paused, a failing one always be handed to a human,
\* a paused one always be resumed, and a resume gives back what was paused.
THEOREM SuspensionsAlwaysReversible == RowSpec => SuspensionsReversible
  <1>1. Loadable /\ [RowNext]_run =>
          [/\ run.state # "PAUSED" /\ run'.state = "PAUSED"
                => Lifecycle(Resume(run')) = Lifecycle(run)
           /\ run.state = "PAUSED" =>
                \/ Lifecycle(run') = Lifecycle(run)
                \/ Lifecycle(run') = Lifecycle(Resume(run))
                \/ run'.state = "CANCELLED"]_run
    BY PauseStep
  <1> QED
    BY <1>1, RowLoads, SuspensionAccepted, PTL
       DEF RowSpec, SuspensionsReversible, PauseTransparent

----------------------------------------------------------------------------
(* The life of a run seen through its suspensions.                         *)

\* The phase of a row in each of its states.
LEMMA Phases ==
    ASSUME NEW r
    PROVE  /\ r.state \notin {"PAUSED", "AWAITING_HUMAN_INTERVENTION"} => Phase(r) = r.state
           /\ r.state = "AWAITING_HUMAN_INTERVENTION" => Phase(r) = r.susp
           /\ r.state = "PAUSED" /\ r.susp = "AWAITING_HUMAN_INTERVENTION" => Phase(r) = r.ctx.susp
           /\ r.state = "PAUSED" /\ r.susp # "AWAITING_HUMAN_INTERVENTION" => Phase(r) = r.susp
  BY DEF Phase

\* Pausing and resuming leave the phase and the pending evidence as they were.
LEMMA SuspensionKeepsPhase ==
    ASSUME Loadable, Pauses \/ Resumes
    PROVE  Phase(run') = Phase(run) /\ PendingDigest(run') = PendingDigest(run)
           /\ run'.state # "COMPLETED"
  <1>1. CASE Pauses
    <2>1. /\ run'.state = "PAUSED" /\ run'.susp = run.state
          /\ run'.ctx.susp = run.susp /\ run'.ctx.digest = run.digest
      BY <1>1 DEF Pauses, Pause, WithState
    <2>2. run.state # "PAUSED"
      BY <1>1 DEF Pauses, CanPause
    <2> QED
      BY <2>1, <2>2, Phases DEF PendingDigest
  <1>2. CASE Resumes
    <2>1. run.state = "PAUSED"
      BY <1>2 DEF Resumes, CanResume
    <2>2. run.ctx # NoContext /\ run.ctx.state = run.susp
          /\ run.susp \notin TerminalStates \cup {"PAUSED"}
      BY <2>1, DecodedColumns
    <2>3. run'.state = run.susp /\ run'.susp = run.ctx.susp /\ run'.digest = run.ctx.digest
      BY <1>2, <2>2 DEF Resumes, Resume, WithState
    <2> QED
      BY <2>1, <2>2, <2>3, Phases DEF PendingDigest, TerminalStates
  <1> QED
    BY <1>1, <1>2

\* Where each other form of step takes the phase.
LEMMA PhaseStep ==
    ASSUME Loadable, RowNext, ~ Pauses, ~ Resumes
    PROVE  /\ \/ Phase(run') = Phase(run)
              \/ Phase(run') \in LEGAL[Phase(run)]
              \/ /\ run'.version = run.version + 2
                 /\ \E between \in LEGAL[Phase(run)] : Phase(run') \in LEGAL[between]
              \/ Phase(run') \in {"CANCELLED", "FAILED"}
           /\ Phase(run) \in ApprovalStates /\ Phase(run') = Phase(run)
                => PendingDigest(run') \in {PendingDigest(run), none}
           /\ run'.state = "COMPLETED" => run.state \in {"MERGING", "COMPLETED"}
  <1>0. RowTypeOK /\ run.state \in RunState
    BY DecodedColumns DEF Loadable
  <1>a. RowConstraint(run')
    BY <1>0, StepKinds
  <1>1. CASE Advances
    <2>1. PICK t \in LEGAL[run.state] \ ApprovalStates : WritesActive(t)
      BY <1>1 DEF Advances
    <2>2. run'.state = t /\ t # "PAUSED" /\ run'.digest = none /\ run'.susp = none
      BY <1>0, <2>1, LEGALType DEF WritesActive, Writes
    <2>3. t # "AWAITING_HUMAN_INTERVENTION"
      BY <1>a, <2>2 DEF RowConstraint, InterventionSourceStates, none
    <2>4. Phase(run') = t /\ PendingDigest(run') = none
      BY <2>2, <2>3, Phases DEF PendingDigest
    <2>5. CASE run.state \in {"PAUSED", "AWAITING_HUMAN_INTERVENTION"}
      <3>1. t \in {"CANCELLED", "FAILED"}
        BY <2>1, <2>5, Edges
      <3> QED
        BY <2>2, <2>4, <3>1
    <2>6. CASE run.state \notin {"PAUSED", "AWAITING_HUMAN_INTERVENTION"}
      <3>1. Phase(run) = run.state
        BY <2>6, Phases
      <3> QED
        BY <1>0, <2>1, <2>2, <2>4, <3>1, Edges
    <2> QED
      BY <2>5, <2>6
  <1>2. CASE OpensGate
    <2>1. PICK g \in ApprovalGate, d \in Digests :
            /\ ApprovalStateByGate(g) \in LEGAL[run.state]
            /\ Writes(ApprovalStateByGate(g), none, none, NoContext, g, d)
      BY <1>2 DEF OpensGate
    <2>2. run'.state = ApprovalStateByGate(g) /\ run'.state \in ApprovalStates
      BY <2>1, GateStates DEF Writes
    <2>3. Phase(run') = run'.state /\ run'.state # "COMPLETED"
      BY <2>2, Phases DEF ApprovalStates
    <2>4. run.state \notin {"PAUSED", "AWAITING_HUMAN_INTERVENTION"}
      BY <2>1, <2>2, Edges DEF ApprovalStates
    <2>5. Phase(run) = run.state
      BY <2>4, Phases
    <2> QED
      BY <1>0, <2>1, <2>2, <2>3, <2>5, Edges
  <1>3. CASE Intervenes
    <2>1. /\ run'.state = "AWAITING_HUMAN_INTERVENTION" /\ run'.susp = run.state
          /\ run'.digest = none
          /\ run.state \notin {"PAUSED", "AWAITING_HUMAN_INTERVENTION"}
      BY <1>3 DEF Intervenes, Writes, CanIntervene
    <2> QED
      BY <2>1, Phases DEF PendingDigest
  <1>4. CASE LeavesIntervention
    <2>1. PICK t \in RunState \ (ApprovalStates \cup {"PAUSED", "AWAITING_HUMAN_INTERVENTION"}) :
            /\ t = run.susp \/ t \in LEGAL[run.susp]
            /\ t = "COMPLETED" => run.susp \notin {"MERGING", "COMPLETED"}
            /\ WritesActive(t)
      BY <1>4 DEF LeavesIntervention
    <2>2. run.state = "AWAITING_HUMAN_INTERVENTION" /\ Phase(run) = run.susp
          /\ run.susp \in RunState
      BY <1>4, Phases, DecodedColumns DEF LeavesIntervention
    <2>3. run'.state = t /\ Phase(run') = t
      BY <2>1, Phases DEF WritesActive, Writes
    <2>4. t # "COMPLETED"
      BY <2>1, <2>2, Edges
    <2> QED
      BY <2>1, <2>2, <2>3, <2>4
  <1>5. CASE KeepsLifecycle
    <2>1. run'.state = run.state /\ run'.susp = run.susp /\ run'.ctx = run.ctx
          /\ run'.digest = run.digest
      BY <1>5 DEF KeepsLifecycle, Writes
    <2>2. Phase(run') = Phase(run) /\ PendingDigest(run') = PendingDigest(run)
      BY <2>1 DEF Phase, PendingDigest
    <2>3. run'.state = "COMPLETED" => run.state \in {"MERGING", "COMPLETED"}
      BY <2>1
    <2> QED
      BY <2>2, <2>3
  <1>6. CASE Revalidates
    <2>1. /\ run.state = "AWAITING_PR_APPROVAL" /\ run'.state = "VALIDATING"
          /\ run'.version = run.version + 2
      BY <1>6 DEF Revalidates, WritesActive, Writes
    <2>2. Phase(run) = "AWAITING_PR_APPROVAL" /\ Phase(run') = "VALIDATING"
      BY <2>1, Phases
    <2> QED
      BY <2>1, <2>2, Edges
  <1> QED
    BY <1>0, <1>1, <1>2, <1>3, <1>4, <1>5, <1>6, StepForms

\* Phases follow the legal graph through every detour, evidence stays put at
\* its gate, and only a live merge completes a run.
THEOREM LifecycleAlwaysLegal == RowSpec => LifecycleLegal
  <1>1. Loadable /\ [RowNext]_run =>
          /\ [\/ Phase(run') = Phase(run)
              \/ Phase(run') \in LEGAL[Phase(run)]
              \/ run'.version = run.version + 2
                   /\ \E between \in LEGAL[Phase(run)] : Phase(run') \in LEGAL[between]
              \/ Phase(run') \in {"CANCELLED", "FAILED"}]_run
          /\ [Phase(run) \in ApprovalStates /\ Phase(run') = Phase(run)
                => PendingDigest(run') \in {PendingDigest(run), none}]_run
          /\ [run'.state = "COMPLETED" => run.state \in {"MERGING", "COMPLETED"}]_run
    BY PhaseStep, SuspensionKeepsPhase
  <1> QED
    BY <1>1, RowLoads, PTL
       DEF RowSpec, LifecycleLegal, PhasesFollowLEGAL, EvidenceStable, CompletedFromMerging

----------------------------------------------------------------------------
(* Remediations are bounded.                                               *)

\* No operation but the two remediations touches the counters, and those count
\* one remediation below the limit.
LEMMA Counters ==
    ASSUME RowTypeOK, RowNext
    PROVE  /\ run'.local = run.local \/ (run.local < LocalLimit /\ run'.local = run.local + 1)
           /\ run'.remote = run.remote \/ (run.remote < RemoteLimit /\ run'.remote = run.remote + 1)
  <1>0. /\ run \in RunSnapshot /\ run.local \in Nat /\ run.remote \in Nat
        /\ LocalLimit \in Nat /\ RemoteLimit \in Nat
    BY LimitsAreNatural DEF RowTypeOK, RunSnapshot
  <1>1. CASE begin_local_remediation
    <2>1. PICK automatic \in BOOLEAN : run' = BeginLocalRemediation(run, automatic)
      BY <1>1 DEF begin_local_remediation, ChangeState
    <2>2. CASE ~ automatic
      BY <2>1, <2>2 DEF BeginLocalRemediation, Transition, Active, WithState
    <2>3. CASE automatic /\ run.local >= LocalLimit
      BY <1>0, <2>1, <2>3 DEF BeginLocalRemediation, Intervene, WithState
    <2>4. CASE automatic /\ run.local < LocalLimit
      BY <1>0, <2>1, <2>4 DEF BeginLocalRemediation, Transition, Active, WithState, RunSnapshot
    <2> QED
      BY <1>0, <2>2, <2>3, <2>4
  <1>2. CASE begin_remote_remediation
    BY <1>0, <1>2 DEF begin_remote_remediation, ChangeState, BeginRemoteRemediation, Transition,
                      Intervene, Active, WithState, RunSnapshot
  <1>3. CASE bind_preparation_branch \/ update_resource
    BY <1>0, <1>3 DEF bind_preparation_branch, update_resource, ChangeState, BindBranch,
                      WithResource, NextVersion, RunSnapshot
  <1>4. CASE resume
    BY <1>4 DEF resume, ChangeState, Resume, Active, WithState
  <1>5. CASE pause \/ intervene
    BY <1>5 DEF pause, intervene, ChangeState, Pause, Intervene, WithState
  <1>8. CASE await_approval
    BY <1>8 DEF await_approval, ChangeState, AwaitApproval, WithState
  <1>6. CASE approve_plan \/ prepare_plan_internally \/ restart_planning
    BY <1>6 DEF approve_plan, prepare_plan_internally, restart_planning, ChangeState,
                Transition, Active, WithState
  <1>7. CASE transition \/ resume_interrupted_work \/ resolve_intervention
    <2>1. \E t : run' = Active(run, t)
      BY <1>7 DEF transition, resume_interrupted_work, resolve_intervention, ChangeState,
                  Transition, ResumeInterruptedWork, ResolveIntervention
    <2> QED
      BY <2>1 DEF Active, WithState
  <1>9. CASE revalidate_candidate
    BY <1>9 DEF revalidate_candidate, ChangeState, Transition, Active, WithState
  <1> QED
    BY <1>1, <1>2, <1>3, <1>4, <1>5, <1>6, <1>7, <1>8, <1>9 DEF RowNext

\* The policy's limits hold however remediations, human or automatic, and
\* suspensions interleave.
THEOREM RemediationAlwaysBounded == RowSpec => []RemediationBounded
  <1>1. RowInit => RemediationBounded
    BY LimitsAreNatural DEF RowInit, NewRun, RemediationBounded
  <1>2. RowTypeOK /\ RemediationBounded /\ [RowNext]_run => RemediationBounded'
    <2> SUFFICES ASSUME RowTypeOK, RemediationBounded, RowNext PROVE RemediationBounded'
      BY DEF RemediationBounded
    <2> QED
      BY Counters, LimitsAreNatural DEF RemediationBounded, RowTypeOK, RunSnapshot
  <1> QED
    BY <1>1, <1>2, RowTyped, PTL DEF RowSpec

----------------------------------------------------------------------------
(* The queue as a sequence of rows.                                        *)

\* The elements of a set of positions can be counted off in order: some
\* position is the n-th of them.
LEMMA NthPosition ==
    ASSUME NEW L \in Nat, NEW K \in SUBSET (1..L), NEW n \in 1..Cardinality(K)
    PROVE  \E i \in K : Cardinality({j \in K : j <= i}) = n
  <1> DEFINE upto(m) == {j \in K : j <= m}
             T == {m \in Nat : Cardinality(upto(m)) >= n}
  <1>0. \A j \in K : j \in Nat /\ 1 <= j /\ j <= L
    OBVIOUS
  <1>1. IsFiniteSet(K) /\ Cardinality(K) \in Nat /\ n \in Nat /\ n >= 1
    <2>1. IsFiniteSet(1..L)
      BY FS_Interval
    <2>2. IsFiniteSet(K)
      BY <2>1, FS_Subset
    <2> QED
      BY <2>2, FS_CardinalityType
  <1>2. \A m \in Nat : IsFiniteSet(upto(m)) /\ Cardinality(upto(m)) \in Nat
    <2> TAKE m \in Nat
    <2>1. upto(m) \in SUBSET K
      OBVIOUS
    <2>2. IsFiniteSet(upto(m))
      BY <1>1, <2>1, FS_Subset
    <2> QED
      BY <2>2, FS_CardinalityType
  <1>3. L \in T
    <2>1. upto(L) = K
      BY <1>0
    <2> QED
      BY <1>1, <2>1
  <1>4. PICK m \in T : \A k \in T : ~ (k < m)
    <2>1. T \subseteq Nat /\ T # {}
      BY <1>3
    <2> HIDE DEF T
    <2>2. PICK m \in T : \A k \in T : ~ (<<k, m>> \in OpToRel(<, Nat))
      BY <2>1, WFMin, NatLessThanWellFounded
    <2>3. \A k \in T : ~ (k < m)
      BY <2>1, <2>2 DEF OpToRel
    <2> QED
      BY <2>3
  <1>5. m \in Nat /\ Cardinality(upto(m)) >= n
    OBVIOUS
  <1>6. m # 0
    <2>0. \A j \in K : ~ (j <= 0)
      BY <1>0
    <2>1. upto(0) = {}
      BY <2>0
    <2>2. Cardinality(upto(0)) = 0
      BY <2>1, FS_EmptySet
    <2> QED
      BY <1>1, <1>5, <2>2
  <1>7. m - 1 \in Nat /\ m - 1 < m
    BY <1>5, <1>6
  <1>8. ~ (Cardinality(upto(m - 1)) >= n)
    BY <1>4, <1>7
  <1>9. m \in K
    <2> SUFFICES ASSUME m \notin K PROVE FALSE
      OBVIOUS
    <2>1. \A j \in K : j <= m <=> j <= m - 1
      BY <1>0, <1>5, <1>7
    <2>2. upto(m) = upto(m - 1)
      BY <2>1
    <2> QED
      BY <1>5, <1>8, <2>2
  <1>10. upto(m) = upto(m - 1) \cup {m} /\ m \notin upto(m - 1)
    <2>1. \A j \in K : j <= m <=> j <= m - 1 \/ j = m
      BY <1>0, <1>5, <1>7
    <2>2. ~ (m <= m - 1)
      BY <1>5
    <2> QED
      BY <1>5, <1>9, <2>1, <2>2
  <1>11. Cardinality(upto(m)) = Cardinality(upto(m - 1)) + 1
    <2>1. IsFiniteSet(upto(m - 1))
      BY <1>2, <1>7
    <2> HIDE DEF upto
    <2> QED
      BY <1>10, <2>1, FS_AddElement
  <1>12. Cardinality(upto(m)) \in Nat /\ Cardinality(upto(m - 1)) \in Nat
    BY <1>2, <1>5, <1>7
  <1>13. Cardinality(upto(m)) = n
    <2> HIDE DEF upto
    <2> QED
      BY <1>1, <1>5, <1>8, <1>11, <1>12
  <1> QED
    BY <1>9, <1>13

\* What is left of the queue are rows of it.
LEMMA KeptRows ==
    ASSUME NEW T, NEW seq \in Seq(T), NEW S, NEW changed
    PROVE  /\ Keep(seq, S, changed) \in Seq(T)
           /\ \A n \in DOMAIN Keep(seq, S, changed) :
                \E i \in DOMAIN seq : Keep(seq, S, changed)[n] = seq[i]
  <1> DEFINE stays(i) == /\ i \notin S
                         /\ seq[i].status = "FAILED" => Phase(changed) = Phase(run)
                         /\ seq[i].status = "STOPPED" => changed.version = run.version
             kept == {i \in DOMAIN seq : stays(i)}
             pos(n) == CHOOSE i \in kept : Cardinality({j \in kept : j <= i}) = n
             q == [n \in 1..Cardinality(kept) |-> seq[pos(n)]]
  <1>1. Len(seq) \in Nat /\ DOMAIN seq = 1..Len(seq)
    OBVIOUS
  <1>2. kept \in SUBSET (1..Len(seq))
    BY <1>1
  <1>3. Cardinality(kept) \in Nat
    <2>1. IsFiniteSet(1..Len(seq))
      BY <1>1, FS_Interval
    <2>2. IsFiniteSet(kept)
      BY <1>2, <2>1, FS_Subset
    <2> QED
      BY <2>2, FS_CardinalityType
  <1>4. \A n \in 1..Cardinality(kept) : pos(n) \in kept
    <2> HIDE DEF kept
    <2> TAKE n \in 1..Cardinality(kept)
    <2>1. \E i \in kept : Cardinality({j \in kept : j <= i}) = n
      BY <1>1, <1>2, NthPosition
    <2> QED
      BY <2>1
  <1>5. \A n \in 1..Cardinality(kept) : pos(n) \in DOMAIN seq
    BY <1>2, <1>4, <1>1
  <1> HIDE DEF kept, pos
  <1>6. \A n \in 1..Cardinality(kept) : q[n] = seq[pos(n)] /\ seq[pos(n)] \in T
    BY <1>1, <1>5
  <1>7. q \in Seq(T) /\ DOMAIN q = 1..Cardinality(kept)
    BY <1>3, <1>6
  <1>8. Keep(seq, S, changed) = q
    BY DEF Keep, kept, pos
  <1> HIDE DEF q
  <1> QED
    BY <1>5, <1>6, <1>7, <1>8

----------------------------------------------------------------------------
(* The inductive invariant.                                                *)

\* A row of the queue fits the run's row: it is of a version the run has had,
\* it is decided at most once and then at a later version than its own, and a
\* control of the run as it is now stops a run that can be stopped.
Fits(c, r) ==
    /\ c.version <= r.version
    /\ c.work # "twice"
    /\ c.result # 0 => /\ c.work \in {"applied", "redelivered"}
                       /\ c.version < c.result /\ c.result <= r.version
    /\ c.type \in ControlTypes /\ c.version = r.version => r.state \notin TerminalStates

Queue(q, r) == q \in Seq(CommandRow) /\ \A i \in DOMAIN q : Fits(q[i], r)

\* The run's row decodes, and nothing is provisioned before a branch is bound.
RowInv(r) == Decoded(r) /\ (~ r.bound => r.resource = NoResource)

Inv ==
    /\ RowInv(run)
    /\ Queue(cmds, run)
    /\ head \in Digests
    /\ approved \in Digests \cup {none}
    /\ requests \in 0..MaxRequests
    /\ drift \in 0..MaxDrift

\* What is left of a fitting queue fits.
LEMMA KeptFits ==
    ASSUME NEW q, NEW r, Queue(q, r), NEW S, NEW changed
    PROVE  Queue(Keep(q, S, changed), r)
  <1>1. q \in Seq(CommandRow)
    BY DEF Queue
  <1>2. /\ Keep(q, S, changed) \in Seq(CommandRow)
        /\ \A n \in DOMAIN Keep(q, S, changed) :
             \E i \in DOMAIN q : Keep(q, S, changed)[n] = q[i]
    BY <1>1, KeptRows
  <1> QED
    BY <1>2 DEF Queue

\* So does one with a row replaced by a fitting one,
LEMMA SetFits ==
    ASSUME NEW r, Queue(cmds, r), NEW i \in DOMAIN cmds, NEW c \in CommandRow, Fits(c, r)
    PROVE  Queue(Set(i, c), r)
  <1>1. cmds \in Seq(CommandRow)
    BY DEF Queue
  <1>2. Set(i, c) \in Seq(CommandRow) /\ DOMAIN Set(i, c) = DOMAIN cmds
    BY <1>1 DEF Set
  <1>3. \A j \in DOMAIN cmds : Set(i, c)[j] = IF j = i THEN c ELSE cmds[j]
    BY <1>1 DEF Set
  <1> QED
    BY <1>2, <1>3 DEF Queue

\* or followed by a fitting one.
LEMMA ConcatFits ==
    ASSUME NEW p, NEW q, NEW r, Queue(p, r), Queue(q, r)
    PROVE  Queue(p \o q, r)
  <1>1. p \in Seq(CommandRow) /\ q \in Seq(CommandRow)
    BY DEF Queue
  <1>2. p \o q \in Seq(CommandRow) /\ Len(p \o q) = Len(p) + Len(q)
        /\ Len(p) \in Nat /\ Len(q) \in Nat
    BY <1>1
  <1>3. ASSUME NEW j \in DOMAIN (p \o q) PROVE Fits((p \o q)[j], r)
    <2>1. j \in 1..(Len(p) + Len(q))
      BY <1>1, <1>2
    <2>2. CASE j <= Len(p)
      <3>1. (p \o q)[j] = p[j] /\ j \in DOMAIN p
        BY <1>1, <1>2, <2>1, <2>2
      <3> QED
        BY <3>1 DEF Queue
    <2>3. CASE j > Len(p)
      <3>1. (p \o q)[j] = q[j - Len(p)] /\ j - Len(p) \in DOMAIN q
        BY <1>1, <1>2, <2>1, <2>3
      <3> QED
        BY <3>1 DEF Queue
    <2> QED
      BY <1>2, <2>1, <2>2, <2>3
  <1> QED
    BY <1>2, <1>3 DEF Queue

\* When the run's version moves, the rows are those of earlier versions.
LEMMA LaterFits ==
    ASSUME NEW q, NEW r \in RunSnapshot, NEW changed \in RunSnapshot,
           Queue(q, r), r.version < changed.version
    PROVE  Queue(q, changed)
  <1>1. r.version \in Nat /\ changed.version \in Nat
    BY DEF RunSnapshot
  <1>2. ASSUME NEW i \in DOMAIN q PROVE Fits(q[i], changed)
    <2>1. q[i] \in CommandRow /\ Fits(q[i], r)
      BY DEF Queue
    <2>2. q[i].version \in Nat /\ q[i].result \in Nat
      BY <2>1 DEF CommandRow
    <2>3. q[i].version < changed.version
      BY <1>1, <2>1, <2>2 DEF Fits
    <2> QED
      BY <1>1, <2>1, <2>2, <2>3 DEF Fits
  <1> QED
    BY <1>2 DEF Queue

\* One new command, of a type that stops nothing.
LEMMA NewFits ==
    ASSUME NEW r \in RunSnapshot, NEW type \in CommandTypes, NEW digest \in Digests \cup {none},
           type \in ControlTypes => r.state \notin TerminalStates
    PROVE  Queue(<<Command(type, r.version, digest)>>, r)
  <1> DEFINE c == Command(type, r.version, digest)
  <1>1. r.version \in Nat
    BY DEF RunSnapshot
  <1>2. c \in CommandRow
    BY <1>1 DEF Command, CommandRow, Status, Work
  <1>3. Fits(c, r)
    BY <1>1 DEF Command, Fits
  <1> HIDE DEF c
  <1> QED
    BY <1>2, <1>3 DEF Queue, c

----------------------------------------------------------------------------
(* The handlers write rows as RunRow promises.                             *)

\* The run may be taken to c: the row decodes, its version moves, and RunRow
\* has a step that writes it.
Lawful(c) ==
    /\ RowInv(c)
    /\ c.version > run.version
    /\ run' = c => RowNext

\* What with_state leaves alone.
LEMMA WithStateColumns ==
    ASSUME NEW r \in RunSnapshot, NEW s, NEW susp, NEW kind, NEW ctx, NEW gate, NEW digest
    PROVE  LET c == WithState(r, s, susp, kind, ctx, gate, digest)
           IN  /\ c.version = r.version + 1 /\ c.version > r.version /\ c.version \in Nat
               /\ c.bound = r.bound /\ c.resource = r.resource
  BY DEF WithState, RunSnapshot

\* A legal transition to a working or a terminal state.
LEMMA MoveLawful ==
    ASSUME RowInv(run), NEW t \in LEGAL[run.state],
           t \notin ApprovalStates \cup {"AWAITING_HUMAN_INTERVENTION"}
    PROVE  Lawful(Transition(run, t)) /\ Transition(run, t).version = run.version + 1
  <1>1. run \in RunSnapshot /\ run.state \in RunState /\ RowDecodes(run)
    BY DEF RowInv, Decoded, RunSnapshot
  <1>2. t \in RunState \ (ApprovalStates \cup {"PAUSED", "AWAITING_HUMAN_INTERVENTION"})
    BY <1>1, LEGALType
  <1>3. Storable(Transition(run, t))
    BY <1>1, <1>2, ActiveStorable DEF Transition
  <1>4. /\ Transition(run, t).version = run.version + 1
        /\ Transition(run, t).version > run.version
        /\ Transition(run, t).bound = run.bound /\ Transition(run, t).resource = run.resource
    BY <1>1, WithStateColumns DEF Transition, Active
  <1>5. RowInv(Transition(run, t))
    BY <1>3, <1>4 DEF RowInv, Storable
  <1>6. ASSUME run' = Transition(run, t) PROVE RowNext
    <2>1. CanTransition(run, t)
      BY <1>2 DEF CanTransition
    <2>2. ChangeState(Transition(run, t))
      BY <1>1, <1>3, <1>6 DEF ChangeState, Storable
    <2>3. transition
      BY <1>2, <2>1, <2>2 DEF transition
    <2> QED
      BY <2>3 DEF RowNext
  <1> QED
    BY <1>4, <1>5, <1>6 DEF Lawful

\* A gate that is legal opens with its evidence.
LEMMA GateLawful ==
    ASSUME RowInv(run), NEW gate \in ApprovalGate, NEW digest \in Digests,
           ApprovalStateByGate(gate) \in LEGAL[run.state]
    PROVE  Lawful(AwaitApproval(run, gate, digest))
  <1>1. run \in RunSnapshot /\ RowDecodes(run)
    BY DEF RowInv, Decoded
  <1>2. Storable(AwaitApproval(run, gate, digest))
    BY <1>1, GateStorable
  <1>3. /\ AwaitApproval(run, gate, digest).version > run.version
        /\ AwaitApproval(run, gate, digest).bound = run.bound
        /\ AwaitApproval(run, gate, digest).resource = run.resource
    BY <1>1, WithStateColumns DEF AwaitApproval
  <1>4. RowInv(AwaitApproval(run, gate, digest))
    BY <1>2, <1>3 DEF RowInv, Storable
  <1>5. ASSUME run' = AwaitApproval(run, gate, digest) PROVE RowNext
    <2>1. ChangeState(AwaitApproval(run, gate, digest))
      BY <1>1, <1>2, <1>5 DEF ChangeState, Storable
    <2>2. CanAwaitApproval(run, gate)
      BY DEF CanAwaitApproval
    <2>3. await_approval
      BY <2>1, <2>2 DEF await_approval
    <2> QED
      BY <2>3 DEF RowNext
  <1> QED
    BY <1>3, <1>4, <1>5 DEF Lawful

\* A stage that cannot go on is handed to a human.
LEMMA InterveneLawful ==
    ASSUME RowInv(run), run.state \in InterventionSourceStates
    PROVE  Lawful(Intervene(run))
  <1>1. run \in RunSnapshot /\ RowDecodes(run) /\ run.state \in RunState
    BY DEF RowInv, Decoded, RunSnapshot
  <1>2. CanIntervene(run)
    BY <1>1, InterventionSources DEF CanIntervene, InterventionSourceStates, TerminalStates
  <1>3. Storable(Intervene(run))
    BY <1>1, <1>2, InterventionStorable
  <1>4. /\ Intervene(run).version > run.version
        /\ Intervene(run).bound = run.bound /\ Intervene(run).resource = run.resource
    BY <1>1, WithStateColumns DEF Intervene
  <1>5. RowInv(Intervene(run))
    BY <1>3, <1>4 DEF RowInv, Storable
  <1>6. ASSUME run' = Intervene(run) PROVE RowNext
    <2>1. intervene
      BY <1>1, <1>2, <1>3, <1>6 DEF intervene, ChangeState, Storable
    <2> QED
      BY <2>1 DEF RowNext
  <1> QED
    BY <1>4, <1>5, <1>6 DEF Lawful

\* An automatic remediation, counted or at its limit.
LEMMA RemediateLawful ==
    ASSUME RowInv(run), run.state \in {"VALIDATING", "REVIEWING"}
    PROVE  /\ Lawful(BeginLocalRemediation(run, TRUE))
           /\ BeginLocalRemediation(run, TRUE).state \in
                {"REMEDIATING", "AWAITING_HUMAN_INTERVENTION"}
  <1> DEFINE c == BeginLocalRemediation(run, TRUE)
             counted == [run EXCEPT !.local = @ + 1]
  <1>1. run \in RunSnapshot /\ RowDecodes(run) /\ run.local \in Nat /\ LocalLimit \in Nat
        /\ run.version \in Nat
    BY LimitsAreNatural DEF RowInv, Decoded, RunSnapshot
  <1>2. counted \in RunSnapshot /\ counted.version = run.version
        /\ counted.bound = run.bound /\ counted.resource = run.resource
    BY <1>1, CountedType DEF RunSnapshot
  <1> HIDE DEF counted
  <1>3. CASE run.local >= LocalLimit
    <2>1. c = Intervene(run)
      BY <1>1, <1>3 DEF BeginLocalRemediation
    <2>2. run.state \in InterventionSourceStates
      BY DEF InterventionSourceStates
    <2> QED
      BY <2>1, <2>2, InterveneLawful, InterveneState
  <1>4. CASE run.local < LocalLimit
    <2>1. c = Active(counted, "REMEDIATING")
      BY <1>1, <1>4 DEF BeginLocalRemediation, Transition, counted
    <2>2. Storable(c)
      BY <1>2, <2>1, ActiveStorable DEF RunState, ApprovalStates
    <2>3. c.version > run.version /\ c.bound = run.bound /\ c.resource = run.resource
      <3>1. /\ Active(counted, "REMEDIATING").version = counted.version + 1
            /\ Active(counted, "REMEDIATING").bound = counted.bound
            /\ Active(counted, "REMEDIATING").resource = counted.resource
        BY DEF Active, WithState
      <3>2. counted.version + 1 > run.version
        BY <1>1, <1>2
      <3> HIDE DEF c
      <3> QED
        BY <1>2, <2>1, <3>1, <3>2
    <2>4. RowInv(c)
      BY <2>2, <2>3 DEF RowInv, Storable
    <2>5. ASSUME run' = c PROVE RowNext
      <3>1. ChangeState(BeginLocalRemediation(run, TRUE))
        BY <1>1, <2>2, <2>5 DEF ChangeState, Storable
      <3>2. begin_local_remediation
        BY <3>1 DEF begin_local_remediation, CanBeginLocalRemediation
      <3> QED
        BY <3>2 DEF RowNext
    <2> QED
      BY <2>1, <2>3, <2>4, <2>5, ActiveState DEF Lawful
  <1>5. run.local >= LocalLimit \/ run.local < LocalLimit
    BY <1>1
  <1> QED
    BY <1>3, <1>4, <1>5

\* Changed content at the PR gate takes two edges in one transaction.
LEMMA RevalidateLawful ==
    ASSUME RowInv(run), run.state = "AWAITING_PR_APPROVAL"
    PROVE  /\ Lawful(Transition(Transition(run, "REMEDIATING"), "VALIDATING"))
           /\ Transition(Transition(run, "REMEDIATING"), "VALIDATING").version = run.version + 2
  <1> DEFINE b == Transition(run, "REMEDIATING")
             c == Transition(b, "VALIDATING")
  <1>1. run \in RunSnapshot /\ RowDecodes(run) /\ run.version \in Nat
    BY DEF RowInv, Decoded, RunSnapshot
  <1>2. b \in RunSnapshot /\ b.version = run.version + 1 /\ b.bound = run.bound
        /\ b.resource = run.resource
    BY <1>1, ActiveType, WithStateColumns DEF Transition, Active, RunState
  <1> HIDE DEF b
  <1>3. Storable(c)
    BY <1>2, ActiveStorable DEF Transition, RunState, ApprovalStates
  <1>4. c.version = b.version + 1 /\ c.bound = b.bound /\ c.resource = b.resource
    BY <1>2, WithStateColumns DEF Transition, Active
  <1>5. RowInv(c)
    BY <1>2, <1>3, <1>4 DEF RowInv, Storable
  <1>6. ASSUME run' = c PROVE RowNext
    <2>1. ChangeState(Transition(Transition(run, "REMEDIATING"), "VALIDATING"))
      BY <1>1, <1>3, <1>6 DEF ChangeState, Storable, b
    <2>2. revalidate_candidate
      BY <2>1 DEF revalidate_candidate
    <2> QED
      BY <2>2 DEF RowNext
  <1> QED
    BY <1>1, <1>2, <1>4, <1>5, <1>6 DEF Lawful, b

\* A live run pauses.
LEMMA PauseLawful ==
    ASSUME RowInv(run), CanPause(run)
    PROVE  Lawful(Pause(run)) /\ Pause(run).state = "PAUSED"
  <1>1. run \in RunSnapshot /\ Decoded(run) /\ RowDecodes(run)
    BY DEF RowInv, Decoded
  <1>2. Storable(Pause(run))
    BY <1>1, PauseStorable
  <1>3. /\ Pause(run).version > run.version
        /\ Pause(run).bound = run.bound /\ Pause(run).resource = run.resource
    BY <1>1, WithStateColumns DEF Pause
  <1>4. Pause(run).state = "PAUSED"
    BY DEF Pause, WithState
  <1>5. ASSUME run' = Pause(run) PROVE RowNext
    <2>1. pause
      BY <1>1, <1>2, <1>5 DEF pause, ChangeState, Storable
    <2> QED
      BY <2>1 DEF RowNext
  <1>6. RowInv(Pause(run))
    BY <1>2, <1>3 DEF RowInv, Storable
  <1> QED
    BY <1>3, <1>4, <1>5, <1>6 DEF Lawful

\* A paused run resumes.
LEMMA ResumeLawful ==
    ASSUME RowInv(run), run.state = "PAUSED"
    PROVE  /\ Lawful(Resume(run)) /\ Resume(run).state = run.susp
           /\ Resume(run).version = run.version + 1
  <1>1. run \in RunSnapshot /\ Decoded(run) /\ RowDecodes(run) /\ run.version \in Nat
    BY DEF RowInv, Decoded, RunSnapshot
  <1>2. /\ CanResume(run) /\ Storable(Resume(run))
        /\ Resume(run).state = run.susp /\ Resume(run).version = run.version + 1
    BY <1>1, ResumeStorable
  <1>3. Resume(run).bound = run.bound /\ Resume(run).resource = run.resource
    BY DEF Resume, Active, WithState
  <1>4. ASSUME run' = Resume(run) PROVE RowNext
    <2>1. resume
      BY <1>1, <1>2, <1>4 DEF resume, ChangeState, Storable
    <2> QED
      BY <2>1 DEF RowNext
  <1>5. RowInv(Resume(run))
    BY <1>2, <1>3 DEF RowInv, Storable
  <1> QED
    BY <1>1, <1>2, <1>4, <1>5 DEF Lawful

\* Preparation binds the branch once,
LEMMA BindLawful ==
    ASSUME RowInv(run), run.state = "PREPARING_WORKTREE", ~ run.bound
    PROVE  Lawful(BindBranch(run)) /\ BindBranch(run).state = run.state
  <1>1. run \in RunSnapshot /\ Decoded(run) /\ RowDecodes(run) /\ run.version \in Nat
        /\ run.resource = NoResource /\ NoResource \in Resource
    BY DEF RowInv, Decoded, RunSnapshot
  <1>2. Storable(BindBranch(run))
    BY <1>1, ColumnsStorable
  <1>3. /\ BindBranch(run).version > run.version /\ BindBranch(run).bound = TRUE
        /\ BindBranch(run).state = run.state
    BY <1>1 DEF BindBranch, NextVersion, RunSnapshot
  <1>4. RowInv(BindBranch(run))
    BY <1>2, <1>3 DEF RowInv, Storable
  <1>5. ASSUME run' = BindBranch(run) PROVE RowNext
    <2>1. CanBindBranch(run)
      BY <1>1 DEF CanBindBranch
    <2>2. bind_preparation_branch
      BY <1>1, <1>2, <1>5, <2>1
         DEF bind_preparation_branch, ChangeState, Storable
    <2> QED
      BY <2>2 DEF RowNext
  <1> QED
    BY <1>3, <1>4, <1>5 DEF Lawful

\* and records the worktree on a bound run.
LEMMA ResourceLawful ==
    ASSUME RowInv(run), run.bound, NEW resource \in Resource
    PROVE  /\ Lawful(WithResource(run, resource))
           /\ WithResource(run, resource).state = run.state
  <1>1. run \in RunSnapshot /\ Decoded(run) /\ RowDecodes(run) /\ run.version \in Nat
    BY DEF RowInv, Decoded, RunSnapshot
  <1>2. Storable(WithResource(run, resource))
    BY <1>1, ColumnsStorable
  <1>3. /\ WithResource(run, resource).version > run.version
        /\ WithResource(run, resource).bound = run.bound
        /\ WithResource(run, resource).state = run.state
    <2> DEFINE d == [run EXCEPT !.resource = resource]
    <2>1. d \in RunSnapshot /\ d.version = run.version /\ d.bound = run.bound
          /\ d.state = run.state
      BY <1>1 DEF RunSnapshot
    <2> HIDE DEF d
    <2>2. NextVersion(d).version = d.version + 1 /\ NextVersion(d).bound = d.bound
          /\ NextVersion(d).state = d.state
      BY <2>1 DEF NextVersion, RunSnapshot
    <2>3. WithResource(run, resource) = NextVersion(d)
      BY DEF WithResource, d
    <2>4. run.version + 1 > run.version
      BY <1>1
    <2> QED
      BY <2>1, <2>2, <2>3, <2>4
  <1>4. RowInv(WithResource(run, resource))
    BY <1>2, <1>3 DEF RowInv, Storable
  <1>5. ASSUME run' = WithResource(run, resource) PROVE RowNext
    <2>1. ChangeState(WithResource(run, resource))
      BY <1>1, <1>2, <1>5 DEF ChangeState, Storable
    <2>2. update_resource
      BY <2>1 DEF update_resource
    <2> QED
      BY <2>2 DEF RowNext
  <1> QED
    BY <1>3, <1>4, <1>5 DEF Lawful

----------------------------------------------------------------------------
(* The steps of the queue and of the handlers.                             *)

\* The row and the queue are left as the invariant wants them.
Holds == (run' = run \/ RowNext) /\ RowInv(run') /\ Queue(cmds', run')

\* A row of the queue.
LEMMA ARow ==
    ASSUME Inv, NEW i \in DOMAIN cmds
    PROVE  /\ cmds[i] \in CommandRow /\ Fits(cmds[i], run)
           /\ cmds[i].version \in Nat /\ cmds[i].result \in Nat
           /\ run \in RunSnapshot /\ run.version \in Nat /\ run.state \in RunState
  <1>1. cmds[i] \in CommandRow /\ Fits(cmds[i], run)
    BY DEF Inv, Queue
  <1> QED
    BY <1>1 DEF Inv, RowInv, Decoded, CommandRow, RunSnapshot

\* The row moved on, its decision as it was.
MovedOn(c, i) ==
    /\ c \in CommandRow
    /\ c.type = cmds[i].type /\ c.version = cmds[i].version /\ c.result = cmds[i].result
    /\ c.work # "twice"
    /\ c.result # 0 => c.work \in {"applied", "redelivered"}

\* It still fits.
LEMMA MovedOnFits ==
    ASSUME Inv, NEW i \in DOMAIN cmds, NEW c, MovedOn(c, i)
    PROVE  c \in CommandRow /\ Fits(c, run)
  BY ARow DEF MovedOn, Fits

\* The forms in which rows are rewritten.
LEMMA Rewrites ==
    ASSUME Inv, NEW i \in DOMAIN cmds
    PROVE  /\ \A s \in Status : MovedOn([cmds[i] EXCEPT !.status = s], i)
           /\ \A w \in Work \ {"twice"} :
                cmds[i].result = 0 \/ w \in {"applied", "redelivered"}
                  => /\ MovedOn([cmds[i] EXCEPT !.work = w], i)
                     /\ \A s \in Status : MovedOn([cmds[i] EXCEPT !.status = s, !.work = w], i)
                     /\ \A d \in Digests \cup {none} :
                          MovedOn([cmds[i] EXCEPT !.work = w, !.digest = d], i)
  <1> DEFINE c == cmds[i]
  <1>1. /\ c \in CommandRow /\ c.work # "twice"
        /\ c.result # 0 => c.work \in {"applied", "redelivered"}
    BY ARow DEF Fits
  <1>2. ASSUME NEW s \in Status PROVE MovedOn([cmds[i] EXCEPT !.status = s], i)
    <2> DEFINE n == [c EXCEPT !.status = s]
    <2>1. /\ n \in CommandRow /\ n.type = c.type /\ n.version = c.version
          /\ n.result = c.result /\ n.work = c.work
      BY <1>1 DEF CommandRow
    <2> QED
      BY <1>1, <2>1 DEF MovedOn
  <1>3. ASSUME NEW w \in Work \ {"twice"}, c.result = 0 \/ w \in {"applied", "redelivered"}
        PROVE  MovedOn([cmds[i] EXCEPT !.work = w], i)
    <2> DEFINE n == [c EXCEPT !.work = w]
    <2>1. /\ n \in CommandRow /\ n.type = c.type /\ n.version = c.version
          /\ n.result = c.result /\ n.work = w
      BY <1>1, <1>3 DEF CommandRow
    <2> QED
      BY <1>1, <1>3, <2>1 DEF MovedOn
  <1>4. ASSUME NEW w \in Work \ {"twice"}, c.result = 0 \/ w \in {"applied", "redelivered"},
               NEW s \in Status
        PROVE  MovedOn([cmds[i] EXCEPT !.status = s, !.work = w], i)
    <2> DEFINE n == [c EXCEPT !.status = s, !.work = w]
    <2>1. /\ n \in CommandRow /\ n.type = c.type /\ n.version = c.version
          /\ n.result = c.result /\ n.work = w
      BY <1>1, <1>4 DEF CommandRow
    <2> QED
      BY <1>1, <1>4, <2>1 DEF MovedOn
  <1>5. ASSUME NEW w \in Work \ {"twice"}, c.result = 0 \/ w \in {"applied", "redelivered"},
               NEW d \in Digests \cup {none}
        PROVE  MovedOn([cmds[i] EXCEPT !.work = w, !.digest = d], i)
    <2> DEFINE n == [c EXCEPT !.work = w, !.digest = d]
    <2>1. /\ n \in CommandRow /\ n.type = c.type /\ n.version = c.version
          /\ n.result = c.result /\ n.work = w
      BY <1>1, <1>5 DEF CommandRow
    <2> QED
      BY <1>1, <1>5, <2>1 DEF MovedOn
  <1> QED
    BY <1>2, <1>3, <1>4, <1>5

\* A row is rewritten and the run left alone.
LEMMA RewriteHolds ==
    ASSUME Inv, NEW i \in DOMAIN cmds, NEW c, MovedOn(c, i), cmds' = Set(i, c), UNCHANGED run
    PROVE  Holds
  BY MovedOnFits, SetFits DEF Inv, Holds

\* A row is dropped and the run left alone.
LEMMA DropHolds ==
    ASSUME Inv, NEW i \in DOMAIN cmds, Drop(i), UNCHANGED run
    PROVE  Holds
  BY KeptFits DEF Inv, Holds, Drop

\* A row is rewritten while the run's version moves, or does not.
LEMMA CheckpointHolds ==
    ASSUME Inv, NEW i \in DOMAIN cmds, NEW c, MovedOn(c, i),
           UNCHANGED run \/ (Lawful(run') /\ RowNext),
           cmds' = Keep(Set(i, c), {}, run')
    PROVE  Holds
  <1>1. Queue(Set(i, c), run)
    BY MovedOnFits, SetFits DEF Inv
  <1>2. CASE UNCHANGED run
    BY <1>1, <1>2, KeptFits DEF Inv, Holds
  <1>3. CASE Lawful(run') /\ RowNext
    <2>1. run \in RunSnapshot /\ run' \in RunSnapshot /\ RowInv(run') /\ run.version < run'.version
      BY <1>3 DEF Inv, RowInv, Decoded, Lawful, RunSnapshot
    <2>2. Queue(Set(i, c), run')
      BY <1>1, <2>1, LaterFits
    <2> QED
      BY <1>3, <2>1, <2>2, KeptFits DEF Holds
  <1> QED
    BY <1>2, <1>3

\* A command that is not decided yet is decided.
LEMMA DecisionHolds ==
    ASSUME Inv, NEW i \in DOMAIN cmds, cmds[i].result = 0, NEW changed, Lawful(changed),
           NEW S, NEW next, Queue(next, changed), DecideAndSettle(i, changed, S, next)
    PROVE  Holds
  <1> DEFINE c == [cmds[i] EXCEPT !.work = "applied", !.result = changed.version]
  <1>1. /\ run' = changed /\ RowNext /\ RowInv(changed) /\ changed \in RunSnapshot
        /\ changed.version > run.version /\ changed.version \in Nat
    BY DEF Lawful, DecideAndSettle, RowInv, Decoded, RunSnapshot
  <1>2. cmds' = Keep(Set(i, c), S, changed) \o next
    BY DEF DecideAndSettle
  <1>3. /\ c \in CommandRow /\ c.version = cmds[i].version /\ c.work = "applied"
        /\ c.result = changed.version
    BY <1>1, ARow DEF CommandRow, Work
  <1>4. cmds[i].version <= run.version /\ cmds[i].version \in Nat /\ run.version \in Nat
        /\ run \in RunSnapshot
    BY ARow DEF Fits
  <1> HIDE DEF c
  <1>5. Fits(c, changed)
    BY <1>1, <1>3, <1>4 DEF Fits
  <1>6. Queue(cmds, changed)
    BY <1>1, <1>4, LaterFits DEF Inv
  <1>7. Queue(Set(i, c), changed)
    BY <1>3, <1>5, <1>6, SetFits
  <1>8. Queue(Keep(Set(i, c), S, changed), changed)
    BY <1>7, KeptFits
  <1>9. Queue(cmds', changed)
    BY <1>2, <1>8, ConcatFits
  <1> QED
    BY <1>1, <1>9 DEF Holds

----------------------------------------------------------------------------
(* Steps that leave the run alone.                                         *)

\* A claim: what an earlier delivery decided stays decided.
LEMMA ClaimHolds ==
    ASSUME Inv, NEW i \in DOMAIN cmds, Claim(i)
    PROVE  Holds
  <1> DEFINE w == Redelivered(cmds[i])
  <1>1. cmds[i] \in CommandRow /\ cmds[i].work \in Work /\ Fits(cmds[i], run)
    BY ARow DEF CommandRow
  <1>2. w \in Work \ {"twice"}
    BY <1>1 DEF Redelivered, Work, Fits
  <1>3. cmds[i].result = 0 \/ w \in {"applied", "redelivered"}
    BY <1>1 DEF Redelivered, Fits
  <1> HIDE DEF w
  <1>4. "LEASED" \in Status
    BY DEF Status
  <1>5. MovedOn([cmds[i] EXCEPT !.status = "LEASED", !.work = w], i)
    BY <1>2, <1>3, <1>4, Rewrites
  <1> QED
    BY <1>5, RewriteHolds DEF Claim, w

\* A status that moves.
LEMMA StatusHolds ==
    ASSUME Inv, NEW i \in DOMAIN cmds, NEW s \in Status,
           cmds' = Set(i, [cmds[i] EXCEPT !.status = s]), UNCHANGED run
    PROVE  Holds
  <1>1. MovedOn([cmds[i] EXCEPT !.status = s], i)
    BY Rewrites
  <1> QED
    BY <1>1, RewriteHolds

\* Work that moves on a command nobody has decided.
LEMMA WorkHolds ==
    ASSUME Inv, NEW i \in DOMAIN cmds, NEW w \in Work \ {"twice"},
           cmds[i].work \notin {"applied", "redelivered"} \/ w \in {"applied", "redelivered"},
           cmds' = Set(i, [cmds[i] EXCEPT !.work = w]), UNCHANGED run
    PROVE  Holds
  <1>1. cmds[i].result = 0 \/ w \in {"applied", "redelivered"}
    BY ARow DEF Fits
  <1>2. MovedOn([cmds[i] EXCEPT !.work = w], i)
    BY <1>1, Rewrites
  <1> QED
    BY <1>2, RewriteHolds

\* Acknowledgements, lapses and failures.
LEMMA SettleHolds ==
    ASSUME Inv, NEW i \in DOMAIN cmds,
           \/ Complete(i) \/ Expire(i) \/ FailStage(i) \/ RejectPlanning(i)
           \/ RejectDecision(i) \/ RejectControl(i)
    PROVE  Holds
  <1>1. \/ Drop(i)
        \/ \E s \in Status : cmds' = Set(i, [cmds[i] EXCEPT !.status = s])
    BY DEF Complete, Expire, FailStage, RejectPlanning, RejectDecision, RejectControl, Status
  <1>2. UNCHANGED run
    BY DEF Complete, Expire, FailStage, RejectPlanning, RejectDecision, RejectControl
  <1> QED
    BY <1>1, <1>2, DropHolds, StatusHolds

\* A stage is admitted on the content it will be about.
LEMMA AdmitStageHolds ==
    ASSUME Inv, NEW i \in DOMAIN cmds, AdmitStage(i)
    PROVE  Holds
  <1> DEFINE d == IF cmds[i].type = "validate" THEN head ELSE cmds[i].digest
  <1>1. cmds[i] \in CommandRow /\ Fits(cmds[i], run)
    BY ARow
  <1>2. d \in Digests \cup {none}
    BY <1>1 DEF CommandRow, Inv
  <1>3. cmds[i].work = "none"
    BY DEF AdmitStage, Finishing
  <1>4. cmds[i].result = 0
    BY <1>1, <1>3 DEF Fits
  <1>5. "admitted" \in Work \ {"twice"}
    BY DEF Work
  <1>6. cmds' = Set(i, [cmds[i] EXCEPT !.work = "admitted", !.digest = d]) /\ UNCHANGED run
    BY DEF AdmitStage
  <1> HIDE DEF d
  <1>7. MovedOn([cmds[i] EXCEPT !.work = "admitted", !.digest = d], i)
    BY <1>2, <1>4, <1>5, Rewrites
  <1> QED
    BY <1>6, <1>7, RewriteHolds

\* Evidence, receipts, kept results and replays.
LEMMA WorkStepsHold ==
    ASSUME Inv, NEW i \in DOMAIN cmds,
           \/ PublishEvidence(i) \/ StopStage(i) \/ RetainResult(i) \/ LateResult(i) \/ Replay(i)
    PROVE  Holds
  <1>1. UNCHANGED run
    BY DEF PublishEvidence, StopStage, RetainResult, LateResult, Retain, Replay
  <1>2. CASE PublishEvidence(i) \/ StopStage(i)
    <2>1. /\ cmds[i].work = "admitted"
          /\ \E w \in {"published", "stopped"} : cmds' = Set(i, [cmds[i] EXCEPT !.work = w])
      BY <1>2 DEF PublishEvidence, StopStage, Finishing
    <2>2. {"published", "stopped"} \subseteq Work \ {"twice"}
      BY DEF Work
    <2> QED
      BY <1>1, <2>1, <2>2, WorkHolds
  <1>3. CASE RetainResult(i) \/ LateResult(i)
    <2>1. /\ cmds[i].work \in {"admitted", "orphaned"}
          /\ \E w \in {"retained", "orphaned"} : cmds' = Set(i, [cmds[i] EXCEPT !.work = w])
      BY <1>3 DEF RetainResult, LateResult, Retain
    <2>2. {"retained", "orphaned"} \subseteq Work \ {"twice"}
      BY DEF Work
    <2> QED
      BY <1>1, <2>1, <2>2, WorkHolds
  <1>4. CASE Replay(i)
    <2>1. cmds' = Set(i, [cmds[i] EXCEPT !.work = "applied"]) /\ "applied" \in Work \ {"twice"}
      BY <1>4 DEF Replay, Work
    <2> QED
      BY <1>1, <2>1, WorkHolds
  <1> QED
    BY <1>2, <1>3, <1>4

\* A request is accepted.
LEMMA AcceptHolds ==
    ASSUME Inv, NEW type \in CommandTypes, NEW digest \in Digests \cup {none},
           Accept(type, digest), type \in ControlTypes => run.state \notin TerminalStates
    PROVE  Holds /\ requests' \in 0..MaxRequests
  <1>1. run \in RunSnapshot
    BY DEF Inv, RowInv, Decoded
  <1>2. Queue(<<Command(type, run.version, digest)>>, run)
    BY <1>1, NewFits
  <1>3. cmds' = cmds \o <<Command(type, run.version, digest)>>
    <2>1. cmds \in Seq(CommandRow)
      BY DEF Inv, Queue
    <2> QED
      BY <2>1 DEF Accept
  <1>4. Queue(cmds', run)
    BY <1>2, <1>3, ConcatFits DEF Inv
  <1>5. requests' \in 0..MaxRequests
    BY LifecycleAssumption DEF Accept, Inv
  <1> QED
    BY <1>4, <1>5 DEF Holds, Accept, Inv

----------------------------------------------------------------------------
(* Decisions.                                                              *)

\* A command has not been decided while its delivery works, nor while the run
\* is at the command's own version.
LEMMA Undecided ==
    ASSUME Inv, NEW i \in DOMAIN cmds,
           cmds[i].work \notin {"applied", "redelivered"} \/ cmds[i].version = run.version
    PROVE  cmds[i].result = 0
  BY ARow DEF Fits

\* An empty queue fits.
LEMMA EmptyFits ==
    ASSUME NEW r
    PROVE  Queue(<<>>, r)
  BY DEF Queue

\* The types of the commands that handlers enqueue.
LEMMA EnqueuedTypes ==
    /\ StageTypes \cup {"publish_pr"} \subseteq CommandTypes \ ControlTypes
    /\ none \in Digests \cup {none}
  BY DEF CommandTypes, StageTypes, ControlTypes

\* A command takes the run along an edge of the graph, and enqueues the next
\* stage or nothing.
LEMMA MoveDecides ==
    ASSUME Inv, NEW i \in DOMAIN cmds, cmds[i].result = 0,
           NEW t \in LEGAL[run.state],
           t \notin ApprovalStates \cup {"AWAITING_HUMAN_INTERVENTION"},
           NEW type \in StageTypes \cup {"publish_pr"}, NEW d \in Digests \cup {none},
           \/ Decide(i, Transition(run, t), <<>>)
           \/ Decide(i, Transition(run, t), <<Command(type, run.version + 1, d)>>)
    PROVE  Holds
  <1>1. /\ Lawful(Transition(run, t)) /\ Transition(run, t).version = run.version + 1
    BY MoveLawful DEF Inv
  <1>2. Transition(run, t) \in RunSnapshot
    BY <1>1 DEF Lawful, RowInv, Decoded
  <1>3. Queue(<<Command(type, run.version + 1, d)>>, Transition(run, t))
    BY <1>1, <1>2, NewFits, EnqueuedTypes
  <1> QED
    BY <1>1, <1>3, EmptyFits, DecisionHolds DEF Decide

\* A command hands the run to a human.
LEMMA InterventionDecides ==
    ASSUME Inv, NEW i \in DOMAIN cmds, cmds[i].result = 0,
           run.state \in InterventionSourceStates, Decide(i, Intervene(run), <<>>)
    PROVE  Holds
  BY InterveneLawful, EmptyFits, DecisionHolds DEF Decide, Inv

\* A command opens a gate.
LEMMA GateDecides ==
    ASSUME Inv, NEW i \in DOMAIN cmds, cmds[i].result = 0,
           NEW gate \in ApprovalGate, NEW d \in Digests,
           ApprovalStateByGate(gate) \in LEGAL[run.state],
           Decide(i, AwaitApproval(run, gate, d), <<>>)
    PROVE  Holds
  BY GateLawful, EmptyFits, DecisionHolds DEF Decide, Inv

\* A command sends the candidate back to the developer.
LEMMA RemediationDecides ==
    ASSUME Inv, NEW i \in DOMAIN cmds, cmds[i].result = 0,
           run.state \in {"VALIDATING", "REVIEWING"}, Remediate(i)
    PROVE  Holds
  <1> DEFINE c == BeginLocalRemediation(run, TRUE)
             next == IF c.state = "REMEDIATING"
                     THEN <<Command("remediate", c.version, none)>> ELSE <<>>
  <1>1. Lawful(c) /\ c \in RunSnapshot
    BY RemediateLawful DEF Inv, Lawful, RowInv, Decoded
  <1>2. Decide(i, c, next)
    BY DEF Remediate
  <1> HIDE DEF c
  <1>3. "remediate" \in CommandTypes \ ControlTypes
    BY DEF CommandTypes, StageTypes, ControlTypes
  <1>4. Queue(<<Command("remediate", c.version, none)>>, c)
    BY <1>1, <1>3, NewFits, EnqueuedTypes
  <1>5. Queue(next, c)
    BY <1>4, EmptyFits
  <1> HIDE DEF next
  <1> QED
    BY <1>1, <1>2, <1>5, DecisionHolds DEF Decide

\* The edges the stages and the gates take.
LEMMA StageEdges ==
    /\ "PLANNING" \in LEGAL["CREATED"]
    /\ "AWAITING_PLAN_APPROVAL" \in LEGAL["PLANNING"] /\ "CANCELLED" \in LEGAL["PLANNING"]
    /\ "PLANNING" \in LEGAL["AWAITING_PLAN_APPROVAL"]
    /\ "PREPARING_WORKTREE" \in LEGAL["AWAITING_PLAN_APPROVAL"]
    /\ "IMPLEMENTING" \in LEGAL["PREPARING_WORKTREE"]
    /\ "VALIDATING" \in LEGAL["IMPLEMENTING"] /\ "VALIDATING" \in LEGAL["REMEDIATING"]
    /\ "REVIEWING" \in LEGAL["VALIDATING"]
    /\ "AWAITING_PR_APPROVAL" \in LEGAL["REVIEWING"]
    /\ "PUBLISHING_PR" \in LEGAL["AWAITING_PR_APPROVAL"]
    /\ "REMEDIATING" \in LEGAL["AWAITING_PR_APPROVAL"]
    /\ \A s \in RunState \ (TerminalStates \cup {"MERGING"}) : "CANCELLED" \in LEGAL[s]
  BY SMTT(60) DEF LEGAL, LEGALBody, RunState, ApprovalStates, TerminalStates

\* Planning: admission, the plan or the failure of its execution.
LEMMA PlanningHolds ==
    ASSUME Inv, NEW i \in DOMAIN cmds, AdmitPlanning(i) \/ FinishPlanning(i)
    PROVE  Holds
  <1>1. CASE AdmitPlanning(i)
    <2>1. cmds[i].work = "none" /\ cmds[i].result = 0
      BY <1>1, Undecided DEF AdmitPlanning
    <2>2. "admitted" \in Work \ {"twice"}
      BY DEF Work
    <2>3. MovedOn([cmds[i] EXCEPT !.work = "admitted"], i)
      BY <2>1, <2>2, Rewrites
    <2>4. UNCHANGED run \/ (Lawful(run') /\ RowNext)
      <3>1. CASE run.state = "CREATED" /\ run' = Transition(run, "PLANNING")
        BY <3>1, MoveLawful, StageEdges DEF Inv, Lawful, ApprovalStates
      <3> QED
        BY <1>1, <3>1 DEF AdmitPlanning
    <2> QED
      BY <1>1, <2>3, <2>4, CheckpointHolds DEF AdmitPlanning
  <1>2. CASE FinishPlanning(i)
    <2>1. run.state = "PLANNING" /\ cmds[i].result = 0
      BY <1>2, Undecided DEF FinishPlanning, Finishing, Leased, Current, StagePhase
    <2>2. CASE \E plan \in Digests : Decide(i, AwaitApproval(run, "plan", plan), <<>>)
      BY <2>1, <2>2, GateDecides, StageEdges DEF ApprovalGate, ApprovalStateByGate
    <2>3. CASE Decide(i, Intervene(run), <<>>)
      BY <2>1, <2>3, InterventionDecides DEF InterventionSourceStates
    <2>4. CASE Decide(i, Transition(run, "CANCELLED"), <<>>)
      <3>1. "CANCELLED" \notin ApprovalStates \cup {"AWAITING_HUMAN_INTERVENTION"}
        BY DEF ApprovalStates
      <3>2. "review" \in StageTypes
        BY DEF StageTypes
      <3> QED
        BY <2>1, <2>4, <3>1, <3>2, MoveDecides, StageEdges, EnqueuedTypes
    <2> QED
      BY <1>2, <2>2, <2>3, <2>4 DEF FinishPlanning
  <1> QED
    BY <1>1, <1>2

\* Development.
LEMMA DevelopmentHolds ==
    ASSUME Inv, NEW i \in DOMAIN cmds, FinishDevelopment(i)
    PROVE  Holds /\ head' \in Digests
  <1>1. run.state \in {"IMPLEMENTING", "REMEDIATING"} /\ cmds[i].result = 0
    BY Undecided DEF FinishDevelopment, Finishing, Leased, Current, StagePhase
  <1>0. head' \in Digests
    BY DEF FinishDevelopment, Inv
  <1>2. CASE Decide(i, Transition(run, "VALIDATING"),
                    <<Command("validate", run.version + 1, none)>>)
    <2>1. "VALIDATING" \notin ApprovalStates \cup {"AWAITING_HUMAN_INTERVENTION"}
      BY DEF ApprovalStates
    <2>2. "validate" \in StageTypes
      BY DEF StageTypes
    <2> QED
      BY <1>0, <1>1, <1>2, <2>1, <2>2, MoveDecides, StageEdges, EnqueuedTypes
  <1>3. CASE Decide(i, Intervene(run), <<>>)
    BY <1>0, <1>1, <1>3, InterventionDecides DEF InterventionSourceStates
  <1> QED
    BY <1>2, <1>3 DEF FinishDevelopment

\* Validation and review decide on the evidence they published.
LEMMA EvidenceHoldsUp ==
    ASSUME Inv, NEW i \in DOMAIN cmds,
           DecideValidation(i) \/ DecideReview(i) \/ FailReview(i)
    PROVE  Holds
  <1>1. cmds[i].result = 0 /\ cmds[i].digest \in Digests
    BY Undecided DEF DecideValidation, DecideReview, FailReview, Finishing, SameCandidate, Inv
  <1>2. CASE DecideValidation(i)
    <2>1. run.state = "VALIDATING"
      BY <1>2 DEF DecideValidation, Finishing, Leased, Current, StagePhase
    <2>2. "REVIEWING" \notin ApprovalStates \cup {"AWAITING_HUMAN_INTERVENTION"}
      BY DEF ApprovalStates
    <2>3. "review" \in StageTypes
      BY DEF StageTypes
    <2>4. CASE Decide(i, Transition(run, "REVIEWING"),
                      <<Command("review", run.version + 1, cmds[i].digest)>>)
      BY <1>1, <2>1, <2>2, <2>3, <2>4, MoveDecides, StageEdges
    <2> QED
      BY <1>1, <1>2, <2>1, <2>4, RemediationDecides DEF DecideValidation
  <1>3. CASE DecideReview(i)
    <2>1. run.state = "REVIEWING"
      BY <1>3 DEF DecideReview, Finishing, Leased, Current, StagePhase
    <2>2. CASE Decide(i, AwaitApproval(run, "pr", cmds[i].digest), <<>>)
      BY <1>1, <2>1, <2>2, GateDecides, StageEdges DEF ApprovalGate, ApprovalStateByGate
    <2> QED
      BY <1>1, <1>3, <2>1, <2>2, RemediationDecides DEF DecideReview
  <1>4. CASE FailReview(i)
    <2>1. run.state = "REVIEWING"
      BY <1>4 DEF FailReview, Finishing, Leased, Current, StagePhase
    <2>2. Lawful(run') /\ RowNext
      BY <1>4, <2>1, InterveneLawful DEF FailReview, Lawful, InterventionSourceStates, Inv
    <2>3. "redelivered" \in Work \ {"twice"}
      BY DEF Work
    <2>4. MovedOn([cmds[i] EXCEPT !.work = "redelivered"], i)
      BY <1>1, <2>3, Rewrites
    <2> QED
      BY <1>4, <2>2, <2>4, CheckpointHolds DEF FailReview
  <1> QED
    BY <1>2, <1>3, <1>4

\* The preparation of the worktree, whose checkpoints move the run's version.
LEMMA PreparationHolds ==
    ASSUME Inv, NEW i \in DOMAIN cmds,
           StartPreparation(i) \/ CheckpointWorktree(i) \/ FinishPreparation(i)
    PROVE  Holds
  <1>1. run.state = "PREPARING_WORKTREE" /\ cmds[i].result = 0
    BY Undecided DEF StartPreparation, CheckpointWorktree, FinishPreparation
  <1>2. CASE StartPreparation(i)
    <2>1. "admitted" \in Work \ {"twice"}
      BY DEF Work
    <2>2. MovedOn([cmds[i] EXCEPT !.work = "admitted"], i)
      BY <1>1, <2>1, Rewrites
    <2>3. UNCHANGED run \/ (Lawful(run') /\ RowNext)
      BY <1>1, <1>2, BindLawful DEF StartPreparation, Lawful, Inv
    <2> QED
      BY <1>2, <2>2, <2>3, CheckpointHolds DEF StartPreparation
  <1>3. CASE CheckpointWorktree(i)
    <2>1. [worktree |-> TRUE, database |-> "DISABLED"] \in Resource
      BY DEF Resource, ResourceState
    <2>2. Lawful(run') /\ RowNext
      BY <1>3, <2>1, ResourceLawful DEF CheckpointWorktree, Lawful, Inv
    <2>3. run \in RunSnapshot /\ run' \in RunSnapshot /\ RowInv(run') /\ run.version < run'.version
      BY <2>2 DEF Inv, RowInv, Decoded, Lawful, RunSnapshot
    <2>4. Queue(cmds, run')
      BY <2>3, LaterFits DEF Inv
    <2> QED
      BY <1>3, <2>2, <2>3, <2>4, KeptFits DEF CheckpointWorktree, Holds
  <1>4. CASE FinishPreparation(i)
    <2>1. "IMPLEMENTING" \notin ApprovalStates \cup {"AWAITING_HUMAN_INTERVENTION"}
      BY DEF ApprovalStates
    <2>2. "implement" \in StageTypes
      BY DEF StageTypes
    <2>3. CASE Decide(i, Transition(run, "IMPLEMENTING"),
                      <<Command("implement", run.version + 1, none)>>)
      BY <1>1, <2>1, <2>2, <2>3, MoveDecides, StageEdges, EnqueuedTypes
    <2>4. CASE Decide(i, Intervene(run), <<>>)
      BY <1>1, <2>4, InterventionDecides DEF InterventionSourceStates
    <2> QED
      BY <1>4, <2>3, <2>4 DEF FinishPreparation
  <1> QED
    BY <1>2, <1>3, <1>4

\* The plan gate: an approval or a revision of the run's own version.
LEMMA PlanGateHolds ==
    ASSUME Inv, NEW i \in DOMAIN cmds, ApprovePlan(i) \/ RevisePlan(i)
    PROVE  Holds
  <1>1. run.state = "AWAITING_PLAN_APPROVAL" /\ cmds[i].result = 0
    BY Undecided DEF ApprovePlan, RevisePlan, AtGate, ApprovalStateByGate
  <1>2. {"PREPARING_WORKTREE", "PLANNING"} \cap
          (ApprovalStates \cup {"AWAITING_HUMAN_INTERVENTION"}) = {}
    BY DEF ApprovalStates
  <1>3. "prepare_worktree" \in StageTypes /\ "start_planning" \in StageTypes
    BY DEF StageTypes
  <1>4. CASE Decide(i, Transition(run, "PREPARING_WORKTREE"),
                    <<Command("prepare_worktree", run.version + 1, none)>>)
    BY <1>1, <1>2, <1>3, <1>4, MoveDecides, StageEdges, EnqueuedTypes
  <1>5. CASE RestartPlanning(i)
    BY <1>1, <1>2, <1>3, <1>5, MoveDecides, StageEdges, EnqueuedTypes DEF RestartPlanning
  <1> QED
    BY <1>4, <1>5 DEF ApprovePlan, RevisePlan

\* The PR gate: publication, another validation, a human, or a remediation.
LEMMA PrGateHolds ==
    ASSUME Inv, NEW i \in DOMAIN cmds, ApprovePr(i) \/ ReviseCandidate(i)
    PROVE  Holds
  <1>1. run.state = "AWAITING_PR_APPROVAL" /\ cmds[i].result = 0
    BY Undecided DEF ApprovePr, ReviseCandidate, AtGate, ApprovalStateByGate
  <1>2. {"PUBLISHING_PR", "REMEDIATING"} \cap
          (ApprovalStates \cup {"AWAITING_HUMAN_INTERVENTION"}) = {}
    BY DEF ApprovalStates
  <1>3. "remediate" \in StageTypes /\ "validate" \in CommandTypes \ ControlTypes
    BY DEF StageTypes, CommandTypes, ControlTypes
  <1>4. CASE /\ EvidenceHolds(i)
             /\ Decide(i, Transition(run, "PUBLISHING_PR"),
                       <<Command("publish_pr", run.version + 1, cmds[i].digest)>>)
    <2>1. cmds[i].digest \in Digests \cup {none}
      BY ARow DEF CommandRow
    <2> QED
      BY <1>1, <1>2, <1>4, <2>1, MoveDecides, StageEdges
  <1>5. CASE Decide(i, Transition(Transition(run, "REMEDIATING"), "VALIDATING"),
                    <<Command("validate", run.version + 2, none)>>)
    <2> DEFINE c == Transition(Transition(run, "REMEDIATING"), "VALIDATING")
    <2>1. Lawful(c) /\ c.version = run.version + 2 /\ c \in RunSnapshot
      BY <1>1, RevalidateLawful DEF Inv, Lawful, RowInv, Decoded
    <2> HIDE DEF c
    <2>2. Queue(<<Command("validate", run.version + 2, none)>>, c)
      BY <1>3, <2>1, NewFits, EnqueuedTypes
    <2> QED
      BY <1>1, <1>5, <2>1, <2>2, DecisionHolds DEF Decide, c
  <1>6. CASE Decide(i, Intervene(run), <<>>)
    BY <1>1, <1>6, InterventionDecides DEF InterventionSourceStates
  <1>7. CASE ReviseCandidate(i)
    <2>1. Decide(i, Transition(run, "REMEDIATING"),
                 <<Command("remediate", run.version + 1, none)>>)
      BY <1>7 DEF ReviseCandidate, BeginLocalRemediation
    <2> QED
      BY <1>1, <1>2, <1>3, <2>1, MoveDecides, StageEdges, EnqueuedTypes
  <1> QED
    BY <1>4, <1>5, <1>6, <1>7 DEF ApprovePr

\* Controls stop a run that can be stopped.
LEMMA ControlsHold ==
    ASSUME Inv, NEW i \in DOMAIN cmds, PauseRun(i) \/ CancelRun(i)
    PROVE  Holds
  <1>1. cmds[i].version = run.version /\ cmds[i].result = 0 /\ cmds[i].type \in ControlTypes
    BY Undecided DEF PauseRun, CancelRun, Leased, ControlTypes
  <1>2. run.state \notin TerminalStates /\ run.state \in RunState
    BY <1>1, ARow DEF Fits
  <1>3. CASE PauseRun(i)
    <2>1. CanPause(run)
      BY <1>2, <1>3 DEF PauseRun, CanPause
    <2> QED
      BY <1>1, <1>3, <2>1, PauseLawful, EmptyFits, DecisionHolds DEF PauseRun, Decide, Inv
  <1>4. CASE CancelRun(i)
    <2>1. "CANCELLED" \in LEGAL[run.state]
      BY <1>2, <1>4, StageEdges DEF CancelRun, MergeSettling
    <2>2. "CANCELLED" \notin ApprovalStates \cup {"AWAITING_HUMAN_INTERVENTION"}
      BY DEF ApprovalStates
    <2>3. "review" \in StageTypes
      BY DEF StageTypes
    <2> QED
      BY <1>1, <1>4, <2>1, <2>2, <2>3, MoveDecides, EnqueuedTypes DEF CancelRun
  <1> QED
    BY <1>3, <1>4

\* Resumes restore the run and enqueue its stage again.
LEMMA ResumesHold ==
    ASSUME Inv, NEW i \in DOMAIN cmds, ResumeStage(i) \/ ResumePreparation(i) \/ ResumeGate(i)
    PROVE  Holds
  <1>1. run.state = "PAUSED" /\ cmds[i].result = 0
    BY Undecided DEF ResumeStage, ResumePreparation, ResumeGate, Resuming
  <1> DEFINE c == Resume(run)
  <1>2. Lawful(c) /\ c.version = run.version + 1 /\ c \in RunSnapshot
    BY <1>1, ResumeLawful DEF Inv, Lawful, RowInv, Decoded
  <1>3. PICK S, next : /\ DecideAndSettle(i, c, S, next)
                       /\ \/ next = <<>>
                          \/ \E type \in StageTypes, d \in Digests \cup {none} :
                               next = <<Command(type, run.version + 1, d)>>
    <2>1. CASE ResumeStage(i)
      <3>1. PICK source \in DOMAIN cmds :
              /\ cmds[source].type = StageOf(run.susp)
              /\ run.susp \in ActiveResumeStates
              /\ Restore(i, {source},
                    <<Command(cmds[source].type, run.version + 1,
                              IF cmds[source].type = "review" THEN cmds[source].digest
                                                              ELSE none)>>)
        BY <2>1 DEF ResumeStage, StageSources, FailedSources, OtherWork, Settles
      <3>2. cmds[source].type \in StageTypes
        BY <3>1 DEF StageOf, ActiveResumeStates, StageTypes
      <3>3. cmds[source].digest \in Digests \cup {none}
        BY ARow DEF CommandRow
      <3> QED
        BY <3>1, <3>2, <3>3 DEF Restore
    <2>2. CASE ResumePreparation(i)
      BY <2>2, EnqueuedTypes DEF ResumePreparation, Restore, StageTypes
    <2>3. CASE ResumeGate(i)
      BY <2>3 DEF ResumeGate, Restore
    <2> QED
      BY <2>1, <2>2, <2>3
  <1> HIDE DEF c
  <1>4. Queue(next, c)
    BY <1>2, <1>3, NewFits, EmptyFits, EnqueuedTypes
  <1> QED
    BY <1>1, <1>2, <1>3, <1>4, DecisionHolds

----------------------------------------------------------------------------
(* Every step.                                                             *)

\* An operator's request or approval.
LEMMA OperatorHolds ==
    ASSUME Inv,
           \/ \E type \in {"pause", "resume", "cancel", "request_plan_revision",
                           "request_candidate_changes"} : Request(type)
           \/ \E gate \in {"plan", "pr"} : Authorize(gate)
    PROVE  Holds /\ requests' \in 0..MaxRequests /\ UNCHANGED <<run, head, approved, drift>>
  <1>1. ASSUME NEW type \in {"pause", "resume", "cancel", "request_plan_revision",
                             "request_candidate_changes"}, Request(type)
        PROVE  Holds /\ requests' \in 0..MaxRequests /\ UNCHANGED <<run, head, approved, drift>>
    <2>1. type \in CommandTypes /\ none \in Digests \cup {none}
      BY <1>1 DEF CommandTypes, ControlTypes
    <2>2. type \in ControlTypes => run.state \notin TerminalStates
      BY <1>1 DEF Request, Admissible, ControlTypes
    <2> QED
      BY <1>1, <2>1, <2>2, AcceptHolds DEF Request, Accept
  <1>2. ASSUME NEW gate \in {"plan", "pr"}, Authorize(gate)
        PROVE  Holds /\ requests' \in 0..MaxRequests /\ UNCHANGED <<run, head, approved, drift>>
    <2>1. PICK type \in {"approve_plan", "approve_pr"} : Accept(type, run.digest)
      BY <1>2 DEF Authorize
    <2>2. type \in CommandTypes \ ControlTypes
      BY <2>1 DEF CommandTypes, ControlTypes
    <2>3. run.digest \in Digests \cup {none}
      BY DEF Inv, RowInv, Decoded, RunSnapshot
    <2> QED
      BY <2>1, <2>2, <2>3, AcceptHolds DEF Accept
  <1> QED
    BY <1>1, <1>2

\* A step of the queue or of a handler.
LEMMA HandlerHolds ==
    ASSUME Inv, NEW i \in DOMAIN cmds,
           \/ Claim(i) \/ Complete(i) \/ Expire(i) \/ FailStage(i) \/ LateResult(i)
           \/ Begin(i) \/ Settle(i)
    PROVE  Holds
  BY ClaimHolds, SettleHolds, WorkStepsHold, AdmitStageHolds, PlanningHolds, DevelopmentHolds,
     EvidenceHoldsUp, PreparationHolds, PlanGateHolds, PrGateHolds, ControlsHold, ResumesHold
     DEF Begin, Settle

\* What the handlers leave in the other variables.
LEMMA OthersTyped ==
    ASSUME Inv, NEW i \in DOMAIN cmds,
           \/ Claim(i) \/ Complete(i) \/ Expire(i) \/ FailStage(i) \/ LateResult(i)
           \/ Begin(i) \/ Settle(i)
    PROVE  /\ head' \in Digests /\ approved' \in Digests \cup {none}
           /\ requests' \in 0..MaxRequests /\ drift' \in 0..MaxDrift
  <1>0. /\ head \in Digests /\ approved \in Digests \cup {none}
        /\ requests \in 0..MaxRequests /\ drift \in 0..MaxDrift
        /\ cmds[i].digest \in Digests \cup {none} /\ MaxDrift \in Nat
    BY ARow, LifecycleAssumption DEF Inv, CommandRow
  <1>1. CASE UNCHANGED <<head, approved, requests, drift>>
    BY <1>0, <1>1
  <1>2. CASE FinishDevelopment(i)
    BY <1>0, <1>2, DevelopmentHolds DEF FinishDevelopment
  <1>3. CASE ApprovePlan(i)
    BY <1>0, <1>3 DEF ApprovePlan
  <1>4. CASE ApprovePr(i)
    BY <1>0, <1>4 DEF ApprovePr
  <1>5. \/ UNCHANGED <<head, approved, requests, drift>>
        \/ FinishDevelopment(i) \/ ApprovePlan(i) \/ ApprovePr(i)
    <2>1. CASE Claim(i) \/ Complete(i) \/ Expire(i) \/ FailStage(i) \/ LateResult(i)
      BY <2>1 DEF Claim, Complete, Expire, FailStage, LateResult, Retain
    <2>2. CASE Begin(i)
      BY <2>2 DEF Begin, AdmitPlanning, AdmitStage, StartPreparation, CheckpointWorktree
    <2>3. CASE Settle(i)
      BY <2>3 DEF Settle, FinishPlanning, RejectPlanning, PublishEvidence, FailReview,
         DecideValidation, DecideReview, StopStage, RetainResult, Retain, FinishPreparation,
         RevisePlan, ReviseCandidate, RejectDecision, Replay, PauseRun, CancelRun,
         RejectControl, ResumeStage, ResumePreparation, ResumeGate, Restore
    <2> QED
      BY <2>1, <2>2, <2>3
  <1> QED
    BY <1>1, <1>2, <1>3, <1>4, <1>5

\* Every step keeps the invariant and is a step of the row or leaves it alone.
LEMMA StepHolds == Inv /\ [Next]_vars => Inv' /\ [RowNext]_run
  <1> SUFFICES ASSUME Inv, [Next]_vars PROVE Inv' /\ [RowNext]_run
    OBVIOUS
  <1>1. CASE UNCHANGED vars
    BY <1>1 DEF vars, Inv
  <1>2. CASE \/ \E type \in {"pause", "resume", "cancel", "request_plan_revision",
                             "request_candidate_changes"} : Request(type)
             \/ \E gate \in {"plan", "pr"} : Authorize(gate)
    <2>1. Holds /\ requests' \in 0..MaxRequests /\ UNCHANGED <<run, head, approved, drift>>
      BY <1>2, OperatorHolds
    <2> QED
      BY <2>1 DEF Holds, Inv
  <1>3. CASE \E i \in DOMAIN cmds :
                \/ Claim(i) \/ Complete(i) \/ Expire(i) \/ FailStage(i) \/ LateResult(i)
                \/ Begin(i) \/ Settle(i)
    <2>1. PICK i \in DOMAIN cmds :
            \/ Claim(i) \/ Complete(i) \/ Expire(i) \/ FailStage(i) \/ LateResult(i)
            \/ Begin(i) \/ Settle(i)
      BY <1>3
    <2>2. Holds
      BY <2>1, HandlerHolds
    <2>3. /\ head' \in Digests /\ approved' \in Digests \cup {none}
          /\ requests' \in 0..MaxRequests /\ drift' \in 0..MaxDrift
      BY <2>1, OthersTyped
    <2> QED
      BY <2>2, <2>3 DEF Holds, Inv
  <1>4. CASE Drift
    <2>1. /\ UNCHANGED <<run, cmds, approved, requests>> /\ head' \in Digests
          /\ drift' \in 0..MaxDrift
      BY <1>4, LifecycleAssumption DEF Drift, Inv
    <2> QED
      BY <2>1 DEF Inv
  <1> QED
    BY <1>1, <1>2, <1>3, <1>4 DEF Next

\* A new run and its first command.
LEMMA InitHolds == Init => Inv /\ RowInit
  <1> SUFFICES ASSUME Init PROVE Inv /\ RowInit
    OBVIOUS
  <1>1. NewRun \in RunSnapshot
    BY NoContextType DEF NewRun, RunSnapshot, RunState, Resource, NoResource, ResourceState
  <1>2. RowDecodes(NewRun)
    BY DEF NewRun, RowDecodes, PendingShape, ApprovalStates
  <1>3. RowInv(NewRun) /\ NewRun.version = 0
    BY <1>1, <1>2 DEF RowInv, Decoded, NewRun
  <1>4. "start_planning" \in CommandTypes \ ControlTypes
    BY DEF CommandTypes, StageTypes, ControlTypes
  <1>5. Queue(<<Command("start_planning", 0, none)>>, NewRun)
    BY <1>1, <1>3, <1>4, NewFits, EnqueuedTypes
  <1>6. Inv
    BY <1>3, <1>5, LifecycleAssumption DEF Init, Inv
  <1> QED
    BY <1>6 DEF Init, RowInit

\* The invariant holds throughout.
THEOREM LifecycleInvariant == Spec => []Inv
  BY InitHolds, StepHolds, PTL DEF Spec

\* Rows and counters keep their types.
THEOREM LifecycleTyped == Spec => []TypeOK
  <1>1. Inv => TypeOK
    BY DEF Inv, RowInv, Decoded, Queue, TypeOK
  <1> QED
    BY <1>1, LifecycleInvariant, PTL

\* No command decides twice, whatever is redelivered, replayed, resumed or left
\* unfenced.
THEOREM EveryCommandDecidesOnce == Spec => []DecidedOnce
  <1>1. Inv => DecidedOnce
    BY DEF Inv, Queue, Fits, DecidedOnce
  <1> QED
    BY <1>1, LifecycleInvariant, PTL

\* The handlers write the run's row as RunRow promises: every handler's step is
\* one repository operation, applied where its guard holds, or leaves the row
\* alone.
THEOREM LifecycleImplementsRow == Spec => ImplementsRow
  BY InitHolds, StepHolds, LifecycleInvariant, PTL DEF Spec, ImplementsRow, RowSpec

\* So what the row promises under every sequence of repository operations holds
\* of it under the handlers: it decodes again, remediations stay within the
\* policy's limits, suspensions can be entered and undone, and the phases move
\* along the legal graph.
THEOREM LifecycleKeepsRow ==
    Spec => /\ []Loadable /\ []RemediationBounded
            /\ SuspensionsReversible /\ LifecycleLegal
  BY LifecycleImplementsRow, RowLoads, RemediationAlwaysBounded, SuspensionsAlwaysReversible,
     LifecycleAlwaysLegal DEF ImplementsRow

----------------------------------------------------------------------------
(* What a decision may be made over.                                       *)

\* What the operations write in the state and in the evidence.
LEMMA States ==
    /\ \A r, t : Transition(r, t).state = t
    /\ \A r : Intervene(r).state = "AWAITING_HUMAN_INTERVENTION"
    /\ \A r, g, d : /\ AwaitApproval(r, g, d).state = ApprovalStateByGate(g)
                    /\ AwaitApproval(r, g, d).digest = d
    /\ \A r : Pause(r).state = "PAUSED"
  BY DEF Transition, Active, Intervene, AwaitApproval, Pause, WithState

\* Over an accepted stop only that stop takes the run out of a working phase.
StopFenced ==
    StopAccepted /\ run.state \in WorkingStates \ {"CREATED"} /\ run'.state # run.state
        => run'.state \in {"PAUSED", "CANCELLED"}

\* The PR gate opens, and a candidate is handed over, on the content of the
\* worktree.
OnCandidate ==
    /\ run'.state = "AWAITING_PR_APPROVAL" /\ run.state = "REVIEWING" => run'.digest = head
    /\ run'.state = "PUBLISHING_PR" /\ run.state # "PUBLISHING_PR"
         => run.digest = head /\ approved' = head

\* A stage asks for a stop before it decides.
LEMMA StagesFenced ==
    ASSUME Inv, NEW i \in DOMAIN cmds,
           \/ FinishPlanning(i) \/ FinishDevelopment(i) \/ FailReview(i)
           \/ DecideValidation(i) \/ DecideReview(i) \/ FinishPreparation(i)
    PROVE  StopFenced /\ OnCandidate
  <1>1. ~ StopAccepted
    BY DEF StopAccepted, StopPending, FinishPlanning, FinishDevelopment, FailReview,
           DecideValidation, DecideReview, FinishPreparation
  <1>2. CASE FinishPlanning(i) \/ FinishDevelopment(i) \/ FailReview(i) \/ FinishPreparation(i)
    <2>1. run'.state \in {"AWAITING_PLAN_APPROVAL", "AWAITING_HUMAN_INTERVENTION", "CANCELLED",
                          "VALIDATING", "IMPLEMENTING"}
      <3>1. CASE FinishPlanning(i)
        <4>1. \/ \E plan \in Digests : run' = AwaitApproval(run, "plan", plan)
              \/ run' = Intervene(run) \/ run' = Transition(run, "CANCELLED")
          BY <3>1 DEF FinishPlanning, Decide, DecideAndSettle
        <4>2. ApprovalStateByGate("plan") = "AWAITING_PLAN_APPROVAL"
          BY DEF ApprovalStateByGate
        <4> QED
          BY <4>1, <4>2, States
      <3>2. CASE FinishDevelopment(i) \/ FinishPreparation(i)
        BY <3>2, States DEF FinishDevelopment, FinishPreparation, Decide, DecideAndSettle
      <3>3. CASE FailReview(i)
        BY <3>3, States DEF FailReview
      <3> QED
        BY <1>2, <3>1, <3>2, <3>3
    <2> QED
      BY <1>1, <2>1 DEF StopFenced, OnCandidate
  <1>3. CASE DecideValidation(i) \/ DecideReview(i)
    <2>1. run.state \in {"VALIDATING", "REVIEWING"} /\ cmds[i].digest = head
      BY <1>3 DEF DecideValidation, DecideReview, Finishing, Leased, Current, StagePhase,
                  SameCandidate
    <2>2. Remediate(i) => run'.state \in {"REMEDIATING", "AWAITING_HUMAN_INTERVENTION"}
      BY <2>1, RemediateLawful DEF Remediate, Decide, DecideAndSettle, Inv
    <2>3. CASE Remediate(i)
      BY <1>1, <2>2, <2>3 DEF StopFenced, OnCandidate
    <2>4. CASE Decide(i, Transition(run, "REVIEWING"),
                      <<Command("review", run.version + 1, cmds[i].digest)>>)
      BY <1>1, <2>4, States DEF StopFenced, OnCandidate, Decide, DecideAndSettle
    <2>5. CASE Decide(i, AwaitApproval(run, "pr", cmds[i].digest), <<>>)
      BY <1>1, <2>1, <2>5, States
         DEF StopFenced, OnCandidate, Decide, DecideAndSettle, ApprovalStateByGate
    <2> QED
      BY <1>3, <2>3, <2>4, <2>5 DEF DecideValidation, DecideReview
  <1> QED
    BY <1>2, <1>3

\* The steps that begin a stage leave its phase alone, or enter planning.
LEMMA BeginsFenced ==
    ASSUME Inv, NEW i \in DOMAIN cmds, Begin(i)
    PROVE  StopFenced /\ OnCandidate
  <1>1. \/ run' = run
        \/ run.state = "CREATED" /\ run'.state = "PLANNING"
        \/ run.state = "PREPARING_WORKTREE" /\ run'.state = run.state
    <2>1. CASE AdmitPlanning(i)
      BY <2>1, States DEF AdmitPlanning
    <2>2. CASE AdmitStage(i)
      BY <2>2 DEF AdmitStage
    <2>3. CASE StartPreparation(i)
      BY <2>3, BindLawful DEF StartPreparation, Inv
    <2>4. CASE CheckpointWorktree(i)
      <3>1. [worktree |-> TRUE, database |-> "DISABLED"] \in Resource
        BY DEF Resource, ResourceState
      <3> QED
        BY <2>4, <3>1, ResourceLawful DEF CheckpointWorktree, Inv
    <2> QED
      BY <2>1, <2>2, <2>3, <2>4 DEF Begin
  <1> QED
    BY <1>1 DEF StopFenced, OnCandidate

\* The gates are not working phases; only an approval of the content of the
\* worktree hands it over.
LEMMA GatesFenced ==
    ASSUME Inv, NEW i \in DOMAIN cmds,
           ApprovePlan(i) \/ RevisePlan(i) \/ ApprovePr(i) \/ ReviseCandidate(i)
    PROVE  StopFenced /\ OnCandidate
  <1>1. run.state \in ApprovalStates
    BY DEF ApprovePlan, RevisePlan, ApprovePr, ReviseCandidate, AtGate, ApprovalStateByGate,
           ApprovalStates
  <1>2. run.state \notin WorkingStates /\ run.state # "REVIEWING"
    BY <1>1 DEF ApprovalStates, WorkingStates, ActiveResumeStates
  <1>3. CASE run'.state # "PUBLISHING_PR"
    BY <1>2, <1>3 DEF StopFenced, OnCandidate
  <1>4. CASE ApprovePr(i) /\ EvidenceHolds(i) /\ approved' = cmds[i].digest
    BY <1>2, <1>4 DEF StopFenced, OnCandidate, ApprovePr, EvidenceHolds
  <1>5. \/ run'.state # "PUBLISHING_PR"
        \/ ApprovePr(i) /\ EvidenceHolds(i) /\ approved' = cmds[i].digest
    BY States DEF ApprovePlan, RevisePlan, RestartPlanning, ApprovePr, ReviseCandidate, Decide,
                  DecideAndSettle, BeginLocalRemediation
  <1> QED
    BY <1>3, <1>4, <1>5

\* Controls are the stops; a resume only gives back what was paused.
LEMMA ControlsFenced ==
    ASSUME Inv, NEW i \in DOMAIN cmds,
           \/ PauseRun(i) \/ CancelRun(i)
           \/ ResumeStage(i) \/ ResumePreparation(i) \/ ResumeGate(i)
    PROVE  StopFenced /\ OnCandidate
  <1>1. CASE PauseRun(i) \/ CancelRun(i)
    <2>1. run'.state \in {"PAUSED", "CANCELLED"}
      BY <1>1, States DEF PauseRun, CancelRun, Decide, DecideAndSettle
    <2> QED
      BY <2>1 DEF StopFenced, OnCandidate
  <1>2. CASE ResumeStage(i) \/ ResumePreparation(i) \/ ResumeGate(i)
    <2>1. /\ run.state = "PAUSED" /\ run' = Resume(run)
          /\ run.susp \in ActiveResumeStates \cup {"PREPARING_WORKTREE"} \cup ApprovalStates
                            \cup {"AWAITING_HUMAN_INTERVENTION"}
      BY <1>2 DEF ResumeStage, ResumePreparation, ResumeGate, Resuming, Restore, DecideAndSettle
    <2>2. run'.state = run.susp
      BY <2>1, ResumeLawful DEF Inv
    <2>3. run'.state # "PUBLISHING_PR" /\ run.state \notin WorkingStates
      BY <2>1, <2>2 DEF ActiveResumeStates, ApprovalStates, WorkingStates
    <2> QED
      BY <2>1, <2>3 DEF StopFenced, OnCandidate
  <1> QED
    BY <1>1, <1>2

\* Every step is fenced.
LEMMA StepFenced == Inv /\ [Next]_vars => StopFenced /\ OnCandidate
  <1> SUFFICES ASSUME Inv, [Next]_vars PROVE StopFenced /\ OnCandidate
    OBVIOUS
  <1>1. CASE UNCHANGED run
    BY <1>1 DEF StopFenced, OnCandidate
  <1>2. ASSUME NEW i \in DOMAIN cmds,
               \/ Claim(i) \/ Complete(i) \/ Expire(i) \/ FailStage(i) \/ LateResult(i)
               \/ RejectPlanning(i) \/ PublishEvidence(i) \/ StopStage(i) \/ RetainResult(i)
               \/ RejectDecision(i) \/ Replay(i) \/ RejectControl(i)
        PROVE  UNCHANGED run
    BY <1>2 DEF Claim, Complete, Expire, FailStage, LateResult, RejectPlanning, PublishEvidence,
                StopStage, RetainResult, Retain, RejectDecision, Replay, RejectControl
  <1>3. CASE \E i \in DOMAIN cmds :
                \/ Claim(i) \/ Complete(i) \/ Expire(i) \/ FailStage(i) \/ LateResult(i)
                \/ Begin(i) \/ Settle(i)
    BY <1>1, <1>2, <1>3, StagesFenced, BeginsFenced, GatesFenced, ControlsFenced DEF Settle
  <1>4. CASE \/ \E type \in {"pause", "resume", "cancel", "request_plan_revision",
                             "request_candidate_changes"} : Request(type)
             \/ \E gate \in {"plan", "pr"} : Authorize(gate)
    BY <1>1, <1>4, OperatorHolds
  <1>5. CASE Drift \/ UNCHANGED vars
    BY <1>1, <1>5 DEF Drift, vars
  <1> QED
    BY <1>3, <1>4, <1>5 DEF Next

\* What a stage or a gate decides, it decides over no accepted stop and on the
\* content it has seen, however the operator's requests, the drift of the
\* worktree and the redeliveries interleave.
THEOREM DecisionsAlwaysFenced == Spec => DecisionsFenced
  <1>1. Inv /\ [Next]_vars =>
          /\ [StopAccepted /\ run.state \in WorkingStates \ {"CREATED"} /\ run'.state # run.state
                => run'.state \in {"PAUSED", "CANCELLED"}]_vars
          /\ [/\ run'.state = "AWAITING_PR_APPROVAL" /\ run.state = "REVIEWING"
                   => run'.digest = head
              /\ run'.state = "PUBLISHING_PR" /\ run.state # "PUBLISHING_PR"
                   => run.digest = head /\ approved' = head]_vars
    BY StepFenced DEF StopFenced, OnCandidate
  <1> QED
    BY <1>1, LifecycleInvariant, PTL
       DEF Spec, DecisionsFenced, StopFencesDecisions, GateOnCandidate

----------------------------------------------------------------------------
(* The work of a phase.                                                    *)

\* Position i is kept by Keep(seq, S, changed).
Stays(seq, i, S, changed) ==
    /\ i \notin S
    /\ seq[i].status = "FAILED" => Phase(changed) = Phase(run)
    /\ seq[i].status = "STOPPED" => changed.version = run.version

\* Later elements of a set of positions have more of them at or before them.
LEMMA PositionsCount ==
    ASSUME NEW L \in Nat, NEW K \in SUBSET (1..L)
    PROVE  /\ IsFiniteSet(K)
           /\ \A i \in K : Cardinality({j \in K : j <= i}) \in 1..Cardinality(K)
           /\ \A i, k \in K : i < k => Cardinality({j \in K : j <= i})
                                         < Cardinality({j \in K : j <= k})
  <1> DEFINE upto(m) == {j \in K : j <= m}
  <1>0. \A j \in K : j \in Nat
    OBVIOUS
  <1>1. IsFiniteSet(K) /\ Cardinality(K) \in Nat
    <2>1. IsFiniteSet(1..L)
      BY FS_Interval
    <2>2. IsFiniteSet(K)
      BY <2>1, FS_Subset
    <2> QED
      BY <2>2, FS_CardinalityType
  <1>2. \A i \in K : /\ IsFiniteSet(upto(i)) /\ Cardinality(upto(i)) \in Nat
                     /\ Cardinality(upto(i)) <= Cardinality(K)
    <2> TAKE i \in K
    <2>1. upto(i) \in SUBSET K
      OBVIOUS
    <2>2. IsFiniteSet(upto(i)) /\ Cardinality(upto(i)) <= Cardinality(K)
      BY <1>1, <2>1, FS_Subset
    <2> QED
      BY <2>2, FS_CardinalityType
  <1>3. ASSUME NEW i \in K PROVE Cardinality(upto(i)) # 0
    <2>1. i \in upto(i)
      BY <1>0
    <2>2. upto(i) # {}
      BY <2>1
    <2>3. IsFiniteSet(upto(i))
      BY <1>2
    <2> HIDE DEF upto
    <2> QED
      BY <2>2, <2>3, FS_EmptySet
  <1>4. ASSUME NEW i \in K, NEW k \in K, i < k
        PROVE  Cardinality(upto(i)) < Cardinality(upto(k))
    <2>0. \A j \in K : j <= i => j <= k
      BY <1>0, <1>4
    <2>1. upto(i) \in SUBSET upto(k)
      BY <2>0
    <2>2. k \in upto(k) /\ k \notin upto(i)
      BY <1>0, <1>4
    <2>3. upto(i) # upto(k)
      BY <2>2
    <2>4. IsFiniteSet(upto(k)) /\ Cardinality(upto(k)) \in Nat /\ Cardinality(upto(i)) \in Nat
      BY <1>2
    <2> HIDE DEF upto
    <2>5. Cardinality(upto(i)) <= Cardinality(upto(k))
          /\ (Cardinality(upto(k)) = Cardinality(upto(i)) => upto(k) = upto(i))
      BY <2>1, <2>4, FS_Subset
    <2> QED
      BY <2>3, <2>4, <2>5
  <1>5. \A i \in K : Cardinality(upto(i)) \in 1..Cardinality(K)
    <2> TAKE i \in K
    <2>1. Cardinality(upto(i)) # 0 /\ Cardinality(upto(i)) \in Nat
          /\ Cardinality(upto(i)) <= Cardinality(K)
      BY <1>2, <1>3
    <2> HIDE DEF upto
    <2> QED
      BY <1>1, <2>1
  <1> QED
    BY <1>1, <1>4, <1>5

\* What is left of a queue is in its old order, and only what does not stay is
\* gone.
LEMMA KeptInOrder ==
    ASSUME NEW seq \in Seq(CommandRow), NEW S, NEW changed
    PROVE  \E f \in [DOMAIN Keep(seq, S, changed) -> DOMAIN seq] :
             /\ \A n \in DOMAIN f : /\ Keep(seq, S, changed)[n] = seq[f[n]]
                                    /\ Stays(seq, f[n], S, changed)
             /\ \A m, n \in DOMAIN f : m < n => f[m] < f[n]
             /\ \A i \in DOMAIN seq : Stays(seq, i, S, changed) => \E n \in DOMAIN f : f[n] = i
  <1> DEFINE kept == {i \in DOMAIN seq : Stays(seq, i, S, changed)}
             rank(i) == Cardinality({j \in kept : j <= i})
             pos(n) == CHOOSE i \in kept : rank(i) = n
             q == [n \in 1..Cardinality(kept) |-> seq[pos(n)]]
             f == [n \in 1..Cardinality(kept) |-> pos(n)]
  <1>1. Len(seq) \in Nat /\ DOMAIN seq = 1..Len(seq)
    OBVIOUS
  <1>2. kept \in SUBSET (1..Len(seq))
    BY <1>1
  <1>3. \A i \in kept : i \in DOMAIN seq /\ i \in Nat /\ Stays(seq, i, S, changed)
    BY <1>1
  <1>4. \A i \in DOMAIN seq : Stays(seq, i, S, changed) => i \in kept
    OBVIOUS
  <1>5. Keep(seq, S, changed) = q
    BY DEF Keep, Stays
  <1> HIDE DEF kept
  <1>6. /\ \A i \in kept : rank(i) \in 1..Cardinality(kept)
        /\ \A i, k \in kept : i < k => rank(i) < rank(k)
    BY <1>1, <1>2, PositionsCount
  <1>7. \A n \in 1..Cardinality(kept) : pos(n) \in kept /\ rank(pos(n)) = n
    <2> TAKE n \in 1..Cardinality(kept)
    <2>1. \E i \in kept : rank(i) = n
      BY <1>1, <1>2, NthPosition
    <2> HIDE DEF rank
    <2> QED
      BY <2>1
  <1>8. Cardinality(kept) \in Nat
    BY <1>1, <1>2, PositionsCount, FS_CardinalityType
  <1> HIDE DEF rank, pos
  <1>9. \A i, k \in kept : rank(i) = rank(k) => i = k
    <2> TAKE i, k \in kept
    <2>1. i \in Nat /\ k \in Nat /\ rank(i) \in Nat /\ rank(k) \in Nat
      BY <1>3, <1>6, <1>8
    <2> QED
      BY <1>6, <2>1
  <1>10. \A m, n \in 1..Cardinality(kept) : m < n => pos(m) < pos(n)
    <2> TAKE m, n \in 1..Cardinality(kept)
    <2>1. pos(m) \in Nat /\ pos(n) \in Nat /\ m \in Nat /\ n \in Nat
      BY <1>3, <1>7
    <2>2. rank(pos(m)) = m /\ rank(pos(n)) = n /\ pos(m) \in kept /\ pos(n) \in kept
      BY <1>7
    <2>3. pos(n) < pos(m) => n < m
      BY <1>6, <2>2
    <2> QED
      BY <2>1, <2>2, <2>3
  <1>11. \A i \in kept : rank(i) \in 1..Cardinality(kept) /\ pos(rank(i)) = i
    BY <1>6, <1>7, <1>9
  <1>12. DOMAIN q = 1..Cardinality(kept) /\ DOMAIN f = 1..Cardinality(kept)
    OBVIOUS
  <1>13. \A n \in 1..Cardinality(kept) : q[n] = seq[pos(n)] /\ f[n] = pos(n)
    OBVIOUS
  <1>14. f \in [DOMAIN q -> DOMAIN seq]
    BY <1>3, <1>7
  <1> HIDE DEF f, q
  <1>15. /\ \A n \in DOMAIN f : q[n] = seq[f[n]] /\ Stays(seq, f[n], S, changed)
         /\ \A m, n \in DOMAIN f : m < n => f[m] < f[n]
         /\ \A i \in DOMAIN seq : Stays(seq, i, S, changed) => \E n \in DOMAIN f : f[n] = i
    BY <1>3, <1>4, <1>7, <1>10, <1>11, <1>12, <1>13
  <1> QED
    BY <1>5, <1>14, <1>15

\* A stage's command, and one that is not decided.
Stage(c) == c.type \in StageTypes

Open(c) == Stage(c) /\ c.result = 0

\* A decided stage that is not acknowledged.
Unacknowledged(c) ==
    /\ Stage(c)
    /\ c.status \in {"PENDING", "LEASED", "EXPIRED"}
    /\ c.work \in {"applied", "redelivered"}

\* The phase of the run, seen through a pause; one under an intervention does
\* not count.
At(r) == IF r.state = "PAUSED" THEN r.susp ELSE r.state

\* The command is of the run as it is.
OfVersion(c, r) ==
    IF c.type = "prepare_worktree" THEN c.version <= r.version
                                   ELSE r.version \in AdmittedVersions(c)

\* Command i is the only one that is open, and no stage is behind it.
Last(q, i) ==
    /\ i \in DOMAIN q /\ Open(q[i])
    /\ \A j \in DOMAIN q : Stage(q[j]) => j <= i /\ (Open(q[j]) => j = i)

Closed(q) == \A j \in DOMAIN q : ~ Open(q[j])

Waits(q) ==
    \A i, j \in DOMAIN q :
        Unacknowledged(q[i]) /\ i < j /\ Stage(q[j]) => q[j].status = "PENDING"

Unprepared == {"CREATED", "PLANNING", "AWAITING_PLAN_APPROVAL"}

\* What a row says about the run: only an undecided stage of a stopped run has
\* stopped; a decision has a version, except of a review that failed; and the
\* worktree is prepared once.
Sound(c, r) ==
    /\ c.status = "STOPPED" => c.work = "stopped"
    /\ c.work = "stopped" => /\ Open(c)
                             /\ \/ r.state = "PAUSED" /\ r.susp \in WorkingStates
                                \/ r.state = "CANCELLED"
    /\ c.work = "applied" => c.result # 0
    /\ c.work = "redelivered" /\ c.result = 0 => c.type = "review" /\ c.version < r.version
    /\ c.type = "prepare_worktree" => /\ At(r) \notin Unprepared
                                      /\ At(r) = "PREPARING_WORKTREE" => c.result = 0

AllSound(q, r) == \A i \in DOMAIN q : Sound(q[i], r)

\* A working phase has one open command, of its stage; at a gate none is open.
Driven(q, r) ==
    /\ At(r) \in WorkingStates =>
         \E i \in DOMAIN q : /\ Last(q, i) /\ q[i].type = StageOf(At(r))
                             /\ r.state # "PAUSED" => OfVersion(q[i], r)
    /\ At(r) \in ApprovalStates => Closed(q)

Worked(q, r) == Driven(q, r) /\ Waits(q) /\ AllSound(q, r)

WorkInv == Worked(cmds, run)

\* Dropping rows keeps what is said of the others.
LEMMA KeptWaits ==
    ASSUME NEW q \in Seq(CommandRow), NEW S, NEW changed, Waits(q)
    PROVE  Waits(Keep(q, S, changed))
  <1> DEFINE k == Keep(q, S, changed)
  <1>1. PICK f \in [DOMAIN k -> DOMAIN q] :
             /\ \A n \in DOMAIN f : k[n] = q[f[n]]
             /\ \A m, n \in DOMAIN f : m < n => f[m] < f[n]
    BY KeptInOrder
  <1> HIDE DEF k
  <1>2. Waits(k)
    BY <1>1 DEF Waits
  <1> QED
    BY <1>2 DEF k

\* Nor does it change what the rows say of the run.
LEMMA KeptSound ==
    ASSUME NEW q \in Seq(CommandRow), NEW S, NEW changed, NEW r, AllSound(q, r)
    PROVE  AllSound(Keep(q, S, changed), r)
  <1> DEFINE k == Keep(q, S, changed)
  <1>1. \A n \in DOMAIN k : \E i \in DOMAIN q : k[n] = q[i]
    BY KeptRows
  <1> HIDE DEF k
  <1>2. AllSound(k, r)
    BY <1>1 DEF AllSound
  <1> QED
    BY <1>2 DEF k

\* The open command that stays is still the only one and the last.
LEMMA KeptLast ==
    ASSUME NEW q \in Seq(CommandRow), NEW S, NEW changed,
           NEW i, Last(q, i), Stays(q, i, S, changed)
    PROVE  \E n \in DOMAIN Keep(q, S, changed) :
              Last(Keep(q, S, changed), n) /\ Keep(q, S, changed)[n] = q[i]
  <1> DEFINE k == Keep(q, S, changed)
  <1>1. PICK f \in [DOMAIN k -> DOMAIN q] :
             /\ \A n \in DOMAIN f : k[n] = q[f[n]]
             /\ \A m, n \in DOMAIN f : m < n => f[m] < f[n]
             /\ \A j \in DOMAIN q : Stays(q, j, S, changed) => \E n \in DOMAIN f : f[n] = j
    BY KeptInOrder
  <1>2. k \in Seq(CommandRow)
    BY KeptRows
  <1> HIDE DEF k
  <1>3. PICK n \in DOMAIN k : f[n] = i
    BY <1>1 DEF Last
  <1>4. DOMAIN k = 1..Len(k) /\ DOMAIN q = 1..Len(q)
    BY <1>2
  <1>5. ASSUME NEW m \in DOMAIN k, Stage(k[m]) PROVE m <= n /\ (Open(k[m]) => m = n)
    <2>1. k[m] = q[f[m]] /\ f[m] \in DOMAIN q
      BY <1>1
    <2>2. f[m] <= i /\ (Open(k[m]) => f[m] = i)
      BY <1>5, <2>1 DEF Last
    <2>3. m \in Nat /\ n \in Nat /\ f[m] \in Nat /\ i \in Nat
      BY <1>3, <1>4, <2>1 DEF Last
    <2>4. n < m => i < f[m]
      BY <1>1, <1>3
    <2>5. m < n => f[m] < i
      BY <1>1, <1>3
    <2> QED
      BY <2>2, <2>3, <2>4, <2>5
  <1>6. k[n] = q[i]
    BY <1>1, <1>3
  <1>7. Last(k, n)
    BY <1>3, <1>5, <1>6 DEF Last
  <1> QED
    BY <1>6, <1>7 DEF k

\* Once every open command is dropped, none is left.
LEMMA KeptClosed ==
    ASSUME NEW q \in Seq(CommandRow), NEW S, NEW changed,
           \A i \in DOMAIN q : Open(q[i]) => i \in S
    PROVE  Closed(Keep(q, S, changed))
  <1> DEFINE k == Keep(q, S, changed)
  <1>1. PICK f \in [DOMAIN k -> DOMAIN q] :
             \A n \in DOMAIN f : k[n] = q[f[n]] /\ Stays(q, f[n], S, changed)
    BY KeptInOrder
  <1> HIDE DEF k
  <1>2. Closed(k)
    BY <1>1 DEF Closed, Stays
  <1> QED
    BY <1>2 DEF k

\* The queue with a command behind it.
LEMMA Behind ==
    ASSUME NEW q \in Seq(CommandRow), NEW c
    PROVE  /\ q \o <<c>> = Append(q, c)
           /\ Len(q) \in Nat /\ DOMAIN q = 1..Len(q)
           /\ DOMAIN Append(q, c) = 1..(Len(q) + 1)
           /\ Append(q, c)[Len(q) + 1] = c
           /\ \A i \in DOMAIN q : Append(q, c)[i] = q[i]
  <1>1. q \in Seq(CommandRow \cup {c})
    OBVIOUS
  <1>2. <<c>> \in Seq(CommandRow \cup {c})
    OBVIOUS
  <1> QED
    BY <1>1, <1>2

\* A new command waits.
LEMMA NewWaits ==
    ASSUME NEW q \in Seq(CommandRow), NEW c, Waits(q), c.status = "PENDING"
    PROVE  Waits(Append(q, c))
  <1>1. ASSUME NEW i \in DOMAIN Append(q, c), NEW j \in DOMAIN Append(q, c),
               Unacknowledged(Append(q, c)[i]), i < j, Stage(Append(q, c)[j])
        PROVE  Append(q, c)[j].status = "PENDING"
    <2>1. CASE j = Len(q) + 1
      BY <2>1, Behind
    <2>2. CASE j # Len(q) + 1
      <3>1. i \in DOMAIN q /\ j \in DOMAIN q
        BY <1>1, <2>2, Behind
      <3> QED
        BY <1>1, <3>1, Behind DEF Waits
    <2> QED
      BY <2>1, <2>2
  <1> QED
    BY <1>1 DEF Waits

\* A sound row may be added.
LEMMA NewSound ==
    ASSUME NEW q \in Seq(CommandRow), NEW c, NEW r, AllSound(q, r), Sound(c, r)
    PROVE  AllSound(Append(q, c), r)
  <1>1. ASSUME NEW i \in DOMAIN Append(q, c) PROVE Sound(Append(q, c)[i], r)
    <2>1. CASE i = Len(q) + 1
      BY <2>1, Behind
    <2>2. CASE i # Len(q) + 1
      <3>1. i \in DOMAIN q
        BY <1>1, <2>2, Behind
      <3> QED
        BY <3>1, Behind DEF AllSound
    <2> QED
      BY <2>1, <2>2
  <1> QED
    BY <1>1 DEF AllSound

\* A stage enqueued where none is open is the only open one and the last.
LEMMA NewLast ==
    ASSUME NEW q \in Seq(CommandRow), NEW c, Closed(q), Open(c)
    PROVE  Last(Append(q, c), Len(q) + 1)
  <1>1. ASSUME NEW j \in DOMAIN Append(q, c)
        PROVE  j <= Len(q) + 1 /\ (Open(Append(q, c)[j]) => j = Len(q) + 1)
    <2>1. j # Len(q) + 1 => j \in DOMAIN q
      BY Behind
    <2> QED
      BY <2>1, Behind DEF Closed
  <1>2. Len(q) + 1 \in DOMAIN Append(q, c) /\ Append(q, c)[Len(q) + 1] = c
    BY Behind
  <1> QED
    BY <1>1, <1>2 DEF Last

\* Another command leaves the stages as they are.
LEMMA NewOther ==
    ASSUME NEW q \in Seq(CommandRow), NEW c, ~ Stage(c)
    PROVE  /\ Closed(q) => Closed(Append(q, c))
           /\ \A i \in DOMAIN q : Last(q, i) => Last(Append(q, c), i)
  <1>1. \A j \in DOMAIN Append(q, c) :
           \/ j \in DOMAIN q /\ Append(q, c)[j] = q[j]
           \/ Append(q, c)[j] = c
    <2> TAKE j \in DOMAIN Append(q, c)
    <2>1. j # Len(q) + 1 => j \in DOMAIN q
      BY Behind
    <2> QED
      BY <2>1, Behind
  <1>2. \A j \in DOMAIN q : j \in DOMAIN Append(q, c) /\ Append(q, c)[j] = q[j]
    <2> TAKE j \in DOMAIN q
    <2>1. j \in DOMAIN Append(q, c)
      BY Behind
    <2> QED
      BY <2>1, Behind
  <1> HIDE DEF Stage
  <1>3. Closed(q) => Closed(Append(q, c))
    BY <1>1 DEF Closed, Open
  <1>4. \A i \in DOMAIN q : Last(q, i) => Last(Append(q, c), i)
    BY <1>1, <1>2 DEF Last, Open
  <1> QED
    BY <1>3, <1>4

\* One row of the queue replaced.
LEMMA SetRow ==
    ASSUME Inv, NEW i \in DOMAIN cmds, NEW c \in CommandRow
    PROVE  /\ Set(i, c) \in Seq(CommandRow) /\ DOMAIN Set(i, c) = DOMAIN cmds
           /\ Set(i, c)[i] = c
           /\ \A j \in DOMAIN cmds : j # i => Set(i, c)[j] = cmds[j]
           /\ cmds \in Seq(CommandRow)
           /\ \A j \in DOMAIN cmds : j \in Nat
  <1>1. cmds \in Seq(CommandRow)
    BY DEF Inv, Queue
  <1>2. DOMAIN cmds = 1..Len(cmds)
    BY <1>1
  <1> QED
    BY <1>1, <1>2 DEF Set

\* A row may be rewritten if it starts no stage behind an unacknowledged one.
LEMMA SetWaits ==
    ASSUME Inv, Waits(cmds), NEW i \in DOMAIN cmds, NEW c \in CommandRow,
           c.type = cmds[i].type,
           Unacknowledged(c) => \/ Unacknowledged(cmds[i])
                                \/ \A j \in DOMAIN cmds : Stage(cmds[j]) => j <= i,
           Stage(c) /\ c.status # "PENDING"
             => \/ cmds[i].status # "PENDING"
                \/ \A j \in DOMAIN cmds : Unacknowledged(cmds[j]) => ~ (j < i)
    PROVE  Waits(Set(i, c))
  <1> DEFINE q == Set(i, c)
  <1>1. /\ DOMAIN q = DOMAIN cmds /\ q[i] = c
        /\ \A j \in DOMAIN cmds : j # i => q[j] = cmds[j]
        /\ \A j \in DOMAIN cmds : j \in Nat
    BY SetRow
  <1> HIDE DEF q
  <1>2. ASSUME NEW m \in DOMAIN cmds, NEW n \in DOMAIN cmds,
               Unacknowledged(q[m]), m < n, Stage(q[n])
        PROVE  q[n].status = "PENDING"
    <2>1. CASE m # i /\ n # i
      BY <1>1, <1>2, <2>1 DEF Waits
    <2>2. CASE m = i /\ n # i
      <3>1. Unacknowledged(c) /\ Stage(cmds[n]) /\ q[n] = cmds[n] /\ i \in Nat /\ n \in Nat
        BY <1>1, <1>2, <2>2
      <3>2. ~ (n <= i)
        BY <1>2, <2>2, <3>1
      <3> QED
        BY <1>2, <2>2, <3>1, <3>2 DEF Waits
    <2>3. CASE m # i /\ n = i
      <3>1. Unacknowledged(cmds[m]) /\ Stage(c) /\ q[n] = c
        BY <1>1, <1>2, <2>3
      <3>2. Stage(cmds[i])
        BY <3>1 DEF Stage
      <3>3. cmds[i].status = "PENDING"
        BY <1>2, <2>3, <3>1, <3>2 DEF Waits
      <3> QED
        BY <1>2, <2>3, <3>1, <3>3
    <2> QED
      BY <1>1, <1>2, <2>1, <2>2, <2>3
  <1>3. Waits(q)
    BY <1>1, <1>2 DEF Waits
  <1> QED
    BY <1>3 DEF q

\* A sound row may take the place of another.
LEMMA SetSound ==
    ASSUME Inv, NEW i \in DOMAIN cmds, NEW c \in CommandRow, NEW r,
           AllSound(cmds, r), Sound(c, r)
    PROVE  AllSound(Set(i, c), r)
  BY SetRow DEF AllSound

\* Which stages are open depends on types and results only.
LEMMA SetOpen ==
    ASSUME Inv, NEW i \in DOMAIN cmds, NEW c \in CommandRow, c.type = cmds[i].type
    PROVE  /\ c.result = cmds[i].result => \A n \in DOMAIN cmds : Last(cmds, n) => Last(Set(i, c), n)
           /\ ~ Open(c) /\ Closed(cmds) => Closed(Set(i, c))
           /\ ~ Open(c) /\ Last(cmds, i) => Closed(Set(i, c))
           /\ ~ Stage(c) => \A n \in DOMAIN cmds : Last(cmds, n) => Last(Set(i, c), n)
  <1> DEFINE q == Set(i, c)
  <1>1. /\ DOMAIN q = DOMAIN cmds /\ q[i] = c
        /\ \A j \in DOMAIN cmds : j # i => q[j] = cmds[j]
    BY SetRow
  <1> HIDE DEF q
  <1>2. Stage(c) <=> Stage(cmds[i])
    BY DEF Stage
  <1>3. ASSUME c.result = cmds[i].result \/ ~ Stage(c)
        PROVE  \A n \in DOMAIN cmds : Last(cmds, n) => Last(q, n)
    <2>1. Open(c) <=> Open(cmds[i])
      BY <1>2, <1>3 DEF Open
    <2> QED
      BY <1>1, <1>2, <2>1 DEF Last
  <1>4. ~ Open(c) /\ Closed(cmds) => Closed(q)
    BY <1>1 DEF Closed
  <1>5. ~ Open(c) /\ Last(cmds, i) => Closed(q)
    BY <1>1 DEF Closed, Last, Open
  <1> QED
    BY <1>3, <1>4, <1>5 DEF q

\* A step that only moves one delivery.
LEMMA RewriteWorks ==
    ASSUME Inv, WorkInv, NEW i \in DOMAIN cmds, NEW c \in CommandRow,
           c.type = cmds[i].type, c.version = cmds[i].version, c.result = cmds[i].result,
           Sound(c, run),
           Unacknowledged(c) => Unacknowledged(cmds[i]),
           Stage(c) /\ c.status # "PENDING"
             => \/ cmds[i].status # "PENDING"
                \/ \A j \in DOMAIN cmds : Unacknowledged(cmds[j]) => ~ (j < i),
           cmds' = Set(i, c), UNCHANGED run
    PROVE  WorkInv'
  <1> DEFINE q == Set(i, c)
  <1>1. /\ DOMAIN q = DOMAIN cmds /\ q[i] = c
        /\ \A j \in DOMAIN cmds : j # i => q[j] = cmds[j]
    BY SetRow
  <1>2. Driven(cmds, run) /\ Waits(cmds) /\ AllSound(cmds, run)
    BY DEF WorkInv, Worked
  <1>3. Waits(q) /\ AllSound(q, run)
    BY <1>2, SetWaits, SetSound
  <1>4. \A n \in DOMAIN cmds : Last(cmds, n) => Last(q, n)
    BY SetOpen
  <1>5. Closed(cmds) => Closed(q)
    BY <1>1 DEF Closed, Open, Stage
  <1>6. \A n \in DOMAIN cmds : q[n].type = cmds[n].type /\ (OfVersion(cmds[n], run) => OfVersion(q[n], run))
    BY <1>1 DEF OfVersion, AdmittedVersions
  <1> HIDE DEF q
  <1>7. Driven(q, run)
    BY <1>1, <1>2, <1>4, <1>5, <1>6 DEF Driven
  <1>8. Worked(q, run)
    BY <1>3, <1>7 DEF Worked
  <1> QED
    BY <1>8 DEF WorkInv, q

\* A command other than an open stage is dropped.
LEMMA DropWorks ==
    ASSUME Inv, WorkInv, NEW i \in DOMAIN cmds, ~ Open(cmds[i]), Drop(i), UNCHANGED run
    PROVE  WorkInv'
  <1> DEFINE k == Keep(cmds, {i}, run)
  <1>1. cmds \in Seq(CommandRow)
    BY DEF Inv, Queue
  <1>2. Driven(cmds, run) /\ Waits(cmds) /\ AllSound(cmds, run)
    BY DEF WorkInv, Worked
  <1>3. Waits(k) /\ AllSound(k, run)
    BY <1>1, <1>2, KeptWaits, KeptSound
  <1>4. ASSUME NEW n, Last(cmds, n)
        PROVE  \E m \in DOMAIN k : Last(k, m) /\ k[m] = cmds[n]
    <2>1. n # i
      BY <1>4 DEF Last
    <2>2. Stays(cmds, n, {i}, run)
      BY <2>1 DEF Stays
    <2> QED
      BY <1>1, <1>4, <2>2, KeptLast
  <1>5. ASSUME Closed(cmds) PROVE Closed(k)
    BY <1>1, <1>5, KeptClosed DEF Closed
  <1> HIDE DEF k
  <1>6. Driven(k, run)
    <2>1. ASSUME At(run) \in WorkingStates
          PROVE  \E m \in DOMAIN k : /\ Last(k, m) /\ k[m].type = StageOf(At(run))
                                     /\ run.state # "PAUSED" => OfVersion(k[m], run)
      <3>1. PICK n \in DOMAIN cmds : /\ Last(cmds, n) /\ cmds[n].type = StageOf(At(run))
                                     /\ run.state # "PAUSED" => OfVersion(cmds[n], run)
        BY <1>2, <2>1 DEF Driven
      <3>2. PICK m \in DOMAIN k : Last(k, m) /\ k[m] = cmds[n]
        BY <1>4, <3>1
      <3> QED
        BY <3>1, <3>2
    <2> QED
      BY <1>2, <1>5, <2>1 DEF Driven
  <1>7. Worked(k, run)
    BY <1>3, <1>6 DEF Worked
  <1> QED
    BY <1>7 DEF WorkInv, k, Drop

\* An operator's request is no stage.
LEMMA RequestWorks ==
    ASSUME Inv, WorkInv, NEW type \in CommandTypes \ StageTypes, NEW digest,
           cmds' = Append(cmds, Command(type, run.version, digest)), UNCHANGED run
    PROVE  WorkInv'
  <1> DEFINE c == Command(type, run.version, digest)
             q == Append(cmds, c)
  <1>1. cmds \in Seq(CommandRow)
    BY DEF Inv, Queue
  <1>2. Driven(cmds, run) /\ Waits(cmds) /\ AllSound(cmds, run)
    BY DEF WorkInv, Worked
  <1>3. c.status = "PENDING" /\ ~ Stage(c) /\ c.work = "none" /\ c.type = type
    BY DEF Command, Stage
  <1>4. type # "prepare_worktree"
    BY DEF StageTypes
  <1>5. Sound(c, run)
    BY <1>3, <1>4 DEF Sound
  <1> HIDE DEF c
  <1>6. Waits(q) /\ AllSound(q, run)
    BY <1>1, <1>2, <1>3, <1>5, NewWaits, NewSound
  <1>7. /\ Closed(cmds) => Closed(q)
        /\ \A i \in DOMAIN cmds : Last(cmds, i) => Last(q, i)
        /\ \A i \in DOMAIN cmds : i \in DOMAIN q /\ q[i] = cmds[i]
    <2>1. \A i \in DOMAIN cmds : i \in DOMAIN q /\ q[i] = cmds[i]
      <3> TAKE i \in DOMAIN cmds
      <3>1. i \in DOMAIN q
        BY <1>1, Behind
      <3> QED
        BY <1>1, <3>1, Behind
    <2> QED
      BY <1>1, <1>3, <2>1, NewOther
  <1> HIDE DEF q
  <1>8. Driven(q, run)
    BY <1>2, <1>7 DEF Driven
  <1>9. Worked(q, run)
    BY <1>6, <1>8 DEF Worked
  <1> QED
    BY <1>9 DEF WorkInv, q, c

\* The run moves on, undisturbed by a control: no row of a stopped run is left
\* to contradict it.
LEMMA MovesSound ==
    ASSUME NEW q \in Seq(CommandRow), NEW r \in RunSnapshot, NEW changed \in RunSnapshot,
           r.version < changed.version, AllSound(q, r),
           \A i \in DOMAIN q : q[i].work # "stopped",
           At(changed) \in Unprepared => At(r) \in Unprepared,
           At(changed) = "PREPARING_WORKTREE" => At(r) \in Unprepared \cup {"PREPARING_WORKTREE"}
    PROVE  AllSound(q, changed)
  <1>1. r.version \in Nat /\ changed.version \in Nat
    BY DEF RunSnapshot
  <1>2. ASSUME NEW i \in DOMAIN q PROVE Sound(q[i], changed)
    <2>1. q[i] \in CommandRow /\ Sound(q[i], r) /\ q[i].work # "stopped"
      BY DEF AllSound
    <2>2. q[i].version \in Nat
      BY <2>1 DEF CommandRow
    <2>3. q[i].version < r.version => q[i].version < changed.version
      BY <1>1, <2>2
    <2> QED
      BY <2>1, <2>3 DEF Sound
  <1> QED
    BY <1>2 DEF AllSound

\* Once every stage is decided, what is enqueued is the next phase's work.
LEMMA EnqueuedWorks ==
    ASSUME NEW k \in Seq(CommandRow), NEW changed \in RunSnapshot, changed.state # "PAUSED",
           Closed(k), Waits(k), AllSound(k, changed), NEW next, NEW d,
           \/ next = <<>> /\ changed.state \notin WorkingStates
           \/ /\ next = <<Command("publish_pr", changed.version, d)>>
              /\ changed.state \notin WorkingStates \cup ApprovalStates
           \/ /\ next = <<Command(StageOf(changed.state), changed.version, d)>>
              /\ changed.state \in WorkingStates
    PROVE  Worked(k \o next, changed)
  <1>0. At(changed) = changed.state
    BY DEF At
  <1>1. WorkingStates \cap ApprovalStates = {}
    BY DEF WorkingStates, ActiveResumeStates, ApprovalStates
  <1>2. CASE next = <<>> /\ changed.state \notin WorkingStates
    <2>1. k \o next = k
      BY <1>2
    <2> QED
      BY <1>0, <1>2, <2>1 DEF Worked, Driven
  <1>3. CASE /\ next = <<Command("publish_pr", changed.version, d)>>
             /\ changed.state \notin WorkingStates \cup ApprovalStates
    <2> DEFINE c == Command("publish_pr", changed.version, d)
    <2>1. k \o next = Append(k, c)
      BY <1>3, Behind
    <2>2. c.status = "PENDING" /\ c.work = "none" /\ c.type = "publish_pr"
      BY DEF Command
    <2>3. Sound(c, changed)
      BY <2>2 DEF Sound
    <2> HIDE DEF c
    <2>4. Waits(Append(k, c)) /\ AllSound(Append(k, c), changed)
      BY <2>2, <2>3, NewWaits, NewSound
    <2> QED
      BY <1>0, <1>3, <2>1, <2>4 DEF Worked, Driven
  <1>4. CASE /\ next = <<Command(StageOf(changed.state), changed.version, d)>>
             /\ changed.state \in WorkingStates
    <2> DEFINE c == Command(StageOf(changed.state), changed.version, d)
               q == Append(k, c)
    <2>1. k \o next = q
      BY <1>4, Behind
    <2>2. /\ c.status = "PENDING" /\ c.work = "none" /\ c.type = StageOf(changed.state)
          /\ c.result = 0 /\ c.version = changed.version
      BY DEF Command
    <2>3. /\ StageOf(changed.state) \in StageTypes
          /\ StageOf(changed.state) = "prepare_worktree" => changed.state = "PREPARING_WORKTREE"
      BY <1>4 DEF StageOf, StageTypes, WorkingStates, ActiveResumeStates
    <2>4. Sound(c, changed) /\ Open(c)
      BY <1>0, <2>2, <2>3 DEF Sound, Open, Stage, Unprepared
    <2>5. changed.version \in Nat
      BY DEF RunSnapshot
    <2>6. OfVersion(c, changed)
      BY <2>2, <2>5 DEF OfVersion, AdmittedVersions
    <2> HIDE DEF c
    <2>7. Waits(q) /\ AllSound(q, changed)
      BY <2>2, <2>4, NewWaits, NewSound
    <2>8. Last(q, Len(k) + 1) /\ q[Len(k) + 1] = c
      BY <2>4, NewLast, Behind
    <2> HIDE DEF q
    <2>9. Len(k) + 1 \in DOMAIN q
      BY <2>8 DEF Last
    <2>10. Driven(q, changed)
      BY <1>0, <1>1, <1>4, <2>2, <2>6, <2>8, <2>9 DEF Driven
    <2> QED
      BY <2>1, <2>7, <2>10 DEF Worked
  <1> QED
    BY <1>2, <1>3, <1>4

\* The row of a command that has decided.
LEMMA DecidedRow ==
    ASSUME Inv, NEW i \in DOMAIN cmds, cmds[i].result = 0,
           NEW changed, Lawful(changed), NEW S, NEW next, DecideAndSettle(i, changed, S, next)
    PROVE  \E c \in CommandRow :
              /\ c.type = cmds[i].type /\ c.version = cmds[i].version /\ c.status = cmds[i].status
              /\ c.work = "applied" /\ c.result = changed.version /\ c.result # 0
              /\ run' = changed /\ cmds' = Keep(Set(i, c), S, changed) \o next
  <1> DEFINE c == [cmds[i] EXCEPT !.work = IF cmds[i].result = 0 THEN "applied" ELSE "twice",
                                  !.result = changed.version]
  <1>1. cmds[i] \in CommandRow /\ run.version \in Nat
    BY ARow
  <1>2. changed.version \in Nat /\ changed.version > run.version
    BY DEF Lawful, RowInv, Decoded, RunSnapshot
  <1>3. c \in CommandRow /\ c.type = cmds[i].type /\ c.version = cmds[i].version
        /\ c.status = cmds[i].status /\ c.work = "applied" /\ c.result = changed.version
    BY <1>1, <1>2 DEF CommandRow, Work
  <1>4. c.result # 0
    BY <1>1, <1>2, <1>3
  <1>5. run' = changed /\ cmds' = Keep(Set(i, c), S, changed) \o next
    BY DEF DecideAndSettle
  <1> HIDE DEF c
  <1> QED
    BY <1>3, <1>4, <1>5

\* A run that moves has no stopped rows, unless it is stopped itself.
LEMMA NoneStopped ==
    ASSUME AllSound(cmds, run), run.state \notin {"PAUSED", "CANCELLED"}
    PROVE  \A i \in DOMAIN cmds : cmds[i].work # "stopped"
  BY DEF AllSound, Sound

\* A stage or a gate decides: nothing is open any more but what it enqueues.
LEMMA DecisionWorks ==
    ASSUME Inv, WorkInv, NEW i \in DOMAIN cmds, cmds[i].result = 0,
           run.state \notin {"PAUSED", "CANCELLED"},
           \/ Last(cmds, i) /\ cmds[i].status = "LEASED"
           \/ Closed(cmds) /\ ~ Stage(cmds[i]),
           NEW changed, Lawful(changed), changed.state # "PAUSED",
           changed.state \in Unprepared => run.state \in Unprepared,
           changed.state = "PREPARING_WORKTREE"
             => run.state \in Unprepared /\ cmds[i].type # "prepare_worktree",
           cmds[i].type = "prepare_worktree" => changed.state \notin Unprepared,
           NEW next, NEW d,
           \/ next = <<>> /\ changed.state \notin WorkingStates
           \/ /\ next = <<Command("publish_pr", changed.version, d)>>
              /\ changed.state \notin WorkingStates \cup ApprovalStates
           \/ /\ next = <<Command(StageOf(changed.state), changed.version, d)>>
              /\ changed.state \in WorkingStates,
           Decide(i, changed, next)
    PROVE  WorkInv'
  <1>1. PICK c \in CommandRow :
              /\ c.type = cmds[i].type /\ c.version = cmds[i].version /\ c.status = cmds[i].status
              /\ c.work = "applied" /\ c.result # 0
              /\ run' = changed /\ cmds' = Keep(Set(i, c), {}, changed) \o next
    BY DecidedRow DEF Decide
  <1> DEFINE q == Set(i, c)
             k == Keep(q, {}, changed)
  <1>2. Waits(cmds) /\ AllSound(cmds, run)
    BY DEF WorkInv, Worked
  <1>3. cmds \in Seq(CommandRow) /\ q \in Seq(CommandRow)
    BY SetRow
  <1>4. run \in RunSnapshot /\ changed \in RunSnapshot /\ run.version < changed.version
    BY DEF Inv, Lawful, RowInv, Decoded, RunSnapshot
  <1>5. At(run) = run.state /\ At(changed) = changed.state
    BY DEF At
  <1>6. AllSound(cmds, changed)
    BY <1>2, <1>3, <1>4, <1>5, NoneStopped, MovesSound
  <1>7. Sound(c, changed)
    <2>1. cmds[i].status # "STOPPED"
      BY <1>2, NoneStopped DEF AllSound, Sound
    <2> QED
      BY <1>1, <1>5, <2>1 DEF Sound
  <1>8. AllSound(q, changed)
    BY <1>6, <1>7, SetSound
  <1>9. ~ Open(c)
    BY <1>1 DEF Open
  <1>10. Closed(q)
    BY <1>1, <1>9, SetOpen
  <1>11. Waits(q)
    <2>1. CASE Last(cmds, i) /\ cmds[i].status = "LEASED"
      <3>1. \A j \in DOMAIN cmds : Stage(cmds[j]) => j <= i
        BY <2>1 DEF Last
      <3>2. cmds[i].status # "PENDING"
        BY <2>1
      <3> QED
        BY <1>1, <1>2, <3>1, <3>2, SetWaits
    <2>2. CASE ~ Stage(cmds[i])
      <3>1. ~ Stage(c) /\ ~ Unacknowledged(c)
        BY <1>1, <2>2 DEF Stage, Unacknowledged
      <3> QED
        BY <1>1, <1>2, <3>1, SetWaits
    <2> QED
      BY <2>1, <2>2
  <1> HIDE DEF q
  <1>12. k \in Seq(CommandRow)
    BY <1>3, KeptRows
  <1>13. Closed(k)
    BY <1>3, <1>10, KeptClosed DEF Closed
  <1>14. Waits(k) /\ AllSound(k, changed)
    BY <1>3, <1>8, <1>11, KeptWaits, KeptSound
  <1> HIDE DEF k
  <1>15. Worked(k \o next, changed)
    BY <1>4, <1>12, <1>13, <1>14, EnqueuedWorks
  <1> QED
    BY <1>1, <1>15 DEF WorkInv, k, q

----------------------------------------------------------------------------
(* The steps keep the work.                                                *)

\* A delivery that works on the run's phase is of its one open command.
LEMMA TheOne ==
    ASSUME Inv, WorkInv, NEW i \in DOMAIN cmds, At(run) \in WorkingStates, Open(cmds[i])
    PROVE  /\ Last(cmds, i) /\ cmds[i].type = StageOf(At(run))
           /\ run.state # "PAUSED" => OfVersion(cmds[i], run)
  <1>1. PICK n \in DOMAIN cmds : /\ Last(cmds, n) /\ cmds[n].type = StageOf(At(run))
                                 /\ run.state # "PAUSED" => OfVersion(cmds[n], run)
    BY DEF WorkInv, Worked, Driven
  <1>2. i = n
    BY <1>1 DEF Last, Open
  <1> QED
    BY <1>1, <1>2

\* A claim is refused while an earlier stage is decided and not acknowledged.
LEMMA ClaimWorks ==
    ASSUME Inv, WorkInv, NEW i \in DOMAIN cmds, Claim(i)
    PROVE  WorkInv'
  <1> DEFINE w == Redelivered(cmds[i])
             c == [cmds[i] EXCEPT !.status = "LEASED", !.work = w]
  <1>0. cmds \in Seq(CommandRow) /\ DOMAIN cmds = 1..Len(cmds) /\ Len(cmds) \in Nat
    BY DEF Inv, Queue
  <1>1. cmds[i] \in CommandRow /\ cmds[i].work \in Work /\ Sound(cmds[i], run)
    BY ARow DEF CommandRow, WorkInv, Worked, AllSound
  <1>2. w \in Work
    BY <1>1 DEF Redelivered, Work
  <1>3. /\ w = "stopped" => cmds[i].work = "stopped"
        /\ w # "applied"
        /\ w = "redelivered" => cmds[i].work \in {"applied", "redelivered"}
    BY <1>1 DEF Redelivered, Work
  <1>4. cmds' = Set(i, c) /\ UNCHANGED run /\ cmds[i].status \in {"PENDING", "EXPIRED"}
    BY DEF Claim, Claimable, NormalClaimable, ControlClaimable
  <1> HIDE DEF w
  <1>5. /\ c \in CommandRow /\ c.type = cmds[i].type /\ c.version = cmds[i].version
        /\ c.result = cmds[i].result /\ c.status = "LEASED" /\ c.work = w
    BY <1>1, <1>2 DEF CommandRow, Status
  <1> HIDE DEF c
  <1>6. Sound(c, run)
    BY <1>1, <1>3, <1>5 DEF Sound, Open, Stage
  <1>7. Unacknowledged(c) => Unacknowledged(cmds[i])
    BY <1>3, <1>4, <1>5 DEF Unacknowledged, Stage
  <1>8. ASSUME Stage(c), NEW j \in DOMAIN cmds, Unacknowledged(cmds[j]), j < i PROVE FALSE
    <2>1. ~ IsControl(i) /\ ~ IsControl(j) /\ cmds[i].type # "resume" /\ cmds[j].type # "publish_pr"
      BY <1>5, <1>8 DEF Stage, Unacknowledged, StageTypes, ControlTypes, IsControl
    <2>2. NormalClaimable(i) /\ \A n \in 1..(i - 1) : ~ NormalClaimable(n)
      BY <2>1 DEF Claim, Claimable, ControlClaimable
    <2>3. j \in 1..(i - 1)
      BY <1>0, <1>8
    <2>4. cmds[j].status \in {"PENDING", "EXPIRED"}
      BY <1>8, <2>2 DEF Unacknowledged, NormalClaimable
    <2>5. NormalClaimable(j)
      BY <2>1, <2>2, <2>4 DEF NormalClaimable
    <2> QED
      BY <2>2, <2>3, <2>5
  <1> QED
    BY <1>4, <1>5, <1>6, <1>7, <1>8, RewriteWorks

\* A delivery that is under way changes its status or how far it has come.
LEMMA ProgressWorks ==
    ASSUME Inv, WorkInv, NEW i \in DOMAIN cmds, NEW c,
           \/ \E s \in Status : c = [cmds[i] EXCEPT !.status = s]
           \/ \E w \in Work : c = [cmds[i] EXCEPT !.work = w]
           \/ \E w \in Work, d \in Digests \cup {none} : c = [cmds[i] EXCEPT !.work = w, !.digest = d],
           cmds[i].status # "PENDING",
           c.status = "STOPPED" => c.work = "stopped",
           c.work = "stopped" => /\ Open(cmds[i])
                                 /\ \/ run.state = "PAUSED" /\ run.susp \in WorkingStates
                                    \/ run.state = "CANCELLED",
           c.work = "applied" => cmds[i].result # 0,
           c.work \in {"applied", "redelivered"} => cmds[i].work \in {"applied", "redelivered"},
           c.status \in {"PENDING", "LEASED", "EXPIRED"}
             => cmds[i].status \in {"PENDING", "LEASED", "EXPIRED"},
           cmds' = Set(i, c), UNCHANGED run
    PROVE  WorkInv'
  <1>1. cmds[i] \in CommandRow /\ Sound(cmds[i], run)
    BY ARow DEF WorkInv, Worked, AllSound
  <1>2. /\ c \in CommandRow /\ c.type = cmds[i].type /\ c.version = cmds[i].version
        /\ c.result = cmds[i].result
    BY <1>1 DEF CommandRow
  <1>3. Sound(c, run)
    BY <1>1, <1>2 DEF Sound, Open, Stage
  <1>4. Unacknowledged(c) => Unacknowledged(cmds[i])
    BY <1>2 DEF Unacknowledged, Stage
  <1> QED
    BY <1>2, <1>3, <1>4, RewriteWorks

\* Steps of one delivery that leave the run alone.
LEMMA DeliveryWorks ==
    ASSUME Inv, WorkInv, NEW i \in DOMAIN cmds,
           \/ Complete(i) \/ Expire(i) \/ FailStage(i) \/ LateResult(i) \/ AdmitStage(i)
           \/ RejectPlanning(i) \/ PublishEvidence(i) \/ StopStage(i) \/ RetainResult(i)
           \/ RejectDecision(i) \/ Replay(i) \/ RejectControl(i)
    PROVE  WorkInv'
  <1>0. /\ cmds[i] \in CommandRow /\ Fits(cmds[i], run) /\ Sound(cmds[i], run)
        /\ cmds[i].version \in Nat /\ cmds[i].result \in Nat
        /\ run.version \in Nat
        /\ cmds[i].status \in Status /\ cmds[i].work \in Work /\ cmds[i].digest \in Digests \cup {none}
    BY ARow DEF CommandRow, WorkInv, Worked, AllSound
  <1>1. /\ \A s \in Status : LET c == [cmds[i] EXCEPT !.status = s]
                             IN  c.status = s /\ c.work = cmds[i].work
        /\ \A w \in Work : LET c == [cmds[i] EXCEPT !.work = w]
                           IN  c.status = cmds[i].status /\ c.work = w
        /\ \A w \in Work, d \in Digests \cup {none} :
             LET c == [cmds[i] EXCEPT !.work = w, !.digest = d]
             IN  c.status = cmds[i].status /\ c.work = w
    BY <1>0 DEF CommandRow
  <1>2. UNCHANGED run
    BY DEF Complete, Expire, FailStage, LateResult, RejectPlanning, PublishEvidence, StopStage,
           RetainResult, Retain, RejectDecision, Replay, RejectControl, AdmitStage
  <1>3. CASE \E s \in {"EXPIRED", "FAILED"} : /\ cmds' = Set(i, [cmds[i] EXCEPT !.status = s])
                                              /\ cmds[i].status = "LEASED"
    <2>1. PICK s \in {"EXPIRED", "FAILED"} : /\ cmds' = Set(i, [cmds[i] EXCEPT !.status = s])
                                             /\ cmds[i].status = "LEASED"
      BY <1>3
    <2> DEFINE c == [cmds[i] EXCEPT !.status = s]
    <2>2. s \in Status
      BY DEF Status
    <2>3. c.status = s /\ c.work = cmds[i].work /\ \E t \in Status : c = [cmds[i] EXCEPT !.status = t]
      BY <1>1, <2>2
    <2> HIDE DEF c
    <2> QED
      BY <1>0, <1>2, <2>1, <2>3, ProgressWorks DEF Sound, c
  <1>4. CASE \E w \in {"retained", "orphaned", "published"} :
               cmds' = Set(i, [cmds[i] EXCEPT !.work = w]) /\ cmds[i].status \in {"LEASED", "EXPIRED"}
    <2>1. PICK w \in {"retained", "orphaned", "published"} :
               cmds' = Set(i, [cmds[i] EXCEPT !.work = w]) /\ cmds[i].status \in {"LEASED", "EXPIRED"}
      BY <1>4
    <2> DEFINE c == [cmds[i] EXCEPT !.work = w]
    <2>2. w \in Work
      BY DEF Work
    <2>3. c.status = cmds[i].status /\ c.work = w /\ \E t \in Work : c = [cmds[i] EXCEPT !.work = t]
      BY <1>1, <2>2
    <2> HIDE DEF c
    <2> QED
      BY <1>2, <2>1, <2>3, ProgressWorks DEF c
  <1>5. CASE Complete(i)
    <2>1. CASE cmds[i].work \in {"applied", "twice"} /\ Drop(i)
      <3>1. ~ Open(cmds[i])
        BY <1>0, <2>1 DEF Sound, Fits, Open
      <3> QED
        BY <1>2, <2>1, <3>1, DropWorks
    <2>2. CASE cmds[i].work = "stopped" /\ cmds' = Set(i, [cmds[i] EXCEPT !.status = "STOPPED"])
      <3> DEFINE c == [cmds[i] EXCEPT !.status = "STOPPED"]
      <3>1. "STOPPED" \in Status /\ cmds[i].status = "LEASED"
        BY <1>5 DEF Status, Complete
      <3>2. c.status = "STOPPED" /\ c.work = cmds[i].work
            /\ \E t \in Status : c = [cmds[i] EXCEPT !.status = t]
        BY <1>1, <3>1
      <3> HIDE DEF c
      <3> QED
        BY <1>0, <1>2, <2>2, <3>1, <3>2, ProgressWorks DEF Sound, c
    <2> QED
      BY <1>5, <2>1, <2>2 DEF Complete
  <1>6. CASE AdmitStage(i)
    <2>1. PICK d \in Digests \cup {none} : cmds' = Set(i, [cmds[i] EXCEPT !.work = "admitted", !.digest = d])
      <3>1. head \in Digests
        BY DEF Inv
      <3>2. CASE cmds[i].type = "validate"
        BY <1>6, <3>1, <3>2 DEF AdmitStage
      <3>3. CASE cmds[i].type # "validate"
        BY <1>0, <1>6, <3>3 DEF AdmitStage
      <3> QED
        BY <3>2, <3>3
    <2> DEFINE c == [cmds[i] EXCEPT !.work = "admitted", !.digest = d]
    <2>2. "admitted" \in Work /\ cmds[i].status = "LEASED"
      BY <1>6 DEF Work, AdmitStage, Finishing, Leased
    <2>3. c.status = cmds[i].status /\ c.work = "admitted"
          /\ \E t \in Work, e \in Digests \cup {none} : c = [cmds[i] EXCEPT !.work = t, !.digest = e]
      BY <1>1, <2>2
    <2> HIDE DEF c
    <2> QED
      BY <1>2, <2>1, <2>2, <2>3, ProgressWorks DEF c
  <1>7. CASE StopStage(i)
    <2> DEFINE c == [cmds[i] EXCEPT !.work = "stopped"]
    <2>1. /\ "stopped" \in Work /\ cmds[i].status = "LEASED" /\ cmds[i].work = "admitted"
          /\ cmds[i].type \in StageTypes /\ cmds' = Set(i, c) /\ StoppedByControl(i)
      BY <1>7 DEF Work, StopStage, AgentTypes, StageTypes
    <2>2. Open(cmds[i])
      BY <1>0, <2>1 DEF Fits, Open, Stage
    <2>3. StagePhase(cmds[i].type) \in WorkingStates
      BY <2>1 DEF StagePhase, StageTypes, WorkingStates, ActiveResumeStates
    <2>4. (run.state = "PAUSED" /\ run.susp \in WorkingStates) \/ run.state = "CANCELLED"
      BY <2>1, <2>3 DEF StoppedByControl
    <2>5. c.status = cmds[i].status /\ c.work = "stopped" /\ \E t \in Work : c = [cmds[i] EXCEPT !.work = t]
      BY <1>1, <2>1
    <2> HIDE DEF c
    <2> QED
      BY <1>2, <2>1, <2>2, <2>4, <2>5, ProgressWorks
  <1>8. CASE Replay(i)
    <2> DEFINE c == [cmds[i] EXCEPT !.work = "applied"]
    <2>1. /\ "applied" \in Work /\ cmds[i].status = "LEASED" /\ cmds[i].work = "redelivered"
          /\ cmds' = Set(i, c)
          /\ cmds[i].type = "start_planning" \/ run.version = cmds[i].result
      BY <1>8 DEF Work, Replay
    <2>2. cmds[i].result # 0
      BY <1>0, <2>1 DEF Sound
    <2>3. c.status = cmds[i].status /\ c.work = "applied" /\ \E t \in Work : c = [cmds[i] EXCEPT !.work = t]
      BY <1>1, <2>1
    <2> HIDE DEF c
    <2> QED
      BY <1>2, <2>1, <2>2, <2>3, ProgressWorks
  <1>9. CASE RejectDecision(i) \/ RejectControl(i)
    <2>1. Drop(i) /\ cmds[i].type \notin StageTypes
      BY <1>9 DEF RejectDecision, RejectControl, Leased, StageTypes
    <2> QED
      BY <1>2, <2>1, DropWorks DEF Open, Stage
  <1>10. CASE Expire(i) \/ FailStage(i) \/ RejectPlanning(i)
    BY <1>3, <1>10 DEF Expire, FailStage, RejectPlanning, Leased
  <1>11. CASE LateResult(i) \/ PublishEvidence(i) \/ RetainResult(i)
    BY <1>4, <1>11 DEF LateResult, PublishEvidence, RetainResult, Retain, Finishing, Leased
  <1> QED
    BY <1>5, <1>6, <1>7, <1>8, <1>9, <1>10, <1>11

\* The run moves, or does not, under the delivery of its one open command.
LEMMA CheckpointWorks ==
    ASSUME Inv, WorkInv, NEW i \in DOMAIN cmds, Last(cmds, i),
           cmds[i].status \in {"LEASED", "EXPIRED"}, run.state \notin {"PAUSED", "CANCELLED"},
           NEW c \in CommandRow, c.type = cmds[i].type, c.version = cmds[i].version,
           c.result = cmds[i].result, c.status = cmds[i].status,
           UNCHANGED run \/ Lawful(run'), run'.state # "PAUSED",
           Sound(c, run'),
           run'.state \in Unprepared => run.state \in Unprepared,
           run'.state = "PREPARING_WORKTREE" => run.state = "PREPARING_WORKTREE",
           run'.state \in WorkingStates => c.type = StageOf(run'.state) /\ OfVersion(c, run'),
           run'.state \notin ApprovalStates,
           cmds' = Keep(Set(i, c), {}, run')
    PROVE  WorkInv'
  <1> DEFINE q == Set(i, c)
             k == Keep(q, {}, run')
  <1>1. Waits(cmds) /\ AllSound(cmds, run)
    BY DEF WorkInv, Worked
  <1>2. At(run) = run.state /\ At(run') = run'.state
    BY DEF At
  <1>3. AllSound(cmds, run')
    <2>1. CASE UNCHANGED run
      BY <1>1, <2>1
    <2>2. CASE Lawful(run')
      <3>1. cmds \in Seq(CommandRow)
        BY SetRow
      <3>2. run \in RunSnapshot /\ run' \in RunSnapshot /\ run.version < run'.version
        BY <2>2 DEF Inv, Lawful, RowInv, Decoded, RunSnapshot
      <3> QED
        BY <1>1, <1>2, <3>1, <3>2, NoneStopped, MovesSound
    <2> QED
      BY <2>1, <2>2
  <1>4. q \in Seq(CommandRow) /\ q[i] = c /\ AllSound(q, run') /\ Last(q, i)
    BY <1>3, SetRow, SetSound, SetOpen
  <1>5. Waits(q)
    <2>1. \A j \in DOMAIN cmds : Stage(cmds[j]) => j <= i
      BY DEF Last
    <2> QED
      BY <1>1, <2>1, SetWaits
  <1> HIDE DEF q
  <1>6. Waits(k) /\ AllSound(k, run')
    BY <1>4, <1>5, KeptWaits, KeptSound
  <1>7. PICK n \in DOMAIN k : Last(k, n) /\ k[n] = c
    <2>1. Stays(q, i, {}, run')
      BY <1>4 DEF Stays
    <2> QED
      BY <1>4, <2>1, KeptLast
  <1> HIDE DEF k
  <1>8. Driven(k, run')
    BY <1>2, <1>7 DEF Driven
  <1> QED
    BY <1>6, <1>8 DEF WorkInv, Worked, k, q

\* The steps that begin a stage.
LEMMA BeginWorks ==
    ASSUME Inv, WorkInv, NEW i \in DOMAIN cmds,
           AdmitPlanning(i) \/ StartPreparation(i) \/ CheckpointWorktree(i)
    PROVE  WorkInv'
  <1> DEFINE c == [cmds[i] EXCEPT !.work = "admitted"]
  <1>0. /\ cmds[i] \in CommandRow /\ cmds[i].version \in Nat /\ cmds[i].version <= run.version
        /\ run.version \in Nat /\ run \in RunSnapshot
    BY ARow DEF Fits
  <1>1. /\ c \in CommandRow /\ c.type = cmds[i].type /\ c.version = cmds[i].version
        /\ c.result = cmds[i].result /\ c.status = cmds[i].status /\ c.work = "admitted"
    BY <1>0 DEF CommandRow, Work
  <1>2. /\ cmds[i].status \in {"LEASED", "EXPIRED"} /\ cmds[i].result = 0
        /\ cmds[i].type \in {"start_planning", "prepare_worktree"}
        /\ run.state \in {"CREATED", "PLANNING", "PREPARING_WORKTREE"}
    BY Undecided DEF AdmitPlanning, StartPreparation, CheckpointWorktree, Leased
  <1>3. Open(cmds[i]) /\ At(run) = run.state /\ run.state \in WorkingStates
    BY <1>2 DEF Open, Stage, StageTypes, At, WorkingStates, ActiveResumeStates
  <1>4. Last(cmds, i) /\ cmds[i].type = StageOf(run.state) /\ OfVersion(cmds[i], run)
    BY <1>2, <1>3, TheOne
  <1>5. /\ UNCHANGED run \/ Lawful(run')
        /\ \/ run'.state = run.state
           \/ /\ run.state = "CREATED" /\ run'.state = "PLANNING"
              /\ run.version = cmds[i].version /\ run'.version = run.version + 1
    <2>1. CASE AdmitPlanning(i)
      <3>1. CASE run.state = "CREATED" /\ run' = Transition(run, "PLANNING")
        BY <2>1, <3>1, MoveLawful, StageEdges, States DEF AdmitPlanning, Inv, ApprovalStates
      <3> QED
        BY <2>1, <3>1 DEF AdmitPlanning
    <2>2. CASE StartPreparation(i)
      BY <2>2, BindLawful DEF StartPreparation, Inv
    <2>3. CASE CheckpointWorktree(i)
      <3>1. [worktree |-> TRUE, database |-> "DISABLED"] \in Resource
        BY DEF Resource, ResourceState
      <3> QED
        BY <2>3, <3>1, ResourceLawful DEF CheckpointWorktree, Inv
    <2> QED
      BY <2>1, <2>2, <2>3
  <1>6. cmds' = Keep(Set(i, c), {}, run')
    <2>1. CASE AdmitPlanning(i) \/ StartPreparation(i)
      BY <2>1 DEF AdmitPlanning, StartPreparation
    <2>2. CASE CheckpointWorktree(i)
      <3>1. c = cmds[i]
        BY <1>0, <2>2 DEF CheckpointWorktree, CommandRow
      <3>2. Set(i, cmds[i]) = cmds
        BY SetRow, <1>0 DEF Set
      <3> QED
        BY <2>2, <3>1, <3>2 DEF CheckpointWorktree
    <2> QED
      BY <2>1, <2>2
  <1> HIDE DEF c
  <1>7. /\ run'.state \in {"CREATED", "PLANNING", "PREPARING_WORKTREE"}
        /\ StageOf(run'.state) = cmds[i].type
        /\ run'.state \in Unprepared => run.state \in Unprepared
        /\ run'.state = "PREPARING_WORKTREE" => run.state = "PREPARING_WORKTREE"
    BY <1>2, <1>4, <1>5 DEF StageOf, Unprepared
  <1>8. At(run') = run'.state /\ run'.state # "PAUSED" /\ run'.state \notin ApprovalStates
    BY <1>7 DEF At, ApprovalStates
  <1>9. Sound(c, run')
    BY <1>1, <1>2, <1>7, <1>8 DEF Sound, StageOf, Unprepared
  <1>10. OfVersion(c, run')
    <2>1. CASE cmds[i].type = "prepare_worktree"
      <3>1. run'.version \in Nat /\ run'.version >= run.version
        BY <1>0, <1>5 DEF Lawful, RowInv, Decoded, RunSnapshot
      <3> QED
        BY <1>0, <1>1, <2>1, <3>1 DEF OfVersion
    <2>2. CASE cmds[i].type = "start_planning"
      <3>1. run.state \in {"CREATED", "PLANNING"}
        BY <1>2, <1>4, <2>2 DEF StageOf
      <3>2. run'.version \in {cmds[i].version, cmds[i].version + 1}
        <4>1. AdmitPlanning(i)
          BY <2>2, <3>1 DEF StartPreparation, CheckpointWorktree
        <4> QED
          BY <1>0, <4>1, States, MoveLawful, StageEdges DEF AdmitPlanning, Inv, ApprovalStates
      <3> QED
        BY <1>1, <2>2, <3>2 DEF OfVersion, AdmittedVersions
    <2> QED
      BY <1>2, <2>1, <2>2
  <1>11. run.state \notin {"PAUSED", "CANCELLED"}
    BY <1>2
  <1> QED
    BY <1>1, <1>2, <1>4, <1>5, <1>6, <1>7, <1>8, <1>9, <1>10, <1>11, CheckpointWorks

\* A review that failed is never acknowledged; nothing waits behind it.
LEMMA FailReviewWorks ==
    ASSUME Inv, WorkInv, NEW i \in DOMAIN cmds, FailReview(i)
    PROVE  WorkInv'
  <1> DEFINE c == [cmds[i] EXCEPT !.work = "redelivered"]
  <1>0. /\ cmds[i] \in CommandRow /\ cmds[i].version \in Nat /\ cmds[i].version <= run.version
        /\ run.version \in Nat
    BY ARow DEF Fits
  <1>1. /\ c \in CommandRow /\ c.type = cmds[i].type /\ c.version = cmds[i].version
        /\ c.result = cmds[i].result /\ c.status = cmds[i].status /\ c.work = "redelivered"
    BY <1>0 DEF CommandRow, Work
  <1>2. /\ cmds[i].status = "LEASED" /\ cmds[i].result = 0 /\ cmds[i].type = "review"
        /\ run.state = "REVIEWING" /\ run' = Intervene(run) /\ cmds' = Keep(Set(i, c), {}, run')
    BY Undecided DEF FailReview, Finishing, Leased, Current, StagePhase
  <1> HIDE DEF c
  <1>3. Last(cmds, i)
    BY <1>2, TheOne DEF Open, Stage, StageTypes, At, WorkingStates, ActiveResumeStates
  <1>4. Lawful(run') /\ run'.state = "AWAITING_HUMAN_INTERVENTION"
    BY <1>2, InterveneLawful, States DEF InterventionSourceStates, Inv
  <1>5. cmds[i].version < run'.version
    BY <1>0, <1>4 DEF Lawful, RowInv, Decoded, RunSnapshot
  <1>6. Sound(c, run')
    BY <1>1, <1>2, <1>5 DEF Sound
  <1>7. run'.state \notin WorkingStates \cup ApprovalStates \cup Unprepared
    BY <1>4 DEF WorkingStates, ActiveResumeStates, ApprovalStates, Unprepared
  <1> QED
    BY <1>1, <1>2, <1>3, <1>4, <1>6, <1>7, CheckpointWorks

\* A stage in its phase is the one open command.
LEMMA StageDecides ==
    ASSUME Inv, WorkInv, NEW i \in DOMAIN cmds, cmds[i].status = "LEASED",
           cmds[i].type \in StageTypes, cmds[i].work \notin {"applied", "redelivered"},
           run.state = StagePhase(cmds[i].type)
    PROVE  /\ cmds[i].result = 0 /\ Last(cmds, i)
           /\ run.state \in WorkingStates \ {"CREATED"}
           /\ run.state \notin {"PAUSED", "CANCELLED"}
  <1>1. cmds[i].result = 0
    BY Undecided
  <1>2. run.state \in WorkingStates \ {"CREATED"} /\ run.state \notin {"PAUSED", "CANCELLED"}
    BY DEF StagePhase, StageTypes, WorkingStates, ActiveResumeStates
  <1>3. Last(cmds, i)
    BY <1>1, <1>2, TheOne DEF Open, Stage, At
  <1> QED
    BY <1>1, <1>2, <1>3

\* A decision that hands the run to a human.
LEMMA InterventionWorks ==
    ASSUME Inv, WorkInv, NEW i \in DOMAIN cmds, cmds[i].result = 0,
           \/ Last(cmds, i) /\ cmds[i].status = "LEASED"
           \/ Closed(cmds) /\ ~ Stage(cmds[i]),
           run.state \in InterventionSourceStates, Decide(i, Intervene(run), <<>>)
    PROVE  WorkInv'
  <1> DEFINE changed == Intervene(run)
  <1>1. Lawful(changed) /\ changed.state = "AWAITING_HUMAN_INTERVENTION"
    BY InterveneLawful, States DEF Inv
  <1>2. run.state \notin {"PAUSED", "CANCELLED"}
    BY DEF InterventionSourceStates
  <1> HIDE DEF changed
  <1>3. changed.state \notin WorkingStates \cup Unprepared
    BY <1>1 DEF WorkingStates, ActiveResumeStates, Unprepared
  <1> QED
    BY <1>1, <1>2, <1>3, DecisionWorks DEF changed

\* A decision that takes the run to another working phase.
LEMMA MoveWorks ==
    ASSUME Inv, WorkInv, NEW i \in DOMAIN cmds, cmds[i].result = 0,
           \/ Last(cmds, i) /\ cmds[i].status = "LEASED"
           \/ Closed(cmds) /\ ~ Stage(cmds[i]),
           run.state \notin {"PAUSED", "CANCELLED"},
           NEW t \in LEGAL[run.state], t \in WorkingStates,
           t \in Unprepared => run.state \in Unprepared /\ cmds[i].type # "prepare_worktree",
           t = "PREPARING_WORKTREE" => run.state \in Unprepared /\ cmds[i].type # "prepare_worktree",
           NEW d, Decide(i, Transition(run, t), <<Command(StageOf(t), run.version + 1, d)>>)
    PROVE  WorkInv'
  <1> DEFINE changed == Transition(run, t)
  <1>1. t \notin ApprovalStates \cup {"AWAITING_HUMAN_INTERVENTION", "PAUSED"}
    BY DEF WorkingStates, ActiveResumeStates, ApprovalStates
  <1>2. Lawful(changed) /\ changed.version = run.version + 1 /\ changed.state = t
    BY <1>1, MoveLawful, States DEF Inv
  <1> HIDE DEF changed
  <1>3. Decide(i, changed, <<Command(StageOf(changed.state), changed.version, d)>>)
    BY <1>2 DEF changed
  <1> QED
    BY <1>1, <1>2, <1>3, DecisionWorks

\* Remediation, or a human at its limit.
LEMMA RemediationWorks ==
    ASSUME Inv, WorkInv, NEW i \in DOMAIN cmds, cmds[i].result = 0,
           Last(cmds, i), cmds[i].status = "LEASED",
           run.state \in {"VALIDATING", "REVIEWING"}, Remediate(i)
    PROVE  WorkInv'
  <1> DEFINE changed == BeginLocalRemediation(run, TRUE)
             next == IF changed.state = "REMEDIATING"
                     THEN <<Command("remediate", changed.version, none)>> ELSE <<>>
  <1>1. Lawful(changed) /\ changed.state \in {"REMEDIATING", "AWAITING_HUMAN_INTERVENTION"}
    BY RemediateLawful DEF Inv
  <1>2. Decide(i, changed, next)
    BY DEF Remediate
  <1> HIDE DEF changed
  <1>3. /\ changed.state \notin Unprepared \cup {"PAUSED", "PREPARING_WORKTREE"}
        /\ changed.state = "REMEDIATING" => changed.state \in WorkingStates
        /\ changed.state # "REMEDIATING" => changed.state \notin WorkingStates
        /\ StageOf("REMEDIATING") = "remediate"
    BY <1>1 DEF WorkingStates, ActiveResumeStates, Unprepared, StageOf
  <1>4. \/ next = <<>> /\ changed.state \notin WorkingStates
        \/ /\ next = <<Command(StageOf(changed.state), changed.version, none)>>
           /\ changed.state \in WorkingStates
    BY <1>3
  <1> HIDE DEF next
  <1> QED
    BY <1>1, <1>2, <1>3, <1>4, DecisionWorks

\* A decision that opens a gate.
LEMMA GateWorks ==
    ASSUME Inv, WorkInv, NEW i \in DOMAIN cmds, cmds[i].result = 0,
           Last(cmds, i), cmds[i].status = "LEASED", cmds[i].type # "prepare_worktree",
           NEW gate \in {"plan", "pr"}, NEW d \in Digests,
           run.state = IF gate = "plan" THEN "PLANNING" ELSE "REVIEWING",
           Decide(i, AwaitApproval(run, gate, d), <<>>)
    PROVE  WorkInv'
  <1> DEFINE changed == AwaitApproval(run, gate, d)
  <1>1. gate \in ApprovalGate /\ ApprovalStateByGate(gate) \in LEGAL[run.state]
    BY StageEdges DEF ApprovalGate, ApprovalStateByGate
  <1>2. Lawful(changed) /\ changed.state = ApprovalStateByGate(gate)
    BY <1>1, GateLawful, States DEF Inv
  <1> HIDE DEF changed
  <1>3. /\ changed.state \notin WorkingStates \cup {"PAUSED", "PREPARING_WORKTREE"}
        /\ changed.state \in Unprepared => run.state \in Unprepared
        /\ run.state \notin {"PAUSED", "CANCELLED"}
    BY <1>2 DEF WorkingStates, ActiveResumeStates, Unprepared, ApprovalStateByGate
  <1> QED
    BY <1>2, <1>3, DecisionWorks DEF changed

\* The run is cancelled by its planner's failure.
LEMMA PlanningCancelWorks ==
    ASSUME Inv, WorkInv, NEW i \in DOMAIN cmds, cmds[i].result = 0,
           Last(cmds, i), cmds[i].status = "LEASED", run.state = "PLANNING",
           Decide(i, Transition(run, "CANCELLED"), <<>>)
    PROVE  WorkInv'
  <1> DEFINE changed == Transition(run, "CANCELLED")
  <1>1. "CANCELLED" \notin ApprovalStates \cup {"AWAITING_HUMAN_INTERVENTION"}
    BY DEF ApprovalStates
  <1>2. Lawful(changed) /\ changed.state = "CANCELLED"
    BY <1>1, MoveLawful, StageEdges, States DEF Inv
  <1> HIDE DEF changed
  <1>3. changed.state \notin WorkingStates \cup Unprepared \cup {"PAUSED", "PREPARING_WORKTREE"}
    BY <1>2 DEF WorkingStates, ActiveResumeStates, Unprepared
  <1> QED
    BY <1>2, <1>3, DecisionWorks DEF changed

\* What the stages decide.
LEMMA StagesWork ==
    ASSUME Inv, WorkInv, NEW i \in DOMAIN cmds,
           \/ FinishPlanning(i) \/ FinishDevelopment(i) \/ DecideValidation(i)
           \/ DecideReview(i) \/ FinishPreparation(i)
    PROVE  WorkInv'
  <1>0. /\ cmds[i].status = "LEASED" /\ cmds[i].type \in StageTypes
        /\ cmds[i].work \in {"admitted", "published"} /\ run.state = StagePhase(cmds[i].type)
    BY DEF FinishPlanning, FinishDevelopment, DecideValidation, DecideReview, FinishPreparation,
           Finishing, Leased, Current, StageTypes, StagePhase
  <1>1. /\ cmds[i].result = 0 /\ Last(cmds, i) /\ run.state \notin {"PAUSED", "CANCELLED"}
        /\ run.state \in InterventionSourceStates
    BY <1>0, StageDecides DEF WorkingStates, ActiveResumeStates, InterventionSourceStates
  <1>2. ASSUME NEW t \in {"IMPLEMENTING", "VALIDATING", "REVIEWING"}
        PROVE  t \in WorkingStates /\ t \notin Unprepared \cup {"PREPARING_WORKTREE"}
    BY DEF WorkingStates, ActiveResumeStates, Unprepared
  <1>3. /\ StageOf("IMPLEMENTING") = "implement" /\ StageOf("VALIDATING") = "validate"
        /\ StageOf("REVIEWING") = "review"
    BY DEF StageOf
  <1>4. Decide(i, Intervene(run), <<>>) => WorkInv'
    BY <1>0, <1>1, InterventionWorks
  <1>5. CASE FinishPlanning(i)
    <2>1. run.state = "PLANNING" /\ cmds[i].type = "start_planning"
      BY <1>5 DEF FinishPlanning, Finishing, Leased, Current, StagePhase
    <2>2. CASE \E plan \in Digests : Decide(i, AwaitApproval(run, "plan", plan), <<>>)
      BY <1>0, <1>1, <2>1, <2>2, GateWorks
    <2>3. CASE Decide(i, Transition(run, "CANCELLED"), <<>>)
      BY <1>0, <1>1, <2>1, <2>3, PlanningCancelWorks
    <2> QED
      BY <1>4, <1>5, <2>2, <2>3 DEF FinishPlanning
  <1>6. CASE FinishDevelopment(i)
    <2>1. run.state \in {"IMPLEMENTING", "REMEDIATING"}
      BY <1>6 DEF FinishDevelopment, Finishing, Leased, Current, StagePhase
    <2>2. "VALIDATING" \in LEGAL[run.state]
      BY <2>1, StageEdges
    <2>3. CASE Decide(i, Transition(run, "VALIDATING"),
                      <<Command("validate", run.version + 1, none)>>)
      BY <1>0, <1>1, <1>2, <1>3, <2>2, <2>3, MoveWorks
    <2> QED
      BY <1>4, <1>6, <2>3 DEF FinishDevelopment
  <1>7. CASE DecideValidation(i)
    <2>1. run.state = "VALIDATING"
      BY <1>7 DEF DecideValidation, Finishing, Leased, Current, StagePhase
    <2>2. "REVIEWING" \in LEGAL[run.state]
      BY <2>1, StageEdges
    <2>3. CASE Decide(i, Transition(run, "REVIEWING"),
                      <<Command("review", run.version + 1, cmds[i].digest)>>)
      BY <1>0, <1>1, <1>2, <1>3, <2>2, <2>3, MoveWorks
    <2> QED
      BY <1>0, <1>1, <1>7, <2>1, <2>3, RemediationWorks DEF DecideValidation
  <1>8. CASE DecideReview(i)
    <2>1. run.state = "REVIEWING" /\ cmds[i].type = "review" /\ cmds[i].digest \in Digests
      BY <1>8 DEF DecideReview, Finishing, Leased, Current, StagePhase, SameCandidate, Inv
    <2>2. CASE Decide(i, AwaitApproval(run, "pr", cmds[i].digest), <<>>)
      BY <1>0, <1>1, <2>1, <2>2, GateWorks
    <2> QED
      BY <1>0, <1>1, <1>8, <2>1, <2>2, RemediationWorks DEF DecideReview
  <1>9. CASE FinishPreparation(i)
    <2>1. "IMPLEMENTING" \in LEGAL[run.state]
      BY <1>9, StageEdges DEF FinishPreparation
    <2>2. CASE Decide(i, Transition(run, "IMPLEMENTING"),
                      <<Command("implement", run.version + 1, none)>>)
      BY <1>0, <1>1, <1>2, <1>3, <2>1, <2>2, MoveWorks
    <2> QED
      BY <1>4, <1>9, <2>2 DEF FinishPreparation
  <1> QED
    BY <1>5, <1>6, <1>7, <1>8, <1>9

\* What the gates decide.
LEMMA GatesWork ==
    ASSUME Inv, WorkInv, NEW i \in DOMAIN cmds,
           ApprovePlan(i) \/ RevisePlan(i) \/ ApprovePr(i) \/ ReviseCandidate(i)
    PROVE  WorkInv'
  <1>1. /\ run.state \in {"AWAITING_PLAN_APPROVAL", "AWAITING_PR_APPROVAL"}
        /\ cmds[i].result = 0
        /\ cmds[i].type \in {"approve_plan", "request_plan_revision", "approve_pr",
                             "request_candidate_changes"}
    BY Undecided DEF ApprovePlan, RevisePlan, ApprovePr, ReviseCandidate, AtGate, Leased,
                     ApprovalStateByGate
  <1>2. ~ Stage(cmds[i]) /\ cmds[i].type # "prepare_worktree"
    BY <1>1 DEF Stage, StageTypes
  <1>3. Closed(cmds) /\ run.state \notin {"PAUSED", "CANCELLED"}
    BY <1>1 DEF WorkInv, Worked, Driven, At, ApprovalStates
  <1>4. CASE ApprovePlan(i) \/ RevisePlan(i)
    <2>1. run.state = "AWAITING_PLAN_APPROVAL"
      BY <1>4 DEF ApprovePlan, RevisePlan, AtGate, ApprovalStateByGate
    <2>2. /\ run.state \in Unprepared
          /\ {"PREPARING_WORKTREE", "PLANNING"} \subseteq WorkingStates \cap LEGAL[run.state]
          /\ StageOf("PREPARING_WORKTREE") = "prepare_worktree"
          /\ StageOf("PLANNING") = "start_planning"
      BY <2>1, StageEdges DEF Unprepared, WorkingStates, ActiveResumeStates, StageOf
    <2>3. CASE Decide(i, Transition(run, "PREPARING_WORKTREE"),
                      <<Command("prepare_worktree", run.version + 1, none)>>)
      BY <1>1, <1>2, <1>3, <2>2, <2>3, MoveWorks
    <2>4. CASE RestartPlanning(i)
      BY <1>1, <1>2, <1>3, <2>2, <2>4, MoveWorks DEF RestartPlanning
    <2> QED
      BY <1>4, <2>3, <2>4 DEF ApprovePlan, RevisePlan
  <1>5. CASE ApprovePr(i) \/ ReviseCandidate(i)
    <2>1. run.state = "AWAITING_PR_APPROVAL"
      BY <1>5 DEF ApprovePr, ReviseCandidate, AtGate, ApprovalStateByGate
    <2>2. CASE Decide(i, Transition(run, "PUBLISHING_PR"),
                      <<Command("publish_pr", run.version + 1, cmds[i].digest)>>)
      <3> DEFINE changed == Transition(run, "PUBLISHING_PR")
      <3>1. "PUBLISHING_PR" \notin ApprovalStates \cup {"AWAITING_HUMAN_INTERVENTION"}
        BY DEF ApprovalStates
      <3>2. /\ Lawful(changed) /\ changed.state = "PUBLISHING_PR"
            /\ changed.version = run.version + 1
        BY <2>1, <3>1, MoveLawful, StageEdges, States DEF Inv
      <3>3. Decide(i, changed, <<Command("publish_pr", changed.version, cmds[i].digest)>>)
        BY <2>2, <3>2
      <3> HIDE DEF changed
      <3>4. changed.state \notin WorkingStates \cup ApprovalStates \cup Unprepared
                                   \cup {"PAUSED", "PREPARING_WORKTREE"}
        BY <3>2 DEF WorkingStates, ActiveResumeStates, ApprovalStates, Unprepared
      <3> QED
        BY <1>1, <1>2, <1>3, <3>2, <3>3, <3>4, DecisionWorks
    <2>3. CASE Decide(i, Transition(Transition(run, "REMEDIATING"), "VALIDATING"),
                      <<Command("validate", run.version + 2, none)>>)
      <3> DEFINE changed == Transition(Transition(run, "REMEDIATING"), "VALIDATING")
      <3>1. /\ Lawful(changed) /\ changed.state = "VALIDATING"
            /\ changed.version = run.version + 2
        BY <2>1, RevalidateLawful, States DEF Inv
      <3>2. Decide(i, changed, <<Command("validate", changed.version, none)>>)
        BY <2>3, <3>1
      <3> HIDE DEF changed
      <3>3. /\ changed.state \notin Unprepared \cup {"PAUSED", "PREPARING_WORKTREE"}
            /\ changed.state \in WorkingStates /\ StageOf(changed.state) = "validate"
        BY <3>1 DEF WorkingStates, ActiveResumeStates, Unprepared, StageOf
      <3> QED
        BY <1>1, <1>2, <1>3, <3>1, <3>2, <3>3, DecisionWorks
    <2>4. CASE Decide(i, Intervene(run), <<>>)
      BY <1>1, <1>2, <1>3, <2>1, <2>4, InterventionWorks DEF InterventionSourceStates
    <2>5. CASE ReviseCandidate(i)
      <3>1. Decide(i, Transition(run, "REMEDIATING"),
                   <<Command("remediate", run.version + 1, none)>>)
        BY <2>5 DEF ReviseCandidate, BeginLocalRemediation
      <3>2. /\ "REMEDIATING" \in WorkingStates \cap LEGAL[run.state]
            /\ "REMEDIATING" \notin Unprepared /\ StageOf("REMEDIATING") = "remediate"
        BY <2>1, StageEdges DEF WorkingStates, ActiveResumeStates, Unprepared, StageOf
      <3> QED
        BY <1>1, <1>2, <1>3, <3>1, <3>2, MoveWorks
    <2> QED
      BY <1>5, <2>2, <2>3, <2>4, <2>5 DEF ApprovePr
  <1> QED
    BY <1>4, <1>5

\* A pause keeps the phase's command, failed or not.
LEMMA PauseWorks ==
    ASSUME Inv, WorkInv, NEW i \in DOMAIN cmds, PauseRun(i)
    PROVE  WorkInv'
  <1> DEFINE changed == Pause(run)
  <1>1. /\ cmds[i].version = run.version /\ cmds[i].result = 0 /\ cmds[i].type = "pause"
        /\ cmds[i].status = "LEASED" /\ Decide(i, changed, <<>>) /\ run.state # "PAUSED"
    BY Undecided DEF PauseRun, Leased
  <1>2. run.state \notin TerminalStates /\ CanPause(run)
    BY <1>1, ARow DEF Fits, ControlTypes, CanPause
  <1>3. run.state \notin {"PAUSED", "CANCELLED"}
    BY <1>1, <1>2 DEF TerminalStates
  <1>4. Lawful(changed) /\ changed.state = "PAUSED" /\ changed.susp = run.state
    BY <1>2, PauseLawful DEF Inv, Pause, WithState
  <1>5. At(run) = run.state /\ At(changed) = run.state
    BY <1>3, <1>4 DEF At
  <1>6. run.state \in WorkingStates => Phase(changed) = Phase(run)
    BY <1>4 DEF Phase, WorkingStates, ActiveResumeStates
  <1> HIDE DEF changed
  <1>7. PICK c \in CommandRow :
              /\ c.type = cmds[i].type /\ c.status = cmds[i].status
              /\ c.work = "applied" /\ c.result # 0
              /\ run' = changed /\ cmds' = Keep(Set(i, c), {}, changed) \o <<>>
    <2> DEFINE next == <<>>
    <2>1. DecideAndSettle(i, changed, {}, next)
      BY <1>1 DEF Decide
    <2> HIDE DEF next
    <2>2. \E c \in CommandRow :
              /\ c.type = cmds[i].type /\ c.status = cmds[i].status
              /\ c.work = "applied" /\ c.result # 0
              /\ run' = changed /\ cmds' = Keep(Set(i, c), {}, changed) \o next
      BY <1>1, <1>4, <2>1, DecidedRow
    <2> QED
      BY <2>2 DEF next
  <1> DEFINE q == Set(i, c)
             k == Keep(q, {}, changed)
  <1>8. Driven(cmds, run) /\ Waits(cmds) /\ AllSound(cmds, run)
    BY DEF WorkInv, Worked
  <1>9. /\ q \in Seq(CommandRow) /\ cmds \in Seq(CommandRow)
        /\ \A j \in DOMAIN cmds : j # i => q[j] = cmds[j]
    BY SetRow
  <1>10. ~ Stage(c) /\ ~ Open(c) /\ ~ Unacknowledged(c) /\ ~ Open(cmds[i])
    BY <1>1, <1>7 DEF Stage, Open, Unacknowledged, StageTypes
  <1>11. \A j \in DOMAIN cmds : cmds[j].work # "stopped"
    BY <1>3, <1>8, NoneStopped
  <1>12. AllSound(cmds, changed)
    <2>1. run \in RunSnapshot /\ changed \in RunSnapshot /\ run.version < changed.version
      BY <1>4 DEF Inv, Lawful, RowInv, Decoded, RunSnapshot
    <2> QED
      BY <1>5, <1>8, <1>9, <1>11, <2>1, MovesSound
  <1>13. Sound(c, changed)
    BY <1>1, <1>7, <1>10 DEF Sound
  <1>14. AllSound(q, changed) /\ Waits(q)
    BY <1>7, <1>8, <1>10, <1>12, <1>13, SetSound, SetWaits
  <1>15. \A n \in DOMAIN cmds : Last(cmds, n) => Last(q, n) /\ q[n] = cmds[n]
    BY <1>7, <1>9, <1>10, SetOpen DEF Last
  <1>16. Closed(cmds) => Closed(q)
    BY <1>7, <1>10, SetOpen
  <1> HIDE DEF q
  <1>17. k \in Seq(CommandRow) /\ Waits(k) /\ AllSound(k, changed)
    BY <1>9, <1>14, KeptRows, KeptWaits, KeptSound
  <1>18. Closed(q) => Closed(k)
    BY <1>9, KeptClosed DEF Closed
  <1>19. ASSUME run.state \in WorkingStates
         PROVE  \E m \in DOMAIN k : Last(k, m) /\ k[m].type = StageOf(run.state)
    <2>1. PICK n \in DOMAIN cmds : Last(cmds, n) /\ cmds[n].type = StageOf(run.state)
      BY <1>5, <1>8, <1>19 DEF Driven
    <2>2. Last(q, n) /\ q[n] = cmds[n]
      BY <1>15, <2>1
    <2>3. cmds[n].status # "STOPPED"
      BY <1>8, <1>11 DEF AllSound, Sound
    <2>4. Stays(q, n, {}, changed)
      BY <1>6, <1>19, <2>2, <2>3 DEF Stays
    <2>5. PICK m \in DOMAIN k : Last(k, m) /\ k[m] = q[n]
      BY <1>9, <2>2, <2>4, KeptLast
    <2> QED
      BY <2>1, <2>2, <2>5
  <1> HIDE DEF k
  <1>20. Driven(k, changed)
    BY <1>4, <1>5, <1>8, <1>16, <1>18, <1>19 DEF Driven
  <1>21. k \o <<>> = k
    BY <1>17
  <1> QED
    BY <1>7, <1>17, <1>20, <1>21 DEF WorkInv, Worked, k, q

\* A cancelled run has no work to keep.
LEMMA CancelWorks ==
    ASSUME Inv, WorkInv, NEW i \in DOMAIN cmds, CancelRun(i)
    PROVE  WorkInv'
  <1> DEFINE changed == Transition(run, "CANCELLED")
  <1>1. /\ cmds[i].version = run.version /\ cmds[i].result = 0 /\ cmds[i].type = "cancel"
        /\ cmds[i].status = "LEASED" /\ Decide(i, changed, <<>>)
    BY Undecided DEF CancelRun, Leased
  <1>2. run.state \notin TerminalStates /\ run.state \in RunState
    BY <1>1, ARow DEF Fits, ControlTypes
  <1>3. "CANCELLED" \in LEGAL[run.state]
    BY <1>2, StageEdges DEF CancelRun, MergeSettling
  <1>4. "CANCELLED" \notin ApprovalStates \cup {"AWAITING_HUMAN_INTERVENTION"}
    BY DEF ApprovalStates
  <1>5. Lawful(changed) /\ changed.state = "CANCELLED"
    BY <1>3, <1>4, MoveLawful, States DEF Inv
  <1> HIDE DEF changed
  <1>6. PICK c \in CommandRow :
              /\ c.type = cmds[i].type /\ c.status = cmds[i].status
              /\ c.work = "applied" /\ c.result # 0
              /\ run' = changed /\ cmds' = Keep(Set(i, c), {}, changed) \o <<>>
    <2> DEFINE next == <<>>
    <2>1. DecideAndSettle(i, changed, {}, next)
      BY <1>1 DEF Decide
    <2> HIDE DEF next
    <2>2. \E c \in CommandRow :
              /\ c.type = cmds[i].type /\ c.status = cmds[i].status
              /\ c.work = "applied" /\ c.result # 0
              /\ run' = changed /\ cmds' = Keep(Set(i, c), {}, changed) \o next
      BY <1>1, <1>5, <2>1, DecidedRow
    <2> QED
      BY <2>2 DEF next
  <1> DEFINE q == Set(i, c)
             k == Keep(q, {}, changed)
  <1>7. Waits(cmds) /\ AllSound(cmds, run)
    BY DEF WorkInv, Worked
  <1>8. At(changed) = "CANCELLED" /\ "CANCELLED" \notin Unprepared
        /\ "CANCELLED" \notin WorkingStates \cup ApprovalStates
    BY <1>5 DEF At, Unprepared, WorkingStates, ActiveResumeStates, ApprovalStates
  <1>9. AllSound(cmds, changed)
    <2>1. ASSUME NEW j \in DOMAIN cmds PROVE Sound(cmds[j], changed)
      <3>1. Sound(cmds[j], run) /\ cmds[j].version \in Nat /\ run.version \in Nat
        BY <1>7, ARow DEF AllSound
      <3>2. changed.version \in Nat /\ run.version < changed.version
        BY <1>5 DEF Lawful, RowInv, Decoded, RunSnapshot
      <3>3. cmds[j].version < run.version => cmds[j].version < changed.version
        BY <3>1, <3>2
      <3> QED
        BY <1>5, <1>8, <3>1, <3>3 DEF Sound
    <2> QED
      BY <2>1 DEF AllSound
  <1>10. ~ Stage(c) /\ ~ Unacknowledged(c) /\ Sound(c, changed)
    BY <1>1, <1>6 DEF Stage, Unacknowledged, StageTypes, Sound
  <1>11. q \in Seq(CommandRow) /\ AllSound(q, changed) /\ Waits(q)
    BY <1>6, <1>7, <1>9, <1>10, SetRow, SetSound, SetWaits
  <1> HIDE DEF q
  <1>12. k \in Seq(CommandRow) /\ Waits(k) /\ AllSound(k, changed)
    BY <1>11, KeptRows, KeptWaits, KeptSound
  <1> HIDE DEF k
  <1>13. k \o <<>> = k /\ Driven(k, changed)
    BY <1>8, <1>12 DEF Driven
  <1> QED
    BY <1>6, <1>12, <1>13 DEF WorkInv, Worked, k, q

\* A resume settles the stopped phase's command and enqueues it again, or
\* returns to a gate where nothing is open.
LEMMA RestoreWorks ==
    ASSUME Inv, WorkInv, NEW i \in DOMAIN cmds, Resuming(i), NEW S, NEW next, NEW d,
           DecideAndSettle(i, Resume(run), S, next),
           \/ /\ next = <<Command(StageOf(run.susp), run.version + 1, d)>>
              /\ run.susp \in WorkingStates
              /\ \A j \in DOMAIN cmds : Open(cmds[j]) => j \in S
           \/ next = <<>> /\ run.susp \notin WorkingStates
    PROVE  WorkInv'
  <1> DEFINE changed == Resume(run)
  <1>1. /\ cmds[i].result = 0 /\ cmds[i].type = "resume" /\ cmds[i].status = "LEASED"
        /\ run.state = "PAUSED"
    BY Undecided DEF Resuming, Leased
  <1>2. /\ Lawful(changed) /\ changed.state = run.susp /\ changed.version = run.version + 1
        /\ changed \in RunSnapshot /\ run.version \in Nat
    BY <1>1, ResumeLawful DEF Inv, Lawful, RowInv, Decoded, RunSnapshot
  <1>3. run.susp # "PAUSED"
    BY <1>1 DEF Inv, RowInv, Decoded, RowDecodes
  <1>4. At(run) = run.susp /\ At(changed) = run.susp
    BY <1>1, <1>2, <1>3 DEF At
  <1> HIDE DEF changed
  <1>5. PICK c \in CommandRow :
              /\ c.type = cmds[i].type /\ c.status = cmds[i].status
              /\ c.work = "applied" /\ c.result # 0
              /\ run' = changed /\ cmds' = Keep(Set(i, c), S, changed) \o next
    BY <1>1, <1>2, DecidedRow DEF changed
  <1> DEFINE q == Set(i, c)
             k == Keep(q, S, changed)
  <1>6. Driven(cmds, run) /\ Waits(cmds) /\ AllSound(cmds, run)
    BY DEF WorkInv, Worked
  <1>7. /\ q \in Seq(CommandRow) /\ DOMAIN q = DOMAIN cmds /\ q[i] = c
        /\ \A j \in DOMAIN cmds : j # i => q[j] = cmds[j]
    BY SetRow
  <1>8. ~ Stage(c) /\ ~ Open(c) /\ ~ Unacknowledged(c) /\ Sound(c, changed)
    BY <1>1, <1>5 DEF Stage, Open, Unacknowledged, StageTypes, Sound
  <1>9. Waits(q)
    BY <1>5, <1>6, <1>8, SetWaits
  <1>10. ASSUME NEW j \in DOMAIN cmds, j \notin S, j # i PROVE Sound(cmds[j], changed)
    <2>1. Sound(cmds[j], run) /\ cmds[j].version \in Nat
      BY <1>6, ARow DEF AllSound
    <2>2. cmds[j].work # "stopped"
      <3>1. cmds[j].work = "stopped" => Open(cmds[j]) /\ run.susp \in WorkingStates
        BY <1>1, <2>1 DEF Sound
      <3> QED
        BY <1>10, <3>1
    <2>3. cmds[j].version < run.version => cmds[j].version < changed.version
      BY <1>2, <2>1
    <2> QED
      BY <1>4, <2>1, <2>2, <2>3 DEF Sound
  <1>11. Closed(cmds) => Closed(q)
    BY <1>5, <1>8, SetOpen
  <1>12. (\A j \in DOMAIN cmds : Open(cmds[j]) => j \in S)
            => \A j \in DOMAIN q : Open(q[j]) => j \in S
    BY <1>7, <1>8
  <1> HIDE DEF q
  <1>13. k \in Seq(CommandRow) /\ Waits(k)
    BY <1>7, <1>9, KeptRows, KeptWaits
  <1>14. AllSound(k, changed)
    <2>1. PICK f \in [DOMAIN k -> DOMAIN q] :
             \A n \in DOMAIN f : k[n] = q[f[n]] /\ Stays(q, f[n], S, changed)
      BY <1>7, KeptInOrder
    <2> HIDE DEF k
    <2>2. ASSUME NEW n \in DOMAIN k PROVE Sound(k[n], changed)
      <3>1. f[n] \in DOMAIN cmds /\ k[n] = q[f[n]] /\ f[n] \notin S
        BY <1>7, <2>1 DEF Stays
      <3> QED
        BY <1>7, <1>8, <1>10, <3>1
    <2> QED
      BY <2>2 DEF AllSound
  <1>15. run.susp \in WorkingStates \cup ApprovalStates => Closed(k)
    <2>1. CASE \A j \in DOMAIN cmds : Open(cmds[j]) => j \in S
      BY <1>7, <1>12, <2>1, KeptClosed
    <2>2. CASE run.susp \notin WorkingStates /\ run.susp \in ApprovalStates
      <3>1. Closed(q)
        BY <1>4, <1>6, <1>11, <2>2 DEF Driven
      <3> QED
        BY <1>7, <3>1, KeptClosed DEF Closed
    <2> QED
      BY <2>1, <2>2
  <1> HIDE DEF k
  <1>16. CASE run.susp \in WorkingStates \cup ApprovalStates
    <2>1. \/ next = <<>> /\ changed.state \notin WorkingStates
          \/ /\ next = <<Command(StageOf(changed.state), changed.version, d)>>
             /\ changed.state \in WorkingStates
      BY <1>2
    <2>2. Worked(k \o next, changed)
      BY <1>2, <1>3, <1>13, <1>14, <1>15, <1>16, <2>1, EnqueuedWorks
    <2> QED
      BY <1>5, <2>2 DEF WorkInv, k, q
  <1>17. CASE run.susp \notin WorkingStates \cup ApprovalStates
    <2>1. next = <<>>
      BY <1>17
    <2>2. k \o next = k
      BY <1>13, <2>1
    <2>3. Driven(k, changed)
      BY <1>4, <1>17 DEF Driven
    <2> QED
      BY <1>5, <1>13, <1>14, <2>2, <2>3 DEF WorkInv, Worked, k, q
  <1> QED
    BY <1>16, <1>17

\* The one delivery a stage goes on from is its open command.
LEMMA ResumesWork ==
    ASSUME Inv, WorkInv, NEW i \in DOMAIN cmds,
           ResumeStage(i) \/ ResumePreparation(i) \/ ResumeGate(i)
    PROVE  WorkInv'
  <1>0. Resuming(i) /\ run.state = "PAUSED" /\ At(run) = run.susp
    BY DEF ResumeStage, ResumePreparation, ResumeGate, Resuming, At
  <1>1. ASSUME NEW source \in DOMAIN cmds, Open(cmds[source]), run.susp \in WorkingStates, NEW R
        PROVE  \A j \in DOMAIN cmds : Open(cmds[j]) => j \in {source} \cup R
    <2>1. Last(cmds, source)
      BY <1>0, <1>1, TheOne
    <2> QED
      BY <2>1 DEF Last, Open
  <1>2. CASE ResumeStage(i)
    <2>0. PICK source \in DOMAIN cmds :
            /\ run.susp \in ActiveResumeStates /\ Settles(source)
            /\ \E e : Restore(i, {source}, <<Command(cmds[source].type, run.version + 1, e)>>)
      BY <1>2 DEF ResumeStage, StageSources, FailedSources, OtherWork
    <2>1. PICK d :
            /\ run.susp \in ActiveResumeStates /\ Settles(source)
            /\ Restore(i, {source}, <<Command(cmds[source].type, run.version + 1, d)>>)
      BY <2>0
    <2>2. /\ cmds[source].type = StageOf(run.susp) /\ run.susp \in WorkingStates
          /\ StageOf(run.susp) \in StageTypes
      BY <2>1 DEF Settles, WorkingStates, ActiveResumeStates, StageOf, StageTypes
    <2>3. Open(cmds[source])
      <3>1. Fits(cmds[source], run) /\ Sound(cmds[source], run)
        BY ARow DEF WorkInv, Worked, AllSound
      <3>2. \/ cmds[source].work \in {"none", "stopped", "retained", "published", "admitted"}
            \/ cmds[source].status = "STOPPED"
        BY <2>1 DEF Settles, Deferrable, RetainedSettles
      <3>3. cmds[source].work \in {"none", "stopped", "retained", "published", "admitted"}
        BY <3>1, <3>2 DEF Sound
      <3> QED
        BY <2>2, <3>1, <3>3 DEF Fits, Open, Stage
    <2> QED
      BY <1>0, <1>1, <2>1, <2>2, <2>3, RestoreWorks DEF Restore
  <1>3. CASE ResumePreparation(i)
    <2>1. PICK source \in DOMAIN cmds :
            /\ run.susp = "PREPARING_WORKTREE" /\ cmds[source].type = "prepare_worktree"
            /\ Restore(i, {source}, <<Command("prepare_worktree", run.version + 1, none)>>)
      BY <1>3 DEF ResumePreparation, OtherWork
    <2>2. StageOf(run.susp) = "prepare_worktree" /\ run.susp \in WorkingStates
      BY <2>1 DEF StageOf, WorkingStates
    <2>3. Open(cmds[source])
      <3>1. Sound(cmds[source], run)
        BY DEF WorkInv, Worked, AllSound
      <3> QED
        BY <1>0, <2>1, <3>1 DEF Sound, Open, Stage, StageTypes
    <2> QED
      BY <1>0, <1>1, <2>1, <2>2, <2>3, RestoreWorks DEF Restore
  <1>4. CASE ResumeGate(i)
    <2>1. run.susp \notin WorkingStates
      BY <1>4 DEF ResumeGate, ApprovalStates, WorkingStates, ActiveResumeStates
    <2> QED
      BY <1>0, <1>4, <2>1, RestoreWorks DEF ResumeGate, Restore
  <1> QED
    BY <1>2, <1>3, <1>4

----------------------------------------------------------------------------
(* No work is lost, doubled or started too early.                          *)

\* Every step keeps the phase's one command.
LEMMA WorkStep == Inv /\ WorkInv /\ [Next]_vars => WorkInv'
  <1> SUFFICES ASSUME Inv, WorkInv, [Next]_vars PROVE WorkInv'
    OBVIOUS
  <1>1. CASE UNCHANGED <<run, cmds>>
    BY <1>1 DEF WorkInv
  <1>2. CASE \E type \in {"pause", "resume", "cancel", "request_plan_revision",
                          "request_candidate_changes"} : Request(type)
    <2>1. PICK type \in {"pause", "resume", "cancel", "request_plan_revision",
                         "request_candidate_changes"} : Accept(type, none)
      BY <1>2 DEF Request
    <2>2. type \in CommandTypes \ StageTypes
      BY DEF CommandTypes, StageTypes, ControlTypes
    <2> QED
      BY <2>1, <2>2, RequestWorks DEF Accept
  <1>3. CASE \E gate \in {"plan", "pr"} : Authorize(gate)
    <2>1. PICK type \in {"approve_plan", "approve_pr"} : Accept(type, run.digest)
      BY <1>3 DEF Authorize
    <2>2. type \in CommandTypes \ StageTypes
      BY DEF CommandTypes, StageTypes, ControlTypes
    <2> QED
      BY <2>1, <2>2, RequestWorks DEF Accept
  <1>4. CASE \E i \in DOMAIN cmds :
                \/ Claim(i) \/ Complete(i) \/ Expire(i) \/ FailStage(i) \/ LateResult(i)
                \/ Begin(i) \/ Settle(i)
    BY <1>4, ClaimWorks, DeliveryWorks, BeginWorks, FailReviewWorks, StagesWork, GatesWork,
       PauseWorks, CancelWorks, ResumesWork DEF Begin, Settle
  <1>5. CASE Drift \/ UNCHANGED vars
    BY <1>1, <1>5 DEF Drift, vars
  <1> QED
    BY <1>2, <1>3, <1>4, <1>5 DEF Next

\* The first command is a new run's work.
LEMMA WorkInit == Init => WorkInv
  <1> SUFFICES ASSUME Init PROVE WorkInv
    OBVIOUS
  <1> DEFINE c == Command("start_planning", 0, none)
  <1>1. run.state = "CREATED" /\ run.version = 0 /\ cmds = <<c>>
    BY DEF Init, NewRun
  <1>2. /\ c.type = "start_planning" /\ c.version = 0 /\ c.status = "PENDING"
        /\ c.work = "none" /\ c.result = 0
    BY DEF Command
  <1> HIDE DEF c
  <1>3. DOMAIN cmds = {1} /\ cmds[1] = c
    BY <1>1
  <1>4. At(run) = "CREATED" /\ "CREATED" \notin ApprovalStates /\ StageOf("CREATED") = "start_planning"
    BY <1>1 DEF At, ApprovalStates, StageOf
  <1>5. Open(c) /\ OfVersion(c, run) /\ Sound(c, run)
    BY <1>1, <1>2 DEF Open, Stage, StageTypes, OfVersion, AdmittedVersions, Sound
  <1>6. Last(cmds, 1)
    BY <1>3, <1>5 DEF Last
  <1>7. Driven(cmds, run)
    BY <1>2, <1>3, <1>4, <1>5, <1>6 DEF Driven
  <1>8. Waits(cmds) /\ AllSound(cmds, run)
    BY <1>3, <1>5 DEF Waits, AllSound
  <1> QED
    BY <1>7, <1>8 DEF WorkInv, Worked

\* The one open command is the one that is of this phase.
LEMMA OneCommand ==
    ASSUME Inv, WorkInv, run.state \in WorkingStates
    PROVE  Cardinality({i \in DOMAIN cmds : OfThisPhase(i) /\ cmds[i].result = 0}) = 1
  <1>1. At(run) = run.state /\ run.state # "PAUSED"
    BY DEF At, WorkingStates, ActiveResumeStates
  <1>2. PICK n \in DOMAIN cmds :
             Last(cmds, n) /\ cmds[n].type = StageOf(run.state) /\ OfVersion(cmds[n], run)
    BY <1>1 DEF WorkInv, Worked, Driven
  <1>3. /\ run.state = "CREATED" => StageOf(run.state) = "start_planning"
        /\ run.state # "CREATED" => run.state = StagePhase(StageOf(run.state))
    BY DEF StageOf, StagePhase, WorkingStates, ActiveResumeStates
  <1>4. OfThisPhase(n) /\ cmds[n].result = 0
    BY <1>2, <1>3 DEF OfThisPhase, OfVersion, Last, Open, Stage
  <1>5. \A i \in DOMAIN cmds : OfThisPhase(i) /\ cmds[i].result = 0 => i = n
    BY <1>2 DEF OfThisPhase, Last, Open, Stage
  <1>6. {i \in DOMAIN cmds : OfThisPhase(i) /\ cmds[i].result = 0} = {n}
    BY <1>4, <1>5
  <1> QED
    BY <1>6, FS_Singleton

\* No work of a run is lost, doubled or started ahead of its predecessor's
\* acknowledgement, whatever is redelivered, paused, resumed, revised or left
\* to expire: the claim order, the pause that keeps a failed row and the resume
\* that settles the stopped one before it enqueues the stage again keep it so.
THEOREM WorkAlwaysSafe == Spec => []WorkSafe
  <1>1. Inv /\ WorkInv => WorkSafe
    <2> SUFFICES ASSUME Inv, WorkInv PROVE WorkSafe
      OBVIOUS
    <2>1. TypeOK
      BY DEF Inv, RowInv, Decoded, Queue, TypeOK
    <2>2. WorkKept
      BY OneCommand DEF WorkKept
    <2>3. SuccessorWaits
      BY DEF WorkInv, Worked, Waits, Unacknowledged, Stage, SuccessorWaits, Outstanding
    <2> QED
      BY <2>1, <2>2, <2>3 DEF WorkSafe
  <1>2. Spec => []WorkInv
    BY WorkInit, WorkStep, LifecycleInvariant, PTL DEF Spec
  <1> QED
    BY <1>1, <1>2, LifecycleInvariant, PTL

=============================================================================
