---------------------- MODULE SubscriptionTasks_proofs ----------------------
(***************************************************************************)
(* Proofs, for every set of tasks and effects and every limit, that the    *)
(* effects of a subscription run exclude each other and that late results  *)
(* change nothing.                                                         *)
(*                                                                         *)
(* The inductive invariant ties the three records of a task together: its  *)
(* scheduled row is active exactly while its attempt is live, an unsettled *)
(* effect belongs to a live attempt of the row's generation, and a tool    *)
(* that may still write has an unsettled effect.  Only a claim makes a     *)
(* task live and only an admission makes an effect unsettled; every other  *)
(* step obeys the laws TasksStep, EffectsStep, CandidateStep and           *)
(* ObservationStep, from which the invariant follows at once.              *)
(***************************************************************************)
EXTENDS SubscriptionTasks, FiniteSetTheorems, TLAPS

----------------------------------------------------------------------------
(* The inductive invariant.                                                *)

\* The attempt of t is not closed.
Live(t) == att[t] \in {"running", "reconciling"}

\* The client of t may be running.
Occupied(t) ==
    \/ att[t] = "running"
    \/ client[t] \in {"live", "unsure"} /\ att[t] # "terminal"

\* An effect of t is unsettled.
Busy(t) == \E e \in Effects : TaskOf[e] = t /\ Pending(e)

\* The tasks that SlotsBounded counts.
Working == {t \in Tasks : Occupied(t) \/ Busy(t)}

\* A task's row, attempt, client and stop agree.
TaskOK(t) ==
    /\ Live(t) <=> Active(t)
    /\ state[t] = "leased" => att[t] = "running"
    /\ att[t] = "none" => client[t] = "none"
    /\ state[t] = "absent" => stop[t] = "none"
    /\ t \notin Stoppable => stop[t] = "none"

\* An effect's admission, receipt and tool call agree.
EffectOK(e) ==
    /\ receipt[e] => eff[e] \in {"settled", "rejected"}
    /\ tool[e] = "open" /\ ~IsBoundRead(e) => Pending(e)

\* While a handoff is observed only reads are unsettled.
ObservationQuiet ==
    obsLive => \A e \in Effects : Pending(e) => IsBoundRead(e)

Records ==
    /\ \A t \in Tasks : TaskOK(t)
    /\ \A e \in Effects : EffectOK(e)
    /\ PendingKeepsTask

Inv ==
    /\ TypeOK
    /\ Records
    /\ ExclusiveAlone
    /\ OverlappingWritersExclude
    /\ SlotsBounded
    /\ LiveAttemptCurrentEpoch
    /\ ClosedCandidateReadOnly
    /\ ObservationQuiet
    /\ ObservationHolds

----------------------------------------------------------------------------
(* Type correctness.                                                       *)

\* The part of the types that closing an attempt touches.
Closed ==
    /\ state \in [Tasks -> {"absent", "queued", "leased", "blocked",
                            "reconciling", "terminal"}]
    /\ att \in [Tasks -> {"none", "running", "reconciling", "terminal"}]
    /\ result \in [Tasks -> {"none", "pending", "stale", "fenced"}]
    /\ proved \in [Tasks -> BOOLEAN]

\* Closing an attempt keeps them.
LEMMA CloseTyped ==
    ASSUME TypeOK, NEW t \in Tasks, NEW s \in {"queued", "blocked", "terminal"},
           Close(t, s)
    PROVE  Closed'
  BY DEF TypeOK, Closed, Close

\* The types are kept by the claim, the client and the settlement of an
\* attempt.
LEMMA TypesAttempts ==
    ASSUME TypeOK, NEW t \in Tasks, AttemptStep(t) \/ FaultStep(t)
    PROVE  TypeOK'
  <1>1. CASE Claim(t)
    BY <1>1, TaskAssumption DEF TypeOK, Claim, Claimable, Swept, stopVars,
           effVars, runVars, obsVars
  <1>2. CASE Launch(t)
    BY <1>2, TaskAssumption DEF TypeOK, Launch, stopVars, effVars, runVars,
           obsVars
  <1>3. ASSUME NEW o \in {"stopped", "unsure"}, ClientEnds(t, o)
       PROVE  TypeOK'
    BY <1>3, TaskAssumption DEF TypeOK, ClientEnds, stopVars, effVars,
           runVars, obsVars
  <1>4. ASSUME NEW o \in {"decision", "failure", "uncertain"}, SettleRetained(t, o)
       PROVE  TypeOK'
    BY <1>4, TaskAssumption DEF TypeOK, SettleRetained, Settling, stopVars,
           effVars, runVars, obsVars
  <1>5. CASE SettleDecision(t)
    BY <1>5, TaskAssumption DEF TypeOK, SettleDecision, Settling, stopVars,
           effVars, runVars, obsVars
  <1>6. CASE SettleDeferred(t)
    BY <1>6, TaskAssumption DEF TypeOK, SettleDeferred, Settling, Close,
           stopVars, effVars, runVars, obsVars
  <1>7. CASE SettleFailure(t)
    <2>1. Closed'
      BY <1>7, CloseTyped DEF SettleFailure
    <2>2. repairs' \in [Tasks -> 0..MaxRepairs]
      BY <1>7, TaskAssumption DEF TypeOK, SettleFailure
    <2> QED
      BY <1>7, <2>1, <2>2 DEF TypeOK, Closed, SettleFailure, stopVars, effVars, runVars, obsVars
  <1>8. CASE LeaseExpires(t)
    BY <1>8, TaskAssumption DEF TypeOK, LeaseExpires, stopVars, effVars,
           runVars, obsVars
  <1>9. CASE WorkerCrash(t)
    BY <1>9, TaskAssumption DEF TypeOK, WorkerCrash, stopVars, runVars,
           obsVars
  <1> QED
    BY <1>1, <1>2, <1>3, <1>4, <1>5, <1>6, <1>7, <1>8, <1>9 DEF AttemptStep,
           FaultStep

\* The types are kept by the controls of one task.
LEMMA TypesControls ==
    ASSUME TypeOK, NEW t \in Tasks, ControlStep(t)
    PROVE  TypeOK'
  <1>1. ASSUME NEW a \in {"pause", "cancel"}, StopIdle(t, a)
       PROVE  TypeOK'
    BY <1>1, TaskAssumption DEF TypeOK, StopIdle, Controllable, effVars,
           runVars, obsVars
  <1>2. ASSUME NEW a \in {"pause", "cancel"}, StopActive(t, a)
       PROVE  TypeOK'
    BY <1>2, TaskAssumption DEF TypeOK, StopActive, Controllable, taskVars,
           effVars, runVars, obsVars
  <1>3. ASSUME NEW a \in {"pause", "cancel"}, StopRetained(t, a)
       PROVE  TypeOK'
    <2>1. a \in {"none", "pause", "cancel"} /\ MarkStopped(t, a)
      BY <1>3 DEF StopRetained, TypeOK
    <2>2. Closed'
      BY <2>1, CloseTyped DEF MarkStopped, TypeOK, Closed
    <2> QED
      BY <2>1, <2>2 DEF TypeOK, Closed, MarkStopped, effVars, runVars, obsVars
  <1>4. CASE ReconcileStop(t)
    <2>1. stop[t] \in {"none", "pause", "cancel"} /\ MarkStopped(t, stop[t])
      BY <1>4 DEF ReconcileStop, TypeOK
    <2>2. Closed'
      BY <2>1, CloseTyped DEF MarkStopped, TypeOK, Closed
    <2> QED
      BY <2>1, <2>2 DEF TypeOK, Closed, MarkStopped, effVars, runVars, obsVars
  <1>5. CASE ResumeIdle(t)
    BY <1>5, TaskAssumption DEF TypeOK, ResumeIdle, effVars, runVars,
           obsVars
  <1>6. ASSUME NEW d \in {0, 1}, ResumeAttempt(t, d)
       PROVE  TypeOK'
    <2>1. Closed'
      BY <1>6, CloseTyped DEF ResumeAttempt, TypeOK, Closed
    <2>2. repairs' \in [Tasks -> 0..MaxRepairs]
      BY <1>6, TaskAssumption DEF TypeOK, ResumeAttempt
    <2> QED
      BY <1>6, <2>1, <2>2 DEF TypeOK, Closed, ResumeAttempt, effVars, runVars,
           obsVars
  <1> QED
    BY <1>1, <1>2, <1>3, <1>4, <1>5, <1>6 DEF ControlStep

\* The types are kept by the callbacks of the broker.
LEMMA TypesBroker ==
    ASSUME TypeOK, NEW e \in Effects, BrokerStep(e)
    PROVE  TypeOK'
  <1>1. CASE BindOperation(e)
    BY <1>1, TaskAssumption DEF TypeOK, BindOperation, taskVars, stopVars,
           runVars, obsVars
  <1>2. CASE AdmitEffect(e)
    BY <1>2, TaskAssumption DEF TypeOK, AdmitEffect, taskVars, stopVars,
           runVars, obsVars
  <1>3. CASE ReplayCall(e)
    BY <1>3, TaskAssumption DEF TypeOK, ReplayCall, taskVars, stopVars,
           runVars, obsVars
  <1>4. CASE AuthorizeTool(e)
    BY <1>4, TaskAssumption DEF TypeOK, AuthorizeTool, taskVars, stopVars,
           runVars, obsVars
  <1>5. ASSUME NEW v \in {"ok", "bad"}, ToolEnds(e, v)
       PROVE  TypeOK'
    BY <1>5, TaskAssumption DEF TypeOK, ToolEnds, taskVars, stopVars,
           runVars
  <1>6. CASE FinalizeEffect(e)
    <2>1. callers' \in [Effects -> 0..MaxCallers]
      BY <1>6, TaskAssumption DEF TypeOK, FinalizeEffect, Return
    <2>2. eff' \in [Effects -> {"none", "bound", "admitted", "reconciling",
                               "settled", "rejected"}]
      BY <1>6 DEF TypeOK, FinalizeEffect
    <2>3. receipt' \in [Effects -> BOOLEAN]
      <3>1. receipt' = receipt \/ receipt' = [receipt EXCEPT ![e] = TRUE]
        BY <1>6 DEF FinalizeEffect
      <3> QED
        BY <3>1 DEF TypeOK
    <2> QED
      BY <1>6, <2>1, <2>2, <2>3 DEF TypeOK, FinalizeEffect, taskVars, stopVars,
           runVars, obsVars
  <1>7. CASE EffectFails(e)
    BY <1>7, TaskAssumption DEF TypeOK, EffectFails, Return, taskVars,
           stopVars, runVars, obsVars
  <1>8. CASE CallCancelled(e)
    BY <1>8, TaskAssumption DEF TypeOK, CallCancelled, Return, taskVars,
           stopVars, runVars, obsVars
  <1>9. CASE ReconcileInterruptedEffect(e)
    BY <1>9, TaskAssumption DEF TypeOK, ReconcileInterruptedEffect,
           taskVars, stopVars, runVars, obsVars
  <1> QED
    BY <1>1, <1>2, <1>3, <1>4, <1>5, <1>6, <1>7, <1>8, <1>9 DEF BrokerStep

\* The types are kept by the application of decisions and the sweep of
\* expired leases.
LEMMA TypesDecisions ==
    ASSUME TypeOK, SweepExpired \/ DecisionStep
    PROVE  TypeOK'
  <1>1. CASE SweepExpired
    BY <1>1, TaskAssumption DEF TypeOK, SweepExpired, Swept, stopVars,
           effVars, runVars, obsVars
  <1>2. ASSUME NEW s \in {"queued", "blocked"}, FinishDecision(Primary, s)
       PROVE  TypeOK'
    BY <1>2, TaskAssumption DEF TypeOK, FinishDecision, Close, stopVars,
           effVars, runVars, obsVars
  <1>3. ASSUME NEW c \in SUBSET (Tasks \ {Primary}), Delegate(c)
       PROVE  TypeOK'
    BY <1>3, TaskAssumption DEF TypeOK, Delegate, stopVars, effVars, obsVars
  <1>4. CASE SelectReview
    BY <1>4, TaskAssumption DEF TypeOK, SelectReview, Close, stopVars,
           effVars, obsVars
  <1>5. CASE Wake
    BY <1>5, TaskAssumption DEF TypeOK, Wake, stopVars, effVars, runVars,
           obsVars
  <1>6. ASSUME NEW t \in Tasks, EnqueueReview(t)
       PROVE  TypeOK'
    BY <1>6, TaskAssumption DEF TypeOK, EnqueueReview, stopVars, effVars,
           runVars, obsVars
  <1>7. ASSUME NEW t \in Tasks, BeginObservation(t)
       PROVE  TypeOK'
    BY <1>7, TaskAssumption DEF TypeOK, BeginObservation, taskVars,
           stopVars, effVars, runVars
  <1>8. ASSUME NEW t \in Tasks, ApplyHandoff(t)
       PROVE  TypeOK'
    <2>1. Closed'
      BY <1>8, CloseTyped DEF ApplyHandoff
    <2>2. repairs' \in [Tasks -> 0..MaxRepairs]
      BY <1>8, TaskAssumption DEF TypeOK, ApplyHandoff
    <2> QED
      BY <1>8, <2>1, <2>2 DEF TypeOK, Closed, ApplyHandoff, stopVars, effVars, runVars
  <1>9. CASE ObservationEnds
    BY <1>9, TaskAssumption DEF TypeOK, ObservationEnds, taskVars, stopVars,
           effVars, runVars
  <1> QED
    BY <1>1, <1>2, <1>3, <1>4, <1>5, <1>6, <1>7, <1>8, <1>9 DEF DecisionStep

\* The types are kept by the controls of the whole run.
LEMMA TypesRuns ==
    ASSUME TypeOK, RunStep
    PROVE  TypeOK'
  <1>1. ASSUME NEW k \in Suspensions, SuspendRun(k)
       PROVE  TypeOK'
    BY <1>1, TaskAssumption DEF TypeOK, SuspendRun, taskVars, stopVars,
           effVars, obsVars
  <1>2. CASE ContinueCheckpoint
    BY <1>2, TaskAssumption DEF TypeOK, ContinueCheckpoint, taskVars,
           stopVars, effVars, obsVars
  <1>3. CASE EndRun
    BY <1>3, TaskAssumption DEF TypeOK, EndRun, taskVars, stopVars, effVars,
           obsVars
  <1>4. ASSUME NEW d \in [Tasks -> {0, 1}], ResumeRun(d)
       PROVE  TypeOK'
    BY <1>4, TaskAssumption DEF TypeOK, ResumeRun, Resumable, stopVars,
           effVars, obsVars
  <1>5. ASSUME NEW t \in Tasks, SettleEnded(t)
       PROVE  TypeOK'
    BY <1>5, TaskAssumption DEF TypeOK, SettleEnded, Close, stopVars,
           effVars, runVars, obsVars
  <1> QED
    BY <1>1, <1>2, <1>3, <1>4, <1>5 DEF RunStep

----------------------------------------------------------------------------
(* The laws that every step but a claim and an admission obeys.            *)

\* No task becomes live or takes a slot, and one with an unsettled effect
\* stays live.
TaskKept(t) ==
    /\ gen'[t] = gen[t] /\ aepoch'[t] = aepoch[t]
    /\ Live(t)' => Live(t)
    /\ Busy(t) /\ Live(t) => Live(t)'
    /\ Occupied(t)' => Occupied(t)

\* The part of StopNeverRevived about t's row.
StopKept(t) == stop[t] # "none" =>
    /\ gen'[t] = gen[t]
    /\ stop[t] = "cancel" => stop'[t] = "cancel"
    /\ state'[t] = "queued" /\ state[t] # "queued" => stop'[t] = "none"

TasksStep == \A t \in Tasks : TaskOK(t)' /\ TaskKept(t) /\ StopKept(t)

\* An unsettled effect was unsettled before.
EffectKept(e) == Pending(e)' => Pending(e) /\ egen'[e] = egen[e]

\* A verdict stays, and a stopped task gets no new one that accepts.
VerdictKept(e) ==
    /\ receipt[e] => receipt'[e] /\ eff'[e] = eff[e]
    /\ eff[e] \in {"settled", "rejected"} => eff'[e] = eff[e]
    /\ stop[TaskOf[e]] # "none" /\ eff'[e] = "settled" => eff[e] = "settled"

EffectsStep == \A e \in Effects : EffectOK(e)' /\ EffectKept(e) /\ VerdictKept(e)

\* The candidate closes or reopens when nothing is unsettled or live.
CandidateStep ==
    /\ cand' = "closed" => cand = "closed" \/ \A e \in Effects : ~Pending(e)
    /\ epoch' # epoch => \A t \in Tasks : ~Live(t)'

\* An observation starts when nothing is unsettled, and nothing moves in it.
ObservationStep ==
    obsLive' => \/ obsLive /\ moved' = moved
                \/ moved' = FALSE /\ \A e \in Effects : ~Pending(e)

Lawful == TasksStep /\ EffectsStep /\ CandidateStep /\ ObservationStep

\* A task without unsettled effects is not busy.
LEMMA NotBusy ==
    ASSUME NEW t \in Tasks, PendingOf(t) = {}
    PROVE  ~Busy(t)
  BY DEF PendingOf, EffectsOf, Busy

\* SlotsBounded counts the working tasks.
LEMMA WorkingCounted ==
    Working = {t \in Tasks : \/ att[t] = "running"
                             \/ client[t] \in {"live", "unsure"} /\ att[t] # "terminal"
                             \/ PendingOf(t) # {}}
  BY DEF Working, Occupied, Busy, PendingOf, EffectsOf

\* The same in the next state.
LEMMA WorkingCountedNext ==
    Working' = {t \in Tasks : \/ att'[t] = "running"
                              \/ client'[t] \in {"live", "unsure"} /\ att'[t] # "terminal"
                              \/ PendingOf(t)' # {}}
  BY DEF Working, Occupied, Busy, PendingOf, EffectsOf

\* The slots stay bounded while no task starts to work.
LEMMA SlotsKept ==
    ASSUME SlotsBounded, \A t \in Tasks : (Occupied(t) \/ Busy(t))' => Occupied(t) \/ Busy(t)
    PROVE  SlotsBounded'
  <1>1. Working' \subseteq Working /\ Working \subseteq Tasks /\ IsFiniteSet(Tasks)
    BY TaskAssumption DEF Working
  <1>2. Cardinality(Working) <= Limit
    BY WorkingCounted DEF SlotsBounded
  <1>3. IsFiniteSet(Working)
    BY <1>1, FS_Subset
  <1>4. IsFiniteSet(Working') /\ Cardinality(Working') <= Cardinality(Working)
    BY <1>1, <1>3, FS_Subset
  <1>5. Cardinality(Working') <= Limit
    BY <1>2, <1>3, <1>4, FS_CardinalityType, TaskAssumption
  <1> QED
    BY <1>5, WorkingCountedNext DEF SlotsBounded

\* A lawful step keeps the invariant.
LEMMA LawfulKeeps ==
    ASSUME Inv, TypeOK', Lawful
    PROVE  Inv'
  <1> USE DEF Inv, Lawful
  <1>1. \A t \in Tasks : TaskOK(t) /\ TaskOK(t)' /\ TaskKept(t)
    BY DEF Records, TasksStep
  <1>2. \A e \in Effects : EffectOK(e)' /\ EffectKept(e) /\ TaskOf[e] \in Tasks
    BY TaskAssumption DEF EffectsStep
  <1>3. PendingKeepsTask'
    <2> SUFFICES ASSUME NEW e \in Effects, Pending(e)'
                 PROVE  /\ Active(TaskOf[e])' /\ gen'[TaskOf[e]] = egen'[e]
                        /\ Live(TaskOf[e])'
      BY DEF PendingKeepsTask, Live
    <2>1. Pending(e) /\ egen'[e] = egen[e]
      BY <1>2 DEF EffectKept
    <2>2. Live(TaskOf[e]) /\ gen[TaskOf[e]] = egen[e] /\ Busy(TaskOf[e])
      BY <1>2, <2>1 DEF Records, PendingKeepsTask, Live, Busy
    <2> QED
      BY <1>1, <1>2, <2>1, <2>2 DEF TaskKept, TaskOK
  <1>4. Records'
    BY <1>1, <1>2, <1>3 DEF Records
  <1>5. ExclusiveAlone'
    BY <1>2 DEF ExclusiveAlone, EffectKept, WholeWorktree, ReadEffect, IsBoundRead
  <1>6. OverlappingWritersExclude'
    BY <1>1 DEF OverlappingWritersExclude, Writers, TaskKept, TaskOK
  <1>7. SlotsBounded'
    <2>1. \A t \in Tasks : Busy(t)' => Busy(t)
      BY <1>2 DEF Busy, EffectKept
    <2> QED
      BY <1>1, <2>1, SlotsKept DEF TaskKept
  <1>8. LiveAttemptCurrentEpoch'
    BY <1>1 DEF LiveAttemptCurrentEpoch, CandidateStep, TaskKept, Live
  <1>9. ClosedCandidateReadOnly'
    BY <1>2 DEF ClosedCandidateReadOnly, CandidateStep, EffectKept, ReadEffect, IsBoundRead
  <1>10. ObservationQuiet' /\ ObservationHolds'
    BY <1>2 DEF ObservationQuiet, ObservationHolds, ObservationStep, EffectKept, IsBoundRead
  <1> QED
    BY <1>4, <1>5, <1>6, <1>7, <1>8, <1>9, <1>10

----------------------------------------------------------------------------
(* The laws, action by action.                                             *)

\* Tasks are kept by the claim, the client and the settlement of an attempt.
LEMMA TasksAttempts ==
    ASSUME TypeOK, Records, NEW t \in Tasks, AttemptStep(t) \/ FaultStep(t), ~Claim(t)
    PROVE  TasksStep
  <1>1. CASE Launch(t)
    BY <1>1, TaskAssumption, NotBusy DEF TypeOK, Records, TasksStep, TaskOK,
           TaskKept, StopKept, Live, Active, Occupied, Launch, LeaseCurrent,
           stopVars, effVars, runVars, obsVars
  <1>2. ASSUME NEW o \in {"stopped", "unsure"}, ClientEnds(t, o)
       PROVE  TasksStep
    BY <1>2, TaskAssumption, NotBusy DEF TypeOK, Records, TasksStep, TaskOK,
           TaskKept, StopKept, Live, Active, Occupied, ClientEnds, stopVars,
           effVars, runVars, obsVars
  <1>3. ASSUME NEW o \in {"decision", "failure", "uncertain"}, SettleRetained(t, o)
       PROVE  TasksStep
    BY <1>3, TaskAssumption, NotBusy DEF TypeOK, Records, TasksStep, TaskOK,
           TaskKept, StopKept, Live, Active, Occupied, SettleRetained,
           Settling, stopVars, effVars, runVars, obsVars
  <1>4. CASE SettleDecision(t)
    BY <1>4, TaskAssumption, NotBusy DEF TypeOK, Records, TasksStep, TaskOK,
           TaskKept, StopKept, Live, Active, Occupied, SettleDecision,
           Settling, stopVars, effVars, runVars, obsVars
  <1>5. CASE SettleDeferred(t)
    BY <1>5, TaskAssumption, NotBusy DEF TypeOK, Records, TasksStep, TaskOK,
           TaskKept, StopKept, Live, Active, Occupied, SettleDeferred,
           Settling, Close, ResultFenced, ResultCurrent, stopVars, effVars,
           runVars, obsVars
  <1>6. CASE SettleFailure(t)
    BY <1>6, TaskAssumption, NotBusy DEF TypeOK, Records, TasksStep, TaskOK,
           TaskKept, StopKept, Live, Active, Occupied, SettleFailure,
           Settling, Close, ResultFenced, ResultCurrent, stopVars, effVars,
           runVars, obsVars
  <1>7. CASE LeaseExpires(t)
    BY <1>7, TaskAssumption, NotBusy DEF TypeOK, Records, TasksStep, TaskOK,
           TaskKept, StopKept, Live, Active, Occupied, LeaseExpires,
           stopVars, effVars, runVars, obsVars
  <1>8. CASE WorkerCrash(t)
    BY <1>8, TaskAssumption, NotBusy DEF TypeOK, Records, TasksStep, TaskOK,
           TaskKept, StopKept, Live, Active, Occupied, WorkerCrash,
           stopVars, runVars, obsVars
  <1> QED
    BY <1>1, <1>2, <1>3, <1>4, <1>5, <1>6, <1>7, <1>8 DEF AttemptStep,
           FaultStep

\* Tasks are kept by the controls of one task.
LEMMA TasksControls ==
    ASSUME TypeOK, Records, NEW t \in Tasks, ControlStep(t)
    PROVE  TasksStep
  <1>1. ASSUME NEW a \in {"pause", "cancel"}, StopIdle(t, a)
       PROVE  TasksStep
    BY <1>1, TaskAssumption, NotBusy DEF TypeOK, Records, TasksStep, TaskOK,
           TaskKept, StopKept, Live, Active, Occupied, StopIdle,
           Controllable, effVars, runVars, obsVars
  <1>2. ASSUME NEW a \in {"pause", "cancel"}, StopActive(t, a)
       PROVE  TasksStep
    BY <1>2, TaskAssumption, NotBusy DEF TypeOK, Records, TasksStep, TaskOK,
           TaskKept, StopKept, Live, Active, Occupied, StopActive,
           Controllable, taskVars, effVars, runVars, obsVars
  <1>3. ASSUME NEW a \in {"pause", "cancel"}, StopRetained(t, a)
       PROVE  TasksStep
    BY <1>3, TaskAssumption, NotBusy DEF TypeOK, Records, TasksStep, TaskOK,
           TaskKept, StopKept, Live, Active, Occupied, StopRetained,
           Controllable, MarkStopped, Close, RetainedSource, effVars,
           runVars, obsVars
  <1>4. CASE ReconcileStop(t)
    BY <1>4, TaskAssumption, NotBusy DEF TypeOK, Records, TasksStep, TaskOK,
           TaskKept, StopKept, Live, Active, Occupied, ReconcileStop,
           MarkStopped, Close, RetainedSource, Unlaunched, effVars, runVars,
           obsVars
  <1>5. CASE ResumeIdle(t)
    BY <1>5, TaskAssumption, NotBusy DEF TypeOK, Records, TasksStep, TaskOK,
           TaskKept, StopKept, Live, Active, Occupied, ResumeIdle, effVars,
           runVars, obsVars
  <1>6. ASSUME NEW d \in {0, 1}, ResumeAttempt(t, d)
       PROVE  TasksStep
    BY <1>6, TaskAssumption, NotBusy DEF TypeOK, Records, TasksStep, TaskOK,
           TaskKept, StopKept, Live, Active, Occupied, ResumeAttempt, Close,
           RetainedSource, effVars, runVars, obsVars
  <1> QED
    BY <1>1, <1>2, <1>3, <1>4, <1>5, <1>6 DEF ControlStep

\* Tasks are kept by the application of decisions and the sweep of expired
\* leases.
LEMMA TasksDecisions ==
    ASSUME TypeOK, Records, SweepExpired \/ DecisionStep
    PROVE  TasksStep
  <1>1. CASE SweepExpired
    BY <1>1, TaskAssumption, NotBusy DEF TypeOK, Records, TasksStep, TaskOK,
           TaskKept, StopKept, Live, Active, Occupied, SweepExpired, Swept,
           stopVars, effVars, runVars, obsVars
  <1>2. ASSUME NEW s \in {"queued", "blocked"}, FinishDecision(Primary, s)
       PROVE  TasksStep
    BY <1>2, TaskAssumption, NotBusy DEF TypeOK, Records, TasksStep, TaskOK,
           TaskKept, StopKept, Live, Active, Occupied, FinishDecision,
           Close, SourceCurrent, stopVars, effVars, runVars, obsVars
  <1>3. ASSUME NEW c \in SUBSET (Tasks \ {Primary}), Delegate(c)
       PROVE  TasksStep
    BY <1>3, TaskAssumption, NotBusy DEF TypeOK, Records, TasksStep, TaskOK,
           TaskKept, StopKept, Live, Active, Occupied, Delegate,
           SourceCurrent, stopVars, effVars, obsVars
  <1>4. CASE SelectReview
    BY <1>4, TaskAssumption, NotBusy DEF TypeOK, Records, TasksStep, TaskOK,
           TaskKept, StopKept, Live, Active, Occupied, SelectReview, Close,
           SourceCurrent, stopVars, effVars, obsVars
  <1>5. CASE Wake
    BY <1>5, TaskAssumption, NotBusy DEF TypeOK, Records, TasksStep, TaskOK,
           TaskKept, StopKept, Live, Active, Occupied, Wake, stopVars,
           effVars, runVars, obsVars
  <1>6. ASSUME NEW t \in Tasks, EnqueueReview(t)
       PROVE  TasksStep
    BY <1>6, TaskAssumption, NotBusy DEF TypeOK, Records, TasksStep, TaskOK,
           TaskKept, StopKept, Live, Active, Occupied, EnqueueReview,
           stopVars, effVars, runVars, obsVars
  <1>7. ASSUME NEW t \in Tasks, BeginObservation(t)
       PROVE  TasksStep
    BY <1>7, TaskAssumption, NotBusy DEF TypeOK, Records, TasksStep, TaskOK,
           TaskKept, StopKept, Live, Active, Occupied, BeginObservation,
           taskVars, stopVars, effVars, runVars
  <1>8. ASSUME NEW t \in Tasks, ApplyHandoff(t)
       PROVE  TasksStep
    BY <1>8, TaskAssumption, NotBusy DEF TypeOK, Records, TasksStep, TaskOK,
           TaskKept, StopKept, Live, Active, Occupied, ApplyHandoff, Close,
           SourceCurrent, stopVars, effVars, runVars
  <1>9. CASE ObservationEnds
    BY <1>9, TaskAssumption, NotBusy DEF TypeOK, Records, TasksStep, TaskOK,
           TaskKept, StopKept, Live, Active, Occupied, ObservationEnds,
           taskVars, stopVars, effVars, runVars
  <1> QED
    BY <1>1, <1>2, <1>3, <1>4, <1>5, <1>6, <1>7, <1>8, <1>9 DEF DecisionStep

\* Tasks are kept by the controls of the whole run.
LEMMA TasksRuns ==
    ASSUME TypeOK, Records, RunStep
    PROVE  TasksStep
  <1>1. ASSUME NEW k \in Suspensions, SuspendRun(k)
       PROVE  TasksStep
    BY <1>1, TaskAssumption, NotBusy DEF TypeOK, Records, TasksStep, TaskOK,
           TaskKept, StopKept, Live, Active, Occupied, SuspendRun, taskVars,
           stopVars, effVars, obsVars
  <1>2. CASE ContinueCheckpoint
    BY <1>2, TaskAssumption, NotBusy DEF TypeOK, Records, TasksStep, TaskOK,
           TaskKept, StopKept, Live, Active, Occupied, ContinueCheckpoint,
           taskVars, stopVars, effVars, obsVars
  <1>3. CASE EndRun
    BY <1>3, TaskAssumption, NotBusy DEF TypeOK, Records, TasksStep, TaskOK,
           TaskKept, StopKept, Live, Active, Occupied, EndRun, taskVars,
           stopVars, effVars, obsVars
  <1>4. ASSUME NEW d \in [Tasks -> {0, 1}], ResumeRun(d)
       PROVE  TasksStep
    <2>1. \A u \in Tasks : ~Busy(u)
      BY <1>4 DEF ResumeRun, Quiescent, Busy
    <2> QED
      BY <1>4, <2>1 DEF TypeOK, Records, TasksStep, TaskOK, TaskKept, StopKept,
           Live, Active, Occupied, ResumeRun, Resumable, stopVars, effVars,
           obsVars
  <1>5. ASSUME NEW t \in Tasks, SettleEnded(t)
       PROVE  TasksStep
    BY <1>5, TaskAssumption, NotBusy DEF TypeOK, Records, TasksStep, TaskOK,
           TaskKept, StopKept, Live, Active, Occupied, SettleEnded, Close,
           stopVars, effVars, runVars, obsVars
  <1> QED
    BY <1>1, <1>2, <1>3, <1>4, <1>5 DEF RunStep

\* Effects are kept by the callbacks of the broker.
LEMMA EffectsBroker ==
    ASSUME TypeOK, Records, NEW e \in Effects, BrokerStep(e), ~AdmitEffect(e)
    PROVE  EffectsStep
  <1>1. CASE BindOperation(e)
    BY <1>1 DEF TypeOK, Records, EffectsStep, EffectOK, EffectKept,
           VerdictKept, Pending, BindOperation, stopVars
  <1>2. CASE ReplayCall(e)
    BY <1>2 DEF TypeOK, Records, EffectsStep, EffectOK, EffectKept,
           VerdictKept, Pending, ReplayCall, stopVars
  <1>3. CASE AuthorizeTool(e)
    BY <1>3 DEF TypeOK, Records, EffectsStep, EffectOK, EffectKept,
           VerdictKept, Pending, AuthorizeTool, Authorized, stopVars
  <1>4. ASSUME NEW v \in {"ok", "bad"}, ToolEnds(e, v)
       PROVE  EffectsStep
    BY <1>4 DEF TypeOK, Records, EffectsStep, EffectOK, EffectKept,
           VerdictKept, Pending, ToolEnds, stopVars
  <1>5. CASE FinalizeEffect(e)
    BY <1>5 DEF TypeOK, Records, EffectsStep, EffectOK, EffectKept,
           VerdictKept, Pending, FinalizeEffect, Return, AcceptsResult,
           stopVars
  <1>6. CASE EffectFails(e)
    BY <1>6 DEF TypeOK, Records, EffectsStep, EffectOK, EffectKept,
           VerdictKept, Pending, EffectFails, Return, stopVars
  <1>7. CASE CallCancelled(e)
    BY <1>7 DEF TypeOK, Records, EffectsStep, EffectOK, EffectKept,
           VerdictKept, Pending, CallCancelled, Return, stopVars
  <1>8. CASE ReconcileInterruptedEffect(e)
    BY <1>8 DEF TypeOK, Records, EffectsStep, EffectOK, EffectKept,
           VerdictKept, Pending, ReconcileInterruptedEffect, stopVars
  <1> QED
    BY <1>1, <1>2, <1>3, <1>4, <1>5, <1>6, <1>7, <1>8 DEF BrokerStep

\* The broker leaves the rows of the tasks alone.
LEMMA TasksFrame ==
    ASSUME Records, UNCHANGED <<taskVars, stopVars>>
    PROVE  TasksStep
  BY DEF Records, TasksStep, TaskOK, TaskKept, StopKept, Live, Active, Occupied,
         taskVars, stopVars

\* Everyone else leaves the callbacks alone.
LEMMA EffectsFrame ==
    ASSUME Records, UNCHANGED <<eff, egen, receipt, tool>>
    PROVE  EffectsStep
  BY DEF Records, EffectsStep, EffectOK, EffectKept, VerdictKept, Pending

\* Only a delegation and a selection for review move the candidate.
LEMMA CandidateFrame ==
    ASSUME UNCHANGED <<cand, epoch>>
    PROVE  CandidateStep
  BY DEF CandidateStep

\* Most steps do not touch an observation.
LEMMA ObservationFrame ==
    ASSUME UNCHANGED <<obsLive, moved>>
    PROVE  ObservationStep
  BY DEF ObservationStep

\* Attempts but for their claims are lawful.
LEMMA LawfulAttempts ==
    ASSUME Inv, NEW t \in Tasks, AttemptStep(t) \/ FaultStep(t), ~Claim(t)
    PROVE  Lawful
  <1>1. UNCHANGED <<eff, egen, receipt, tool, cand, epoch, obsLive, moved>>
    BY DEF AttemptStep, FaultStep, Launch, ClientEnds, SettleRetained,
           SettleDecision, SettleDeferred, SettleFailure, LeaseExpires,
           WorkerCrash, stopVars, effVars, runVars, obsVars
  <1> QED
    BY <1>1, TasksAttempts, EffectsFrame, CandidateFrame, ObservationFrame DEF Inv, Lawful

\* The controls of a task are lawful.
LEMMA LawfulControls ==
    ASSUME Inv, NEW t \in Tasks, ControlStep(t)
    PROVE  Lawful
  <1>1. UNCHANGED <<eff, egen, receipt, tool, cand, epoch, obsLive, moved>>
    BY DEF ControlStep, StopIdle, StopActive, StopRetained, MarkStopped,
           ReconcileStop, ResumeIdle, ResumeAttempt, effVars, runVars,
           obsVars, taskVars
  <1> QED
    BY <1>1, TasksControls, EffectsFrame, CandidateFrame, ObservationFrame DEF Inv, Lawful

\* The controls of the run are lawful.
LEMMA LawfulRuns ==
    ASSUME Inv, RunStep
    PROVE  Lawful
  <1>1. UNCHANGED <<eff, egen, receipt, tool, cand, epoch, obsLive, moved>>
    BY DEF RunStep, SuspendRun, ContinueCheckpoint, EndRun, ResumeRun,
           SettleEnded, taskVars, stopVars, effVars, obsVars, runVars
  <1> QED
    BY <1>1, TasksRuns, EffectsFrame, CandidateFrame, ObservationFrame DEF Inv, Lawful

\* The callbacks but for their admissions are lawful.  A tool that ends while
\* a handoff is observed only reads.
LEMMA LawfulBroker ==
    ASSUME Inv, NEW e \in Effects, BrokerStep(e), ~AdmitEffect(e)
    PROVE  Lawful
  <1>1. UNCHANGED <<taskVars, stopVars, cand, epoch>>
    BY DEF BrokerStep, BindOperation, ReplayCall, AuthorizeTool, ToolEnds,
           FinalizeEffect, EffectFails, CallCancelled,
           ReconcileInterruptedEffect, taskVars, stopVars, runVars, obsVars
  <1>2. ObservationStep
    <2>1. ASSUME NEW v \in {"ok", "bad"}, ToolEnds(e, v)
          PROVE  ObservationStep
      BY <2>1 DEF Inv, Records, EffectOK, ObservationQuiet, ObservationStep,
             ToolEnds, TypeOK
    <2>2. CASE UNCHANGED <<obsLive, moved>>
      BY <2>2, ObservationFrame
    <2> QED
      BY <2>1, <2>2 DEF BrokerStep, BindOperation, ReplayCall,
             AuthorizeTool, FinalizeEffect, EffectFails, CallCancelled,
             ReconcileInterruptedEffect, obsVars
  <1> QED
    BY <1>1, <1>2, TasksFrame, EffectsBroker, CandidateFrame DEF Inv, Lawful

\* The application of decisions is lawful.
LEMMA LawfulDecisions ==
    ASSUME Inv, SweepExpired \/ DecisionStep
    PROVE  Lawful
  <1>1. UNCHANGED <<eff, egen, receipt, tool>>
    BY DEF DecisionStep, SweepExpired, FinishDecision, Delegate,
           SelectReview, Wake, EnqueueReview, BeginObservation,
           ApplyHandoff, ObservationEnds, stopVars, effVars, runVars,
           obsVars, taskVars
  <1>2. TasksStep
    BY TasksDecisions DEF Inv
  <1>3. CandidateStep
    <2>1. ASSUME NEW c \in SUBSET (Tasks \ {Primary}), Delegate(c)
          PROVE  CandidateStep
      BY <1>2, <2>1, TaskAssumption DEF Inv, TypeOK, CandidateStep, Delegate, OthersTerminal,
             TasksStep, TaskKept, TaskOK, Live, Active, Records
    <2>2. CASE SelectReview
      BY <1>2, <2>2, TaskAssumption DEF Inv, TypeOK, CandidateStep, SelectReview, OthersTerminal,
             Close, TasksStep, TaskKept, TaskOK, Live, Active, Records
    <2>3. CASE UNCHANGED <<cand, epoch>>
      BY <2>3, CandidateFrame
    <2> QED
      BY <2>1, <2>2, <2>3 DEF DecisionStep, SweepExpired, FinishDecision, Wake,
             EnqueueReview, BeginObservation, ApplyHandoff, ObservationEnds, runVars
  <1>4. ObservationStep
    BY DEF ObservationStep, DecisionStep, SweepExpired, FinishDecision, Delegate, SelectReview,
           Wake, EnqueueReview, BeginObservation, ApplyHandoff, ObservationEnds, obsVars
  <1> QED
    BY <1>1, <1>2, <1>3, <1>4, EffectsFrame DEF Inv, Lawful

----------------------------------------------------------------------------
(* The two steps that take something.                                      *)

\* What the laws about stops and verdicts say.
Final == /\ \A t \in Tasks : StopKept(t)
         /\ \A e \in Effects : VerdictKept(e)

\* One more element counts at most one more.
LEMMA OneMore ==
    ASSUME NEW S, IsFiniteSet(S), NEW x
    PROVE  IsFiniteSet(S \cup {x}) /\ Cardinality(S \cup {x}) <= Cardinality(S) + 1
  <1>1. Cardinality(S) \in Nat
    BY FS_CardinalityType
  <1>2. CASE x \in S
    <2>1. S \cup {x} = S
      BY <1>2
    <2>2. IsFiniteSet(S \cup {x}) /\ Cardinality(S \cup {x}) = Cardinality(S)
      BY <2>1, Zenon
    <2> QED
      BY <1>1, <2>2
  <1>3. CASE x \notin S
    <2>1. IsFiniteSet(S \cup {x}) /\ Cardinality(S \cup {x}) = Cardinality(S) + 1
      BY <1>3, FS_AddElement
    <2> QED
      BY <1>1, <2>1
  <1> QED
    BY <1>2, <1>3

\* A claim finds a free slot, no unsettled effect of its task and no active
\* writer of its paths.
LEMMA ClaimKeeps ==
    ASSUME Inv, NEW t \in Tasks, Claim(t)
    PROVE  Inv' /\ Final
  <1> USE DEF Inv
  <1>1. TypeOK'
    BY TypesAttempts DEF AttemptStep
  <1>2. UNCHANGED <<eff, egen, receipt, tool, stop, cand, epoch, obsLive, moved>>
    BY DEF Claim, effVars, stopVars, runVars, obsVars
  <1>3. \A e \in Effects : (Pending(e)' <=> Pending(e)) /\ TaskOf[e] \in Tasks
    BY <1>2, TaskAssumption DEF Pending
  <1>4. ~Busy(t) /\ \A u \in Tasks : Busy(u)' <=> Busy(u)
    BY <1>3, NotBusy DEF Claim, Claimable, Busy
  <1>5. /\ Active(t)' /\ ~Active(t) /\ stop[t] = "none"
        /\ att'[t] = "running" /\ state'[t] = "leased" /\ aepoch'[t] = epoch
    BY DEF Claim, Claimable, Swept, Active, TypeOK
  <1>6. \A u \in Tasks \ {t} :
           /\ Active(u)' <=> Active(u)
           /\ state'[u] = "leased" => state[u] = "leased"
           /\ state'[u] = "absent" => state[u] = "absent"
           /\ state'[u] = "queued" => state[u] = "queued"
           /\ gen'[u] = gen[u] /\ aepoch'[u] = aepoch[u]
           /\ att'[u] = att[u] /\ client'[u] = client[u]
    BY DEF Claim, Swept, Active, TypeOK
  <1>7. \A u \in Tasks : TaskOK(u)'
    BY <1>2, <1>5, <1>6 DEF Records, TaskOK, Live
  <1>8. PendingKeepsTask'
    BY <1>2, <1>3, <1>4, <1>6 DEF Records, PendingKeepsTask, Busy
  <1>9. Records'
    BY <1>2, <1>3, <1>7, <1>8 DEF Records, EffectOK
  <1>10. ExclusiveAlone'
    BY <1>3 DEF ExclusiveAlone, WholeWorktree, ReadEffect, IsBoundRead
  <1>11. OverlappingWritersExclude'
    BY <1>5, <1>6 DEF OverlappingWritersExclude, Writers, Claim, Claimable, HasWorktreeConflict
  <1>12. SlotsBounded'
    <2> DEFINE Counted == {u \in Tasks : Active(u) /\ ~StoppedPause(u)}
    <2>1. IsFiniteSet(Counted) /\ IsFiniteSet(Working)
      BY TaskAssumption, FS_Subset DEF Working
    <2>2. Cardinality(Counted) < Limit
      BY DEF Claim, Claimable, ActiveCount
    <2>3. Working \subseteq Counted
      <3> SUFFICES ASSUME NEW u \in Tasks, Occupied(u) \/ Busy(u)
                   PROVE  Active(u) /\ ~StoppedPause(u)
        BY DEF Working
      <3>1. CASE Occupied(u)
        BY <3>1 DEF Records, TaskOK, Occupied, Live, StoppedPause, TypeOK
      <3>2. CASE Busy(u)
        BY <3>2, NotBusy DEF Records, PendingKeepsTask, Busy, StoppedPause
      <3> QED
        BY <3>1, <3>2
    <2>4. Working' \subseteq Working \cup {t}
      BY <1>4, <1>6 DEF Working, Occupied
    <2>5. Cardinality(Working) <= Cardinality(Counted)
      BY <2>1, <2>3, FS_Subset
    <2>6. /\ IsFiniteSet(Working \cup {t})
          /\ Cardinality(Working \cup {t}) <= Cardinality(Working) + 1
      BY <2>1, OneMore
    <2>7. Cardinality(Working') <= Cardinality(Working \cup {t})
      BY <2>4, <2>6, FS_Subset
    <2>8. /\ Cardinality(Working) \in Nat /\ Cardinality(Counted) \in Nat
          /\ Cardinality(Working') \in Nat /\ Cardinality(Working \cup {t}) \in Nat
      BY <2>1, <2>4, <2>6, FS_Subset, FS_CardinalityType
    <2>9. Cardinality(Working') <= Limit
      <3> HIDE DEF Counted
      <3> QED
        BY <2>2, <2>5, <2>6, <2>7, <2>8, TaskAssumption
    <2> QED
      BY <2>9, WorkingCountedNext DEF SlotsBounded
  <1>13. LiveAttemptCurrentEpoch'
    BY <1>2, <1>5, <1>6 DEF LiveAttemptCurrentEpoch
  <1>14. ClosedCandidateReadOnly' /\ ObservationQuiet' /\ ObservationHolds'
    BY <1>2, <1>3 DEF ClosedCandidateReadOnly, ObservationQuiet, ObservationHolds, ReadEffect,
           IsBoundRead
  <1>15. Final
    BY <1>2, <1>5, <1>6 DEF Final, StopKept, VerdictKept
  <1> QED
    BY <1>1, <1>9, <1>10, <1>11, <1>12, <1>13, <1>14, <1>15

\* An admission of a whole-worktree effect finds no other unsettled effect but
\* plain reads, and one that meets such an effect is a plain read.
LEMMA AdmissionKeeps ==
    ASSUME Inv, NEW x \in Effects, AdmitEffect(x)
    PROVE  Inv' /\ Final
  <1> USE DEF Inv
  <1> DEFINE t == TaskOf[x]
  <1>1. TypeOK'
    BY TypesBroker DEF BrokerStep
  <1>2. UNCHANGED <<taskVars, stopVars, egen, receipt, tool, runVars, obsVars>>
    BY DEF AdmitEffect
  <1>3. /\ t \in Tasks /\ eff[x] = "bound" /\ eff'[x] = "admitted"
        /\ \A e \in Effects \ {x} : eff'[e] = eff[e]
    <2>1. eff \in [Effects -> {"none", "bound", "admitted", "reconciling", "settled", "rejected"}]
      BY DEF TypeOK
    <2>2. t \in Tasks
      BY TaskAssumption
    <2> QED
      BY <2>1, <2>2 DEF AdmitEffect
  <1>4. /\ state[t] = "leased" /\ gen[t] = egen[x] /\ stop[t] = "none"
        /\ cand = "open" \/ ReadEffect(x)
    BY DEF AdmitEffect, Admissible, LeaseCurrent
  <1>5. att[t] = "running" /\ Active(t)
    BY <1>3, <1>4 DEF Records, TaskOK, Active
  <1>6. \A e \in Effects : TaskOf[e] \in Tasks /\ (Pending(e)' <=> Pending(e) \/ e = x)
    BY <1>3, TaskAssumption DEF Pending
  <1>7. PendingKeepsTask'
    BY <1>2, <1>4, <1>5, <1>6 DEF Records, PendingKeepsTask, Active, taskVars
  <1>8. \A e \in Effects : EffectOK(e)' /\ VerdictKept(e)
    BY <1>2, <1>3, <1>6 DEF Records, EffectOK, VerdictKept
  <1>9. \A u \in Tasks : TaskOK(u)' /\ StopKept(u)
    BY <1>2 DEF Records, TaskOK, StopKept, Live, Active, taskVars, stopVars
  <1>10. HasExclusiveBarrier => ReadEffect(x) /\ ~WholeWorktree(x)
    BY <1>3, ReaderAssumption DEF AdmitEffect, NewlyAdmissible, ReadEffect, IsBoundRead
  <1>11. ASSUME WholeWorktree(x), NEW f \in Effects, Pending(f)
         PROVE  ReadEffect(f) /\ ~WholeWorktree(f)
    <2>1. ~HasExclusiveBarrier /\ ~HasEffectConflict(x)
      BY <1>11 DEF AdmitEffect, NewlyAdmissible
    <2>2. ~WholeWorktree(f)
      BY <1>11, <2>1 DEF HasExclusiveBarrier
    <2>3. Active(TaskOf[f]) /\ TaskOf[f] \in Tasks
      BY <1>6, <1>11 DEF Records, PendingKeepsTask
    <2>4. KindOf[x] # "snapshot"
      BY <1>11, <2>1 DEF HasEffectConflict
    <2>5. TaskOf[f] # t
      BY <1>11, <2>1, <2>4 DEF HasEffectConflict, PendingOf, EffectsOf
    <2>6. TaskOf[f] \notin Writers
      BY <2>1, <2>3, <2>4, <2>5 DEF HasEffectConflict
    <2> QED
      BY <2>2, <2>3, <2>6, ReaderAssumption DEF Writers, WholeWorktree, ReadEffect, IsBoundRead
  <1>12. ExclusiveAlone'
    <2> SUFFICES ASSUME NEW e \in Effects, NEW f \in Effects, e # f, Pending(e)', Pending(f)',
                        WholeWorktree(e)
                 PROVE  ReadEffect(f) /\ ~WholeWorktree(f)
      BY DEF ExclusiveAlone, WholeWorktree, ReadEffect, IsBoundRead
    <2>1. CASE e = x
      BY <1>6, <1>11, <2>1
    <2>2. CASE f = x
      BY <1>6, <1>10, <2>2 DEF HasExclusiveBarrier
    <2>3. CASE e # x /\ f # x
      BY <1>6, <2>3 DEF ExclusiveAlone
    <2> QED
      BY <2>1, <2>2, <2>3
  <1>13. OverlappingWritersExclude' /\ LiveAttemptCurrentEpoch'
    BY <1>2 DEF OverlappingWritersExclude, Writers, Active, LiveAttemptCurrentEpoch, taskVars,
           runVars
  <1>14. SlotsBounded'
    <2>1. \A u \in Tasks : Busy(u)' => Busy(u) \/ u = t
      BY <1>6 DEF Busy
    <2>2. Occupied(t) /\ \A u \in Tasks : Occupied(u)' <=> Occupied(u)
      BY <1>2, <1>5 DEF Occupied, taskVars
    <2> QED
      BY <2>1, <2>2, SlotsKept
  <1>15. ClosedCandidateReadOnly'
    BY <1>2, <1>4, <1>6 DEF ClosedCandidateReadOnly, ReadEffect, IsBoundRead, runVars
  <1>16. ObservationQuiet' /\ ObservationHolds'
    BY <1>2, <1>6, <1>10 DEF ObservationQuiet, ObservationHolds, HasExclusiveBarrier, ReadEffect,
           IsBoundRead, obsVars
  <1> QED
    BY <1>1, <1>7, <1>8, <1>9, <1>12, <1>13, <1>14, <1>15, <1>16 DEF Records, Final

----------------------------------------------------------------------------
(* The theorems.                                                           *)

\* Every step keeps the invariant, stops and verdicts.
LEMMA StepKeeps ==
    ASSUME Inv, [Next]_vars
    PROVE  Inv' /\ Final
  <1>1. ASSUME NEW t \in Tasks, Claim(t)
        PROVE  Inv' /\ Final
    BY <1>1, ClaimKeeps
  <1>2. ASSUME NEW e \in Effects, AdmitEffect(e)
        PROVE  Inv' /\ Final
    BY <1>2, AdmissionKeeps
  <1>3. ASSUME Lawful, TypeOK'
        PROVE  Inv' /\ Final
    BY <1>3, LawfulKeeps DEF Lawful, Final, TasksStep, EffectsStep
  <1>4. ASSUME NEW t \in Tasks, AttemptStep(t) \/ FaultStep(t)
        PROVE  Inv' /\ Final
    BY <1>1, <1>3, <1>4, TypesAttempts, LawfulAttempts DEF Inv
  <1>5. ASSUME NEW t \in Tasks, ControlStep(t)
        PROVE  Inv' /\ Final
    BY <1>3, <1>5, TypesControls, LawfulControls DEF Inv
  <1>6. ASSUME NEW e \in Effects, BrokerStep(e)
        PROVE  Inv' /\ Final
    BY <1>2, <1>3, <1>6, TypesBroker, LawfulBroker DEF Inv
  <1>7. CASE SweepExpired \/ DecisionStep
    BY <1>3, <1>7, TypesDecisions, LawfulDecisions DEF Inv
  <1>8. CASE RunStep
    BY <1>3, <1>8, TypesRuns, LawfulRuns DEF Inv
  <1>9. CASE UNCHANGED vars
    <2>1. /\ UNCHANGED <<taskVars, stopVars>> /\ UNCHANGED <<eff, egen, receipt, tool>>
          /\ UNCHANGED <<cand, epoch>> /\ UNCHANGED <<obsLive, moved>>
      BY <1>9 DEF vars, effVars, runVars, obsVars
    <2>2. Lawful
      BY <2>1, TasksFrame, EffectsFrame, CandidateFrame, ObservationFrame DEF Inv, Lawful
    <2>3. TypeOK'
      BY <1>9 DEF Inv, TypeOK, vars, taskVars, stopVars, effVars, runVars, obsVars
    <2> QED
      BY <1>3, <2>2, <2>3
  <1> QED
    BY <1>4, <1>5, <1>6, <1>7, <1>8, <1>9 DEF Next

\* The run starts in the invariant.
LEMMA InitKeeps ==
    ASSUME Init
    PROVE  Inv
  <1>1. TypeOK
    <2>1. \A n \in Nat : 0 \in 0..n
      OBVIOUS
    <2>2. /\ 0 \in Nat /\ 0 \in 0..MaxEpoch /\ 0 \in 0..MaxRepairs /\ 0 \in 0..MaxCallers
          /\ TRUE \in BOOLEAN /\ FALSE \in BOOLEAN
      BY <2>1, TaskAssumption
    <2>3. /\ gen \in [Tasks -> Nat] /\ aepoch \in [Tasks -> 0..MaxEpoch]
          /\ repairs \in [Tasks -> 0..MaxRepairs] /\ egen \in [Effects -> Nat]
          /\ eepoch \in [Effects -> 0..MaxEpoch] /\ callers \in [Effects -> 0..MaxCallers]
          /\ epoch \in 0..MaxEpoch
      BY <2>2 DEF Init
    <2>4. /\ expired \in [Tasks -> BOOLEAN] /\ proved \in [Tasks -> BOOLEAN]
          /\ receipt \in [Effects -> BOOLEAN] /\ obsLive \in BOOLEAN /\ moved \in BOOLEAN
      BY <2>2 DEF Init
    <2> QED
      BY <2>3, <2>4 DEF Init, TypeOK
  <1>2. \A e \in Effects : ~Pending(e)
    BY DEF Init, Pending
  <1>3. \A t \in Tasks : att[t] = "none" /\ client[t] = "none" /\ ~Active(t) /\ stop[t] = "none"
    BY DEF Init, Active
  <1>4. Records
    BY <1>2, <1>3 DEF Init, Records, TaskOK, EffectOK, PendingKeepsTask, Live, Active
  <1>5. SlotsBounded
    <2>1. Working = {}
      BY <1>2, <1>3 DEF Working, Occupied, Busy
    <2>2. Cardinality(Working) <= Limit
      BY <2>1, FS_EmptySet, TaskAssumption
    <2> QED
      BY <2>2, WorkingCounted DEF SlotsBounded
  <1>6. OverlappingWritersExclude /\ LiveAttemptCurrentEpoch
    BY <1>3 DEF OverlappingWritersExclude, LiveAttemptCurrentEpoch, Writers
  <1> QED
    BY <1>1, <1>2, <1>4, <1>5, <1>6
       DEF Init, Inv, ExclusiveAlone, ClosedCandidateReadOnly, ObservationQuiet, ObservationHolds

\* The rows, attempts, clients, effects and receipts of a run always agree.
THEOREM TasksInvariant == Spec => []Inv
  BY InitKeeps, StepKeeps, PTL DEF Spec

\* Whatever leases expire, workers die and stops arrive, an unsettled commit,
\* check, snapshot or coordinator write is alone in the worktree but for plain
\* reads, writers of overlapping paths are never both unfinished, and no more
\* tasks work than there are slots (admit_effect, admit_next, _active_count).
THEOREM EffectsAlwaysExclude == Spec => []EffectsExclude
  <1>1. Inv => EffectsExclude
    BY DEF Inv, EffectsExclude
  <1> QED
    BY <1>1, TasksInvariant, PTL

\* No task gets past an unsettled effect, a live attempt is of the current
\* candidate, a closed candidate is only read, an observed handoff is applied
\* to the observed tree, no stop is revived and no verdict changes (settle,
\* settle_effect, _apply, _finalize_effect, _reconcile_interrupted_effect).
THEOREM ResultsAlwaysFenced == Spec => ResultsFenced
  <1>1. Inv => /\ PendingKeepsTask /\ LiveAttemptCurrentEpoch
               /\ ClosedCandidateReadOnly /\ ObservationHolds
    BY DEF Inv, Records
  <1>2. Final => \A t \in Tasks : stop[t] # "none" =>
          /\ gen'[t] = gen[t]
          /\ \A e \in EffectsOf(t) : eff'[e] = "settled" => eff[e] = "settled"
          /\ stop[t] = "cancel" => stop'[t] = "cancel"
          /\ state'[t] = "queued" /\ state[t] # "queued" => stop'[t] = "none"
    BY DEF Final, StopKept, VerdictKept, EffectsOf
  <1>3. Final => \A e \in Effects :
          /\ receipt[e] => receipt'[e] /\ eff'[e] = eff[e]
          /\ eff[e] \in {"settled", "rejected"} => eff'[e] = eff[e]
    BY DEF Final, VerdictKept
  <1>4. Spec => StopNeverRevived
    BY <1>2, StepKeeps, TasksInvariant, PTL DEF StopNeverRevived, Spec
  <1>5. Spec => VerdictFinal
    BY <1>3, StepKeeps, TasksInvariant, PTL DEF VerdictFinal, Spec
  <1> QED
    BY <1>1, <1>4, <1>5, TasksInvariant, PTL DEF ResultsFenced

============================================================================
