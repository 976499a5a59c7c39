------------------------- MODULE MCStartupRecovery --------------------------
(***************************************************************************)
(* StartupRecovery for two processes and two runs, one of which refuses    *)
(* recovery. And what must happen in the end of a command queue, a         *)
(* release, the decisions of a primary, a stopped task, an epic and an     *)
(* authoring job.                                                          *)
(*                                                                         *)
(* The components share no state and every property is about one of them,  *)
(* so a variable, focus, says which of them moves; the others rest in      *)
(* their initial states.                                                   *)
(***************************************************************************)
EXTENDS StartupRecovery

CONSTANTS None, Unproved

Chain == [w \in {"a", "b"} |-> IF w = "b" THEN {"a"} ELSE {}]
Budgets == [t \in {"p", "a", "b", "r"} |-> IF t = "p" THEN 3 ELSE 2]

VARIABLES
    focus,
    cmd, order, tasks, runState, held, applied, cqFaults,
    state, rpHeld, version, stop, fixes, observed, cmds, rpHolder, rpPc, del,
    step, msg, seen, intent, cand, cbase, record, gate, rhead, rbase, pr,
    checks, entry, merged, flying, commits, ours, expired, outside, rpFaults,
    stops,
    st, used, rep, disp, dec, turn, fresh, older, since, accepted, pdCand,
    pdStop, idle, fb, steer, diag, spent,
    retSt, retUsed, retRep, retDisp, retDec, retTurn, retFresh, retOlder,
    retSince, retAccepted, retCand, retStop, retIdle, retFb, retSteer,
    retDiag, retSpent,
    stState, stGen, stExpired, att, aepoch, result, client, proved, repairs,
    stStop, stopRow, stIdle, eff, egen, eepoch, receipt, tool, callers,
    stCand, epoch, run, obs, obsLive, moved,
    children, control, setting, intents, handoff, ceiling, agent, edFaults,
    job, pool, worker, live, sup, told, crashes

Queue == INSTANCE CommandQueue WITH
    Workers <- {"n1", "n2", "k"}, ControlWorkers <- {"k"},
    Skew <- [w \in {"n1", "n2", "k"} |-> 0], MaxSkew <- 0, Lease <- 2,
    Types <- {"stage", "pause", "resume"}, MaxBackoff <- 1, MaxCommands <- 2,
    MaxFaults <- 1, faults <- cqFaults

Pipeline == INSTANCE ReleasePipeline WITH
    Workers <- {"w1", "w2"}, Queued <- FALSE, Limit <- 1, MaxPoll <- 2,
    MaxCommits <- 2, MaxBase <- 1, MaxOutside <- 0, MaxFaults <- 1,
    MaxStops <- 0, held <- rpHeld, holder <- rpHolder, pc <- rpPc,
    faults <- rpFaults

Decisions == INSTANCE PrimaryDecisions WITH
    Primary <- "p", Workers <- {"a", "b"}, Reviewer <- "r", Deps <- Chain,
    Budget <- Budgets, MaxRepairs <- [t \in {"p", "a", "b", "r"} |-> 1],
    Delays <- 1,
    Kinds <- {"delegate", "wait", "accept_task", "forward", "handoff"},
    Faults <- {"fail", "unlaunched"}, Operator <- {"feedback"},
    MaxFeedback <- 1, MaxSteer <- 1, MaxStops <- 1, cand <- pdCand,
    stop <- pdStop

Retries == INSTANCE PrimaryDecisions WITH
    Primary <- "p", Workers <- {"a", "b"}, Reviewer <- "r", Deps <- Chain,
    Budget <- Budgets, MaxRepairs <- [t \in {"p", "a", "b", "r"} |-> 1],
    Delays <- 3,
    Kinds <- {"delegate", "wait", "accept_task", "forward", "handoff"},
    Faults <- {"stumble", "observation"}, Operator <- {}, MaxFeedback <- 1,
    MaxSteer <- 1, MaxStops <- 1, st <- retSt, used <- retUsed,
    rep <- retRep, disp <- retDisp, dec <- retDec, turn <- retTurn,
    fresh <- retFresh, older <- retOlder, since <- retSince,
    accepted <- retAccepted, cand <- retCand, stop <- retStop,
    idle <- retIdle, fb <- retFb, steer <- retSteer, diag <- retDiag,
    spent <- retSpent

Callbacks == INSTANCE SubscriptionTasks WITH
    Tasks <- {"p", "w"}, Primary <- "p", Readers <- {}, Region <- {1, 2},
    Owned <- [t \in {"p", "w"} |-> IF t = "w" THEN {1} ELSE {}],
    Effects <- {"wwrite"}, TaskOf <- [e \in {"wwrite"} |-> "w"],
    KindOf <- [e \in {"wwrite"} |-> "write"], Limit <- 3, Stoppable <- {"w"},
    Suspensions <- {}, MaxLeases <- [t \in {"p", "w"} |-> 1],
    MaxRepairs <- 0, MaxEpoch <- 0, MaxCallers <- 1, Faults <- TRUE,
    state <- stState, gen <- stGen, expired <- stExpired, stop <- stStop,
    idle <- stIdle, cand <- stCand

Epic == INSTANCE EpicDelivery WITH
    Executions <- {"e1"}, Items <- {"i1"}, Dispatchers <- {"d1"},
    Order <- <<"i1">>, Deps <- [i \in {"i1"} |-> {}], Required <- {"i1"},
    Usages <- {0}, Ceilings <- {2}, Overrides <- FALSE, BaseMoves <- FALSE,
    Actions <- {"pause", "resume", "cancel"}, MaxRuns <- 1,
    MaxRunVersion <- 2, MaxControl <- 2, MaxConfig <- 1, MaxFaults <- 1,
    MaxClaims <- 2, faults <- edFaults

Authoring == INSTANCE AuthoringJobs WITH
    Jobs <- {"j1"}, Workers <- {"w1"}, MaxAttempts <- 2, MaxCrashes <- 1,
    Monitored <- TRUE, Controls <- {"cancel", "retry", "continue"},
    Results <- {"none", "proposal"}, SameHost <- TRUE

ASSUME Pipeline!PipelineAssumption

ASSUME Decisions!DecisionAssumption

ASSUME Retries!DecisionAssumption

ASSUME Authoring!AuthoringAssumption

commandQueueVars == <<
    cmd, order, tasks, runState, held, applied, cqFaults>>

releasePipelineVars == <<
    state, rpHeld, version, stop, fixes, observed, cmds, rpHolder, rpPc, del,
    step, msg, seen, intent, cand, cbase, record, gate, rhead, rbase, pr,
    checks, entry, merged, flying, commits, ours, expired, outside, rpFaults,
    stops>>

primaryDecisionsVars == <<
    st, used, rep, disp, dec, turn, fresh, older, since, accepted, pdCand,
    pdStop, idle, fb, steer, diag, spent>>

retriesVars == <<
    retSt, retUsed, retRep, retDisp, retDec, retTurn, retFresh, retOlder,
    retSince, retAccepted, retCand, retStop, retIdle, retFb, retSteer,
    retDiag, retSpent>>

subscriptionTasksVars == <<
    stState, stGen, stExpired, att, aepoch, result, client, proved, repairs,
    stStop, stopRow, stIdle, eff, egen, eepoch, receipt, tool, callers,
    stCand, epoch, run, obs, obsLive, moved>>

epicDeliveryVars == <<
    children, control, setting, intents, handoff, ceiling, agent, edFaults>>

authoringJobsVars == <<
    job, pool, worker, live, sup, told, crashes>>

allVars == <<focus, vars, commandQueueVars, releasePipelineVars, primaryDecisionsVars, retriesVars, subscriptionTasksVars, epicDeliveryVars, authoringJobsVars>>

MCInit ==
    /\ focus \in {"startup", "queue", "release", "decisions", "retries", "callbacks", "epic", "authoring"}
    /\ Init
    /\ Queue!Init
    /\ Pipeline!Init
    /\ Decisions!Init
    /\ Retries!Init
    /\ Callbacks!Init
    /\ Epic!Init
    /\ Authoring!Init

MCNext ==
    \/ focus = "startup" /\ Next
       /\ UNCHANGED <<focus, commandQueueVars, releasePipelineVars,
                         primaryDecisionsVars, retriesVars,
                         subscriptionTasksVars, epicDeliveryVars,
                         authoringJobsVars>>
    \/ focus = "queue" /\ Queue!Next
       /\ UNCHANGED <<focus, vars, releasePipelineVars,
                         primaryDecisionsVars, retriesVars,
                         subscriptionTasksVars, epicDeliveryVars,
                         authoringJobsVars>>
    \/ focus = "release" /\ Pipeline!Next
       /\ UNCHANGED <<focus, vars, commandQueueVars, primaryDecisionsVars,
                         retriesVars, subscriptionTasksVars,
                         epicDeliveryVars, authoringJobsVars>>
    \/ focus = "decisions" /\ Decisions!Next
       /\ UNCHANGED <<focus, vars, commandQueueVars, releasePipelineVars,
                         retriesVars, subscriptionTasksVars,
                         epicDeliveryVars, authoringJobsVars>>
    \/ focus = "retries" /\ Retries!Next
       /\ UNCHANGED <<focus, vars, commandQueueVars, releasePipelineVars,
                         primaryDecisionsVars, subscriptionTasksVars,
                         epicDeliveryVars, authoringJobsVars>>
    \/ focus = "callbacks" /\ Callbacks!Next
       /\ UNCHANGED <<focus, vars, commandQueueVars, releasePipelineVars,
                         primaryDecisionsVars, retriesVars, epicDeliveryVars,
                         authoringJobsVars>>
    \/ focus = "epic" /\ Epic!Next
       /\ UNCHANGED <<focus, vars, commandQueueVars, releasePipelineVars,
                         primaryDecisionsVars, retriesVars,
                         subscriptionTasksVars, authoringJobsVars>>
    \/ focus = "authoring" /\ Authoring!Next
       /\ UNCHANGED <<focus, vars, commandQueueVars, releasePipelineVars,
                         primaryDecisionsVars, retriesVars,
                         subscriptionTasksVars, epicDeliveryVars>>

\* Each component is scheduled as fairly as its own module says.
MCSpec ==
    /\ MCInit /\ [][MCNext]_allVars
    /\ \A p \in Procs :
         /\ WF_vars(focus = "startup" /\ Startup(p))
         /\ WF_vars(focus = "startup" /\ \E r \in Runs : EndWork(p, r))
    /\ \A r \in Runs : WF_vars(focus = "startup" /\ LeaseLapses(r))
    /\ \A w \in {"n1", "n2", "k"} :
         /\ WF_commandQueueVars(focus = "queue" /\ \E c \in 1..2 : Queue!ClaimNext(w, c))
         /\ WF_commandQueueVars(focus = "queue" /\ Queue!Deliver(w))
    /\ WF_commandQueueVars(focus = "queue" /\ Queue!Release)
    /\ WF_commandQueueVars(focus = "queue" /\ Queue!Advance)
    /\ WF_releasePipelineVars(focus = "release" /\ Pipeline!Control)
    /\ \A w \in {"w1", "w2"} :
         /\ WF_releasePipelineVars(focus = "release" /\ Pipeline!Claim(w))
         /\ WF_releasePipelineVars(focus = "release" /\ Pipeline!Deliver(w))
    /\ \A t \in {"p", "a", "b", "r"} :
         /\ WF_primaryDecisionsVars(focus = "decisions" /\ Decisions!Claim(t))
         /\ WF_primaryDecisionsVars(focus = "decisions" /\ Decisions!Build(t))
         /\ WF_primaryDecisionsVars(focus = "decisions" /\ Decisions!Settle(t))
         /\ WF_primaryDecisionsVars(focus = "decisions" /\ Decisions!Apply(t))
         /\ WF_retriesVars(focus = "retries" /\ Retries!Claim(t))
         /\ WF_retriesVars(focus = "retries" /\ Retries!Build(t))
         /\ WF_retriesVars(focus = "retries" /\ Retries!Settle(t))
         /\ WF_retriesVars(focus = "retries" /\ Retries!Apply(t))
    /\ WF_primaryDecisionsVars(focus = "decisions" /\ Decisions!Observe)
    /\ WF_retriesVars(focus = "retries" /\ Retries!Observe)
    /\ WF_subscriptionTasksVars(focus = "callbacks" /\ Callbacks!SweepExpired)
    /\ \A t \in {"p", "w"} :
         /\ WF_subscriptionTasksVars(focus = "callbacks" /\ Callbacks!ClientEnds(t, "stopped"))
         /\ WF_subscriptionTasksVars(focus = "callbacks" /\
                \E o \in {"failure", "uncertain"} : Callbacks!SettleRetained(t, o))
         /\ WF_subscriptionTasksVars(focus = "callbacks" /\ Callbacks!SettleFailure(t))
         /\ WF_subscriptionTasksVars(focus = "callbacks" /\ Callbacks!SettleDecision(t))
         /\ WF_subscriptionTasksVars(focus = "callbacks" /\ Callbacks!ReconcileStop(t))
    /\ WF_subscriptionTasksVars(focus = "callbacks" /\ Callbacks!AuthorizeTool("wwrite"))
    /\ WF_subscriptionTasksVars(focus = "callbacks" /\ Callbacks!ToolEnds("wwrite", "ok"))
    /\ WF_subscriptionTasksVars(focus = "callbacks" /\ Callbacks!FinalizeEffect("wwrite"))
    /\ WF_subscriptionTasksVars(focus = "callbacks" /\ Callbacks!ReconcileInterruptedEffect("wwrite"))
    /\ WF_epicDeliveryVars(focus = "epic" /\ Epic!Dispatcher("d1"))
    /\ WF_epicDeliveryVars(focus = "epic" /\ \E c \in DOMAIN children : Epic!SettleHold(c))
    /\ WF_epicDeliveryVars(focus = "epic" /\ \E i \in intents : Epic!Enqueue(i))
    /\ WF_epicDeliveryVars(focus = "epic" /\ \E i \in intents : Epic!Refuse(i))
    /\ WF_epicDeliveryVars(focus = "epic" /\ \E i \in intents : Epic!Settle(i))
    /\ WF_epicDeliveryVars(focus = "epic" /\ \E i \in intents : Epic!ExecuteCommand(i))
    /\ WF_epicDeliveryVars(focus = "epic" /\ \E c \in DOMAIN children : Epic!Quiesce(c))
    /\ WF_epicDeliveryVars(focus = "epic" /\ Epic!Expire("e1"))
    /\ WF_authoringJobsVars(focus = "authoring" /\ Authoring!WorkerStep("w1"))
    /\ WF_authoringJobsVars(focus = "authoring" /\ Authoring!Reconcile("w1", "j1"))
    /\ WF_authoringJobsVars(focus = "authoring" /\ ~ Authoring!Attended("j1") /\ Authoring!LeaseLapse("j1"))
    /\ WF_authoringJobsVars(focus = "authoring" /\ Authoring!DurationExpires("j1"))
    /\ WF_authoringJobsVars(focus = "authoring" /\ Authoring!Evaluate("j1"))
    /\ \A n \in 1..2 : WF_authoringJobsVars(focus = "authoring" /\ Authoring!LateStop("w1", "j1", n))

-----------------------------------------------------------------------------
\* A startup ends although processes die in it, accepted stops and the work of
\* an active run settle, and the monitoring of a pull request comes to a
\* decision.  Feedback is delivered or closed, a blocked primary is woken, a
\* decision that fails to apply is applied or given up, an effect of a stopped
\* task is settled; an epic settles its controls, proceeds after a dead
\* dispatcher and notices its success; a cancelled authoring job and its
\* checkpoint settle.
PartiesProceed ==
    /\ StartupEnds
    /\ Queue!StopSettles
    /\ Queue!WorkSettles
    /\ Pipeline!MonitoringEnds
    /\ Decisions!FeedbackSettles
    /\ Decisions!PrimaryWoken
    /\ Retries!ApplicationSettles
    /\ Callbacks!StoppedEffectsSettle
    /\ Epic!ControlSettles
    /\ Epic!DispatchProceeds
    /\ Epic!SuccessNoticed
    /\ Authoring!CancelSettles
    /\ Authoring!CheckpointSettles

=============================================================================
