--------------------------- MODULE MCEpicDelivery ---------------------------
(***************************************************************************)
(* EpicDelivery for an epic of two items, the second after the first, that *)
(* two dispatchers work on, for two epochs of an item, and for its         *)
(* controls. AuthoringJobs for a monitored job that two workers meet and   *)
(* for two jobs of one quota pool. DirectRuns for a run with two review    *)
(* threads, for a parked run and for two workers.                          *)
(*                                                                         *)
(* The components share no state and every property is about one of them,  *)
(* so a variable, focus, says which of them moves; the others rest in      *)
(* their initial states.                                                   *)
(***************************************************************************)
EXTENDS EpicDelivery, TLC

CONSTANTS i1, i2, x1, x2

\* x1 and x2 are two dispatchers, workers, jobs, review threads or requests.
ChainOrder == <<i1, i2>>
ChainDeps == [i \in {i1, i2} |-> IF i = i2 THEN {i1} ELSE {}]

VARIABLES
    focus,
    edChildren, edControl, edSetting, edIntents, edHandoff, edCeiling,
    edAgent, edFaults,
    steChildren, steControl, steSetting, steIntents, steHandoff, steCeiling,
    steAgent, steFaults,
    job, pool, worker, live, sup, told, crashes,
    quoJob, quoPool, quoWorker, quoLive, quoSup, quoTold, quoCrashes,
    run, sessions, drLive, trees, checks, cleared, remote, briefed, wk, reqs,
    drCrashes,
    parRun, parSessions, parLive, parTrees, parChecks, parCleared, parRemote,
    parBriefed, parWk, parReqs, parCrashes

Epochs == INSTANCE EpicDelivery WITH
    Executions <- {"e1", "e2"}, Items <- {"i1"}, Dispatchers <- {"d1"},
    Order <- <<"i1">>, Deps <- [i \in {"i1"} |-> {}], Required <- {"i1"},
    Usages <- {0, Unproved}, Ceilings <- {2}, Overrides <- FALSE,
    BaseMoves <- TRUE, Actions <- {}, MaxRuns <- 2, MaxRunVersion <- 2,
    MaxControl <- 1, MaxConfig <- 0, MaxFaults <- 0, MaxClaims <- 1,
    children <- edChildren, control <- edControl, setting <- edSetting,
    intents <- edIntents, handoff <- edHandoff, ceiling <- edCeiling,
    agent <- edAgent, faults <- edFaults

Steered == INSTANCE EpicDelivery WITH
    Executions <- {"e1"}, Items <- {"i1"}, Dispatchers <- {},
    Order <- <<"i1">>, Deps <- [i \in {"i1"} |-> {}], Required <- {"i1"},
    Usages <- {0}, Ceilings <- {3}, Overrides <- TRUE, BaseMoves <- FALSE,
    Actions <- {"pause", "cancel"}, MaxRuns <- 2, MaxRunVersion <- 2,
    MaxControl <- 2, MaxConfig <- 0, MaxFaults <- 0, MaxClaims <- 2,
    children <- steChildren, control <- steControl, setting <- steSetting,
    intents <- steIntents, handoff <- steHandoff, ceiling <- steCeiling,
    agent <- steAgent, faults <- steFaults

Job == INSTANCE AuthoringJobs WITH
    Jobs <- {"j1"}, Workers <- {x1, x2}, MaxAttempts <- 2, MaxCrashes <- 1,
    Monitored <- TRUE, Controls <- {"cancel", "retry", "continue", "stop"},
    Results <- {"none", "proposal", "quota", "quotaSeen", "unavailable"},
    SameHost <- FALSE

Quota == INSTANCE AuthoringJobs WITH
    Jobs <- {x1, x2}, Workers <- {"w"}, MaxAttempts <- 2, MaxCrashes <- 0,
    Monitored <- FALSE, Controls <- {}, Results <- {"none", "quota"},
    SameHost <- TRUE, job <- quoJob, pool <- quoPool, worker <- quoWorker,
    live <- quoLive, sup <- quoSup, told <- quoTold, crashes <- quoCrashes

Direct == INSTANCE DirectRuns WITH
    Workers <- {"w1"}, Trees <- {"t0", "t1"}, BaseTree <- "t0",
    Threads <- {"th1"}, Reviews <- {"rv1"}, Requests <- {"q1"},
    Planned <- FALSE, ReviewPlanFirst <- FALSE, SkipReview <- FALSE,
    HasRepository <- TRUE, Overlapping <- FALSE, MaxSessions <- 6,
    MaxRepairs <- 1, MaxReviewRounds <- 2, MaxPrRounds <- 2, MaxCrashes <- 1,
    live <- drLive, crashes <- drCrashes

Parked == INSTANCE DirectRuns WITH
    Workers <- {"w1"}, Trees <- {"t0", "t1"}, BaseTree <- "t0",
    Threads <- {}, Reviews <- {}, Requests <- {x1, x2}, Planned <- TRUE,
    ReviewPlanFirst <- TRUE, SkipReview <- FALSE, HasRepository <- FALSE,
    Overlapping <- TRUE, MaxSessions <- 4, MaxRepairs <- 1,
    MaxReviewRounds <- 2, MaxPrRounds <- 0, MaxCrashes <- 1, run <- parRun,
    sessions <- parSessions, live <- parLive, trees <- parTrees,
    checks <- parChecks, cleared <- parCleared, remote <- parRemote,
    briefed <- parBriefed, wk <- parWk, reqs <- parReqs,
    crashes <- parCrashes

Pair == INSTANCE DirectRuns WITH
    Workers <- {"w1", "w2"}, Trees <- {"t0", "t1"}, BaseTree <- "t0",
    Threads <- {}, Reviews <- {}, Requests <- {}, Planned <- FALSE,
    ReviewPlanFirst <- FALSE, SkipReview <- FALSE, HasRepository <- TRUE,
    Overlapping <- FALSE, MaxSessions <- 3, MaxRepairs <- 1,
    MaxReviewRounds <- 2, MaxPrRounds <- 0, MaxCrashes <- 0, live <- drLive,
    crashes <- drCrashes

ASSUME Job!AuthoringAssumption

ASSUME Quota!AuthoringAssumption

ASSUME Direct!BoundsAssumption

ASSUME Parked!BoundsAssumption

ASSUME Pair!BoundsAssumption

epicDeliveryVars == <<
    edChildren, edControl, edSetting, edIntents, edHandoff, edCeiling,
    edAgent, edFaults>>

steeredVars == <<
    steChildren, steControl, steSetting, steIntents, steHandoff, steCeiling,
    steAgent, steFaults>>

authoringJobsVars == <<
    job, pool, worker, live, sup, told, crashes>>

quotaVars == <<
    quoJob, quoPool, quoWorker, quoLive, quoSup, quoTold, quoCrashes>>

directRunsVars == <<
    run, sessions, drLive, trees, checks, cleared, remote, briefed, wk, reqs,
    drCrashes>>

parkedVars == <<
    parRun, parSessions, parLive, parTrees, parChecks, parCleared, parRemote,
    parBriefed, parWk, parReqs, parCrashes>>

allVars == <<focus, vars, epicDeliveryVars, steeredVars, authoringJobsVars, quotaVars, directRunsVars, parkedVars>>

MCInit ==
    /\ focus \in {"dispatch", "epochs", "controls", "job", "quota", "direct", "parked", "pair"}
    /\ Init
    /\ Epochs!Init
    /\ Steered!Init
    /\ Job!Init
    /\ Quota!Init
    /\ \/ focus \notin {"pair"} /\ Direct!Init
       \/ focus = "pair" /\ Pair!Init
    /\ Parked!Init
    /\ focus # "dispatch" => ceiling = 2

MCNext ==
    \/ focus = "dispatch" /\ Next
       /\ UNCHANGED <<focus, epicDeliveryVars, steeredVars,
                         authoringJobsVars, quotaVars, directRunsVars,
                         parkedVars>>
    \/ focus = "epochs" /\ Epochs!Next
       /\ UNCHANGED <<focus, vars, steeredVars, authoringJobsVars,
                         quotaVars, directRunsVars, parkedVars>>
    \/ focus = "controls" /\ Steered!Next
       /\ UNCHANGED <<focus, vars, epicDeliveryVars, authoringJobsVars,
                         quotaVars, directRunsVars, parkedVars>>
    \/ focus = "job" /\ Job!Next
       /\ UNCHANGED <<focus, vars, epicDeliveryVars, steeredVars,
                         quotaVars, directRunsVars, parkedVars>>
    \/ focus = "quota" /\ Quota!Next
       /\ UNCHANGED <<focus, vars, epicDeliveryVars, steeredVars,
                         authoringJobsVars, directRunsVars, parkedVars>>
    \/ focus = "direct" /\ Direct!Next
       /\ UNCHANGED <<focus, vars, epicDeliveryVars, steeredVars,
                         authoringJobsVars, quotaVars, parkedVars>>
    \/ focus = "parked" /\ Parked!Next
       /\ UNCHANGED <<focus, vars, epicDeliveryVars, steeredVars,
                         authoringJobsVars, quotaVars, directRunsVars>>
    \/ focus = "pair" /\ Pair!Next
       /\ UNCHANGED <<focus, vars, epicDeliveryVars, steeredVars,
                         authoringJobsVars, quotaVars, parkedVars>>

MCSpec == MCInit /\ [][MCNext]_allVars

Symmetric == Permutations({x1, x2})

-----------------------------------------------------------------------------
\* An item is dispatched once and after its dependencies, one child of it at a
\* time, an ended execution gets no further child, and a control is settled
\* only when it is true of every child (epic_dispatch_worker.py,
\* epic_run_bridge.py, epic_lifecycle.py).
ChildrenInOrder ==
    /\ [](TypeOK /\ DispatchedOnce /\ DependencyOrder)
    /\ [](focus = "epochs" => Epochs!OneChildAtATime)
    /\ [](focus = "epochs" => Epochs!EndedIsEnded)
    /\ [](focus = "controls" => Steered!EndedIsEnded)
    /\ Steered!SettlesTruthfully

\* An authoring job has one provider process at a time, saves only a proven
\* proposal, keeps the reason it was stopped for over every recovery and sends
\* one probe into a closed quota pool (worker/epic_brainstorm.py).
AuthoringTruthful ==
    /\ [](focus = "job" => Job!TypeOK)
    /\ [](focus = "job" => Job!OneProcess)
    /\ [](focus = "job" => Job!PausedTruthful)
    /\ [](focus = "job" => Job!ProposalProven)
    /\ Job!CancelHolds
    /\ Job!TimeoutKept
    /\ [](focus = "quota" => Quota!OneProbe)

\* A direct run publishes only what was checked and reviewed, is done only
\* when that is published, answers the threads it resolves, has no process
\* left when it is settled, and a cancelled plan is not executed
\* (worker/direct.py).
DirectTruthful ==
    /\ [](focus = "direct" => Direct!TypeOK)
    /\ [](focus = "direct" => Direct!PublishedChecked)
    /\ [](focus = "direct" => Direct!PublishedReviewed)
    /\ [](focus = "direct" => Direct!DonePublished)
    /\ [](focus = "direct" => Direct!ResolvedAnswered)
    /\ [](focus = "direct" => Direct!SettledIsQuiet)
    /\ Parked!ParkedCancelHolds
    /\ [](focus = "pair" => Pair!PublishedChecked)
    /\ [](focus = "pair" => Pair!PublishedReviewed)

=============================================================================
