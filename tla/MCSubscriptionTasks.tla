------------------------ MODULE MCSubscriptionTasks -------------------------
(***************************************************************************)
(* SubscriptionTasks for a primary p and writers w and v: a commit beside  *)
(* a write, the coordinator's write beside a writer's, a candidate with a  *)
(* reader r, and writers of one path that are stopped and suspended.       *)
(* PrimaryDecisions for a primary, two workers, the second depending on    *)
(* the first, and a reviewer: decisions and feedback, a reviewed           *)
(* candidate, and recovery from faults.                                    *)
(*                                                                         *)
(* The components share no state and every property is about one of them,  *)
(* so a variable, focus, says which of them moves; the others rest in      *)
(* their initial states.                                                   *)
(***************************************************************************)
EXTENDS SubscriptionTasks

Apart(S) == [t \in S |-> CASE t = "w" -> {1} [] t = "v" -> {2} [] OTHER -> {}]
Together(S) == [t \in S |-> IF t \in {"w", "v"} THEN {1} ELSE {}]

\* Task t may be leased n times, the others once.
Leases(S, t, n) == [u \in S |-> IF u = t THEN n ELSE 1]

\* The first letter of an effect is its task's, the rest its tool.
EffectTask(S) == [e \in S |->
    CASE e \in {"wcommit", "wwrite"} -> "w" [] e = "vwrite" -> "v" [] e = "pwrite" -> "p" [] OTHER -> "r"]
EffectKind(S) == [e \in S |->
    CASE e = "wcommit" -> "commit" [] e = "rsnapshot" -> "snapshot" [] OTHER -> "write"]

MCOwned == Apart({"p", "w", "v"})
MCTaskOf == EffectTask({"wcommit", "vwrite"})
MCKindOf == EffectKind({"wcommit", "vwrite"})
MCLeases == [t \in {"p", "w", "v"} |-> 1]

Chain == [w \in {"a", "b"} |-> IF w = "b" THEN {"a"} ELSE {}]
Budgets(n) == [t \in {"p", "a", "b", "r"} |-> IF t = "p" THEN n ELSE 2]

VARIABLES
    focus,
    stState, stGen, stExpired, stAtt, stAepoch, stResult, stClient, stProved,
    stRepairs, stStop, stStopRow, stIdle, stEff, stEgen, stEepoch, stReceipt,
    stTool, stCallers, stCand, stEpoch, stRun, stObs, stObsLive, stMoved,
    conState, conGen, conExpired, conAtt, conAepoch, conResult, conClient,
    conProved, conRepairs, conStop, conStopRow, conIdle, conEff, conEgen,
    conEepoch, conReceipt, conTool, conCallers, conCand, conEpoch, conRun,
    conObs, conObsLive, conMoved,
    st, used, rep, disp, dec, turn, fresh, older, since, accepted, pdCand,
    pdStop, pdIdle, fb, steer, diag, spent

Coordinator == INSTANCE SubscriptionTasks WITH
    Tasks <- {"p", "w"}, Primary <- "p", Readers <- {}, Region <- {1, 2},
    Owned <- Apart({"p", "w"}), Effects <- {"pwrite", "wwrite"},
    TaskOf <- EffectTask({"pwrite", "wwrite"}),
    KindOf <- EffectKind({"pwrite", "wwrite"}), Limit <- 3, Stoppable <- {},
    Suspensions <- {}, MaxLeases <- Leases({"p", "w"}, "p", 2),
    MaxRepairs <- 1, MaxEpoch <- 0, MaxCallers <- 1, Faults <- TRUE,
    state <- stState, gen <- stGen, expired <- stExpired, att <- stAtt,
    aepoch <- stAepoch, result <- stResult, client <- stClient,
    proved <- stProved, repairs <- stRepairs, stop <- stStop,
    stopRow <- stStopRow, idle <- stIdle, eff <- stEff, egen <- stEgen,
    eepoch <- stEepoch, receipt <- stReceipt, tool <- stTool,
    callers <- stCallers, cand <- stCand, epoch <- stEpoch, run <- stRun,
    obs <- stObs, obsLive <- stObsLive, moved <- stMoved

Candidate == INSTANCE SubscriptionTasks WITH
    Tasks <- {"p", "w", "r"}, Primary <- "p", Readers <- {"r"},
    Region <- {1, 2}, Owned <- Apart({"p", "w", "r"}),
    Effects <- {"wwrite", "rsnapshot"},
    TaskOf <- EffectTask({"wwrite", "rsnapshot"}),
    KindOf <- EffectKind({"wwrite", "rsnapshot"}), Limit <- 2,
    Stoppable <- {}, Suspensions <- {"checkpoint"},
    MaxLeases <- Leases({"p", "w", "r"}, "p", 2), MaxRepairs <- 0,
    MaxEpoch <- 2, MaxCallers <- 1, Faults <- FALSE, state <- stState,
    gen <- stGen, expired <- stExpired, att <- stAtt, aepoch <- stAepoch,
    result <- stResult, client <- stClient, proved <- stProved,
    repairs <- stRepairs, stop <- stStop, stopRow <- stStopRow,
    idle <- stIdle, eff <- stEff, egen <- stEgen, eepoch <- stEepoch,
    receipt <- stReceipt, tool <- stTool, callers <- stCallers,
    cand <- stCand, epoch <- stEpoch, run <- stRun, obs <- stObs,
    obsLive <- stObsLive, moved <- stMoved

Controls == INSTANCE SubscriptionTasks WITH
    Tasks <- {"p", "w", "v"}, Primary <- "p", Readers <- {},
    Region <- {1, 2}, Owned <- Together({"p", "w", "v"}),
    Effects <- {"wwrite"}, TaskOf <- EffectTask({"wwrite"}),
    KindOf <- EffectKind({"wwrite"}), Limit <- 2, Stoppable <- {"w"},
    Suspensions <- {"stopped"},
    MaxLeases <- Leases({"p", "w", "v"}, "w", 2), MaxRepairs <- 0,
    MaxEpoch <- 0, MaxCallers <- 2, Faults <- TRUE, state <- conState,
    gen <- conGen, expired <- conExpired, att <- conAtt, aepoch <- conAepoch,
    result <- conResult, client <- conClient, proved <- conProved,
    repairs <- conRepairs, stop <- conStop, stopRow <- conStopRow,
    idle <- conIdle, eff <- conEff, egen <- conEgen, eepoch <- conEepoch,
    receipt <- conReceipt, tool <- conTool, callers <- conCallers,
    cand <- conCand, epoch <- conEpoch, run <- conRun, obs <- conObs,
    obsLive <- conObsLive, moved <- conMoved

Decisions == INSTANCE PrimaryDecisions WITH
    Primary <- "p", Workers <- {"a", "b"}, Reviewer <- "r", Deps <- Chain,
    Budget <- Budgets(3), MaxRepairs <- [t \in {"p", "a", "b", "r"} |-> 1],
    Delays <- 1,
    Kinds <- {"delegate", "wait", "reassign", "accept_task", "forward", "handoff"},
    Faults <- {"fail"}, Operator <- {"feedback", "cancel"}, MaxFeedback <- 1,
    MaxSteer <- 1, MaxStops <- 1, cand <- pdCand, stop <- pdStop,
    idle <- pdIdle

Reviewed == INSTANCE PrimaryDecisions WITH
    Primary <- "p", Workers <- {"a", "b"}, Reviewer <- "r", Deps <- Chain,
    Budget <- Budgets(4), MaxRepairs <- [t \in {"p", "a", "b", "r"} |-> 1],
    Delays <- 1,
    Kinds <- {"delegate", "review", "accept", "handoff", "bad_handoff", "invalid", "scope_request"},
    Faults <- {"mismatch"}, Operator <- {"feedback"}, MaxFeedback <- 1,
    MaxSteer <- 1, MaxStops <- 1, cand <- pdCand, stop <- pdStop,
    idle <- pdIdle

Recovery == INSTANCE PrimaryDecisions WITH
    Primary <- "p", Workers <- {"a", "b"}, Reviewer <- "r", Deps <- Chain,
    Budget <- Budgets(2), MaxRepairs <- [t \in {"p", "a", "b", "r"} |-> 1],
    Delays <- 1,
    Kinds <- {"delegate", "wait", "reassign", "accept_task", "scope_response", "handoff", "scope_request"},
    Faults <- {"stumble", "observation", "quota", "fail"},
    Operator <- {"pause", "cancel", "retry", "reject"}, MaxFeedback <- 1,
    MaxSteer <- 1, MaxStops <- 1, cand <- pdCand, stop <- pdStop,
    idle <- pdIdle

ASSUME Coordinator!TaskAssumption /\ Coordinator!ReaderAssumption

ASSUME Candidate!TaskAssumption /\ Candidate!ReaderAssumption

ASSUME Controls!TaskAssumption /\ Controls!ReaderAssumption

ASSUME Decisions!DecisionAssumption

ASSUME Reviewed!DecisionAssumption

ASSUME Recovery!DecisionAssumption

subscriptionTasksVars == <<
    stState, stGen, stExpired, stAtt, stAepoch, stResult, stClient, stProved,
    stRepairs, stStop, stStopRow, stIdle, stEff, stEgen, stEepoch, stReceipt,
    stTool, stCallers, stCand, stEpoch, stRun, stObs, stObsLive, stMoved>>

controlsVars == <<
    conState, conGen, conExpired, conAtt, conAepoch, conResult, conClient,
    conProved, conRepairs, conStop, conStopRow, conIdle, conEff, conEgen,
    conEepoch, conReceipt, conTool, conCallers, conCand, conEpoch, conRun,
    conObs, conObsLive, conMoved>>

primaryDecisionsVars == <<
    st, used, rep, disp, dec, turn, fresh, older, since, accepted, pdCand,
    pdStop, pdIdle, fb, steer, diag, spent>>

allVars == <<focus, vars, subscriptionTasksVars, controlsVars, primaryDecisionsVars>>

MCInit ==
    /\ focus \in {"effects", "coordinator", "candidate", "controls", "decisions", "reviewed", "recovery"}
    /\ Init
    /\ \/ focus \notin {"candidate"} /\ Coordinator!Init
       \/ focus = "candidate" /\ Candidate!Init
    /\ Controls!Init
    /\ \/ focus \notin {"reviewed", "recovery"} /\ Decisions!Init
       \/ focus = "reviewed" /\ Reviewed!Init
       \/ focus = "recovery" /\ Recovery!Init

MCNext ==
    \/ focus = "effects" /\ Next
       /\ UNCHANGED <<focus, subscriptionTasksVars, controlsVars,
                         primaryDecisionsVars>>
    \/ focus = "coordinator" /\ Coordinator!Next
       /\ UNCHANGED <<focus, vars, controlsVars, primaryDecisionsVars>>
    \/ focus = "candidate" /\ Candidate!Next
       /\ UNCHANGED <<focus, vars, controlsVars, primaryDecisionsVars>>
    \/ focus = "controls" /\ Controls!Next
       /\ UNCHANGED <<focus, vars, subscriptionTasksVars,
                         primaryDecisionsVars>>
    \/ focus = "decisions" /\ Decisions!Next
       /\ UNCHANGED <<focus, vars, subscriptionTasksVars, controlsVars>>
    \/ focus = "reviewed" /\ Reviewed!Next
       /\ UNCHANGED <<focus, vars, subscriptionTasksVars, controlsVars>>
    \/ focus = "recovery" /\ Recovery!Next
       /\ UNCHANGED <<focus, vars, subscriptionTasksVars, controlsVars>>

MCSpec == MCInit /\ [][MCNext]_allVars

-----------------------------------------------------------------------------
\* What EffectsExclude and ResultsFenced say holds too when the coordinator
\* writes beside a writer, when a candidate is reviewed, and when writers of
\* one path are stopped, cancelled, paused and suspended.
OtherTasksToo ==
    /\ [](focus = "coordinator" => Coordinator!EffectsExclude)
    /\ [](focus = "candidate" =>
            /\ Candidate!ExclusiveAlone /\ Candidate!SlotsBounded
            /\ Candidate!LiveAttemptCurrentEpoch
            /\ Candidate!ClosedCandidateReadOnly /\ Candidate!ObservationHolds)
    /\ [](focus = "controls" =>
            /\ Controls!OverlappingWritersExclude /\ Controls!SlotsBounded
            /\ Controls!PendingKeepsTask)
    /\ Controls!StopNeverRevived
    /\ Controls!VerdictFinal

\* A waiting primary misses no wake-up, an accepted task stays accepted, and a
\* candidate closes only when its tasks are quiet, in whichever order
\* decisions, feedback and their application arrive
\* (subscription_decisions.py).
PrimaryInformed ==
    /\ focus = "decisions" => Decisions!TypeOK
    /\ focus = "decisions" => Decisions!NoLostWake
    /\ focus = "reviewed" => Reviewed!TypeOK
    /\ focus = "reviewed" => Reviewed!NoLostWake
    /\ focus = "recovery" => Recovery!TypeOK
    /\ focus = "recovery" => Recovery!NoLostWake
    /\ focus = "decisions" => Decisions!AcceptedStays
    /\ focus = "recovery" => Recovery!AcceptedStays
    /\ focus = "reviewed" => Reviewed!ClosedMeansQuiet

=============================================================================
