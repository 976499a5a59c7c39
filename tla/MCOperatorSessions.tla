------------------------- MODULE MCOperatorSessions -------------------------
(***************************************************************************)
(* OperatorSessions for two exchanges of one bootstrap beside two          *)
(* rotations, for a rotation beside an exchange, a local session and a new *)
(* bootstrap, and for a logout. What must happen in the end of competing   *)
(* approvals, of two attempts whose usage crosses its threshold, and of a  *)
(* direct run.                                                             *)
(*                                                                         *)
(* The components share no state and every property is about one of them,  *)
(* so a variable, focus, says which of them moves; the others rest in      *)
(* their initial states.                                                   *)
(***************************************************************************)
EXTENDS OperatorSessions

KindOf(S) == [p \in S |->
    CASE p \in {"ex1", "ex2"} -> "exchange" [] p \in {"rot1", "rot2"} -> "rotate"
      [] p = "local" -> "local" [] p = "req" -> "require" [] p = "out" -> "logout"
      [] p = "new" -> "issue"]
TargetOf(S) == [p \in S |->
    CASE p \in {"ex1", "ex2"} -> "b" [] p \in {"req", "out"} -> "s0" [] OTHER -> "none"]
FreshOf(S) == [p \in S |->
    CASE p = "ex1" -> "s1" [] p = "ex2" -> "s2" [] p = "local" -> "s3"
      [] p = "rot1" -> "b1" [] p = "rot2" -> "b2" [] p = "new" -> "b3" [] OTHER -> "none"]
MCKind == KindOf(Requests)
MCTarget == TargetOf(Requests)
MCFresh == FreshOf(Requests)
Range(f) == {f[x] : x \in DOMAIN f}
RotationRequests == {"ex1", "rot1", "local", "new"}
LogoutRequests == {"local", "req", "rot1", "out"}

VARIABLES
    focus,
    rotStatus, rotIdle, rotOver, rotLock, rotPc, rotLate, rotTodo, rotOrigin,
    rotKnown,
    leaStatus, leaIdle, leaOver, leaLock, leaPc, leaLate, leaTodo, leaOrigin,
    leaKnown,
    version, open, drifted, revoked, gone, bound, consumed, approved, voided,
    applied, queued, aLock, aPc, asked, aLate,
    run, normal, controls, attempt, sink, sweep, ckpts, admitted, up,
    crashes, requests,
    drRun, sessions, live, trees, checks, cleared, remote, briefed, wk, reqs,
    drCrashes

Rotations == INSTANCE OperatorSessions WITH
    Requests <- RotationRequests, kind <- KindOf(RotationRequests),
    target <- TargetOf(RotationRequests), fresh <- FreshOf(RotationRequests),
    Bootstraps <- {"b", "b1", "b3"}, Sessions <- {"s0", "s1", "s3"},
    MaxExpired <- 1, status <- rotStatus, idle <- rotIdle, over <- rotOver,
    lock <- rotLock, pc <- rotPc, late <- rotLate, todo <- rotTodo,
    origin <- rotOrigin, known <- rotKnown

Leaving == INSTANCE OperatorSessions WITH
    Requests <- LogoutRequests, kind <- KindOf(LogoutRequests),
    target <- TargetOf(LogoutRequests), fresh <- FreshOf(LogoutRequests),
    Bootstraps <- {"b", "b1"}, Sessions <- {"s0", "s3"}, MaxExpired <- 1,
    status <- leaStatus, idle <- leaIdle, over <- leaOver, lock <- leaLock,
    pc <- leaPc, late <- leaLate, todo <- leaTodo, origin <- leaOrigin,
    known <- leaKnown

Gate == INSTANCE Approvals WITH
    Issues <- {"c", "d"}, Authorizations <- {"a1", "a2"}, Sessions <- {"s"},
    session <- [r \in {"c", "d", "a1", "a2"} |-> "s"],
    token <- [a \in {"a1", "a2"} |-> IF a = "a1" THEN "c" ELSE "d"],
    MaxVersion <- 3, MaxExpired <- 1, lock <- aLock, pc <- aPc, late <- aLate

Usage == INSTANCE TaskUsage WITH
    Sources <- {1, 2}, Baseline <- 2, Reference <- 1, MaxTokens <- 1,
    MaxCrashes <- 1, MaxRequests <- 1,
    Requests <- {"cancel", "continue", "pause"}, None <- 0

Direct == INSTANCE DirectRuns WITH
    Workers <- {"w1"}, Trees <- {"t0", "t1"}, BaseTree <- "t0",
    Threads <- {"th1"}, Reviews <- {"rv1"}, Requests <- {"q1"},
    Planned <- TRUE, ReviewPlanFirst <- TRUE, SkipReview <- FALSE,
    HasRepository <- TRUE, Overlapping <- FALSE, MaxSessions <- 5,
    MaxRepairs <- 1, MaxReviewRounds <- 2, MaxPrRounds <- 1, MaxCrashes <- 1,
    run <- drRun, crashes <- drCrashes

ASSUME Usage!UsageAssumption

ASSUME Direct!BoundsAssumption

rotationsVars == <<
    rotStatus, rotIdle, rotOver, rotLock, rotPc, rotLate, rotTodo, rotOrigin,
    rotKnown>>

leavingVars == <<
    leaStatus, leaIdle, leaOver, leaLock, leaPc, leaLate, leaTodo, leaOrigin,
    leaKnown>>

approvalsVars == <<
    version, open, drifted, revoked, gone, bound, consumed, approved, voided,
    applied, queued, aLock, aPc, asked, aLate>>

taskUsageVars == <<
    run, normal, controls, attempt, sink, sweep, ckpts, admitted, up,
    crashes, requests>>

directRunsVars == <<
    drRun, sessions, live, trees, checks, cleared, remote, briefed, wk, reqs,
    drCrashes>>

allVars == <<focus, vars, rotationsVars, leavingVars, approvalsVars, taskUsageVars, directRunsVars>>

MCInit ==
    /\ focus \in {"sessions", "rotations", "logout", "approvals", "usage", "direct"}
    /\ Init
    /\ Rotations!Init
    /\ Leaving!Init
    /\ Gate!Init
    /\ Usage!Init
    /\ Direct!Init
    /\ focus # "sessions" => "live" \notin Range(status)
    /\ focus # "rotations" => "live" \notin Range(rotStatus)
    /\ focus # "logout" => "live" \notin Range(leaStatus)

MCNext ==
    \/ focus = "sessions" /\ Next
       /\ UNCHANGED <<focus, rotationsVars, leavingVars, approvalsVars,
                         taskUsageVars, directRunsVars>>
    \/ focus = "rotations" /\ Rotations!Next
       /\ UNCHANGED <<focus, vars, leavingVars, approvalsVars,
                         taskUsageVars, directRunsVars>>
    \/ focus = "logout" /\ Leaving!Next
       /\ UNCHANGED <<focus, vars, rotationsVars, approvalsVars,
                         taskUsageVars, directRunsVars>>
    \/ focus = "approvals" /\ Gate!Next
       /\ UNCHANGED <<focus, vars, rotationsVars, leavingVars,
                         taskUsageVars, directRunsVars>>
    \/ focus = "usage" /\ Usage!Next
       /\ UNCHANGED <<focus, vars, rotationsVars, leavingVars,
                         approvalsVars, directRunsVars>>
    \/ focus = "direct" /\ Direct!Next
       /\ UNCHANGED <<focus, vars, rotationsVars, leavingVars,
                         approvalsVars, taskUsageVars>>

\* What several actors compete for, so that it is only now and then possible:
\* the steps of an approval's requests, the worker's sweep and its claims, and
\* the wait for a pull request.
Contended(i) ==
    \/ /\ focus = "approvals" /\ Gate!Step(<<"c", "d", "a1", "a2">>[i])
       /\ UNCHANGED <<taskUsageVars, directRunsVars>>
    \/ /\ focus = "usage"
       /\ \/ i \in 1..2 /\ Usage!SweepFinal(i)
          \/ i = 3 /\ \E g \in DOMAIN ckpts : Usage!SweepAdvance(g)
          \/ i = 4 /\ \E k \in {"stage", "resume", "teardown"} : Usage!ClaimNormal(k)
       /\ UNCHANGED <<approvalsVars, directRunsVars>>
    \/ /\ focus = "direct" /\ i = 1 /\ Direct!PrTimeout("w1")
       /\ UNCHANGED <<approvalsVars, taskUsageVars>>

\* Each component is scheduled as fairly as its own module says.
MCSpec ==
    /\ MCInit /\ [][MCNext]_allVars
    /\ \A p \in Requests : WF_vars(focus = "sessions" /\ Step(p))
    /\ \A p \in RotationRequests : WF_rotationsVars(focus = "rotations" /\ Rotations!Step(p))
    /\ \A p \in LogoutRequests : WF_leavingVars(focus = "logout" /\ Leaving!Step(p))
    /\ \A s \in {1, 2} :
         /\ WF_taskUsageVars(focus = "usage" /\ Usage!Evaluate(s))
         /\ WF_taskUsageVars(focus = "usage" /\ \E more \in 0..1 : Usage!Settle(s, more))
    /\ WF_taskUsageVars(focus = "usage" /\ (Usage!SweepTotals \/ Usage!SweepObserve))
    /\ WF_taskUsageVars(focus = "usage" /\ (\/ Usage!StageEnds \/ Usage!ResumeEnds
                                             \/ Usage!ResumeRefused \/ Usage!TeardownEnds))
    /\ WF_taskUsageVars(focus = "usage" /\ Usage!ControlEnds)
    /\ WF_taskUsageVars(focus = "usage" /\ Usage!Continue(FALSE))
    /\ WF_taskUsageVars(focus = "usage" /\ Usage!Restart)
    /\ WF_directRunsVars(focus = "direct" /\ Direct!Progress("w1"))
    /\ \A i \in 1..4 : SF_<<approvalsVars, taskUsageVars, directRunsVars>>(Contended(i))

-----------------------------------------------------------------------------
\* Every request on bootstraps, sessions, challenges and approvals ends, lock
\* waits and aborted deadlocks included; a crossing seen only when an attempt
\* settles is caught and its checkpoint settles; a direct run comes to an end.
RequestsSettle ==
    /\ RequestsEnd
    /\ Rotations!RequestsEnd
    /\ Gate!RequestsEnd
    /\ Usage!LateCrossing
    /\ Usage!CheckpointSettles
    /\ Direct!Settles

=============================================================================
