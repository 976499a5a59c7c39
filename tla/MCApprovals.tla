---------------------------- MODULE MCApprovals -----------------------------
(***************************************************************************)
(* Approvals with two challenges of two sessions and three authorizations: *)
(* two present the same challenge, one presents the other session's. And   *)
(* TaskUsage with two attempts of one run that report and settle while the *)
(* sweep, the owner and the operator act.                                  *)
(*                                                                         *)
(* The components share no state and every property is about one of them,  *)
(* so a variable, focus, says which of them moves; the others rest in      *)
(* their initial states.                                                   *)
(***************************************************************************)
EXTENDS Approvals, TLC

CONSTANTS s1, s2, none

MCSession == [r \in {"c", "d", "a1", "a2", "a3"} |-> IF r = "d" THEN "t" ELSE "s"]
MCToken == [a \in {"a1", "a2", "a3"} |-> IF a = "a3" THEN "d" ELSE "c"]

VARIABLES
    focus,
    run, normal, controls, attempt, sink, sweep, ckpts, admitted, up,
    crashes, requests

Usage == INSTANCE TaskUsage WITH
    Sources <- {s1, s2}, Baseline <- 2, Reference <- 1, MaxTokens <- 2,
    MaxCrashes <- 1, MaxRequests <- 1,
    Requests <- {"pause", "resume", "cancel", "teardown", "continue", "bypass", "set_policy", "stop"},
    None <- none

ASSUME Usage!UsageAssumption

taskUsageVars == <<
    run, normal, controls, attempt, sink, sweep, ckpts, admitted, up,
    crashes, requests>>

allVars == <<focus, vars, taskUsageVars>>

MCInit ==
    /\ focus \in {"approvals", "usage"}
    /\ Init
    /\ Usage!Init

MCNext ==
    \/ focus = "approvals" /\ Next /\ UNCHANGED <<focus, taskUsageVars>>
    \/ focus = "usage" /\ Usage!Next /\ UNCHANGED <<focus, vars>>

MCSpec == MCInit /\ [][MCNext]_allVars

Symmetric == Permutations({s1, s2})

-----------------------------------------------------------------------------
\* A usage crossing is caught by the checkpoint of one generation, though two
\* attempts settle while the totals are read (task_usage_monitor.py); a
\* checkpoint is paused only over a quiet run, and a continuation is measured
\* from what was used.
CheckpointsHold ==
    /\ [](focus = "usage" => Usage!TypeOK)
    /\ [](focus = "usage" => Usage!PausedQuiet)
    /\ [](focus = "usage" => Usage!OneGeneration)
    /\ [](focus = "usage" => Usage!CrossingCaught)
    /\ Usage!ContinuationAhead

=============================================================================
