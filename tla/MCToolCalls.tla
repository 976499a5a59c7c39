---------------------------- MODULE MCToolCalls -----------------------------
(***************************************************************************)
(* ToolCalls with a commit and a write that is presented twice, with two   *)
(* commits and a write, and with a check and a snapshot under a budget of  *)
(* one. WorktreeProvisioning with two preparations and a recovery, and     *)
(* with two teardowns. WorktreeRemoval of one tree by a removal and its    *)
(* reconciliation and of another by the command line, while a third is     *)
(* created.                                                                *)
(*                                                                         *)
(* The components share no state and every property is about one of them,  *)
(* so a variable, focus, says which of them moves; the others rest in      *)
(* their initial states.                                                   *)
(***************************************************************************)
EXTENDS ToolCalls, TLC

CONSTANTS p1, p2

\* A call is named after its tool; there are two commits, and the callers of a
\* call share its first letter.
KindOf(S) == [c \in S |-> IF c \in {"first", "second"} THEN "commit" ELSE c]
CallOf(S) ==
    [p \in S |->
        CASE p \in {"f1", "f2"} -> "first" [] p = "s1" -> "second"
          [] p \in {"c1", "c2"} -> "check" [] p \in {"w1", "w2"} -> "write"
          [] OTHER -> "snapshot"]
MCKind == KindOf({"first", "write"})
MCCall == CallOf({"f1", "w1", "w2"})

RemovalCalls == {"i1", "r1", "k2", "n3"}
RemovalMode == [c \in RemovalCalls |->
    CASE c = "i1" -> "invoke" [] c = "r1" -> "reconcile" [] c = "k2" -> "cli" [] c = "n3" -> "create"]
RemovalTree == [c \in RemovalCalls |->
    CASE c \in {"i1", "r1"} -> "w1" [] c = "k2" -> "w2" [] c = "n3" -> "w3"]

VARIABLES
    focus,
    tcRun, tcStopping, tcAttempt, tcRow, tcOp, tcPub, tcHolder, tcReceipt,
    tcPrepared, tcFiles, tcIndex, tcBranch, tcDone, tcPc, tcResult, tcGone,
    tcTold, tcLapses, tcCrashes, tcStops, tcEdits,
    wpRun, version, path, dbstate, events, lastRes, preparedAt, pauses,
    status, owner, wpPc, on, ctx, stalled, wpTree, db, wpFiles, commands,
    exit, creates,
    target, tq, reg, rq, wrBranch, lock, wrPc, recorded, faults

Commits == INSTANCE ToolCalls WITH
    Calls <- {"first", "second", "write"},
    Kind <- KindOf({"first", "second", "write"}),
    Callers <- {"f1", "s1", "w1"}, call <- CallOf({"f1", "s1", "w1"}),
    Budget <- 3, MaxLapses <- 1, MaxCrashes <- 1, MaxStops <- 0,
    MaxEdits <- 0, run <- tcRun, stopping <- tcStopping,
    attempt <- tcAttempt, row <- tcRow, op <- tcOp, pub <- tcPub,
    holder <- tcHolder, receipt <- tcReceipt, prepared <- tcPrepared,
    files <- tcFiles, index <- tcIndex, branch <- tcBranch, done <- tcDone,
    pc <- tcPc, result <- tcResult, gone <- tcGone, told <- tcTold,
    lapses <- tcLapses, crashes <- tcCrashes, stops <- tcStops,
    edits <- tcEdits

Checks == INSTANCE ToolCalls WITH
    Calls <- {"check", "snapshot"}, Kind <- KindOf({"check", "snapshot"}),
    Callers <- {"c1", "c2", "n1"}, call <- CallOf({"c1", "c2", "n1"}),
    Budget <- 1, MaxLapses <- 1, MaxCrashes <- 1, MaxStops <- 1,
    MaxEdits <- 1, run <- tcRun, stopping <- tcStopping,
    attempt <- tcAttempt, row <- tcRow, op <- tcOp, pub <- tcPub,
    holder <- tcHolder, receipt <- tcReceipt, prepared <- tcPrepared,
    files <- tcFiles, index <- tcIndex, branch <- tcBranch, done <- tcDone,
    pc <- tcPc, result <- tcResult, gone <- tcGone, told <- tcTold,
    lapses <- tcLapses, crashes <- tcCrashes, stops <- tcStops,
    edits <- tcEdits

Provisioning == INSTANCE WorktreeProvisioning WITH
    Prepares <- {p1, p2}, Recoveries <- {"r1"}, Teardowns <- {},
    Database <- TRUE, MaxPauses <- 1, MaxCrashes <- 1, MaxStalls <- 1,
    run <- wpRun, pc <- wpPc, tree <- wpTree, files <- wpFiles

Teardown == INSTANCE WorktreeProvisioning WITH
    Prepares <- {p1, p2}, Recoveries <- {"r1"}, Teardowns <- {"t1", "t2"},
    Database <- TRUE, MaxPauses <- 1, MaxCrashes <- 1, MaxStalls <- 0,
    run <- wpRun, pc <- wpPc, tree <- wpTree, files <- wpFiles

Removal == INSTANCE WorktreeRemoval WITH
    Trees <- {"w1", "w2", "w3"}, Calls <- RemovalCalls, Mode <- RemovalMode,
    tree <- RemovalTree, Ready <- {"w1", "w2"}, MaxFaults <- 2,
    branch <- wrBranch, pc <- wrPc

ASSUME Provisioning!ProvisioningAssumption

ASSUME Teardown!ProvisioningAssumption

ASSUME Removal!RemovalAssumption

toolCallsVars == <<
    tcRun, tcStopping, tcAttempt, tcRow, tcOp, tcPub, tcHolder, tcReceipt,
    tcPrepared, tcFiles, tcIndex, tcBranch, tcDone, tcPc, tcResult, tcGone,
    tcTold, tcLapses, tcCrashes, tcStops, tcEdits>>

worktreeProvisioningVars == <<
    wpRun, version, path, dbstate, events, lastRes, preparedAt, pauses,
    status, owner, wpPc, on, ctx, stalled, wpTree, db, wpFiles, commands,
    exit, creates>>

worktreeRemovalVars == <<
    target, tq, reg, rq, wrBranch, lock, wrPc, recorded, faults>>

allVars == <<focus, vars, toolCallsVars, worktreeProvisioningVars, worktreeRemovalVars>>

MCInit ==
    /\ focus \in {"twice", "commits", "checks", "provisioning", "teardown", "removal"}
    /\ Init
    /\ \/ focus \notin {"checks"} /\ Commits!Init
       \/ focus = "checks" /\ Checks!Init
    /\ \/ focus \notin {"teardown"} /\ Provisioning!Init
       \/ focus = "teardown" /\ Teardown!Init
    /\ Removal!Init

MCNext ==
    \/ focus = "twice" /\ Next
       /\ UNCHANGED <<focus, toolCallsVars, worktreeProvisioningVars,
                         worktreeRemovalVars>>
    \/ focus = "commits" /\ Commits!Next
       /\ UNCHANGED <<focus, vars, worktreeProvisioningVars,
                         worktreeRemovalVars>>
    \/ focus = "checks" /\ Checks!Next
       /\ UNCHANGED <<focus, vars, worktreeProvisioningVars,
                         worktreeRemovalVars>>
    \/ focus = "provisioning" /\ Provisioning!Next
       /\ UNCHANGED <<focus, vars, toolCallsVars, worktreeRemovalVars>>
    \/ focus = "teardown" /\ Teardown!Next
       /\ UNCHANGED <<focus, vars, toolCallsVars, worktreeRemovalVars>>
    \/ focus = "removal" /\ Removal!Next
       /\ UNCHANGED <<focus, vars, toolCallsVars, worktreeProvisioningVars>>

MCSpec == MCInit /\ [][MCNext]_allVars

Symmetric == Permutations({p1, p2})

-----------------------------------------------------------------------------
\* What ToolsActOnce and VerdictsTrue say holds of two commits that compete for
\* the branch with a write, and of a check and a snapshot under a budget of one
\* (ToolService, ControlledGit).
OtherToolsToo ==
    /\ focus = "commits" =>
        Commits!TypeOK /\ Commits!EffectOnce /\ Commits!CommitIsPrepared /\ Commits!VerdictTrue
    /\ focus = "checks" =>
        Checks!TypeOK /\ Checks!EffectOnce /\ Checks!BudgetHolds /\ Checks!VerdictTrue
            /\ Checks!ToldIsRecorded

\* The steps of preparing a worktree are named before and recorded after they
\* happen, happen once over deaths, pauses and redeliveries (worktree.py), let
\* a run implement only when all of them are done, and leave nothing behind a
\* teardown.
PreparationRecorded ==
    /\ focus = "provisioning" =>
        Provisioning!TypeOK /\ Provisioning!EffectsOnce /\ Provisioning!NothingUnnamed
            /\ Provisioning!CheckpointsTrue /\ Provisioning!ReadyToImplement
    /\ focus = "teardown" => Teardown!NothingUnnamed /\ Teardown!TornDown

\* A removal recorded as done is done, and the content of a tree is at its
\* path, in quarantine or deleted by its own removal (paths.py).
RemovalRecorded ==
    focus = "removal" =>
        Removal!TypeOK /\ Removal!RecordedMeansGone /\ Removal!ContentAccounted

\* A worktree's records agree with the disk from its preparation to its
\* removal, and no other removal, prune or death takes a removal back a step.
WorktreesAccounted ==
    [](PreparationRecorded /\ RemovalRecorded) /\ Removal!OnlyForward

=============================================================================
