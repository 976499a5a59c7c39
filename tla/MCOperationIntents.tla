------------------------- MODULE MCOperationIntents -------------------------
(***************************************************************************)
(* OperationIntents for one push that an execution, an admitted            *)
(* repetition, a settlement check and a startup recovery meet, and for a   *)
(* branch whose absence is a failure. What must happen in the end of a     *)
(* commit and a check of ToolCalls, and of two removals of                 *)
(* WorktreeRemoval.                                                        *)
(*                                                                         *)
(* The components share no state and every property is about one of them,  *)
(* so a variable, focus, says which of them moves; the others rest in      *)
(* their initial states.                                                   *)
(***************************************************************************)
EXTENDS OperationIntents

ModeOf(S) == [c \in S |->
    CASE c = "first" -> "execute" [] c = "second" -> "admitted"
      [] c = "check" -> "unsettled" [] OTHER -> "recover"]
KeyOf(S, k) == [c \in S |-> k]
MCMode == ModeOf(Calls)
MCKey == KeyOf(Calls, "push")

RemovalCalls == {"i1", "r1", "k2"}
RemovalMode == [c \in RemovalCalls |->
    CASE c = "i1" -> "invoke" [] c = "r1" -> "reconcile" [] c = "k2" -> "cli"]
RemovalTree == [c \in RemovalCalls |-> IF c = "k2" THEN "w2" ELSE "w1"]

VARIABLES
    focus,
    oiStatus, oiRequest, oiOwner, oiLease, oiPc, oiInflight, oiRemote,
    run, stopping, attempt, tcRow, op, pub, holder, receipt, prepared, files,
    index, branch, done, tcPc, result, gone, told, lapses, crashes, stops,
    edits,
    target, tq, reg, rq, wrBranch, lock, wrPc, recorded, faults

Branching == INSTANCE OperationIntents WITH
    Keys <- {"branch"}, Requests <- {"r1"},
    Calls <- {"first", "second", "startup"},
    Mode <- ModeOf({"first", "second", "startup"}),
    key <- KeyOf({"first", "second", "startup"}, "branch"),
    AbsentFails <- {"branch"}, status <- oiStatus, request <- oiRequest,
    owner <- oiOwner, lease <- oiLease, pc <- oiPc, inflight <- oiInflight,
    remote <- oiRemote

Tools == INSTANCE ToolCalls WITH
    Calls <- {"first", "check"},
    Kind <- [c \in {"first", "check"} |-> IF c = "first" THEN "commit" ELSE c],
    Callers <- {"f1", "c1"},
    call <- [p \in {"f1", "c1"} |-> IF p = "f1" THEN "first" ELSE "check"],
    Budget <- 3, MaxLapses <- 1, MaxCrashes <- 1, MaxStops <- 1,
    MaxEdits <- 0, row <- tcRow, pc <- tcPc

Removal == INSTANCE WorktreeRemoval WITH
    Trees <- {"w1", "w2"}, Calls <- RemovalCalls, Mode <- RemovalMode,
    tree <- RemovalTree, Ready <- {"w1", "w2"}, MaxFaults <- 1,
    branch <- wrBranch, pc <- wrPc

ASSUME Removal!RemovalAssumption

operationIntentsVars == <<
    oiStatus, oiRequest, oiOwner, oiLease, oiPc, oiInflight, oiRemote>>

toolCallsVars == <<
    run, stopping, attempt, tcRow, op, pub, holder, receipt, prepared, files,
    index, branch, done, tcPc, result, gone, told, lapses, crashes, stops,
    edits>>

worktreeRemovalVars == <<
    target, tq, reg, rq, wrBranch, lock, wrPc, recorded, faults>>

allVars == <<focus, vars, operationIntentsVars, toolCallsVars, worktreeRemovalVars>>

MCInit ==
    /\ focus \in {"intents", "branch", "tools", "removal"}
    /\ Init
    /\ Branching!Init
    /\ Tools!Init
    /\ Removal!Init

MCNext ==
    \/ focus = "intents" /\ Next
       /\ UNCHANGED <<focus, operationIntentsVars, toolCallsVars,
                         worktreeRemovalVars>>
    \/ focus = "branch" /\ Branching!Next
       /\ UNCHANGED <<focus, vars, toolCallsVars, worktreeRemovalVars>>
    \/ focus = "tools" /\ Tools!Next
       /\ UNCHANGED <<focus, vars, operationIntentsVars,
                         worktreeRemovalVars>>
    \/ focus = "removal" /\ Removal!Next
       /\ UNCHANGED <<focus, vars, operationIntentsVars, toolCallsVars>>

\* Each component is scheduled as fairly as its own module says.
MCSpec ==
    /\ MCInit /\ [][MCNext]_allVars
    /\ \A c \in Calls : WF_vars(focus = "intents" /\ pc[c] \in Active /\ Step(c))
    /\ \A c \in {"first", "second", "startup"} :
         WF_operationIntentsVars(focus = "branch" /\ oiPc[c] \in Active /\ Branching!Step(c))
    /\ WF_vars(focus = "intents" /\ LeaseRuns("push"))
    /\ WF_operationIntentsVars(focus = "branch" /\ Branching!LeaseRuns("branch"))
    /\ \A p \in {"f1", "c1"} : WF_toolCallsVars(focus = "tools" /\ Tools!Proceed(p))
    /\ \A c \in {"first", "check"} :
         /\ WF_toolCallsVars(focus = "tools" /\ Tools!Abandoned(c) /\ Tools!Lapse(c))
         /\ WF_toolCallsVars(focus = "tools" /\ Tools!ReconcileIntent(c))
         /\ WF_toolCallsVars(focus = "tools" /\ Tools!RecoverOne(c))
    /\ \A c \in RemovalCalls :
         WF_worktreeRemovalVars(focus = "removal" /\ Removal!Attend(c))

-----------------------------------------------------------------------------
\* Every call that executes, admits, checks or recovers an intent ends;
\* evidence of a commit or a check is settled and every presentation answered
\* after a death; and a removal that is tried again completes.
CallsSettle ==
    /\ CallsEnd
    /\ Branching!CallsEnd
    /\ Tools!EvidenceSettles
    /\ Tools!PresentationsEnd
    /\ Removal!RemovalCompletes
    /\ Removal!CallsEnd

=============================================================================
