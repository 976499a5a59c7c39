--------------------------- MODULE MCCommandQueue ---------------------------
(***************************************************************************)
(* CommandQueue with two NORMAL workers and one CONTROL worker whose       *)
(* clocks agree, the same with a fast and a slow clock, and RowLocks for   *)
(* one run: a stage whose lease runs out and is reclaimed, and one worker  *)
(* that meets the stage, the pause that suspends it and the resume that    *)
(* settles it.                                                             *)
(*                                                                         *)
(* The components share no state and every property is about one of them,  *)
(* so a variable, focus, says which of them moves; the others rest in      *)
(* their initial states.                                                   *)
(***************************************************************************)
EXTENDS CommandQueue, TLC

CONSTANTS n1, n2, k, none

MCWorkers == {n1, n2, k}
MCControlWorkers == {k}
NoSkew == [w \in MCWorkers |-> 0]
FastAndSlow == [w \in {"n1", "n2", "k"} |-> CASE w = "n1" -> -1 [] w = "n2" -> 1 [] OTHER -> 0]

VARIABLES
    focus,
    cqCmd, cqOrder, cqTasks, cqRunState, cqHeld, cqApplied, cqFaults,
    paused, status, owner, rlHeld, session, expiries

Skewed == INSTANCE CommandQueue WITH
    Workers <- {"n1", "n2", "k"}, ControlWorkers <- {"k"},
    Skew <- FastAndSlow, MaxSkew <- 1, Lease <- 2,
    Types <- {"stage", "pause", "resume"}, MaxBackoff <- 1, MaxCommands <- 3,
    MaxFaults <- 0, cmd <- cqCmd, order <- cqOrder, tasks <- cqTasks,
    runState <- cqRunState, held <- cqHeld, applied <- cqApplied,
    faults <- cqFaults

Reclaim == INSTANCE RowLocks WITH
    Workers <- {n1, n2}, Types <- <<"validate", "validate">>,
    MaxExpiries <- 2, held <- rlHeld

Resume == INSTANCE RowLocks WITH
    Workers <- {n1}, Types <- <<"validate", "pause", "resume">>,
    MaxExpiries <- 2, held <- rlHeld

ASSUME Reclaim!LocksAssumption

ASSUME Resume!LocksAssumption

commandQueueVars == <<
    cqCmd, cqOrder, cqTasks, cqRunState, cqHeld, cqApplied, cqFaults>>

rowLocksVars == <<
    paused, status, owner, rlHeld, session, expiries>>

allVars == <<focus, vars, commandQueueVars, rowLocksVars>>

MCInit ==
    /\ focus \in {"queue", "skewed", "reclaim", "resume"}
    /\ Init
    /\ Skewed!Init
    /\ \/ focus \notin {"resume"} /\ Reclaim!Init
       \/ focus = "resume" /\ Resume!Init

MCNext ==
    \/ focus = "queue" /\ Next
       /\ UNCHANGED <<focus, commandQueueVars, rowLocksVars>>
    \/ focus = "skewed" /\ Skewed!Next
       /\ UNCHANGED <<focus, vars, rowLocksVars>>
    \/ focus = "reclaim" /\ Reclaim!Next
       /\ UNCHANGED <<focus, vars, commandQueueVars>>
    \/ focus = "resume" /\ Resume!Next
       /\ UNCHANGED <<focus, vars, commandQueueVars>>

MCSpec == MCInit /\ [][MCNext]_allVars

Symmetric == Permutations({n1, n2})

-----------------------------------------------------------------------------
\* The fence holds on clocks that disagree as well, and is kept by the row
\* lock from its read to its commit (assert_current_lease); no transactions
\* wait for each other, since a settlement that holds the run does not wait
\* for its command; and a worker runs one handler at a time, one it gave up
\* included.
LocksHold ==
    /\ [](TypeOK)
    /\ [](OneHandlerPerWorker)
    /\ [](focus = "skewed" => Skewed!TypeOK)
    /\ Skewed!StaleNeverCommits
    /\ [](focus = "reclaim" => Reclaim!TypeOK)
    /\ [](focus = "reclaim" => Reclaim!NoLockCycle)
    /\ [](focus = "reclaim" => Reclaim!FenceKept)
    /\ [](focus = "resume" => Resume!TypeOK)
    /\ [](focus = "resume" => Resume!NoLockCycle)

=============================================================================
