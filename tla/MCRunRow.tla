------------------------------ MODULE MCRunRow ------------------------------
(***************************************************************************)
(* RunRow on a small instance: two digests, so that a swapped one shows.   *)
(* And the release stage that drives the row to its end, with two workers, *)
(* one of which may be stalled or dead: without and with the merge queue   *)
(* of the forge.                                                           *)
(*                                                                         *)
(* The components share no state and every property is about one of them,  *)
(* so a variable, focus, says which of them moves; the others rest in      *)
(* their initial states.                                                   *)
(***************************************************************************)
EXTENDS RunRow

CONSTANT MaxVersion     \* bound on the row's version

VARIABLES
    focus,
    state, held, version, stop, fixes, observed, cmds, holder, pc, del, step,
    msg, seen, intent, cand, cbase, record, gate, rhead, rbase, pr, checks,
    entry, merged, flying, commits, ours, expired, outside, faults, stops

Release == INSTANCE ReleasePipeline WITH
    Workers <- {"w1", "w2"}, Queued <- FALSE, Limit <- 1, MaxPoll <- 3,
    MaxCommits <- 2, MaxBase <- 1, MaxOutside <- 0, MaxFaults <- 1,
    MaxStops <- 1

Queue == INSTANCE ReleasePipeline WITH
    Workers <- {"w1", "w2"}, Queued <- TRUE, Limit <- 1, MaxPoll <- 2,
    MaxCommits <- 2, MaxBase <- 0, MaxOutside <- 1, MaxFaults <- 1,
    MaxStops <- 1

ASSUME Release!PipelineAssumption

ASSUME Queue!PipelineAssumption

releasePipelineVars == <<
    state, held, version, stop, fixes, observed, cmds, holder, pc, del, step,
    msg, seen, intent, cand, cbase, record, gate, rhead, rbase, pr, checks,
    entry, merged, flying, commits, ours, expired, outside, faults, stops>>

allVars == <<focus, run, releasePipelineVars>>

MCInit ==
    /\ focus \in {"row", "release", "queue"}
    /\ RowInit
    /\ \/ focus \notin {"queue"} /\ Release!Init
       \/ focus = "queue" /\ Queue!Init

MCNext ==
    \/ focus = "row" /\ run.version < MaxVersion /\ RowNext
       /\ UNCHANGED <<focus, releasePipelineVars>>
    \/ focus = "release" /\ Release!Next /\ UNCHANGED <<focus, run>>
    \/ focus = "queue" /\ Queue!Next /\ UNCHANGED <<focus, run>>

MCSpec == MCInit /\ [][MCNext]_allVars

-----------------------------------------------------------------------------
\* A release is driven by one outstanding command until it ends or a human has
\* it, its polls are numbered without gap or repetition, nothing it sent is in
\* flight or forgotten when it is decided (merge.py, queue.py), what completes
\* is what was approved and sent under a current lease, and a resume finds a
\* way on.
ReleaseSafe ==
    /\ [](focus = "release" => Release!TypeOK)
    /\ [](focus = "release" => Release!Driven)
    /\ [](focus = "release" => Release!PollChain)
    /\ [](focus = "release" => Release!NothingInFlight)
    /\ [](focus = "release" => Release!MergeNeverForgotten)
    /\ [](focus = "release" => Release!CompletedAsApproved)
    /\ [](focus = "release" => Release!ResumeNeverStuck)
    /\ [](focus = "queue" => Queue!TypeOK)
    /\ [](focus = "queue" => Queue!Driven)
    /\ [](focus = "queue" => Queue!PollChain)
    /\ [](focus = "queue" => Queue!NothingInFlight)
    /\ [](focus = "queue" => Queue!MergeNeverForgotten)
    /\ [](focus = "queue" => Queue!CompletedAsApproved)
    /\ [](focus = "queue" => Queue!ResumeNeverStuck)
    /\ Release!SentWithAuthority
    /\ Queue!SentWithAuthority

=============================================================================
