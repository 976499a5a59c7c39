----------------------------- MODULE DirectRuns -----------------------------
(***************************************************************************)
(* A direct autonomous run: one row a worker claims and drives through     *)
(* plan, implement, check, review and repair sessions to a watched pull    *)
(* request (worker/direct.py over persistence/repositories/direct.py).     *)
(* The row is written without locks: every repository call is its own      *)
(* transaction, the owner's requests read the row in one step and commit   *)
(* in another, and a worker may stop between any two calls.                *)
(*                                                                         *)
(* One run is modelled, with one runnable check command in its policy.     *)
(* A head is the number of commits on the run's branch; trees[h] is the    *)
(* tree of commit h.  Time is abstract: a timeout may fire at any poll.    *)
(***************************************************************************)
EXTENDS Naturals, Sequences, FiniteSets

CONSTANTS
    Workers,          \* worker processes, each polling direct runs
    Trees, BaseTree,  \* the trees a session may leave behind, the base among them
    Threads,          \* review threads trusted authors may open
    Reviews,          \* change requests trusted authors may submit
    Requests,         \* requests of the owner
    Planned,          \* the run's shape is "planned"
    ReviewPlanFirst,  \* the owner reviews the plan before implementation
    SkipReview,       \* direct_review_policy = "skip"
    HasRepository,    \* the project names a GitHub repository
    Overlapping,      \* the owner's requests overlap other transactions
    MaxSessions, MaxRepairs, MaxReviewRounds, MaxPrRounds,
    MaxCrashes        \* bound on worker crashes and stops

BoundsAssumption ==
    /\ BaseTree \in Trees
    /\ MaxSessions \in Nat \ {0} /\ MaxCrashes \in Nat
    /\ MaxRepairs \in Nat /\ MaxReviewRounds \in Nat \ {0} /\ MaxPrRounds \in Nat
    /\ {Planned, ReviewPlanFirst, SkipReview, HasRepository, Overlapping} \subseteq BOOLEAN

VARIABLES
    run,       \* the DirectRun row
    sessions,  \* the DirectSession rows, in order: kind, state, pid recorded
    live,      \* sessions whose provider process is running
    trees,     \* the commits of the worktree's branch
    checks,    \* the latest executed check of each tree
    cleared,   \* heads a review session passed without a blocking finding
    remote,    \* GitHub: heads pushed, the pull request, its feedback
    briefed,   \* PR feedback some repair session was given
    wk,        \* the workers
    reqs,      \* the owner's requests
    crashes

vars == <<run, sessions, live, trees, checks, cleared, remote, briefed, wk, reqs, crashes>>

Active == {"PLANNING", "RUNNING", "CHECKING", "REVIEWING", "REPAIRING", "PUBLISHING", "PR_OPEN"}
Terminal == {"DONE", "FAILED", "CANCELLED", "NEEDS_DECISION"}
States == {"QUEUED", "AWAITING_PLAN_APPROVAL"} \cup Active \cup Terminal
Kinds == {"plan", "implement", "repair", "review", "pr_repair"}
Outcomes == {"done", "needs_decision", "blocked", "exit_code", "timeout", "cancelled",
             "clean", "blocking", "unparseable"}
Feedback == Threads \cup Reviews
(* The head of the worktree's branch.                                      *)
Tip == Len(trees)

(* The locals of run_once and what it calls; reset when the worker idles.  *)
Idle == [pc |-> "sweep", kind |-> "none", sess |-> 0, out |-> "none", head |-> 0,
         before |-> 0, repairs |-> 0, reviews |-> 0, rounds |-> 0, fails |-> 0,
         batch |-> {}, handled |-> {}, seen |-> {}]

Init ==
    /\ run = [st |-> "QUEUED", cancel |-> FALSE, approved |-> FALSE, plan |-> FALSE,
              head |-> 0, pr |-> FALSE]
    /\ sessions = <<>> /\ live = {} /\ trees = <<BaseTree>>
    /\ checks = [t \in Trees |-> "none"]
    /\ cleared = {} /\ briefed = {}
    /\ remote = [heads |-> <<>>, pr |-> "none", open |-> {}, resolved |-> {},
                 fresh |-> {}, stale |-> {}]
    /\ wk = [w \in Workers |-> Idle]
    /\ reqs = [q \in Requests |-> [op |-> "none", st |-> "none"]]
    /\ crashes = 0

-----------------------------------------------------------------------------
(* Row writes of a worker.  update_run reads the row and sets the named    *)
(* fields, so only those fields change.                                    *)

update_run(state) == run' = [run EXCEPT !.st = state]

Executing(w) == wk[w].pc \notin {"sweep", "settle_orphan", "claim"}
Supervising(w) == wk[w].pc \in {"record_pid", "watch"}

(* The worker leaves _execute after settling the run.                      *)
Leave(w, state) ==
    /\ update_run(state)
    /\ wk' = [wk EXCEPT ![w] = Idle]

Goto(w, pc) == wk' = [wk EXCEPT ![w].pc = pc]

(* A session of this kind comes next.                                      *)
StartSession(w, kind) == wk' = [wk EXCEPT ![w].pc = "launch", ![w].kind = kind]

-----------------------------------------------------------------------------
(* run_once: the orphan sweep, then the claim.                             *)

(* running_runs, and the sessions of a run this worker is not executing.   *)
SweepRead(w) ==
    /\ wk[w].pc = "sweep"
    /\ wk' = [wk EXCEPT ![w].pc = IF run.st \in Active THEN "settle_orphan" ELSE "claim",
                        ![w].seen = {s \in DOMAIN sessions : sessions[s].state = "RUNNING"}]
    /\ UNCHANGED <<run, sessions, live, trees, checks, cleared, remote, briefed, reqs, crashes>>

(* The recorded live processes are killed, their sessions and then the     *)
(* run are failed with "worker interrupted".                               *)
SweepSettle(w) ==
    /\ wk[w].pc = "settle_orphan"
    /\ live' = live \ {s \in wk[w].seen : sessions[s].pid}
    /\ sessions' = [s \in DOMAIN sessions |->
                       IF s \in wk[w].seen THEN [sessions[s] EXCEPT !.state = "FAILED"]
                       ELSE sessions[s]]
    /\ update_run("FAILED")
    /\ Goto(w, "claim")
    /\ UNCHANGED <<trees, checks, cleared, remote, briefed, reqs, crashes>>

(* The queued run is locked; a cancelled one is settled, not started.      *)
claim_next(w) ==
    /\ wk[w].pc = "claim"
    /\ IF run.st # "QUEUED" THEN run' = run /\ wk' = [wk EXCEPT ![w] = Idle]
       ELSE IF run.cancel THEN Leave(w, "CANCELLED")
       ELSE update_run("RUNNING") /\ Goto(w, "prepare")
    /\ UNCHANGED <<sessions, live, trees, checks, cleared, remote, briefed, reqs, crashes>>

(* The worktree is created or reused, then the plan session comes first    *)
(* when the run is planned and holds no plan yet.                          *)
Prepare(w) ==
    /\ wk[w].pc = "prepare"
    /\ \/ Leave(w, "FAILED")
       \/ IF Planned /\ ~run.plan
          THEN update_run("PLANNING") /\ StartSession(w, "plan")
          ELSE run' = run /\ StartSession(w, "implement")
    /\ UNCHANGED <<sessions, live, trees, checks, cleared, remote, briefed, reqs, crashes>>

-----------------------------------------------------------------------------
(* One provider session.                                                   *)

ReadOnly(kind) == kind \in {"plan", "review"}

(* The session budget, then the RUNNING session row.                       *)
Launch(w) ==
    /\ wk[w].pc = "launch"
    /\ IF Len(sessions) >= MaxSessions
       THEN Leave(w, "FAILED") /\ sessions' = sessions
       ELSE /\ run' = run
            /\ sessions' = Append(sessions, [kind |-> wk[w].kind, state |-> "RUNNING", pid |-> FALSE])
            /\ wk' = [wk EXCEPT ![w].pc = "spawn", ![w].sess = Len(sessions) + 1,
                                ![w].before = Tip]
    /\ UNCHANGED <<live, trees, checks, cleared, remote, briefed, reqs, crashes>>

Spawn(w) ==
    /\ wk[w].pc = "spawn"
    /\ live' = live \cup {wk[w].sess}
    /\ Goto(w, "record_pid")
    /\ UNCHANGED <<run, sessions, trees, checks, cleared, remote, briefed, reqs, crashes>>

RecordPid(w) ==
    /\ wk[w].pc = "record_pid"
    /\ sessions' = [sessions EXCEPT ![wk[w].sess].pid = TRUE]
    /\ Goto(w, "watch")
    /\ UNCHANGED <<run, live, trees, checks, cleared, remote, briefed, reqs, crashes>>

(* What a session that exits by itself may report.                         *)
Reports(kind) ==
    {"needs_decision", "blocked", "exit_code"}
        \cup (IF kind = "review" THEN {"clean", "blocking", "unparseable"} ELSE {"done"})

(* The session ends.  Its work stays in the worktree: a commit of its own  *)
(* or changes the worker commits next, whatever the kind of the session.   *)
SessionEnds(w, out) ==
    /\ wk[w].pc = "watch"
    /\ live' = live \ {wk[w].sess}
    /\ \/ trees' = trees
       \/ /\ out \notin {"timeout", "cancelled", "exit_code"}
          /\ \E t \in Trees : trees' = Append(trees, t)
    /\ wk' = [wk EXCEPT ![w].pc = "settle_session", ![w].out = out]
    /\ UNCHANGED <<run, sessions, checks, cleared, remote, briefed, reqs, crashes>>

WatchExit(w) ==
    /\ wk[w].pc = "watch"
    /\ \/ /\ wk[w].sess \in live
          /\ \E out \in Reports(wk[w].kind) : SessionEnds(w, out)
       \/ wk[w].sess \notin live /\ SessionEnds(w, "exit_code")   \* killed by a sweep

WatchTimeout(w) == wk[w].sess \in live /\ SessionEnds(w, "timeout")

WatchCancelled(w) == run.cancel /\ SessionEnds(w, "cancelled")

SessionState(out) ==
    CASE out = "cancelled" -> "KILLED"
      [] out = "timeout" -> "TIMED_OUT"
      [] out = "exit_code" -> "FAILED"
      [] OTHER -> "SUCCEEDED"

(* The edits of a read-only session are reset before its result is used.   *)
Restored(w) == IF ReadOnly(wk[w].kind) THEN SubSeq(trees, 1, wk[w].before) ELSE trees

(* A read-only session's edits are reverted; when they cannot be, the      *)
(* session and the run fail.  Then the session row is settled.             *)
SettleSession(w) ==
    /\ wk[w].pc = "settle_session"
    /\ \/ /\ ReadOnly(wk[w].kind) /\ Tip # wk[w].before
          /\ sessions' = [sessions EXCEPT ![wk[w].sess].state = "FAILED"]
          /\ trees' = trees
          /\ Leave(w, "FAILED")
       \/ /\ sessions' = [sessions EXCEPT ![wk[w].sess].state = SessionState(wk[w].out)]
          /\ trees' = Restored(w)
          /\ run' = run
          /\ Goto(w, "settle_run")
    /\ UNCHANGED <<live, checks, cleared, remote, briefed, reqs, crashes>>

(* Where a session that succeeded leads.                                   *)
SettlePlan(w) ==
    /\ wk[w].kind = "plan"
    /\ IF ReviewPlanFirst /\ ~run.approved
       THEN /\ run' = [run EXCEPT !.plan = TRUE, !.st = "AWAITING_PLAN_APPROVAL"]
            /\ wk' = [wk EXCEPT ![w] = Idle]
       ELSE /\ run' = [run EXCEPT !.plan = TRUE, !.st = "RUNNING"]
            /\ StartSession(w, "implement")
    /\ cleared' = cleared

(* Commit failures aside, the worktree's head is recorded; a repair that   *)
(* changed nothing fails the run.                                          *)
SettleWork(w) ==
    /\ wk[w].kind \in {"implement", "repair", "pr_repair"}
    /\ \/ Leave(w, "FAILED")                                   \* commit failed
       \/ /\ wk[w].kind # "implement" /\ Tip = wk[w].head
          /\ run' = [run EXCEPT !.head = Tip, !.st = "FAILED"]
          /\ wk' = [wk EXCEPT ![w] = Idle]
       \/ /\ wk[w].kind = "implement" \/ Tip # wk[w].head
          /\ run' = [run EXCEPT !.head = Tip]
          /\ wk' = [wk EXCEPT ![w].pc = "check", ![w].head = Tip]
    /\ cleared' = cleared

(* Mutant: every review that parses is taken for a clean one.              *)
SettleReviewLax(w) ==
    /\ wk[w].kind = "review"
    /\ run' = run /\ Goto(w, "publish") /\ cleared' = cleared

(* A clean review publishes; a blocking one repairs within its own cap.    *)
SettleReview(w) ==
    /\ wk[w].kind = "review"
    /\ CASE wk[w].out = "clean" ->
              /\ run' = run
              /\ Goto(w, "publish")
              /\ cleared' = cleared \cup {wk[w].head}
         [] wk[w].out = "blocking" /\ wk[w].reviews >= MaxReviewRounds ->
              Leave(w, "FAILED") /\ cleared' = cleared
         [] wk[w].out = "blocking" /\ wk[w].reviews < MaxReviewRounds ->
              update_run("REPAIRING") /\ StartSession(w, "repair") /\ cleared' = cleared
         [] OTHER -> Leave(w, "FAILED") /\ cleared' = cleared     \* unparseable

SettleRun(w) ==
    /\ wk[w].pc = "settle_run"
    /\ CASE wk[w].out = "cancelled" -> Leave(w, "CANCELLED") /\ cleared' = cleared
         [] wk[w].out \in {"timeout", "exit_code", "blocked"} ->
              Leave(w, "FAILED") /\ cleared' = cleared
         [] wk[w].out = "needs_decision" -> Leave(w, "NEEDS_DECISION") /\ cleared' = cleared
         [] OTHER -> SettlePlan(w) \/ SettleWork(w) \/ SettleReview(w)
    /\ UNCHANGED <<sessions, live, trees, checks, remote, briefed, reqs, crashes>>

-----------------------------------------------------------------------------
(* The check loop.  CHECKING is written, then the tree's latest executed   *)
(* check is reused or the command is run.                                  *)

Check(w) ==
    /\ wk[w].pc = "check"
    /\ run' = [run EXCEPT !.st = "CHECKING", !.head = wk[w].head]
    /\ Goto(w, "run_checks")
    /\ UNCHANGED <<sessions, live, trees, checks, cleared, remote, briefed, reqs, crashes>>

PrLoop(w) == wk[w].kind = "pr_repair"

(* The outcome of a round of checks.                                       *)
CheckRound(w, outcome) ==
    CASE outcome = "cancelled" -> Leave(w, "CANCELLED")
      [] outcome = "ERROR" -> Leave(w, "FAILED")
      [] outcome = "PASSED" -> run' = run /\ Goto(w, "checked")
      [] outcome = "FAILED" /\ (PrLoop(w) \/ wk[w].repairs >= MaxRepairs) -> Leave(w, "FAILED")
      [] OTHER -> /\ update_run("REPAIRING")
                  /\ wk' = [wk EXCEPT ![w].pc = "launch", ![w].kind = "repair",
                                      ![w].repairs = @ + 1]

(* The tree's latest executed check, if any: it is never run again.       *)
cached_check(t) == checks[t]

RunChecks(w) ==
    LET cached == cached_check(trees[Tip])
    IN  /\ wk[w].pc = "run_checks"
        /\ IF cached # "none"
           THEN CheckRound(w, cached) /\ checks' = checks
           ELSE \/ \E status \in {"PASSED", "FAILED", "ERROR"} :
                      CheckRound(w, status) /\ checks' = [checks EXCEPT ![trees[Tip]] = status]
                \/ run.cancel /\ CheckRound(w, "cancelled") /\ checks' = checks
        /\ UNCHANGED <<sessions, live, trees, cleared, remote, briefed, reqs, crashes>>

(* After passing checks: a PR repair is pushed; otherwise the review       *)
(* policy decides.  No distinct reviewer route fails the run.              *)
AfterChecks(w) ==
    /\ wk[w].pc = "checked"
    /\ \/ /\ PrLoop(w) \/ SkipReview
          /\ run' = run
          /\ Goto(w, "publish")
       \/ /\ ~PrLoop(w) /\ ~SkipReview
          /\ \/ Leave(w, "FAILED")
             \/ /\ run' = [run EXCEPT !.st = "REVIEWING", !.head = wk[w].head]
                /\ wk' = [wk EXCEPT ![w].pc = "launch", ![w].kind = "review",
                                    ![w].reviews = @ + 1]
    /\ UNCHANGED <<sessions, live, trees, checks, cleared, remote, briefed, reqs, crashes>>

-----------------------------------------------------------------------------
(* _publish_and_watch.                                                     *)

(* PUBLISHING, or DONE at once when there is nowhere to publish.           *)
Publish(w) ==
    /\ wk[w].pc = "publish"
    /\ IF HasRepository
       THEN run' = [run EXCEPT !.st = "PUBLISHING", !.head = wk[w].head] /\ Goto(w, "push")
       ELSE run' = [run EXCEPT !.st = "DONE", !.head = wk[w].head] /\ wk' = [wk EXCEPT ![w] = Idle]
    /\ UNCHANGED <<sessions, live, trees, checks, cleared, remote, briefed, reqs, crashes>>

(* git push of the branch; last_push_at is taken after the push, so the    *)
(* change requests submitted so far stop being newer than it.              *)
Push(w) ==
    /\ wk[w].pc = "push"
    /\ \/ Leave(w, "FAILED") /\ remote' = remote
       \/ /\ run' = run
          /\ remote' = [remote EXCEPT !.heads = Append(@, [head |-> Tip, tree |-> trees[Tip]])]
          /\ Goto(w, IF PrLoop(w) THEN "pushed" ELSE "open_pr")
    /\ UNCHANGED <<sessions, live, trees, checks, cleared, briefed, reqs, crashes>>

OpenPr(w) ==
    /\ wk[w].pc = "open_pr"
    /\ \/ Leave(w, "FAILED") /\ remote' = remote
       \/ run' = run /\ remote' = [remote EXCEPT !.pr = "OPEN"] /\ Goto(w, "pushed")
    /\ UNCHANGED <<sessions, live, trees, checks, cleared, briefed, reqs, crashes>>

(* PR_OPEN is recorded and last_push_at taken.                             *)
RecordPr(w) ==
    /\ wk[w].pc = "pushed"
    /\ run' = [run EXCEPT !.st = "PR_OPEN", !.head = wk[w].head, !.pr = TRUE]
    /\ remote' = [remote EXCEPT !.stale = @ \cup remote.fresh, !.fresh = {}]
    /\ Goto(w, IF PrLoop(w) THEN "reply" ELSE "watch_pr")
    /\ UNCHANGED <<sessions, live, trees, checks, cleared, briefed, reqs, crashes>>

(* The batch is replied to and its threads resolved; then it is handled.   *)
Reply(w) ==
    /\ wk[w].pc = "reply"
    /\ \/ Leave(w, "FAILED") /\ remote' = remote
       \/ /\ run' = run
          /\ remote' = [remote EXCEPT !.open = @ \ wk[w].batch,
                                      !.resolved = @ \cup (wk[w].batch \cap Threads)]
          /\ wk' = [wk EXCEPT ![w].pc = "watch_pr", ![w].kind = "none", ![w].batch = {},
                              ![w].handled = @ \cup wk[w].batch]
    /\ UNCHANGED <<sessions, live, trees, checks, cleared, briefed, reqs, crashes>>

(* The top of the watch loop.                                              *)
PrCancelled(w) ==
    /\ wk[w].pc = "watch_pr" /\ run.cancel
    /\ Leave(w, "CANCELLED")
    /\ UNCHANGED <<sessions, live, trees, checks, cleared, remote, briefed, reqs, crashes>>

PrTimeout(w) ==
    /\ wk[w].pc = "watch_pr" /\ ~run.cancel
    /\ Leave(w, "FAILED")
    /\ UNCHANGED <<sessions, live, trees, checks, cleared, remote, briefed, reqs, crashes>>

(* A poll: three failures in a row fail the run, an answer is a snapshot   *)
(* of the open threads and of the change requests newer than the push.     *)
Poll(w) ==
    /\ wk[w].pc = "watch_pr" /\ ~run.cancel
    /\ \/ /\ wk[w].fails + 1 >= 3
          /\ Leave(w, "FAILED")
       \/ /\ wk[w].fails + 1 < 3
          /\ run' = run
          /\ wk' = [wk EXCEPT ![w].fails = @ + 1]
       \/ /\ run' = run
          /\ wk' = [wk EXCEPT ![w].pc = "judge", ![w].fails = 0,
                              ![w].seen = remote.open \cup remote.fresh]
    /\ UNCHANGED <<sessions, live, trees, checks, cleared, remote, briefed, reqs, crashes>>

(* New trusted feedback starts a PR repair within its cap; a closed PR     *)
(* fails; a mergeable, green and quiet one is done; else poll again.       *)
Judge(w) ==
    LET new == wk[w].seen \ wk[w].handled
    IN  /\ wk[w].pc = "judge"
        /\ \/ /\ new # {} /\ wk[w].rounds >= MaxPrRounds
              /\ Leave(w, "FAILED") /\ briefed' = briefed
           \/ /\ new # {} /\ wk[w].rounds < MaxPrRounds
              /\ update_run("REPAIRING")
              /\ briefed' = briefed \cup new
              /\ wk' = [wk EXCEPT ![w].pc = "launch", ![w].kind = "pr_repair",
                                  ![w].rounds = @ + 1, ![w].batch = new, ![w].seen = {}]
           \/ /\ new = {} /\ remote.pr # "OPEN"
              /\ Leave(w, "FAILED") /\ briefed' = briefed
           \/ /\ new = {} /\ wk[w].seen = {} /\ remote.pr = "OPEN"
              /\ run' = [run EXCEPT !.st = "DONE", !.head = wk[w].head]
              /\ wk' = [wk EXCEPT ![w] = Idle]
              /\ briefed' = briefed
           \/ /\ new = {} /\ remote.pr = "OPEN"
              /\ run' = run /\ briefed' = briefed
              /\ wk' = [wk EXCEPT ![w].pc = "watch_pr", ![w].seen = {}]
        /\ UNCHANGED <<sessions, live, trees, checks, cleared, remote, reqs, crashes>>

-----------------------------------------------------------------------------
(* Failures.                                                               *)

(* An exception: the supervised process is killed, a run still active is   *)
(* failed with "worker error".  The session row keeps its state.           *)
WorkerError(w) ==
    /\ Executing(w)
    /\ live' = IF Supervising(w) THEN live \ {wk[w].sess} ELSE live
    /\ Leave(w, IF run.st \in Active THEN "FAILED" ELSE run.st)
    /\ UNCHANGED <<sessions, trees, checks, cleared, remote, briefed, reqs, crashes>>

(* The worker process stops and is restarted: an orderly stop cancels the  *)
(* task and kills its process, a crash leaves the process running.         *)
WorkerStops(w) ==
    /\ wk[w].pc # "sweep" /\ crashes < MaxCrashes
    /\ \/ live' = live
       \/ Supervising(w) /\ live' = live \ {wk[w].sess}
    /\ wk' = [wk EXCEPT ![w] = Idle]
    /\ crashes' = crashes + 1
    /\ UNCHANGED <<run, sessions, trees, checks, cleared, remote, briefed, reqs>>

(* A provider process no worker supervises ends by itself.                 *)
OrphanExit(s) ==
    /\ s \in live
    /\ ~ \E w \in Workers : Executing(w) /\ wk[w].sess = s
    /\ live' = live \ {s}
    /\ UNCHANGED <<run, sessions, trees, checks, cleared, remote, briefed, wk, reqs, crashes>>

-----------------------------------------------------------------------------
(* The owner's requests: the row is read, then the decided fields are      *)
(* written.  Without Overlapping both happen in one step.                  *)

(* What request_cancel writes for the state it read.                       *)
CancelWrite(seen) ==
    IF seen \in {"QUEUED", "AWAITING_PLAN_APPROVAL"}
    THEN [run EXCEPT !.st = "CANCELLED", !.cancel = TRUE]
    ELSE IF seen \in Active THEN [run EXCEPT !.cancel = TRUE] ELSE run

(* What approve_plan writes; it refuses any other state.                   *)
ApproveWrite(seen) ==
    IF seen = "AWAITING_PLAN_APPROVAL"
    THEN [run EXCEPT !.approved = TRUE, !.st = "QUEUED"] ELSE run

RequestRead(q, op) ==
    /\ Overlapping /\ reqs[q].op = "none"
    /\ reqs' = [reqs EXCEPT ![q] = [op |-> op, st |-> run.st]]
    /\ UNCHANGED <<run, sessions, live, trees, checks, cleared, remote, briefed, wk, crashes>>

RequestCommit(q) ==
    /\ reqs[q].op \in {"cancel", "approve"}
    /\ run' = IF reqs[q].op = "cancel" THEN CancelWrite(reqs[q].st) ELSE ApproveWrite(reqs[q].st)
    /\ reqs' = [reqs EXCEPT ![q].op = "done"]
    /\ UNCHANGED <<sessions, live, trees, checks, cleared, remote, briefed, wk, crashes>>

RequestAtOnce(q) ==
    /\ ~Overlapping /\ reqs[q].op = "none"
    /\ run' \in {CancelWrite(run.st), ApproveWrite(run.st)}
    /\ run' # run
    /\ reqs' = [reqs EXCEPT ![q].op = "done"]
    /\ UNCHANGED <<sessions, live, trees, checks, cleared, remote, briefed, wk, crashes>>

(* GitHub: trusted feedback arrives, the PR is closed by somebody.         *)
PostThread(f) ==
    /\ remote.pr = "OPEN" /\ f \in Threads \ (remote.open \cup remote.resolved)
    /\ remote' = [remote EXCEPT !.open = @ \cup {f}]
    /\ UNCHANGED <<run, sessions, live, trees, checks, cleared, briefed, wk, reqs, crashes>>

SubmitReview(f) ==
    /\ remote.pr = "OPEN" /\ f \in Reviews \ (remote.fresh \cup remote.stale)
    /\ remote' = [remote EXCEPT !.fresh = @ \cup {f}]
    /\ UNCHANGED <<run, sessions, live, trees, checks, cleared, briefed, wk, reqs, crashes>>

ClosePr ==
    /\ remote.pr = "OPEN"
    /\ remote' = [remote EXCEPT !.pr = "CLOSED"]
    /\ UNCHANGED <<run, sessions, live, trees, checks, cleared, briefed, wk, reqs, crashes>>

-----------------------------------------------------------------------------
Progress(w) ==
    \/ SweepRead(w) \/ SweepSettle(w) \/ claim_next(w) \/ Prepare(w)
    \/ Launch(w) \/ Spawn(w) \/ RecordPid(w)
    \/ WatchExit(w) \/ WatchTimeout(w) \/ WatchCancelled(w)
    \/ SettleSession(w) \/ SettleRun(w)
    \/ Check(w) \/ RunChecks(w) \/ AfterChecks(w)
    \/ Publish(w) \/ Push(w) \/ OpenPr(w) \/ RecordPr(w) \/ Reply(w)
    \/ PrCancelled(w) \/ PrTimeout(w) \/ Poll(w) \/ Judge(w)

Next ==
    \/ \E w \in Workers : Progress(w) \/ WorkerError(w) \/ WorkerStops(w)
    \/ \E s \in DOMAIN sessions : OrphanExit(s)
    \/ \E q \in Requests :
          \/ \E op \in {"cancel", "approve"} : RequestRead(q, op)
          \/ RequestCommit(q) \/ RequestAtOnce(q)
    \/ \E f \in Feedback : PostThread(f) \/ SubmitReview(f)
    \/ ClosePr

Spec == Init /\ [][Next]_vars

(* Workers poll and are restarted after a stop.  The watch's elapsed time  *)
(* only grows, so its timeout is not passed over for ever.                 *)
Fairness ==
    \A w \in Workers : WF_vars(Progress(w)) /\ SF_vars(PrTimeout(w))

FairSpec == Spec /\ Fairness

-----------------------------------------------------------------------------
TypeOK ==
    /\ run \in [st : States, cancel : BOOLEAN, approved : BOOLEAN, plan : BOOLEAN,
                head : 0 .. MaxSessions + 1, pr : BOOLEAN]
    /\ Len(sessions) <= MaxSessions
    /\ \A s \in DOMAIN sessions :
          sessions[s] \in [kind : Kinds, pid : BOOLEAN,
                           state : {"RUNNING", "SUCCEEDED", "FAILED", "KILLED", "TIMED_OUT"}]
    /\ live \subseteq DOMAIN sessions
    /\ \A h \in DOMAIN trees : trees[h] \in Trees
    /\ checks \in [Trees -> {"none", "PASSED", "FAILED", "ERROR"}]
    /\ remote.open \cup remote.resolved \subseteq Threads
    /\ remote.fresh \cup remote.stale \subseteq Reviews
    /\ \A w \in Workers : wk[w].out \in Outcomes \cup {"none"} /\ wk[w].batch \subseteq Feedback

(* Whatever reaches GitHub, in the first publication or after a PR repair, *)
(* is a tree whose latest executed checks passed, although checks are      *)
(* reused by tree and read-only sessions may leave commits behind.         *)
PublishedChecked ==
    \A i \in DOMAIN remote.heads : checks[remote.heads[i].tree] = "PASSED"

(* The head first published passed a review without a blocking finding,    *)
(* unless the owner's policy skips reviews.                                *)
PublishedReviewed ==
    remote.heads # <<>> => SkipReview \/ remote.heads[1].head \in cleared

(* A done run whose project names a repository records the head GitHub     *)
(* holds, and its pull request was opened.                                 *)
DonePublished ==
    run.st = "DONE" /\ HasRepository =>
        /\ run.pr /\ remote.heads # <<>>
        /\ run.head = remote.heads[Len(remote.heads)].head

(* A thread Forge resolved was answered: a repair session was given it and *)
(* a head was pushed after the first publication.                          *)
ResolvedAnswered ==
    remote.resolved # {} => remote.resolved \subseteq briefed /\ Len(remote.heads) > 1

(* A run its owner cancelled while it was parked never starts: an approval *)
(* that read the row before the cancellation may requeue it, and the claim *)
(* settles it.                                                             *)
ParkedCancelHolds ==
    [][run.cancel /\ run.st \in {"QUEUED", "AWAITING_PLAN_APPROVAL", "CANCELLED"}
          /\ (\A w \in Workers : ~Executing(w))
          => run'.st \notin Active]_vars

(* A settled run has no provider process at work whose pid was recorded.   *)
SettledIsQuiet ==
    run.st \in Terminal => \A s \in live : ~sessions[s].pid

(* A run once active is settled or parked for its owner: no session, check,*)
(* repair round or pull request is awaited for ever.                       *)
Settles == []<>(run.st \notin Active)

=============================================================================
