------------------------------ MODULE ToolCalls ------------------------------
(***************************************************************************)
(* The controlled tool calls of one execution attempt:                     *)
(* application/services/tools.py, the tool_calls table, the adapters that  *)
(* write files, run named checks and make commits, and tool_recovery.py.   *)
(*                                                                         *)
(* A call is known by its invocation id.  Callers present it, and may      *)
(* present it again after a timeout; the completion of an admitted call    *)
(* goes on when its caller is cancelled and dies with its process.  Every  *)
(* unit of work that admits or settles holds the run row, so it is one     *)
(* step; the effects happen between those steps.                           *)
(*                                                                         *)
(* The leases of the intents are those of OperationIntents: holder[c] is   *)
(* the caller whose lease is live.  A caller that has passed its last look *)
(* at the lease invokes, however late.                                     *)
(*                                                                         *)
(* Files and trees are versions: every mutation makes a new one.  A commit *)
(* records who made it, its tree and its parent's place in the branch.     *)
(***************************************************************************)
EXTENDS Naturals, Sequences, FiniteSets

CONSTANTS
    Calls,     \* invocation ids
    Kind,      \* [Calls -> which tool]
    Callers,   \* presentations of a call
    call,      \* [Callers -> Calls]
    Budget,    \* max_tool_calls
    MaxLapses, MaxCrashes, MaxStops, MaxEdits  \* bounds

Kinds == {"read", "snapshot", "write", "delete", "check", "commit"}

ASSUME ToolAssumption ==
    /\ Kind \in [Calls -> Kinds]
    /\ call \in [Callers -> Calls]
    /\ "none" \notin Callers
    /\ {Budget, MaxLapses, MaxCrashes, MaxStops, MaxEdits} \subseteq Nat

VARIABLES
    run,       \* "work", "held" (paused, at a gate, intervened) or "CANCELLED"
    stopping,  \* a pause or cancel accepted and not executed
    attempt,   \* the execution attempt is RUNNING
    row,       \* [Calls -> the tool_calls row's status, "none" before]
    op, pub,   \* [Calls -> status of the call's intent; of its publication]
    holder,    \* [Calls -> the caller with the live lease]
    receipt,   \* [Calls -> the retained named_check receipt]
    prepared,  \* [Calls -> the prepared commit: parent and tree]
    files, index, branch, \* the worktree: contents, staged tree, commits
    done,      \* [Calls -> effects that happened]
    pc,        \* [Callers -> where the presentation is]
    result,    \* [Callers -> what its check run or snapshot came to]
    gone,      \* [Callers -> its caller was cancelled]
    told,      \* [Callers -> the status returned to it]
    lapses, crashes, stops, edits

control == <<run, stopping, attempt>>
records == <<row, op, pub, holder, receipt>>
worktree == <<prepared, files, index, branch, done>>
callers == <<pc, result, gone, told>>
budget == <<lapses, crashes, stops, edits>>
vars == <<control, records, worktree, callers, budget>>

Terminal == {"SUCCEEDED", "FAILED", "CANCELLED", "DENIED"}
Unresolved == {"PENDING", "NEEDS_RECONCILIATION"}
Ended == {"answered", "raised", "dead"}
Nothing == [parent |-> 0, tree |-> 0]

\* Where a presentation is in the completion of a write, a check, a commit or a
\* snapshot.
WritePlace == {"invoke", "applied", "unsure", "observe", "proved"}
CheckPlace == {"launch", "ran", "kept"}
CommitPlace == {"unprepared", "prepared", "failed", "publish", "committing", "published"}
Place ==
    {"idle", "wait", "admitted", "reading", "read"} \cup Ended
        \cup WritePlace \cup CheckPlace \cup CommitPlace

\* What a check run, or a reading of a snapshot, came to.
Outcome == {"none", "unlaunched", "passed", "failed", "stopped"}

TypeOK ==
    /\ run \in {"work", "held", "CANCELLED"} /\ stopping \in BOOLEAN /\ attempt \in BOOLEAN
    /\ row \in [Calls -> Terminal \cup {"none", "RUNNING"}]
    /\ op \in [Calls -> Unresolved \cup {"none", "SUCCEEDED", "FAILED"}]
    /\ pub \in [Calls -> Unresolved \cup {"none", "SUCCEEDED"}]
    /\ holder \in [Calls -> Callers \cup {"none"}]
    /\ receipt \in [Calls -> Outcome]
    /\ prepared \in [Calls -> [parent : Nat, tree : Nat]]
    /\ files \in Nat /\ index \in Nat
    /\ branch \in Seq([by : Calls, tree : Nat, parent : Nat])
    /\ done \in [Calls -> Nat]
    /\ pc \in [Callers -> Place]
    /\ result \in [Callers -> Outcome]
    /\ gone \in [Callers -> BOOLEAN]
    /\ told \in [Callers -> Terminal \cup {"none"}]

Init ==
    /\ run = "work" /\ stopping = FALSE /\ attempt = TRUE
    /\ row = [c \in Calls |-> "none"]
    /\ op = [c \in Calls |-> "none"] /\ pub = [c \in Calls |-> "none"]
    /\ holder = [c \in Calls |-> "none"]
    /\ receipt = [c \in Calls |-> "none"]
    /\ prepared = [c \in Calls |-> Nothing]
    /\ files = 1 /\ index = 0 /\ branch = <<>>   \* a developer's edit, unstaged
    /\ done = [c \in Calls |-> 0]
    /\ pc = [p \in Callers |-> "idle"]
    /\ result = [p \in Callers |-> "none"]
    /\ gone = [p \in Callers |-> FALSE]
    /\ told = [p \in Callers |-> "none"]
    /\ lapses = 0 /\ crashes = 0 /\ stops = 0 /\ edits = 0

----------------------------------------------------------------------------
(* Authority, checked again in every unit of work that holds the run row.  *)

\* _validate: the run is in a state that lets this attempt work.  Policy,
\* bindings and arguments are those of a well-formed request.
Active == run = "work"

\* validate_execution_context and authorize_tool: the attempt is RUNNING and
\* no pause or cancel has been accepted for this version of the run.
Current == attempt /\ ~stopping

\* count_for_subscription_task: the authorized calls.
Count == Cardinality({c \in Calls : row[c] \notin {"none", "DENIED"}})

\* Mutant: the call that exhausts the budget is not the last.
BudgetAvailableOnce == Count =< Budget

\* _budget_available.
BudgetAvailable == Count < Budget

----------------------------------------------------------------------------
(* The tool_calls table and the caller's end.                              *)

\* reserve, with the intent begun in the same unit of work.
Reserve(c, p) ==
    /\ row' = [row EXCEPT ![c] = "RUNNING"]
    /\ op' = [op EXCEPT ![c] = IF Kind[c] = "snapshot" THEN "none" ELSE "PENDING"]
    /\ holder' = [holder EXCEPT ![c] = IF Kind[c] = "snapshot" THEN "none" ELSE p]
    /\ UNCHANGED <<pub, receipt>>

\* finalize: only a RUNNING row; its caller raises on a terminal one.
Finalize(c, status) == row[c] = "RUNNING" /\ row' = [row EXCEPT ![c] = status]

Goto(p, place) == pc' = [pc EXCEPT ![p] = place] /\ UNCHANGED <<result, gone, told>>

\* A result goes back to the caller.
Answer(p, status) ==
    /\ pc' = [pc EXCEPT ![p] = "answered"]
    /\ told' = [told EXCEPT ![p] = status]
    /\ UNCHANGED <<result, gone>>

Raise(p) == Goto(p, "raised") /\ UNCHANGED <<control, records, worktree, budget>>

\* record of a call that is over when it is first written.
Record(c, p, status) ==
    /\ row[c] = "none"
    /\ row' = [row EXCEPT ![c] = status]
    /\ Answer(p, status)
    /\ UNCHANGED <<control, op, pub, holder, receipt, worktree, budget>>

\* _record_write_denial: refused when the id already has another row.
RecordWriteDenial(c, p) == Record(c, p, "DENIED") \/ (row[c] # "none" /\ Raise(p))

\* The row of an earlier presentation answers (_result_from_record).
Replay(c, p) ==
    /\ row[c] \in Terminal
    /\ Answer(p, row[c])
    /\ UNCHANGED <<control, records, worktree, budget>>

\* _record_subscription_denial: a terminal row answers instead.
RecordSubscriptionDenial(c, p) ==
    Record(c, p, "DENIED") \/ Replay(c, p) \/ (row[c] = "RUNNING" /\ Raise(p))

\* _write_replay_result: a success only with its artifact and a completed
\* intent behind it.
WriteReplay(c, p) == Replay(c, p) /\ (row[c] = "SUCCEEDED" => op[c] = "SUCCEEDED")

\* _git_terminal_result: likewise for the publication.
GitReplay(c, p) == Replay(c, p) /\ (row[c] = "SUCCEEDED" => pub[c] = "SUCCEEDED")

\* _named_replay asks for the authority again.
NamedReplay(c, p) ==
    \/ Current /\ Replay(c, p)
    \/ ~ Current /\ row[c] \in Terminal /\ Raise(p)

----------------------------------------------------------------------------
(* Presenting a call: one unit of work.                                    *)

\* What a fresh admission asks; a call already admitted is not counted again.
Admissible(c) == Active /\ Current /\ (row[c] = "none" => BudgetAvailable)

Admit(c, p) ==
    /\ row[c] = "none" /\ Admissible(c)
    /\ Reserve(c, p)
    /\ Goto(p, IF Kind[c] = "snapshot" THEN "reading" ELSE "admitted")
    /\ UNCHANGED <<control, worktree, budget>>

Deny(c, p) == ~ Admissible(c) /\ RecordWriteDenial(c, p)

\* _invoke_repository_write: the checks come first, then the row answers, and
\* a call that is still RUNNING is observed through its intent.
InvokeRepositoryWrite(p) ==
    LET c == call[p] IN
    /\ pc[p] = "idle" /\ Kind[c] \in {"write", "delete"}
    /\ \/ Admit(c, p)
       \/ Deny(c, p)
       \/ Admissible(c) /\ WriteReplay(c, p)
       \/ /\ Admissible(c) /\ row[c] = "RUNNING" /\ Goto(p, "observe")
          /\ UNCHANGED <<control, records, worktree, budget>>

\* A duplicate of a live call joins it, or watches its row until a deadline.
JoinOrWatch(c, p) ==
    /\ row[c] = "RUNNING" /\ Goto(p, "wait")
    /\ UNCHANGED <<control, records, worktree, budget>>

\* _invoke_named_check and _invoke_git_commit: the row answers first.
InvokeNamedCheck(p) ==
    LET c == call[p] IN
    /\ pc[p] = "idle" /\ Kind[c] = "check"
    /\ NamedReplay(c, p) \/ JoinOrWatch(c, p) \/ Admit(c, p) \/ (row[c] = "none" /\ Deny(c, p))

InvokeGitCommit(p) ==
    LET c == call[p] IN
    /\ pc[p] = "idle" /\ Kind[c] = "commit"
    /\ GitReplay(c, p) \/ JoinOrWatch(c, p) \/ Admit(c, p) \/ (row[c] = "none" /\ Deny(c, p))

\* _invoke_subscription_snapshot: a RUNNING one is read again.
InvokeSnapshot(p) ==
    LET c == call[p] IN
    /\ pc[p] = "idle" /\ Kind[c] = "snapshot"
    /\ \/ Admit(c, p)
       \/ ~ Admissible(c) /\ RecordSubscriptionDenial(c, p)
       \/ Admissible(c) /\ Replay(c, p)
       \/ /\ Admissible(c) /\ row[c] = "RUNNING" /\ Goto(p, "reading")
          /\ UNCHANGED <<control, records, worktree, budget>>

\* _dispatch: what a read comes to.
Dispatch == {"SUCCEEDED", "FAILED"}

\* _invoke_subscription for the reading tools: read and recorded in the unit of
\* work that checks it.
InvokeRead(p) ==
    LET c == call[p] IN
    /\ pc[p] = "idle" /\ Kind[c] = "read"
    /\ \/ Admissible(c) /\ \E status \in Dispatch : Record(c, p, status)
       \/ Admissible(c) /\ Replay(c, p)
       \/ ~ Admissible(c) /\ RecordSubscriptionDenial(c, p)

Watch(p) ==
    /\ pc[p] = "wait"
    /\ Replay(call[p], p) \/ Raise(p)

----------------------------------------------------------------------------
(* Storing an intent's outcome.                                            *)

Held(c, p) == holder[c] = p

\* operations.complete of the intent, with its owner; in the units of work
\* below it comes with the call's verdict.
CompleteOp(c) ==
    /\ op' = [op EXCEPT ![c] = "SUCCEEDED"]
    /\ holder' = [holder EXCEPT ![c] = "none"]

\* RecoveryService.reconcile found no evidence.
LeaveUnresolved(c) ==
    /\ IF pub[c] \in Unresolved
       THEN pub' = [pub EXCEPT ![c] = "NEEDS_RECONCILIATION"] /\ UNCHANGED op
       ELSE op' = [op EXCEPT ![c] = "NEEDS_RECONCILIATION"] /\ UNCHANGED pub
    /\ holder' = [holder EXCEPT ![c] = "none"]
    /\ UNCHANGED <<row, receipt>>

----------------------------------------------------------------------------
(* Repository writes: execute_admitted, then the call's verdict.           *)

\* The executor of a new intent invokes while its lease is live, and else
\* observes, as the executor of an old one does.
ExecuteWrite(p) ==
    /\ pc[p] = "admitted" /\ Kind[call[p]] \in {"write", "delete"}
    /\ Goto(p, IF Held(call[p], p) THEN "invoke" ELSE "observe")
    /\ UNCHANGED <<control, records, worktree, budget>>

\* _RepositoryWriteOperationAdapter.invoke: the file changes or is refused; an
\* exception says nothing about which.
WriteFile(p) ==
    LET c == call[p] IN
    /\ pc[p] = "invoke" /\ Kind[c] \in {"write", "delete"}
    /\ \/ /\ files' = files + 1 /\ done' = [done EXCEPT ![c] = @ + 1]
          /\ Goto(p, "applied") \/ Goto(p, "unsure")
       \/ Goto(p, "unsure") /\ UNCHANGED <<files, done>>
    /\ UNCHANGED <<control, records, prepared, index, branch, budget>>

\* complete or fail(needs_reconciliation), for the live owner.
StoreWrite(p) ==
    LET c == call[p] IN
    /\ pc[p] \in {"applied", "unsure"}
    /\ \/ /\ pc[p] = "applied" /\ Held(c, p) /\ CompleteOp(c)
          /\ Goto(p, "proved") /\ UNCHANGED <<pub, row, receipt>>
       \/ pc[p] = "applied" /\ op[c] = "SUCCEEDED" /\ Goto(p, "proved") /\ UNCHANGED records
       \/ pc[p] = "unsure" /\ Held(c, p) /\ LeaveUnresolved(c) /\ Goto(p, "raised")
       \/ ~ Held(c, p) /\ op[c] # "SUCCEEDED" /\ Goto(p, "raised") /\ UNCHANGED records
       \/ pc[p] = "unsure" /\ ~ Held(c, p) /\ Goto(p, "raised") /\ UNCHANGED records
    /\ UNCHANGED <<control, worktree, budget>>

\* _RepositoryWriteOperationAdapter.reconcile: the expected contents are
\* there; a deletion or rename is never proved from outside.
ReconcileWrite(c) == Kind[c] = "write" /\ done[c] > 0

\* Mutant: a claimed intent is invoked again.
ObserveInvokes(p) ==
    LET c == call[p] IN
    /\ pc[p] = "observe"
    /\ \/ op[c] = "SUCCEEDED" /\ Goto(p, "proved") /\ UNCHANGED records
       \/ /\ op[c] \in Unresolved /\ holder[c] = "none"
          /\ holder' = [holder EXCEPT ![c] = p] /\ Goto(p, "invoke")
          /\ UNCHANGED <<row, op, pub, receipt>>
    /\ UNCHANGED <<control, worktree, budget>>

\* _observe_or_reconcile: the settled intent answers; one without a live lease
\* is claimed and looked at.
ObserveWrite(p) ==
    LET c == call[p] IN
    /\ pc[p] = "observe"
    /\ \/ op[c] = "SUCCEEDED" /\ Goto(p, "proved") /\ UNCHANGED records
       \/ /\ op[c] \in Unresolved /\ holder[c] = "none"
          /\ IF ReconcileWrite(c)
             THEN CompleteOp(c) /\ Goto(p, "proved") /\ UNCHANGED <<pub, row, receipt>>
             ELSE LeaveUnresolved(c) /\ Goto(p, "raised")
    /\ UNCHANGED <<control, worktree, budget>>

\* _complete_repository_write: the verdict, or the one another completion gave.
CompleteRepositoryWrite(p) ==
    LET c == call[p] IN
    /\ pc[p] = "proved"
    /\ \/ /\ Finalize(c, "SUCCEEDED") /\ Answer(p, "SUCCEEDED")
          /\ UNCHANGED <<control, op, pub, holder, receipt, worktree, budget>>
       \/ WriteReplay(c, p)

----------------------------------------------------------------------------
(* Named checks: a preflight, the run of the command, the settlement.      *)

\* _named_result.
NamedResult(kept) ==
    CASE kept = "passed" -> "SUCCEEDED"
      [] kept = "failed" -> "FAILED"
      [] OTHER -> "CANCELLED"

\* _complete_named_check: the intent's outcome, for its live owner or equal to
\* the stored one, with the call's verdict.
CompleteNamed(c, p, kept) ==
    /\ Held(c, p) \/ op[c] = "SUCCEEDED"
    /\ Finalize(c, NamedResult(kept))
    /\ CompleteOp(c)
    /\ receipt' = [receipt EXCEPT ![c] = kept]
    /\ Answer(p, NamedResult(kept))

\* _settle_named_check, preflight: a cancelled run or caller ends the call with
\* proof that nothing was launched; a lost authority leaves it RUNNING; else
\* the run row is released before the command runs.
Preflight(p) ==
    LET c == call[p] IN
    /\ pc[p] = "admitted" /\ Kind[c] = "check"
    /\ \/ /\ run = "CANCELLED" \/ gone[p]
          /\ CompleteNamed(c, p, "unlaunched") /\ UNCHANGED pub
       \/ /\ run = "CANCELLED" \/ gone[p]
          /\ ~ Held(c, p) \/ row[c] # "RUNNING"
          /\ Goto(p, "raised") /\ UNCHANGED records
       \/ /\ run # "CANCELLED" /\ ~ gone[p]
          /\ Goto(p, IF Active /\ Current /\ row[c] = "RUNNING" /\ Held(c, p)
                     THEN "launch" ELSE "raised")
          /\ UNCHANGED records
    /\ UNCHANGED <<control, worktree, budget>>

\* NamedCheckOperationAdapter.invoke: a caller cancelled before the launch
\* leaves no effect; else the command runs to its end, or is stopped.
RunCheck(p) ==
    LET c == call[p] IN
    /\ pc[p] = "launch"
    /\ \/ gone[p] /\ result' = [result EXCEPT ![p] = "unlaunched"] /\ UNCHANGED done
       \/ /\ done' = [done EXCEPT ![c] = @ + 1]
          /\ result' = [result EXCEPT ![p] = IF gone[p] THEN "stopped" ELSE "passed"]
       \/ ~ gone[p] /\ done' = [done EXCEPT ![c] = @ + 1] /\ result' = [result EXCEPT ![p] = "failed"]
    /\ pc' = [pc EXCEPT ![p] = "ran"]
    /\ UNCHANGED <<control, records, prepared, files, index, branch, gone, told, budget>>

\* The receipt is committed by itself (_persist, then execution.commit()).
PersistReceipt(p) ==
    LET c == call[p] IN
    /\ pc[p] = "ran"
    /\ receipt' = [receipt EXCEPT ![c] = result[p]]
    /\ Goto(p, "kept")
    /\ UNCHANGED <<control, row, op, pub, holder, worktree, budget>>

\* _settle_named_check, settlement: only a call that is still RUNNING.
SettleNamedCheck(p) ==
    LET c == call[p] IN
    /\ pc[p] = "kept"
    /\ \/ CompleteNamed(c, p, result[p]) /\ UNCHANGED pub
       \/ /\ row[c] # "RUNNING" \/ (~ Held(c, p) /\ op[c] # "SUCCEEDED")
          /\ Goto(p, "raised") /\ UNCHANGED records
    /\ UNCHANGED <<control, worktree, budget>>

----------------------------------------------------------------------------
(* Commits: a preparation and a publication, admitted one after the other. *)

HeadTree == IF branch = <<>> THEN 0 ELSE branch[Len(branch)].tree

\* prepare_commit under the worktree lock: everything is staged, and the tree
\* and HEAD it will be bound to are returned.  Nothing to commit, or any other
\* failure, may still have staged.
PrepareCommit(p) ==
    LET c == call[p] IN
    /\ pc[p] = "admitted" /\ Kind[c] = "commit"
    /\ \/ /\ Held(c, p) /\ files # HeadTree
          /\ index' = files
          /\ prepared' = [prepared EXCEPT ![c] = [parent |-> Len(branch), tree |-> files]]
          /\ Goto(p, "prepared")
       \/ Held(c, p) /\ index' \in {index, files} /\ Goto(p, "unprepared") /\ UNCHANGED prepared
       \/ ~ Held(c, p) /\ Goto(p, "raised") /\ UNCHANGED <<index, prepared>>
    /\ UNCHANGED <<control, records, files, branch, done, budget>>

\* A failed preparation is settled under its lease before anything waits for
\* the run row.
FailPreparation(p) ==
    LET c == call[p] IN
    /\ pc[p] = "unprepared"
    /\ \/ /\ Held(c, p) /\ row[c] = "RUNNING" /\ pub[c] = "none"
          /\ op' = [op EXCEPT ![c] = "FAILED"]
          /\ holder' = [holder EXCEPT ![c] = "none"]
          /\ Goto(p, "failed") /\ UNCHANGED <<row, pub, receipt>>
       \/ /\ ~ Held(c, p) \/ row[c] # "RUNNING"
          /\ Goto(p, "raised") /\ UNCHANGED records
    /\ UNCHANGED <<control, worktree, budget>>

\* The phase unit of work of _settle_git_commit.  A cancelled run ends the call
\* here; a lost authority leaves it RUNNING; else the preparation is completed
\* and its publication admitted together.
AdmitPublication(p) ==
    LET c == call[p] IN
    /\ pc[p] = "prepared"
    /\ \/ /\ run = "CANCELLED" /\ Held(c, p) /\ Finalize(c, "CANCELLED")
          /\ CompleteOp(c) /\ Answer(p, "CANCELLED") /\ UNCHANGED <<pub, receipt>>
       \/ /\ Active /\ Current /\ Held(c, p) /\ row[c] = "RUNNING"
          /\ op' = [op EXCEPT ![c] = "SUCCEEDED"]
          /\ pub' = [pub EXCEPT ![c] = "PENDING"]
          /\ Goto(p, "publish") /\ UNCHANGED <<row, holder, receipt>>
       \/ /\ ~ Held(c, p) \/ row[c] # "RUNNING"
             \/ (run # "CANCELLED" /\ ~ (Active /\ Current))
          /\ Goto(p, "raised") /\ UNCHANGED records
    /\ UNCHANGED <<control, worktree, budget>>

\* invoke_admitted renews the lease before it calls the adapter.
RenewPublication(p) ==
    /\ pc[p] = "publish"
    /\ Goto(p, IF Held(call[p], p) THEN "committing" ELSE "raised")
    /\ UNCHANGED <<control, records, worktree, budget>>

\* _commit_prepared_bound: HEAD and the staged tree are the prepared ones.
MatchesPrepared(c) == Len(branch) = prepared[c].parent /\ index = prepared[c].tree

\* commit_prepared, under the worktree lock; it may fail after the commit.
PublishCommit(p) ==
    LET c == call[p] IN
    /\ pc[p] = "committing"
    /\ \/ /\ MatchesPrepared(c)
          /\ branch' = Append(branch, [by |-> c, tree |-> index, parent |-> Len(branch)])
          /\ done' = [done EXCEPT ![c] = @ + 1]
          /\ Goto(p, "published") \/ Goto(p, "raised")
       \/ Goto(p, "raised") /\ UNCHANGED <<branch, done>>
    /\ UNCHANGED <<control, records, prepared, files, index, budget>>

\* _finalize_git_commit after a publication or a failed preparation: the
\* intent's verdict, for its live owner or equal to the stored one, and the
\* call's.
FinalizeGitCommit(p) ==
    LET c == call[p] IN
    /\ \/ /\ pc[p] = "failed" /\ Finalize(c, "FAILED") /\ Answer(p, "FAILED")
          /\ UNCHANGED <<op, pub, holder, receipt>>
       \/ /\ pc[p] = "published" /\ (Held(c, p) \/ pub[c] = "SUCCEEDED")
          /\ Finalize(c, "SUCCEEDED") /\ Answer(p, "SUCCEEDED")
          /\ pub' = [pub EXCEPT ![c] = "SUCCEEDED"]
          /\ holder' = [holder EXCEPT ![c] = "none"]
          /\ UNCHANGED <<op, receipt>>
       \/ /\ pc[p] \in {"failed", "published"}
          /\ row[c] # "RUNNING" \/ (pc[p] = "published" /\ ~ Held(c, p) /\ pub[c] # "SUCCEEDED")
          /\ Goto(p, "raised") /\ UNCHANGED records
    /\ UNCHANGED <<control, worktree, budget>>

\* inspect_prepared_commit: the only child of the prepared parent, with the
\* prepared tree and message.
InspectPrepared(c) ==
    /\ Len(branch) > prepared[c].parent
    /\ branch[prepared[c].parent + 1] =
        [by |-> c, tree |-> prepared[c].tree, parent |-> prepared[c].parent]

----------------------------------------------------------------------------
(* Snapshots: read outside any unit of work, accepted under the run row.   *)

ReadSnapshot(p) ==
    /\ pc[p] = "reading"
    /\ pc' = [pc EXCEPT ![p] = "read"]
    /\ \E r \in {"passed", "failed"} : result' = [result EXCEPT ![p] = r]
    /\ UNCHANGED <<control, records, worktree, gone, told, budget>>

\* _complete_subscription_snapshot: another verdict stands; a cancelled caller
\* or a lost authority revokes the evidence.
CompleteSnapshot(p) ==
    LET c == call[p]
        status == IF gone[p] \/ ~ (Active /\ Current) THEN "CANCELLED" ELSE NamedResult(result[p])
    IN
    /\ pc[p] = "read"
    /\ \/ Replay(c, p)
       \/ /\ Finalize(c, status) /\ Answer(p, status)
          /\ UNCHANGED <<control, op, pub, holder, receipt, worktree, budget>>

----------------------------------------------------------------------------
(* Recovery, at the start of a worker: intents first, then the calls.      *)

\* NamedCheckOperationAdapter.reconcile: exactly one receipt, which decodes.
ReconcileCheck(c) == Kind[c] = "check" /\ receipt[c] # "none"

\* RecoveryService.reconcile with the adapter of the intent's kind, for an
\* intent nobody holds.  A preparation is never staged again or guessed.
ReconcileIntent(c) ==
    /\ holder[c] = "none"
    /\ \/ /\ op[c] \in Unresolved
          /\ IF ReconcileWrite(c) \/ ReconcileCheck(c)
             THEN CompleteOp(c) /\ UNCHANGED <<row, pub, receipt>>
             ELSE LeaveUnresolved(c)
       \/ /\ pub[c] \in Unresolved
          /\ IF InspectPrepared(c)
             THEN pub' = [pub EXCEPT ![c] = "SUCCEEDED"] /\ UNCHANGED <<row, op, holder, receipt>>
             ELSE LeaveUnresolved(c)
    /\ UNCHANGED <<control, worktree, callers, budget>>

\* _recover_named: the receipt behind a completed intent is the verdict.
RecoverNamed(c) ==
    /\ Kind[c] = "check" /\ op[c] = "SUCCEEDED" /\ receipt[c] # "none"
    /\ Finalize(c, NamedResult(receipt[c]))

\* Mutant: a preparation without a publication is taken for a failure.
RecoverGitGuess(c) ==
    /\ Kind[c] = "commit"
    /\ \/ pub[c] = "SUCCEEDED" /\ Finalize(c, "SUCCEEDED")
       \/ pub[c] \in {"none", "NEEDS_RECONCILIATION"} /\ Finalize(c, "FAILED")

\* _recover_git: a published commit, or a preparation that failed for good.
RecoverGit(c) ==
    /\ Kind[c] = "commit"
    /\ \/ pub[c] = "SUCCEEDED" /\ Finalize(c, "SUCCEEDED")
       \/ pub[c] = "none" /\ op[c] = "FAILED" /\ Finalize(c, "FAILED")

\* recover_one: a snapshot is cancelled, a write needs its completed intent;
\* whatever is not proved stays RUNNING and is reported unresolved.
RecoverOne(c) ==
    /\ row[c] = "RUNNING"
    /\ \/ Kind[c] = "snapshot" /\ Finalize(c, "CANCELLED")
       \/ Kind[c] \in {"write", "delete"} /\ op[c] = "SUCCEEDED" /\ Finalize(c, "SUCCEEDED")
       \/ RecoverNamed(c)
       \/ RecoverGit(c)
    /\ UNCHANGED <<control, op, pub, holder, receipt, worktree, callers, budget>>

----------------------------------------------------------------------------
(* The rest of the world.                                                  *)

\* The caller is cancelled; its completion is shielded and goes on, and those
\* of checks and snapshots are told (_await_committed_write and its on_cancel).
CancelCaller(p) ==
    /\ pc[p] \notin {"idle", "wait"} \cup Ended /\ ~ gone[p]
    /\ Kind[call[p]] \in {"check", "snapshot"}
    /\ gone' = [gone EXCEPT ![p] = TRUE]
    /\ UNCHANGED <<control, records, worktree, pc, result, told, budget>>

\* A lease runs out: its owner stalled, died or lost its renewals.
Lapse(c) ==
    /\ holder[c] # "none" /\ (pc[holder[c]] \in Ended \/ lapses < MaxLapses)
    /\ lapses' = IF pc[holder[c]] \in Ended THEN lapses ELSE lapses + 1
    /\ holder' = [holder EXCEPT ![c] = "none"]
    /\ UNCHANGED <<control, row, op, pub, receipt, worktree, callers, crashes, stops, edits>>

\* The worker process dies, with every completion in it.
Crash ==
    /\ crashes < MaxCrashes
    /\ crashes' = crashes + 1
    /\ pc' = [p \in Callers |-> IF pc[p] \in {"idle"} \cup Ended THEN pc[p] ELSE "dead"]
    /\ UNCHANGED <<control, records, worktree, result, gone, told, lapses, stops, edits>>

\* An operator's stop is accepted, and takes effect; or the run is resumed.
Control ==
    /\ \/ stops < MaxStops /\ run = "work" /\ ~ stopping
          /\ stopping' = TRUE /\ stops' = stops + 1 /\ UNCHANGED <<run, attempt>>
       \/ /\ stopping /\ stopping' = FALSE
          /\ run' \in {"held", "CANCELLED"} /\ UNCHANGED <<attempt, stops>>
       \/ run = "held" /\ run' \in {"work", "CANCELLED"} /\ UNCHANGED <<stopping, attempt, stops>>
       \/ run # "work" /\ attempt /\ attempt' = FALSE /\ UNCHANGED <<run, stopping, stops>>
    /\ UNCHANGED <<records, worktree, callers, lapses, crashes, edits>>

\* The worktree changes outside any call (a check writes files).
Edit ==
    /\ edits < MaxEdits
    /\ edits' = edits + 1 /\ files' = files + 1
    /\ UNCHANGED <<control, records, prepared, index, branch, done, callers, lapses, crashes, stops>>

----------------------------------------------------------------------------
Invoke(p) ==
    InvokeRepositoryWrite(p) \/ InvokeNamedCheck(p) \/ InvokeGitCommit(p) \/ InvokeSnapshot(p)
    \/ InvokeRead(p)

Proceed(p) ==
    \/ Watch(p)
    \/ ExecuteWrite(p) \/ WriteFile(p) \/ StoreWrite(p) \/ ObserveWrite(p) \/ CompleteRepositoryWrite(p)
    \/ Preflight(p) \/ RunCheck(p) \/ PersistReceipt(p) \/ SettleNamedCheck(p)
    \/ PrepareCommit(p) \/ FailPreparation(p) \/ AdmitPublication(p) \/ RenewPublication(p)
    \/ PublishCommit(p) \/ FinalizeGitCommit(p)
    \/ ReadSnapshot(p) \/ CompleteSnapshot(p)

Next ==
    \/ \E p \in Callers : Invoke(p) \/ Proceed(p) \/ CancelCaller(p)
    \/ \E c \in Calls : ReconcileIntent(c) \/ RecoverOne(c) \/ Lapse(c)
    \/ Crash \/ Control \/ Edit

Spec == Init /\ [][Next]_vars

\* Completions are scheduled and their adapters return, leases nobody renews
\* run out, and workers are restarted and recover before they take work.
\* The owner of the call has ended.
Abandoned(c) == holder[c] # "none" /\ pc[holder[c]] \in Ended

Fairness ==
    /\ \A p \in Callers : WF_vars(Proceed(p))
    /\ \A c \in Calls :
        /\ WF_vars(Abandoned(c) /\ Lapse(c))
        /\ WF_vars(ReconcileIntent(c)) /\ WF_vars(RecoverOne(c))

FairSpec == Spec /\ Fairness

----------------------------------------------------------------------------
(* Properties.                                                             *)

\* However often a call is presented, its completion stalls, dies or is
\* recovered, it writes, launches or commits once (tools.py 950, 1382, 1782).
EffectOnce == \A c \in Calls : done[c] =< 1

\* The row's verdict is true of the worktree: a success happened, a cancelled
\* or failed commit is not on the branch, a check that was cancelled before its
\* launch or denied did nothing (tools.py 2141, 1699; tool_recovery.py 346).
VerdictTrue ==
    \A c \in Calls :
        /\ row[c] = "SUCCEEDED" /\ Kind[c] \notin {"read", "snapshot"} => done[c] = 1
        /\ row[c] = "SUCCEEDED" /\ Kind[c] = "check" => receipt[c] = "passed"
        /\ row[c] \in {"FAILED", "CANCELLED"} /\ Kind[c] = "commit" => done[c] = 0
        /\ row[c] \in Terminal /\ receipt[c] = "unlaunched" => done[c] = 0
        /\ row[c] \in {"none", "DENIED"} => done[c] = 0

\* Once a call has its verdict the verdict stays, and no completion that was
\* left behind acts on the worktree under it any more
\* (tool_calls.py finalize; tools.py 2064, 1672).
VerdictFinal ==
    [][\A c \in Calls : row[c] \in Terminal => row'[c] = row[c] /\ done'[c] = done[c]]_vars

\* A commit has the parent and the tree its preparation was authorized for,
\* whatever was staged, edited or committed in between (tools/git.py 1380).
CommitIsPrepared ==
    \A i \in DOMAIN branch :
        LET b == branch[i] IN
        /\ b.tree = prepared[b.by].tree /\ b.parent = prepared[b.by].parent
        /\ pub[b.by] # "none"

\* What a caller was told is what the row says, through crashes, duplicates and
\* recoveries (tools.py 4119, 3469, 1744).
ToldIsRecorded ==
    \A p \in Callers : told[p] # "none" => row[call[p]] = told[p]

\* The budget counts every admitted call, also those presented together
\* (tools.py 2834, tool_calls.py 255).
BudgetHolds == Count =< Budget

\* After a stop is accepted no call is admitted and no publication either,
\* until the run is working again (tool_calls.py 269).
StopStopsTools ==
    [][stopping \/ run = "CANCELLED" =>
        \A c \in Calls :
            /\ row'[c] = "RUNNING" => row[c] = "RUNNING"
            /\ pub'[c] = "PENDING" => pub[c] = "PENDING"]_vars

\* A call that is presented again, stalled, abandoned or recovered acts at
\* most once and within the budget, and a commit is made of what was prepared
\* for it (ToolService, ControlledGit).
ToolsActOnce == TypeOK /\ EffectOnce /\ CommitIsPrepared /\ BudgetHolds

\* The verdict recorded of a call is true of its effect and final, a caller is
\* told what is recorded, and once a stop is accepted no new effect is
\* admitted.
VerdictsTrue == [](VerdictTrue /\ ToldIsRecorded) /\ VerdictFinal /\ StopStopsTools

\* Evidence of the call is retained: the commit on the branch, the file as
\* written, the check's receipt.
Evident(c) ==
    \/ Kind[c] = "write" /\ done[c] = 1
    \/ Kind[c] = "check" /\ receipt[c] # "none"
    \/ Kind[c] = "commit" /\ done[c] = 1
    \/ Kind[c] = "snapshot" /\ row[c] = "RUNNING"

\* An effect whose evidence is retained reaches the call's row, whoever
\* completes or recovers it (tool_recovery.py 753).
EvidenceSettles == []<>(\A c \in Calls : Evident(c) => row[c] \in Terminal)

\* Every presentation comes back (tools.py _await_committed_write).
PresentationsEnd ==
    []<>(\A p \in Callers : pc[p] \in {"idle"} \cup Ended)

=============================================================================
