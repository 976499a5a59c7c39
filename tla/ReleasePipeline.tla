--------------------------- MODULE ReleasePipeline ---------------------------
(***************************************************************************)
(* One run from its approved pull request to its merge: publication and    *)
(* reviewed pushes (application/services/release.py), monitoring           *)
(* (release_monitor.py), base updates (base_update.py), the merge gate     *)
(* (handlers/merge.py), the merge (merge.py) or merge queue                *)
(* (queue_admission.py, queue_observation.py), and the resume of a paused  *)
(* release (release_resume.py, monitor_resume.py, queue_resume.py).        *)
(*                                                                         *)
(* A delivery reads GitHub and writes to it outside any lock, and commits  *)
(* after it has fenced its command's lease, the run and the controls       *)
(* again.  A worker that lost its lease goes on until a fence stops it.    *)
(* What was sent may arrive late.  GitHub and other people act in between. *)
(* Commits and base revisions are numbered in the order they appear.       *)
(***************************************************************************)
EXTENDS Naturals, Sequences, FiniteSets

CONSTANTS
    Workers,
    Queued,      \* the base branch requires a merge queue
    Limit,       \* remote_remediation_limit
    MaxPoll,     \* bound: the run's duration ends by this poll
    MaxCommits, MaxBase, MaxOutside, MaxFaults, MaxStops  \* bounds

PipelineAssumption ==
    /\ Queued \in BOOLEAN
    /\ {Limit, MaxPoll, MaxCommits, MaxBase, MaxOutside, MaxFaults, MaxStops} \subseteq Nat
    /\ "none" \notin Workers

VARIABLES
    state, held, version, \* the run row: state, suspended_state, version
    stop,        \* a control accepted at this version and not yet executed
    fixes,       \* remote_remediation_count
    observed,    \* the last poll of a run.pr_observed event
    cmds,        \* outstanding normal commands of the run
    holder,      \* the worker with the live lease
    pc, del, step, msg, seen, \* [Workers -> a delivery: place, command, effects
                 \*   done, request of the current effect, what it read]
    intent,      \* [<<effect, key>> -> status and owner of the intent row]
    cand, cbase, \* the worktree: its commit and the base it stands on
    record,      \* the recorded pull request: head and base (0 before)
    gate,        \* the merge gate: its number, evidence and approval
    rhead, rbase, pr, checks, entry, merged, \* GitHub: branch, base, PR,
                 \*   checks of the head, merge queue entry, what was merged
    flying,      \* requests sent and not arrived
    commits, ours, expired, outside, faults, stops

runrow == <<state, held, version, stop, fixes, observed, gate, record>>
delivery == <<pc, del, step, msg, seen>>
tree == <<cand, cbase>>
github == <<rhead, rbase, pr, checks, entry, merged, commits, ours>>
budget == <<expired, outside, faults, stops>>
vars == <<runrow, cmds, holder, delivery, intent, tree, github, flying, budget>>

Effects == {"push", "create", "update", "adopt", "merge", "enqueue"}
EffectKeys == Effects \X (0..(MaxCommits + MaxPoll))
NoMsg == [eff |-> "none", key |-> 0, head |-> 0, from |-> 0, base |-> 0]
Nothing == [what |-> "none", base |-> 0]
NoCmd == [kind |-> "none", n |-> 0, v |-> 0, leased |-> FALSE, done |-> FALSE, left |-> 0]

\* The state in which a command is executed.
Phase(kind) ==
    CASE kind = "publish_pr" -> "PUBLISHING_PR"
      [] kind \in {"push_reviewed_pr", "monitor_pr"} -> "MONITORING_PR"
      [] kind \in {"update_base", "remediate_remote"} -> "REMEDIATING"
      [] kind = "validate" -> "VALIDATING"
      [] kind = "approve_merge" -> "AWAITING_MERGE_APPROVAL"
      [] kind \in {"merge_pr", "observe_merge_queue"} -> "MERGING"
      [] OTHER -> "none"

\* The external writes of a command, in order.
Plan(kind) ==
    CASE kind = "publish_pr" -> <<"push", "create">>
      [] kind = "push_reviewed_pr" -> <<"push">>
      [] kind = "update_base" -> <<"update", "adopt">>
      [] kind = "merge_pr" -> IF Queued THEN <<"enqueue">> ELSE <<"merge">>
      [] OTHER -> <<>>

Active == {"PUBLISHING_PR", "MONITORING_PR", "REMEDIATING", "VALIDATING", "MERGING"}
Stopped == {"PAUSED", "CANCELLED", "COMPLETED", "AWAITING_HUMAN_INTERVENTION"}

TypeOK ==
    /\ state \in Active \cup Stopped \cup {"AWAITING_MERGE_APPROVAL"}
    /\ held \in Active \cup {"AWAITING_MERGE_APPROVAL", "none"}
    /\ version \in Nat /\ stop \in {"none", "pause", "cancel"}
    /\ fixes \in 0..Limit /\ observed \in 0..MaxPoll
    /\ \A c \in cmds : Phase(c.kind) # "none" /\ c.v <= version + 1
    /\ holder \in Workers \cup {"none"}
    /\ pc \in [Workers -> {"idle", "start", "invoke", "sent", "ok", "no", "look", "uncertain",
                           "failed", "next", "read", "ack"}]
    /\ intent \in [EffectKeys -> [st : {"none", "pending", "succeeded", "merged", "failed", "uncertain"},
                                  owner : Workers \cup {"none"}, out : 0..MaxCommits]]
    /\ rhead \in 0..MaxCommits /\ cand \in 0..MaxCommits /\ rbase \in 0..MaxBase
    /\ pr \in {"none", "open", "closed", "merged"}

\* A command: its number (a poll, a target base), the version it expects, and
\* once its outcome is committed, the version that left.
Command(kind, n, v) ==
    [kind |-> kind, n |-> n, v |-> v, leased |-> FALSE, done |-> FALSE, left |-> 0]

\* The run at approve_pr's commit: commit 1 is the approved candidate.
Init ==
    /\ state = "PUBLISHING_PR" /\ held = "none" /\ version = 0 /\ stop = "none"
    /\ fixes = 0 /\ observed = 0
    /\ cmds = {Command("publish_pr", 0, 0)} /\ holder = "none"
    /\ pc = [w \in Workers |-> "idle"] /\ del = [w \in Workers |-> NoCmd]
    /\ step = [w \in Workers |-> 0] /\ msg = [w \in Workers |-> NoMsg]
    /\ seen = [w \in Workers |-> Nothing]
    /\ intent = [k \in EffectKeys |-> [st |-> "none", owner |-> "none", out |-> 0]]
    /\ cand = 1 /\ cbase = 0 /\ record = [head |-> 0, base |-> 0]
    /\ gate = [n |-> 0, head |-> 0, base |-> 0, valid |-> FALSE]
    /\ rhead = 0 /\ rbase = 0 /\ pr = "none" /\ checks = "pending" /\ entry = FALSE
    /\ merged = [head |-> 0, by |-> "none"]
    /\ flying = {} /\ commits = 1 /\ ours = {1}
    /\ expired = FALSE /\ outside = 0 /\ faults = 0 /\ stops = 0

----------------------------------------------------------------------------
(* Deliveries.                                                             *)

Goto(w, place) == pc' = [pc EXCEPT ![w] = place]

\* The worker is free again.
Forget(w) ==
    /\ Goto(w, "idle") /\ del' = [del EXCEPT ![w] = NoCmd] /\ step' = [step EXCEPT ![w] = 0]
    /\ msg' = [msg EXCEPT ![w] = NoMsg] /\ seen' = [seen EXCEPT ![w] = Nothing]

\* One normal lease per run: an unacknowledged delivery comes back first.
Claim(w) ==
    /\ pc[w] = "idle" /\ holder = "none" /\ state \notin {"PAUSED", "CANCELLED", "COMPLETED"}
    /\ \E c \in cmds :
         /\ c.leased \/ \A d \in cmds : ~ d.leased
         /\ c.kind \notin {"remediate_remote", "validate"}
         /\ cmds' = (cmds \ {c}) \cup {[c EXCEPT !.leased = TRUE]}
         /\ del' = [del EXCEPT ![w] = [c EXCEPT !.leased = TRUE]]
    /\ holder' = w /\ Goto(w, "start")
    /\ UNCHANGED <<runrow, step, msg, seen, intent, tree, github, flying, budget>>

\* _fence_command, the run unchanged, and no control pending.
Ours(w) ==
    /\ holder = w /\ state = Phase(del[w].kind) /\ version = del[w].v /\ stop = "none"

\* The delivery ends here; its lease runs out.
Abandon(w) ==
    /\ Forget(w)
    /\ holder' = IF holder = w THEN "none" ELSE holder
    /\ UNCHANGED <<runrow, cmds, intent, tree, github, flying, budget>>

\* Where a delivery meets its fence.
Fencing == {"start", "uncertain", "failed", "next", "read"}

\* CommandRecoveryRequired or CommandLeaseLost, before or after the effect; a
\* delivery whose command is settled is a replay.
Refused(w) == pc[w] \in Fencing /\ ~ Ours(w) /\ ~ del[w].done /\ Abandon(w)

\* The replay checks: the committed outcome is still the run's current state.
Replay(w) ==
    /\ pc[w] = "start" /\ del[w].done /\ holder = w
    /\ IF version = del[w].left
       THEN Goto(w, "ack") /\ UNCHANGED <<holder, del, step, msg, seen>>
       ELSE Forget(w) /\ holder' = "none"
    /\ UNCHANGED <<runrow, cmds, intent, tree, github, flying, budget>>

Ack(w) ==
    /\ pc[w] = "ack" /\ Forget(w)
    /\ IF holder = w THEN cmds' = {c \in cmds : ~ c.leased} /\ holder' = "none"
                     ELSE UNCHANGED <<cmds, holder>>
    /\ UNCHANGED <<runrow, intent, tree, github, flying, budget>>

\* One transaction: the command is settled and leaves its successors.
Settled(w, left, successors) ==
    /\ cmds' = (cmds \ {del[w]}) \cup {[del[w] EXCEPT !.done = TRUE, !.left = left]} \cup successors
    /\ Goto(w, "ack")
    /\ UNCHANGED <<holder, del, step, msg, seen>>

\* runs.transition to a target, leaving commands for it.
Transition(w, target, successors) ==
    /\ state' = target /\ version' = version + 1
    /\ Settled(w, version + 1, successors)
    /\ UNCHANGED <<held, stop>>

\* runs.intervene.
Intervene(w) == Transition(w, "AWAITING_HUMAN_INTERVENTION", {})

\* invalidate_merge_gate.
InvalidateMergeGate == gate' = [gate EXCEPT !.valid = FALSE]

----------------------------------------------------------------------------
(* Effects: intent, request, outcome (release.py _effect, base_update.py   *)
(* _effect, and the adapters under release/).                              *)

Effect(w) == Plan(del[w].kind)[step[w] + 1]
HasEffect(w) == step[w] < Len(Plan(del[w].kind))
Row(w) == <<msg[w].eff, msg[w].key>>

\* The request an adapter freezes; its digest is the intent's key.
Frozen(eff, key, head, from, base) ==
    [eff |-> eff, key |-> key, head |-> head, from |-> from, base |-> base]

\* A first push moves no branch, a reviewed push moves the recorded head.
PushRequest == Frozen("push", cand, cand, 0, cbase)
ReviewedPushRequest == Frozen("push", cand, cand, record.head, record.base)
CreateRequest == Frozen("create", cand, cand, cand, cbase)
UpdateRequest(target) == Frozen("update", fixes, record.head, record.head, target)
AdoptRequest(target) == Frozen("adopt", fixes, intent[<<"update", fixes>>].out, record.head, target)
MergeRequest(eff) == Frozen(eff, gate.n, gate.head, gate.head, gate.base)

Request(w) ==
    LET e == Effect(w) IN
    CASE e = "push" -> IF record.head = 0 THEN PushRequest ELSE ReviewedPushRequest
      [] e = "create" -> CreateRequest
      [] e = "update" -> UpdateRequest(del[w].n)
      [] e = "adopt" -> AdoptRequest(del[w].n)
      [] e \in {"merge", "enqueue"} -> MergeRequest(e)

\* MergeController.preflight against GitHub.
FreshGate == pr = "open" /\ rhead = gate.head /\ rbase = gate.base /\ checks = "pass" /\ gate.valid

\* _current: the approved or reviewed candidate still stands on the base.
EvidenceCurrent(r) == rbase = r.base

\* validate_for_base_update, and the duration left to the run.
UpdateAllowed(r) == ~ expired /\ (intent[<<r.eff, r.key>>].st = "none" => rbase = r.base)

\* What is validated before an intent is written.  A merge and a base update
\* are validated here only the first time.
Admissible(w, r) ==
    CASE r.eff \in {"push", "create"} -> EvidenceCurrent(r)
      [] r.eff = "update" -> UpdateAllowed(r)
      [] r.eff = "adopt" -> ~ expired
      [] r.eff \in {"merge", "enqueue"} -> intent[<<r.eff, r.key>>].st = "none" => FreshGate

\* A row: status, execution owner, and for a base update the head it made.
SetIntent(k, st, owner) ==
    intent' = [intent EXCEPT ![k] = [st |-> st, owner |-> owner,
                                     out |-> IF k[1] = "update" /\ st = "succeeded" THEN rhead ELSE 0]]

\* operations.begin and execute_admitted: a new row is invoked, a settled one
\* answers, any other is only observed.
Admit(w) ==
    /\ pc[w] \in {"start", "next"} /\ ~ del[w].done /\ HasEffect(w) /\ Ours(w)
    /\ LET r == Request(w)
           k == <<r.eff, r.key>>
       IN /\ Admissible(w, r)
          /\ msg' = [msg EXCEPT ![w] = r]
          /\ CASE intent[k].st = "none" -> SetIntent(k, "pending", w) /\ Goto(w, "invoke") /\ UNCHANGED step
               [] intent[k].st \in {"pending", "uncertain"} ->
                      SetIntent(k, "pending", w) /\ Goto(w, "look") /\ UNCHANGED step
               [] intent[k].st \in {"succeeded", "merged"} ->
                      /\ step' = [step EXCEPT ![w] = @ + 1] /\ Goto(w, "next") /\ UNCHANGED intent
               [] intent[k].st = "failed" -> Goto(w, "failed") /\ UNCHANGED <<intent, step>>
    /\ UNCHANGED <<runrow, cmds, holder, del, seen, tree, github, flying, budget>>

\* The outcome is written by the owner of the row.
Record(w, st, place) ==
    IF intent[Row(w)].owner = w
    THEN /\ SetIntent(Row(w), st, "none") /\ Goto(w, place)
         /\ step' = [step EXCEPT ![w] = IF place = "next" THEN @ + 1 ELSE @]
         /\ UNCHANGED <<runrow, cmds, holder, del, msg, seen, tree, github, flying, budget>>
    ELSE Abandon(w)

\* What an adapter's invoke reads before it writes.
PushPreflight(r) == rbase = r.base /\ (r.from # 0 => pr = "open" /\ rhead = r.from)
CreatePreflight(r) == rhead = r.head /\ rbase = r.base
UpdatePreflight(r) == pr = "open" /\ rhead = r.from /\ rbase = r.base

Preflight(w) ==
    LET r == msg[w] IN
    CASE r.eff = "push" -> PushPreflight(r)
      [] r.eff = "create" -> CreatePreflight(r)
      [] r.eff = "update" -> UpdatePreflight(r)
      [] r.eff = "adopt" -> TRUE
      [] r.eff \in {"merge", "enqueue"} -> FreshGate

Invoke(w) ==
    /\ pc[w] = "invoke" /\ Preflight(w) /\ (msg[w].eff \in {"merge", "enqueue"} => Ours(w))
    /\ flying' = flying \cup {msg[w]} /\ Goto(w, "sent")
    /\ UNCHANGED <<runrow, cmds, holder, del, step, msg, seen, intent, tree, github, budget>>

\* A merge that fails its preflight is known not to have been sent; one that
\* meets a control, and any other request, is left for reconciliation.
InvokeRejected(w) ==
    /\ pc[w] = "invoke"
    /\ \/ /\ msg[w].eff \in {"merge", "enqueue"} /\ Ours(w) /\ ~ FreshGate
          /\ Record(w, "failed", "failed")
       \/ /\ msg[w].eff \in {"merge", "enqueue"} /\ ~ Ours(w)
          /\ Record(w, "uncertain", "uncertain")
       \/ /\ msg[w].eff \notin {"merge", "enqueue"} /\ ~ Preflight(w)
          /\ Record(w, "uncertain", "uncertain")

TimesOutDone(w) == pc[w] = "sent" /\ Record(w, "succeeded", "next")

\* No answer in time.
TimesOut(w) == pc[w] = "sent" /\ Record(w, "uncertain", "uncertain")

\* What an adapter's reconcile accepts as its effect.
PushPresent(r) == rhead = r.head /\ (r.from # 0 => pr = "open" /\ rbase = r.base)
CreatePresent(r) == pr = "open" /\ rhead = r.head /\ rbase = r.base
UpdatePresent(r) == pr = "open" /\ rhead # r.from /\ rbase = r.base
AdoptPresent(r) == cand = r.head
MergePresent(r) == pr = "merged" /\ merged.head = r.head
EntryPresent(r) == (entry /\ rhead = r.head) \/ MergePresent(r)

Present(r) ==
    CASE r.eff = "push" -> PushPresent(r)
      [] r.eff = "create" -> CreatePresent(r)
      [] r.eff = "update" -> UpdatePresent(r)
      [] r.eff = "adopt" -> AdoptPresent(r)
      [] r.eff = "merge" -> MergePresent(r)
      [] r.eff = "enqueue" -> EntryPresent(r)

\* GitHub or Git answered.
Answered(w) ==
    \/ /\ pc[w] = "ok" /\ (msg[w].eff \in {"push", "update"} => Present(msg[w]))
       /\ Record(w, "succeeded", "next")
    \/ /\ pc[w] = "ok" /\ msg[w].eff \in {"push", "update"} /\ ~ Present(msg[w])
       /\ Record(w, "uncertain", "uncertain")
    \/ /\ pc[w] = "no" /\ msg[w].eff \in {"merge", "enqueue"}
       /\ Record(w, "failed", "failed")
    \/ /\ pc[w] = "no" /\ msg[w].eff \notin {"merge", "enqueue"}
       /\ Record(w, "uncertain", "uncertain")

\* Reconcile only observes; not to see the effect proves nothing.
Look(w) ==
    /\ pc[w] = "look"
    /\ IF Present(msg[w])
       THEN Record(w, IF msg[w].eff = "enqueue" /\ ~ entry THEN "merged" ELSE "succeeded", "next")
       ELSE Record(w, "uncertain", "uncertain")

\* _intervene_unresolved, _effect's handler, _settle_intervention.
Unresolved(w) ==
    /\ pc[w] = "uncertain" /\ Ours(w)
    /\ Intervene(w)
    /\ IF del[w].kind = "merge_pr" THEN InvalidateMergeGate ELSE UNCHANGED gate
    /\ UNCHANGED <<fixes, observed, record, intent, tree, github, flying, budget>>

\* _reject_evidence, _intervene_evidence: the evidence behind a write, or the
\* duration left for it, is gone before it is admitted.
RejectEvidence(w) ==
    /\ pc[w] \in {"start", "next"} /\ ~ del[w].done /\ HasEffect(w) /\ Ours(w)
    /\ Effect(w) \notin {"merge", "enqueue"} /\ ~ Admissible(w, Request(w))
    /\ Intervene(w)
    /\ UNCHANGED <<fixes, observed, record, gate, intent, tree, github, flying, budget>>

\* The merge is known not to have happened: _reject_without_merge watches the
\* PR again, the queue's _settle_intervention stops.
RejectMerge(w) ==
    /\ ~ del[w].done /\ Ours(w)
    /\ \/ pc[w] = "failed"
       \/ pc[w] = "start" /\ HasEffect(w) /\ Effect(w) \in {"merge", "enqueue"} /\ ~ Admissible(w, Request(w))
    /\ IF Queued THEN Intervene(w)
       ELSE Transition(w, "MONITORING_PR", {Command("monitor_pr", observed + 1, version + 1)})
    /\ IF Queued THEN SetIntent(<<"enqueue", gate.n>>, "failed", "none") ELSE UNCHANGED intent
    /\ InvalidateMergeGate
    /\ UNCHANGED <<fixes, observed, record, tree, github, flying, budget>>

----------------------------------------------------------------------------
(* What a delivery commits when its effects are done.                      *)

EffectsDone(w, kind) ==
    /\ pc[w] = "next" /\ del[w].kind = kind /\ ~ HasEffect(w) /\ Ours(w)

\* _publish: record_publication and the first poll.
Published(w) ==
    /\ EffectsDone(w, "publish_pr")
    /\ record' = [head |-> msg[w].head, base |-> msg[w].base]
    /\ Transition(w, "MONITORING_PR", {Command("monitor_pr", 1, version + 1)})
    /\ UNCHANGED <<fixes, observed, gate, intent, tree, github, flying, budget>>

\* _push_reviewed: the candidate is validated once more.
ReviewedPushed(w) ==
    /\ EffectsDone(w, "push_reviewed_pr")
    /\ IF rbase = record.base
       THEN /\ record' = [record EXCEPT !.head = msg[w].head]
            /\ Settled(w, version, {Command("monitor_pr", observed + 1, version)})
            /\ UNCHANGED <<state, version, held, stop>>
       ELSE Intervene(w) /\ UNCHANGED record
    /\ UNCHANGED <<fixes, observed, gate, intent, tree, github, flying, budget>>

\* BaseUpdateService.execute: record_base_update, then validation.
BaseUpdated(w) ==
    /\ EffectsDone(w, "update_base")
    /\ record' = [head |-> msg[w].head, base |-> msg[w].base]
    /\ Transition(w, "VALIDATING", {Command("validate", 0, version + 1)})
    /\ UNCHANGED <<fixes, observed, gate, intent, tree, github, flying, budget>>

\* MergeService, and an admission that was found merged.
Merged(w) ==
    /\ EffectsDone(w, "merge_pr")
    /\ ~ Queued \/ intent[Row(w)].st = "merged"
    /\ Transition(w, "COMPLETED", {})
    /\ UNCHANGED <<fixes, observed, gate, record, intent, tree, github, flying, budget>>

\* QueueAdmissionService: the run stays, the entry is watched.
Enqueued(w) ==
    /\ EffectsDone(w, "merge_pr") /\ Queued /\ intent[Row(w)].st = "succeeded"
    /\ Settled(w, version, {Command("observe_merge_queue", 1, version)})
    /\ UNCHANGED <<runrow, intent, tree, github, flying, budget>>

----------------------------------------------------------------------------
(* Deliveries that only read.                                              *)

Late(w) == expired \/ del[w].n >= MaxPoll

\* The read is kept; what is done about it is decided behind the next fence.
Reads(w, kind, what) ==
    /\ pc[w] = "start" /\ del[w].kind = kind /\ ~ del[w].done /\ Ours(w)
    /\ seen' = [seen EXCEPT ![w] = [what |-> what, base |-> rbase]] /\ Goto(w, "read")
    /\ UNCHANGED <<runrow, cmds, holder, del, step, msg, intent, tree, github, flying, budget>>

\* ReleaseMonitor's reads and assess_checks.
PrVerdict ==
    IF pr # "open" \/ rhead # record.head \/ cand # record.head THEN "intervene"
    ELSE IF rbase # record.base THEN "base_advanced"
    ELSE CASE checks = "pending" -> "pending" [] checks = "pass" -> "ready" [] checks = "fail" -> "failed"

Monitor(w) ==
    \/ Late(w) /\ Reads(w, "monitor_pr", "intervene")
    \/ ~ Late(w) /\ Reads(w, "monitor_pr", PrVerdict)
    \/ ~ Late(w) /\ \E error \in {"pending", "intervene"} : Reads(w, "monitor_pr", error)

\* begin_remote_remediation.
Remediate(w, kind, n) ==
    IF fixes < Limit
    THEN /\ fixes' = fixes + 1
         /\ Transition(w, "REMEDIATING", {Command(kind, n, version + 1)})
    ELSE Intervene(w) /\ UNCHANGED fixes

Observed(w) ==
    /\ pc[w] = "read" /\ del[w].kind = "monitor_pr" /\ Ours(w)
    /\ observed' = del[w].n
    /\ \/ /\ seen[w].what = "pending" /\ ~ Late(w)
          /\ Settled(w, version, {Command("monitor_pr", del[w].n + 1, version)})
          /\ UNCHANGED <<state, version, held, stop, fixes, gate>>
       \/ /\ seen[w].what = "ready" /\ ~ Late(w)
          /\ gate' = [n |-> gate.n + 1, head |-> record.head, base |-> record.base, valid |-> TRUE]
          /\ Transition(w, "AWAITING_MERGE_APPROVAL", {}) /\ UNCHANGED fixes
       \/ seen[w].what = "failed" /\ ~ Late(w) /\ Remediate(w, "remediate_remote", 0) /\ UNCHANGED gate
       \/ /\ seen[w].what = "base_advanced" /\ ~ Late(w) /\ UNCHANGED gate
          /\ Remediate(w, "update_base", seen[w].base)
       \/ (seen[w].what = "intervene" \/ Late(w)) /\ Intervene(w) /\ UNCHANGED <<fixes, gate>>
    /\ UNCHANGED <<record, intent, tree, github, flying, budget>>

\* ApproveMergeHandler: the gate's evidence against GitHub; an error is stale.
CheckGate(w) ==
    \/ FreshGate /\ Reads(w, "approve_merge", "ready")
    \/ Reads(w, "approve_merge", "stale")

GateDecided(w) ==
    /\ pc[w] = "read" /\ del[w].kind = "approve_merge" /\ Ours(w)
    /\ IF seen[w].what = "ready"
       THEN Transition(w, "MERGING", {Command("merge_pr", 0, version + 1)}) /\ UNCHANGED gate
       ELSE /\ Transition(w, "MONITORING_PR", {Command("monitor_pr", observed + 1, version + 1)})
            /\ InvalidateMergeGate
    /\ UNCHANGED <<fixes, observed, record, intent, tree, github, flying, budget>>

\* QueueObservationService: merged first, then every reason to stop waiting.
QueueVerdict(w) ==
    IF pr = "merged" /\ merged.head = gate.head THEN "merged"
    ELSE IF ~ gate.valid \/ pr # "open" \/ rhead # gate.head \/ ~ entry \/ Late(w) THEN "intervene"
    ELSE "wait"

Watch(w) ==
    \/ Reads(w, "observe_merge_queue", QueueVerdict(w))
    \/ ~ Late(w) /\ Reads(w, "observe_merge_queue", "wait")
    \/ Reads(w, "observe_merge_queue", "intervene")

Watched(w) ==
    /\ pc[w] = "read" /\ del[w].kind = "observe_merge_queue" /\ Ours(w)
    /\ \/ seen[w].what = "merged" /\ Transition(w, "COMPLETED", {}) /\ UNCHANGED gate
       \/ seen[w].what = "intervene" /\ Intervene(w) /\ InvalidateMergeGate
       \/ /\ seen[w].what = "wait" /\ UNCHANGED <<state, version, held, stop, gate>>
          /\ Settled(w, version, {Command("observe_merge_queue", del[w].n + 1, version)})
    /\ UNCHANGED <<fixes, observed, record, intent, tree, github, flying, budget>>

----------------------------------------------------------------------------
(* The run's other stages, its operator, and its controls.                 *)

\* The developer's remediation is reviewed: a new commit to push.
Reworked ==
    /\ state = "REMEDIATING" /\ stop = "none" /\ commits < MaxCommits
    /\ \E c \in cmds :
         /\ c.kind = "remediate_remote" /\ \A d \in cmds : ~ d.leased
         /\ cmds' = (cmds \ {c}) \cup {Command("push_reviewed_pr", 0, version + 1)}
    /\ commits' = commits + 1 /\ ours' = ours \cup {commits + 1} /\ cand' = commits + 1
    /\ state' = "MONITORING_PR" /\ version' = version + 1
    /\ UNCHANGED <<held, stop, fixes, observed, gate, record, holder, delivery, intent, cbase,
                   rhead, rbase, pr, checks, entry, merged, flying, budget>>

\* An adopted base passes validation and review: review_decision.py watches
\* the PR again.
BaseReviewed ==
    /\ state = "VALIDATING" /\ stop = "none"
    /\ \E c \in cmds :
         /\ c.kind = "validate" /\ \A d \in cmds : ~ d.leased
         /\ cmds' = (cmds \ {c}) \cup {Command("monitor_pr", observed + 1, version + 1)}
    /\ state' = "MONITORING_PR" /\ version' = version + 1
    /\ UNCHANGED <<held, stop, fixes, observed, gate, record, holder, delivery, intent, tree, github,
                   flying, budget>>

\* The operator approves the gate (module Approvals).
Approve ==
    /\ state = "AWAITING_MERGE_APPROVAL" /\ \A c \in cmds : c.kind # "approve_merge"
    /\ cmds' = cmds \cup {Command("approve_merge", 0, version)}
    /\ UNCHANGED <<runrow, holder, delivery, intent, tree, github, flying, budget>>

\* A control is accepted at the current version; a merge is not cancelled.
RequestStop(kind) ==
    /\ stop = "none" /\ stops < MaxStops /\ state \notin Stopped
    /\ kind = "cancel" => state # "MERGING"
    /\ stop' = kind /\ stops' = stops + 1
    /\ UNCHANGED <<state, held, version, fixes, observed, gate, record, cmds, holder, delivery, intent,
                   tree, github, flying, expired, outside, faults>>

\* The control lane executes it, beside any delivery.
Control ==
    /\ stop # "none"
    /\ state' = IF stop = "pause" THEN "PAUSED" ELSE "CANCELLED"
    /\ held' = IF stop = "pause" THEN state ELSE "none"
    /\ version' = version + 1 /\ stop' = "none"
    /\ UNCHANGED <<fixes, observed, gate, record, cmds, holder, delivery, intent, tree, github, flying,
                   budget>>

\* What resume acknowledges: deliveries whose committed outcome the pause
\* found as the run's state.
CommittedBeforePause(c) == c.done /\ c.left = version - 1
SettlesPublished(c) == c.kind = "publish_pr" /\ CommittedBeforePause(c)
SettlesReviewedPush(c) == c.kind = "push_reviewed_pr" /\ CommittedBeforePause(c)
SettlesBaseUpdate(c) == c.kind = "update_base" /\ CommittedBeforePause(c)
SettlesMonitor(c) == c.kind = "monitor_pr" /\ CommittedBeforePause(c)
SettlesAdmission(c) == c.kind = "merge_pr" /\ held = "MERGING" /\ CommittedBeforePause(c)

Acknowledged(c) ==
    \/ SettlesPublished(c) \/ SettlesReviewedPush(c) \/ SettlesBaseUpdate(c)
    \/ SettlesMonitor(c) \/ SettlesAdmission(c)

Unsettled == {c \in cmds : ~ Acknowledged(c)}

\* prove_quiescent, as far as effects go.
Quiescent == \A k \in EffectKeys : intent[k].st \notin {"pending", "uncertain"}

\* The one command of the stopped stage, unsettled.
StoppedStage(c) == Unsettled = {c} /\ ~ c.done /\ c.v = version - 1 /\ Phase(c.kind) = held

\* verify_queue_resume, resume_release, resume_monitoring, and the reconciler
\* for the run's other stages.
QueueContinues(c) ==
    c.kind = "observe_merge_queue" => intent[<<"enqueue", gate.n>>].st = "succeeded"
ReleaseContinues(c) ==
    /\ c.kind \in {"publish_pr", "push_reviewed_pr", "update_base", "merge_pr", "observe_merge_queue"}
    /\ StoppedStage(c) /\ (held = "MERGING" => gate.valid) /\ QueueContinues(c)
MonitoringContinues(c) == c.kind = "monitor_pr" /\ StoppedStage(c)
StageContinues(c) == c.kind \in {"remediate_remote", "validate"} /\ StoppedStage(c)

\* settle_paused_approvals: stale approvals of the gate are retired.
GateContinues == \A c \in Unsettled : c.kind = "approve_merge" /\ ~ c.done

ResumeAllowed ==
    /\ state = "PAUSED" /\ holder = "none" /\ Quiescent
    /\ IF held = "AWAITING_MERGE_APPROVAL" THEN GateContinues
       ELSE \E c \in cmds : ReleaseContinues(c) \/ MonitoringContinues(c) \/ StageContinues(c)

Resume ==
    /\ ResumeAllowed
    /\ cmds' = IF held = "AWAITING_MERGE_APPROVAL" THEN {}
               ELSE {Command(c.kind, c.n, version + 1) : c \in Unsettled}
    /\ state' = held /\ held' = "none" /\ version' = version + 1
    /\ UNCHANGED <<stop, fixes, observed, gate, record, holder, delivery, intent, tree, github, flying,
                   budget>>

----------------------------------------------------------------------------
(* Faults and GitHub.                                                      *)

\* A lease runs out under a worker that goes on.
Expire ==
    /\ holder # "none" /\ faults < MaxFaults
    /\ holder' = "none" /\ faults' = faults + 1
    /\ UNCHANGED <<runrow, cmds, delivery, intent, tree, github, flying, expired, outside, stops>>

Crash(w) ==
    /\ pc[w] # "idle" /\ faults < MaxFaults
    /\ Forget(w) /\ faults' = faults + 1
    /\ holder' = IF holder = w THEN "none" ELSE holder
    /\ UNCHANGED <<runrow, cmds, intent, tree, github, flying, expired, outside, stops>>

\* The remote side's own precondition: a fast-forward, an expected head, and
\* for a merge the strict protection of its base and checks.
Accepts(r) ==
    CASE r.eff = "push" -> rhead = r.from
      [] r.eff = "create" -> pr = "none" /\ rhead = r.head /\ rbase = r.base
      [] r.eff = "update" -> pr = "open" /\ rhead = r.from /\ commits < MaxCommits
      [] r.eff = "adopt" -> r.head \in ours
      [] r.eff = "merge" -> pr = "open" /\ rhead = r.head /\ rbase = r.base /\ checks = "pass"
      [] r.eff = "enqueue" -> pr = "open" /\ rhead = r.head /\ ~ entry

Apply(r) ==
    /\ CASE r.eff = "push" -> rhead' = r.head /\ checks' = "pending" /\ UNCHANGED <<pr, entry, merged, commits, ours>>
         [] r.eff = "create" -> pr' = "open" /\ UNCHANGED <<rhead, checks, entry, merged, commits, ours>>
         [] r.eff = "update" ->
              /\ rhead' = commits + 1 /\ commits' = commits + 1 /\ ours' = ours \cup {commits + 1}
              /\ checks' = "pending" /\ UNCHANGED <<pr, entry, merged>>
         [] r.eff = "merge" ->
              /\ pr' = "merged" /\ merged' = [head |-> r.head, by |-> "forge"]
              /\ UNCHANGED <<rhead, checks, entry, commits, ours>>
         [] r.eff = "enqueue" -> entry' = TRUE /\ UNCHANGED <<rhead, pr, checks, merged, commits, ours>>
         [] r.eff = "adopt" -> UNCHANGED <<rhead, pr, checks, entry, merged, commits, ours>>
    /\ IF r.eff = "adopt" THEN cand' = r.head /\ cbase' = r.base ELSE UNCHANGED tree
    /\ UNCHANGED rbase

Arrives(r) ==
    /\ r \in flying /\ flying' = flying \ {r}
    /\ IF Accepts(r) THEN Apply(r) ELSE UNCHANGED <<github, tree>>
    /\ pc' = [w \in Workers |-> IF pc[w] = "sent" /\ msg[w] = r
                                THEN IF Accepts(r) THEN "ok" ELSE "no" ELSE pc[w]]
    /\ UNCHANGED <<runrow, cmds, holder, del, step, msg, seen, intent, budget>>

ChecksEnd ==
    /\ pr = "open" /\ checks = "pending" /\ checks' \in {"pass", "fail"}
    /\ UNCHANGED <<runrow, cmds, holder, delivery, intent, tree, rhead, rbase, pr, entry, merged, commits,
                   ours, flying, budget>>

BaseMoves ==
    /\ rbase < MaxBase /\ pr # "merged" /\ rbase' = rbase + 1
    /\ UNCHANGED <<runrow, cmds, holder, delivery, intent, tree, rhead, pr, checks, entry, merged, commits,
                   ours, flying, budget>>

\* Someone else pushes to the branch, closes the PR or merges it.
Outsider ==
    /\ pr = "open" /\ outside < MaxOutside /\ outside' = outside + 1
    /\ \/ /\ commits < MaxCommits /\ rhead' = commits + 1 /\ commits' = commits + 1
          /\ checks' = "pending" /\ entry' = FALSE /\ UNCHANGED <<pr, merged>>
       \/ pr' = "closed" /\ entry' = FALSE /\ UNCHANGED <<rhead, commits, checks, merged>>
       \/ /\ pr' = "merged" /\ merged' = [head |-> rhead, by |-> "outsider"]
          /\ entry' = FALSE /\ UNCHANGED <<rhead, commits, checks>>
    /\ UNCHANGED <<runrow, cmds, holder, delivery, intent, tree, rbase, ours, flying, expired, faults, stops>>

\* The queue merges what was admitted, or evicts it.
QueueActs ==
    /\ entry /\ pr = "open" /\ entry' = FALSE
    /\ \/ pr' = "merged" /\ merged' = [head |-> rhead, by |-> "forge"]
       \/ UNCHANGED <<pr, merged>>
    /\ UNCHANGED <<runrow, cmds, holder, delivery, intent, tree, rhead, rbase, checks, commits, ours, flying,
                   budget>>

Deadline ==
    /\ ~ expired /\ expired' = TRUE
    /\ UNCHANGED <<runrow, cmds, holder, delivery, intent, tree, github, flying, outside, faults, stops>>

----------------------------------------------------------------------------

Deliver(w) ==
    \/ Refused(w) \/ Replay(w) \/ Ack(w)
    \/ Admit(w) \/ Invoke(w) \/ InvokeRejected(w) \/ TimesOut(w) \/ Answered(w) \/ Look(w)
    \/ Unresolved(w) \/ RejectEvidence(w) \/ RejectMerge(w)
    \/ Published(w) \/ ReviewedPushed(w) \/ BaseUpdated(w) \/ Merged(w) \/ Enqueued(w)
    \/ Monitor(w) \/ Observed(w) \/ CheckGate(w) \/ GateDecided(w) \/ Watch(w) \/ Watched(w)

Next ==
    \/ \E w \in Workers : Claim(w) \/ Deliver(w) \/ Crash(w)
    \/ Reworked \/ BaseReviewed \/ Approve \/ Control \/ Resume \/ Expire
    \/ \E kind \in {"pause", "cancel"} : RequestStop(kind)
    \/ \E r \in flying : Arrives(r)
    \/ ChecksEnd \/ BaseMoves \/ Outsider \/ QueueActs \/ Deadline

Spec == Init /\ [][Next]_vars

\* Workers poll and finish, controls are executed.
Fairness ==
    /\ WF_vars(Control)
    /\ \A w \in Workers : WF_vars(Claim(w)) /\ WF_vars(Deliver(w))

FairSpec == Spec /\ Fairness

----------------------------------------------------------------------------
(* Properties.                                                             *)

\* While a stage of the release runs, exactly one unsettled command drives it,
\* at the run's version: every commit of a handler leaves one and only one.
Driven ==
    /\ state \in Active =>
         \E c \in cmds : /\ {d \in cmds : ~ d.done} = {c}
                          /\ c.v = version /\ Phase(c.kind) = state
    /\ state = "AWAITING_MERGE_APPROVAL" =>
         \A c \in cmds : ~ c.done => c.kind = "approve_merge" /\ c.v = version

\* A poll that waits is the successor of the last one observed: the causal
\* chain monitor_pr and the enqueuers' max(poll) + 1 rely on.
PollChain == \A c \in cmds : c.kind = "monitor_pr" /\ ~ c.done => c.n = observed + 1

\* Where the run may be once a request of this kind is on its way.
Home(r) ==
    LET phases == {Phase(kind) : kind \in {k \in {"publish_pr", "push_reviewed_pr", "update_base", "merge_pr"} :
                                             \E i \in 1..Len(Plan(k)) : Plan(k)[i] = r.eff}}
    IN \/ state \in phases \cup {"AWAITING_HUMAN_INTERVENTION", "CANCELLED"}
       \/ state = "PAUSED" /\ held \in phases

\* No write that GitHub would still accept is on its way when the run has gone
\* on to another stage, whatever was lost, timed out, paused or taken over.
NothingInFlight == \A r \in flying : Accepts(r) => Home(r)

\* A merge Forge caused is never forgotten: the run is still merging, has
\* completed, or waits for a human.
MergeNeverForgotten ==
    pr = "merged" /\ merged.by = "forge" =>
        \/ state \in {"MERGING", "COMPLETED", "AWAITING_HUMAN_INTERVENTION"}
        \/ state = "PAUSED" /\ held = "MERGING"

\* A run completes only when GitHub has merged the head its approval names.
CompletedAsApproved ==
    state = "COMPLETED" => pr = "merged" /\ merged.head = gate.head /\ gate.valid

\* A merge or admission is sent only for an approval that stands, with no
\* control accepted before it.
SentWithAuthority ==
    [][\A r \in flying' \ flying :
         r.eff \in {"merge", "enqueue"} => state = "MERGING" /\ stop = "none" /\ gate.valid /\ r.head = gate.head]_vars

\* A paused release whose effects are resolved and whose leases are over can
\* be resumed, also when a delivery committed and was never acknowledged.
ResumeNeverStuck ==
    /\ state = "PAUSED" /\ holder = "none" /\ Quiescent
    /\ \A c \in cmds : c.done => c.kind \notin {"approve_merge", "observe_merge_queue"}
                                  /\ (c.kind = "merge_pr" => held = "MERGING")
    => ResumeAllowed

\* Polling ends: by a gate, a repair, an intervention or a control.
MonitoringEnds == []<>(state # "MONITORING_PR")

=============================================================================
