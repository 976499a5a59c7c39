---------------------------- MODULE PrimaryDecisions ----------------------------
(* How the retained decisions of a subscription run are applied: the primary's   *)
(* delegations, waits, reassignments, scope responses, acceptances and review    *)
(* selections, the workers' handoffs and scope requests, operator feedback to    *)
(* both, and operator recovery of a decision that cannot be applied              *)
(* (subscription_decisions.py, subscription_feedback.py,                         *)
(* subscription_reassignment.py, subscription_recovery.py and the wake rules of  *)
(* scheduling.py).  Every action is one database transaction under the lock of   *)
(* the run row.  Leases, effects and stops of running tasks are the subject of   *)
(* SubscriptionTasks; here an attempt is one claim, one settlement and, when it  *)
(* returned a decision, one application.                                         *)
EXTENDS Naturals, FiniteSets

CONSTANTS
    Primary, Workers, Reviewer,     \* the tasks of the run
    Deps,           \* [Workers -> the workers each one depends on]
    Budget,         \* [AllTasks -> provider attempts]
    MaxRepairs,     \* [AllTasks -> repairs]
    Delays,         \* delayed retries before a failing application needs attention
    Kinds,          \* decisions the provider may return in a run
    Faults,         \* transient application failures and failed attempts
    Operator,       \* interventions an operator may make
    MaxFeedback, MaxSteer, MaxStops     \* bounds on operator interventions

AllTasks == {Primary, Reviewer} \cup Workers
Children == Workers \cup {Reviewer}
PrimaryKinds == {"delegate", "wait", "reassign", "scope_response", "accept_task",
                 "accept", "review", "forward", "invalid"}
WorkerKinds == {"handoff", "bad_handoff", "scope_request"}
FaultKinds == {"stumble", "fail", "quota", "unlaunched", "observation", "mismatch"}
OperatorKinds == {"feedback", "steer", "pause", "cancel", "retry", "reject"}

DecisionAssumption ==
    /\ Primary \notin Workers /\ Reviewer \notin Workers /\ Primary # Reviewer
    /\ IsFiniteSet(Workers)
    /\ Deps \in [Workers -> SUBSET Workers]
    /\ Budget \in [AllTasks -> Nat] /\ MaxRepairs \in [AllTasks -> Nat]
    /\ Delays \in Nat
    /\ Kinds \subseteq PrimaryKinds \cup WorkerKinds
    /\ Faults \subseteq FaultKinds /\ Operator \subseteq OperatorKinds
    /\ MaxFeedback \in Nat /\ MaxSteer \in Nat /\ MaxStops \in Nat

VARIABLES
    st,         \* [AllTasks -> scheduled state]
    used, rep,  \* [AllTasks -> provider attempts and repairs spent]
    disp,       \* [AllTasks -> disposition of the latest attempt's result]
    dec,        \* [AllTasks -> decision of the latest attempt: kind and targets]
    turn,       \* [AllTasks -> context the latest attempt was given]
    fresh,      \* children unchanged since the primary's context was built
    older,      \* children whose latest attempt precedes the candidate epoch
    since,      \* children claimed since the primary's last wait was applied
    accepted,   \* workers whose result the primary accepted
    cand,       \* candidate barrier: open, prepared or selected
    stop, idle, \* [Children -> operator stop, and the state a pause restores]
    fb,         \* worker feedback: state, target, bound to the live attempt
    steer,      \* primary feedback: state, bound to the live attempt
    diag,       \* [AllTasks -> application diagnostic of the latest result]
    spent       \* operator interventions made

taskVars == <<st, used, rep, disp, dec, turn>>
viewVars == <<fresh, older, since, accepted>>
stopVars == <<stop, idle>>
feedVars == <<fb, steer>>
vars == <<taskVars, viewVars, cand, stopVars, feedVars, diag, spent>>

NoDecision == [kind |-> "none", on |-> {}]
NoDiagnostic == [n |-> 0, class |-> "none", resolution |-> "none"]

States == {"absent", "queued", "leased", "reconciling", "blocked", "terminal"}
Dispositions ==
    {"none", "decision_pending", "repair_queued", "failed", "quota_deferred",
     "delegated", "waiting", "reassigned", "feedback_forwarded", "scope_responded",
     "task_accepted", "acceptance_prepared", "candidate_prepared", "review_selected",
     "scope_requested", "handoff_completed", "rejected", "recovery_rejected"}

TypeOK ==
    /\ st \in [AllTasks -> States]
    /\ \A t \in AllTasks : used[t] \in 0..Budget[t] /\ rep[t] \in 0..MaxRepairs[t]
    /\ disp \in [AllTasks -> Dispositions]
    /\ dec \in [AllTasks -> [kind : PrimaryKinds \cup WorkerKinds \cup {"none"},
                          on : SUBSET Children]]
    /\ turn \in [AllTasks -> {"none", "normal", "forward"}]
    /\ fresh \subseteq Children /\ older \subseteq Children
    /\ since \subseteq Children /\ accepted \subseteq Workers
    /\ cand \in {"open", "prepared", "selected"}
    /\ stop \in [Children -> {"none", "pause", "cancel"}]
    /\ idle \in [Children -> {"queued", "blocked"}]
    /\ fb \in [state : {"none", "pending", "forwarded", "delivered", "closed"},
               target : Workers, bound : BOOLEAN]
    /\ steer \in [state : {"none", "pending", "delivered", "closed"}, bound : BOOLEAN]
    /\ diag \in [AllTasks -> [n : 0..(Delays + 1),
                           class : {"none", "temporary", "prerequisite", "unsupported"},
                           resolution : {"none", "scheduled", "attention"}]]
    /\ spent \in [feedback : 0..MaxFeedback, steer : 0..MaxSteer, stops : 0..MaxStops]

Init ==
    /\ st = [t \in AllTasks |-> IF t = Primary THEN "queued" ELSE "absent"]
    /\ used = [t \in AllTasks |-> 0] /\ rep = [t \in AllTasks |-> 0]
    /\ disp = [t \in AllTasks |-> "none"]
    /\ dec = [t \in AllTasks |-> NoDecision]
    /\ turn = [t \in AllTasks |-> "none"]
    /\ fresh = {} /\ older = {} /\ since = {} /\ accepted = {}
    /\ cand = "open"
    /\ stop = [c \in Children |-> "none"] /\ idle = [c \in Children |-> "queued"]
    /\ fb = [state |-> "none", target |-> CHOOSE w \in Workers : TRUE, bound |-> FALSE]
    /\ steer = [state |-> "none", bound |-> FALSE]
    /\ diag = [t \in AllTasks |-> NoDiagnostic]
    /\ spent = [feedback |-> 0, steer |-> 0, stops |-> 0]

-----------------------------------------------------------------------------
(* Budget, waking and feedback helpers.  A helper that changes task states maps  *)
(* a state function s to the one its transaction leaves.                         *)

\* fit_reservation for one more provider attempt of the task.
Fits(t) == used[t] < Budget[t]

\* _has_unsettled_reservation: an attempt of the run still holds its reservation.
Unsettled(s) == \E t \in AllTasks : s[t] = "leased"

\* try_debit_repair: a repair is granted only with the attempt that will make it.
CanRepair(t) == rep[t] < MaxRepairs[t] /\ Fits(t)

Created(s) == {c \in Children : s[c] # "absent"}
Terminal(s, S) == \A c \in S : s[c] = "terminal"

\* _scope_request_pending: blocked, and the latest accepted result asks for scope.
ScopeRequestPending(s, c) == s[c] = "blocked" /\ disp[c] = "scope_requested"

\* has_scope_request
HasScopeRequest(s, S) == \E c \in S : ScopeRequestPending(s, c)

\* Mutant: only a delegation is woken, a wait or reassignment is forgotten.
WakesDelegationOnly(s, c, scope) == s[Primary] = "blocked" /\ disp[Primary] = "delegated"

\* _wake_ready_parents: the primary is blocked on a decision that this child's
\* end, or its scope request, answers.
Wakes(s, c, scope) ==
    /\ s[Primary] = "blocked"
    /\ \/ disp[Primary] = "delegated"
       \/ /\ disp[Primary] \in {"waiting", "reassigned", "feedback_forwarded"}
          /\ IF scope THEN c \in dec[Primary].on ELSE Terminal(s, dec[Primary].on)

WakeParent(s, c, scope) ==
    IF Wakes(s, c, scope) THEN [s EXCEPT ![Primary] = "queued"] ELSE s

\* _release_task: a terminal child wakes its parent, a retried one is queued.
Release(s, t, end) ==
    IF ~end THEN [s EXCEPT ![t] = "queued"]
    ELSE LET ended == [s EXCEPT ![t] = "terminal"]
         IN IF t = Primary THEN ended ELSE WakeParent(ended, t, FALSE)

\* _wake_selected_review_parent: the end of the selected review returns control.
WakeReviewed(s, t) ==
    IF t = Reviewer /\ cand = "selected" /\ s[t] = "terminal" /\ s[Primary] = "blocked"
    THEN [s EXCEPT ![Primary] = "queued"] ELSE s

\* settle_delivery: what was bound to this attempt has been delivered.
DeliverWorker(f, t) ==
    IF f.state = "forwarded" /\ f.bound /\ f.target = t
    THEN [f EXCEPT !.state = "delivered"] ELSE f

DeliverSteering(q, t) ==
    IF t = Primary /\ q.state = "pending" /\ q.bound
    THEN [q EXCEPT !.state = "delivered"] ELSE q

\* close_exhausted: the task that would carry the feedback on has no attempt left.
Carrier(f) == IF f.state = "pending" THEN Primary ELSE f.target
Spent(s, t) ==
    /\ ~Unsettled(s)
    /\ s[t] \notin {"leased", "reconciling"}
    /\ ~Fits(t)

CloseWorker(s, f) ==
    IF f.state \in {"pending", "forwarded"} /\ Spent(s, Carrier(f))
    THEN [f EXCEPT !.state = "closed", !.bound = FALSE] ELSE f

CloseSteering(s, q) ==
    IF q.state = "pending" /\ Spent(s, Primary)
    THEN [q EXCEPT !.state = "closed"] ELSE q

\* requeue_undelivered: a worker that ended with undelivered feedback runs again,
\* or the feedback closes with it.
Undelivered(s, f, t) == f.state = "forwarded" /\ f.target = t /\ s[t] = "terminal"

RequeueUndelivered(s, f, t) ==
    IF Undelivered(s, f, t) /\ stop[t] = "none" /\ (Fits(t) \/ Unsettled(s))
    THEN [s EXCEPT ![t] = "queued"] ELSE s

CloseUndelivered(s, f, t) ==
    IF ~Undelivered(s, f, t) THEN f
    ELSE IF stop[t] = "none" /\ (Fits(t) \/ Unsettled(s))
         THEN [f EXCEPT !.bound = FALSE]
         ELSE [f EXCEPT !.state = "closed", !.bound = FALSE]

\* requeue_failed_primary, requeue_primary_feedback_pending: a primary that ended
\* with feedback to forward or steering to read runs again.
RequeuePrimary(s, f, q) ==
    IF /\ s[Primary] = "terminal"
       /\ f.state = "pending" \/ q.state = "pending"
       /\ Fits(Primary) \/ Unsettled(s)
    THEN [s EXCEPT ![Primary] = "queued"] ELSE s

\* A child's version moves: the primary's view of it is stale.
Touch(S) == fresh' = fresh \ S

-----------------------------------------------------------------------------
(* Attempts *)

\* _feedback_priority_fence: feedback reserves the run for its carrier and for
\* the unfinished dependencies of the carrier.
Unfinished(S) == {d \in UNION {Deps[w] : w \in S \cap Workers} : st[d] # "terminal"}
Protected(S) ==
    LET grown[n \in 0..Cardinality(Workers)] ==
            IF n = 0 THEN S ELSE grown[n - 1] \cup Unfinished(grown[n - 1])
    IN grown[Cardinality(Workers)]
Fence ==
    IF fb.state = "pending" THEN {Primary}
    ELSE IF fb.state = "forwarded" THEN Protected({fb.target}) ELSE AllTasks

\* _can_read_candidate: a closed candidate admits the coordinator and reviewers.
CandidateAdmits(t) == cand = "open" \/ t \in {Primary, Reviewer}

DependenciesDone(t) == t \in Workers => Terminal(st, Deps[t])

\* claim, with the admission of the attempt.
Claim(t) ==
    /\ st[t] = "queued"
    /\ t \in Children => stop[t] = "none"
    /\ CandidateAdmits(t) /\ t \in Fence /\ Fits(t) /\ DependenciesDone(t)
    /\ st' = [st EXCEPT ![t] = "leased"]
    /\ used' = [used EXCEPT ![t] = @ + 1]
    /\ disp' = [disp EXCEPT ![t] = "none"]
    /\ dec' = [dec EXCEPT ![t] = NoDecision]
    /\ turn' = [turn EXCEPT ![t] = "none"]
    /\ diag' = [diag EXCEPT ![t] = NoDiagnostic]
    /\ fb' = [fb EXCEPT !.bound = @ /\ Carrier(fb) # t]
    /\ steer' = [steer EXCEPT !.bound = @ /\ t # Primary]
    /\ older' = older \ {t}
    /\ since' = since \cup ({t} \cap Children)
    /\ Touch({t})
    /\ UNCHANGED <<rep, accepted, cand, stopVars, spent>>

\* invocation_context: pending worker feedback makes a forwarding-only turn and
\* leaves steering unbound; otherwise steering, or forwarded feedback, is bound.
Build(t) ==
    /\ st[t] = "leased" /\ turn[t] = "none"
    /\ LET forwarding == t = Primary /\ fb.state = "pending"
       IN /\ turn' = [turn EXCEPT ![t] = IF forwarding THEN "forward" ELSE "normal"]
          /\ fb' = [fb EXCEPT !.bound =
                       @ \/ forwarding \/ (fb.state = "forwarded" /\ fb.target = t)]
          /\ steer' = [steer EXCEPT !.bound =
                          @ \/ (t = Primary /\ ~forwarding /\ steer.state = "pending")]
    /\ fresh' = IF t = Primary THEN Created(st) ELSE fresh
    /\ UNCHANGED <<st, used, rep, disp, dec, older, since, accepted, cand, stopVars,
                   diag, spent>>

\* What the protocol lets an attempt of t return.
Proposals(t) ==
    IF t = Primary
    THEN IF turn[t] = "forward" THEN {[kind |-> "forward", on |-> {fb.target}]}
         ELSE [kind : {"delegate", "wait"}, on : SUBSET Workers \ {{}}]
              \cup [kind : {"reassign", "scope_response", "accept_task"},
                    on : {{w} : w \in Workers}]
              \cup [kind : {"accept", "review", "invalid"}, on : {{}}]
    ELSE [kind : WorkerKinds, on : {{}}]

\* settle with a decision: retained for its application, never applied here.
Decide(t, d) ==
    /\ st[t] = "leased" /\ turn[t] # "none"
    /\ d \in Proposals(t) /\ d.kind \in Kinds
    /\ st' = [st EXCEPT ![t] = "reconciling"]
    /\ disp' = [disp EXCEPT ![t] = "decision_pending"]
    /\ dec' = [dec EXCEPT ![t] = d]
    /\ fb' = CloseWorker(st', DeliverWorker(fb, t))
    /\ steer' = CloseSteering(st', DeliverSteering(steer, t))
    /\ Touch({t})
    /\ UNCHANGED <<used, rep, turn, older, since, accepted, cand, stopVars, diag, spent>>

\* settle with a failure: a repair is queued, or the task ends and its parent and
\* its undelivered feedback are looked after.
Fail(t, launched, retryable) ==
    LET repair == retryable /\ CanRepair(t)
        s1 == Release(st, t, ~repair)
        f1 == IF launched THEN DeliverWorker(fb, t) ELSE fb
        q1 == IF launched THEN DeliverSteering(steer, t) ELSE steer
        s2 == RequeueUndelivered(s1, f1, t)
        f2 == CloseUndelivered(s1, f1, t)
        s3 == IF t = Primary THEN RequeuePrimary(s2, f2, q1) ELSE s2
    IN /\ "fail" \in Faults
       /\ launched \/ "unlaunched" \in Faults
       /\ st[t] = "leased" /\ (launched => turn[t] # "none")
       /\ rep' = [rep EXCEPT ![t] = IF repair THEN @ + 1 ELSE @]
       /\ disp' = [disp EXCEPT ![t] = IF repair THEN "repair_queued" ELSE "failed"]
       /\ st' = s3
       /\ fb' = CloseWorker(s3, f2) /\ steer' = CloseSteering(s3, q1)
       /\ Touch({t})
       /\ UNCHANGED <<used, dec, turn, older, since, accepted, cand, stopVars, diag, spent>>

\* settle on an exhausted quota window: queued again without a repair.
DeferQuota(t) ==
    /\ "quota" \in Faults
    /\ st[t] = "leased" /\ turn[t] # "none"
    /\ st' = [st EXCEPT ![t] = "queued"]
    /\ disp' = [disp EXCEPT ![t] = "quota_deferred"]
    /\ fb' = CloseWorker(st', DeliverWorker(fb, t))
    /\ steer' = CloseSteering(st', DeliverSteering(steer, t))
    /\ Touch({t})
    /\ UNCHANGED <<used, rep, dec, turn, older, since, accepted, cand, stopVars, diag, spent>>

-----------------------------------------------------------------------------
(* Applications.  A pending decision is applied once, when its source is still   *)
(* current; one that raises is retried on a schedule and then needs attention.   *)

\* due_version: latest result pending, no operator stop, no attention.
Due(t) ==
    /\ diag[t].resolution # "attention"
    /\ t \in Children => stop[t] = "none"

\* The source guard of _apply, for a decision that has not been applied.
Pending(t, kind) ==
    /\ disp[t] = "decision_pending" /\ st[t] = "reconciling"
    /\ dec[t].kind = kind /\ Due(t)

\* The candidate clause of that guard: a closed candidate admits the delegation
\* that reopens it, an acceptance, an invalid primary handoff, and the handoff of
\* the review selected for it.
CandidateCurrent(t) ==
    \/ cand = "open"
    \/ dec[t].kind \in {"accept", "invalid"}
    \/ dec[t].kind = "delegate" /\ cand = "selected"
    \/ t = Reviewer /\ dec[t].kind \in {"handoff", "bad_handoff"} /\ cand = "selected"

\* Every other task has ended: no task, effect or schedule is unfinished.
Quiescent == Terminal(st, Created(st))

\* _finish: record the decision, release the slot, settle and close feedback, and
\* take the primary back from blocked when feedback arrived meanwhile.
Finish(t, s, next, disposition) ==
    LET s1 == [s EXCEPT ![t] = next]
        f1 == CloseWorker(s1, fb)
        q1 == CloseSteering(s1, DeliverSteering(steer, t))
        recall == t = Primary /\ next = "blocked"
                  /\ (f1.state = "pending" \/ q1.state = "pending")
    IN /\ st' = IF recall THEN [s1 EXCEPT ![t] = "queued"] ELSE s1
       /\ disp' = [disp EXCEPT ![t] = disposition]
       /\ fb' = f1 /\ steer' = q1
       /\ diag' = [diag EXCEPT ![t] = NoDiagnostic]

\* _reject: semantic rejection queues a repair or ends the task; only
\* close_exhausted looks after feedback, and a review's end wakes the primary.
Reject(t) ==
    LET s1 == WakeReviewed(Release(st, t, ~CanRepair(t)), t)
    IN /\ st' = s1
       /\ rep' = [rep EXCEPT ![t] = IF CanRepair(t) THEN @ + 1 ELSE @]
       /\ disp' = [disp EXCEPT ![t] = "rejected"]
       /\ fb' = CloseWorker(s1, fb) /\ steer' = CloseSteering(s1, steer)
       /\ diag' = [diag EXCEPT ![t] = NoDiagnostic]
       /\ Touch({t})
       /\ UNCHANGED <<used, dec, turn, older, since, accepted, cand, stopVars, spent>>

\* record_failure: bounded retries for what may pass, attention for the rest.
RecordFailure(t, class) ==
    /\ LET n == IF diag[t].n > Delays THEN diag[t].n ELSE diag[t].n + 1
       IN diag' = [diag EXCEPT ![t] =
             [n |-> n, class |-> class,
              resolution |-> IF class # "unsupported" /\ n <= Delays
                             THEN "scheduled" ELSE "attention"]]
    /\ UNCHANGED <<taskVars, viewVars, cand, stopVars, feedVars, spent>>

\* The application raises: the decision's source is no longer current.
Refuse(t) == RecordFailure(t, "unsupported")

\* validate_child_authority and validate_task_dag for a delegated batch.
ValidBatch(S) ==
    /\ \A w \in S : st[w] = "absent"
    /\ \A w \in S : Deps[w] \subseteq S \cup Created(st)

\* A closed candidate is reopened by the delegation, at a new epoch.
ApplyDelegation ==
    LET S == dec[Primary].on
    IN /\ Pending(Primary, "delegate")
       /\ IF ~CandidateCurrent(Primary) THEN Refuse(Primary)
          ELSE IF ~ValidBatch(S) THEN Reject(Primary)
          ELSE IF cand = "selected" /\ ~Quiescent THEN Refuse(Primary)
          ELSE /\ Finish(Primary, [t \in AllTasks |-> IF t \in S THEN "queued" ELSE st[t]],
                         "blocked", "delegated")
               /\ cand' = "open"
               /\ older' = IF cand = "selected" THEN Created(st) ELSE older
               /\ Touch(S)
               /\ UNCHANGED <<used, rep, dec, turn, since, accepted, stopVars, spent>>

\* Mutant: a wait blocks without looking whether its children have ended.
ApplyWaitBlind ==
    LET S == dec[Primary].on
    IN /\ Pending(Primary, "wait")
       /\ IF ~CandidateCurrent(Primary) THEN Refuse(Primary)
          ELSE IF ~(S \subseteq Created(st)) THEN Reject(Primary)
          ELSE /\ Finish(Primary, st, "blocked", "waiting")
               /\ since' = {}
               /\ UNCHANGED <<used, rep, dec, turn, fresh, older, accepted, cand,
                              stopVars, spent>>

\* A wait for children that have all ended, or that ask for scope, goes on at once.
ApplyWait ==
    LET S == dec[Primary].on
    IN /\ Pending(Primary, "wait")
       /\ IF ~CandidateCurrent(Primary) THEN Refuse(Primary)
          ELSE IF ~(S \subseteq Created(st)) THEN Reject(Primary)
          ELSE /\ Finish(Primary, st,
                         IF Terminal(st, S) \/ HasScopeRequest(st, S)
                         THEN "queued" ELSE "blocked", "waiting")
               /\ since' = {}
               /\ UNCHANGED <<used, rep, dec, turn, fresh, older, accepted, cand,
                              stopVars, spent>>

\* requeue_reassigned_child: the child stopped, at the version the primary saw.
ReassignCurrent(c) ==
    /\ c \in fresh /\ c \notin older /\ stop[c] = "none"
    /\ st[c] = CASE disp[c] = "failed" -> "terminal"
                 [] disp[c] = "scope_requested" -> "blocked"
                 [] OTHER -> "queued"

ApplyReassignment(c) ==
    /\ Pending(Primary, "reassign") /\ dec[Primary].on = {c}
    /\ IF ~CandidateCurrent(Primary) THEN Refuse(Primary)
       ELSE IF disp[c] \notin {"failed", "scope_requested", "quota_deferred"}
       THEN Reject(Primary)
       ELSE IF ~ReassignCurrent(c) THEN Refuse(Primary)
       ELSE /\ Finish(Primary, [st EXCEPT ![c] = "queued"], "blocked", "reassigned")
            /\ Touch({c})
            /\ UNCHANGED <<used, rep, dec, turn, older, since, accepted, cand,
                           stopVars, spent>>

ApplyScopeResponse(c) ==
    /\ Pending(Primary, "scope_response") /\ dec[Primary].on = {c}
    /\ IF ~CandidateCurrent(Primary) THEN Refuse(Primary)
       ELSE IF disp[c] # "scope_requested" THEN Reject(Primary)
       ELSE IF ~ScopeRequestPending(st, c) \/ stop[c] # "none" THEN Refuse(Primary)
       ELSE /\ Finish(Primary, [st EXCEPT ![c] = "queued"], "queued", "scope_responded")
            /\ Touch({c})
            /\ UNCHANGED <<used, rep, dec, turn, older, since, accepted, cand,
                           stopVars, spent>>

\* task_acceptance_payload: the child ended with an applied handoff.
ApplyTaskAcceptance(c) ==
    /\ Pending(Primary, "accept_task") /\ dec[Primary].on = {c}
    /\ IF ~CandidateCurrent(Primary) THEN Refuse(Primary)
       ELSE IF st[c] # "terminal" \/ stop[c] # "none" \/ disp[c] # "handoff_completed"
       THEN Reject(Primary)
       ELSE /\ Finish(Primary, st, "queued", "task_accepted")
            /\ accepted' = accepted \cup {c}
            /\ UNCHANGED <<used, rep, dec, turn, fresh, older, since, cand, stopVars,
                           spent>>

\* Final acceptance of the selected candidate; validation follows.
ApplyAcceptance ==
    /\ Pending(Primary, "accept")
    /\ IF cand # "selected" THEN Reject(Primary)
       ELSE IF ~Quiescent THEN Refuse(Primary)
       ELSE /\ Finish(Primary, st, "blocked", "acceptance_prepared")
            /\ UNCHANGED <<used, rep, dec, turn, viewVars, cand, stopVars, spent>>

\* A decision whose content the frozen contracts refuse, or a primary's handoff.
ApplyInvalid ==
    /\ Pending(Primary, "invalid")
    /\ Reject(Primary)

\* prepare_review_selection: the intent and the closed barrier commit together.
PrepareReview ==
    /\ Pending(Primary, "review")
    /\ IF ~CandidateCurrent(Primary) \/ ~Quiescent THEN Refuse(Primary)
       ELSE /\ Finish(Primary, st, "blocked", "candidate_prepared")
            /\ cand' = "prepared"
            /\ older' = Created(st)
            /\ UNCHANGED <<used, rep, dec, turn, fresh, since, accepted, stopVars, spent>>

\* review_selection_proposal: the prepared source is still blocked and alone.
Prepared == disp[Primary] = "candidate_prepared" /\ Due(Primary)
SelectionCurrent == st[Primary] = "blocked" /\ cand = "prepared" /\ Quiescent

\* finalize_review_selection: the observed candidate is the selected one; its
\* review child is created, or no review was asked for.
FinalizeReview(reviewed) ==
    /\ Prepared /\ SelectionCurrent
    /\ disp' = [disp EXCEPT ![Primary] = "review_selected", ![Reviewer] = "none"]
    /\ cand' = "selected"
    /\ st' = IF reviewed THEN [st EXCEPT ![Reviewer] = "queued"]
             ELSE [st EXCEPT ![Primary] = "queued"]
    /\ used' = [used EXCEPT ![Reviewer] = 0] /\ rep' = [rep EXCEPT ![Reviewer] = 0]
    /\ dec' = [dec EXCEPT ![Reviewer] = NoDecision]
    /\ turn' = [turn EXCEPT ![Reviewer] = "none"]
    /\ stop' = [stop EXCEPT ![Reviewer] = "none"]
    /\ diag' = [diag EXCEPT ![Primary] = NoDiagnostic, ![Reviewer] = NoDiagnostic]
    /\ UNCHANGED <<viewVars, idle, feedVars, spent>>

\* reject_candidate_mismatch: the candidate reopens and a repair is queued.
RejectMismatch ==
    /\ "mismatch" \in Faults
    /\ Prepared /\ SelectionCurrent
    /\ disp' = [disp EXCEPT ![Primary] = "rejected"]
    /\ cand' = "open"
    /\ st' = [st EXCEPT ![Primary] = IF CanRepair(Primary) THEN "queued" ELSE "terminal"]
    /\ rep' = [rep EXCEPT ![Primary] = IF CanRepair(Primary) THEN @ + 1 ELSE @]
    /\ diag' = [diag EXCEPT ![Primary] = NoDiagnostic]
    /\ UNCHANGED <<used, dec, turn, viewVars, stopVars, feedVars, spent>>

\* The prepared selection cannot be observed any more.
SelectionLost ==
    /\ Prepared /\ ~SelectionCurrent
    /\ Refuse(Primary)

\* apply_forward: why the feedback closes instead of reaching its target.
ForwardCloses(c) ==
    \/ c \in accepted
    \/ stop[c] = "cancel"
    \/ st[c] \notin {"leased", "reconciling"} /\ ~Fits(c) /\ ~Unsettled(st)

\* A settled target is queued again; any other keeps the feedback for its next
\* attempt.  The primary goes on when nothing was forwarded or scope is asked.
ApplyForward ==
    LET c == fb.target
        closes == ForwardCloses(c)
        requeue == ~closes /\ st[c] = "terminal" /\ stop[c] = "none"
        s1 == IF requeue THEN [st EXCEPT ![c] = "queued"] ELSE st
        f1 == [fb EXCEPT !.state = IF closes THEN "closed" ELSE "forwarded",
                         !.bound = FALSE]
        next == IF (closes /\ Fits(Primary)) \/ HasScopeRequest(s1, Created(s1))
                THEN "queued" ELSE "blocked"
        s2 == [s1 EXCEPT ![Primary] = next]
        q1 == CloseSteering(s2, DeliverSteering(steer, Primary))
    IN /\ Pending(Primary, "forward")
       /\ IF ~CandidateCurrent(Primary) \/ fb.state # "pending" \/ ~fb.bound
          THEN Refuse(Primary)
          ELSE /\ st' = IF next = "blocked" /\ q1.state = "pending"
                        THEN [s2 EXCEPT ![Primary] = "queued"] ELSE s2
               /\ fb' = CloseWorker(s2, f1) /\ steer' = q1
               /\ disp' = [disp EXCEPT ![Primary] = "feedback_forwarded"]
               /\ diag' = [diag EXCEPT ![Primary] = NoDiagnostic]
               /\ Touch(IF requeue THEN {c} ELSE {})
               /\ UNCHANGED <<used, rep, dec, turn, older, since, accepted, cand,
                              stopVars, spent>>

\* A worker asks for scope: its slot is released and its parent may be woken.
ApplyScopeRequest(c) ==
    LET asked == [st EXCEPT ![c] = "blocked"]
    IN /\ Pending(c, "scope_request")
       /\ IF ~CandidateCurrent(c) THEN Refuse(c)
          ELSE IF c = Reviewer THEN Reject(c)
          ELSE /\ st' = WakeParent(asked, c, TRUE)
               /\ disp' = [disp EXCEPT ![c] = "scope_requested"]
               /\ fb' = CloseWorker(asked, fb) /\ steer' = CloseSteering(asked, steer)
               /\ diag' = [diag EXCEPT ![c] = NoDiagnostic]
               /\ Touch({c})
               /\ UNCHANGED <<used, rep, dec, turn, older, since, accepted, cand,
                              stopVars, spent>>

\* A verified handoff ends the task, wakes its parent and requeues it for
\* feedback it has not been given.
ApplyHandoff(c) ==
    LET ended == Release(st, c, TRUE)
        s1 == RequeueUndelivered(ended, fb, c)
    IN /\ Pending(c, "handoff")
       /\ IF ~CandidateCurrent(c) THEN Refuse(c)
          ELSE /\ st' = WakeReviewed(s1, c)
               /\ fb' = CloseUndelivered(ended, fb, c)
               /\ disp' = [disp EXCEPT ![c] = "handoff_completed"]
               /\ diag' = [diag EXCEPT ![c] = NoDiagnostic]
               /\ Touch({c})
               /\ UNCHANGED <<used, rep, dec, turn, older, since, accepted, cand,
                              stopVars, steer, spent>>

\* The observed evidence contradicts the handoff.
ApplyBadHandoff(c) ==
    /\ Pending(c, "bad_handoff")
    /\ IF ~CandidateCurrent(c) THEN Refuse(c) ELSE Reject(c)

\* The application fails on infrastructure, or its observation changed meanwhile.
Stumble(t) ==
    /\ disp[t] = "decision_pending" /\ st[t] = "reconciling" /\ Due(t)
    /\ \/ "stumble" \in Faults /\ RecordFailure(t, "temporary")
       \/ /\ "observation" \in Faults /\ dec[t].kind = "handoff"
          /\ RecordFailure(t, "prerequisite")

-----------------------------------------------------------------------------
(* The operator *)

\* submit: worker feedback is carried by the primary, one row at a time.
SubmitFeedback(c) ==
    /\ "feedback" \in Operator /\ spent.feedback < MaxFeedback
    /\ st[c] # "absent" /\ stop[c] # "cancel" /\ c \notin accepted
    /\ st[Primary] # "terminal" /\ fb.state \notin {"pending", "forwarded"}
    /\ Fits(Primary) \/ Unsettled(st)
    /\ fb' = [state |-> "pending", target |-> c, bound |-> FALSE]
    /\ st' = IF st[Primary] = "blocked" THEN [st EXCEPT ![Primary] = "queued"] ELSE st
    /\ spent' = [spent EXCEPT !.feedback = @ + 1]
    /\ UNCHANGED <<used, rep, disp, dec, turn, viewVars, cand, stopVars, steer, diag>>

\* submit_primary: steering of the primary itself.
SubmitSteering ==
    /\ "steer" \in Operator /\ spent.steer < MaxSteer
    /\ steer.state # "pending"
    /\ Fits(Primary) \/ Unsettled(st)
    /\ steer' = [state |-> "pending", bound |-> FALSE]
    /\ st' = IF st[Primary] = "blocked" THEN [st EXCEPT ![Primary] = "queued"] ELSE st
    /\ spent' = [spent EXCEPT !.steer = @ + 1]
    /\ UNCHANGED <<used, rep, disp, dec, turn, viewVars, cand, stopVars, fb, diag>>

\* _idle_control: an idle child is paused, resumed or cancelled.
Pause(c) ==
    /\ "pause" \in Operator /\ spent.stops < MaxStops
    /\ stop[c] = "none" /\ st[c] \in {"queued", "blocked"}
    /\ stop' = [stop EXCEPT ![c] = "pause"] /\ idle' = [idle EXCEPT ![c] = st[c]]
    /\ st' = [st EXCEPT ![c] = "blocked"]
    /\ spent' = [spent EXCEPT !.stops = @ + 1]
    /\ Touch({c})
    /\ UNCHANGED <<used, rep, disp, dec, turn, older, since, accepted, cand, feedVars, diag>>

Resume(c) ==
    /\ stop[c] = "pause" /\ st[c] = "blocked"
    /\ stop' = [stop EXCEPT ![c] = "none"]
    /\ st' = [st EXCEPT ![c] = idle[c]]
    /\ Touch({c})
    /\ UNCHANGED <<used, rep, disp, dec, turn, older, since, accepted, cand, idle,
                   feedVars, diag, spent>>

Cancel(c) ==
    /\ "cancel" \in Operator /\ spent.stops < MaxStops
    /\ stop[c] # "cancel" /\ st[c] \in {"queued", "blocked"}
    /\ stop' = [stop EXCEPT ![c] = "cancel"]
    /\ st' = Release(st, c, TRUE)
    /\ fb' = IF fb.state = "forwarded" /\ fb.target = c
             THEN [fb EXCEPT !.state = "closed", !.bound = FALSE] ELSE fb
    /\ spent' = [spent EXCEPT !.stops = @ + 1]
    /\ Touch({c})
    /\ UNCHANGED <<used, rep, disp, dec, turn, older, since, accepted, cand, idle,
                   steer, diag>>

\* RETRY_APPLICATION: the saved decision is due again.
RetryApplication(t) ==
    /\ "retry" \in Operator
    /\ disp[t] \in {"decision_pending", "candidate_prepared"}
    /\ diag[t].resolution = "attention"
    /\ t \in Children => stop[t] = "none"
    /\ diag' = [diag EXCEPT ![t].resolution = "scheduled"]
    /\ UNCHANGED <<taskVars, viewVars, cand, stopVars, feedVars, spent>>

\* A rejected child decision is safe only under a primary that cannot have seen
\* it, and before any dependent of the child began.
ChildRejectable(c) ==
    /\ st[Primary] = "blocked"
    /\ \/ /\ disp[Primary] = "waiting"
          /\ c \in since \/ (diag[c].class = "prerequisite" /\ c \in dec[Primary].on)
       \/ /\ disp[Primary] = "delegated" /\ c \in dec[Primary].on
          /\ diag[c].class = "prerequisite"
    /\ \A w \in Workers : c \in Deps[w] => used[w] = 0

\* REJECT_AND_RETRY_STEP: the saved decision is rejected for one fresh attempt.
RejectAndRetry(t) ==
    /\ "reject" \in Operator
    /\ disp[t] = "decision_pending" /\ diag[t].resolution = "attention"
    /\ diag[t].class \in {"unsupported", "prerequisite"}
    /\ t \in Children => stop[t] = "none" /\ ChildRejectable(t)
    /\ CanRepair(t)
    /\ st' = [st EXCEPT ![t] = "queued"]
    /\ rep' = [rep EXCEPT ![t] = @ + 1]
    /\ disp' = [disp EXCEPT ![t] = "recovery_rejected"]
    /\ diag' = [diag EXCEPT ![t] = NoDiagnostic]
    /\ Touch({t})
    /\ UNCHANGED <<used, dec, turn, older, since, accepted, cand, stopVars, feedVars, spent>>

\* RETRY_FAILED_ATTEMPT: one more invocation of a primary that failed.
RetryFailed ==
    /\ "retry" \in Operator
    /\ disp[Primary] = "failed" /\ st[Primary] = "terminal" /\ CanRepair(Primary)
    /\ st' = [st EXCEPT ![Primary] = "queued"]
    /\ rep' = [rep EXCEPT ![Primary] = @ + 1]
    /\ UNCHANGED <<used, disp, dec, turn, viewVars, cand, stopVars, feedVars, diag, spent>>

-----------------------------------------------------------------------------

Apply(t) ==
    \/ t = Primary /\ (ApplyDelegation \/ ApplyWait \/ ApplyAcceptance \/ ApplyInvalid
                        \/ PrepareReview \/ ApplyForward)
    \/ t = Primary /\ \E c \in Workers : \/ ApplyReassignment(c) \/ ApplyScopeResponse(c)
                                         \/ ApplyTaskAcceptance(c)
    \/ t \in Children /\ (ApplyScopeRequest(t) \/ ApplyHandoff(t) \/ ApplyBadHandoff(t))

Observe == (\E reviewed \in BOOLEAN : FinalizeReview(reviewed)) \/ RejectMismatch \/ SelectionLost

Settle(t) ==
    \/ \E d \in Proposals(t) : Decide(t, d)
    \/ \E launched, retryable \in BOOLEAN : Fail(t, launched, retryable)
    \/ DeferQuota(t)

Controls ==
    \/ \E c \in Workers : SubmitFeedback(c)
    \/ SubmitSteering
    \/ \E c \in Children : Pause(c) \/ Resume(c) \/ Cancel(c)
    \/ \E t \in AllTasks : RetryApplication(t) \/ RejectAndRetry(t)
    \/ RetryFailed

Next ==
    \/ \E t \in AllTasks : Claim(t) \/ Build(t) \/ Settle(t) \/ Apply(t) \/ Stumble(t)
    \/ Observe
    \/ Controls

Spec == Init /\ [][Next]_vars

\* Workers claim, invoke and settle, and the periodic pass applies what is due.
Fairness ==
    /\ \A t \in AllTasks : /\ WF_vars(Claim(t)) /\ WF_vars(Build(t))
                         /\ WF_vars(Settle(t)) /\ WF_vars(Apply(t))
    /\ WF_vars(Observe)

FairSpec == Spec /\ Fairness

-----------------------------------------------------------------------------
(* Properties *)

\* A primary blocked on its workers always has one left that will wake it: no
\* child ends between the decision that waits for it and that decision's
\* application without the primary being queued (_apply, _wake_ready_parents).
NoLostWake ==
    (st[Primary] = "blocked" /\ Fits(Primary)
        /\ disp[Primary] \in {"delegated", "waiting", "reassigned", "feedback_forwarded"})
    => ~Terminal(st, dec[Primary].on)

\* While the candidate is closed no worker runs, and none can start: what is
\* reviewed and accepted is what the workers left (_apply, begin_candidate).
ClosedMeansQuiet ==
    cand # "open" => \A w \in Workers : st[w] \in {"absent", "terminal"}

\* A result the primary has accepted is never reopened, and a cancelled child
\* never runs again, whatever feedback, reassignment or recovery is applied.
AcceptedStays ==
    \A w \in Workers : w \in accepted \/ stop[w] = "cancel" => st[w] = "terminal"

Rejected(t) == st[t] = "terminal" /\ disp[t] = "rejected"

\* Worker feedback is delivered to its target or closed with a reason, whatever
\* the primary and the target were doing when it was submitted (apply_forward,
\* settle_delivery, requeue_undelivered, close_exhausted); the exception is a
\* carrier that a rejected decision ended.
FeedbackSettles ==
    []<>(fb.state \in {"pending", "forwarded"} => Rejected(Carrier(fb)))

\* A retained decision is applied, or an operator is asked to look at it, however
\* often its application fails for a passing reason (reconcile_all, due_version).
ApplicationSettles ==
    \A t \in AllTasks :
        []<>(disp[t] = "decision_pending" => diag[t].resolution = "attention")

Starved == \E c \in Children : st[c] = "queued" /\ ~Fits(c)

\* A primary blocked on its workers, with an attempt left, is eventually given
\* control again (_wake_ready_parents), unless one of them was queued for feedback
\* while another attempt still held budget and has no attempt of its own left.
PrimaryWoken ==
    []<>(st[Primary] = "blocked" /\ Fits(Primary) => Starved)

=============================================================================
