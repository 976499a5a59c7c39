------------------------------ MODULE Approvals -----------------------------
(***************************************************************************)
(* The human gate of one run: application/services/approvals.py over       *)
(* persistence/repositories/auth.py, and the worker that consumes what it  *)
(* authorizes (application/handlers/approvals.py, plan_revision.py).       *)
(* Requests are transactions that take row locks one at a time: of the     *)
(* run, of their session, of a challenge.  A request authenticates, reads  *)
(* its clock and the client's idea of the run first, and uses them after   *)
(* it has waited.                                                          *)
(*                                                                         *)
(* A version stands for the gate, the policy and the evidence digest that  *)
(* were written with it.  A challenge is the request that issued it, an    *)
(* approval the request that authorized it.                                *)
(***************************************************************************)
EXTENDS Naturals, FiniteSets

CONSTANTS
    Issues,     \* issue requests, and the challenges they create
    Authorizations, \* authorize requests, and the approvals they create
    Sessions,
    session,    \* [Issues \cup Authorizations -> the session it presents]
    token,      \* [Authorizations -> the challenge it presents]
    MaxVersion, \* bound: versions of the run
    MaxExpired  \* bound: sessions and challenges whose time runs out

Callers == Issues \cup Authorizations

ASSUME ApprovalAssumption ==
    /\ Issues \cap Authorizations = {} /\ Callers \cap Sessions = {}
    /\ session \in [Callers -> Sessions]
    /\ token \in [Authorizations -> Issues]
    /\ MaxVersion \in Nat /\ MaxExpired \in Nat
    /\ {"none", "run"} \cap (Callers \cup Sessions) = {}

\* What can be locked.
Rows == {"run"} \cup Sessions \cup Issues

Versions == 0..MaxVersion

VARIABLES
    version, open,  \* the run: its version, and whether that version has a gate
    drifted,    \* the evidence of the gate no longer matches its source
    revoked,    \* sessions that were logged out
    gone,       \* sessions and challenges whose time is over
    bound,      \* [Issues -> versions of the challenge: {} before it exists]
    consumed,   \* challenges used
    approved,   \* [Authorizations -> versions of the approval: {} before]
    voided,     \* approvals invalidated
    applied,    \* approvals that moved the run
    queued,     \* approvals whose command is not settled
    lock,       \* [Rows -> the request that holds it]
    pc, asked, late  \* [Callers -> its place, the version it asks for, what
                \*   had run out by its clock]

rows == <<version, open, drifted, revoked, gone, bound, consumed, approved, voided, applied, queued>>
vars == <<rows, lock, pc, asked, late>>

TypeOK ==
    /\ version \in Versions /\ open \in BOOLEAN /\ drifted \in BOOLEAN
    /\ revoked \subseteq Sessions /\ gone \subseteq Sessions \cup Issues
    /\ bound \in [Issues -> SUBSET Versions]
    /\ approved \in [Authorizations -> SUBSET Versions]
    /\ consumed \subseteq Issues
    /\ voided \subseteq Authorizations /\ applied \subseteq Authorizations
    /\ queued \subseteq Authorizations
    /\ lock \in [Rows -> Callers \cup {"none"}]
    /\ pc \in [Callers -> {"new", "begun", "first", "second", "third", "done", "refused"}]
    /\ asked \in [Callers -> Versions]
    /\ late \in [Callers -> SUBSET (Sessions \cup Issues)]

\* A run at its first gate.
Init ==
    /\ version = 0 /\ open = TRUE /\ drifted = FALSE
    /\ revoked = {} /\ gone = {}
    /\ bound = [c \in Issues |-> {}]
    /\ approved = [a \in Authorizations |-> {}]
    /\ consumed = {} /\ voided = {} /\ applied = {} /\ queued = {}
    /\ lock = [x \in Rows |-> "none"]
    /\ pc = [r \in Callers |-> "new"]
    /\ asked = [r \in Callers |-> 0]
    /\ late = [r \in Callers |-> {}]

Free(x) == lock[x] = "none"
Released(r) == [x \in Rows |-> IF lock[x] = r THEN "none" ELSE lock[x]]
Goto(r, place) == pc' = [pc EXCEPT ![r] = place]

\* Mutant: a refusal leaves the unit of work open.
RefuseOpen(r) == Goto(r, "refused") /\ UNCHANGED lock

\* An error rolls the unit of work back.
Refuse(r) == Goto(r, "refused") /\ lock' = Released(r)

\* require_session, committed before the operation proper begins.
Authenticated(r) == session[r] \notin revoked \cup gone

Begin(r) ==
    /\ pc[r] = "new" /\ Free(session[r]) /\ Authenticated(r)
    /\ r \in Authorizations => bound[token[r]] # {}
    /\ Goto(r, "begun")
    /\ asked' = [asked EXCEPT ![r] = version]
    /\ late' = [late EXCEPT ![r] = gone]
    /\ UNCHANGED <<rows, lock>>

----------------------------------------------------------------------------
(* Locks, in the order the code takes them.                                *)

\* get_session_by_id for update: waits, reads, and keeps the row if valid.
TakeSession(r, next) ==
    /\ Free(session[r])
    /\ IF session[r] \notin revoked \cup late[r]
       THEN lock' = [lock EXCEPT ![session[r]] = r] /\ Goto(r, next)
       ELSE Refuse(r)
    /\ UNCHANGED <<rows, asked, late>>

\* lock_run.
TakeRun(r, next) ==
    /\ Free("run")
    /\ lock' = [lock EXCEPT !["run"] = r] /\ Goto(r, next)
    /\ UNCHANGED <<rows, asked, late>>

\* _run_matches.
RunMatches(r) == open /\ version = asked[r]

\* _challenge_matches, unused, unexpired, and of this session.
ChallengeMatches(r) ==
    /\ token[r] \notin consumed \cup late[r]
    /\ bound[token[r]] = {asked[r]}
    /\ session[token[r]] = session[r]

\* ApprovalChallengeService.issue: session, then run.
IssueLocks(r) ==
    \/ pc[r] = "begun" /\ TakeSession(r, "first")
    \/ pc[r] = "first" /\ TakeRun(r, "second")

IssueEnds(r) ==
    /\ pc[r] = "second"
    /\ IF RunMatches(r)
       THEN bound' = [bound EXCEPT ![r] = {asked[r]}] /\ Goto(r, "done") /\ lock' = Released(r)
       ELSE UNCHANGED bound /\ Refuse(r)
    /\ UNCHANGED <<version, open, drifted, revoked, gone, consumed, approved, voided, applied,
                   queued, asked, late>>

\* Mutant: the session is checked and not locked.
AuthorizeUnlocked(r) ==
    \/ pc[r] = "begun" /\ TakeRun(r, "first")
    \/ /\ pc[r] = "first" /\ Free(session[r])
       /\ IF session[r] \notin revoked \cup late[r] THEN Goto(r, "second") /\ UNCHANGED lock
                                                    ELSE Refuse(r)
       /\ UNCHANGED <<rows, asked, late>>
    \/ pc[r] = "second" /\ ~ drifted /\ Free(token[r])
       /\ lock' = [lock EXCEPT ![token[r]] = r] /\ Goto(r, "third")
       /\ UNCHANGED <<rows, asked, late>>

\* ApprovalAuthorizationService.authorize: run, then session, then challenge.
\* The plan evidence is validated under the first two.
AuthorizeLocks(r) ==
    \/ pc[r] = "begun" /\ TakeRun(r, "first")
    \/ pc[r] = "first" /\ TakeSession(r, "second")
    \/ /\ pc[r] = "second" /\ drifted
       /\ Refuse(r)
       /\ UNCHANGED <<rows, asked, late>>
    \/ /\ pc[r] = "second" /\ ~ drifted /\ Free(token[r])
       /\ lock' = [lock EXCEPT ![token[r]] = r] /\ Goto(r, "third")
       /\ UNCHANGED <<rows, asked, late>>

\* One approval, its event and its command, and the challenge is consumed.
AuthorizeEnds(r) ==
    /\ pc[r] = "third"
    /\ IF ChallengeMatches(r) /\ RunMatches(r)
       THEN /\ approved' = [approved EXCEPT ![r] = {asked[r]}]
            /\ consumed' = consumed \cup {token[r]}
            /\ queued' = queued \cup {r}
            /\ Goto(r, "done") /\ lock' = Released(r)
       ELSE UNCHANGED <<approved, consumed, queued>> /\ Refuse(r)
    /\ UNCHANGED <<version, open, drifted, revoked, gone, bound, voided, applied, asked, late>>

----------------------------------------------------------------------------
(* The others.                                                             *)

\* logout, an UPDATE that waits for the row.
Logout(s) ==
    /\ s \notin revoked /\ Free(s)
    /\ revoked' = revoked \cup {s}
    /\ UNCHANGED <<version, open, drifted, gone, bound, consumed, approved, voided, applied, queued,
                   lock, pc, asked, late>>

RunsOut(x) ==
    /\ x \notin gone /\ Cardinality(gone) < MaxExpired
    /\ x \in Issues => bound[x] # {}
    /\ gone' = gone \cup {x}
    /\ UNCHANGED <<version, open, drifted, revoked, bound, consumed, approved, voided, applied,
                   queued, lock, pc, asked, late>>

\* The source behind the evidence moves.
Drift ==
    /\ open /\ ~ drifted /\ drifted' = TRUE
    /\ UNCHANGED <<version, open, revoked, gone, bound, consumed, approved, voided, applied, queued,
                   lock, pc, asked, late>>

\* invalidate_plan_gate: the approvals of this version, and the challenges of
\* it that are unused, end now.
InvalidateGate ==
    /\ voided' = voided \cup {a \in Authorizations : approved[a] = {version}}
    /\ gone' = gone \cup {c \in Issues : bound[c] = {version} /\ c \notin consumed}

\* The run leaves the gate for a new version.
Advance == version < MaxVersion /\ version' = version + 1 /\ open' = FALSE /\ drifted' = FALSE

\* Mutant: the worker trusts the command.
TrustedApproval(a) == TRUE

\* The worker's own check of an approval, under the run's lock.
CurrentApproval(a) == a \notin voided /\ open /\ approved[a] = {version}

\* ApprovePlanHandler: applies the approval, or finds its evidence drifted and
\* restarts planning, or refuses what is stale.
Decide(a) ==
    /\ a \in queued /\ Free("run")
    /\ queued' = queued \ {a}
    /\ \/ /\ CurrentApproval(a) /\ ~ drifted
          /\ Advance /\ applied' = applied \cup {a} /\ UNCHANGED <<voided, gone>>
       \/ /\ CurrentApproval(a) /\ drifted
          /\ Advance /\ InvalidateGate /\ UNCHANGED applied
       \/ ~ CurrentApproval(a) /\ UNCHANGED <<version, open, drifted, applied, voided, gone>>
    /\ UNCHANGED <<revoked, bound, consumed, approved, lock, pc, asked, late>>

\* PlanRevisionService: a revision asked for at this gate is executed.
Revise ==
    /\ open /\ Free("run")
    /\ Advance /\ InvalidateGate
    /\ UNCHANGED <<revoked, bound, consumed, approved, applied, queued, lock, pc, asked, late>>

\* Later work brings the run to its next gate.
Reopen ==
    /\ ~ open /\ Free("run") /\ version < MaxVersion
    /\ version' = version + 1 /\ open' = TRUE
    /\ UNCHANGED <<drifted, revoked, gone, bound, consumed, approved, voided, applied, queued, lock,
                   pc, asked, late>>

\* What a request that cannot go on waits for.
Wants(r) ==
    IF r \in Issues
    THEN CASE pc[r] = "begun" -> session[r] [] pc[r] = "first" -> "run" [] OTHER -> "none"
    ELSE CASE pc[r] = "begun" -> "run" [] pc[r] = "first" -> session[r]
           [] pc[r] = "second" -> token[r] [] OTHER -> "none"

WaitsFor(r, q) == Wants(r) \in Rows /\ lock[Wants(r)] = q

\* The database finds two transactions waiting for each other and aborts one.
Abort(r) ==
    /\ \E q \in Callers \ {r} : WaitsFor(r, q) /\ WaitsFor(q, r)
    /\ Refuse(r)
    /\ UNCHANGED <<rows, asked, late>>

----------------------------------------------------------------------------
Step(r) ==
    \/ r \in Issues /\ (IssueLocks(r) \/ IssueEnds(r))
    \/ r \in Authorizations /\ (AuthorizeLocks(r) \/ AuthorizeEnds(r))
    \/ Abort(r)

Next ==
    \/ \E r \in Callers : Begin(r) \/ Step(r)
    \/ \E s \in Sessions : Logout(s)
    \/ \E x \in Sessions \cup Issues : RunsOut(x)
    \/ \E a \in Authorizations : Decide(a)
    \/ Drift \/ Revise \/ Reopen

Spec == Init /\ [][Next]_vars

\* The event loop drives the requests it has begun; a row lock is granted to
\* a waiter that keeps waiting.
Fairness == \A r \in Callers : SF_vars(Step(r))

FairSpec == Spec /\ Fairness

----------------------------------------------------------------------------
(* Properties.                                                             *)

\* A challenge authorizes at most one approval, however many requests present
\* it at once (authorize, consume_challenge).
ChallengeOnce ==
    \A a, b \in Authorizations :
        token[a] = token[b] /\ approved[a] # {} /\ approved[b] # {} => a = b

\* No approval is committed for a session that a logout has already revoked,
\* although authentication happened in an earlier transaction (authorize's
\* lock of the session).
RevokedNeverAuthorizes ==
    [][\A a \in Authorizations : approved'[a] # approved[a] => session[a] \notin revoked]_vars

\* An approval is committed for the gate the run is at in that very step, and
\* was asked for by the session its challenge was issued to (authorize's lock
\* of the run, _run_matches, _challenge_matches).
AuthorizedAtItsGate ==
    [][\A a \in Authorizations : approved'[a] # approved[a] =>
        open /\ approved'[a] = {version} /\ session[token[a]] = session[a]]_vars

\* One gate is decided by one approval, and never by an invalidated one
\* (ApprovePlanHandler, invalidate_plan_gate).
OneDecisionPerGate ==
    /\ \A a, b \in applied : approved[a] = approved[b] => a = b
    /\ applied \cap voided = {}

\* A challenge buys one approval and a gate takes one decision (ChallengeOnce,
\* OneDecisionPerGate), and the rows keep their types.
DecidedByOne == TypeOK /\ ChallengeOnce /\ OneDecisionPerGate

\* When an approval commits, its session, its gate and its challenge are in
\* force (RevokedNeverAuthorizes, AuthorizedAtItsGate).
AuthorizedInForce == RevokedNeverAuthorizes /\ AuthorizedAtItsGate

\* Every request that begins ends, deadlocks included (approvals.py units of
\* work, each of bounded length).
RequestsEnd == []<>(\A r \in Callers : pc[r] # "begun")

=============================================================================
