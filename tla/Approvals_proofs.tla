-------------------------- MODULE Approvals_proofs --------------------------
(***************************************************************************)
(* What the human gate promises, for any number of sessions, challenges    *)
(* and authorizations: a challenge buys one approval, a gate takes one     *)
(* decision, and an approval commits only while its session, its gate and  *)
(* its challenge are in force.                                             *)
(***************************************************************************)
EXTENDS Approvals, TLAPS

----------------------------------------------------------------------------
(* The inductive invariant.                                                *)

\* An approval used up its challenge and ended its request.
ApprovalsSpent ==
    \A a \in Authorizations : approved[a] # {} => token[a] \in consumed /\ pc[a] = "done"

\* A decided gate is behind the run.
DecidedBehind ==
    \A a \in applied : a \notin voided /\ \E v \in Versions : approved[a] = {v} /\ v < version

\* No two approvals decided the same gate.
DecidedApart == \A a, b \in applied : approved[a] = approved[b] => a = b

\* An authorization past its second lock holds a session nobody has revoked.
SessionHeld ==
    \A a \in Authorizations : pc[a] \in {"second", "third"} =>
        lock[session[a]] = a /\ session[a] \notin revoked

IInv ==
    /\ TypeOK /\ ChallengeOnce /\ ApprovalsSpent /\ DecidedBehind /\ DecidedApart /\ SessionHeld

----------------------------------------------------------------------------
(* Facts about rows and requests.                                          *)

\* The rows of the run, the sessions and the challenges are different rows.
LEMMA RowsApart ==
    /\ \A r \in Callers : session[r] \in Sessions /\ session[r] \in Rows /\ session[r] # "run"
    /\ \A a \in Authorizations : token[a] \in Issues /\ token[a] \in Rows /\ token[a] \notin Sessions
    /\ "run" \in Rows /\ "none" \notin Rows /\ "none" \notin Callers
    /\ Issues \subseteq Callers /\ Authorizations \subseteq Callers
    /\ \A a \in Authorizations : a \notin Issues
  BY ApprovalAssumption DEF Callers, Rows

\* Giving its locks back is a change of its own locks only.
LEMMA ReleasedLocks ==
    ASSUME TypeOK, NEW r \in Callers
    PROVE  /\ Released(r) \in [Rows -> Callers \cup {"none"}]
           /\ \A x \in Rows, q \in Callers \ {r} : lock[x] = q => Released(r)[x] = q
  BY DEF TypeOK, Released

\* A request moves.
LEMMA Moves ==
    ASSUME TypeOK, NEW r \in Callers,
           NEW place \in {"new", "begun", "first", "second", "third", "done", "refused"},
           Goto(r, place)
    PROVE  /\ pc' \in [Callers -> {"new", "begun", "first", "second", "third", "done", "refused"}]
           /\ pc'[r] = place
           /\ \A q \in Callers \ {r} : pc'[q] = pc[q]
  BY DEF TypeOK, Goto

\* A step that only moves r, before its end and not onto its third lock, and
\* gives locks back or takes free ones, keeps the invariant.
LEMMA MoveKeeps ==
    ASSUME IInv, NEW r \in Callers,
           NEW place \in {"begun", "first", "second", "third", "refused"},
           pc[r] # "done", Goto(r, place), UNCHANGED <<rows, asked, late>>,
           lock' \in [Rows -> Callers \cup {"none"}],
           \A x \in Rows, q \in Callers \ {r} : lock[x] = q => lock'[x] = q,
           r \in Authorizations /\ place \in {"second", "third"} =>
               lock'[session[r]] = r /\ session[r] \notin revoked
    PROVE  IInv'
  <1>1. TypeOK /\ place # "done"
    BY DEF IInv
  <1>2. /\ pc' \in [Callers -> {"new", "begun", "first", "second", "third", "done", "refused"}]
        /\ pc'[r] = place
        /\ \A q \in Callers \ {r} : pc'[q] = pc[q]
    BY <1>1, Moves
  <1>3. TypeOK'
    BY <1>1, <1>2 DEF TypeOK, rows
  <1>4. ChallengeOnce' /\ DecidedBehind' /\ DecidedApart'
    BY DEF IInv, ChallengeOnce, DecidedBehind, DecidedApart, rows
  <1>5. ApprovalsSpent'
    BY <1>2, RowsApart DEF IInv, ApprovalsSpent, rows
  <1>6. SessionHeld'
    BY <1>2, RowsApart DEF IInv, SessionHeld, rows
  <1> QED
    BY <1>3, <1>4, <1>5, <1>6 DEF IInv

\* A step that touches neither requests, locks, approvals nor sessions'
\* revocation keeps the invariant if it only decides what is behind.
LEMMA RowsKeep ==
    ASSUME IInv, UNCHANGED <<bound, consumed, approved, lock, pc, asked, late>>,
           TypeOK', DecidedBehind', DecidedApart', SessionHeld'
    PROVE  IInv'
  BY DEF IInv, ChallengeOnce, ApprovalsSpent

----------------------------------------------------------------------------
(* One lemma per kind of step.                                             *)

LEMMA BeginKeeps == ASSUME IInv, NEW r \in Callers, Begin(r) PROVE IInv'
  <1>1. TypeOK /\ pc[r] = "new" /\ Goto(r, "begun") /\ UNCHANGED <<rows, lock>>
    BY DEF IInv, Begin
  <1>2. /\ pc' \in [Callers -> {"new", "begun", "first", "second", "third", "done", "refused"}]
        /\ pc'[r] = "begun"
        /\ \A q \in Callers \ {r} : pc'[q] = pc[q]
    BY <1>1, Moves
  <1>3. asked' \in [Callers -> Versions] /\ late' \in [Callers -> SUBSET (Sessions \cup Issues)]
    BY <1>1 DEF Begin, TypeOK
  <1>4. TypeOK'
    BY <1>1, <1>2, <1>3 DEF TypeOK, rows
  <1>5. ChallengeOnce' /\ DecidedBehind' /\ DecidedApart'
    BY <1>1 DEF IInv, ChallengeOnce, DecidedBehind, DecidedApart, rows
  <1>6. ApprovalsSpent' /\ SessionHeld'
    BY <1>1, <1>2, RowsApart DEF IInv, ApprovalsSpent, SessionHeld, rows
  <1> QED
    BY <1>4, <1>5, <1>6 DEF IInv

LEMMA RefuseKeeps ==
    ASSUME IInv, NEW r \in Callers, pc[r] # "done", Refuse(r), UNCHANGED <<rows, asked, late>>
    PROVE  IInv'
  BY MoveKeeps, ReleasedLocks DEF IInv, Refuse

LEMMA TakeSessionKeeps ==
    ASSUME IInv, NEW r \in Callers, NEW next \in {"first", "second"}, pc[r] # "done",
           TakeSession(r, next)
    PROVE  IInv'
  <1>1. Free(session[r]) /\ UNCHANGED <<rows, asked, late>> /\ TypeOK
    BY DEF TakeSession, IInv
  <1>2. CASE Refuse(r)
    BY <1>1, <1>2, RefuseKeeps
  <1>3. CASE /\ session[r] \notin revoked \cup late[r]
             /\ lock' = [lock EXCEPT ![session[r]] = r] /\ Goto(r, next)
    <2>1. /\ lock' \in [Rows -> Callers \cup {"none"}] /\ lock'[session[r]] = r
          /\ \A x \in Rows, q \in Callers \ {r} : lock[x] = q => lock'[x] = q
      BY <1>1, <1>3, RowsApart DEF Free, TypeOK
    <2> QED
      BY <1>1, <1>3, <2>1, MoveKeeps
  <1> QED
    BY <1>2, <1>3 DEF TakeSession

LEMMA TakeRunKeeps ==
    ASSUME IInv, NEW r \in Callers, NEW next \in {"first", "second"}, pc[r] # "done",
           r \in Authorizations => next = "first", TakeRun(r, next)
    PROVE  IInv'
  <1>1. TypeOK /\ UNCHANGED <<rows, asked, late>> /\ Goto(r, next)
    BY DEF TakeRun, IInv
  <1>2. /\ lock' \in [Rows -> Callers \cup {"none"}]
        /\ \A x \in Rows, q \in Callers \ {r} : lock[x] = q => lock'[x] = q
    BY <1>1, RowsApart DEF TakeRun, Free, TypeOK
  <1> QED
    BY <1>1, <1>2, MoveKeeps

LEMMA IssueKeeps ==
    ASSUME IInv, NEW r \in Issues, IssueLocks(r) \/ IssueEnds(r)
    PROVE  IInv'
  <1>0. r \in Callers /\ r \notin Authorizations /\ TypeOK
    BY RowsApart DEF IInv
  <1>1. CASE IssueLocks(r)
    BY <1>0, <1>1, TakeSessionKeeps, TakeRunKeeps DEF IssueLocks
  <1>2. CASE IssueEnds(r) /\ ~ RunMatches(r)
    BY <1>0, <1>2, RefuseKeeps DEF IssueEnds, rows
  <1>3. CASE IssueEnds(r) /\ RunMatches(r)
    <2>1. /\ bound' = [bound EXCEPT ![r] = {asked[r]}] /\ Goto(r, "done") /\ lock' = Released(r)
          /\ UNCHANGED <<version, open, drifted, revoked, gone, consumed, approved, voided,
                         applied, queued, asked, late>>
      BY <1>3 DEF IssueEnds
    <2>2. /\ pc' \in [Callers -> {"new", "begun", "first", "second", "third", "done", "refused"}]
          /\ pc'[r] = "done"
          /\ \A q \in Callers \ {r} : pc'[q] = pc[q]
      BY <1>0, <2>1, Moves
    <2>3. bound' \in [Issues -> SUBSET Versions]
      BY <1>0, <2>1 DEF TypeOK
    <2>4. TypeOK'
      BY <1>0, <2>1, <2>2, <2>3, ReleasedLocks DEF TypeOK
    <2>5. ChallengeOnce' /\ DecidedBehind' /\ DecidedApart'
      BY <2>1 DEF IInv, ChallengeOnce, DecidedBehind, DecidedApart
    <2>6. ApprovalsSpent'
      BY <1>0, <2>1, <2>2, RowsApart DEF IInv, ApprovalsSpent
    <2>7. SessionHeld'
      BY <1>0, <2>1, <2>2, RowsApart, ReleasedLocks DEF IInv, SessionHeld
    <2> QED
      BY <2>4, <2>5, <2>6, <2>7 DEF IInv
  <1> QED
    BY <1>1, <1>2, <1>3

LEMMA AuthorizeLocksKeeps ==
    ASSUME IInv, NEW r \in Authorizations, AuthorizeLocks(r)
    PROVE  IInv'
  <1>0. r \in Callers /\ TypeOK
    BY RowsApart DEF IInv
  <1>1. CASE pc[r] = "begun" /\ TakeRun(r, "first")
    BY <1>0, <1>1, TakeRunKeeps
  <1>2. CASE pc[r] = "first" /\ TakeSession(r, "second")
    BY <1>0, <1>2, TakeSessionKeeps
  <1>3. CASE pc[r] = "second" /\ drifted /\ Refuse(r) /\ UNCHANGED <<rows, asked, late>>
    BY <1>0, <1>3, RefuseKeeps
  <1>4. CASE /\ pc[r] = "second" /\ ~ drifted /\ Free(token[r])
             /\ lock' = [lock EXCEPT ![token[r]] = r] /\ Goto(r, "third")
             /\ UNCHANGED <<rows, asked, late>>
    <2>1. lock[session[r]] = r /\ session[r] \notin revoked /\ session[r] # token[r]
      BY <1>0, <1>4, RowsApart DEF IInv, SessionHeld
    <2>2. /\ lock' \in [Rows -> Callers \cup {"none"}] /\ lock'[session[r]] = r
          /\ \A x \in Rows, q \in Callers \ {r} : lock[x] = q => lock'[x] = q
      BY <1>0, <1>4, <2>1, RowsApart DEF Free, TypeOK
    <2> QED
      BY <1>0, <1>4, <2>1, <2>2, MoveKeeps
  <1> QED
    BY <1>1, <1>2, <1>3, <1>4 DEF AuthorizeLocks

LEMMA AuthorizeEndsKeeps ==
    ASSUME IInv, NEW r \in Authorizations, AuthorizeEnds(r)
    PROVE  IInv'
  <1>0. r \in Callers /\ TypeOK /\ pc[r] = "third"
    BY RowsApart DEF IInv, AuthorizeEnds
  <1>1. CASE ~ (ChallengeMatches(r) /\ RunMatches(r))
    BY <1>0, <1>1, RefuseKeeps DEF AuthorizeEnds, rows
  <1>2. CASE ChallengeMatches(r) /\ RunMatches(r)
    <2>1. /\ approved' = [approved EXCEPT ![r] = {asked[r]}]
          /\ consumed' = consumed \cup {token[r]} /\ queued' = queued \cup {r}
          /\ Goto(r, "done") /\ lock' = Released(r)
          /\ UNCHANGED <<version, open, drifted, revoked, gone, bound, voided, applied, asked, late>>
      BY <1>2 DEF AuthorizeEnds
    <2>2. /\ pc' \in [Callers -> {"new", "begun", "first", "second", "third", "done", "refused"}]
          /\ pc'[r] = "done"
          /\ \A q \in Callers \ {r} : pc'[q] = pc[q]
      BY <1>0, <2>1, Moves
    <2>3. /\ approved' \in [Authorizations -> SUBSET Versions]
          /\ \A a \in Authorizations \ {r} : approved'[a] = approved[a]
      BY <1>0, <2>1 DEF TypeOK
    <2>4. TypeOK'
      BY <1>0, <2>1, <2>2, <2>3, RowsApart, ReleasedLocks DEF TypeOK
    <2>5. token[r] \notin consumed
      BY <1>2 DEF ChallengeMatches
    <2>6. ChallengeOnce'
      BY <2>3, <2>5 DEF IInv, ChallengeOnce, ApprovalsSpent
    <2>7. ApprovalsSpent'
      BY <1>0, <2>1, <2>2, <2>3, RowsApart DEF IInv, ApprovalsSpent
    <2>8. r \notin applied
      BY <1>0 DEF IInv, DecidedBehind, ApprovalsSpent
    <2>9. applied \subseteq Authorizations
      BY <1>0 DEF TypeOK
    <2>10. DecidedBehind' /\ DecidedApart'
      BY <2>1, <2>3, <2>8, <2>9 DEF IInv, DecidedBehind, DecidedApart
    <2>11. SessionHeld'
      BY <1>0, <2>1, <2>2, RowsApart, ReleasedLocks DEF IInv, SessionHeld
    <2> QED
      BY <2>4, <2>6, <2>7, <2>10, <2>11 DEF IInv
  <1> QED
    BY <1>1, <1>2

LEMMA AbortKeeps == ASSUME IInv, NEW r \in Callers, Abort(r) PROVE IInv'
  <1>1. Wants(r) \in Rows
    BY DEF Abort, WaitsFor
  <1>2. pc[r] # "done"
    BY <1>1, RowsApart DEF Wants
  <1> QED
    BY <1>2, RefuseKeeps DEF Abort

LEMMA LogoutKeeps == ASSUME IInv, NEW s \in Sessions, Logout(s) PROVE IInv'
  <1>1. TypeOK'
    BY DEF IInv, TypeOK, Logout
  <1>2. DecidedBehind' /\ DecidedApart'
    BY DEF IInv, DecidedBehind, DecidedApart, Logout
  <1>3. SessionHeld'
    BY RowsApart DEF IInv, SessionHeld, Logout, Free
  <1> QED
    BY <1>1, <1>2, <1>3, RowsKeep DEF Logout

LEMMA TimeKeeps ==
    ASSUME IInv, Drift \/ \E x \in Sessions \cup Issues : RunsOut(x) PROVE IInv'
  <1>1. TypeOK'
    BY DEF IInv, TypeOK, Drift, RunsOut
  <1>2. UNCHANGED <<version, bound, consumed, approved, voided, applied, revoked, lock, pc, asked,
                    late>>
    BY DEF Drift, RunsOut
  <1>3. DecidedBehind' /\ DecidedApart' /\ SessionHeld'
    BY <1>2 DEF IInv, DecidedBehind, DecidedApart, SessionHeld
  <1> QED
    BY <1>1, <1>2, <1>3, RowsKeep

\* The run moves on, and invalidates at most what is at its gate.
LEMMA AdvanceKeeps ==
    ASSUME IInv, UNCHANGED <<revoked, bound, consumed, approved, lock, pc, asked, late>>,
           Advance, queued' \subseteq queued,
           gone' \subseteq Sessions \cup Issues, voided' \subseteq Authorizations,
           \A a \in voided' \ voided : approved[a] = {version},
           applied' = applied \/
             \E a \in Authorizations : applied' = applied \cup {a} /\ CurrentApproval(a)
                                       /\ voided' = voided
    PROVE  IInv'
  <1>1. TypeOK /\ version \in Nat /\ version' = version + 1 /\ version' \in Versions
    BY ApprovalAssumption DEF IInv, TypeOK, Advance, Versions
  <1>2. TypeOK'
    BY <1>1 DEF TypeOK, Advance
  <1>3. \A a \in applied : approved[a] # {version}
    BY <1>1 DEF IInv, DecidedBehind, Versions
  <1>4. DecidedBehind'
    BY <1>1, <1>3 DEF IInv, DecidedBehind, CurrentApproval, Versions, TypeOK
  <1>5. DecidedApart'
    BY <1>3 DEF IInv, DecidedApart, CurrentApproval
  <1>6. SessionHeld'
    BY DEF IInv, SessionHeld
  <1> QED
    BY <1>2, <1>4, <1>5, <1>6, RowsKeep

LEMMA DecideKeeps == ASSUME IInv, NEW a \in Authorizations, Decide(a) PROVE IInv'
  <1>0. /\ queued' = queued \ {a} /\ TypeOK
        /\ UNCHANGED <<revoked, bound, consumed, approved, lock, pc, asked, late>>
    BY DEF Decide, IInv
  <1>1. CASE /\ CurrentApproval(a) /\ Advance /\ applied' = applied \cup {a}
             /\ UNCHANGED <<voided, gone>>
    BY <1>0, <1>1, AdvanceKeeps DEF TypeOK
  <1>2. CASE Advance /\ InvalidateGate /\ UNCHANGED applied
    BY <1>0, <1>2, AdvanceKeeps DEF TypeOK, InvalidateGate
  <1>3. CASE UNCHANGED <<version, open, drifted, applied, voided, gone>>
    <2>1. TypeOK'
      BY <1>0, <1>3 DEF TypeOK
    <2>2. DecidedBehind' /\ DecidedApart' /\ SessionHeld'
      BY <1>0, <1>3 DEF IInv, DecidedBehind, DecidedApart, SessionHeld
    <2> QED
      BY <1>0, <2>1, <2>2, RowsKeep
  <1> QED
    BY <1>1, <1>2, <1>3 DEF Decide

LEMMA ReviseKeeps == ASSUME IInv, Revise PROVE IInv'
  BY AdvanceKeeps DEF IInv, Revise, TypeOK, InvalidateGate

LEMMA ReopenKeeps == ASSUME IInv, Reopen PROVE IInv'
  <1>1. TypeOK /\ version \in Nat /\ version' = version + 1 /\ version' \in Versions
        /\ UNCHANGED <<drifted, revoked, gone, bound, consumed, approved, voided, applied, queued,
                       lock, pc, asked, late>>
    BY ApprovalAssumption DEF IInv, TypeOK, Reopen, Versions
  <1>2. TypeOK'
    BY <1>1 DEF TypeOK, Reopen
  <1>3. DecidedBehind'
    BY <1>1 DEF IInv, DecidedBehind, Versions
  <1>4. DecidedApart' /\ SessionHeld'
    BY <1>1 DEF IInv, DecidedApart, SessionHeld
  <1> QED
    BY <1>1, <1>2, <1>3, <1>4, RowsKeep

----------------------------------------------------------------------------
(* The theorems.                                                           *)

LEMMA InitHolds == Init => IInv
  <1> SUFFICES ASSUME Init PROVE IInv
    OBVIOUS
  <1>1. 0 \in Versions
    BY ApprovalAssumption DEF Versions
  <1>2. /\ bound \in [Issues -> SUBSET Versions] /\ approved \in [Authorizations -> SUBSET Versions]
        /\ late \in [Callers -> SUBSET (Sessions \cup Issues)]
    BY DEF Init
  <1>3. /\ lock \in [Rows -> Callers \cup {"none"}] /\ asked \in [Callers -> Versions]
        /\ pc \in [Callers -> {"new", "begun", "first", "second", "third", "done", "refused"}]
    BY <1>1 DEF Init
  <1>4. open \in BOOLEAN /\ drifted \in BOOLEAN
    BY DEF Init
  <1>5. TypeOK
    BY <1>1, <1>2, <1>3, <1>4 DEF Init, TypeOK
  <1> QED
    BY <1>5, RowsApart
       DEF Init, IInv, ChallengeOnce, ApprovalsSpent, DecidedBehind, DecidedApart, SessionHeld

LEMMA NextKeeps == IInv /\ [Next]_vars => IInv'
  <1> SUFFICES ASSUME IInv, [Next]_vars PROVE IInv'
    OBVIOUS
  <1>1. CASE UNCHANGED vars
    BY <1>1 DEF vars, rows, IInv, TypeOK, ChallengeOnce, ApprovalsSpent, DecidedBehind,
                DecidedApart, SessionHeld
  <1>2. ASSUME NEW r \in Callers, Step(r) PROVE IInv'
    BY <1>2, IssueKeeps, AuthorizeLocksKeeps, AuthorizeEndsKeeps, AbortKeeps DEF Step
  <1> QED
    BY <1>1, <1>2, BeginKeeps, LogoutKeeps, TimeKeeps, DecideKeeps, ReviseKeeps, ReopenKeeps
       DEF Next

\* Challenges, approvals, decisions and held sessions are consistent at every
\* step of the requests.
THEOREM InvariantHolds == Spec => []IInv
  BY InitHolds, NextKeeps, PTL DEF Spec

\* However many requests present a challenge at once it buys one approval, and
\* however approvals, revisions and drift interleave a gate takes one decision.
THEOREM DecidedByOneOnly == Spec => []DecidedByOne
  <1>1. IInv => DecidedByOne
    BY DEF IInv, DecidedByOne, OneDecisionPerGate, DecidedBehind, DecidedApart
  <1> QED
    BY <1>1, InvariantHolds, PTL

\* Only the last step of an authorization writes an approval.
LEMMA ApprovalStep ==
    ASSUME IInv, Next, NEW a \in Authorizations, approved'[a] # approved[a]
    PROVE  /\ AuthorizeEnds(a) /\ ChallengeMatches(a) /\ RunMatches(a)
           /\ approved'[a] = {asked[a]}
  <1>1. PICK r \in Authorizations : AuthorizeEnds(r) /\ ChallengeMatches(r) /\ RunMatches(r)
    <2>1. CASE \E r \in Callers : Begin(r) \/ Abort(r)
      BY <2>1 DEF Begin, Abort, rows
    <2>2. CASE \E r \in Issues : IssueLocks(r) \/ IssueEnds(r)
      BY <2>2 DEF IssueLocks, IssueEnds, TakeSession, TakeRun, rows
    <2>3. CASE \E r \in Authorizations : AuthorizeLocks(r)
      BY <2>3 DEF AuthorizeLocks, TakeSession, TakeRun, rows
    <2>4. CASE \E r \in Authorizations : AuthorizeEnds(r)
      BY <2>4 DEF AuthorizeEnds
    <2>5. CASE \/ \E s \in Sessions : Logout(s)
               \/ \E x \in Sessions \cup Issues : RunsOut(x)
               \/ \E b \in Authorizations : Decide(b)
               \/ Drift \/ Revise \/ Reopen
      BY <2>5 DEF Logout, RunsOut, Decide, Drift, Revise, Reopen
    <2> QED
      BY <2>1, <2>2, <2>3, <2>4, <2>5 DEF Next, Step
  <1>2. approved' = [approved EXCEPT ![r] = {asked[r]}]
    BY <1>1 DEF AuthorizeEnds
  <1>3. r = a /\ approved'[a] = {asked[a]}
    BY <1>2 DEF IInv, TypeOK
  <1> QED
    BY <1>1, <1>3

\* When an approval commits, no logout has revoked its session, the run is at
\* the very gate it was asked for, and its challenge belongs to the session.
THEOREM AlwaysAuthorizedInForce == Spec => AuthorizedInForce
  <1>1. IInv /\ [Next]_vars =>
          /\ [\A a \in Authorizations :
                approved'[a] # approved[a] => session[a] \notin revoked]_vars
          /\ [\A a \in Authorizations : approved'[a] # approved[a] =>
                open /\ approved'[a] = {version} /\ session[token[a]] = session[a]]_vars
    <2> SUFFICES ASSUME IInv, Next, NEW a \in Authorizations, approved'[a] # approved[a]
                 PROVE  /\ session[a] \notin revoked
                        /\ open /\ approved'[a] = {version} /\ session[token[a]] = session[a]
      OBVIOUS
    <2>1. /\ AuthorizeEnds(a) /\ ChallengeMatches(a) /\ RunMatches(a)
          /\ approved'[a] = {asked[a]}
      BY ApprovalStep
    <2>2. session[a] \notin revoked
      BY <2>1 DEF AuthorizeEnds, IInv, SessionHeld
    <2> QED
      BY <2>1, <2>2 DEF ChallengeMatches, RunMatches
  <1> QED
    BY <1>1, InvariantHolds, PTL
       DEF Spec, AuthorizedInForce, RevokedNeverAuthorizes, AuthorizedAtItsGate

=============================================================================
