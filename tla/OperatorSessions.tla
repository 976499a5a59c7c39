--------------------------- MODULE OperatorSessions --------------------------
(***************************************************************************)
(* Operator credentials: application/services/auth.py over                 *)
(* persistence/repositories/auth.py.  Bootstrap tokens and sessions are    *)
(* rows of one table; each request is a transaction of its own at READ     *)
(* COMMITTED.  What a request wrote is seen when it commits, a row another *)
(* request holds is waited for and read again, and an UPDATE of many rows  *)
(* takes the ones that matched when it began, one by one.                  *)
(*                                                                         *)
(* A request reads its clock before it waits, so it judges expiry as of    *)
(* its beginning.  Tokens are their rows: nobody guesses one.              *)
(***************************************************************************)
EXTENDS Naturals, FiniteSets

CONSTANTS
    Requests,
    kind,       \* [Requests -> the service operation it calls]
    target,     \* [Requests -> the row its token names]
    fresh,      \* [Requests -> the row it inserts]
    Bootstraps, Sessions,
    MaxExpired  \* bound: rows whose expiries pass

Kinds == {"issue", "exchange", "local", "rotate", "require", "logout"}

Rows == Bootstraps \cup Sessions

ASSUME SessionAssumption ==
    /\ Bootstraps \cap Sessions = {} /\ MaxExpired \in Nat
    /\ "none" \notin Requests \cup Rows
    /\ kind \in [Requests -> Kinds]
    /\ target \in [Requests -> Rows \cup {"none"}]
    /\ fresh \in [Requests -> Rows \cup {"none"}]
    /\ \A p \in Requests :
        /\ kind[p] \in {"issue", "rotate"} => fresh[p] \in Bootstraps
        /\ kind[p] \in {"exchange", "local"} => fresh[p] \in Sessions
        /\ kind[p] = "exchange" => target[p] \in Bootstraps
        /\ kind[p] \in {"require", "logout"} => target[p] \in Sessions
        /\ \A q \in Requests : fresh[p] = fresh[q] /\ fresh[p] # "none" => p = q

VARIABLES
    status,     \* [Rows -> absent, live, or spent: used or revoked]
    idle, over, \* rows whose idle expiry, or whose last expiry, has passed
    lock,       \* [Rows -> the request that holds the row]
    pc,
    late,       \* [Requests -> its row had expired when it read its clock]
    todo,       \* [Requests -> rows its running UPDATE has still to take]
    origin,     \* history: [Sessions -> the bootstrap it was exchanged for]
    known       \* history: [Requests -> rows live when a rotation began]

vars == <<status, idle, over, lock, pc, late, todo, origin, known>>

Live == {x \in Rows : status[x] = "live"}

TypeOK ==
    /\ status \in [Rows -> {"absent", "live", "spent"}]
    /\ idle \subseteq Rows /\ over \subseteq Rows
    /\ lock \in [Rows -> Requests \cup {"none"}]
    /\ pc \in [Requests -> {"new", "begun", "locked", "bootstraps", "sessions", "done", "refused"}]
    /\ late \in [Requests -> BOOLEAN]
    /\ todo \in [Requests -> SUBSET Rows]
    /\ origin \in [Sessions -> Bootstraps \cup {"none"}]
    /\ known \in [Requests -> SUBSET Rows]

Init ==
    /\ status \in [Rows -> {"absent", "live"}]
    /\ \A p \in Requests : fresh[p] # "none" => status[fresh[p]] = "absent"
    /\ idle = {} /\ over = {}
    /\ lock = [x \in Rows |-> "none"]
    /\ pc = [p \in Requests |-> "new"]
    /\ late = [p \in Requests |-> FALSE]
    /\ todo = [p \in Requests |-> {}]
    /\ origin = [s \in Sessions |-> "none"]
    /\ known = [p \in Requests |-> {}]

Held(p) == {x \in Rows : lock[x] = p}
Released(p) == [x \in Rows |-> IF lock[x] = p THEN "none" ELSE lock[x]]
Free(p, x) == lock[x] \in {"none", p}

----------------------------------------------------------------------------
\* A credential's time runs out: idle for a session, or the last expiry.
Expire ==
    /\ Cardinality(idle \cup over) < MaxExpired
    /\ \/ \E s \in Sessions \ idle : status[s] = "live" /\ idle' = idle \cup {s} /\ UNCHANGED over
       \/ \E x \in Live \ over : over' = over \cup {x} /\ UNCHANGED idle
    /\ UNCHANGED <<status, lock, pc, late, todo, origin, known>>

\* Every operation reads its clock and opens a unit of work.
Begin(p) ==
    /\ pc[p] = "new"
    /\ pc' = [pc EXCEPT ![p] = "begun"]
    /\ late' = [late EXCEPT ![p] = target[p] \in idle \cup over]
    /\ known' = [known EXCEPT ![p] = IF kind[p] = "rotate" THEN Live ELSE {}]
    /\ UNCHANGED <<status, idle, over, lock, todo, origin>>

\* _bootstrap_is_valid, _session_is_valid.
Valid(p, x) == status[x] = "live" /\ ~ late[p]

\* issue_bootstrap and create_local_session insert a row.
Insert(p) ==
    /\ kind[p] \in {"issue", "local"} /\ pc[p] = "begun"
    /\ status' = [status EXCEPT ![fresh[p]] = "live"]
    /\ pc' = [pc EXCEPT ![p] = "done"]
    /\ UNCHANGED <<idle, over, lock, late, todo, origin, known>>

\* Mutant: the bootstrap is read without its lock.
ReadBootstrap(p) ==
    /\ kind[p] = "exchange" /\ pc[p] = "begun"
    /\ pc' = [pc EXCEPT ![p] = IF Valid(p, target[p]) THEN "locked" ELSE "refused"]
    /\ UNCHANGED <<status, idle, over, lock, late, todo, origin, known>>

\* exchange_bootstrap: consume_bootstrap locks the row and reads it.
LockBootstrap(p) ==
    /\ kind[p] = "exchange" /\ pc[p] = "begun"
    /\ Free(p, target[p])
    /\ IF Valid(p, target[p])
       THEN lock' = [lock EXCEPT ![target[p]] = p] /\ pc' = [pc EXCEPT ![p] = "locked"]
       ELSE UNCHANGED lock /\ pc' = [pc EXCEPT ![p] = "refused"]
    /\ UNCHANGED <<status, idle, over, late, todo, origin, known>>

\* It commits the use of the bootstrap together with the new session.
CommitExchange(p) ==
    /\ kind[p] = "exchange" /\ pc[p] = "locked"
    /\ status' = [status EXCEPT ![target[p]] = "spent", ![fresh[p]] = "live"]
    /\ origin' = [origin EXCEPT ![fresh[p]] = target[p]]
    /\ lock' = Released(p)
    /\ pc' = [pc EXCEPT ![p] = "done"]
    /\ UNCHANGED <<idle, over, late, todo, known>>

\* Mutant: rotation revokes the sessions before the bootstraps.
ScanSwapped(p) ==
    /\ kind[p] = "rotate"
    /\ \/ pc[p] = "begun" /\ pc' = [pc EXCEPT ![p] = "bootstraps"]
          /\ todo' = [todo EXCEPT ![p] = Live \cap Sessions]
       \/ pc[p] = "bootstraps" /\ todo[p] = {} /\ pc' = [pc EXCEPT ![p] = "sessions"]
          /\ todo' = [todo EXCEPT ![p] = Live \cap Bootstraps]
    /\ UNCHANGED <<status, idle, over, lock, late, origin, known>>

\* rotate, revoke_all: an UPDATE of the unused bootstraps, then one of the
\* unrevoked sessions.  Each matches the rows committed when it begins.
Scan(p) ==
    /\ kind[p] = "rotate"
    /\ \/ pc[p] = "begun" /\ pc' = [pc EXCEPT ![p] = "bootstraps"]
          /\ todo' = [todo EXCEPT ![p] = Live \cap Bootstraps]
       \/ pc[p] = "bootstraps" /\ todo[p] = {} /\ pc' = [pc EXCEPT ![p] = "sessions"]
          /\ todo' = [todo EXCEPT ![p] = Live \cap Sessions]
    /\ UNCHANGED <<status, idle, over, lock, late, origin, known>>

\* The UPDATE takes a row; one that was spent while it waited no longer matches.
RevokeRow(p) ==
    \E x \in todo[p] :
        /\ Free(p, x)
        /\ lock' = IF status[x] = "live" THEN [lock EXCEPT ![x] = p] ELSE lock
        /\ todo' = [todo EXCEPT ![p] = todo[p] \ {x}]
        /\ UNCHANGED <<status, idle, over, pc, late, origin, known>>

\* rotate commits the revocations together with its new bootstrap.
CommitRotate(p) ==
    /\ kind[p] = "rotate" /\ pc[p] = "sessions" /\ todo[p] = {}
    /\ status' = [x \in Rows |-> IF x \in Held(p) THEN "spent"
                                 ELSE IF x = fresh[p] THEN "live" ELSE status[x]]
    /\ lock' = Released(p)
    /\ pc' = [pc EXCEPT ![p] = "done"]
    /\ UNCHANGED <<idle, over, late, todo, origin, known>>

\* require_session locks the row, judges it and slides its idle expiry, never
\* past the absolute one.
Authenticate(p) ==
    /\ kind[p] = "require" /\ pc[p] = "begun"
    /\ Free(p, target[p])
    /\ IF Valid(p, target[p])
       THEN idle' = idle \ {target[p]} /\ pc' = [pc EXCEPT ![p] = "done"]
       ELSE UNCHANGED idle /\ pc' = [pc EXCEPT ![p] = "refused"]
    /\ UNCHANGED <<status, over, lock, late, todo, origin, known>>

\* logout: an UPDATE of one row, revoked or not.
Logout(p) ==
    /\ kind[p] = "logout" /\ pc[p] = "begun"
    /\ Free(p, target[p])
    /\ status' = [status EXCEPT ![target[p]] = IF @ = "live" THEN "spent" ELSE @]
    /\ pc' = [pc EXCEPT ![p] = "done"]
    /\ UNCHANGED <<idle, over, lock, late, todo, origin, known>>

\* Two rotations wait for each other: the database aborts one.
Abort(p) ==
    /\ \E q \in Requests \ {p} :
        /\ todo[p] # {} /\ \A x \in todo[p] : ~ Free(p, x)
        /\ todo[q] # {} /\ \A x \in todo[q] : ~ Free(q, x)
        /\ \E x \in todo[p] : lock[x] = q
        /\ \E x \in todo[q] : lock[x] = p
    /\ lock' = Released(p)
    /\ todo' = [todo EXCEPT ![p] = {}]
    /\ pc' = [pc EXCEPT ![p] = "refused"]
    /\ UNCHANGED <<status, idle, over, late, origin, known>>

Step(p) ==
    \/ Insert(p) \/ LockBootstrap(p) \/ CommitExchange(p) \/ Scan(p) \/ RevokeRow(p)
    \/ CommitRotate(p) \/ Authenticate(p) \/ Logout(p) \/ Abort(p)

Next ==
    \/ \E p \in Requests : Begin(p) \/ Step(p)
    \/ Expire

Spec == Init /\ [][Next]_vars

\* A transaction under way is driven by the event loop that began it.
Fairness == \A p \in Requests : WF_vars(Step(p))

FairSpec == Spec /\ Fairness

----------------------------------------------------------------------------
(* Properties.                                                             *)

\* A bootstrap token buys one session, however many exchanges present it at
\* once (auth.py exchange_bootstrap, consume_bootstrap's row lock).
BootstrapOnce ==
    \A s, t \in Sessions : origin[s] = origin[t] /\ origin[s] # "none" => s = t

\* After a rotation commits, no credential that existed when it began is
\* usable, nor a session bought with such a bootstrap while it ran (auth.py
\* rotate: "Revoke every prior credential").
RotationRevokes ==
    \A p \in Requests : kind[p] = "rotate" /\ pc[p] = "done" =>
        \A x \in Live :
            /\ x \notin known[p]
            /\ x \in Sessions => origin[x] \notin known[p]

\* Every request that began ends, even when rotations wait for each other
\* (auth.py units of work).
RequestsEnd == []<>(\A p \in Requests : pc[p] # "begun")

=============================================================================
