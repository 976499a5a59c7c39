------------------------------ MODULE RowLocks ------------------------------
(***************************************************************************)
(* The row locks that the transactions of the command queue take, one by   *)
(* one, on a run's row and on the rows of its commands.  CommandQueue and  *)
(* RunLifecycle take a transaction for one step; here a session that finds *)
(* a row locked waits for it, and sessions that wait for each other are a  *)
(* deadlock PostgreSQL ends by failing one of them: a claim that fails     *)
(* ends its worker's process, a handler that fails ends its command.       *)
(*                                                                         *)
(* A claimant locks a command and then its run.  A handler's first         *)
(* statement appends an event, which locks the run, and what it then asks  *)
(* of commands goes the other way.                                         *)
(***************************************************************************)
EXTENDS Naturals, FiniteSets

CONSTANTS
    Workers,        \* worker processes; each polls the normal and the control lane
    Types,          \* the type of each command of the run, in claim order
    MaxExpiries,    \* bound: leases that run out
    none

LocksAssumption ==
    /\ MaxExpiries \in Nat
    /\ DOMAIN Types = 1..Cardinality(DOMAIN Types)
    /\ \A c \in DOMAIN Types : Types[c] \in {"validate", "pause", "resume"}

VARIABLES
    paused,     \* the run's state, as far as a claim asks for it
    status,     \* per command: absent, PENDING, LEASED, EXPIRED (its lease ran out) or DONE
    owner,      \* per command: the delivery that holds or held its lease
    held,       \* per row: the session that has locked it, or none
    session,    \* per session: where its transaction stands
    expiries

vars == <<paused, status, owner, held, session, expiries>>

Commands == DOMAIN Types

\* A lane's worker keeps one session for what it claims and handles, and one
\* that renews the lease of what it is handling.
Lanes == {"normal", "control"}

Handlers == Workers \X Lanes

Sessions == (Handlers \X {"main", "renewal"}) \cup {<<"api">>}

Main(h) == <<h, "main">>

Renewal(h) == <<h, "renewal">>

Api == <<"api">>

Run == 0

Rows == {Run} \cup Commands

LaneOf(c) == IF Types[c] = "pause" THEN "control" ELSE "normal"

\* at is the point of the transaction: idle, claiming (between two candidates),
\* choosing (its candidate is locked), started (a command is leased and no
\* transaction is open), logged (command.started is appended), fenced (the
\* delivery was compared with its locked row), settled (to be acknowledged),
\* and the one row each that a renewal, an acknowledgement or an enqueue locks.
\* wants is the row it waits for, attempt the delivery it belongs to.
Idle == [at |-> "idle", cmd |-> none, attempt |-> 0, wants |-> none, skipped |-> {}]

Init ==
    /\ paused = FALSE
    /\ status = [c \in Commands |-> IF c = 1 THEN "PENDING" ELSE "absent"]
    /\ owner = [c \in Commands |-> [handler |-> none, attempt |-> 0]]
    /\ held = [row \in Rows |-> none]
    /\ session = [s \in Sessions |-> Idle]
    /\ expiries = 0

----------------------------------------------------------------------------
(* Locks.                                                                  *)

Waiting(s) == session[s].wants # none

Release(s) == [row \in Rows |-> IF held[row] = s THEN none ELSE held[row]]

Step(s, at) == session' = [session EXCEPT ![s].at = at]

\* FOR UPDATE: the row is taken when it is free, or is the session's already.
Grant(s) ==
    /\ Waiting(s)
    /\ held[session[s].wants] \in {none, s}
    /\ held' = [held EXCEPT ![session[s].wants] = s]
    /\ session' = [session EXCEPT ![s].wants = none]
    /\ UNCHANGED <<paused, status, owner, expiries>>

\* A transaction ends, by commit or rollback, with the session at `at`.
End(s, at) ==
    /\ held' = Release(s)
    /\ session' = [session EXCEPT
                     ![s] = IF at = "idle" THEN Idle ELSE [@ EXCEPT !.at = at, !.wants = none]]

----------------------------------------------------------------------------
(* claim_next.                                                             *)

\* FOR UPDATE SKIP LOCKED.
Unlocked(c) == held[c] = none

Eligible(h, c) ==
    /\ LaneOf(c) = h[2]
    /\ status[c] \in {"PENDING", "EXPIRED"}
    /\ c \notin session[Main(h)].skipped

LockCandidate(h) ==
    LET s == Main(h)
        found == {c \in Commands : Eligible(h, c) /\ Unlocked(c)}
    IN  /\ session[s].at \in {"idle", "claiming"} /\ ~ Waiting(s)
        /\ \E c \in found :
             /\ \A d \in found : c <= d
             /\ held' = [held EXCEPT ![c] = s]
             /\ session' = [session EXCEPT ![s].at = "choosing", ![s].cmd = c, ![s].wants = Run]
        /\ UNCHANGED <<paused, status, owner, expiries>>

\* The run is locked: what its state and its other leases allow.
Blocked(h, c) ==
    LET leased == {d \in Commands \ {c} : status[d] = "LEASED"} IN
    IF h[2] = "control" THEN \E d \in leased : LaneOf(d) = "control"
    ELSE \/ paused /\ Types[c] # "resume"
         \/ leased # {}
         \/ \E d \in Commands : status[d] = "PENDING" /\ LaneOf(d) = "control"

LeaseCandidate(h) ==
    LET s == Main(h)
        c == session[s].cmd
    IN  /\ session[s].at = "choosing" /\ ~ Waiting(s)
        /\ ~ Blocked(h, c)
        /\ status' = [status EXCEPT ![c] = "LEASED"]
        /\ owner' = [owner EXCEPT ![c] = [handler |-> h, attempt |-> @.attempt + 1]]
        /\ held' = Release(s)
        /\ session' = [session EXCEPT
                         ![s] = [Idle EXCEPT !.at = "started", !.cmd = c,
                                             !.attempt = owner[c].attempt + 1]]
        /\ UNCHANGED <<paused, expiries>>

\* A blocked candidate stays locked, and its run too, while the next is sought.
Skip(h) ==
    LET s == Main(h) IN
    /\ session[s].at = "choosing" /\ ~ Waiting(s)
    /\ Blocked(h, session[s].cmd)
    /\ session' = [session EXCEPT ![s].at = "claiming",
                                  ![s].skipped = @ \cup {session[s].cmd}]
    /\ UNCHANGED <<paused, status, owner, held, expiries>>

FoundNothing(h) ==
    /\ session[Main(h)].at = "claiming"
    /\ ~ \E c \in Commands : Eligible(h, c) /\ Unlocked(c)
    /\ End(Main(h), "idle")
    /\ UNCHANGED <<paused, status, owner, expiries>>

----------------------------------------------------------------------------
(* A delivery: Worker._process_handler and the handler it calls.           *)

\* _require_owned_lease and the attempt.
Current(s, c) ==
    /\ status[c] = "LEASED"
    /\ owner[c] = [handler |-> s[1], attempt |-> session[s].attempt]

\* events.append locks the run.
AppendStarted(h) ==
    /\ session[Main(h)].at = "started"
    /\ session' = [session EXCEPT ![Main(h)].at = "logged", ![Main(h)].wants = Run]
    /\ UNCHANGED <<paused, status, owner, held, expiries>>

\* assert_current_lease(command): the delivery's row, waited for.
AskFence(h) ==
    LET s == Main(h) IN
    /\ session[s].at = "logged" /\ ~ Waiting(s)
    /\ Types[session[s].cmd] \in {"pause", "resume"}
    /\ session' = [session EXCEPT ![s].at = "fencing", ![s].wants = session[s].cmd]
    /\ UNCHANGED <<paused, status, owner, held, expiries>>

\* The lease is still the delivery's own, or this delivery is over.
Fence(h) ==
    LET s == Main(h)
        c == session[s].cmd
    IN  /\ session[s].at = "fencing" /\ ~ Waiting(s)
        /\ \/ /\ Current(s, c)
              /\ Step(s, "fenced") /\ UNCHANGED held
           \/ ~ Current(s, c) /\ End(s, "idle")
        /\ UNCHANGED <<paused, status, owner, expiries>>

\* Mutant: a row that is locked is waited for.
FenceWaiting(h) ==
    LET s == Main(h) IN
    /\ session[s].at = "logged" /\ ~ Waiting(s)
    /\ Types[session[s].cmd] = "validate"
    /\ session' = [session EXCEPT ![s].at = "fencing", ![s].wants = session[s].cmd]
    /\ UNCHANGED <<paused, status, owner, held, expiries>>

\* assert_current_lease(command, wait=False), as validation asks for it: a row
\* that is locked ends the delivery, which stays leased for another one.
FenceNoWait(h) ==
    LET s == Main(h)
        c == session[s].cmd
    IN  /\ session[s].at = "logged" /\ ~ Waiting(s)
        /\ Types[c] = "validate"
        /\ \/ held[c] \in {none, s} /\ Current(s, c)
                /\ held' = [held EXCEPT ![c] = s] /\ Step(s, "fenced")
           \/ ~ (held[c] \in {none, s} /\ Current(s, c)) /\ End(s, "idle")
        /\ UNCHANGED <<paused, status, owner, expiries>>

\* The rows list_outstanding_normal locks, oldest first, for a resume.
OtherWork(s) ==
    {c \in Commands : /\ LaneOf(c) = "normal" /\ c # session[s].cmd
                      /\ status[c] \in {"PENDING", "LEASED", "EXPIRED"}
                      /\ held[c] # s}

AskOthers(h) ==
    LET s == Main(h) IN
    /\ session[s].at = "fenced" /\ ~ Waiting(s)
    /\ Types[session[s].cmd] = "resume" /\ paused
    /\ \E c \in OtherWork(s) :
         /\ \A d \in OtherWork(s) : c <= d
         /\ session' = [session EXCEPT ![s].wants = c]
    /\ UNCHANGED <<paused, status, owner, held, expiries>>

\* The handler commits: a pause or a resume changes the run, and a resume
\* settles the deliveries it has locked.
Commit(h) ==
    LET s == Main(h)
        type == Types[session[s].cmd]
        others == {c \in Commands \ {session[s].cmd} : held[c] = s}
    IN  /\ session[s].at = "fenced" /\ ~ Waiting(s)
        /\ type = "resume" /\ paused => OtherWork(s) = {}
        /\ paused' = (type = "pause" \/ (type # "resume" /\ paused))
        /\ status' = [c \in Commands |-> IF c \in others THEN "DONE" ELSE status[c]]
        /\ End(s, "settled")
        /\ UNCHANGED <<owner, expiries>>

\* complete: the row alone, in a transaction of its own.
AskAcknowledge(h) ==
    LET s == Main(h) IN
    /\ session[s].at = "settled" /\ ~ Waiting(s)
    /\ session' = [session EXCEPT ![s].at = "acknowledging", ![s].wants = session[s].cmd]
    /\ UNCHANGED <<paused, status, owner, held, expiries>>

Acknowledge(h) ==
    LET s == Main(h)
        c == session[s].cmd
    IN  /\ session[s].at = "acknowledging" /\ ~ Waiting(s)
        /\ status' = IF Current(s, c) THEN [status EXCEPT ![c] = "DONE"] ELSE status
        /\ End(s, "idle")
        /\ UNCHANGED <<paused, owner, expiries>>

\* renew: the row alone, while the delivery is handled.
AskRenewal(h) ==
    /\ session[Main(h)].at \in {"started", "logged", "fencing", "fenced", "settled", "acknowledging"}
    /\ session[Renewal(h)].at = "idle"
    /\ session' = [session EXCEPT
                     ![Renewal(h)] = [session[Main(h)] EXCEPT !.at = "renewing",
                                                              !.wants = session[Main(h)].cmd]]
    /\ UNCHANGED <<paused, status, owner, held, expiries>>

\* A renewal that finds the lease lost cancels its handler.
Renew(h) ==
    LET s == Renewal(h) IN
    /\ session[s].at = "renewing" /\ ~ Waiting(s)
    /\ \/ End(s, "idle")
       \/ /\ ~ Current(s, session[s].cmd)
          /\ session[Main(h)].cmd = session[s].cmd
          /\ session[Main(h)].attempt = session[s].attempt
          /\ held' = [row \in Rows |-> IF held[row] \in {s, Main(h)} THEN none ELSE held[row]]
          /\ session' = [session EXCEPT ![s] = Idle, ![Main(h)] = Idle]
    /\ UNCHANGED <<paused, status, owner, expiries>>

----------------------------------------------------------------------------
\* RunCommandService.enqueue: the run, and then a new row.
AskEnqueue ==
    /\ session[Api].at = "idle"
    /\ \E c \in Commands : status[c] = "absent"
    /\ session' = [session EXCEPT ![Api].at = "enqueueing", ![Api].wants = Run]
    /\ UNCHANGED <<paused, status, owner, held, expiries>>

Enqueue ==
    /\ session[Api].at = "enqueueing" /\ ~ Waiting(Api)
    /\ \E c \in Commands :
         /\ status[c] = "absent" /\ \A d \in Commands : d < c => status[d] # "absent"
         /\ status' = IF Types[c] = "resume" /\ ~ paused
                      THEN status ELSE [status EXCEPT ![c] = "PENDING"]
    /\ End(Api, "idle")
    /\ UNCHANGED <<paused, owner, expiries>>

Expire(c) ==
    /\ status[c] = "LEASED"
    /\ expiries < MaxExpiries /\ expiries' = expiries + 1
    /\ status' = [status EXCEPT ![c] = "EXPIRED"]
    /\ UNCHANGED <<paused, owner, held, session>>

Next ==
    \/ \E s \in Sessions : Grant(s)
    \/ \E h \in Handlers :
         \/ LockCandidate(h) \/ LeaseCandidate(h) \/ Skip(h) \/ FoundNothing(h)
         \/ AppendStarted(h) \/ AskFence(h) \/ Fence(h) \/ FenceNoWait(h)
         \/ AskOthers(h) \/ Commit(h) \/ AskAcknowledge(h) \/ Acknowledge(h)
         \/ AskRenewal(h) \/ Renew(h)
    \/ AskEnqueue \/ Enqueue
    \/ \E c \in Commands : Expire(c)

Spec == Init /\ [][Next]_vars

----------------------------------------------------------------------------
(* Properties.                                                             *)

\* Every column, lock and session keeps its type.
TypeOK ==
    /\ paused \in BOOLEAN
    /\ status \in [Commands -> {"absent", "PENDING", "LEASED", "EXPIRED", "DONE"}]
    /\ owner \in [Commands -> [handler : Handlers \cup {none}, attempt : Nat]]
    /\ held \in [Rows -> Sessions \cup {none}]
    /\ \A s \in Sessions : /\ session[s].wants \in Rows \cup {none}
                           /\ session[s].cmd \in Commands \cup {none}
                           /\ session[s].skipped \subseteq Commands
    /\ expiries \in 0..MaxExpiries

\* Sessions that wait for each other, round and round.
WaitCycle(S) == \A s \in S : Waiting(s) /\ held[session[s].wants] \in S \ {s}

\* No sessions wait for each other's rows: a settlement that holds the run and
\* wants its command gives up when the row is locked (assert_current_lease with
\* wait=False), a claimant never waits for a command (SKIP LOCKED), and a
\* renewal, an acknowledgement and an enqueue lock one row each.
NoLockCycle == \A S \in SUBSET Sessions \ {{}} : ~ WaitCycle(S)

\* From its fence to its commit a delivery keeps its command's row locked, so
\* that nobody has reclaimed it when its decision commits, though its lease may
\* have run out in between.
FenceKept ==
    \A h \in Handlers :
        LET s == Main(h) IN
        session[s].at = "fenced" =>
            owner[session[s].cmd] = [handler |-> h, attempt |-> session[s].attempt]

=============================================================================
